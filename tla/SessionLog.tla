----------------------------- MODULE SessionLog -----------------------------
(***************************************************************************)
(* The logs of the sessions: files of one line per event, the states in    *)
(* memory that append to them, the view of the interface, which switches   *)
(* between them, and the turns, which pin the state they were submitted    *)
(* to.  The interface is one thread, and its operations are atomic to the  *)
(* turns.                                                                  *)
(*                                                                         *)
(* A file is its complete lines and the bytes after the last newline.      *)
(* Nothing is synced and no error of a write is looked at, so a crash      *)
(* leaves any prefix of a file, which may end in the middle of a line or   *)
(* of a character.                                                         *)
(***************************************************************************)
EXTENDS Integers, SequencesExt

CONSTANTS
  Files,         \* names of session files
  Project,       \* file -> the project whose directory it is in
  Turns,         \* the inputs the user submits
  Handles,       \* identities of states in memory; some are free at any time
  Keep,          \* how many files of a project fresh() leaves
  MaxCuts,       \* bound on the crashes, which cut files
  Nothing        \* no handle, no tail

ASSUME SessionAssumption ==
  /\ Keep \in Nat /\ MaxCuts \in Nat
  /\ Files # {} /\ 0 \notin Turns
  /\ Nothing \notin Handles

VARIABLES
  disk,      \* file -> [lines, tail], or Nothing when it is not there
  ages,      \* the files that are there, the one written last at the end
  used,      \* file names that were ever given out
  state,     \* handle -> [file, events, writer, torn]
  view,      \* the handle the interface shows, or Nothing while it is down
  pinned,    \* turn -> the handle it appends to, or Nothing
  phase,     \* turn -> "new", "started", "spoke", "delivered", "over"
  crashed    \* crashes so far

sessionVars == <<disk, ages, used, state, view, pinned, phase, crashed>>

Event(kind, t) == [kind |-> kind, turn |-> t]
\* Lines and tails that are no events: no parser takes Torn, and with Broken,
\* which ends inside a character, no decoder takes the file.
Torn   == Event("torn", 0)
Broken == Event("broken", 0)
IsEvent(line) == line.kind \notin {"torn", "broken"}
NoTail == Event("none", 0)

EventKinds == {"TurnStart", "Output", "Delivery", "TurnEnd"}
Lines == [kind : EventKinds \cup {"torn", "broken"}, turn : Turns \cup {0}]

\* No file and no handle is Nothing, and memory has room for another state
\* whatever the turns and the view hold.
ASSUME HandlesAssumption ==
  /\ Nothing \notin [lines : Seq(Lines), tail : Lines \cup {NoTail}]
  /\ \A held \in [Turns -> Handles \cup {Nothing}], shown \in Handles \cup {Nothing} :
       \E h \in Handles : h # shown /\ \A t \in Turns : held[t] # h

NewFile == [lines |-> <<>>, tail |-> NoTail]
Exists(f) == disk[f] # Nothing

\* The elements of a sequence that are in a set.
Kept(seq, S) ==
  LET upto[i \in 0 .. Len(seq)] == IF i = 0 THEN <<>>
                                  ELSE IF seq[i] \in S THEN Append(upto[i - 1], seq[i]) ELSE upto[i - 1]
  IN  upto[Len(seq)]

\* load_file: read_to_string fails as a whole; a line that does not parse is
\* skipped; a last line without its newline is taken if it parses.
Loaded(d) ==
  LET all == IF d.tail = NoTail THEN d.lines ELSE Append(d.lines, d.tail)
  IN  IF \E n \in DOMAIN all : all[n].kind = "broken" THEN <<>>
      ELSE Kept(all, {e \in Lines : IsEvent(e)})

\* A file that no crash has cut: what it holds is what was written.
Whole(d) == d.tail = NoTail /\ \A n \in DOMAIN d.lines : IsEvent(d.lines[n])

\* writeln!: what it writes shares its line with a tail that is there.
Written(d, e) ==
  [lines |-> Append(d.lines, IF d.tail = NoTail THEN e
                             ELSE IF d.tail.kind = "broken" THEN Broken ELSE Torn),
   tail |-> NoTail]

WriteAll(d, es) ==
  LET after[n \in 0 .. Len(es)] == IF n = 0 THEN d ELSE Written(after[n - 1], es[n])
  IN  after[Len(es)]

----------------------------------------------------------------------------
(* Handles *)

Live(h) == h = view \/ \E t \in Turns : pinned[t] = h

\* The cache holds its states weakly: the one that is alive, if there is one.
Cached(f) == {h \in Handles : Live(h) /\ state[h].file = f}

FreeHandle == CHOOSE h \in Handles : ~Live(h)

Fresh(f) == [file |-> f, events |-> <<>>, writer |-> "none", torn |-> FALSE]

\* Mutant: an interrupted turn gets a report although it has one.
ClosingAgain(events) ==
  IF events = <<>> \/ Last(events).kind = "TurnEnd" THEN <<>>
  ELSE <<Event("Delivery", 0), Event("Output", 0), Event("TurnEnd", 0)>>

\* close_interrupted_turn: the reason first, unless the turn has a report.
Closing(events) ==
  LET told == \E n \in DOMAIN events :
                events[n].kind = "Delivery" /\ \A k \in n .. Len(events) : events[k].kind # "TurnStart"
  IN  IF events = <<>> \/ Last(events).kind = "TurnEnd" THEN <<>>
      ELSE IF told THEN <<Event("Output", 0), Event("TurnEnd", 0)>>
      ELSE <<Event("Delivery", 0), Event("Output", 0), Event("TurnEnd", 0)>>

\* Appends es through handle record s; the file is created when the writer is
\* opened, and what an open writer writes to a removed file is gone with it.
Appended(s, es) == [s EXCEPT !.events = @ \o es,
                             !.writer = IF @ = "none" /\ es # <<>> THEN "open" ELSE @]

DiskAfter(s, es) ==
  IF s.writer = "gone" \/ es = <<>> THEN disk
  ELSE [disk EXCEPT ![s.file] = WriteAll(IF @ = Nothing THEN NewFile ELSE @, es)]

AgesAfter(s, es) ==
  IF s.writer = "gone" \/ es = <<>> THEN ages
  ELSE Append(Kept(ages, Files \ {s.file}), s.file)

\* The view shows file f from the disk; an interrupted turn is closed.
Opened(f) ==
  LET loaded == Loaded(disk[f])
      s      == [Fresh(f) EXCEPT !.events = loaded, !.torn = ~Whole(disk[f])]
      es     == Closing(loaded)
  IN  /\ state' = [state EXCEPT ![FreeHandle] = Appended(s, es)]
      /\ disk' = DiskAfter(s, es) /\ ages' = AgesAfter(s, es)
      /\ view' = FreeHandle

\* The view shows a new session, whose file comes with its first event.
Started(f) ==
  /\ f \notin used /\ used' = used \cup {f}
  /\ state' = [state EXCEPT ![FreeHandle] = Fresh(f)]
  /\ view' = FreeHandle

SessionInit ==
  /\ disk = [f \in Files |-> Nothing]
  /\ ages = <<>> /\ used = {}
  /\ state = [h \in Handles |-> Fresh(CHOOSE f \in Files : TRUE)]
  /\ view = Nothing
  /\ pinned = [t \in Turns |-> Nothing]
  /\ phase = [t \in Turns |-> "new"]
  /\ crashed = 0

----------------------------------------------------------------------------
(* The start of the program, and the interface *)

InProject(p) == Kept(ages, {f \in Files : Project[f] = p})

\* open_latest and switch_dir: the file written last, or a new one.
ShowLatest(p) ==
  IF InProject(p) # <<>> THEN Opened(Last(InProject(p))) /\ used' = used
  ELSE /\ \E f \in Files : Project[f] = p /\ Started(f)
       /\ UNCHANGED <<disk, ages>>

OpenLatest(p) ==
  /\ view = Nothing
  /\ ShowLatest(p)
  /\ UNCHANGED <<pinned, phase, crashed>>

\* SessionController::busy and any_busy, for the session shown and for all.
Running(h) == \E t \in Turns : pinned[t] = h
AnyBusy == \E h \in Handles : Running(h)

\* switch_workspace
SwitchWorkspace(p) ==
  /\ view # Nothing /\ ~AnyBusy /\ Project[state[view].file] # p
  /\ ShowLatest(p)
  /\ UNCHANGED <<pinned, phase, crashed>>

\* Mutant: a file that is removed stays the one to open.
RemovedFromDisk(fs) ==
  /\ disk' = [f \in Files |-> IF f \in fs THEN Nothing ELSE disk[f]]
  /\ ages' = ages

\* Removes files; writers that have them open keep writing to nothing.
Removed(fs) ==
  /\ disk' = [f \in Files |-> IF f \in fs THEN Nothing ELSE disk[f]]
  /\ ages' = Kept(ages, Files \ fs)

Orphaned(s, fs) == IF s.file \in fs /\ s.writer = "open" THEN [s EXCEPT !.writer = "gone"] ELSE s

\* prune_dir: the oldest beyond `keep`, except the one that is named.
Pruned(p, keep, active) ==
  LET files == InProject(p)
  IN  {files[n] : n \in 1 .. Len(files) - keep} \ {active}

\* SessionLog::fresh
NewSession ==
  /\ view # Nothing
  /\ \E f \in Files \ used :
       LET p == Project[f]
           fs == Pruned(p, Keep, f)
           h == FreeHandle
       IN  /\ p = Project[state[view].file]
           /\ used' = used \cup {f}
           /\ view' = h
           /\ state' = [g \in Handles |-> IF g = h THEN Fresh(f) ELSE Orphaned(state[g], fs)]
           /\ Removed(fs)
  /\ UNCHANGED <<pinned, phase, crashed>>

\* Mutant: the file is read again although a turn appends to it.
SwitchToFileUncached(f) ==
  /\ view # Nothing /\ Exists(f)
  /\ Project[f] = Project[state[view].file]
  /\ Opened(f)
  /\ UNCHANGED <<used, pinned, phase, crashed>>

\* Mutant: an interrupted turn stays open.
SwitchToFileBare(f) ==
  /\ view # Nothing /\ Exists(f)
  /\ Project[f] = Project[state[view].file]
  /\ IF Cached(f) # {}
     THEN view' \in Cached(f) /\ UNCHANGED <<disk, ages, state>>
     ELSE /\ state' = [state EXCEPT ![FreeHandle] =
                         [Fresh(f) EXCEPT !.events = Loaded(disk[f]), !.torn = ~Whole(disk[f])]]
          /\ view' = FreeHandle /\ UNCHANGED <<disk, ages>>
  /\ UNCHANGED <<used, pinned, phase, crashed>>

\* SessionLog::switch_to_file, within a project.
SwitchToFile(f) ==
  /\ view # Nothing /\ Exists(f)
  /\ Project[f] = Project[state[view].file]
  /\ IF Cached(f) # {}
     THEN view' \in Cached(f) /\ UNCHANGED <<disk, ages, state>>
     ELSE Opened(f)
  /\ UNCHANGED <<used, pinned, phase, crashed>>

\* delete_session_entry of a session that is not shown, clear_history and
\* prune_history: refused while the session shown is busy, whatever the others do.
RemoveSessions(fs) ==
  /\ view # Nothing /\ ~Running(view)
  /\ fs # {} /\ fs \subseteq Range(ages) \ {state[view].file}
  /\ Removed(fs)
  /\ state' = [h \in Handles |-> Orphaned(state[h], fs)]
  /\ UNCHANGED <<used, view, pinned, phase, crashed>>

----------------------------------------------------------------------------
(* Turns *)

\* Mutant: the first event opens the writer and is not written.
RecordEventWithoutFirst(t, h, e, next) ==
  /\ state' = [state EXCEPT ![h] = Appended(@, <<e>>)]
  /\ disk' = IF state[h].writer = "none" THEN disk ELSE DiskAfter(state[h], <<e>>)
  /\ ages' = IF state[h].writer = "none" THEN ages ELSE AgesAfter(state[h], <<e>>)
  /\ phase' = [phase EXCEPT ![t] = next]
  /\ UNCHANGED <<used, view, crashed>>

\* SessionLog::append
RecordEvent(t, h, e, next) ==
  /\ state' = [state EXCEPT ![h] = Appended(@, <<e>>)]
  /\ disk' = DiskAfter(state[h], <<e>>)
  /\ ages' = AgesAfter(state[h], <<e>>)
  /\ phase' = [phase EXCEPT ![t] = next]
  /\ UNCHANGED <<used, view, crashed>>

\* SessionLog::pin, at the submission; a session has one consumer.
Submit(t) ==
  /\ view # Nothing /\ phase[t] = "new" /\ ~Running(view)
  /\ pinned' = [pinned EXCEPT ![t] = view]
  /\ RecordEvent(t, view, Event("TurnStart", t), "started")

\* Mutant: the turn appends to what is shown.
HandleShown(t) == IF view = Nothing THEN pinned[t] ELSE view

HandleOf(t) == pinned[t]

Output(t) ==
  /\ phase[t] = "started"
  /\ RecordEvent(t, HandleOf(t), Event("Output", t), "spoke")
  /\ UNCHANGED pinned

Deliver(t) ==
  /\ phase[t] \in {"started", "spoke"}
  /\ RecordEvent(t, HandleOf(t), Event("Delivery", t), "delivered")
  /\ UNCHANGED pinned

EndTurn(t) ==
  /\ phase[t] = "delivered"
  /\ RecordEvent(t, HandleOf(t), Event("TurnEnd", t), "over")
  /\ pinned' = [pinned EXCEPT ![t] = Nothing]

----------------------------------------------------------------------------
(* Crashes *)

\* What may be left of a file: some of its lines, and of the next one nothing,
\* all but its newline, a part, or a part that ends inside a character.
Remains(d) ==
  {d} \cup {[lines |-> SubSeq(d.lines, 1, n), tail |-> t] :
              n \in 0 .. Len(d.lines) - 1, t \in {NoTail, Torn, Broken}}
      \cup {[lines |-> SubSeq(d.lines, 1, n - 1), tail |-> d.lines[n]] : n \in DOMAIN d.lines}

\* One file is cut; memory is gone, and the turns with it.
SessionCrash ==
  /\ view # Nothing /\ crashed < MaxCuts
  /\ \/ disk' = disk
     \/ \E f \in Range(ages) : \E d \in Remains(disk[f]) : disk' = [disk EXCEPT ![f] = d]
  /\ view' = Nothing
  /\ pinned' = [t \in Turns |-> Nothing]
  /\ phase' = [t \in Turns |-> IF phase[t] = "new" THEN "new" ELSE "over"]
  /\ state' = [h \in Handles |-> Fresh(CHOOSE f \in Files : TRUE)]
  /\ crashed' = crashed + 1
  /\ UNCHANGED <<ages, used>>

SessionNext ==
  \/ \E f \in Files : OpenLatest(Project[f]) \/ SwitchWorkspace(Project[f]) \/ SwitchToFile(f)
  \/ NewSession
  \/ \E fs \in SUBSET Files : RemoveSessions(fs)
  \/ \E t \in Turns : Submit(t) \/ Output(t) \/ Deliver(t) \/ EndTurn(t)
  \/ SessionCrash

SessionSpec == SessionInit /\ [][SessionNext]_sessionVars

----------------------------------------------------------------------------
(* Properties *)

SessionTypeOK ==
  /\ \A f \in Files : Exists(f) => \A n \in DOMAIN disk[f].lines :
       disk[f].lines[n].kind \in EventKinds \cup {"torn", "broken"}
  /\ Range(ages) = {f \in Files : Exists(f)}
  /\ \A m, n \in DOMAIN ages : ages[m] = ages[n] => m = n
  /\ Range(ages) \subseteq used
  /\ \A h \in Handles : /\ \A n \in DOMAIN state[h].events : state[h].events[n].kind \in EventKinds
                        /\ state[h].writer \in {"none", "open", "gone"}
  /\ view \in Handles \cup {Nothing}
  /\ \A t \in Turns : pinned[t] # Nothing <=> phase[t] \in {"started", "spoke", "delivered"}

\* Two states in memory never append to one file, whatever the interface
\* switches to while turns run in the background.
OneStatePerFile ==
  \A g, h \in Handles : Live(g) /\ Live(h) /\ g # h => state[g].file # state[h].file

\* The log in memory is what the next start will load, unless the file was cut
\* before it was opened, or was removed.
MemoryIsFile ==
  \A h \in Handles :
    Live(h) /\ ~state[h].torn /\ state[h].writer # "gone" =>
      state[h].events = IF Exists(state[h].file) THEN Loaded(disk[state[h].file]) ELSE <<>>

\* A session that is shown and not busy has its last turn closed.
ShownIsClosed ==
  view # Nothing /\ ~Running(view) =>
    \/ state[view].events = <<>>
    \/ Last(state[view].events).kind = "TurnEnd"

\* What a turn says is in the session it was submitted to, and nowhere else.
TurnsStayHome ==
  \A t \in Turns, g, h \in Handles :
    /\ Live(g) /\ Event("TurnStart", t) \in Range(state[g].events)
    /\ Live(h) /\ \E n \in DOMAIN state[h].events : state[h].events[n].turn = t
    => state[g].file = state[h].file

\* While it is in memory, a turn that is closed has one report at most, and
\* another one starts only after it was closed.
OneReportPerTurn ==
  \A h \in Handles : Live(h) /\ ~state[h].torn =>
    LET es == state[h].events IN
    \A m, n \in DOMAIN es : m < n /\ es[m].kind = es[n].kind /\ es[m].kind \in {"TurnStart", "Delivery"} =>
      \E k \in m .. n : es[k].kind = "TurnEnd"

\* The safety of the sessions: a file, a state in memory and the turns that append
\* to it stay together, whatever the interface shows meanwhile; and a turn is closed
\* once, before its session is shown again, and with one report.
SessionSafety ==
  /\ SessionTypeOK /\ OneStatePerFile /\ MemoryIsFile /\ TurnsStayHome
  /\ ShownIsClosed /\ OneReportPerTurn

\* What the comments say and the code does not do.

\* A session in which a turn runs has its file (INVARIANTS.md, 1: the log is
\* the truth of a session).
RunningKeepsFile == \A h \in Handles : Running(h) => Exists(state[h].file)

\* A bad line is skipped, and the others are loaded (the comment of load_file).
BadLinesSkipped ==
  \A f \in Files : Exists(f) => Len(Loaded(disk[f])) >= Len(SelectSeq(disk[f].lines, IsEvent))

\* The input of a turn that reached its end is in the file for good, if the
\* program does not crash again.
InputsKept ==
  \A h \in Handles, t \in Turns :
    Live(h) /\ Exists(state[h].file) /\ Event("TurnEnd", t) \in Range(state[h].events) =>
      Event("TurnStart", t) \in Range(Loaded(disk[state[h].file]))
=============================================================================
