----------------------------- MODULE MonitorTap -----------------------------
(***************************************************************************)
(* Self-monitoring of a turn: threads of the turn emit events into bounded *)
(* queues and never wait, a writer thread takes them out by priority and   *)
(* appends them to a spool of files as a chain of numbers and hashes, and  *)
(* an observer reads the spool when the writer has finished.  The guard    *)
(* that looks for repeated conclusions is one of the emitters.             *)
(*                                                                         *)
(* The hash of a line is abstracted to its number and the number of its    *)
(* event.  The counters only tests read (sent, critical_dropped, written,  *)
(* rotations) are left out, and so is the order of the lines in a report.  *)
(***************************************************************************)
EXTENDS Integers, FiniteSets, SequencesExt

CONSTANTS
  Emitters,        \* threads that emit
  Observing,       \* the one that feeds the guard
  Capacity,        \* of the normal and of the critical queue
  Reserve,         \* of the emergency queue
  RotateAt,        \* WAL_ROTATE_BYTES, in lines
  Conclusions,     \* fingerprints
  GuardWindow,     \* FINGERPRINT_WINDOW
  MaxRepeat,       \* HotGuard::max_repeat
  MaxEmitted,      \* crashes so far -> bound on the events of a tap
  MaxTapFaults     \* bound on failing writes, syncs and rotations

ASSUME TapAssumption ==
  /\ Observing \in Emitters /\ IsFiniteSet(Emitters)
  /\ Capacity \in Nat /\ Reserve \in Nat /\ RotateAt \in Nat \ {0}
  /\ GuardWindow \in Nat \ {0} /\ MaxRepeat \in Nat
  /\ MaxEmitted \in Seq(Nat) /\ MaxTapFaults \in Nat

VARIABLES
  tap,        \* EventTap: [sequence, emergency, critical, normal, dropped, open]
  emitter,    \* thread -> [pc, event, more], more: a second event follows
  writer,     \* WalWriter and its loop: [pc, item, reported, seq, hash, rotated, errors]
  spool,      \* the files: [lines, start, end, torn], see below
  durable,    \* lines a power failure leaves
  guard,      \* HotGuard: [window, counts]
  report,     \* the observer's: [state, lines]
  kept,       \* history: critical lines whose append returned Ok
  rewound,    \* history: every failed write was taken back
  tapFaults   \* history: [io, crashes]

tapVars == <<tap, emitter, writer, spool, durable, guard, report, kept, rewound, tapFaults>>

Absent == "none"

(***************************************************************************)
(* The spool.  `lines` are those of all files in their order, `start` is   *)
(* how many are in the files before the last; the last one has an end:     *)
(* "clean", "part" of a line, or a "gap" before the cursor; `torn` says    *)
(* whether another one ends in a part.                                     *)
(***************************************************************************)
BrokenLine == [seq |-> 0, src |-> 0, critical |-> FALSE, prev |-> <<0, 0>>]
HashOf(l) == <<l.seq, l.src>>
NoHash == <<0, 0>>

EmptySpool == [lines |-> <<>>, start |-> 0, end |-> "clean", torn |-> FALSE]

\* What open() and collect() ask of the lines: they parse, their numbers grow
\* and each has the hash of the one before.
Follows(line, before) == line.seq > before.seq /\ line.prev = HashOf(before)
Chained(lines) ==
  \A i \in DOMAIN lines : Follows(lines[i], IF i = 1 THEN BrokenLine ELSE lines[i - 1])

\* collect(): no file may end in a part of a line.
Collectable == Chained(spool.lines) /\ ~spool.torn /\ spool.end # "part"

\* WalWriter::open(): the last one may.
Openable == Chained(spool.lines) /\ ~spool.torn

\* current_bytes has come to WAL_ROTATE_BYTES.
FileFull == Len(spool.lines) - spool.start >= RotateAt

(***************************************************************************)
(* HotGuard: how often each of the last conclusions was drawn, with no new *)
(* evidence between them                                                   *)
(***************************************************************************)
NoGuard == [window |-> <<>>, counts |-> [c \in Conclusions |-> 0]]

\* Mutant: the count of a conclusion that leaves the window stays.
SlideForever(g, c) ==
  [window |-> IF Len(g.window) = GuardWindow THEN Append(Tail(g.window), c) ELSE Append(g.window, c),
   counts |-> [g.counts EXCEPT ![c] = @ + 1]]

Slide(g, c) ==
  LET full == Append(g.window, c)
      over == Len(full) > GuardWindow
      less == IF over THEN [g.counts EXCEPT ![Head(full)] = IF @ > 0 THEN @ - 1 ELSE 0] ELSE g.counts
  IN  [window |-> IF over THEN Tail(full) ELSE full, counts |-> [less EXCEPT ![c] = @ + 1]]

Stagnant(g, c) == g.counts[c] > MaxRepeat

(***************************************************************************)
(* Emitting                                                                *)
(***************************************************************************)
NewTap == [sequence |-> 0, emergency |-> <<>>, critical |-> <<>>, normal |-> <<>>, dropped |-> 0, open |-> TRUE]
Quiet == [pc |-> "idle", event |-> Absent, more |-> FALSE]
NewWriter == [pc |-> "head", item |-> Absent, reported |-> 0, seq |-> 0, hash |-> NoHash, rotated |-> FALSE, errors |-> 0]

TapInit ==
  /\ tap = NewTap
  /\ emitter = [p \in Emitters |-> Quiet]
  /\ writer = NewWriter
  /\ spool = EmptySpool /\ durable = 0
  /\ guard = NoGuard
  /\ report = [state |-> "none", lines |-> {}]
  /\ kept = {} /\ rewound = TRUE
  /\ tapFaults = [io |-> 0, crashes |-> 0]

\* The number is taken before the event is in a queue, so that two threads may
\* overtake each other in between.
Number(p, critical, more) ==
  /\ tap' = [tap EXCEPT !.sequence = @ + 1]
  /\ emitter' = [emitter EXCEPT ![p] =
       [pc |-> "send", event |-> [src |-> tap.sequence + 1, critical |-> critical], more |-> more]]

Owing == IF emitter[Observing].more THEN 1 ELSE 0
Room(n) == tap.sequence + Owing + n <= MaxEmitted[tapFaults.crashes + 1]

\* emit has returned: the thread has another event, or none.
Returned(p) == [emitter EXCEPT ![p] = IF @.more THEN [Quiet EXCEPT !.pc = "again", !.more = TRUE] ELSE Quiet]

\* An event of the session log: the observation is still registered.
Emit(p) ==
  /\ tap.open /\ emitter[p].pc = "idle" /\ p # Observing /\ Room(1)
  /\ \E critical \in BOOLEAN : Number(p, critical, FALSE)
  /\ UNCHANGED <<writer, spool, durable, guard, report, kept, rewound, tapFaults>>

\* MonitorTurn::observe and HotGuard::act: a conclusion the guard finds stagnant
\* is an anomaly and a mitigation, both critical.
Observe ==
  /\ tap.open /\ emitter[Observing].pc = "idle" /\ Room(2)
  /\ \E c \in Conclusions, evidence \in BOOLEAN :
       LET g == IF evidence THEN NoGuard ELSE Slide(guard, c) IN
       /\ guard' = g
       /\ IF ~evidence /\ Stagnant(g, c) THEN Number(Observing, TRUE, TRUE)
          ELSE UNCHANGED <<tap, emitter>>
  /\ UNCHANGED <<writer, spool, durable, report, kept, rewound, tapFaults>>

EmitMitigation ==
  /\ emitter[Observing].pc = "again"
  /\ Number(Observing, TRUE, FALSE)
  /\ UNCHANGED <<writer, spool, durable, guard, report, kept, rewound, tapFaults>>

\* try_send to the queue of the event's class.
Send(p) ==
  LET e == emitter[p].event
      queue == IF e.critical THEN tap.critical ELSE tap.normal
  IN
  /\ emitter[p].pc = "send"
  /\ IF Len(queue) < Capacity
     THEN /\ tap' = IF e.critical THEN [tap EXCEPT !.critical = Append(@, e)]
                                  ELSE [tap EXCEPT !.normal = Append(@, e)]
          /\ emitter' = Returned(p)
     ELSE /\ emitter' = [emitter EXCEPT ![p].pc = IF e.critical THEN "reserve" ELSE "drop"]
          /\ UNCHANGED tap
  /\ UNCHANGED <<writer, spool, durable, guard, report, kept, rewound, tapFaults>>

\* A critical event that finds its queue full has a second one.
SendReserve(p) ==
  /\ emitter[p].pc = "reserve"
  /\ IF Len(tap.emergency) < Reserve
     THEN /\ tap' = [tap EXCEPT !.emergency = Append(@, emitter[p].event)]
          /\ emitter' = Returned(p)
     ELSE emitter' = [emitter EXCEPT ![p].pc = "drop"] /\ UNCHANGED tap
  /\ UNCHANGED <<writer, spool, durable, guard, report, kept, rewound, tapFaults>>

\* Mutant: an event that is dropped is not counted.
DropSilently(p) ==
  /\ emitter[p].pc = "drop"
  /\ emitter' = Returned(p)
  /\ UNCHANGED <<tap, writer, spool, durable, guard, report, kept, rewound, tapFaults>>

DropEvent(p) ==
  /\ emitter[p].pc = "drop"
  /\ tap' = [tap EXCEPT !.dropped = @ + 1]
  /\ emitter' = Returned(p)
  /\ UNCHANGED <<writer, spool, durable, guard, report, kept, rewound, tapFaults>>

\* MonitorTurn::drop: the turn is over, the senders go.  A callback that is
\* emitting holds one until it returns.
Unregister ==
  /\ tap.open /\ \A p \in Emitters : emitter[p].pc = "idle"
  /\ tap' = [tap EXCEPT !.open = FALSE]
  /\ UNCHANGED <<emitter, writer, spool, durable, guard, report, kept, rewound, tapFaults>>

(***************************************************************************)
(* The writer thread                                                       *)
(***************************************************************************)
FaultLeft == tapFaults.io < MaxTapFaults
Faulty == tapFaults' = [tapFaults EXCEPT !.io = @ + 1]

\* The head of the loop: what was dropped since the last look is a line of its
\* own, which the health class makes critical.
LoopHead ==
  /\ writer.pc = "head"
  /\ writer' = IF tap.dropped > writer.reported
               THEN [writer EXCEPT !.pc = "append", !.item = [src |-> 0, critical |-> TRUE], !.reported = tap.dropped]
               ELSE [writer EXCEPT !.pc = "receive"]
  /\ UNCHANGED <<tap, emitter, spool, durable, guard, report, kept, rewound, tapFaults>>

\* try_recv: emergency, critical, normal.
Receive ==
  LET take(rest, e) == tap' = rest /\ writer' = [writer EXCEPT !.pc = "append", !.item = e] IN
  /\ writer.pc = "receive"
  /\ CASE tap.emergency # <<>> -> take([tap EXCEPT !.emergency = Tail(@)], Head(tap.emergency))
       [] tap.emergency = <<>> /\ tap.critical # <<>> -> take([tap EXCEPT !.critical = Tail(@)], Head(tap.critical))
       [] tap.emergency = <<>> /\ tap.critical = <<>> /\ tap.normal # <<>> ->
            take([tap EXCEPT !.normal = Tail(@)], Head(tap.normal))
       [] OTHER -> writer' = [writer EXCEPT !.pc = IF tap.open THEN "flush" ELSE "last flush"] /\ UNCHANGED tap
  /\ UNCHANGED <<emitter, spool, durable, guard, report, kept, rewound, tapFaults>>

\* append counts the error of append_checked and goes on with the loop after the
\* event; the line about dropped events is followed by try_recv.
After(item) == IF item.src = 0 THEN "receive" ELSE "head"
Skipped == writer' = [writer EXCEPT !.pc = After(writer.item), !.item = Absent, !.errors = @ + 1]

\* append_checked starts a new file when this one is full.  What it opens is
\* not in append mode.
Rotate ==
  /\ writer.pc = "append" /\ FileFull
  /\ \/ /\ spool' = [lines |-> spool.lines, start |-> Len(spool.lines), end |-> "clean",
                    torn |-> spool.torn \/ spool.end = "part"]
        /\ durable' = Len(spool.lines)
        /\ writer' = [writer EXCEPT !.rotated = TRUE]
        /\ UNCHANGED tapFaults
     \/ FaultLeft /\ Faulty /\ Skipped /\ UNCHANGED <<spool, durable>>
  /\ UNCHANGED <<tap, emitter, guard, report, kept, rewound>>

Ready == writer.pc = "append" /\ ~FileFull

LineOf(item) ==
  [seq |-> writer.seq + 1, src |-> item.src, critical |-> item.critical, prev |-> writer.hash]

\* Mutant: the number is taken although the line is not written.
AppendFailsNumbered ==
  /\ Ready /\ FaultLeft /\ rewound
  /\ Faulty
  /\ writer' = [writer EXCEPT !.pc = After(writer.item), !.item = Absent, !.errors = @ + 1,
                              !.seq = @ + 1, !.hash = <<writer.seq + 1, writer.item.src>>]
  /\ UNCHANGED <<tap, emitter, spool, durable, guard, report, kept, rewound>>

\* write_all fails and set_len takes back what it has written, or fails as well.
\* In a file that was opened without append mode the cursor stays behind the end.
\* A second failure after one that was not taken back is left out.
AppendFails ==
  /\ Ready /\ FaultLeft /\ rewound
  /\ Faulty /\ Skipped
  /\ \E end \in {"clean", "part", "gap"} :
       /\ end = "gap" => writer.rotated
       /\ spool' = [spool EXCEPT !.end = end]
       /\ rewound' = (end = "clean")
  /\ UNCHANGED <<tap, emitter, durable, guard, report, kept>>

\* The line is written, and its number and hash are remembered; critical ones
\* are synced before append returns.
AppendLine ==
  LET l == LineOf(writer.item) IN
  /\ Ready
  /\ spool' = [spool EXCEPT !.lines = Append(@, IF spool.end = "clean" THEN l ELSE BrokenLine),
                            !.end = "clean"]
  /\ writer' = [writer EXCEPT !.seq = l.seq, !.hash = HashOf(l),
                              !.pc = IF l.critical THEN "sync" ELSE After(writer.item)]
  /\ UNCHANGED <<tap, emitter, durable, guard, report, kept, rewound, tapFaults>>

\* sync_data
SyncedNow == durable' = Len(spool.lines)

\* Mutant: critical lines wait for the next flush.
SyncLineLater ==
  /\ writer.pc = "sync"
  /\ kept' = kept \cup {Last(spool.lines)}
  /\ writer' = [writer EXCEPT !.pc = After(writer.item), !.item = Absent]
  /\ UNCHANGED <<tap, emitter, spool, durable, guard, report, rewound, tapFaults>>

SyncLine ==
  /\ writer.pc = "sync"
  /\ \/ /\ SyncedNow /\ kept' = kept \cup {Last(spool.lines)}
        /\ writer' = [writer EXCEPT !.pc = After(writer.item), !.item = Absent]
        /\ UNCHANGED tapFaults
     \/ FaultLeft /\ Faulty /\ Skipped /\ UNCHANGED <<durable, kept>>
  /\ UNCHANGED <<tap, emitter, spool, guard, report, rewound>>

\* flush when there is nothing to take, and once more at the end.
Flush ==
  LET next == IF writer.pc = "flush" THEN "head" ELSE "done" IN
  /\ writer.pc \in {"flush", "last flush"}
  /\ \/ SyncedNow /\ writer' = [writer EXCEPT !.pc = next] /\ UNCHANGED tapFaults
     \/ FaultLeft /\ Faulty /\ writer' = [writer EXCEPT !.pc = next, !.errors = @ + 1] /\ UNCHANGED durable
  /\ UNCHANGED <<tap, emitter, spool, guard, report, kept, rewound>>

(***************************************************************************)
(* After the turn                                                          *)
(***************************************************************************)
\* The observer, when the writer ended within its two seconds: it reports what
\* it can read whole, and nothing otherwise.
Collect ==
  /\ writer.pc = "done" /\ report.state = "none"
  /\ report' = IF Collectable THEN [state |-> "healthy", lines |-> Range(spool.lines)]
               ELSE [report EXCEPT !.state = "degraded"]
  /\ UNCHANGED <<tap, emitter, writer, spool, durable, guard, kept, rewound, tapFaults>>

\* The process or the machine dies; what was not synced is there up to some
\* byte, and the line that is being written may be.
TapCrash ==
  /\ writer.pc # "down" /\ tapFaults.crashes + 1 < Len(MaxEmitted)
  /\ tapFaults' = [tapFaults EXCEPT !.crashes = @ + 1]
  /\ \E n \in durable..Len(spool.lines), part \in BOOLEAN :
       /\ part => n < Len(spool.lines) \/ writer.pc = "append"
       /\ spool' = [spool EXCEPT !.lines = SubSeq(@, 1, n),
                                 !.end = IF part \/ (n = Len(spool.lines) /\ @ = "part") THEN "part"
                                         ELSE "clean"]
  /\ tap' = [tap EXCEPT !.open = FALSE]
  /\ emitter' = [p \in Emitters |-> Quiet]
  /\ writer' = [writer EXCEPT !.pc = "down"]
  /\ UNCHANGED <<durable, guard, report, kept, rewound>>

\* WalWriter::open on a spool that is there: the torn line is cut off, the chain
\* goes on where it ended, and the file is opened to append.
OpenAgain ==
  LET last == IF spool.lines = <<>> THEN BrokenLine ELSE Last(spool.lines) IN
  /\ writer.pc = "down" /\ Openable
  /\ spool' = [spool EXCEPT !.end = "clean"]
  /\ durable' = IF spool.end = "part" THEN Len(spool.lines) ELSE durable
  /\ writer' = [NewWriter EXCEPT !.seq = last.seq, !.hash = HashOf(last)]
  /\ tap' = NewTap
  /\ guard' = NoGuard
  /\ UNCHANGED <<emitter, report, kept, rewound, tapFaults>>

TapNext ==
  \/ \E p \in Emitters : Emit(p) \/ Send(p) \/ SendReserve(p) \/ DropEvent(p)
  \/ Observe \/ EmitMitigation \/ Unregister
  \/ LoopHead \/ Receive \/ Rotate \/ AppendFails \/ AppendLine \/ SyncLine \/ Flush
  \/ Collect \/ TapCrash \/ OpenAgain

TapSpec == TapInit /\ [][TapNext]_tapVars

(***************************************************************************)
(* Properties                                                              *)
(***************************************************************************)
SpoolLines == Range(spool.lines)

TapTypeOK ==
  /\ {Len(tap.critical), Len(tap.normal)} \subseteq 0..Capacity /\ Len(tap.emergency) \in 0..Reserve
  /\ durable \in spool.start..Len(spool.lines)
  /\ writer.reported <= tap.dropped
  /\ \A c \in Conclusions : guard.counts[c] = Cardinality({i \in DOMAIN guard.window : guard.window[i] = c})

\* When the writer has ended, every event that was emitted is a line, or counted
\* as dropped or as an error, and the observer reports every one of those lines
\* (tap.rs:54, wal.rs:88, observer.rs:5).
NothingLostSilently ==
  writer.pc = "done" /\ rewound /\ tapFaults.crashes = 0 =>
    /\ tap.sequence <= Cardinality({l \in SpoolLines : l.src > 0}) + tap.dropped + writer.errors
    /\ report.state # "none" => report = [state |-> "healthy", lines |-> SpoolLines]

\* A critical event whose append returned is in the spool from then on, over
\* crashes of the process and of the machine; the spool can be opened again and
\* its numbers and hashes are one chain, whichever writes and syncs failed, as
\* long as what failed was taken back; nothing is lost unsaid; and the guard
\* counts each conclusion as often as its window has it (hot_guard.rs:80, wal.rs:63).
MonitorSafety ==
  /\ TapTypeOK /\ NothingLostSilently
  /\ rewound => Openable /\ kept \subseteq SpoolLines
=============================================================================
