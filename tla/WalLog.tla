------------------------------- MODULE WalLog -------------------------------
(***************************************************************************)
(* The append-only JSONL log under DurableDag, EffectJournal, DecisionLog  *)
(* and Blackboard: the four share commit() (append one line, sync it, then *)
(* replace the state in memory), repair_jsonl_tail and the replay in       *)
(* open().  The state in memory is the fold of the events, so it is        *)
(* represented by the sequence of events it was built from.                *)
(*                                                                         *)
(* A line is what a parser makes of it: the record that was written, or a  *)
(* Garbled one when the bytes of two writes share the line.  Bytes after   *)
(* the last newline are not a line yet.                                    *)
(***************************************************************************)
EXTENDS Integers, Sequences

CONSTANTS
  Events,       \* the events callers commit
  NoEvent,      \* stands for the absence of an event
  MaxLines,     \* bound on the length of the file
  MaxFaults     \* bound on the writes and syncs that return an error

ASSUME WalAssumption ==
  /\ NoEvent \notin Events
  /\ MaxLines \in Nat
  /\ MaxFaults \in Nat

VARIABLES
  file,         \* the lines in the file, as the page cache has them
  tail,         \* TRUE when bytes without a newline follow the last line
  synced,       \* how many lines the last sync put on stable storage
  mem,          \* events applied to the state in memory
  stage,        \* where the process is: "open", "writing", "written",
                \* "down", or "corrupt" when open() gave up
  current,      \* the event being committed
  acked,        \* history: <<sequence number, event>> of every Ok(()) returned
  faults        \* I/O errors so far

walVars == <<file, tail, synced, mem, stage, current, acked, faults>>

Record(n, e) == [seq |-> n, event |-> e]
\* No replay accepts sequence number 0.
Garbled == Record(0, NoEvent)

NextSeq == Len(mem) + 1

WalInit ==
  /\ file = <<>>
  /\ tail = FALSE
  /\ synced = 0
  /\ mem = <<>>
  /\ stage = "open"
  /\ current = NoEvent
  /\ acked = {}
  /\ faults = 0

\* commit(): the event has passed apply_event on the candidate.
BeginCommit(e) ==
  /\ stage = "open"
  /\ Len(file) < MaxLines
  /\ stage' = "writing"
  /\ current' = e
  /\ UNCHANGED <<file, tail, synced, mem, acked, faults>>

\* write_all: O_APPEND puts the bytes right after whatever is in the file, so
\* they complete an unterminated line instead of starting their own.
WriteLine ==
  /\ stage = "writing"
  /\ file' = Append(file, IF tail THEN Garbled ELSE Record(NextSeq, current))
  /\ tail' = FALSE
  /\ stage' = "written"
  /\ UNCHANGED <<synced, mem, current, acked, faults>>

\* Mutant: commit returns without the sync.
ApplyWithoutSync ==
  /\ stage = "written"
  /\ mem' = Append(mem, current)
  /\ acked' = acked \cup {<<NextSeq, current>>}
  /\ stage' = "open"
  /\ current' = NoEvent
  /\ UNCHANGED <<file, tail, synced, faults>>

\* sync_all, and only then the candidate replaces the state and commit returns.
SyncAndApply ==
  /\ stage = "written"
  /\ synced' = Len(file)
  /\ mem' = Append(mem, current)
  /\ acked' = acked \cup {<<NextSeq, current>>}
  /\ stage' = "open"
  /\ current' = NoEvent
  /\ UNCHANGED <<file, tail, faults>>

\* write_all returns an error (a full disk, say) after none or some of the
\* bytes: the method returns it, the state in memory stays, the bytes too.
WriteError ==
  /\ stage = "writing"
  /\ faults < MaxFaults
  /\ tail' \in {tail, TRUE}
  /\ faults' = faults + 1
  /\ stage' = "open"
  /\ current' = NoEvent
  /\ UNCHANGED <<file, synced, mem, acked>>

\* sync_all returns an error with the whole line in the file.
SyncError ==
  /\ stage = "written"
  /\ faults < MaxFaults
  /\ faults' = faults + 1
  /\ stage' = "open"
  /\ current' = NoEvent
  /\ UNCHANGED <<file, tail, synced, mem, acked>>

Alive == stage \in {"open", "writing", "written"}

\* The process dies; the page cache keeps its bytes, and a write under way may
\* have left any part of them.
ProcessCrash ==
  /\ Alive
  /\ tail' \in IF stage = "writing" THEN {tail, TRUE} ELSE {tail}
  /\ stage' = "down"
  /\ mem' = <<>>
  /\ current' = NoEvent
  /\ UNCHANGED <<file, synced, acked, faults>>

\* The machine dies: any of the lines not synced may be lost, the last one in
\* part, and what is left is on stable storage.
PowerLoss ==
  /\ stage # "corrupt"
  /\ \E kept \in synced..Len(file) :
       /\ file' = SubSeq(file, 1, kept)
       /\ synced' = kept
       /\ tail' \in IF kept < Len(file) \/ tail \/ stage = "writing"
                      THEN BOOLEAN ELSE {FALSE}
  /\ stage' = "down"
  /\ mem' = <<>>
  /\ current' = NoEvent
  /\ UNCHANGED <<acked, faults>>

\* Mutant: the replay does not compare the sequence numbers.
ReplayableInAnyOrder == \A i \in DOMAIN file : file[i].seq # 0

\* Mutant: the replay steps over the lines it cannot parse.
ReplayableAroundGaps ==
  \A i \in DOMAIN file : file[i].seq # 0 => file[i].seq = i

Replayable == \A i \in DOMAIN file : file[i].seq = i

\* Mutant: open() does not cut the unterminated bytes off.
ReopenUnrepaired ==
  /\ stage = "down"
  /\ IF Replayable
       THEN /\ stage' = "open"
            /\ mem' = [i \in DOMAIN file |-> file[i].event]
       ELSE /\ stage' = "corrupt"
            /\ UNCHANGED mem
  /\ UNCHANGED <<file, tail, synced, current, acked, faults>>

\* open(): repair_jsonl_tail cuts the unterminated bytes off, then the replay
\* insists on one record per line with contiguous sequence numbers.  Only the
\* repair syncs the file.
Reopen ==
  /\ stage = "down"
  /\ tail' = FALSE
  /\ IF Replayable
       THEN /\ stage' = "open"
            /\ mem' = [i \in DOMAIN file |-> file[i].event]
       ELSE /\ stage' = "corrupt"
            /\ UNCHANGED mem
  /\ synced' = IF tail THEN Len(file) ELSE synced
  /\ UNCHANGED <<file, current, acked, faults>>

WalNext ==
  \/ \E e \in Events : BeginCommit(e)
  \/ WriteLine
  \/ SyncAndApply
  \/ WriteError
  \/ SyncError
  \/ ProcessCrash
  \/ PowerLoss
  \/ Reopen

WalSpec == WalInit /\ [][WalNext]_walVars

-----------------------------------------------------------------------------
WalTypeOK ==
  /\ file \in Seq([seq : Nat, event : Events \cup {NoEvent}])
  /\ tail \in BOOLEAN
  /\ synced \in Nat
  /\ mem \in Seq(Events)
  /\ stage \in {"open", "writing", "written", "down", "corrupt"}
  /\ current \in Events \cup {NoEvent}
  /\ acked \subseteq (Nat \X Events)
  /\ faults \in Nat

\* Invariant 14 of INVARIANTS.md, the log before the state: what the process
\* has applied can be replayed from the file, and what it told a caller is on
\* stable storage.  An I/O error may break the log, but not this.
WalBeforeState ==
  Alive /\ Replayable =>
    /\ \A i \in DOMAIN mem : i \in DOMAIN file /\ file[i] = Record(i, mem[i])
    /\ \A a \in acked : a[1] <= synced

\* Every event a caller was told is committed is in the state at its place
\* whenever the log is open, over any number of crashes and I/O errors: a log
\* that lost one of them does not open.
AcknowledgedSurvive ==
  Alive => \A a \in acked : a[1] \in DOMAIN mem /\ mem[a[1]] = a[2]

\* The log opens again after every crash: what the process left behind is at
\* most the one incomplete record that repair_jsonl_tail removes.
AlwaysReopens == stage # "corrupt"

\* As long as no write and no sync has returned an error, that is so.
FaultFreeReopens == faults = 0 => AlwaysReopens

\* The safety of a log: it is ahead of the state, keeps what it promised, and
\* opens again as long as nothing failed.
WalSafety == WalTypeOK /\ WalBeforeState /\ AcknowledgedSurvive /\ FaultFreeReopens
=============================================================================
