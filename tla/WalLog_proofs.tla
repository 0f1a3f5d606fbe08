--------------------------- MODULE WalLog_proofs ----------------------------
(***************************************************************************)
(* Proofs about WalLog for every set of events, every length of the file   *)
(* and every number of I/O errors, and about MonitorTap for every set of   *)
(* threads and conclusions, every limit and every number of failures and   *)
(* crashes; and about ModelStream for answers of any number of calls.      *)
(***************************************************************************)
EXTENDS WalLog, MonitorTap, ModelStream, SequenceTheorems, FiniteSetTheorems, TLAPS

USE WalAssumption

Lines == [seq : Nat, event : Events \cup {NoEvent}]

\* A line that a replay may accept holds an event, and a commit under way has one.
EventsOnly ==
  /\ \A i \in DOMAIN file : file[i].seq # 0 => file[i].event \in Events
  /\ stage \in {"writing", "written"} => current \in Events

\* What was synced is in the file.
SyncedWritten == synced <= Len(file)

\* The line that was just written is the record of the event, or garbled.
LastLine ==
  stage = "written" =>
    /\ Len(file) > 0
    /\ file[Len(file)] \in {Record(NextSeq, current), Garbled}

\* The lines that are on stable storage already make a replay give up.
Broken == \E i \in 1..synced : file[i].seq # i

\* An acknowledged event is on stable storage, at its place.
AckedDurable ==
  Broken \/ \A a \in acked : a[1] \in 1..synced /\ file[a[1]] = Record(a[1], a[2])

\* The state in memory, replayed from the file.
MemInFile ==
  Alive /\ Replayable =>
    \A i \in DOMAIN mem : i \in DOMAIN file /\ file[i] = Record(i, mem[i])

WalInv ==
  /\ WalTypeOK
  /\ EventsOnly
  /\ SyncedWritten
  /\ LastLine
  /\ AckedDurable
  /\ MemInFile
  /\ AcknowledgedSurvive

\* As long as nothing failed, the file is the state, and the record under way.
FaultFree ==
  faults = 0 =>
    /\ stage # "corrupt"
    /\ Replayable
    /\ Alive => /\ ~tail
                /\ Len(file) = Len(mem) + (IF stage = "written" THEN 1 ELSE 0)

-----------------------------------------------------------------------------
\* A garbled line is never the one a replay expects.
LEMMA GarbledFacts ==
  /\ Garbled \in Lines
  /\ Garbled.seq = 0
  /\ \A n \in Nat, e \in Events :
       Record(n, e) \in Lines /\ Record(n, e).seq = n /\ Record(n, e).event = e
  BY DEF Garbled, Record, Lines

\* What a power failure leaves is a prefix.
LEMMA PrefixFacts ==
  ASSUME NEW S, NEW s \in Seq(S), NEW k \in 0..Len(s)
  PROVE  /\ SubSeq(s, 1, k) \in Seq(S)
         /\ Len(SubSeq(s, 1, k)) = k
         /\ \A i \in 1..k : SubSeq(s, 1, k)[i] = s[i]
<1>1. \A i \in 1..k : s[i] \in S
  BY ElementOfSeq
<1>2. k \in Int /\ 1 \in Int
  OBVIOUS
<1> QED BY <1>1, <1>2, SubSeqProperties

\* What a replay takes from the file.
LEMMA ReplayedFacts ==
  ASSUME WalTypeOK, EventsOnly, Replayable
  PROVE  /\ [i \in DOMAIN file |-> file[i].event] \in Seq(Events)
         /\ Len([i \in DOMAIN file |-> file[i].event]) = Len(file)
         /\ \A i \in DOMAIN file : file[i] = Record(i, file[i].event)
<1>1. file \in Seq(Lines)
  BY DEF WalTypeOK, Lines
<1>2. DOMAIN file = 1..Len(file) /\ Len(file) \in Nat
  BY <1>1
<1>3. \A i \in 1..Len(file) : i \in Nat \ {0} /\ file[i] \in Lines
  BY <1>1
<1>4. \A i \in 1..Len(file) : file[i].seq = i /\ file[i].event \in Events
  BY <1>2, <1>3 DEF Replayable, EventsOnly
<1>5. [i \in 1..Len(file) |-> file[i].event] \in Seq(Events)
  BY <1>2, <1>4
<1>6. Len([i \in 1..Len(file) |-> file[i].event]) = Len(file)
  BY <1>2
<1>7. \A i \in 1..Len(file) : file[i] = Record(i, file[i].event)
  BY <1>3, <1>4 DEF Record, Lines
<1> QED BY <1>2, <1>5, <1>6, <1>7

\* A commit appends one line, and what was there stays.
LEMMA WriteFacts ==
  ASSUME WalTypeOK, EventsOnly, WriteLine
  PROVE  /\ file' \in Seq(Lines)
         /\ Len(file') = Len(file) + 1
         /\ \A i \in 1..Len(file) : file'[i] = file[i]
         /\ file'[Len(file) + 1] =
              IF tail THEN Garbled ELSE Record(NextSeq, current)
<1> DEFINE new == IF tail THEN Garbled ELSE Record(NextSeq, current)
<1>1. file \in Seq(Lines) /\ NextSeq \in Nat /\ current \in Events
  BY DEF WalTypeOK, EventsOnly, WriteLine, NextSeq, Lines
<1>2. new \in Lines
  BY <1>1, GarbledFacts
<1>3. file' = Append(file, new)
  BY DEF WriteLine
<1> HIDE DEF new
<1>4. file' \in Seq(Lines) /\ Len(file') = Len(file) + 1
      /\ (\A i \in 1..Len(file) : file'[i] = file[i])
      /\ file'[Len(file) + 1] = new
  BY <1>1, <1>2, <1>3
<1> QED BY <1>4 DEF new

\* The event that is committed becomes the last one of the state.
LEMMA ApplyFacts ==
  ASSUME WalTypeOK, EventsOnly, SyncAndApply
  PROVE  /\ mem' \in Seq(Events)
         /\ Len(mem') = NextSeq
         /\ \A i \in 1..Len(mem) : mem'[i] = mem[i]
         /\ mem'[NextSeq] = current
         /\ NextSeq \in Nat \ {0}
  BY DEF WalTypeOK, EventsOnly, SyncAndApply, NextSeq

\* What a power failure leaves.
LEMMA LossFacts ==
  ASSUME WalTypeOK, SyncedWritten, PowerLoss
  PROVE  /\ file' \in Seq(Lines)
         /\ synced \in Nat /\ synced <= Len(file')
         /\ synced' = Len(file')
         /\ Len(file') <= Len(file)
         /\ \A i \in 1..Len(file') : file'[i] = file[i]
<1>1. PICK rest \in synced..Len(file) : file' = SubSeq(file, 1, rest) /\ synced' = rest
  BY DEF PowerLoss
<1>2. file \in Seq(Lines) /\ rest \in 0..Len(file) /\ synced \in Nat /\ synced <= rest
  BY DEF WalTypeOK, Lines, SyncedWritten
<1>3. /\ SubSeq(file, 1, rest) \in Seq(Lines)
      /\ Len(SubSeq(file, 1, rest)) = rest
      /\ \A i \in 1..rest : SubSeq(file, 1, rest)[i] = file[i]
  BY <1>2, PrefixFacts
<1> QED BY <1>1, <1>2, <1>3

\* The fields keep their types.
LEMMA TypeStep ==
  WalTypeOK /\ EventsOnly /\ SyncedWritten /\ [WalNext]_walVars => WalTypeOK'
<1> SUFFICES ASSUME WalTypeOK, EventsOnly, SyncedWritten, [WalNext]_walVars
             PROVE  WalTypeOK'
  OBVIOUS
<1>1. ASSUME NEW e \in Events, BeginCommit(e) PROVE WalTypeOK'
  BY <1>1 DEF WalTypeOK, BeginCommit
<1>2. CASE WriteLine
  BY <1>2, WriteFacts DEF WalTypeOK, WriteLine, Lines
<1>3. CASE SyncAndApply
  <2>1. <<NextSeq, current>> \in Nat \X Events
    BY <1>3 DEF WalTypeOK, EventsOnly, SyncAndApply, NextSeq
  <2>2. Len(file) \in Nat
    BY DEF WalTypeOK
  <2> QED BY <1>3, <2>1, <2>2, ApplyFacts DEF WalTypeOK, SyncAndApply
<1>4. CASE WriteError
  <2>1. tail' \in BOOLEAN
    BY <1>4, Zenon DEF WalTypeOK, WriteError
  <2> QED BY <1>4, <2>1 DEF WalTypeOK, WriteError
<1>5. CASE SyncError
  BY <1>5 DEF WalTypeOK, SyncError
<1>6. CASE ProcessCrash
  <2>1. tail' \in BOOLEAN
    <3>1. CASE stage = "writing"
      BY <1>6, <3>1, Zenon DEF WalTypeOK, ProcessCrash
    <3>2. CASE stage # "writing"
      BY <1>6, <3>2, Zenon DEF WalTypeOK, ProcessCrash
    <3> QED BY <3>1, <3>2
  <2> QED BY <1>6, <2>1 DEF WalTypeOK, ProcessCrash
<1>7. CASE PowerLoss
  <2>1. file' \in Seq(Lines) /\ synced' \in Nat
    BY <1>7, LossFacts
  <2>2. tail' \in BOOLEAN
    BY <1>7 DEF PowerLoss
  <2> QED BY <1>7, <2>1, <2>2 DEF WalTypeOK, PowerLoss, Lines
<1>8. CASE Reopen
  <2>1. Len(file) \in Nat
    BY DEF WalTypeOK
  <2>2. mem' \in Seq(Events)
    BY <1>8, ReplayedFacts DEF WalTypeOK, Reopen
  <2> QED BY <1>8, <2>1, <2>2 DEF WalTypeOK, Reopen
<1>9. CASE UNCHANGED walVars
  BY <1>9 DEF WalTypeOK, walVars
<1> QED BY <1>1, <1>2, <1>3, <1>4, <1>5, <1>6, <1>7, <1>8, <1>9 DEF WalNext

\* Commits have an event, the synced prefix is in the file, and the line just
\* written is the last one.
LEMMA CommitStep ==
  WalTypeOK /\ EventsOnly /\ SyncedWritten /\ LastLine /\ [WalNext]_walVars
    => EventsOnly' /\ SyncedWritten' /\ LastLine'
<1> SUFFICES ASSUME WalTypeOK, EventsOnly, SyncedWritten, LastLine, [WalNext]_walVars
             PROVE  EventsOnly' /\ SyncedWritten' /\ LastLine'
  OBVIOUS
<1> USE DEF EventsOnly, SyncedWritten, LastLine, NextSeq
<1>1. ASSUME NEW e \in Events, BeginCommit(e)
      PROVE  EventsOnly' /\ SyncedWritten' /\ LastLine'
  BY <1>1 DEF BeginCommit
<1>2. CASE WriteLine
  <2>0. file' \in Seq(Lines)
    BY <1>2, WriteFacts
  <2>1. file \in Seq(Lines) /\ NextSeq \in Nat /\ synced \in Nat /\ current \in Events
    BY <1>2 DEF WalTypeOK, Lines, WriteLine
  <2>2. \A i \in 1..Len(file') : i \in 1..Len(file) \/ i = Len(file) + 1
    BY <1>2, <2>0, <2>1, WriteFacts
  <2>3. EventsOnly'
    <3>1. \A i \in 1..Len(file') : file'[i].seq # 0 => file'[i].event \in Events
      <4> TAKE i \in 1..Len(file')
      <4>1. CASE i \in 1..Len(file)
        BY <1>2, <2>1, <4>1, WriteFacts
      <4>2. CASE i = Len(file) + 1
        <5>1. file'[i] = Garbled \/ file'[i] = Record(NextSeq, current)
          BY <1>2, <4>2, WriteFacts
        <5> QED BY <2>1, <5>1, GarbledFacts
      <4> QED BY <2>2, <4>1, <4>2
    <3>2. current' = current /\ stage' = "written"
      BY <1>2 DEF WriteLine
    <3> QED BY <2>0, <2>1, <3>1, <3>2
  <2>4. SyncedWritten'
    BY <1>2, <2>0, <2>1, WriteFacts DEF WriteLine
  <2>5. LastLine'
    BY <1>2, <2>0, <2>1, WriteFacts DEF WriteLine
  <2> QED BY <2>3, <2>4, <2>5
<1>3. CASE SyncAndApply
  BY <1>3 DEF SyncAndApply, WalTypeOK
<1>4. CASE WriteError
  BY <1>4 DEF WriteError
<1>5. CASE SyncError
  BY <1>5 DEF SyncError
<1>6. CASE ProcessCrash
  BY <1>6 DEF ProcessCrash
<1>7. CASE PowerLoss
  <2>1. file \in Seq(Lines) /\ file' \in Seq(Lines) /\ stage' = "down"
    BY <1>7, LossFacts DEF PowerLoss, WalTypeOK, Lines
  <2>2. \A i \in DOMAIN file' : i \in DOMAIN file /\ file'[i] = file[i]
    BY <1>7, <2>1, LossFacts
  <2> QED BY <1>7, <2>1, <2>2, LossFacts
<1>8. CASE Reopen
  BY <1>8 DEF Reopen, WalTypeOK
<1>9. CASE UNCHANGED walVars
  BY <1>9 DEF walVars
<1> QED BY <1>1, <1>2, <1>3, <1>4, <1>5, <1>6, <1>7, <1>8, <1>9 DEF WalNext

\* A log whose synced part is broken stays so.
LEMMA BrokenStays ==
  WalTypeOK /\ EventsOnly /\ SyncedWritten /\ Broken /\ [WalNext]_walVars => Broken'
<1> SUFFICES ASSUME WalTypeOK, EventsOnly, SyncedWritten, Broken, [WalNext]_walVars
             PROVE  Broken'
  OBVIOUS
<1> PICK i \in 1..synced : file[i].seq # i
  BY DEF Broken
<1>1. synced \in Nat /\ Len(file) \in Nat /\ i \in 1..Len(file)
  BY DEF WalTypeOK, SyncedWritten
<1> SUFFICES i \in 1..synced' /\ file'[i] = file[i]
  BY DEF Broken
<1>2. CASE WriteLine
  BY <1>1, <1>2, WriteFacts DEF WriteLine
<1>3. CASE SyncAndApply
  BY <1>1, <1>3 DEF SyncAndApply
<1>4. CASE PowerLoss
  BY <1>1, <1>4, LossFacts
<1>5. CASE Reopen
  BY <1>1, <1>5 DEF Reopen
<1>6. CASE UNCHANGED <<file, synced>>
  BY <1>1, <1>6
<1> QED BY <1>2, <1>3, <1>4, <1>5, <1>6
        DEF WalNext, walVars, BeginCommit, WriteError, SyncError, ProcessCrash

\* What was acknowledged stays on stable storage, unless a replay is refused.
LEMMA AckedStep ==
  WalInv /\ [WalNext]_walVars => AckedDurable'
<1> SUFFICES ASSUME WalInv, [WalNext]_walVars, ~Broken' PROVE AckedDurable'
  BY DEF AckedDurable
<1> USE DEF WalInv
<1>1. ~Broken
  BY BrokenStays
<1>2. \A a \in acked : a[1] \in 1..synced /\ file[a[1]] = Record(a[1], a[2])
  BY <1>1 DEF AckedDurable
<1>3. synced \in Nat /\ synced <= Len(file) /\ file \in Seq(Lines)
  BY DEF WalTypeOK, SyncedWritten, Lines
<1>4. CASE WriteLine
  <2>1. synced' = synced /\ acked' = acked
    BY <1>4 DEF WriteLine
  <2>2. \A i \in 1..synced : file'[i] = file[i]
    BY <1>3, <1>4, WriteFacts
  <2> QED BY <1>2, <1>3, <2>1, <2>2 DEF AckedDurable
<1>5. CASE SyncAndApply
  <2>1. synced' = Len(file) /\ file' = file
        /\ acked' = acked \cup {<<NextSeq, current>>}
    BY <1>5 DEF SyncAndApply
  <2>2. \A i \in 1..Len(file) : file[i].seq = i
    BY <2>1 DEF Broken
  <2>3. Len(file) > 0 /\ file[Len(file)] \in {Record(NextSeq, current), Garbled}
    BY <1>5 DEF LastLine, SyncAndApply
  <2>4. Len(file) \in 1..Len(file) /\ Len(file) # 0
    BY <1>3, <2>3
  <2>5. NextSeq \in Nat /\ current \in Events
    BY <1>5, ApplyFacts DEF EventsOnly, SyncAndApply
  <2>6. file[Len(file)] = Record(NextSeq, current) /\ Len(file) = NextSeq
    <3>1. file[Len(file)].seq # 0
      BY <2>2, <2>4
    <3>2. file[Len(file)] = Record(NextSeq, current)
      BY <2>3, <3>1, GarbledFacts
    <3>3. Record(NextSeq, current).seq = NextSeq
      BY <2>5, GarbledFacts
    <3> QED BY <2>2, <2>4, <3>2, <3>3
  <2>7. \A a \in acked : a[1] \in 1..Len(file)
    BY <1>2, <1>3
  <2> QED BY <1>2, <2>1, <2>4, <2>6, <2>7 DEF AckedDurable
<1>6. CASE PowerLoss
  <2>1. acked' = acked
    BY <1>6 DEF PowerLoss
  <2>2. synced' \in Nat /\ synced <= synced'
        /\ \A i \in 1..synced : file'[i] = file[i]
    BY <1>3, <1>6, LossFacts
  <2> QED BY <1>2, <1>3, <2>1, <2>2 DEF AckedDurable
<1>7. CASE Reopen
  <2>1. acked' = acked /\ file' = file /\ synced' \in Nat /\ synced <= synced'
    BY <1>3, <1>7 DEF Reopen
  <2> QED BY <1>2, <1>3, <2>1 DEF AckedDurable
<1>8. CASE UNCHANGED <<file, synced, acked>>
  BY <1>2, <1>8 DEF AckedDurable
<1> QED BY <1>4, <1>5, <1>6, <1>7, <1>8
        DEF WalNext, walVars, BeginCommit, WriteError, SyncError, ProcessCrash

\* What the process has applied is what a replay would give it.
LEMMA MemStep ==
  WalInv /\ [WalNext]_walVars => MemInFile'
<1> SUFFICES ASSUME WalInv, [WalNext]_walVars, Alive', Replayable'
             PROVE  \A i \in DOMAIN mem' : i \in DOMAIN file' /\ file'[i] = Record(i, mem'[i])
  BY DEF MemInFile
<1> USE DEF WalInv
<1>1. file \in Seq(Lines) /\ mem \in Seq(Events)
  BY DEF WalTypeOK, Lines
<1>2. CASE WriteLine
  <2>1. Alive /\ mem' = mem
    BY <1>2 DEF WriteLine, Alive
  <2>2. file' \in Seq(Lines) /\ Len(file') = Len(file) + 1
        /\ \A i \in DOMAIN file : i \in DOMAIN file' /\ file'[i] = file[i]
    BY <1>1, <1>2, WriteFacts
  <2>3. Replayable
    BY <2>2 DEF Replayable
  <2> QED BY <2>1, <2>2, <2>3 DEF MemInFile
<1>3. CASE SyncAndApply
  <2>1. file' = file /\ Alive /\ Replayable
    BY <1>3 DEF SyncAndApply, Alive, Replayable
  <2>2. \A i \in DOMAIN mem : i \in DOMAIN file /\ file[i] = Record(i, mem[i])
    BY <2>1 DEF MemInFile
  <2>3. Len(file) > 0 /\ file[Len(file)] \in {Record(NextSeq, current), Garbled}
    BY <1>3 DEF LastLine, SyncAndApply
  <2>4. Len(file) \in DOMAIN file /\ file[Len(file)].seq = Len(file)
    BY <1>1, <2>1, <2>3 DEF Replayable
  <2>5. NextSeq \in Nat /\ current \in Events
    BY <1>3, ApplyFacts DEF EventsOnly, SyncAndApply
  <2>6. NextSeq \in DOMAIN file /\ file[NextSeq] = Record(NextSeq, current)
    <3>1. file[Len(file)].seq # 0
      BY <2>3, <2>4
    <3>2. file[Len(file)] = Record(NextSeq, current)
      BY <2>3, <3>1, GarbledFacts
    <3>3. Record(NextSeq, current).seq = NextSeq
      BY <2>5, GarbledFacts
    <3> QED BY <2>4, <3>2, <3>3
  <2>7. \A i \in DOMAIN mem' : \/ i \in DOMAIN mem /\ mem'[i] = mem[i]
                               \/ i = NextSeq /\ mem'[i] = current
    BY <1>1, <1>3, ApplyFacts DEF NextSeq
  <2> QED BY <2>1, <2>2, <2>6, <2>7
<1>4. CASE Reopen
  <2>1. Replayable /\ file' = file /\ mem' = [i \in DOMAIN file |-> file[i].event]
    BY <1>4 DEF Reopen, Replayable, Alive
  <2>2. /\ DOMAIN mem' = DOMAIN file
        /\ \A i \in DOMAIN file : mem'[i] = file[i].event /\ file[i] = Record(i, file[i].event)
    BY <2>1, ReplayedFacts
  <2> QED BY <2>1, <2>2
<1>5. CASE Alive /\ UNCHANGED <<file, mem>>
  BY <1>5 DEF MemInFile, Replayable
<1> QED BY <1>2, <1>3, <1>4, <1>5
        DEF WalNext, walVars, BeginCommit, WriteError, SyncError, ProcessCrash,
            PowerLoss, Alive

\* An acknowledged event is in the state of every process that has one.
LEMMA SurviveStep ==
  WalInv /\ [WalNext]_walVars => AcknowledgedSurvive'
<1> SUFFICES ASSUME WalInv, [WalNext]_walVars, Alive'
             PROVE  \A a \in acked' : a[1] \in DOMAIN mem' /\ mem'[a[1]] = a[2]
  BY DEF AcknowledgedSurvive
<1> USE DEF WalInv
<1>1. mem \in Seq(Events)
  BY DEF WalTypeOK
<1>2. CASE SyncAndApply
  <2>1. acked' = acked \cup {<<NextSeq, current>>} /\ Alive
    BY <1>2 DEF SyncAndApply, Alive
  <2>2. \A a \in acked : a[1] \in DOMAIN mem /\ mem[a[1]] = a[2]
    BY <2>1 DEF AcknowledgedSurvive
  <2> QED BY <1>1, <1>2, <2>1, <2>2, ApplyFacts DEF NextSeq
<1>3. CASE Reopen
  <2>1. Replayable /\ acked' = acked /\ mem' = [i \in DOMAIN file |-> file[i].event]
    BY <1>3 DEF Reopen, Alive
  <2>2. ~Broken
    BY <2>1 DEF Broken, Replayable, WalTypeOK, SyncedWritten
  <2>3. \A a \in acked : a[1] \in 1..synced /\ file[a[1]] = Record(a[1], a[2])
    BY <2>2 DEF AckedDurable
  <2>4. \A a \in acked : a[1] \in DOMAIN file
    BY <2>3 DEF WalTypeOK, SyncedWritten
  <2>5. \A a \in acked : acked \subseteq Nat \X Events /\ file[a[1]].event = a[2]
    BY <2>3, GarbledFacts DEF WalTypeOK
  <2> QED BY <2>1, <2>4, <2>5
<1>4. CASE Alive /\ UNCHANGED <<acked, mem>>
  BY <1>4 DEF AcknowledgedSurvive
<1> QED BY <1>2, <1>3, <1>4
        DEF WalNext, walVars, BeginCommit, WriteLine, WriteError, SyncError,
            ProcessCrash, PowerLoss, Alive

LEMMA InvInit == WalInit => WalInv /\ FaultFree
<1> SUFFICES ASSUME WalInit PROVE WalInv /\ FaultFree
  OBVIOUS
<1> USE DEF WalInit
<1>1. Len(file) = 0 /\ Len(mem) = 0 /\ DOMAIN file = {} /\ DOMAIN mem = {}
  OBVIOUS
<1>2. WalTypeOK
  <2>1. tail \in BOOLEAN
    BY Zenon
  <2> QED BY <2>1 DEF WalTypeOK
<1>3. EventsOnly /\ SyncedWritten /\ LastLine /\ AckedDurable
  BY <1>1 DEF EventsOnly, SyncedWritten, LastLine, AckedDurable
<1>4. MemInFile /\ AcknowledgedSurvive
  BY <1>1 DEF MemInFile, AcknowledgedSurvive
<1>5. FaultFree
  <2>1. ~tail
    BY Zenon
  <2> QED BY <1>1, <2>1 DEF FaultFree, Replayable
<1> QED BY <1>2, <1>3, <1>4, <1>5 DEF WalInv

LEMMA InvStep == WalInv /\ [WalNext]_walVars => WalInv'
<1> SUFFICES ASSUME WalInv, [WalNext]_walVars PROVE WalInv'
  OBVIOUS
<1>1. WalTypeOK'
  BY TypeStep DEF WalInv
<1>2. EventsOnly' /\ SyncedWritten' /\ LastLine'
  BY CommitStep DEF WalInv
<1> QED BY <1>1, <1>2, AckedStep, MemStep, SurviveStep DEF WalInv

\* Without an error the file is one record longer than the state while a commit
\* is between its write and its sync, and as long as the state otherwise.
LEMMA FaultFreeStep ==
  WalInv /\ FaultFree /\ [WalNext]_walVars => FaultFree'
<1> SUFFICES ASSUME WalInv, FaultFree, [WalNext]_walVars, faults' = 0
             PROVE  /\ stage' # "corrupt"
                    /\ Replayable'
                    /\ Alive' => /\ ~tail'
                                 /\ Len(file') = Len(mem') + (IF stage' = "written" THEN 1 ELSE 0)
  BY DEF FaultFree
<1> USE DEF WalInv
<1>0. file \in Seq(Lines) /\ mem \in Seq(Events) /\ faults \in Nat
  BY DEF WalTypeOK, Lines
<1>1. ASSUME NEW e \in Events, BeginCommit(e)
      PROVE  stage' # "corrupt" /\ Replayable' /\ ~tail' /\ Len(file') = Len(mem')
             /\ stage' # "written"
  BY <1>1 DEF BeginCommit, FaultFree, Replayable, Alive
<1>2. CASE WriteLine
  <2>1. faults = 0 /\ Alive /\ stage = "writing" /\ stage' = "written" /\ ~tail' /\ mem' = mem
    BY <1>2 DEF WriteLine, Alive
  <2>2. ~tail /\ Len(file) = Len(mem) /\ Replayable
    BY <2>1 DEF FaultFree
  <2>3. NextSeq \in Nat /\ current \in Events /\ NextSeq = Len(file) + 1
    BY <1>0, <2>1, <2>2 DEF EventsOnly, NextSeq
  <2>4. file' \in Seq(Lines) /\ Len(file') = Len(file) + 1
        /\ (\A i \in 1..Len(file) : file'[i] = file[i])
        /\ file'[Len(file) + 1] = Record(NextSeq, current)
    BY <1>2, <2>2, WriteFacts
  <2>5. file'[Len(file) + 1].seq = Len(file) + 1
    BY <2>3, <2>4, GarbledFacts
  <2>6. Replayable'
    BY <1>0, <2>2, <2>4, <2>5 DEF Replayable
  <2> QED BY <1>0, <2>1, <2>2, <2>4, <2>6
<1>3. CASE SyncAndApply
  <2>1. faults = 0 /\ Alive /\ stage = "written" /\ stage' = "open"
        /\ tail' = tail /\ file' = file
    BY <1>3 DEF SyncAndApply, Alive
  <2> QED BY <1>0, <1>3, <2>1, ApplyFacts DEF FaultFree, Replayable, NextSeq
<1>4. CASE WriteError \/ SyncError
  <2>1. faults' = faults + 1
    BY <1>4 DEF WriteError, SyncError
  <2> QED BY <1>0, <2>1
<1>5. CASE ProcessCrash
  <2>1. faults = 0 /\ stage' = "down" /\ file' = file
    BY <1>5 DEF ProcessCrash
  <2> QED BY <2>1 DEF Alive, FaultFree, Replayable
<1>6. CASE PowerLoss
  <2>1. faults = 0 /\ stage' = "down"
    BY <1>6 DEF PowerLoss
  <2>2. Replayable
    BY <2>1 DEF FaultFree
  <2>3. Replayable'
    BY <1>0, <1>6, <2>2, LossFacts DEF Replayable
  <2> QED BY <2>1, <2>3 DEF Alive
<1>7. CASE Reopen
  <2>1. faults = 0 /\ Replayable
    BY <1>7 DEF Reopen, FaultFree
  <2>2. stage' = "open" /\ ~tail' /\ file' = file
        /\ mem' = [i \in DOMAIN file |-> file[i].event]
    BY <1>7, <2>1 DEF Reopen
  <2>3. Len(mem') = Len(file)
    BY <2>1, <2>2, ReplayedFacts
  <2> QED BY <1>0, <2>1, <2>2, <2>3 DEF Replayable
<1>8. CASE UNCHANGED walVars
  BY <1>8 DEF walVars, FaultFree, Replayable, Alive
<1> QED BY <1>1, <1>2, <1>3, <1>4, <1>5, <1>6, <1>7, <1>8 DEF WalNext

LEMMA WalInvariant == WalSpec => [](WalInv /\ FaultFree)
<1>1. WalInv /\ FaultFree /\ [WalNext]_walVars => (WalInv /\ FaultFree)'
  BY InvStep, FaultFreeStep
<1> QED BY InvInit, <1>1, PTL DEF WalSpec

-----------------------------------------------------------------------------
\* The log's fields keep their types: in particular a replay only ever yields
\* events, whatever crashes and errors have left in the file.
THEOREM WalTypeCorrect == WalSpec => []WalTypeOK
<1>1. WalInv /\ FaultFree => WalTypeOK
  BY DEF WalInv
<1> QED BY <1>1, WalInvariant, PTL

\* commit() writes and syncs before it applies: the state of a process can be
\* replayed from its file, and what was acknowledged is on stable storage.
THEOREM WalBefore == WalSpec => []WalBeforeState
<1>1. WalInv /\ FaultFree => WalBeforeState
  <2> SUFFICES ASSUME WalInv, Alive, Replayable
               PROVE  /\ \A i \in DOMAIN mem : i \in DOMAIN file /\ file[i] = Record(i, mem[i])
                      /\ \A a \in acked : a[1] <= synced
    BY DEF WalBeforeState
  <2>1. ~Broken
    BY DEF Broken, Replayable, WalInv, WalTypeOK, SyncedWritten
  <2> QED BY <2>1 DEF WalInv, MemInFile, AckedDurable, WalTypeOK
<1> QED BY <1>1, WalInvariant, PTL

\* commit()'s Ok(()) is kept for ever: a log that opens has every acknowledged
\* event at its place, over any number of crashes, power failures and errors.
THEOREM WalKeepsAcknowledged == WalSpec => []AcknowledgedSurvive
<1>1. WalInv /\ FaultFree => AcknowledgedSurvive
  BY DEF WalInv
<1> QED BY <1>1, WalInvariant, PTL

\* open() always succeeds if no write and no sync has ever failed, wherever the
\* process or the machine stopped.
THEOREM WalFaultFreeReopens == WalSpec => []FaultFreeReopens
<1>1. WalInv /\ FaultFree => FaultFreeReopens
  BY DEF FaultFree, FaultFreeReopens, AlwaysReopens
<1> QED BY <1>1, WalInvariant, PTL

\* The four together, for any number of crashes, power failures and I/O errors.
THEOREM WalIsSafe == WalSpec => []WalSafety
<1>1. WalTypeOK /\ WalBeforeState /\ AcknowledgedSurvive /\ FaultFreeReopens => WalSafety
  BY DEF WalSafety
<1> QED BY <1>1, WalTypeCorrect, WalBefore, WalKeepsAcknowledged, WalFaultFreeReopens, PTL

-----------------------------------------------------------------------------
(***************************************************************************)
(* MonitorTap                                                              *)
(*                                                                         *)
(* TapInv has seven parts: the types; the limits; the guard's window; the  *)
(* chain of the lines, whose end the writer remembers; what was kept is    *)
(* within what a power failure leaves; every number that was taken is with *)
(* an emitter, in a queue, in the writer's hand, a line, or counted; and   *)
(* the writer ends after the emitters, and the observer after the writer.  *)
(***************************************************************************)
HIDE WalAssumption
USE TapAssumption

EmittedRecords == [src : Nat \ {0}, critical : BOOLEAN]
ItemRecords == [src : Nat, critical : BOOLEAN]
LineRecords == [seq : Nat, src : Nat, critical : BOOLEAN, prev : Nat \X Nat]
InSend == {"send", "reserve", "drop"}
WriterStages == {"head", "receive", "append", "sync", "flush", "last flush", "done", "down"}

TapRecords == [sequence : Nat, emergency : Seq(EmittedRecords), critical : Seq(EmittedRecords),
               normal : Seq(EmittedRecords), dropped : Nat, open : BOOLEAN]
EmitterRecords == [pc : {"idle", "again"} \cup InSend, event : EmittedRecords \cup {Absent}, more : BOOLEAN]
WriterRecords == [pc : WriterStages, item : ItemRecords \cup {Absent}, reported : Nat, seq : Nat,
                  hash : Nat \X Nat, rotated : BOOLEAN, errors : Nat]
SpoolRecords == [lines : Seq(LineRecords), start : Nat, end : {"clean", "part", "gap"}, torn : BOOLEAN]
GuardRecords == [window : Seq(Conclusions), counts : [Conclusions -> Nat]]

EmittersTyped ==
  /\ tap \in TapRecords /\ emitter \in [Emitters -> EmitterRecords]
  /\ \A p \in Emitters : emitter[p].pc \in InSend => emitter[p].event \in EmittedRecords
WriterTyped ==
  /\ writer \in WriterRecords /\ (writer.pc \in {"append", "sync"} => writer.item \in ItemRecords)
  /\ spool \in SpoolRecords /\ durable \in Nat
  /\ rewound \in BOOLEAN /\ tapFaults \in [io : Nat, crashes : Nat]
TapTyped == EmittersTyped /\ WriterTyped

\* No queue is over its limit, and no more is reported as dropped than was.
RoomInv ==
  /\ Len(tap.critical) <= Capacity /\ Len(tap.normal) <= Capacity /\ Len(tap.emergency) <= Reserve
  /\ writer.reported <= tap.dropped

\* The guard counts what is in its window.
Positions(s, c) == {i \in DOMAIN s : s[i] = c}
GuardInv ==
  /\ guard \in GuardRecords /\ Len(guard.window) <= GuardWindow
  /\ \A c \in Conclusions : guard.counts[c] = Cardinality(Positions(guard.window, c))

\* While every failed write was taken back, the lines are one chain, and the writer
\* goes on where it ends.
ChainEnd == IF spool.lines = <<>> THEN BrokenLine ELSE Last(spool.lines)
Rising(lines) == \A i, j \in DOMAIN lines : i < j => lines[i].seq < lines[j].seq
ChainInv ==
  rewound =>
    /\ Openable /\ Rising(spool.lines)
    /\ writer.pc # "down" => spool.end = "clean" /\ writer.seq = ChainEnd.seq /\ writer.hash = HashOf(ChainEnd)

\* What was kept is among what a power failure leaves.
KeptInv ==
  /\ \A l \in kept : \E i \in 1 .. durable : spool.lines[i] = l
  /\ durable \in spool.start .. Len(spool.lines)
  /\ writer.pc = "sync" => spool.lines # <<>>

\* Every number that was taken is with an emitter, in a queue, in the writer's hand,
\* in the spool or counted.
Sending == {p \in Emitters : emitter[p].pc \in InSend}
InHand == IF writer.pc = "append" /\ writer.item.src > 0 THEN 1 ELSE 0
Told == {l \in SpoolLines : l.src > 0}
Queued == Len(tap.emergency) + Len(tap.critical) + Len(tap.normal)
Numbers == tap.sequence
Dropped == tap.dropped
Errors == writer.errors
Accounted == Cardinality(Sending) + Queued + InHand + Cardinality(Told) + Dropped + Errors
FlowInv == rewound /\ tapFaults.crashes = 0 => Numbers <= Accounted

\* The writer ends after the emitters and with empty queues, and the observer after it.
EndInv ==
  /\ ~tap.open => \A p \in Emitters : emitter[p].pc = "idle"
  /\ writer.pc \in {"last flush", "done"} =>
       ~tap.open /\ tap.emergency = <<>> /\ tap.critical = <<>> /\ tap.normal = <<>>
  /\ report.state # "none" /\ rewound /\ tapFaults.crashes = 0 =>
       writer.pc = "done" /\ report = [state |-> "healthy", lines |-> SpoolLines]

TapInv == TapTyped /\ RoomInv /\ GuardInv /\ ChainInv /\ KeptInv /\ FlowInv /\ EndInv

-----------------------------------------------------------------------------
(* The guard *)

LEMMA LinesFinite ==
  ASSUME NEW S, NEW s \in Seq(S)
  PROVE  IsFiniteSet(Range(s))
<1>1. IsFiniteSet(1 .. Len(s)) /\ DOMAIN s = 1 .. Len(s)
  BY FS_Interval, LenProperties
<1>2. \A x \in Range(s) : \E i \in 1 .. Len(s) : s[i] = x
  BY <1>1 DEF Range
<1>3. s \in Surjection(1 .. Len(s), Range(s))
  BY <1>1, <1>2 DEF Surjection, Range
<1> QED BY <1>1, <1>3, FS_Surjection

LEMMA PositionsFinite ==
  ASSUME NEW s \in Seq(Conclusions), NEW c
  PROVE  IsFiniteSet(Positions(s, c)) /\ Cardinality(Positions(s, c)) \in Nat
<1>1. Positions(s, c) \subseteq 1 .. Len(s) /\ Len(s) \in Nat
  BY DEF Positions
<1>2. IsFiniteSet(1 .. Len(s))
  BY <1>1, FS_Interval
<1> QED BY <1>1, <1>2, FS_Subset, FS_CardinalityType

LEMMA PositionsAppend ==
  ASSUME NEW s \in Seq(Conclusions), NEW d \in Conclusions, NEW c
  PROVE  Cardinality(Positions(Append(s, d), c)) =
           IF c = d THEN Cardinality(Positions(s, c)) + 1 ELSE Cardinality(Positions(s, c))
<1> DEFINE n == Len(s) + 1
<1>1. DOMAIN Append(s, d) = DOMAIN s \cup {n} /\ n \notin DOMAIN s /\ Append(s, d)[n] = d
      /\ \A i \in DOMAIN s : Append(s, d)[i] = s[i]
  BY DEF n
<1> HIDE DEF n
<1>2. CASE c = d
  <2>1. Positions(Append(s, d), c) = Positions(s, c) \cup {n} /\ n \notin Positions(s, c)
    BY <1>1, <1>2 DEF Positions
  <2> QED BY <1>2, <2>1, PositionsFinite, FS_AddElement
<1>3. CASE c # d
  <2>1. Positions(Append(s, d), c) = Positions(s, c)
    BY <1>1, <1>3 DEF Positions
  <2> QED BY <1>3, <2>1
<1> QED BY <1>2, <1>3

LEMMA PositionsTail ==
  ASSUME NEW s \in Seq(Conclusions), s # <<>>, NEW c
  PROVE  Cardinality(Positions(Tail(s), c)) =
           IF c = Head(s) THEN Cardinality(Positions(s, c)) - 1 ELSE Cardinality(Positions(s, c))
<1> DEFINE T == Positions(Tail(s), c)
           S == Positions(s, c) \ {1}
           f == [i \in T |-> i + 1]
<1>1. Tail(s) \in Seq(Conclusions) /\ Len(Tail(s)) = Len(s) - 1
      /\ \A i \in 1 .. Len(s) - 1 : Tail(s)[i] = s[i + 1]
  OBVIOUS
<1>2. T \subseteq 1 .. Len(s) - 1 /\ \A i \in T : i + 1 \in S
  BY <1>1 DEF Positions
<1>3. \A j \in S : j - 1 \in T
  BY <1>1 DEF Positions
<1>4. f \in Bijection(T, S)
  <2>1. f \in [T -> S]
    BY <1>2
  <2>2. \A i, j \in T : f[i] = f[j] => i = j
    BY <1>2
  <2>3. \A j \in S : \E i \in T : f[i] = j
    <3> TAKE j \in S
    <3>1. j - 1 \in T /\ (j - 1) + 1 = j
      BY <1>3 DEF Positions
    <3> QED BY <3>1
  <2> HIDE DEF f, T, S
  <2> QED BY <2>1, <2>2, <2>3 DEF Bijection, Injection, Surjection, IsInjective
<1>5. IsFiniteSet(T) /\ IsFiniteSet(Positions(s, c)) /\ Cardinality(Positions(s, c)) \in Nat
  BY <1>1, PositionsFinite
<1>6. Cardinality(S) = Cardinality(T)
  <2> HIDE DEF f, T, S
  <2> QED BY <1>4, <1>5, FS_Bijection DEF ExistsBijection
<1>7. 1 \in Positions(s, c) <=> c = Head(s)
  BY DEF Positions
<1>8. Cardinality(S) = IF 1 \in Positions(s, c) THEN Cardinality(Positions(s, c)) - 1
                       ELSE Cardinality(Positions(s, c))
  BY <1>5, FS_RemoveElement
<1> QED BY <1>6, <1>7, <1>8

LEMMA SlideKeeps ==
  ASSUME NEW g \in GuardRecords, NEW d \in Conclusions, Len(g.window) <= GuardWindow,
         \A c \in Conclusions : g.counts[c] = Cardinality(Positions(g.window, c))
  PROVE  LET n == Slide(g, d) IN
         /\ n \in GuardRecords /\ Len(n.window) <= GuardWindow
         /\ \A c \in Conclusions : n.counts[c] = Cardinality(Positions(n.window, c))
<1> DEFINE full == Append(g.window, d)
           over == Len(full) > GuardWindow
           less == IF over THEN [g.counts EXCEPT ![Head(full)] = IF @ > 0 THEN @ - 1 ELSE 0] ELSE g.counts
           w == IF over THEN Tail(full) ELSE full
           k == [less EXCEPT ![d] = @ + 1]
<1>1. g.window \in Seq(Conclusions) /\ g.counts \in [Conclusions -> Nat]
  BY DEF GuardRecords
<1>2. /\ full \in Seq(Conclusions) /\ Len(full) = Len(g.window) + 1 /\ full # <<>>
      /\ over => g.window # <<>> /\ Head(full) = Head(g.window) /\ Head(full) \in Conclusions
  <2> DEFINE v == g.window
  <2>1. v \in Seq(Conclusions) /\ Len(v) \in Nat
    BY <1>1
  <2> HIDE DEF v
  <2>2. Append(v, d) \in Seq(Conclusions) /\ Len(Append(v, d)) = Len(v) + 1 /\ Append(v, d) # <<>>
    BY <2>1
  <2>3. Len(v) + 1 > GuardWindow => v # <<>>
    BY <2>1, Len(<<>>) = 0
  <2>4. v # <<>> => Head(Append(v, d)) = Head(v) /\ Head(v) \in Conclusions
    BY <2>1
  <2> QED BY <2>2, <2>3, <2>4 DEF v
<1>3. w \in Seq(Conclusions) /\ Len(w) <= GuardWindow
  BY <1>1, <1>2
<1>4. \A c \in Conclusions : Cardinality(Positions(full, c)) =
        IF c = d THEN g.counts[c] + 1 ELSE g.counts[c]
  BY <1>1, PositionsAppend
<1>5. less \in [Conclusions -> Nat]
  BY <1>1, <1>2
<1>6. k \in [Conclusions -> Nat]
      /\ \A c \in Conclusions : k[c] = IF c = d THEN less[c] + 1 ELSE less[c]
  <2> DEFINE n == less[d] + 1
  <2>1. n \in Nat /\ k = [less EXCEPT ![d] = n]
    BY <1>5
  <2> HIDE DEF less, k
  <2>2. k \in [Conclusions -> Nat]
    BY <1>5, <2>1
  <2> QED BY <1>5, <2>1, <2>2
<1>7. \A c \in Conclusions : k[c] = Cardinality(Positions(w, c))
  <2>1. CASE ~over
    BY <1>4, <1>6, <2>1
  <2>2. CASE over
    <3>1. w = Tail(full)
      BY <2>2
    <3>2. \A c \in Conclusions : Cardinality(Positions(w, c)) =
            IF c = Head(full) THEN Cardinality(Positions(full, c)) - 1 ELSE Cardinality(Positions(full, c))
      BY <1>2, <3>1, PositionsTail
    <3>3. g.counts[Head(full)] > 0
      <4> DEFINE c == Head(full)
      <4>1. 1 \in Positions(g.window, c) /\ c \in Conclusions
        BY <1>1, <1>2, <2>2 DEF Positions
      <4>2. IsFiniteSet(Positions(g.window, c)) /\ Cardinality(Positions(g.window, c)) \in Nat
        BY <1>1, PositionsFinite
      <4>3. Cardinality(Positions(g.window, c)) # 0
        BY <4>1, <4>2, FS_EmptySet
      <4> HIDE DEF c
      <4>4. g.counts[c] > 0
        BY <4>1, <4>2, <4>3
      <4> QED BY <4>4 DEF c
    <3>4. \A c \in Conclusions : less[c] = IF c = Head(full) THEN g.counts[c] - 1 ELSE g.counts[c]
      BY <1>1, <1>2, <2>2, <3>3
    <3>5. ASSUME NEW c \in Conclusions PROVE k[c] = Cardinality(Positions(w, c))
      <4> HIDE DEF full, over, less, w, k
      <4>1. g.counts[c] \in Nat
        BY <1>1
      <4>2. k[c] = IF c = d THEN less[c] + 1 ELSE less[c]
        BY <1>6
      <4>3. less[c] = IF c = Head(full) THEN g.counts[c] - 1 ELSE g.counts[c]
        BY <3>4
      <4>4. Cardinality(Positions(full, c)) = IF c = d THEN g.counts[c] + 1 ELSE g.counts[c]
        BY <1>4
      <4>5. Cardinality(Positions(w, c)) =
              IF c = Head(full) THEN Cardinality(Positions(full, c)) - 1 ELSE Cardinality(Positions(full, c))
        BY <3>2
      <4> QED BY <4>1, <4>2, <4>3, <4>4, <4>5
    <3> QED BY <3>5
  <2> QED BY <2>1, <2>2
<1>8. Slide(g, d) = [window |-> w, counts |-> k]
  BY DEF Slide
<1> HIDE DEF w, k
<1> QED BY <1>3, <1>6, <1>7, <1>8 DEF GuardRecords

LEMMA NoGuardKeeps ==
  /\ NoGuard \in GuardRecords /\ Len(NoGuard.window) <= GuardWindow
  /\ \A c \in Conclusions : NoGuard.counts[c] = Cardinality(Positions(NoGuard.window, c))
<1>1. \A c : Positions(<<>>, c) = {}
  BY DEF Positions
<1>2. NoGuard.window = <<>> /\ \A c \in Conclusions : NoGuard.counts[c] = 0
  BY DEF NoGuard
<1>3. NoGuard \in GuardRecords
  BY DEF NoGuard, GuardRecords
<1>4. Cardinality({}) = 0
  BY FS_EmptySet
<1>5. Len(NoGuard.window) <= GuardWindow
  BY <1>2, Len(<<>>) = 0
<1>6. \A c \in Conclusions : Positions(NoGuard.window, c) = {}
  BY <1>1, <1>2
<1> QED BY <1>2, <1>3, <1>4, <1>5, <1>6

-----------------------------------------------------------------------------
(* What a step does to the fields. *)

TapGets(s, e, c, n, d, o) ==
  /\ tap'.sequence = s /\ tap'.emergency = e /\ tap'.critical = c /\ tap'.normal = n
  /\ tap'.dropped = d /\ tap'.open = o
EmitterGoes(p, stages) == emitter'[p].pc \in stages /\ \A q \in Emitters \ {p} : emitter'[q] = emitter[q]
WriterGets(p, r, s, h, e) ==
  writer'.pc = p /\ writer'.reported = r /\ writer'.seq = s /\ writer'.hash = h /\ writer'.errors = e
SpoolGets(l, s, e, t) == spool'.lines = l /\ spool'.start = s /\ spool'.end = e /\ spool'.torn = t

WriterSide == <<writer, spool, durable, report, kept, rewound, tapFaults>>

LEMMA NumberEffect ==
  ASSUME EmittersTyped, NEW p \in Emitters, NEW critical \in BOOLEAN, NEW more \in BOOLEAN,
         Number(p, critical, more)
  PROVE  /\ EmittersTyped' /\ EmitterGoes(p, {"send"})
         /\ TapGets(tap.sequence + 1, tap.emergency, tap.critical, tap.normal, tap.dropped, tap.open)
<1>1. tap' = [tap EXCEPT !.sequence = tap.sequence + 1] /\ tap \in TapRecords
  BY DEF Number, EmittersTyped
<1>2. tap' \in TapRecords
      /\ TapGets(tap.sequence + 1, tap.emergency, tap.critical, tap.normal, tap.dropped, tap.open)
  <2> DEFINE n == tap.sequence + 1
  <2>1. n \in Nat /\ tap' = [tap EXCEPT !.sequence = n]
    BY <1>1 DEF TapRecords
  <2> HIDE DEF n
  <2>2. tap' \in TapRecords
    BY <1>1, <2>1 DEF TapRecords
  <2>3. TapGets(n, tap.emergency, tap.critical, tap.normal, tap.dropped, tap.open)
    BY <1>1, <2>1 DEF TapRecords, TapGets
  <2> QED BY <2>2, <2>3 DEF n
<1> DEFINE v == [src |-> tap.sequence + 1, critical |-> critical]
           e == [pc |-> "send", event |-> v, more |-> more]
<1>3. emitter' = [emitter EXCEPT ![p] = e]
  BY DEF Number
<1>4. v \in EmittedRecords
  BY <1>1 DEF EmittedRecords, TapRecords
<1> HIDE DEF v
<1>5. e \in EmitterRecords /\ e.pc = "send" /\ e.event \in EmittedRecords
  BY <1>4 DEF EmitterRecords, InSend
<1> HIDE DEF e
<1> QED BY <1>2, <1>3, <1>5 DEF EmittersTyped, EmitterGoes

LEMMA ReturnedEffect ==
  ASSUME EmittersTyped, NEW p \in Emitters, emitter' = Returned(p), tap' \in TapRecords
  PROVE  EmittersTyped' /\ EmitterGoes(p, {"idle", "again"})
<1> DEFINE e == IF emitter[p].more THEN [Quiet EXCEPT !.pc = "again", !.more = TRUE] ELSE Quiet
<1>1. emitter' = [emitter EXCEPT ![p] = e]
  BY DEF Returned
<1>2. e \in EmitterRecords /\ e.pc \in {"idle", "again"}
  BY DEF EmitterRecords, Quiet
<1> HIDE DEF e
<1> QED BY <1>1, <1>2 DEF EmittersTyped, EmitterGoes, InSend

LEMMA EmitterToStage ==
  ASSUME EmittersTyped, NEW p \in Emitters, NEW s \in InSend, emitter[p].pc \in InSend,
         emitter' = [emitter EXCEPT ![p].pc = s], UNCHANGED tap
  PROVE  EmittersTyped' /\ EmitterGoes(p, {s})
<1> DEFINE e == [emitter[p] EXCEPT !.pc = s]
<1>1. emitter' = [emitter EXCEPT ![p] = e]
  OBVIOUS
<1>2. e \in EmitterRecords /\ e.pc = s /\ e.event \in EmittedRecords
  BY DEF EmittersTyped, EmitterRecords
<1> HIDE DEF e
<1> QED BY <1>1, <1>2 DEF EmittersTyped, EmitterGoes

-----------------------------------------------------------------------------
(* How many emitters are sending. *)

LEMMA SendingFinite == IsFiniteSet(Sending) /\ Cardinality(Sending) \in Nat
BY FS_Subset, FS_CardinalityType DEF Sending

LEMMA SendingGrows ==
  ASSUME NEW p \in Emitters, emitter[p].pc \notin InSend, EmitterGoes(p, {"send"})
  PROVE  Cardinality(Sending') = Cardinality(Sending) + 1
<1>1. Sending' = Sending \cup {p} /\ p \notin Sending
  BY DEF Sending, EmitterGoes, InSend
<1> QED BY <1>1, SendingFinite, FS_AddElement

LEMMA SendingShrinks ==
  ASSUME NEW p \in Emitters, emitter[p].pc \in InSend, EmitterGoes(p, {"idle", "again"})
  PROVE  Cardinality(Sending') = Cardinality(Sending) - 1
<1>1. Sending' = Sending \ {p} /\ p \in Sending
  BY DEF Sending, EmitterGoes, InSend
<1> QED BY <1>1, SendingFinite, FS_RemoveElement

LEMMA SendingStays ==
  ASSUME NEW p \in Emitters, emitter[p].pc \in InSend, EmitterGoes(p, InSend)
  PROVE  Sending' = Sending
BY DEF Sending, EmitterGoes

-----------------------------------------------------------------------------
(* The emitters' actions: the writer's side stays, and the tap is open. *)

OpenedBy(p) == tap.open \/ emitter[p].pc # "idle"

LEMMA EmittersInTime ==
  ASSUME EndInv, NEW p \in Emitters, OpenedBy(p)
  PROVE  tap.open /\ writer.pc \notin {"last flush", "done"}
BY DEF EndInv, OpenedBy

LEMMA WriterSideStays ==
  ASSUME TapInv, UNCHANGED WriterSide
  PROVE  /\ WriterTyped' /\ ChainInv' /\ KeptInv' /\ SpoolLines' = SpoolLines
         /\ InHand' = InHand /\ Told' = Told
BY DEF TapInv, TapTyped, WriterTyped, WriterSide, ChainInv, KeptInv, SpoolLines, InHand, Told,
       Openable, Chained, Follows, Rising, ChainEnd

Amounts ==
  /\ Queued \in Nat /\ InHand \in Nat /\ Cardinality(Told) \in Nat /\ Cardinality(Sending) \in Nat
  /\ Numbers \in Nat /\ Dropped \in Nat /\ Errors \in Nat

LEMMA ToldFinite == TapTyped => IsFiniteSet(Told)
<1> SUFFICES ASSUME TapTyped PROVE IsFiniteSet(Told)
  OBVIOUS
<1>1. spool.lines \in Seq(LineRecords)
  BY DEF TapTyped, WriterTyped, SpoolRecords
<1>2. IsFiniteSet(SpoolLines)
  BY <1>1, LinesFinite DEF SpoolLines
<1> QED BY <1>2, FS_Subset DEF Told

LEMMA AmountsTyped == TapTyped => Amounts
<1> SUFFICES ASSUME TapTyped PROVE Amounts
  OBVIOUS
<1>1. Queued \in Nat
  BY LenProperties DEF TapTyped, EmittersTyped, TapRecords, Queued
<1>2. InHand \in Nat
  BY DEF InHand
<1>3. Cardinality(Told) \in Nat
  BY ToldFinite, FS_CardinalityType
<1>4. Numbers \in Nat /\ Dropped \in Nat /\ Errors \in Nat
  BY DEF Numbers, Dropped, Errors, TapTyped, EmittersTyped, WriterTyped, TapRecords, WriterRecords
<1> QED BY <1>1, <1>2, <1>3, <1>4, SendingFinite DEF Amounts

\* By how much a step changes each of them.
MoreSending == Cardinality(Sending') - Cardinality(Sending)
MoreQueued == Queued' - Queued
MoreInHand == InHand' - InHand
MoreTold == Cardinality(Told') - Cardinality(Told)
MoreDropped == Dropped' - Dropped
MoreErrors == Errors' - Errors
MoreNumbers == Numbers' - Numbers

LEMMA NoMore ==
  ASSUME TapTyped
  PROVE  /\ Sending' = Sending => MoreSending = 0
         /\ Queued' = Queued => MoreQueued = 0
         /\ InHand' = InHand => MoreInHand = 0
         /\ Told' = Told => MoreTold = 0
         /\ Dropped' = Dropped => MoreDropped = 0
         /\ Errors' = Errors => MoreErrors = 0
         /\ Numbers' = Numbers => MoreNumbers = 0
<1>1. Amounts
  BY AmountsTyped
<1>2. Told' = Told => Cardinality(Told') = Cardinality(Told)
  OBVIOUS
<1>3. Sending' = Sending => Cardinality(Sending') = Cardinality(Sending)
  OBVIOUS
<1> QED BY <1>1, <1>2, <1>3
  DEF Amounts, MoreSending, MoreQueued, MoreInHand, MoreTold, MoreDropped, MoreErrors, MoreNumbers

\* The flow goes on when what is accounted for grows as the numbers do.
LEMMA FlowKeeps ==
  ASSUME TapInv, TapTyped',
         rewound' /\ tapFaults'.crashes = 0 =>
           /\ rewound /\ tapFaults.crashes = 0
           /\ MoreNumbers <= MoreSending + MoreQueued + MoreInHand + MoreTold + MoreDropped + MoreErrors
  PROVE  FlowInv'
<1>1. TapTyped' => Amounts'
  BY AmountsTyped, PTL
<1>2. Amounts /\ Amounts'
  BY <1>1, AmountsTyped DEF TapInv
<1> SUFFICES ASSUME rewound' /\ tapFaults'.crashes = 0 PROVE Numbers' <= Accounted'
  BY DEF FlowInv
<1>3. Numbers <= Cardinality(Sending) + Queued + InHand + Cardinality(Told) + Dropped + Errors
  BY DEF TapInv, FlowInv, Accounted
<1>4. Numbers' - Numbers <=
        (Cardinality(Sending') - Cardinality(Sending)) + (Queued' - Queued) + (InHand' - InHand)
        + (Cardinality(Told') - Cardinality(Told)) + (Dropped' - Dropped) + (Errors' - Errors)
  BY DEF MoreSending, MoreQueued, MoreInHand, MoreTold, MoreDropped, MoreErrors, MoreNumbers
<1>5. Numbers' <= Cardinality(Sending') + Queued' + InHand' + Cardinality(Told') + Dropped' + Errors'
  <2>1. PICK n \in Nat : n = Numbers'
    BY <1>2 DEF Amounts
  <2>2. PICK a \in Nat : a = Cardinality(Sending')
    BY <1>2 DEF Amounts
  <2>3. PICK b \in Nat : b = Queued'
    BY <1>2 DEF Amounts
  <2>4. PICK c \in Nat : c = InHand'
    BY <1>2 DEF Amounts
  <2>5. PICK d \in Nat : d = Cardinality(Told')
    BY <1>2 DEF Amounts
  <2>6. PICK e \in Nat : e = Dropped'
    BY <1>2 DEF Amounts
  <2>7. PICK f \in Nat : f = Errors'
    BY <1>2 DEF Amounts
  <2>8. n - Numbers <= (a - Cardinality(Sending)) + (b - Queued) + (c - InHand)
                       + (d - Cardinality(Told)) + (e - Dropped) + (f - Errors)
    BY <1>4, <2>1, <2>2, <2>3, <2>4, <2>5, <2>6, <2>7
  <2>9. n <= a + b + c + d + e + f
    <3>1. PICK x1 \in Nat : x1 = Cardinality(Sending)
      BY <1>2 DEF Amounts
    <3>2. PICK x2 \in Nat : x2 = Queued
      BY <1>2 DEF Amounts
    <3>3. PICK x3 \in Nat : x3 = InHand
      BY <1>2 DEF Amounts
    <3>4. PICK x4 \in Nat : x4 = Cardinality(Told)
      BY <1>2 DEF Amounts
    <3>5. PICK x5 \in Nat : x5 = Dropped
      BY <1>2 DEF Amounts
    <3>6. PICK x6 \in Nat : x6 = Errors
      BY <1>2 DEF Amounts
    <3>7. PICK x7 \in Nat : x7 = Numbers
      BY <1>2 DEF Amounts
    <3>8. x7 <= x1 + x2 + x3 + x4 + x5 + x6
      BY <1>3, <3>1, <3>2, <3>3, <3>4, <3>5, <3>6, <3>7
    <3>9. n - x7 <= (a - x1) + (b - x2) + (c - x3) + (d - x4) + (e - x5) + (f - x6)
      BY <2>8, <3>1, <3>2, <3>3, <3>4, <3>5, <3>6, <3>7
    <3> QED BY <3>8, <3>9
  <2> QED BY <2>1, <2>2, <2>3, <2>4, <2>5, <2>6, <2>7, <2>9
<1> QED BY <1>5 DEF Accounted

\* An emitter takes a number.
LEMMA NumberKeeps ==
  ASSUME TapInv, NEW p \in Emitters, NEW critical \in BOOLEAN, NEW more \in BOOLEAN,
         Number(p, critical, more), OpenedBy(p), emitter[p].pc \notin InSend, GuardInv',
         UNCHANGED WriterSide
  PROVE  TapInv'
<1>1. /\ EmittersTyped' /\ EmitterGoes(p, {"send"})
      /\ TapGets(tap.sequence + 1, tap.emergency, tap.critical, tap.normal, tap.dropped, tap.open)
  BY NumberEffect DEF TapInv, TapTyped
<1>2. tap.open /\ writer.pc \notin {"last flush", "done"}
  BY EmittersInTime DEF TapInv
<1>3. /\ WriterTyped' /\ ChainInv' /\ KeptInv' /\ SpoolLines' = SpoolLines
      /\ InHand' = InHand /\ Told' = Told
  BY WriterSideStays
<1>4. RoomInv'
  BY <1>1 DEF TapInv, RoomInv, TapGets, WriterSide
<1>5. EndInv'
  BY <1>1, <1>2 DEF TapInv, EndInv, TapGets, WriterSide
<1>6. FlowInv'
  <2>1. TapTyped /\ Amounts
    BY AmountsTyped DEF TapInv
  <2>2. Cardinality(Sending') = Cardinality(Sending) + 1
    BY <1>1, SendingGrows
  <2>3. MoreSending = 1
    BY <2>1, <2>2 DEF MoreSending, Amounts
  <2>4. MoreNumbers = 1
    BY <2>1, <1>1 DEF MoreNumbers, Numbers, Amounts, TapGets
  <2>5. Queued' = Queued
    BY <1>1 DEF Queued, TapGets
  <2>6. MoreQueued = 0 /\ MoreInHand = 0 /\ MoreTold = 0 /\ MoreDropped = 0 /\ MoreErrors = 0
    BY <1>1, <1>3, <2>1, <2>5, NoMore DEF TapGets, WriterSide, Dropped, Errors
  <2> QED BY <1>1, <1>3, <2>3, <2>4, <2>6, FlowKeeps DEF TapTyped, WriterSide
<1> QED BY <1>1, <1>3, <1>4, <1>5, <1>6 DEF TapInv, TapTyped

\* An event gets from its emitter to a queue, or is counted.
LEMMA LeaveKeeps ==
  ASSUME TapInv, NEW p \in Emitters, emitter[p].pc \in InSend, emitter' = Returned(p),
         tap' \in TapRecords, tap'.sequence = tap.sequence, tap'.open = tap.open, RoomInv',
         Queued' + Dropped' = Queued + Dropped + 1, UNCHANGED WriterSide, UNCHANGED guard
  PROVE  TapInv'
<1>1. EmittersTyped' /\ EmitterGoes(p, {"idle", "again"})
  BY ReturnedEffect DEF TapInv, TapTyped
<1>2. tap.open /\ writer.pc \notin {"last flush", "done"}
  BY EmittersInTime DEF TapInv, InSend, OpenedBy
<1>3. /\ WriterTyped' /\ ChainInv' /\ KeptInv' /\ SpoolLines' = SpoolLines
      /\ InHand' = InHand /\ Told' = Told
  BY WriterSideStays
<1>4. EndInv'
  BY <1>1, <1>2 DEF TapInv, EndInv, WriterSide
<1>5. FlowInv'
  <2>1. TapTyped /\ Amounts /\ TapTyped'
    BY <1>1, <1>3, AmountsTyped DEF TapInv, TapTyped
  <2>2. Amounts'
    BY <2>1, AmountsTyped, PTL
  <2>3. MoreSending = 0 - 1
    <3>1. Cardinality(Sending') = Cardinality(Sending) - 1
      BY <1>1, SendingShrinks
    <3> QED BY <3>1, <2>1 DEF MoreSending, Amounts
  <2>4. MoreQueued + MoreDropped = 1 /\ MoreQueued \in Int /\ MoreDropped \in Int
    <3>1. PICK m \in Nat : m = Queued'
      BY <2>2 DEF Amounts
    <3>2. PICK n \in Nat : n = Dropped'
      BY <2>2 DEF Amounts
    <3>3. m + n = Queued + Dropped + 1 /\ Queued \in Nat /\ Dropped \in Nat
      BY <2>1, <3>1, <3>2 DEF Amounts
    <3>4. MoreQueued = m - Queued /\ MoreDropped = n - Dropped
      BY <3>1, <3>2 DEF MoreQueued, MoreDropped
    <3>5. PICK a \in Nat : a = Queued
      BY <3>3
    <3>6. PICK b \in Nat : b = Dropped
      BY <3>3
    <3>7. m + n = a + b + 1 /\ MoreQueued = m - a /\ MoreDropped = n - b
      BY <3>3, <3>4, <3>5, <3>6
    <3> QED BY <3>7
  <2>5. MoreNumbers = 0 /\ MoreInHand = 0 /\ MoreTold = 0 /\ MoreErrors = 0
    BY <1>3, <2>1, NoMore DEF WriterSide, Numbers, Dropped, Errors
  <2> QED BY <2>1, <2>3, <2>4, <2>5, FlowKeeps DEF WriterSide
<1>6. GuardInv'
  BY DEF TapInv, GuardInv, Positions
<1> QED BY <1>1, <1>3, <1>4, <1>5, <1>6 DEF TapInv, TapTyped

\* It finds a queue full.
LEMMA StageKeeps ==
  ASSUME TapInv, NEW p \in Emitters, NEW s \in InSend, emitter[p].pc \in InSend,
         emitter' = [emitter EXCEPT ![p].pc = s], UNCHANGED <<tap, guard>>, UNCHANGED WriterSide
  PROVE  TapInv'
<1>1. EmittersTyped' /\ EmitterGoes(p, {s})
  BY EmitterToStage DEF TapInv, TapTyped
<1>2. tap.open /\ writer.pc \notin {"last flush", "done"}
  BY EmittersInTime DEF TapInv, InSend, OpenedBy
<1>3. /\ WriterTyped' /\ ChainInv' /\ KeptInv' /\ SpoolLines' = SpoolLines
      /\ InHand' = InHand /\ Told' = Told
  BY WriterSideStays
<1>4. RoomInv' /\ GuardInv'
  BY DEF TapInv, RoomInv, GuardInv, Positions, WriterSide
<1>5. EndInv'
  BY <1>1, <1>2 DEF TapInv, EndInv, WriterSide
<1>6. FlowInv'
  <2>1. TapTyped /\ TapTyped'
    BY <1>1, <1>3 DEF TapInv, TapTyped
  <2>2. Sending' = Sending
    BY <1>1, SendingStays DEF EmitterGoes
  <2>3. Queued' = Queued
    BY DEF Queued
  <2>4. /\ MoreSending = 0 /\ MoreQueued = 0 /\ MoreInHand = 0 /\ MoreTold = 0
        /\ MoreDropped = 0 /\ MoreErrors = 0 /\ MoreNumbers = 0
    BY <1>3, <2>1, <2>2, <2>3, NoMore DEF WriterSide, Numbers, Dropped, Errors
  <2> QED BY <2>1, <2>4, FlowKeeps DEF WriterSide
<1> QED BY <1>1, <1>3, <1>4, <1>5, <1>6 DEF TapInv, TapTyped

LEMMA EmitKeeps ==
  ASSUME TapInv, NEW p \in Emitters, Emit(p)
  PROVE  TapInv'
<1>1. PICK critical \in BOOLEAN : Number(p, critical, FALSE)
  BY DEF Emit
<1>2. GuardInv' /\ UNCHANGED WriterSide
  BY DEF TapInv, Emit, GuardInv, Positions, WriterSide
<1>3. OpenedBy(p) /\ emitter[p].pc \notin InSend
  BY DEF Emit, OpenedBy, InSend
<1> QED BY <1>1, <1>2, <1>3, NumberKeeps

LEMMA ObserveKeeps ==
  ASSUME TapInv, Observe
  PROVE  TapInv'
<1>1. PICK c \in Conclusions, evidence \in BOOLEAN :
        LET g == IF evidence THEN NoGuard ELSE Slide(guard, c) IN
        /\ guard' = g
        /\ IF ~evidence /\ Stagnant(g, c) THEN Number(Observing, TRUE, TRUE) ELSE UNCHANGED <<tap, emitter>>
  BY DEF Observe
<1>2. GuardInv'
  <2>1. CASE evidence
    <3>1. guard' = NoGuard
      BY <1>1, <2>1
    <3> QED BY <3>1, NoGuardKeeps DEF GuardInv
  <2>2. CASE ~evidence
    <3>1. guard' = Slide(guard, c)
      BY <1>1, <2>2
    <3> QED BY <3>1, SlideKeeps DEF TapInv, GuardInv
  <2> QED BY <2>1, <2>2
<1>3. UNCHANGED WriterSide /\ Observing \in Emitters
  BY TapAssumption DEF Observe, WriterSide, TapAssumption
<1>4. CASE Number(Observing, TRUE, TRUE)
  <2>1. OpenedBy(Observing) /\ emitter[Observing].pc \notin InSend
    BY DEF Observe, OpenedBy, InSend
  <2> QED BY <1>2, <1>3, <1>4, <2>1, NumberKeeps
<1>5. CASE UNCHANGED <<tap, emitter>>
  <2>1. EmittersTyped' /\ RoomInv' /\ EndInv' /\ FlowInv'
    BY <1>3, <1>5 DEF TapInv, TapTyped, EmittersTyped, RoomInv, EndInv, FlowInv, WriterSide, SpoolLines,
         Accounted, Sending, Queued, InHand, Told, Numbers, Dropped, Errors
  <2>2. WriterTyped' /\ ChainInv' /\ KeptInv'
    BY <1>3, WriterSideStays
  <2> QED BY <1>2, <2>1, <2>2 DEF TapInv, TapTyped
<1> QED BY <1>1, <1>4, <1>5

LEMMA EmitMitigationKeeps ==
  ASSUME TapInv, EmitMitigation
  PROVE  TapInv'
<1>1. GuardInv' /\ UNCHANGED WriterSide /\ Observing \in Emitters
  BY TapAssumption DEF TapAssumption, TapInv, EmitMitigation, GuardInv, Positions, WriterSide
<1>2. OpenedBy(Observing) /\ emitter[Observing].pc \notin InSend
  BY DEF EmitMitigation, OpenedBy, InSend
<1>3. Number(Observing, TRUE, FALSE)
  BY DEF EmitMitigation
<1> QED BY <1>1, <1>2, <1>3, NumberKeeps

\* The queues, with one more event or one less.
LEMMA QueuesTyped ==
  ASSUME TapTyped
  PROVE  /\ tap.emergency \in Seq(EmittedRecords) /\ tap.critical \in Seq(EmittedRecords)
         /\ tap.normal \in Seq(EmittedRecords) /\ tap.sequence \in Nat /\ tap.dropped \in Nat
         /\ tap.open \in BOOLEAN
BY DEF TapTyped, EmittersTyped, TapRecords

LEMMA LengthsTyped ==
  ASSUME TapTyped
  PROVE  Len(tap.emergency) \in Nat /\ Len(tap.critical) \in Nat /\ Len(tap.normal) \in Nat
BY QueuesTyped, LenProperties

LEMMA QueuedBy ==
  ASSUME TapTyped, NEW q \in Seq(EmittedRecords), NEW n \in {0 - 1, 1}
  PROVE  /\ Len(q) = Len(tap.critical) + n => Len(tap.emergency) + Len(q) + Len(tap.normal) = Queued + n
         /\ Len(q) = Len(tap.normal) + n => Len(tap.emergency) + Len(tap.critical) + Len(q) = Queued + n
         /\ Len(q) = Len(tap.emergency) + n => Len(q) + Len(tap.critical) + Len(tap.normal) = Queued + n
<1>1. PICK a \in Nat : a = Len(tap.emergency)
  BY LengthsTyped
<1>2. PICK b \in Nat : b = Len(tap.critical)
  BY LengthsTyped
<1>3. PICK c \in Nat : c = Len(tap.normal)
  BY LengthsTyped
<1>4. PICK l \in Int : l = Len(q)
  OBVIOUS
<1>5. Queued = a + b + c
  BY <1>1, <1>2, <1>3 DEF Queued
<1>6. n = 1 \/ n = 0 - 1
  OBVIOUS
<1>7. (l = b + n => a + l + c = a + b + c + n) /\ (l = c + n => a + b + l = a + b + c + n)
      /\ (l = a + n => l + b + c = a + b + c + n)
  BY <1>6
<1> QED BY <1>1, <1>2, <1>3, <1>4, <1>5, <1>7

LEMMA CriticalBecomes ==
  ASSUME TapTyped, NEW q \in Seq(EmittedRecords), tap' = [tap EXCEPT !.critical = q],
         NEW n \in {0 - 1, 1}, Len(q) = Len(tap.critical) + n
  PROVE  /\ tap' \in TapRecords /\ TapGets(tap.sequence, tap.emergency, q, tap.normal, tap.dropped, tap.open)
         /\ Queued' = Queued + n /\ Dropped' = Dropped
<1>1. tap' \in TapRecords /\ TapGets(tap.sequence, tap.emergency, q, tap.normal, tap.dropped, tap.open)
  BY QueuesTyped DEF TapRecords, TapGets, TapTyped, EmittersTyped
<1>2. Queued' = Queued + n
  <2>1. Queued' = Len(tap.emergency) + Len(q) + Len(tap.normal)
    BY <1>1 DEF TapGets, Queued
  <2>2. Len(tap.emergency) + Len(q) + Len(tap.normal) = Queued + n
    BY QueuedBy
  <2> QED BY <2>1, <2>2
<1> QED BY <1>1, <1>2 DEF TapGets, Dropped

LEMMA NormalBecomes ==
  ASSUME TapTyped, NEW q \in Seq(EmittedRecords), tap' = [tap EXCEPT !.normal = q],
         NEW n \in {0 - 1, 1}, Len(q) = Len(tap.normal) + n
  PROVE  /\ tap' \in TapRecords /\ TapGets(tap.sequence, tap.emergency, tap.critical, q, tap.dropped, tap.open)
         /\ Queued' = Queued + n /\ Dropped' = Dropped
<1>1. tap' \in TapRecords /\ TapGets(tap.sequence, tap.emergency, tap.critical, q, tap.dropped, tap.open)
  BY QueuesTyped DEF TapRecords, TapGets, TapTyped, EmittersTyped
<1>2. Queued' = Queued + n
  <2>1. Queued' = Len(tap.emergency) + Len(tap.critical) + Len(q)
    BY <1>1 DEF TapGets, Queued
  <2>2. Len(tap.emergency) + Len(tap.critical) + Len(q) = Queued + n
    BY QueuedBy
  <2> QED BY <2>1, <2>2
<1> QED BY <1>1, <1>2 DEF TapGets, Dropped

LEMMA EmergencyBecomes ==
  ASSUME TapTyped, NEW q \in Seq(EmittedRecords), tap' = [tap EXCEPT !.emergency = q],
         NEW n \in {0 - 1, 1}, Len(q) = Len(tap.emergency) + n
  PROVE  /\ tap' \in TapRecords /\ TapGets(tap.sequence, q, tap.critical, tap.normal, tap.dropped, tap.open)
         /\ Queued' = Queued + n /\ Dropped' = Dropped
<1>1. tap' \in TapRecords /\ TapGets(tap.sequence, q, tap.critical, tap.normal, tap.dropped, tap.open)
  BY QueuesTyped DEF TapRecords, TapGets, TapTyped, EmittersTyped
<1>2. Queued' = Queued + n
  <2>1. Queued' = Len(q) + Len(tap.critical) + Len(tap.normal)
    BY <1>1 DEF TapGets, Queued
  <2>2. Len(q) + Len(tap.critical) + Len(tap.normal) = Queued + n
    BY QueuedBy
  <2> QED BY <2>1, <2>2
<1> QED BY <1>1, <1>2 DEF TapGets, Dropped

LEMMA SendKeeps ==
  ASSUME TapInv, NEW p \in Emitters, Send(p)
  PROVE  TapInv'
<1> DEFINE e == emitter[p].event
           queue == IF e.critical THEN tap.critical ELSE tap.normal
<1>1. /\ emitter[p].pc = "send" /\ emitter[p].pc \in InSend /\ e \in EmittedRecords
      /\ UNCHANGED WriterSide /\ UNCHANGED guard /\ TapTyped
  BY DEF Send, InSend, WriterSide, TapInv, TapTyped, EmittersTyped
<1> HIDE DEF e
<1>2. CASE Len(queue) < Capacity /\ e.critical
  <2> DEFINE q == Append(tap.critical, e)
  <2>1. tap' = [tap EXCEPT !.critical = q] /\ emitter' = Returned(p)
    BY <1>2 DEF Send, e
  <2>2. q \in Seq(EmittedRecords) /\ Len(q) = Len(tap.critical) + 1
    BY <1>1, QueuesTyped
  <2> HIDE DEF q
  <2>3. /\ tap' \in TapRecords /\ TapGets(tap.sequence, tap.emergency, q, tap.normal, tap.dropped, tap.open)
        /\ Queued' = Queued + 1 /\ Dropped' = Dropped
    BY <1>1, <2>1, <2>2, CriticalBecomes
  <2>4. RoomInv'
    BY <1>1, <1>2, <2>2, <2>3, LengthsTyped, TapAssumption
    DEF TapAssumption, TapInv, RoomInv, TapGets, WriterSide
  <2>5. Queued' + Dropped' = Queued + Dropped + 1
    BY <1>1, <2>3, AmountsTyped DEF Amounts
  <2> QED BY <1>1, <2>1, <2>3, <2>4, <2>5, LeaveKeeps DEF TapGets
<1>3. CASE Len(queue) < Capacity /\ ~e.critical
  <2> DEFINE q == Append(tap.normal, e)
  <2>1. tap' = [tap EXCEPT !.normal = q] /\ emitter' = Returned(p)
    BY <1>3 DEF Send, e
  <2>2. q \in Seq(EmittedRecords) /\ Len(q) = Len(tap.normal) + 1
    BY <1>1, QueuesTyped
  <2> HIDE DEF q
  <2>3. /\ tap' \in TapRecords /\ TapGets(tap.sequence, tap.emergency, tap.critical, q, tap.dropped, tap.open)
        /\ Queued' = Queued + 1 /\ Dropped' = Dropped
    BY <1>1, <2>1, <2>2, NormalBecomes
  <2>4. RoomInv'
    BY <1>1, <1>3, <2>2, <2>3, LengthsTyped, TapAssumption
    DEF TapAssumption, TapInv, RoomInv, TapGets, WriterSide
  <2>5. Queued' + Dropped' = Queued + Dropped + 1
    BY <1>1, <2>3, AmountsTyped DEF Amounts
  <2> QED BY <1>1, <2>1, <2>3, <2>4, <2>5, LeaveKeeps DEF TapGets
<1>4. CASE ~(Len(queue) < Capacity)
  <2>1. emitter' = [emitter EXCEPT ![p].pc = IF e.critical THEN "reserve" ELSE "drop"] /\ UNCHANGED tap
    BY <1>4 DEF Send, e
  <2>2. (IF e.critical THEN "reserve" ELSE "drop") \in InSend
    BY DEF InSend
  <2> QED BY <1>1, <2>1, <2>2, StageKeeps
<1> QED BY <1>2, <1>3, <1>4

LEMMA SendReserveKeeps ==
  ASSUME TapInv, NEW p \in Emitters, SendReserve(p)
  PROVE  TapInv'
<1> DEFINE e == emitter[p].event
<1>1. /\ emitter[p].pc = "reserve" /\ emitter[p].pc \in InSend /\ e \in EmittedRecords
      /\ UNCHANGED WriterSide /\ UNCHANGED guard /\ TapTyped
  BY DEF SendReserve, InSend, WriterSide, TapInv, TapTyped, EmittersTyped
<1> HIDE DEF e
<1>2. CASE Len(tap.emergency) < Reserve
  <2> DEFINE q == Append(tap.emergency, e)
  <2>1. tap' = [tap EXCEPT !.emergency = q] /\ emitter' = Returned(p)
    BY <1>2 DEF SendReserve, e
  <2>2. q \in Seq(EmittedRecords) /\ Len(q) = Len(tap.emergency) + 1
    BY <1>1, QueuesTyped
  <2> HIDE DEF q
  <2>3. /\ tap' \in TapRecords /\ TapGets(tap.sequence, q, tap.critical, tap.normal, tap.dropped, tap.open)
        /\ Queued' = Queued + 1 /\ Dropped' = Dropped
    BY <1>1, <2>1, <2>2, EmergencyBecomes
  <2>4. RoomInv'
    BY <1>1, <1>2, <2>2, <2>3, LengthsTyped, TapAssumption
    DEF TapAssumption, TapInv, RoomInv, TapGets, WriterSide
  <2>5. Queued' + Dropped' = Queued + Dropped + 1
    BY <1>1, <2>3, AmountsTyped DEF Amounts
  <2> QED BY <1>1, <2>1, <2>3, <2>4, <2>5, LeaveKeeps DEF TapGets
<1>3. CASE ~(Len(tap.emergency) < Reserve)
  <2>1. emitter' = [emitter EXCEPT ![p].pc = "drop"] /\ UNCHANGED tap /\ "drop" \in InSend
    BY <1>3 DEF SendReserve, InSend
  <2> QED BY <1>1, <2>1, StageKeeps
<1> QED BY <1>2, <1>3

LEMMA DropEventKeeps ==
  ASSUME TapInv, NEW p \in Emitters, DropEvent(p)
  PROVE  TapInv'
<1>1. /\ emitter[p].pc \in InSend /\ UNCHANGED WriterSide /\ UNCHANGED guard /\ TapTyped
      /\ tap' = [tap EXCEPT !.dropped = tap.dropped + 1] /\ emitter' = Returned(p)
  BY DEF DropEvent, InSend, WriterSide, TapInv
<1>2. /\ tap' \in TapRecords
      /\ TapGets(tap.sequence, tap.emergency, tap.critical, tap.normal, tap.dropped + 1, tap.open)
  <2> DEFINE n == tap.dropped + 1
  <2>1. n \in Nat /\ tap' = [tap EXCEPT !.dropped = n]
    BY <1>1, QueuesTyped
  <2> HIDE DEF n
  <2>2. tap' \in TapRecords /\ TapGets(tap.sequence, tap.emergency, tap.critical, tap.normal, n, tap.open)
    BY <1>1, <2>1, QueuesTyped DEF TapRecords, TapGets, TapTyped, EmittersTyped
  <2> QED BY <2>2 DEF n
<1>3. RoomInv'
  <2>1. writer.reported \in Nat /\ tap.dropped \in Nat
    BY <1>1, QueuesTyped DEF TapTyped, WriterTyped, WriterRecords
  <2> QED BY <1>1, <1>2, <2>1 DEF TapInv, RoomInv, TapGets, WriterSide
<1>4. Queued' + Dropped' = Queued + Dropped + 1
  <2>1. Queued' = Queued /\ Dropped' = Dropped + 1
    BY <1>2 DEF Queued, Dropped, TapGets
  <2>2. Queued \in Nat /\ Dropped \in Nat
    BY <1>1, AmountsTyped DEF Amounts
  <2> QED BY <2>1, <2>2
<1> QED BY <1>1, <1>2, <1>3, <1>4, LeaveKeeps DEF TapGets

LEMMA UnregisterKeeps ==
  ASSUME TapInv, Unregister
  PROVE  TapInv'
<1>1. /\ UNCHANGED WriterSide /\ UNCHANGED <<emitter, guard>> /\ TapTyped
      /\ \A p \in Emitters : emitter[p].pc = "idle"
      /\ tap' = [tap EXCEPT !.open = FALSE] /\ tap.open
  BY DEF Unregister, WriterSide, TapInv
<1>2. /\ tap' \in TapRecords
      /\ TapGets(tap.sequence, tap.emergency, tap.critical, tap.normal, tap.dropped, FALSE)
  BY <1>1 DEF TapRecords, TapGets, TapTyped, EmittersTyped
<1>3. EmittersTyped'
  BY <1>1, <1>2 DEF TapTyped, EmittersTyped
<1>4. /\ WriterTyped' /\ ChainInv' /\ KeptInv' /\ SpoolLines' = SpoolLines
      /\ InHand' = InHand /\ Told' = Told
  BY <1>1, WriterSideStays
<1>5. RoomInv' /\ GuardInv'
  BY <1>1, <1>2 DEF TapInv, RoomInv, GuardInv, Positions, TapGets, WriterSide
<1>6. EndInv'
  BY <1>1, <1>2 DEF TapInv, EndInv, TapGets, WriterSide, SpoolLines
<1>7. FlowInv'
  BY <1>1, <1>2 DEF TapInv, FlowInv, WriterSide, TapGets, SpoolLines,
         Accounted, Sending, Queued, InHand, Told, Numbers, Dropped, Errors
<1> QED BY <1>3, <1>4, <1>5, <1>6, <1>7 DEF TapInv, TapTyped

-----------------------------------------------------------------------------
(* The writer's actions. *)

LEMMA EmitterSideStays ==
  ASSUME TapInv, UNCHANGED <<emitter, guard>>
  PROVE  /\ GuardInv' /\ Sending' = Sending
         /\ UNCHANGED tap => EmittersTyped' /\ Queued' = Queued /\ Numbers' = Numbers /\ Dropped' = Dropped
BY DEF TapInv, TapTyped, EmittersTyped, GuardInv, Positions, Sending, Queued, Numbers, Dropped

LEMMA FaultyEffect ==
  ASSUME TapInv, Faulty
  PROVE  tapFaults' \in [io : Nat, crashes : Nat] /\ tapFaults'.crashes = tapFaults.crashes
<1> DEFINE n == tapFaults.io + 1
<1>1. tapFaults \in [io : Nat, crashes : Nat] /\ tapFaults' = [tapFaults EXCEPT !.io = n]
  BY DEF TapInv, TapTyped, WriterTyped, Faulty
<1>2. n \in Nat
  BY <1>1
<1> HIDE DEF n
<1> QED BY <1>1, <1>2

LEMMA WriterFields ==
  ASSUME TapInv
  PROVE  /\ writer \in WriterRecords /\ writer.pc \in WriterStages /\ writer.item \in ItemRecords \cup {Absent}
         /\ writer.reported \in Nat /\ writer.seq \in Nat /\ writer.hash \in Nat \X Nat
         /\ writer.rotated \in BOOLEAN /\ writer.errors \in Nat /\ Errors \in Nat
BY DEF TapInv, TapTyped, WriterTyped, WriterRecords, Errors

LEMMA WriterGoes ==
  ASSUME TapInv, NEW p \in WriterStages, writer' = [writer EXCEPT !.pc = p]
  PROVE  writer' \in WriterRecords /\ writer'.item = writer.item
         /\ WriterGets(p, writer.reported, writer.seq, writer.hash, writer.errors)
BY WriterFields DEF WriterRecords, WriterGets

LEMMA WriterTakes ==
  ASSUME TapInv, NEW p \in WriterStages, NEW e \in ItemRecords \cup {Absent},
         writer' = [writer EXCEPT !.pc = p, !.item = e]
  PROVE  writer' \in WriterRecords /\ writer'.item = e
         /\ WriterGets(p, writer.reported, writer.seq, writer.hash, writer.errors)
BY WriterFields DEF WriterRecords, WriterGets

LEMMA WriterSkips ==
  ASSUME TapInv, Skipped
  PROVE  /\ writer' \in WriterRecords /\ writer'.pc \in {"receive", "head"} /\ MoreErrors = 1
         /\ writer'.reported = writer.reported /\ writer'.seq = writer.seq /\ writer'.hash = writer.hash
<1> DEFINE n == writer.errors + 1
           p == After(writer.item)
<1>1. n \in Nat /\ p \in {"receive", "head"} /\ p \in WriterStages
  <2>1. p \in {"receive", "head"} /\ p \in WriterStages
    BY DEF After, WriterStages
  <2>2. n \in Nat
    BY WriterFields
  <2> QED BY <2>1, <2>2
<1>2. writer' = [writer EXCEPT !.pc = p, !.item = Absent, !.errors = n]
  BY DEF Skipped
<1> HIDE DEF n, p
<1>3. writer' \in WriterRecords /\ WriterGets(p, writer.reported, writer.seq, writer.hash, n)
  BY <1>1, <1>2, WriterFields DEF WriterRecords, WriterGets
<1>4. MoreErrors = 1
  BY <1>3, WriterFields DEF MoreErrors, Errors, n, WriterGets
<1> QED BY <1>1, <1>3, <1>4 DEF WriterGets

\* A step that adds no line.
LEMMA LinesStay ==
  ASSUME TapInv, spool'.lines = spool.lines, writer.pc # "down", writer'.pc # "sync",
         spool'.start \in {spool.start, durable'}, durable' \in {durable, Len(spool.lines)},
         \A l \in kept' : l \in kept \/ (durable' = Len(spool.lines) /\ spool.lines # <<>> /\ l = Last(spool.lines)),
         rewound' => rewound /\ ~spool'.torn /\ spool'.end = "clean",
         writer'.seq = writer.seq, writer'.hash = writer.hash
  PROVE  ChainInv' /\ KeptInv' /\ SpoolLines' = SpoolLines /\ Told' = Told
<1>1. SpoolLines' = SpoolLines /\ Told' = Told
  BY DEF SpoolLines, Told
<1>2. ChainInv'
  BY DEF TapInv, ChainInv, Openable, Rising, ChainEnd
<1>3. spool.lines \in Seq(LineRecords) /\ Len(spool.lines) \in Nat /\ durable \in Nat /\ spool.start \in Nat
  BY LenProperties DEF TapInv, TapTyped, WriterTyped, SpoolRecords
<1>4. durable \in spool.start .. Len(spool.lines)
  BY DEF TapInv, KeptInv
<1>5. durable' \in spool'.start .. Len(spool.lines) /\ durable <= durable' /\ durable' \in Nat
  BY <1>3, <1>4
<1>6. \A l \in kept' : \E i \in 1 .. durable' : spool.lines[i] = l
  <2> TAKE l \in kept'
  <2>1. CASE l \in kept
    <3>1. PICK i \in 1 .. durable : spool.lines[i] = l
      BY <2>1 DEF TapInv, KeptInv
    <3> QED BY <1>3, <1>5, <3>1
  <2>2. CASE durable' = Len(spool.lines) /\ spool.lines # <<>> /\ l = Last(spool.lines)
    <3>1. Len(spool.lines) \in 1 .. durable' /\ spool.lines[Len(spool.lines)] = l
      BY <1>3, <2>2, EmptySeq DEF Last
    <3> QED BY <3>1
  <2> QED BY <2>1, <2>2
<1> QED BY <1>1, <1>2, <1>5, <1>6 DEF KeptInv

LEMMA EndStays ==
  ASSUME TapInv, UNCHANGED <<emitter, report>>, tap'.open = tap.open, writer.pc # "done",
         rewound' => rewound, tapFaults'.crashes = 0 => tapFaults.crashes = 0,
         writer'.pc \in {"last flush", "done"} =>
           ~tap.open /\ tap'.emergency = <<>> /\ tap'.critical = <<>> /\ tap'.normal = <<>>
  PROVE  EndInv'
BY DEF TapInv, EndInv

LEMMA LoopHeadKeeps ==
  ASSUME TapInv, LoopHead
  PROVE  TapInv'
<1> DEFINE n == tap.dropped
           e == [src |-> 0, critical |-> TRUE]
<1>1. /\ writer.pc = "head" /\ UNCHANGED <<emitter, guard>> /\ UNCHANGED tap
      /\ UNCHANGED <<spool, durable, report, kept, rewound, tapFaults>> /\ TapTyped /\ n \in Nat
  BY QueuesTyped DEF LoopHead, TapInv
<1>2. /\ GuardInv' /\ Sending' = Sending
      /\ EmittersTyped' /\ Queued' = Queued /\ Numbers' = Numbers /\ Dropped' = Dropped
  BY <1>1, EmitterSideStays
<1>3. /\ writer' \in WriterRecords /\ writer'.seq = writer.seq /\ writer'.hash = writer.hash
      /\ writer'.errors = writer.errors /\ writer'.reported <= n
      /\ \/ writer'.pc = "receive"
         \/ writer'.pc = "append" /\ writer'.item = e
  <2>1. CASE n > writer.reported
    <3>1. writer' = [writer EXCEPT !.pc = "append", !.item = e, !.reported = n]
      BY <2>1 DEF LoopHead
    <3>2. "append" \in WriterStages /\ e \in ItemRecords
      BY DEF WriterStages, ItemRecords
    <3> HIDE DEF e, n
    <3>3. writer' \in WriterRecords /\ writer'.reported = n /\ writer'.pc = "append" /\ writer'.item = e
      BY <1>1, <3>1, <3>2, WriterFields DEF WriterRecords
    <3>4. writer'.seq = writer.seq /\ writer'.hash = writer.hash /\ writer'.errors = writer.errors
      BY <3>1, WriterFields DEF WriterRecords
    <3> QED BY <1>1, <3>3, <3>4
  <2>2. CASE ~(n > writer.reported)
    <3>1. writer' = [writer EXCEPT !.pc = "receive"]
      BY <2>2 DEF LoopHead
    <3>2. "receive" \in WriterStages
      BY DEF WriterStages
    <3>3. writer' \in WriterRecords /\ WriterGets("receive", writer.reported, writer.seq, writer.hash, writer.errors)
      BY <3>1, <3>2, WriterGoes
    <3>4. writer.reported <= n
      BY DEF TapInv, RoomInv
    <3> QED BY <3>3, <3>4 DEF WriterGets
  <2> QED BY <2>1, <2>2
<1>4. WriterTyped'
  <2>1. e \in ItemRecords
    BY DEF ItemRecords
  <2> QED BY <1>1, <1>3, <2>1 DEF TapTyped, WriterTyped
<1>5. ChainInv' /\ KeptInv' /\ SpoolLines' = SpoolLines /\ Told' = Told
  BY <1>1, <1>3, LinesStay DEF TapInv, ChainInv, Openable
<1>6. EndInv'
  BY <1>1, <1>3, EndStays
<1>7. RoomInv'
  BY <1>1, <1>3 DEF TapInv, RoomInv
<1>8. FlowInv'
  <2>1. InHand = 0 /\ InHand' = 0
    BY <1>1, <1>3 DEF InHand
  <2>2. Errors' = Errors
    BY <1>3 DEF Errors
  <2>3. /\ MoreSending = 0 /\ MoreQueued = 0 /\ MoreInHand = 0 /\ MoreTold = 0
        /\ MoreDropped = 0 /\ MoreErrors = 0 /\ MoreNumbers = 0
    BY <1>1, <1>2, <1>5, <2>1, <2>2, NoMore DEF Errors, Dropped, Numbers
  <2> QED BY <1>1, <1>2, <1>4, <2>3, FlowKeeps DEF TapTyped
<1> QED BY <1>2, <1>4, <1>5, <1>6, <1>7, <1>8 DEF TapInv, TapTyped

\* The head of a queue is in the writer's hand, and no longer in the queue.
LEMMA TakenKeeps ==
  ASSUME TapInv, writer.pc = "receive", NEW e \in EmittedRecords,
         writer' = [writer EXCEPT !.pc = "append", !.item = e],
         tap' \in TapRecords, Queued' = Queued - 1, tap'.sequence = tap.sequence,
         tap'.dropped = tap.dropped, tap'.open = tap.open,
         Len(tap'.emergency) <= Len(tap.emergency), Len(tap'.critical) <= Len(tap.critical),
         Len(tap'.normal) <= Len(tap.normal),
         UNCHANGED <<emitter, guard>>, UNCHANGED <<spool, durable, report, kept, rewound, tapFaults>>
  PROVE  TapInv'
<1>1. "append" \in WriterStages /\ e \in ItemRecords /\ e.src > 0
  BY DEF WriterStages, ItemRecords, EmittedRecords
<1>2. /\ writer' \in WriterRecords /\ writer'.item = e
      /\ WriterGets("append", writer.reported, writer.seq, writer.hash, writer.errors)
  BY <1>1, WriterTakes
<1>3. GuardInv' /\ Sending' = Sending
  BY EmitterSideStays
<1>4. EmittersTyped' /\ WriterTyped' /\ TapTyped'
  BY <1>1, <1>2 DEF TapInv, TapTyped, EmittersTyped, WriterTyped, WriterGets
<1>5. ChainInv' /\ KeptInv' /\ SpoolLines' = SpoolLines /\ Told' = Told
  BY <1>2, LinesStay DEF TapInv, ChainInv, Openable, WriterGets
<1>6. EndInv'
  BY <1>2, EndStays DEF WriterGets
<1>7. RoomInv'
  <2>1. TapTyped
    BY DEF TapInv
  <2>2. Len(tap'.emergency) \in Nat /\ Len(tap'.critical) \in Nat /\ Len(tap'.normal) \in Nat
    BY LenProperties DEF TapRecords
  <2>3. Len(tap.emergency) \in Nat /\ Len(tap.critical) \in Nat /\ Len(tap.normal) \in Nat
    BY <2>1, LengthsTyped
  <2>4. Len(tap.critical) <= Capacity /\ Len(tap.normal) <= Capacity /\ Len(tap.emergency) <= Reserve
    BY DEF TapInv, RoomInv
  <2>5. Len(tap'.emergency) <= Reserve
    BY <2>2, <2>3, <2>4, TapAssumption DEF TapAssumption
  <2>6. Len(tap'.critical) <= Capacity
    BY <2>2, <2>3, <2>4, TapAssumption DEF TapAssumption
  <2>7. Len(tap'.normal) <= Capacity
    BY <2>2, <2>3, <2>4, TapAssumption DEF TapAssumption
  <2> QED BY <1>2, <2>5, <2>6, <2>7 DEF TapInv, RoomInv, WriterGets
<1>8. FlowInv'
  <2>1. InHand = 0 /\ InHand' = 1
    BY <1>1, <1>2 DEF InHand, WriterGets
  <2>2. MoreInHand = 1
    BY <2>1 DEF MoreInHand
  <2>3. TapTyped /\ Amounts
    BY AmountsTyped DEF TapInv
  <2>4. MoreQueued = 0 - 1
    <3>1. PICK a \in Nat : a = Queued
      BY <2>3 DEF Amounts
    <3>2. MoreQueued = (a - 1) - a
      BY <3>1 DEF MoreQueued
    <3> QED BY <3>2
  <2>5. MoreSending = 0 /\ MoreTold = 0 /\ MoreDropped = 0 /\ MoreErrors = 0 /\ MoreNumbers = 0
    BY <1>2, <1>3, <1>5, <2>3, NoMore DEF Errors, Dropped, Numbers, WriterGets
  <2> QED BY <1>4, <2>2, <2>4, <2>5, FlowKeeps
<1> QED BY <1>3, <1>4, <1>5, <1>6, <1>7, <1>8 DEF TapInv

LEMMA TailShorter ==
  ASSUME NEW q \in Seq(EmittedRecords), q # <<>>
  PROVE  Tail(q) \in Seq(EmittedRecords) /\ Len(Tail(q)) = Len(q) + (0 - 1) /\ Len(Tail(q)) <= Len(q)
         /\ Head(q) \in EmittedRecords
<1>1. Tail(q) \in Seq(EmittedRecords) /\ Len(Tail(q)) = Len(q) - 1 /\ Len(q) \in Nat
      /\ Head(q) \in EmittedRecords
  OBVIOUS
<1> QED BY <1>1

LEMMA ReceiveKeeps ==
  ASSUME TapInv, Receive
  PROVE  TapInv'
<1>1. /\ writer.pc = "receive" /\ UNCHANGED <<emitter, guard>>
      /\ UNCHANGED <<spool, durable, report, kept, rewound, tapFaults>> /\ TapTyped
  BY DEF Receive, TapInv
<1>2. CASE tap.emergency # <<>>
  <2> DEFINE q == Tail(tap.emergency)
             e == Head(tap.emergency)
  <2>1. tap' = [tap EXCEPT !.emergency = q] /\ writer' = [writer EXCEPT !.pc = "append", !.item = e]
    BY <1>2 DEF Receive
  <2>2. q \in Seq(EmittedRecords) /\ Len(q) = Len(tap.emergency) + (0 - 1) /\ Len(q) <= Len(tap.emergency)
        /\ e \in EmittedRecords
    BY <1>1, <1>2, QueuesTyped, TailShorter
  <2> HIDE DEF q, e
  <2>3. /\ tap' \in TapRecords /\ TapGets(tap.sequence, q, tap.critical, tap.normal, tap.dropped, tap.open)
        /\ Queued' = Queued + (0 - 1)
    BY <1>1, <2>1, <2>2, EmergencyBecomes
  <2>4. Queued' = Queued - 1 /\ Len(tap.critical) <= Len(tap.critical) /\ Len(tap.normal) <= Len(tap.normal)
    BY <1>1, <2>3, AmountsTyped, LengthsTyped DEF Amounts
  <2> QED BY <1>1, <2>1, <2>2, <2>3, <2>4, TakenKeeps DEF TapGets
<1>3. CASE tap.emergency = <<>> /\ tap.critical # <<>>
  <2> DEFINE q == Tail(tap.critical)
             e == Head(tap.critical)
  <2>1. tap' = [tap EXCEPT !.critical = q] /\ writer' = [writer EXCEPT !.pc = "append", !.item = e]
    BY <1>3 DEF Receive
  <2>2. q \in Seq(EmittedRecords) /\ Len(q) = Len(tap.critical) + (0 - 1) /\ Len(q) <= Len(tap.critical)
        /\ e \in EmittedRecords
    BY <1>1, <1>3, QueuesTyped, TailShorter
  <2> HIDE DEF q, e
  <2>3. /\ tap' \in TapRecords /\ TapGets(tap.sequence, tap.emergency, q, tap.normal, tap.dropped, tap.open)
        /\ Queued' = Queued + (0 - 1)
    BY <1>1, <2>1, <2>2, CriticalBecomes
  <2>4. Queued' = Queued - 1 /\ Len(tap.emergency) <= Len(tap.emergency) /\ Len(tap.normal) <= Len(tap.normal)
    BY <1>1, <2>3, AmountsTyped, LengthsTyped DEF Amounts
  <2> QED BY <1>1, <2>1, <2>2, <2>3, <2>4, TakenKeeps DEF TapGets
<1>4. CASE tap.emergency = <<>> /\ tap.critical = <<>> /\ tap.normal # <<>>
  <2> DEFINE q == Tail(tap.normal)
             e == Head(tap.normal)
  <2>1. tap' = [tap EXCEPT !.normal = q] /\ writer' = [writer EXCEPT !.pc = "append", !.item = e]
    BY <1>4 DEF Receive
  <2>2. q \in Seq(EmittedRecords) /\ Len(q) = Len(tap.normal) + (0 - 1) /\ Len(q) <= Len(tap.normal)
        /\ e \in EmittedRecords
    BY <1>1, <1>4, QueuesTyped, TailShorter
  <2> HIDE DEF q, e
  <2>3. /\ tap' \in TapRecords /\ TapGets(tap.sequence, tap.emergency, tap.critical, q, tap.dropped, tap.open)
        /\ Queued' = Queued + (0 - 1)
    BY <1>1, <2>1, <2>2, NormalBecomes
  <2>4. Queued' = Queued - 1 /\ Len(tap.emergency) <= Len(tap.emergency) /\ Len(tap.critical) <= Len(tap.critical)
    BY <1>1, <2>3, AmountsTyped, LengthsTyped DEF Amounts
  <2> QED BY <1>1, <2>1, <2>2, <2>3, <2>4, TakenKeeps DEF TapGets
<1>5. CASE tap.emergency = <<>> /\ tap.critical = <<>> /\ tap.normal = <<>>
  <2> DEFINE p == IF tap.open THEN "flush" ELSE "last flush"
  <2>1. writer' = [writer EXCEPT !.pc = p] /\ UNCHANGED tap
    BY <1>5 DEF Receive
  <2>2. p \in WriterStages /\ p \notin {"append", "sync", "done"} /\ (p = "last flush" => ~tap.open)
    BY DEF WriterStages
  <2> HIDE DEF p
  <2>3. writer' \in WriterRecords /\ WriterGets(p, writer.reported, writer.seq, writer.hash, writer.errors)
    BY <2>1, <2>2, WriterGoes
  <2>4. /\ GuardInv' /\ Sending' = Sending
        /\ EmittersTyped' /\ Queued' = Queued /\ Numbers' = Numbers /\ Dropped' = Dropped
    BY <1>1, <2>1, EmitterSideStays
  <2>5. WriterTyped' /\ TapTyped'
    BY <1>1, <2>2, <2>3, <2>4 DEF TapTyped, WriterTyped, WriterGets
  <2>6. ChainInv' /\ KeptInv' /\ SpoolLines' = SpoolLines /\ Told' = Told
    BY <1>1, <2>2, <2>3, LinesStay DEF TapInv, ChainInv, Openable, WriterGets
  <2>7. EndInv'
    BY <1>1, <1>5, <2>1, <2>2, <2>3, EndStays DEF WriterGets
  <2>8. RoomInv'
    BY <2>1, <2>3 DEF TapInv, RoomInv, WriterGets
  <2>9. FlowInv'
    <3>1. InHand = 0 /\ InHand' = 0 /\ Errors' = Errors
      BY <1>1, <2>2, <2>3 DEF InHand, WriterGets, Errors
    <3>2. /\ MoreSending = 0 /\ MoreQueued = 0 /\ MoreInHand = 0 /\ MoreTold = 0
          /\ MoreDropped = 0 /\ MoreErrors = 0 /\ MoreNumbers = 0
      BY <1>1, <2>4, <2>6, <3>1, NoMore DEF Errors, Dropped, Numbers
    <3> QED BY <1>1, <2>5, <3>2, FlowKeeps
  <2> QED BY <2>4, <2>5, <2>6, <2>7, <2>8, <2>9 DEF TapInv
<1> QED BY <1>2, <1>3, <1>4, <1>5

\* What is not written in the end is counted as an error.
LEMMA ErrorsCount ==
  ASSUME TapTyped,
         MoreSending = 0 /\ MoreQueued = 0 /\ MoreTold = 0 /\ MoreDropped = 0 /\ MoreNumbers = 0,
         (InHand' = InHand /\ Errors' = Errors) \/ MoreErrors = 1
  PROVE  MoreNumbers <= MoreSending + MoreQueued + MoreInHand + MoreTold + MoreDropped + MoreErrors
<1>1. CASE InHand' = InHand /\ Errors' = Errors
  <2>1. MoreInHand = 0 /\ MoreErrors = 0
    BY <1>1, AmountsTyped DEF Amounts, MoreInHand, MoreErrors
  <2> QED BY <2>1
<1>2. CASE MoreErrors = 1
  <2>1. PICK m \in {0, 1} : m = InHand'
    BY DEF InHand
  <2>2. PICK n \in {0, 1} : n = InHand
    BY DEF InHand
  <2>3. MoreInHand = m - n
    BY <2>1, <2>2 DEF MoreInHand
  <2>4. MoreInHand \in {0 - 1, 0, 1}
    BY <2>3
  <2> QED BY <1>2, <2>4
<1> QED BY <1>1, <1>2

\* A step of the writer that adds no line and takes no event.
LEMMA WriterStepKeeps ==
  ASSUME TapInv, UNCHANGED <<tap, emitter, guard, report>>, writer' \in WriterRecords, spool' \in SpoolRecords,
         rewound' \in BOOLEAN, tapFaults' \in [io : Nat, crashes : Nat], tapFaults'.crashes = tapFaults.crashes,
         writer'.reported = writer.reported, writer'.seq = writer.seq, writer'.hash = writer.hash,
         writer.pc \notin {"down", "done"}, writer'.pc # "sync",
         writer'.pc = "append" => writer.pc = "append" /\ writer'.item = writer.item,
         writer'.pc \in {"last flush", "done"} => writer.pc = "last flush",
         (InHand' = InHand /\ writer'.errors = writer.errors) \/ MoreErrors = 1,
         spool'.lines = spool.lines, spool'.start \in {spool.start, durable'},
         durable' \in {durable, Len(spool.lines)},
         \A l \in kept' : l \in kept \/ (durable' = Len(spool.lines) /\ spool.lines # <<>> /\ l = Last(spool.lines)),
         rewound' => rewound /\ ~spool'.torn /\ spool'.end = "clean"
  PROVE  TapInv'
<1>1. /\ GuardInv' /\ Sending' = Sending
      /\ EmittersTyped' /\ Queued' = Queued /\ Numbers' = Numbers /\ Dropped' = Dropped
  BY EmitterSideStays
<1>2. ChainInv' /\ KeptInv' /\ SpoolLines' = SpoolLines /\ Told' = Told
  BY LinesStay
<1>3. WriterTyped' /\ TapTyped'
  <2>1. spool.lines \in Seq(LineRecords) /\ Len(spool.lines) \in Nat /\ durable \in Nat
    BY LenProperties DEF TapInv, TapTyped, WriterTyped, SpoolRecords
  <2>2. durable' \in Nat
    BY <2>1
  <2> QED BY <1>1, <2>2 DEF TapInv, TapTyped, WriterTyped
<1>4. EndInv'
  BY EndStays DEF TapInv, EndInv
<1>5. RoomInv'
  BY DEF TapInv, RoomInv
<1>6. FlowInv'
  <2>1. TapTyped
    BY DEF TapInv
  <2>2. MoreSending = 0 /\ MoreQueued = 0 /\ MoreTold = 0 /\ MoreDropped = 0 /\ MoreNumbers = 0
    BY <1>1, <1>2, <2>1, NoMore DEF Dropped, Numbers
  <2>3. (InHand' = InHand /\ Errors' = Errors) \/ MoreErrors = 1
    BY DEF Errors
  <2>5. (rewound' => rewound) /\ (tapFaults'.crashes = 0 => tapFaults.crashes = 0)
    OBVIOUS
  <2>6. MoreNumbers <= MoreSending + MoreQueued + MoreInHand + MoreTold + MoreDropped + MoreErrors
    BY <2>1, <2>2, <2>3, ErrorsCount
  <2> QED BY <1>3, <2>5, <2>6, FlowKeeps
<1> QED BY <1>1, <1>2, <1>3, <1>4, <1>5, <1>6 DEF TapInv

LEMMA SpoolFields ==
  ASSUME TapInv
  PROVE  /\ spool \in SpoolRecords /\ spool.lines \in Seq(LineRecords) /\ Len(spool.lines) \in Nat
         /\ spool.start \in Nat /\ spool.end \in {"clean", "part", "gap"} /\ spool.torn \in BOOLEAN
         /\ durable \in Nat /\ rewound \in BOOLEAN /\ tapFaults \in [io : Nat, crashes : Nat]
         /\ (rewound /\ writer.pc # "down" => ~spool.torn /\ spool.end = "clean")
BY LenProperties DEF TapInv, TapTyped, WriterTyped, SpoolRecords, ChainInv, Openable

LEMMA RotateKeeps ==
  ASSUME TapInv, Rotate
  PROVE  TapInv'
<1>1. writer.pc = "append" /\ UNCHANGED <<tap, emitter, guard, report>> /\ UNCHANGED <<kept, rewound>>
  BY DEF Rotate
<1>2. CASE /\ spool' = [lines |-> spool.lines, start |-> Len(spool.lines), end |-> "clean",
                        torn |-> spool.torn \/ spool.end = "part"]
           /\ durable' = Len(spool.lines)
           /\ writer' = [writer EXCEPT !.rotated = TRUE]
           /\ UNCHANGED tapFaults
  <2>1. /\ spool' \in SpoolRecords /\ spool'.lines = spool.lines /\ spool'.start = durable'
        /\ spool'.end = "clean" /\ spool'.torn = (spool.torn \/ spool.end = "part")
    BY <1>2, SpoolFields DEF SpoolRecords
  <2>2. writer' \in WriterRecords /\ writer'.item = writer.item
        /\ WriterGets("append", writer.reported, writer.seq, writer.hash, writer.errors)
    BY <1>1, <1>2, WriterFields DEF WriterRecords, WriterGets
  <2>3. InHand' = InHand
    BY <1>1, <2>2 DEF InHand, WriterGets
  <2>4. rewound' => rewound /\ ~spool'.torn /\ spool'.end = "clean"
    BY <1>1, <2>1, SpoolFields
  <2> QED BY <1>1, <1>2, <2>1, <2>2, <2>3, <2>4, SpoolFields, WriterStepKeeps DEF WriterGets
<1>3. CASE FaultLeft /\ Faulty /\ Skipped /\ UNCHANGED <<spool, durable>>
  <2>1. tapFaults' \in [io : Nat, crashes : Nat] /\ tapFaults'.crashes = tapFaults.crashes
    BY <1>3, FaultyEffect
  <2>2. /\ writer' \in WriterRecords /\ writer'.pc \in {"receive", "head"} /\ MoreErrors = 1
        /\ writer'.reported = writer.reported /\ writer'.seq = writer.seq /\ writer'.hash = writer.hash
    BY <1>3, WriterSkips
  <2> QED BY <1>1, <1>3, <2>1, <2>2, SpoolFields, WriterStepKeeps
<1> QED BY <1>2, <1>3 DEF Rotate

LEMMA AppendFailsKeeps ==
  ASSUME TapInv, AppendFails
  PROVE  TapInv'
<1>1. /\ writer.pc = "append" /\ UNCHANGED <<tap, emitter, guard, report>> /\ UNCHANGED <<durable, kept>>
      /\ Faulty /\ Skipped /\ rewound
  BY DEF AppendFails, Ready
<1>2. PICK s \in {"clean", "part", "gap"} : spool' = [spool EXCEPT !.end = s] /\ rewound' = (s = "clean")
  BY DEF AppendFails
<1>3. /\ spool' \in SpoolRecords /\ spool'.lines = spool.lines /\ spool'.start = spool.start
      /\ spool'.end = s /\ spool'.torn = spool.torn
  BY <1>2, SpoolFields DEF SpoolRecords
<1>4. tapFaults' \in [io : Nat, crashes : Nat] /\ tapFaults'.crashes = tapFaults.crashes
  BY <1>1, FaultyEffect
<1>5. /\ writer' \in WriterRecords /\ writer'.pc \in {"receive", "head"} /\ MoreErrors = 1
      /\ writer'.reported = writer.reported /\ writer'.seq = writer.seq /\ writer'.hash = writer.hash
  BY <1>1, WriterSkips
<1>6. rewound' \in BOOLEAN /\ (rewound' => rewound /\ ~spool'.torn /\ spool'.end = "clean")
  BY <1>1, <1>2, <1>3, SpoolFields
<1> QED BY <1>1, <1>3, <1>4, <1>5, <1>6, WriterStepKeeps

LEMMA SyncLineKeeps ==
  ASSUME TapInv, SyncLine
  PROVE  TapInv'
<1>1. writer.pc = "sync" /\ UNCHANGED <<tap, emitter, guard, report>> /\ UNCHANGED <<spool, rewound>>
  BY DEF SyncLine
<1>2. CASE /\ SyncedNow /\ kept' = kept \cup {Last(spool.lines)}
           /\ writer' = [writer EXCEPT !.pc = After(writer.item), !.item = Absent]
           /\ UNCHANGED tapFaults
  <2> DEFINE p == After(writer.item)
  <2>1. p \in {"receive", "head"} /\ p \in WriterStages
    BY DEF After, WriterStages
  <2>2. writer' = [writer EXCEPT !.pc = p, !.item = Absent]
    BY <1>2
  <2> HIDE DEF p
  <2>3. writer' \in WriterRecords /\ WriterGets(p, writer.reported, writer.seq, writer.hash, writer.errors)
    BY <2>1, <2>2, WriterTakes
  <2>4. InHand' = InHand
    BY <1>1, <2>1, <2>3 DEF InHand, WriterGets
  <2>5. spool.lines # <<>> /\ durable' = Len(spool.lines)
    BY <1>1, <1>2 DEF TapInv, KeptInv, SyncedNow
  <2>6. \A l \in kept' : l \in kept \/ (durable' = Len(spool.lines) /\ spool.lines # <<>> /\ l = Last(spool.lines))
    BY <1>2, <2>5
  <2> QED BY <1>1, <1>2, <2>1, <2>3, <2>4, <2>5, <2>6, SpoolFields, WriterStepKeeps DEF WriterGets
<1>3. CASE FaultLeft /\ Faulty /\ Skipped /\ UNCHANGED <<durable, kept>>
  <2>1. tapFaults' \in [io : Nat, crashes : Nat] /\ tapFaults'.crashes = tapFaults.crashes
    BY <1>3, FaultyEffect
  <2>2. /\ writer' \in WriterRecords /\ writer'.pc \in {"receive", "head"} /\ MoreErrors = 1
        /\ writer'.reported = writer.reported /\ writer'.seq = writer.seq /\ writer'.hash = writer.hash
    BY <1>3, WriterSkips
  <2> QED BY <1>1, <1>3, <2>1, <2>2, SpoolFields, WriterStepKeeps
<1> QED BY <1>2, <1>3 DEF SyncLine

LEMMA FlushKeeps ==
  ASSUME TapInv, Flush
  PROVE  TapInv'
<1> DEFINE p == IF writer.pc = "flush" THEN "head" ELSE "done"
<1>1. /\ writer.pc \in {"flush", "last flush"} /\ UNCHANGED <<tap, emitter, guard, report>>
      /\ UNCHANGED <<spool, kept, rewound>>
  BY DEF Flush
<1>2. p \in {"head", "done"} /\ p \in WriterStages /\ (p = "done" => writer.pc = "last flush")
  BY <1>1 DEF WriterStages
<1>3. CASE SyncedNow /\ writer' = [writer EXCEPT !.pc = p] /\ UNCHANGED tapFaults
  <2> HIDE DEF p
  <2>1. writer' \in WriterRecords /\ WriterGets(p, writer.reported, writer.seq, writer.hash, writer.errors)
    BY <1>2, <1>3, WriterGoes
  <2>2. InHand' = InHand
    BY <1>1, <1>2, <2>1 DEF InHand, WriterGets
  <2>3. durable' = Len(spool.lines)
    BY <1>3 DEF SyncedNow
  <2> QED BY <1>1, <1>2, <1>3, <2>1, <2>2, <2>3, SpoolFields, WriterStepKeeps DEF WriterGets
<1>4. CASE FaultLeft /\ Faulty /\ writer' = [writer EXCEPT !.pc = p, !.errors = @ + 1] /\ UNCHANGED durable
  <2> DEFINE n == writer.errors + 1
  <2>1. n \in Nat
    BY WriterFields
  <2>2. writer' = [writer EXCEPT !.pc = p, !.errors = n]
    BY <1>4
  <2> HIDE DEF n, p
  <2>3. writer' \in WriterRecords /\ WriterGets(p, writer.reported, writer.seq, writer.hash, n)
    BY <1>2, <2>1, <2>2, WriterFields DEF WriterRecords, WriterGets
  <2>4. MoreErrors = 1
    BY <2>3, WriterFields DEF MoreErrors, Errors, n, WriterGets
  <2>5. tapFaults' \in [io : Nat, crashes : Nat] /\ tapFaults'.crashes = tapFaults.crashes
    BY <1>4, FaultyEffect
  <2> QED BY <1>1, <1>2, <1>4, <2>3, <2>4, <2>5, SpoolFields, WriterStepKeeps DEF WriterGets
<1> QED BY <1>3, <1>4 DEF Flush

LEMMA CollectKeeps ==
  ASSUME TapInv, Collect
  PROVE  TapInv'
<1>1. writer.pc = "done" /\ UNCHANGED <<tap, emitter, writer, spool, durable, guard, kept, rewound, tapFaults>>
  BY DEF Collect
<1>2. rewound => Collectable
  BY <1>1 DEF TapInv, ChainInv, Openable, Collectable
<1>3. EndInv'
  <2>1. rewound => report' = [state |-> "healthy", lines |-> SpoolLines]
    BY <1>2 DEF Collect, SpoolLines
  <2>2. SpoolLines' = SpoolLines
    BY <1>1 DEF SpoolLines
  <2> QED BY <1>1, <2>1, <2>2 DEF TapInv, EndInv
<1>4. TapTyped' /\ RoomInv' /\ GuardInv'
  BY <1>1 DEF TapInv, TapTyped, EmittersTyped, WriterTyped, RoomInv, GuardInv, Positions
<1>5. ChainInv' /\ KeptInv'
  BY <1>1 DEF TapInv, ChainInv, KeptInv, Openable, ChainEnd
<1>6. FlowInv'
  BY <1>1 DEF TapInv, FlowInv, SpoolLines, Accounted, Sending, Queued, InHand, Told, Numbers, Dropped, Errors
<1> QED BY <1>3, <1>4, <1>5, <1>6 DEF TapInv

\* The next line of the chain is a new one.
LEMMA ChainGrows ==
  ASSUME NEW s \in Seq(LineRecords), NEW l \in LineRecords, Chained(s), Rising(s),
         Follows(l, IF s = <<>> THEN BrokenLine ELSE Last(s))
  PROVE  Chained(Append(s, l)) /\ Rising(Append(s, l)) /\ l \notin Range(s)
<1> DEFINE q == Append(s, l)
           n == Len(s)
<1>1. /\ q \in Seq(LineRecords) /\ n \in Nat /\ Len(q) = n + 1 /\ q[n + 1] = l
      /\ DOMAIN q = 1 .. n + 1 /\ DOMAIN s = 1 .. n /\ \A i \in 1 .. n : q[i] = s[i]
  BY AppendProperties, LenProperties
<1>2. s = <<>> <=> n = 0
  BY EmptySeq
<1> HIDE DEF n
<1>3. \A i \in 1 .. n : s[i].seq \in Nat
  <2> TAKE i \in 1 .. n
  <2>1. s[i] \in LineRecords
    BY ElementOfSeq DEF n
  <2> QED BY <2>1 DEF LineRecords
<1>4. l.seq \in Nat
  BY DEF LineRecords
<1>5. \A i \in 1 .. n : s[i].seq < l.seq
  <2> TAKE i \in 1 .. n
  <2>1. n \in 1 .. n /\ Follows(l, s[n])
    BY <1>1, <1>2 DEF Last, n
  <2>2. s[n].seq < l.seq
    BY <1>3, <1>4, <2>1 DEF Follows
  <2>3. i < n => s[i].seq < s[n].seq
    BY <1>1, <2>1 DEF Rising
  <2>4. s[i].seq \in Nat /\ s[n].seq \in Nat
    BY <1>3, <2>1
  <2>5. CASE i < n
    BY <1>4, <2>2, <2>3, <2>4, <2>5
  <2>6. CASE i = n
    BY <2>2, <2>6
  <2> QED BY <1>1, <2>5, <2>6
<1> HIDE DEF q
<1>6. Rising(q)
  <2> SUFFICES ASSUME NEW i \in 1 .. n + 1, NEW j \in 1 .. n + 1, i < j
               PROVE  q[i].seq < q[j].seq
    BY <1>1 DEF Rising
  <2>1. i \in 1 .. n /\ q[i] = s[i]
    BY <1>1
  <2>2. CASE j = n + 1
    BY <1>1, <1>5, <2>1, <2>2
  <2>3. CASE j # n + 1
    <3>1. j \in 1 .. n /\ q[j] = s[j]
      BY <1>1, <2>3
    <3> QED BY <1>1, <2>1, <3>1 DEF Rising
  <2> QED BY <2>2, <2>3
<1>7. Chained(q)
  <2> SUFFICES ASSUME NEW i \in 1 .. n + 1
               PROVE  Follows(q[i], IF i = 1 THEN BrokenLine ELSE q[i - 1])
    BY <1>1 DEF Chained
  <2>1. CASE i = n + 1
    <3>1. CASE n = 0
      BY <1>1, <1>2, <2>1, <3>1
    <3>2. CASE n # 0
      <4>1. n \in 1 .. n /\ i # 1 /\ i - 1 = n /\ q[n] = s[n] /\ Last(s) = s[n]
        BY <1>1, <2>1, <3>2 DEF Last, n
      <4> QED BY <1>1, <1>2, <2>1, <3>2, <4>1
    <3> QED BY <3>1, <3>2
  <2>2. CASE i # n + 1
    <3>1. i \in 1 .. n /\ q[i] = s[i]
      BY <1>1, <2>2
    <3>2. i # 1 => i - 1 \in 1 .. n /\ q[i - 1] = s[i - 1]
      BY <1>1, <3>1
    <3>3. Follows(s[i], IF i = 1 THEN BrokenLine ELSE s[i - 1])
      BY <1>1, <3>1 DEF Chained
    <3> QED BY <3>1, <3>2, <3>3
  <2> QED BY <2>1, <2>2
<1>8. l \notin Range(s)
  BY <1>1, <1>3, <1>4, <1>5 DEF Range
<1> QED BY <1>6, <1>7, <1>8 DEF q

LEMMA LinesGrow ==
  ASSUME NEW s \in Seq(LineRecords), NEW l \in LineRecords
  PROVE  Range(Append(s, l)) = Range(s) \cup {l}
<1>1. /\ Len(s) \in Nat /\ Append(s, l)[Len(s) + 1] = l /\ DOMAIN Append(s, l) = 1 .. Len(s) + 1
      /\ DOMAIN s = 1 .. Len(s) /\ \A i \in 1 .. Len(s) : Append(s, l)[i] = s[i]
  BY AppendProperties, LenProperties
<1> DEFINE q == Append(s, l)
           n == Len(s)
<1>2. n \in Nat /\ q[n + 1] = l /\ DOMAIN q = 1 .. n + 1 /\ DOMAIN s = 1 .. n /\ \A i \in 1 .. n : q[i] = s[i]
  BY <1>1
<1> HIDE DEF q, n
<1>3. \A x \in Range(q) : x \in Range(s) \cup {l}
  <2> TAKE x \in Range(q)
  <2>1. PICK i \in 1 .. n + 1 : q[i] = x
    BY <1>2 DEF Range
  <2>2. i \in 1 .. n \/ i = n + 1
    BY <1>2
  <2> QED BY <1>2, <2>1, <2>2 DEF Range
<1>4. \A x \in Range(s) \cup {l} : x \in Range(q)
  <2> TAKE x \in Range(s) \cup {l}
  <2>1. CASE x = l
    <3>1. n + 1 \in 1 .. n + 1
      BY <1>2
    <3> QED BY <1>2, <2>1, <3>1 DEF Range
  <2>2. CASE x \in Range(s)
    <3>1. PICK i \in 1 .. n : s[i] = x
      BY <1>2, <2>2 DEF Range
    <3>2. i \in 1 .. n + 1
      BY <1>2
    <3> QED BY <1>2, <3>1, <3>2 DEF Range
  <2> QED BY <2>1, <2>2
<1> QED BY <1>3, <1>4 DEF q

LEMMA AppendLineKeeps ==
  ASSUME TapInv, AppendLine
  PROVE  TapInv'
<1> DEFINE l == LineOf(writer.item)
           x == IF spool.end = "clean" THEN l ELSE BrokenLine
           q == Append(spool.lines, x)
           h == HashOf(l)
           m == writer.seq + 1
           p == IF l.critical THEN "sync" ELSE After(writer.item)
<1>1. /\ writer.pc = "append" /\ UNCHANGED <<tap, emitter, guard, report>>
      /\ UNCHANGED <<durable, kept, rewound, tapFaults>> /\ writer.item \in ItemRecords /\ TapTyped
  BY DEF AppendLine, Ready, TapInv, TapTyped, WriterTyped
<1>2. l \in LineRecords /\ l.seq = m /\ l.prev = writer.hash /\ l.src = writer.item.src /\ m \in Nat
  <2>1. m \in Nat
    BY WriterFields
  <2>2. writer.item.src \in Nat /\ writer.item.critical \in BOOLEAN
    BY <1>1 DEF ItemRecords
  <2> HIDE DEF m
  <2>3. l = [seq |-> m, src |-> writer.item.src, critical |-> writer.item.critical, prev |-> writer.hash]
    BY DEF LineOf, m
  <2>4. writer.hash \in Nat \X Nat
    BY WriterFields
  <2> HIDE DEF l
  <2> QED BY <2>1, <2>2, <2>3, <2>4 DEF LineRecords
<1>3. x \in LineRecords
  <2>1. BrokenLine \in LineRecords
    BY DEF BrokenLine, LineRecords
  <2> HIDE DEF l
  <2> QED BY <1>2, <2>1
<1>4. h \in Nat \X Nat
  <2> HIDE DEF l
  <2> QED BY <1>2 DEF HashOf, LineRecords
<1>5. p \in {"sync", "receive", "head"} /\ p \in WriterStages
  BY DEF After, WriterStages
<1>6. spool' = [spool EXCEPT !.lines = q, !.end = "clean"]
  BY DEF AppendLine
<1>7. writer' = [writer EXCEPT !.seq = m, !.hash = h, !.pc = p]
  BY <1>2 DEF AppendLine
<1>8. q \in Seq(LineRecords) /\ Len(q) = Len(spool.lines) + 1
      /\ \A i \in 1 .. Len(spool.lines) : q[i] = spool.lines[i]
  <2> HIDE DEF x
  <2> QED BY <1>3, SpoolFields, AppendProperties
<1>9. Range(q) = SpoolLines \cup {x}
  <2> HIDE DEF x
  <2> QED BY <1>3, SpoolFields, LinesGrow DEF SpoolLines
<1>10. Last(q) = x
  <2> HIDE DEF x
  <2> QED BY <1>3, SpoolFields, AppendProperties DEF Last
<1> HIDE DEF l, x, q, h, m, p
<1>11. /\ spool' \in SpoolRecords /\ spool'.lines = q /\ spool'.start = spool.start
       /\ spool'.end = "clean" /\ spool'.torn = spool.torn
  BY <1>6, <1>8, SpoolFields DEF SpoolRecords
<1>12. writer' \in WriterRecords /\ writer'.item = writer.item /\ WriterGets(p, writer.reported, m, h, writer.errors)
  BY <1>2, <1>4, <1>5, <1>7, WriterFields DEF WriterRecords, WriterGets
<1>13. /\ GuardInv' /\ Sending' = Sending
       /\ EmittersTyped' /\ Queued' = Queued /\ Numbers' = Numbers /\ Dropped' = Dropped
  BY <1>1, EmitterSideStays
<1>14. WriterTyped' /\ TapTyped'
  BY <1>1, <1>11, <1>12, <1>13 DEF TapTyped, WriterTyped
<1>15. ASSUME rewound PROVE x = l /\ Chained(q) /\ Rising(q) /\ l \notin SpoolLines
  <2>1. /\ x = l /\ Chained(spool.lines) /\ Rising(spool.lines)
        /\ writer.seq = ChainEnd.seq /\ writer.hash = HashOf(ChainEnd)
    BY <1>1, <1>15 DEF TapInv, ChainInv, Openable, x
  <2>2. Follows(l, ChainEnd)
    <3>1. l.seq > writer.seq
      BY <1>2, WriterFields DEF m
    <3> QED BY <1>2, <2>1, <3>1 DEF Follows
  <2> QED BY <1>2, <2>1, <2>2, SpoolFields, ChainGrows DEF ChainEnd, q, SpoolLines
<1>16. ChainInv'
  <2>1. ChainEnd' = x
    <3>1. q # <<>>
      BY <1>8, SpoolFields, EmptySeq
    <3> QED BY <1>10, <1>11, <3>1 DEF ChainEnd
  <2>2. rewound => ~spool.torn
    BY <1>1, SpoolFields
  <2>3. rewound => ChainEnd' = l /\ l.seq = m /\ HashOf(l) = h
    BY <1>2, <1>15, <2>1 DEF h
  <2> QED BY <1>1, <1>11, <1>12, <1>15, <2>2, <2>3 DEF ChainInv, Openable, WriterGets
<1>17. KeptInv'
  <2>1. durable \in spool.start .. Len(spool.lines) /\ \A k \in kept : \E i \in 1 .. durable : spool.lines[i] = k
    BY DEF TapInv, KeptInv
  <2>2. durable \in spool.start .. Len(q)
    BY <1>8, <2>1, SpoolFields
  <2>3. \A i \in 1 .. durable : q[i] = spool.lines[i]
    BY <1>8, <2>1, SpoolFields
  <2>4. q # <<>>
    BY <1>8, SpoolFields, EmptySeq
  <2> QED BY <1>1, <1>11, <2>1, <2>2, <2>3, <2>4 DEF KeptInv
<1>18. RoomInv'
  BY <1>1, <1>12 DEF TapInv, RoomInv, WriterGets
<1>19. EndInv'
  BY <1>1, <1>5, <1>12, EndStays DEF WriterGets
<1>20. FlowInv'
  <2>1. SpoolLines' = SpoolLines \cup {x}
    BY <1>9, <1>11 DEF SpoolLines
  <2>2. MoreSending = 0 /\ MoreQueued = 0 /\ MoreDropped = 0 /\ MoreErrors = 0 /\ MoreNumbers = 0
    BY <1>1, <1>12, <1>13, NoMore DEF Errors, Dropped, Numbers, WriterGets
  <2>3. InHand' = 0
    BY <1>5, <1>12 DEF InHand, WriterGets
  <2>4. ASSUME rewound PROVE MoreInHand + MoreTold = 0
    <3>1. SpoolLines' = SpoolLines \cup {l} /\ l \notin SpoolLines
      BY <1>15, <2>1, <2>4
    <3>2. CASE l.src > 0
      <4>1. Told' = Told \cup {l} /\ l \notin Told
        BY <3>1, <3>2 DEF Told
      <4>2. Cardinality(Told') = Cardinality(Told) + 1 /\ Cardinality(Told) \in Nat
        BY <1>1, <4>1, ToldFinite, FS_AddElement, FS_CardinalityType
      <4>3. MoreTold = 1
        BY <4>2 DEF MoreTold
      <4>4. InHand = 1
        BY <1>1, <1>2, <3>2 DEF InHand
      <4>5. MoreInHand = 0 - 1
        BY <2>3, <4>4 DEF MoreInHand
      <4> QED BY <4>3, <4>5
    <3>3. CASE ~(l.src > 0)
      <4>1. Told' = Told
        BY <3>1, <3>3 DEF Told
      <4>2. InHand = 0
        BY <1>1, <1>2, <3>3 DEF InHand
      <4>3. MoreTold = 0 /\ MoreInHand = 0
        BY <1>1, <2>3, <4>1, <4>2, NoMore
      <4> QED BY <4>3
    <3> QED BY <3>2, <3>3
  <2>5. rewound => MoreNumbers <= MoreSending + MoreQueued + MoreInHand + MoreTold + MoreDropped + MoreErrors
    <3>1. PICK i \in Int : i = MoreInHand
      <4>1. InHand \in {0, 1}
        BY DEF InHand
      <4> QED BY <2>3, <4>1 DEF MoreInHand
    <3>2. PICK j \in Int : j = MoreTold
      <4>1. Amounts'
        BY <1>14, AmountsTyped, PTL
      <4>2. PICK c \in Nat : c = Cardinality(Told')
        BY <4>1 DEF Amounts
      <4>3. Cardinality(Told) \in Nat
        BY <1>1, AmountsTyped DEF Amounts
      <4> QED BY <4>2, <4>3 DEF MoreTold
    <3> QED BY <2>2, <2>4, <3>1, <3>2
  <2> QED BY <1>1, <1>14, <2>5, FlowKeeps
<1> QED BY <1>13, <1>14, <1>16, <1>17, <1>18, <1>19, <1>20 DEF TapInv

\* What a crash leaves is the beginning of the chain.
LEMMA ChainShrinks ==
  ASSUME NEW s \in Seq(LineRecords), NEW n \in Nat, n <= Len(s)
  PROVE  /\ SubSeq(s, 1, n) \in Seq(LineRecords) /\ Len(SubSeq(s, 1, n)) = n
         /\ \A i \in 1 .. n : SubSeq(s, 1, n)[i] = s[i]
         /\ Chained(s) => Chained(SubSeq(s, 1, n))
         /\ Rising(s) => Rising(SubSeq(s, 1, n))
<1> DEFINE q == SubSeq(s, 1, n)
<1>1. DOMAIN s = 1 .. Len(s) /\ Len(s) \in Nat /\ \A i \in 1 .. n : i \in DOMAIN s
  BY LenProperties
<1>2. \A i \in 1 .. n : s[i] \in LineRecords
  BY <1>1, ElementOfSeq
<1>3. /\ q \in Seq(LineRecords) /\ Len(q) = IF 1 <= n THEN n - 1 + 1 ELSE 0
      /\ \A i \in 1 .. n - 1 + 1 : q[i] = s[1 + i - 1]
  BY <1>2, SubSeqProperties
<1>4. n - 1 + 1 = n /\ \A i \in 1 .. n : 1 + i - 1 = i
  OBVIOUS
<1>5. Len(q) = n /\ DOMAIN q = 1 .. n /\ \A i \in 1 .. n : q[i] = s[i]
  <2>1. Len(q) = n
    BY <1>3
  <2> QED BY <1>3, <1>4, <2>1, LenProperties
<1> HIDE DEF q
<1>6. Rising(s) => Rising(q)
  BY <1>1, <1>5 DEF Rising
<1>7. Chained(s) => Chained(q)
  <2> SUFFICES ASSUME Chained(s), NEW i \in 1 .. n
               PROVE  Follows(q[i], IF i = 1 THEN BrokenLine ELSE q[i - 1])
    BY <1>5 DEF Chained
  <2>1. Follows(s[i], IF i = 1 THEN BrokenLine ELSE s[i - 1])
    BY <1>1 DEF Chained
  <2>2. i # 1 => i - 1 \in 1 .. n
    OBVIOUS
  <2> QED BY <1>5, <2>1, <2>2
<1> QED BY <1>3, <1>5, <1>6, <1>7 DEF q

LEMMA QuietTyped == Quiet \in EmitterRecords /\ Quiet.pc = "idle"
BY DEF Quiet, EmitterRecords

LEMMA TapCrashKeeps ==
  ASSUME TapInv, TapCrash
  PROVE  TapInv'
<1> DEFINE c == tapFaults.crashes + 1
<1>1. /\ tap' = [tap EXCEPT !.open = FALSE] /\ emitter' = [p \in Emitters |-> Quiet]
      /\ writer' = [writer EXCEPT !.pc = "down"] /\ UNCHANGED <<durable, guard, report, kept, rewound>>
      /\ tapFaults' = [tapFaults EXCEPT !.crashes = c] /\ TapTyped
  BY DEF TapCrash, TapInv
<1>2. PICK n \in durable .. Len(spool.lines), part \in BOOLEAN :
        spool' = [spool EXCEPT !.lines = SubSeq(spool.lines, 1, n),
                    !.end = IF part \/ (n = Len(spool.lines) /\ spool.end = "part") THEN "part" ELSE "clean"]
  BY DEF TapCrash
<1> DEFINE q == SubSeq(spool.lines, 1, n)
           e == IF part \/ (n = Len(spool.lines) /\ spool.end = "part") THEN "part" ELSE "clean"
<1>3. n \in Nat /\ n <= Len(spool.lines) /\ durable <= n /\ durable \in Nat
  BY SpoolFields
<1>4. /\ q \in Seq(LineRecords) /\ Len(q) = n /\ \A i \in 1 .. n : q[i] = spool.lines[i]
      /\ Chained(spool.lines) => Chained(q)
      /\ Rising(spool.lines) => Rising(q)
  BY <1>3, SpoolFields, ChainShrinks
<1>5. spool' = [spool EXCEPT !.lines = q, !.end = e] /\ e \in {"clean", "part", "gap"}
  BY <1>2
<1> HIDE DEF q, e
<1>6. /\ spool' \in SpoolRecords /\ spool'.lines = q /\ spool'.start = spool.start /\ spool'.torn = spool.torn
  BY <1>4, <1>5, SpoolFields DEF SpoolRecords
<1>7. "down" \in WriterStages
  BY DEF WriterStages
<1>8. /\ writer' \in WriterRecords
      /\ WriterGets("down", writer.reported, writer.seq, writer.hash, writer.errors)
  BY <1>1, <1>7, WriterGoes
<1>9. tapFaults' \in [io : Nat, crashes : Nat] /\ tapFaults'.crashes = c /\ c \in Nat /\ c # 0
  <2>1. c \in Nat /\ c # 0
    BY SpoolFields
  <2> HIDE DEF c
  <2> QED BY <1>1, <2>1, SpoolFields
<1> HIDE DEF c
<1>10. /\ tap' \in TapRecords
       /\ TapGets(tap.sequence, tap.emergency, tap.critical, tap.normal, tap.dropped, FALSE)
  BY <1>1 DEF TapRecords, TapGets, TapTyped, EmittersTyped
<1>11. EmittersTyped'
  BY <1>1, <1>10, QuietTyped DEF EmittersTyped, InSend
<1>12. WriterTyped'
  BY <1>1, <1>3, <1>6, <1>8, <1>9, SpoolFields DEF WriterTyped, WriterGets
<1>13. RoomInv' /\ GuardInv'
  BY <1>1, <1>8, <1>10 DEF TapInv, RoomInv, GuardInv, Positions, TapGets, WriterGets
<1>14. ChainInv'
  BY <1>1, <1>4, <1>6, <1>8 DEF TapInv, ChainInv, Openable, WriterGets
<1>15. KeptInv'
  <2>1. durable \in spool.start .. Len(spool.lines) /\ \A k \in kept : \E i \in 1 .. durable : spool.lines[i] = k
    BY DEF TapInv, KeptInv
  <2>2. durable \in spool.start .. Len(q)
    BY <1>3, <1>4, <2>1
  <2>3. \A i \in 1 .. durable : q[i] = spool.lines[i]
    BY <1>3, <1>4
  <2>4. \A k \in kept : \E i \in 1 .. durable : q[i] = k
    BY <2>1, <2>3
  <2>5. writer'.pc # "sync"
    BY <1>8 DEF WriterGets
  <2> QED BY <1>1, <1>6, <2>2, <2>4, <2>5 DEF KeptInv
<1>16. EndInv'
  BY <1>1, <1>8, <1>9, QuietTyped DEF EndInv, WriterGets
<1>17. FlowInv'
  BY <1>9 DEF FlowInv
<1> QED BY <1>11, <1>12, <1>13, <1>14, <1>15, <1>16, <1>17 DEF TapInv, TapTyped

LEMMA NewTapTyped ==
  /\ NewTap \in TapRecords /\ NewTap.open /\ NewTap.sequence = 0 /\ NewTap.dropped = 0
  /\ NewTap.emergency = <<>> /\ NewTap.critical = <<>> /\ NewTap.normal = <<>>
BY DEF NewTap, TapRecords

LEMMA ChainEndTyped ==
  ASSUME TapInv
  PROVE  ChainEnd \in LineRecords
<1>1. BrokenLine \in LineRecords
  BY DEF BrokenLine, LineRecords
<1>2. ASSUME spool.lines # <<>> PROVE Last(spool.lines) \in LineRecords
  <2>1. Len(spool.lines) \in 1 .. Len(spool.lines)
    BY <1>2, SpoolFields, EmptySeq
  <2> QED BY <2>1, SpoolFields, ElementOfSeq DEF Last
<1> QED BY <1>1, <1>2 DEF ChainEnd

LEMMA NothingNumbered ==
  ASSUME Numbers' = 0, Amounts'
  PROVE  FlowInv'
<1>1. PICK a \in Nat : a = Cardinality(Sending')
  BY DEF Amounts
<1>2. PICK b \in Nat : b = Queued'
  BY DEF Amounts
<1>3. PICK c \in Nat : c = InHand'
  BY DEF Amounts
<1>4. PICK d \in Nat : d = Cardinality(Told')
  BY DEF Amounts
<1>5. PICK e \in Nat : e = Dropped'
  BY DEF Amounts
<1>6. PICK f \in Nat : f = Errors'
  BY DEF Amounts
<1>7. 0 <= a + b + c + d + e + f
  OBVIOUS
<1>8. Accounted' = a + b + c + d + e + f
  BY <1>1, <1>2, <1>3, <1>4, <1>5, <1>6 DEF Accounted
<1> QED BY <1>7, <1>8 DEF FlowInv

LEMMA OpenAgainKeeps ==
  ASSUME TapInv, OpenAgain
  PROVE  TapInv'
<1> DEFINE m == ChainEnd.seq
           h == HashOf(ChainEnd)
<1>1. /\ writer.pc = "down" /\ spool' = [spool EXCEPT !.end = "clean"] /\ tap' = NewTap /\ guard' = NoGuard
      /\ durable' = (IF spool.end = "part" THEN Len(spool.lines) ELSE durable)
      /\ writer' = [NewWriter EXCEPT !.seq = m, !.hash = h]
      /\ UNCHANGED <<emitter, report, kept, rewound, tapFaults>> /\ TapTyped
  BY DEF OpenAgain, TapInv, ChainEnd
<1>2. m \in Nat /\ h \in Nat \X Nat
  BY ChainEndTyped DEF LineRecords, HashOf
<1> HIDE DEF m, h
<1>3. writer' = [pc |-> "head", item |-> Absent, reported |-> 0, seq |-> m, hash |-> h,
                 rotated |-> FALSE, errors |-> 0]
  BY <1>1 DEF NewWriter
<1>4. writer' \in WriterRecords /\ WriterGets("head", 0, m, h, 0)
  <2>1. "head" \in WriterStages
    BY DEF WriterStages
  <2> QED BY <1>2, <1>3, <2>1 DEF WriterRecords, WriterGets
<1>5. /\ spool' \in SpoolRecords /\ spool'.lines = spool.lines /\ spool'.start = spool.start
      /\ spool'.torn = spool.torn /\ spool'.end = "clean"
  BY <1>1, SpoolFields DEF SpoolRecords
<1>6. EmittersTyped'
  BY <1>1, NewTapTyped DEF TapTyped, EmittersTyped
<1>7. durable' \in Nat /\ durable' \in spool.start .. Len(spool.lines) /\ durable <= durable'
  <2>1. durable \in spool.start .. Len(spool.lines)
    BY DEF TapInv, KeptInv
  <2>2. Len(spool.lines) \in spool.start .. Len(spool.lines) /\ durable <= Len(spool.lines)
    BY <2>1, SpoolFields
  <2>3. CASE spool.end = "part"
    BY <1>1, <2>2, <2>3, SpoolFields
  <2>4. CASE spool.end # "part"
    BY <1>1, <2>1, <2>4, SpoolFields
  <2> QED BY <2>3, <2>4
<1>8. WriterTyped' /\ TapTyped'
  BY <1>1, <1>4, <1>5, <1>6, <1>7, SpoolFields DEF TapTyped, WriterTyped, WriterGets
<1>9. RoomInv'
  BY <1>1, <1>4, NewTapTyped, TapAssumption, Len(<<>>) = 0 DEF TapAssumption, RoomInv, WriterGets
<1>10. GuardInv'
  BY <1>1, NoGuardKeeps DEF GuardInv
<1>11. ChainInv'
  <2>1. ChainEnd' = ChainEnd
    BY <1>5 DEF ChainEnd
  <2> QED BY <1>1, <1>4, <1>5, <2>1 DEF TapInv, ChainInv, Openable, WriterGets, m, h
<1>12. KeptInv'
  <2>1. \A k \in kept : \E i \in 1 .. durable' : spool.lines[i] = k
    <3> TAKE k \in kept
    <3>1. PICK i \in 1 .. durable : spool.lines[i] = k
      BY DEF TapInv, KeptInv
    <3>2. i \in 1 .. durable'
      BY <1>7, SpoolFields
    <3> QED BY <3>1, <3>2
  <2> QED BY <1>1, <1>4, <1>5, <1>7, <2>1 DEF KeptInv, WriterGets
<1>13. EndInv'
  BY <1>1, <1>4, NewTapTyped DEF TapInv, EndInv, WriterGets
<1>14. FlowInv'
  <2>1. Numbers' = 0
    BY <1>1, NewTapTyped DEF Numbers
  <2>2. Amounts'
    BY <1>8, AmountsTyped, PTL
  <2> QED BY <2>1, <2>2, NothingNumbered
<1> QED BY <1>8, <1>9, <1>10, <1>11, <1>12, <1>13, <1>14 DEF TapInv

LEMMA TapStutters ==
  ASSUME TapInv, UNCHANGED tapVars
  PROVE  TapInv'
<1>1. UNCHANGED <<tap, emitter>> /\ UNCHANGED guard /\ UNCHANGED WriterSide
  BY DEF tapVars, WriterSide
<1>2. EmittersTyped' /\ RoomInv' /\ GuardInv'
  BY <1>1 DEF TapInv, TapTyped, EmittersTyped, RoomInv, GuardInv, Positions, WriterSide
<1>3. WriterTyped' /\ ChainInv' /\ KeptInv'
  BY <1>1, WriterSideStays
<1>4. EndInv' /\ FlowInv'
  BY <1>1 DEF TapInv, EndInv, FlowInv, WriterSide, SpoolLines, Accounted, Sending, Queued, InHand, Told,
       Numbers, Dropped, Errors
<1> QED BY <1>2, <1>3, <1>4 DEF TapInv, TapTyped

LEMMA TapStarts == TapInit => TapInv
<1> SUFFICES ASSUME TapInit PROVE TapInv
  OBVIOUS
<1>1. /\ tap = NewTap /\ emitter = [p \in Emitters |-> Quiet] /\ writer = NewWriter /\ spool = EmptySpool
      /\ durable = 0 /\ guard = NoGuard /\ report = [state |-> "none", lines |-> {}] /\ kept = {}
      /\ rewound = TRUE /\ tapFaults = [io |-> 0, crashes |-> 0]
  BY DEF TapInit
<1>2. EmittersTyped
  BY <1>1, NewTapTyped, QuietTyped DEF EmittersTyped, InSend
<1>3. /\ spool \in SpoolRecords /\ spool.lines = <<>> /\ spool.start = 0 /\ spool.end = "clean" /\ ~spool.torn
  BY <1>1, EmptySeq DEF EmptySpool, SpoolRecords
<1>4. /\ writer \in WriterRecords /\ writer.pc = "head" /\ writer.reported = 0 /\ writer.seq = 0
      /\ writer.hash = NoHash
  BY <1>1 DEF NewWriter, WriterRecords, WriterStages, NoHash
<1>5. WriterTyped /\ TapTyped
  BY <1>1, <1>2, <1>3, <1>4 DEF WriterTyped, TapTyped
<1>6. RoomInv
  BY <1>1, <1>4, NewTapTyped, TapAssumption, Len(<<>>) = 0 DEF TapAssumption, RoomInv
<1>7. GuardInv
  BY <1>1, NoGuardKeeps DEF GuardInv
<1>8. ChainInv
  <2>1. ChainEnd = BrokenLine /\ BrokenLine.seq = 0 /\ HashOf(BrokenLine) = NoHash
    BY <1>3 DEF ChainEnd, BrokenLine, HashOf, NoHash
  <2>2. Chained(<<>>) /\ Rising(<<>>)
    BY DEF Chained, Rising
  <2> QED BY <1>3, <1>4, <2>1, <2>2 DEF ChainInv, Openable
<1>9. KeptInv
  BY <1>1, <1>3, <1>4, Len(<<>>) = 0 DEF KeptInv
<1>10. EndInv
  BY <1>1, <1>4, NewTapTyped DEF EndInv
<1>11. FlowInv
  <2>1. Numbers = 0
    BY <1>1, NewTapTyped DEF Numbers
  <2> QED BY <1>5, <2>1, AmountsTyped DEF Amounts, FlowInv, Accounted
<1> QED BY <1>5, <1>6, <1>7, <1>8, <1>9, <1>10, <1>11 DEF TapInv

LEMMA TapStep ==
  ASSUME TapInv, [TapNext]_tapVars
  PROVE  TapInv'
<1>1. ASSUME NEW p \in Emitters, Emit(p) PROVE TapInv'
  BY <1>1, EmitKeeps
<1>2. ASSUME NEW p \in Emitters, Send(p) PROVE TapInv'
  BY <1>2, SendKeeps
<1>3. ASSUME NEW p \in Emitters, SendReserve(p) PROVE TapInv'
  BY <1>3, SendReserveKeeps
<1>4. ASSUME NEW p \in Emitters, DropEvent(p) PROVE TapInv'
  BY <1>4, DropEventKeeps
<1>5. CASE Observe
  BY <1>5, ObserveKeeps
<1>6. CASE EmitMitigation
  BY <1>6, EmitMitigationKeeps
<1>7. CASE Unregister
  BY <1>7, UnregisterKeeps
<1>8. CASE LoopHead
  BY <1>8, LoopHeadKeeps
<1>9. CASE Receive
  BY <1>9, ReceiveKeeps
<1>10. CASE Rotate
  BY <1>10, RotateKeeps
<1>11. CASE AppendFails
  BY <1>11, AppendFailsKeeps
<1>12. CASE AppendLine
  BY <1>12, AppendLineKeeps
<1>13. CASE SyncLine
  BY <1>13, SyncLineKeeps
<1>14. CASE Flush
  BY <1>14, FlushKeeps
<1>15. CASE Collect
  BY <1>15, CollectKeeps
<1>16. CASE TapCrash
  BY <1>16, TapCrashKeeps
<1>17. CASE OpenAgain
  BY <1>17, OpenAgainKeeps
<1>18. CASE UNCHANGED tapVars
  BY <1>18, TapStutters
<1> QED
  BY <1>1, <1>2, <1>3, <1>4, <1>5, <1>6, <1>7, <1>8, <1>9, <1>10, <1>11, <1>12, <1>13, <1>14, <1>15, <1>16,
     <1>17, <1>18 DEF TapNext

LEMMA TapIsSafe == TapInv => MonitorSafety
<1> SUFFICES ASSUME TapInv PROVE MonitorSafety
  OBVIOUS
<1>1. TapTypeOK
  <2>1. TapTyped
    BY DEF TapInv
  <2>2. /\ Len(tap.critical) \in 0 .. Capacity /\ Len(tap.normal) \in 0 .. Capacity
        /\ Len(tap.emergency) \in 0 .. Reserve
    BY <2>1, LengthsTyped, TapAssumption DEF TapInv, RoomInv, TapAssumption
  <2> QED BY <2>2 DEF TapInv, RoomInv, KeptInv, GuardInv, Positions, TapTypeOK
<1>2. ASSUME rewound PROVE Openable /\ kept \subseteq SpoolLines
  <2>1. Openable
    BY <1>2 DEF TapInv, ChainInv
  <2>2. ASSUME NEW l \in kept PROVE l \in SpoolLines
    <3>1. PICK i \in 1 .. durable : spool.lines[i] = l
      BY <2>2 DEF TapInv, KeptInv
    <3>2. i \in DOMAIN spool.lines
      <4>1. durable <= Len(spool.lines)
        BY SpoolFields DEF TapInv, KeptInv
      <4> QED BY <4>1, SpoolFields, LenProperties
    <3> QED BY <3>1, <3>2 DEF SpoolLines, Range
  <2> QED BY <2>1, <2>2
<1>3. NothingLostSilently
  <2> SUFFICES ASSUME writer.pc = "done", rewound, tapFaults.crashes = 0
               PROVE  /\ tap.sequence <= Cardinality({l \in SpoolLines : l.src > 0}) + tap.dropped + writer.errors
                      /\ report.state # "none" => report = [state |-> "healthy", lines |-> SpoolLines]
    BY DEF NothingLostSilently
  <2>1. /\ ~tap.open /\ tap.emergency = <<>> /\ tap.critical = <<>> /\ tap.normal = <<>>
        /\ \A p \in Emitters : emitter[p].pc = "idle"
    BY DEF TapInv, EndInv
  <2>2. Sending = {}
    BY <2>1 DEF Sending, InSend
  <2>3. Cardinality(Sending) = 0 /\ Queued = 0 /\ InHand = 0
    BY <2>1, <2>2, FS_EmptySet, Len(<<>>) = 0 DEF Queued, InHand
  <2>4. Numbers <= Cardinality(Sending) + Queued + InHand + Cardinality(Told) + Dropped + Errors
    BY DEF TapInv, FlowInv, Accounted
  <2>5. Amounts
    BY AmountsTyped DEF TapInv
  <2>6. Numbers <= Cardinality(Told) + Dropped + Errors
    BY <2>3, <2>4, <2>5 DEF Amounts
  <2> QED BY <2>6 DEF Numbers, Told, Dropped, Errors, TapInv, EndInv
<1> QED BY <1>1, <1>2, <1>3 DEF MonitorSafety

\* Whatever the threads of the turn emit, whichever writes, syncs and rotations fail
\* and whenever the process dies: the queues keep their limits, a critical event whose
\* append returned stays in the spool, the spool can be opened and is one chain as long
\* as what failed was taken back, no event is lost unsaid, and the guard counts what is
\* in its window (tap.rs, wal.rs, hot_guard.rs, observer.rs).
THEOREM SpoolIsWhole == TapSpec => []MonitorSafety
<1>1. TapInit => TapInv
  BY TapStarts
<1>2. TapInv /\ [TapNext]_tapVars => TapInv'
  BY TapStep
<1>3. TapInv => MonitorSafety
  BY TapIsSafe
<1> QED BY <1>1, <1>2, <1>3, PTL DEF TapSpec

(***************************************************************************)
(* ModelStream                                                             *)
(*                                                                         *)
(* StreamInd has four parts: the types; a client's entries are what was    *)
(* sent of each call; while it reads it has shown the text and nothing but *)
(* text and thoughts; and what it has said at the end is a batch of calls  *)
(* that it may issue.                                                      *)
(***************************************************************************)
HIDE TapAssumption
USE StreamAssumption

(***************************************************************************)
(* Numbers in order                                                        *)
(***************************************************************************)
\* How many numbers of is are no larger than i.
Rank(is, i) == Cardinality({j \in is : j <= i})

LEMMA RankIsStrict ==
  ASSUME NEW is, IsFiniteSet(is), is \subseteq Nat, NEW i \in is, NEW j \in is
  PROVE  /\ Rank(is, i) \in 1..Cardinality(is)
         /\ Rank(is, i) < Rank(is, j) <=> i < j
         /\ Rank(is, i) = Rank(is, j) => i = j
<1> DEFINE Upto(k) == {l \in is : l <= k}
<1>1. ASSUME NEW k \in is
      PROVE  /\ IsFiniteSet(Upto(k)) /\ Cardinality(Upto(k)) \in 1..Cardinality(is)
  <2>1. /\ IsFiniteSet(Upto(k)) /\ Cardinality(Upto(k)) <= Cardinality(is)
    BY FS_Subset
  <2>2. Upto(k) # {}
    BY <1>1
  <2>3. Cardinality(Upto(k)) \in Nat /\ Cardinality(is) \in Nat
    BY <2>1, FS_CardinalityType
  <2>4. Cardinality(Upto(k)) # 0
    BY <2>1, <2>2, FS_EmptySet
  <2> QED BY <2>1, <2>3, <2>4
<1>2. ASSUME NEW k \in is, NEW l \in is, k < l PROVE Cardinality(Upto(k)) < Cardinality(Upto(l))
  <2>a. k \in Int /\ l \in Int /\ \A m \in is : m \in Int
    OBVIOUS
  <2>b. \A m \in is : m <= k => m <= l
    BY <1>2, <2>a
  <2>c. l <= l /\ ~(l <= k)
    BY <1>2, <2>a
  <2>1. Upto(k) \subseteq Upto(l) /\ l \in Upto(l) /\ l \notin Upto(k)
    BY <2>b, <2>c
  <2>2. Cardinality(Upto(k)) <= Cardinality(Upto(l)) /\ Cardinality(Upto(k)) # Cardinality(Upto(l))
    BY <1>1, <2>1, FS_Subset
  <2>3. Cardinality(Upto(k)) \in Int /\ Cardinality(Upto(l)) \in Int
    BY <1>1
  <2> QED BY <2>2, <2>3
<1>3. i \in Nat /\ j \in Nat
  OBVIOUS
<1>4. Rank(is, i) \in Int /\ Rank(is, j) \in Int /\ Rank(is, i) = Cardinality(Upto(i)) /\ Rank(is, j) = Cardinality(Upto(j))
  BY <1>1 DEF Rank
<1>5. i < j \/ i = j \/ j < i
  BY <1>3
<1>6. CASE i < j
  BY <1>1, <1>2, <1>3, <1>4, <1>6
<1>7. CASE i = j
  BY <1>1, <1>3, <1>4, <1>7
<1>8. CASE j < i
  BY <1>1, <1>2, <1>3, <1>4, <1>8
<1> QED BY <1>5, <1>6, <1>7, <1>8

\* The n-th entry of InOrder is the n-th number, and each number has its place.
LEMMA InOrderSorts ==
  ASSUME NEW is, IsFiniteSet(is), is \subseteq Nat
  PROVE  /\ Cardinality(is) \in Nat
         /\ InOrder(is) \in [1..Cardinality(is) -> is]
         /\ \A n \in 1..Cardinality(is) : Rank(is, InOrder(is)[n]) = n
         /\ \A m, n \in 1..Cardinality(is) : m < n => InOrder(is)[m] < InOrder(is)[n]
         /\ \A i \in is : \E n \in 1..Cardinality(is) : InOrder(is)[n] = i
<1> DEFINE N == Cardinality(is)
           rank == [i \in is |-> Rank(is, i)]
<1>1. N \in Nat
  BY FS_CardinalityType
<1>2. rank \in Injection(is, 1..N)
  <2>1. rank \in [is -> 1..N]
    BY RankIsStrict
  <2>2. \A i, j \in is : rank[i] = rank[j] => i = j
    BY RankIsStrict
  <2> QED BY <2>1, <2>2 DEF Injection, IsInjective
<1>3. IsFiniteSet(1..N) /\ Cardinality(1..N) = N
  BY <1>1, FS_Interval
<1>4. rank \in Surjection(is, 1..N)
  BY <1>2, <1>3, FS_Injection
<1>5. \A n \in 1..N : \E i \in is : rank[i] = n
  BY <1>4 DEF Surjection
<1>6. \A n \in 1..N : InOrder(is)[n] \in is /\ Rank(is, InOrder(is)[n]) = n
  <2> SUFFICES ASSUME NEW n \in 1..N PROVE InOrder(is)[n] \in is /\ Rank(is, InOrder(is)[n]) = n
    OBVIOUS
  <2>1. \E i \in is : Cardinality({j \in is : j <= i}) = n
    BY <1>5 DEF Rank
  <2>2. InOrder(is)[n] = CHOOSE i \in is : Cardinality({j \in is : j <= i}) = n
    BY DEF InOrder
  <2> QED BY <2>1, <2>2 DEF Rank
<1>7. InOrder(is) \in [1..N -> is]
  BY <1>6 DEF InOrder
<1>8. \A m, n \in 1..N : m < n => InOrder(is)[m] < InOrder(is)[n]
  <2> SUFFICES ASSUME NEW m \in 1..N, NEW n \in 1..N, m < n PROVE InOrder(is)[m] < InOrder(is)[n]
    OBVIOUS
  <2>1. InOrder(is)[m] \in is /\ InOrder(is)[n] \in is
    BY <1>6
  <2>2. Rank(is, InOrder(is)[m]) < Rank(is, InOrder(is)[n])
    BY <1>6
  <2> QED BY <2>1, <2>2, RankIsStrict
<1>9. \A i \in is : \E n \in 1..N : InOrder(is)[n] = i
  <2> SUFFICES ASSUME NEW i \in is PROVE \E n \in 1..N : InOrder(is)[n] = i
    OBVIOUS
  <2>1. Rank(is, i) \in 1..N
    BY RankIsStrict
  <2>2. InOrder(is)[Rank(is, i)] \in is /\ Rank(is, InOrder(is)[Rank(is, i)]) = Rank(is, i)
    BY <1>6, <2>1
  <2>3. InOrder(is)[Rank(is, i)] = i
    BY <2>2, RankIsStrict
  <2> QED BY <2>1, <2>3
<1> QED BY <1>1, <1>6, <1>7, <1>8, <1>9

LEMMA InOrderOfAll ==
  ASSUME NEW k \in Nat
  PROVE  IsFiniteSet(1..k) /\ Cardinality(1..k) = k /\ InOrder(1..k) = [n \in 1..k |-> n]
<1>1. IsFiniteSet(1..k) /\ Cardinality(1..k) = k
  BY FS_Interval
<1>2. \A n \in 1..k : Rank(1..k, n) = n
  <2> SUFFICES ASSUME NEW n \in 1..k PROVE Rank(1..k, n) = n
    OBVIOUS
  <2>1. {j \in 1..k : j <= n} = 1..n
    OBVIOUS
  <2>2. Cardinality(1..n) = n
    BY FS_Interval
  <2> QED BY <2>1, <2>2 DEF Rank
<1>3. \A n \in 1..k : InOrder(1..k)[n] = n
  <2> SUFFICES ASSUME NEW n \in 1..k PROVE InOrder(1..k)[n] = n
    OBVIOUS
  <2>1. 1..k \subseteq Nat
    OBVIOUS
  <2>2. InOrder(1..k)[n] \in 1..k /\ Rank(1..k, InOrder(1..k)[n]) = n
    <3> DEFINE is == 1..k
    <3>1. IsFiniteSet(is) /\ is \subseteq Nat /\ Cardinality(is) = k
      BY <1>1, <2>1
    <3> HIDE DEF is
    <3>2. /\ InOrder(is) \in [1..k -> is]
          /\ \A m \in 1..k : Rank(is, InOrder(is)[m]) = m
      BY <3>1, InOrderSorts
    <3>3. InOrder(is)[n] \in is /\ Rank(is, InOrder(is)[n]) = n
      BY <3>2
    <3> QED BY <3>3 DEF is
  <2>3. Rank(1..k, InOrder(1..k)[n]) = InOrder(1..k)[n]
    BY <1>2, <2>2
  <2> QED BY <2>2, <2>3
<1> QED BY <1>1, <1>3 DEF InOrder

(***************************************************************************)
(* What a client says                                                      *)
(***************************************************************************)
Batch == [call : Nat, pieces : Nat]

Reasons == {"none", "stop", "tool_calls", "length", "arguments", "reasoning_only", "unknown"}

Chunks ==
  [is : {"reasoning", "text", "usage", "error", "refused"}]
    \cup [is : {"empty"}, reason : Reasons] \cup [is : {"calls"}, calls : Seq(Batch)]

Kinds(out) == {out[n].is : n \in DOMAIN out}

\* The calls that out issues, all of them in one chunk, are batch.
Issues(out, batch) ==
  /\ \A m, n \in DOMAIN out : out[m].is = "calls" /\ out[n].is = "calls" => m = n
  /\ \A n \in DOMAIN out : out[n].is = "calls" => out[n].calls = batch
  /\ "calls" \notin Kinds(out) => batch = <<>>

LEMMA KindsAdd ==
  ASSUME NEW s \in Seq(Chunks), NEW t \in Seq(Chunks)
  PROVE  s \o t \in Seq(Chunks) /\ Kinds(s \o t) = Kinds(s) \cup Kinds(t)
<1>1. s \o t \in Seq(Chunks) /\ Len(s \o t) = Len(s) + Len(t)
  BY ConcatProperties
<1>2. \A n \in DOMAIN (s \o t) : (n \in DOMAIN s /\ (s \o t)[n] = s[n])
                                 \/ (n - Len(s) \in DOMAIN t /\ (s \o t)[n] = t[n - Len(s)])
  BY ConcatProperties
<1>3. \A n \in DOMAIN s : n \in DOMAIN (s \o t) /\ (s \o t)[n] = s[n]
  BY ConcatProperties
<1>4. \A n \in DOMAIN t : n + Len(s) \in DOMAIN (s \o t) /\ (s \o t)[n + Len(s)] = t[n]
  BY ConcatProperties
<1>5. ASSUME NEW k \in Kinds(s \o t) PROVE k \in Kinds(s) \cup Kinds(t)
  BY <1>2 DEF Kinds
<1>6. ASSUME NEW k \in Kinds(s) PROVE k \in Kinds(s \o t)
  BY <1>3 DEF Kinds
<1>7. ASSUME NEW k \in Kinds(t) PROVE k \in Kinds(s \o t)
  BY <1>4 DEF Kinds
<1> QED BY <1>1, <1>5, <1>6, <1>7

LEMMA BatchFirst ==
  ASSUME NEW s \in Seq(Chunks), NEW t \in Seq(Chunks), NEW batch, Issues(s, batch), "calls" \notin Kinds(t)
  PROVE  Issues(s \o t, batch)
<1>1. Kinds(s \o t) = Kinds(s) \cup Kinds(t)
  BY KindsAdd
<1>2. \A n \in DOMAIN (s \o t) : (n \in DOMAIN s /\ (s \o t)[n] = s[n])
                                 \/ (n - Len(s) \in DOMAIN t /\ (s \o t)[n] = t[n - Len(s)])
  BY ConcatProperties
<1>3. \A n \in DOMAIN (s \o t) : (s \o t)[n].is = "calls" => n \in DOMAIN s /\ (s \o t)[n] = s[n]
  BY <1>2 DEF Kinds
<1> QED BY <1>1, <1>3 DEF Issues

LEMMA BatchLast ==
  ASSUME NEW s \in Seq(Chunks), NEW t \in Seq(Chunks), NEW batch, "calls" \notin Kinds(s), Issues(t, batch)
  PROVE  Issues(s \o t, batch)
<1>1. Kinds(s \o t) = Kinds(s) \cup Kinds(t)
  BY KindsAdd
<1>2. \A n \in DOMAIN (s \o t) : (n \in DOMAIN s /\ (s \o t)[n] = s[n])
                                 \/ (n - Len(s) \in DOMAIN t /\ (s \o t)[n] = t[n - Len(s)])
  BY ConcatProperties
<1>3. \A n \in DOMAIN (s \o t) :
        /\ n \in Int
        /\ (s \o t)[n].is = "calls" => n - Len(s) \in DOMAIN t /\ (s \o t)[n] = t[n - Len(s)]
  BY <1>2, ConcatProperties DEF Kinds
<1>4. Len(s) \in Nat
  OBVIOUS
<1>5. ASSUME NEW m \in DOMAIN (s \o t), NEW n \in DOMAIN (s \o t), (s \o t)[m].is = "calls", (s \o t)[n].is = "calls"
      PROVE  m = n
  <2>1. m - Len(s) = n - Len(s)
    BY <1>3, <1>5 DEF Issues
  <2> QED BY <1>3, <1>4, <2>1
<1> QED BY <1>1, <1>3, <1>5 DEF Issues

LEMMA OneChunk == \A x \in Chunks : <<x>> \in Seq(Chunks) /\ Kinds(<<x>>) = {x.is}
BY DEF Kinds

LEMMA NoChunk == <<>> \in Seq(Chunks) /\ Kinds(<<>>) = {} /\ Issues(<<>>, <<>>)
BY DEF Kinds, Issues

LEMMA NoCallsNoBatch ==
  ASSUME NEW s \in Seq(Chunks), "calls" \notin Kinds(s)
  PROVE  Issues(s, <<>>)
BY DEF Issues, Kinds

LEMMA CallsAreAChunk ==
  ASSUME NEW batch \in Seq(Batch)
  PROVE  /\ CallsChunk(batch) \in Seq(Chunks) /\ Issues(CallsChunk(batch), batch)
         /\ Kinds(CallsChunk(batch)) = IF batch = <<>> THEN {} ELSE {"calls"}
<1>1. CASE batch = <<>>
  BY <1>1, NoChunk DEF CallsChunk
<1>2. CASE batch # <<>>
  <2> DEFINE x == [is |-> "calls", calls |-> batch]
  <2>1. x \in Chunks /\ x.is = "calls" /\ x.calls = batch
    BY DEF Chunks
  <2>2. CallsChunk(batch) = <<x>>
    BY <1>2 DEF CallsChunk
  <2> HIDE DEF x
  <2>3. <<x>> \in Seq(Chunks) /\ Kinds(<<x>>) = {"calls"}
    BY <2>1, OneChunk
  <2>4. Issues(<<x>>, batch)
    BY <2>1, <2>3 DEF Issues
  <2> QED BY <1>2, <2>2, <2>3, <2>4
<1> QED BY <1>1, <1>2

LEMMA EmptyIsAChunk ==
  ASSUME NEW reason \in Reasons
  PROVE  EmptyChunk(reason) \in Seq(Chunks) /\ Kinds(EmptyChunk(reason)) = {"empty"}
<1>1. [is |-> "empty", reason |-> reason] \in Chunks
  BY DEF Chunks
<1> QED BY <1>1, OneChunk DEF EmptyChunk

LEMMA ErrorsAreChunks ==
  /\ FailedChunk \in Seq(Chunks) /\ Kinds(FailedChunk) = {"error"}
  /\ RefusedChunk \in Seq(Chunks) /\ Kinds(RefusedChunk) = {"refused"}
<1>1. [is |-> "error"] \in Chunks /\ [is |-> "refused"] \in Chunks
  BY DEF Chunks
<1> QED BY <1>1, OneChunk DEF FailedChunk, RefusedChunk

LEMMA UsageIsAChunk ==
  ASSUME NEW c
  PROVE  UsageChunk(c) \in Seq(Chunks) /\ Kinds(UsageChunk(c)) \subseteq {"usage"}
<1>1. [is |-> "usage"] \in Chunks
  BY DEF Chunks
<1>2. <<[is |-> "usage"]>> \in Seq(Chunks) /\ Kinds(<<[is |-> "usage"]>>) = {"usage"}
  BY <1>1, OneChunk
<1> QED BY <1>2, NoChunk DEF UsageChunk

\* The calls in is, each as f says.
InTurn(f, is) == [n \in 1..Cardinality(is) |-> f[InOrder(is)[n]]]

InTurnIs(b, f, is) ==
  /\ b \in Seq(Batch) /\ DOMAIN b = 1..Cardinality(is)
  /\ \A n \in DOMAIN b : b[n].call \in is /\ b[n] = f[b[n].call] /\ b[n].call = InOrder(is)[n]
  /\ \A i \in is : \E n \in DOMAIN b : b[n].call = i
  /\ \A m, n \in DOMAIN b : m < n => b[m].call < b[n].call
  /\ is = {} <=> b = <<>>

LEMMA BatchInOrder ==
  ASSUME NEW is, IsFiniteSet(is), is \subseteq Nat, NEW f \in [is -> Batch], \A i \in is : f[i].call = i
  PROVE  InTurnIs(InTurn(f, is), f, is)
<1> DEFINE N == Cardinality(is)
           b == InTurn(f, is)
<1>1. N \in Nat /\ InOrder(is) \in [1..N -> is] /\ \A i \in is : \E n \in 1..N : InOrder(is)[n] = i
  BY InOrderSorts
<1>2. \A m, n \in 1..N : m < n => InOrder(is)[m] < InOrder(is)[n]
  BY InOrderSorts
<1>3. b \in [1..N -> Batch] /\ \A n \in 1..N : b[n] = f[InOrder(is)[n]] /\ b[n].call = InOrder(is)[n]
  BY <1>1 DEF InTurn
<1>4. b \in Seq(Batch) /\ Len(b) = N /\ DOMAIN b = 1..N
  BY <1>1, <1>3
<1>5. \A n \in DOMAIN b : b[n].call \in is /\ b[n] = f[b[n].call] /\ b[n].call = InOrder(is)[n]
  BY <1>1, <1>3, <1>4
<1>6. \A i \in is : \E n \in DOMAIN b : b[n].call = i
  <2> SUFFICES ASSUME NEW i \in is PROVE \E n \in DOMAIN b : b[n].call = i
    OBVIOUS
  <2>1. PICK n \in 1..N : InOrder(is)[n] = i
    BY <1>1
  <2> QED BY <1>3, <1>4, <2>1
<1>7. \A m, n \in DOMAIN b : m < n => b[m].call < b[n].call
  BY <1>2, <1>3, <1>4
<1>8. is = {} <=> N = 0
  BY FS_EmptySet
<1>9. N = 0 <=> b = <<>>
  BY <1>1, <1>4
<1> QED BY <1>4, <1>5, <1>6, <1>7, <1>8, <1>9 DEF InTurnIs

(***************************************************************************)
(* The three ends of an answer                                             *)
(***************************************************************************)
\* What a client has while it reads: fragments of calls the answer has.
Reading(c) ==
  /\ IsFiniteSet(DOMAIN answer.calls) /\ DOMAIN answer.calls \subseteq Nat
  /\ DOMAIN c.tools \subseteq DOMAIN answer.calls
  /\ \A i \in DOMAIN c.tools : c.tools[i] \in [named : BOOLEAN, pieces : Nat]
  /\ c.finish \in Reasons /\ c.text \in BOOLEAN /\ c.out \in Seq(Chunks)

\* The calls in is with all their pieces, in order.
BatchOf(b, tools, is) ==
  /\ b \in Seq(Batch)
  /\ \A n \in DOMAIN b : b[n].call \in is /\ b[n] = CallOf(tools, b[n].call)
  /\ \A i \in is : \E n \in DOMAIN b : b[n].call = i
  /\ \A m, n \in DOMAIN b : m < n => b[m].call < b[n].call
  /\ is = {} <=> b = <<>>

LEMMA CallsAreABatch ==
  ASSUME NEW c, Reading(c), NEW is \in SUBSET DOMAIN c.tools
  PROVE  BatchOf(CallsOf(c.tools, is), c.tools, is)
<1> DEFINE f == [i \in is |-> CallOf(c.tools, i)]
           b == CallsOf(c.tools, is)
<1>1. IsFiniteSet(is) /\ is \subseteq Nat
  BY FS_Subset DEF Reading
<1>2. f \in [is -> Batch] /\ \A i \in is : f[i].call = i
  BY <1>1 DEF CallOf, Batch, Reading
<1>3. \A n \in 1..Cardinality(is) : InOrder(is)[n] \in is
  BY <1>1, InOrderSorts
<1>4. b = [n \in 1..Cardinality(is) |-> f[InOrder(is)[n]]]
  BY <1>3 DEF CallsOf
<1> HIDE DEF b, f
<1>5. /\ b \in Seq(Batch) /\ DOMAIN b = 1..Cardinality(is)
      /\ \A n \in DOMAIN b : b[n].call \in is /\ b[n] = f[b[n].call]
      /\ \A i \in is : \E n \in DOMAIN b : b[n].call = i
      /\ \A m, n \in DOMAIN b : m < n => b[m].call < b[n].call
      /\ is = {} <=> b = <<>>
  <2>1. InTurnIs(b, f, is)
    BY <1>1, <1>2, <1>4, BatchInOrder DEF InTurn
  <2> QED BY <2>1 DEF InTurnIs
<1>6. \A n \in DOMAIN b : b[n] = CallOf(c.tools, b[n].call)
  BY <1>5 DEF f
<1> QED BY <1>5, <1>6 DEF b, BatchOf

LEMMA OpenAiEnds ==
  ASSUME NEW c, Reading(c)
  PROVE  LET bad == Unnamed(c.tools) \cup Unreadable(c.tools)
             end == OpenAiEnd(c)
         IN  /\ end \in Seq(Chunks)
             /\ {"text", "reasoning"} \cap Kinds(end) = {}
             /\ bad # {} => Issues(end, <<>>) /\ ({"empty", "refused"} \cap Kinds(end) # {})
             /\ bad = {} => /\ Issues(end, CallsOf(c.tools, DOMAIN c.tools))
                            /\ IF DOMAIN c.tools # {} \/ c.text THEN {"empty", "refused"} \cap Kinds(end) = {}
                               ELSE {"empty", "refused"} \cap Kinds(end) # {}
                            /\ DOMAIN c.tools # {} => "calls" \in Kinds(end)
<1> DEFINE bad == Unnamed(c.tools) \cup Unreadable(c.tools)
           end == OpenAiEnd(c)
           u == UsageChunk(c)
           b == CallsOf(c.tools, DOMAIN c.tools)
<1>1. u \in Seq(Chunks) /\ Kinds(u) \subseteq {"usage"}
  BY UsageIsAChunk
<1>2. ASSUME NEW reason \in Reasons
      PROVE  LET t == u \o EmptyChunk(reason) IN
             t \in Seq(Chunks) /\ "empty" \in Kinds(t) /\ Kinds(t) \subseteq {"usage", "empty"}
  <2>1. EmptyChunk(reason) \in Seq(Chunks) /\ Kinds(EmptyChunk(reason)) = {"empty"}
    BY EmptyIsAChunk
  <2> QED BY <1>1, <2>1, KindsAdd
<1>4. CASE bad # {}
  <2>1. end = u \o EmptyChunk("length") \/ end = u \o EmptyChunk("arguments") \/ end = RefusedChunk
    BY <1>4 DEF OpenAiEnd
  <2>2. end \in Seq(Chunks) /\ Kinds(end) \subseteq {"usage", "empty", "refused"}
        /\ ({"empty", "refused"} \cap Kinds(end) # {})
    <3>1. "length" \in Reasons /\ "arguments" \in Reasons
      BY DEF Reasons
    <3>2. CASE end = u \o EmptyChunk("length")
      BY <3>1, <3>2, <1>2
    <3>3. CASE end = u \o EmptyChunk("arguments")
      BY <3>1, <3>3, <1>2
    <3>4. CASE end = RefusedChunk
      BY <3>4, ErrorsAreChunks
    <3> QED BY <2>1, <3>2, <3>3, <3>4
  <2> HIDE DEF end
  <2> QED BY <1>4, <2>2, NoCallsNoBatch DEF end
<1>5. CASE bad = {}
  <2> DEFINE t == IF DOMAIN c.tools # {} \/ c.text THEN <<>>
                  ELSE IF c.finish = "tool_calls" THEN RefusedChunk
                  ELSE EmptyChunk(IF c.finish # "none" THEN c.finish
                             ELSE IF c.reasoning THEN "reasoning_only" ELSE "unknown")
  <2>1. end = (u \o CallsChunk(b)) \o t
    BY <1>5 DEF OpenAiEnd
  <2>2. b \in Seq(Batch) /\ (DOMAIN c.tools = {} <=> b = <<>>)
    BY CallsAreABatch DEF BatchOf
  <2>3. /\ CallsChunk(b) \in Seq(Chunks) /\ Issues(CallsChunk(b), b)
        /\ Kinds(CallsChunk(b)) = IF b = <<>> THEN {} ELSE {"calls"}
    BY <2>2, CallsAreAChunk
  <2>4. t \in Seq(Chunks) /\ Kinds(t) = IF DOMAIN c.tools # {} \/ c.text THEN {}
                                         ELSE IF c.finish = "tool_calls" THEN {"refused"} ELSE {"empty"}
    <3>1. c.finish \in Reasons /\ "reasoning_only" \in Reasons /\ "unknown" \in Reasons
      BY DEF Reading, Reasons
    <3>2. CASE DOMAIN c.tools # {} \/ c.text
      BY <3>2, NoChunk
    <3>3. CASE ~(DOMAIN c.tools # {} \/ c.text) /\ c.finish = "tool_calls"
      BY <3>3, ErrorsAreChunks
    <3>4. CASE ~(DOMAIN c.tools # {} \/ c.text) /\ c.finish # "tool_calls"
      BY <3>1, <3>4, EmptyIsAChunk
    <3> QED BY <3>2, <3>3, <3>4
  <2> DEFINE s == u \o CallsChunk(b)
  <2> HIDE DEF t, b
  <2>5. s \in Seq(Chunks) /\ Issues(s, b) /\ Kinds(s) = Kinds(u) \cup Kinds(CallsChunk(b))
    <3>1. "calls" \notin Kinds(u)
      BY <1>1
    <3> QED BY <1>1, <2>3, <3>1, KindsAdd, BatchLast
  <2> HIDE DEF s
  <2>6. "calls" \notin Kinds(t)
    BY <2>4
  <2>7. end \in Seq(Chunks) /\ Issues(end, b) /\ Kinds(end) = Kinds(u) \cup Kinds(CallsChunk(b)) \cup Kinds(t)
    <3>1. end = s \o t
      BY <2>1 DEF s
    <3>2. t \in Seq(Chunks)
      BY <2>4
    <3>3. s \o t \in Seq(Chunks) /\ Kinds(s \o t) = Kinds(s) \cup Kinds(t)
      BY <2>5, <3>2, KindsAdd
    <3>4. Issues(s \o t, b)
      BY <2>5, <2>6, <3>2, BatchFirst
    <3> QED BY <2>5, <3>1, <3>3, <3>4
  <2> HIDE DEF end, u
  <2> QED BY <1>1, <1>5, <2>2, <2>3, <2>4, <2>7 DEF b, end
<1> QED BY <1>4, <1>5

\* The calls in is, in order; those that cannot be read have no pieces.
MendedBatchOf(b, tools, is) ==
  /\ DOMAIN b = 1..Cardinality(is)
  /\ \A n \in DOMAIN b :
       /\ b[n].call \in is /\ b[n].call = InOrder(is)[n]
       /\ b[n] = IF Readable(tools, b[n].call) THEN CallOf(tools, b[n].call) ELSE [call |-> b[n].call, pieces |-> 0]
  /\ \A m, n \in DOMAIN b : m < n => b[m].call < b[n].call

LEMMA AnthropicEnds ==
  ASSUME NEW c, Reading(c)
  PROVE  LET named == DOMAIN c.tools \ Unnamed(c.tools)
             end == AnthropicEnd(c)
         IN  /\ end \in Seq(Chunks)
             /\ {"text", "reasoning", "usage", "error", "refused"} \cap Kinds(end) = {}
             /\ named # {} => "calls" \in Kinds(end) /\ "empty" \notin Kinds(end)
             /\ c.text => "empty" \notin Kinds(end)
             /\ named = {} /\ ~c.text => "empty" \in Kinds(end)
             /\ \E b \in Seq(Batch) : Issues(end, b) /\ MendedBatchOf(b, c.tools, named)
<1> DEFINE named == DOMAIN c.tools \ Unnamed(c.tools)
           end == AnthropicEnd(c)
           f == [i \in named |-> IF Readable(c.tools, i) THEN CallOf(c.tools, i) ELSE [call |-> i, pieces |-> 0]]
           b == [n \in 1..Cardinality(named) |-> f[InOrder(named)[n]]]
           t == IF b = <<>> /\ ~c.text THEN EmptyChunk("unknown") ELSE <<>>
<1>1. IsFiniteSet(named) /\ named \subseteq Nat
  BY FS_Subset DEF Reading
<1>2. f \in [named -> Batch] /\ \A i \in named : f[i].call = i
  BY <1>1 DEF CallOf, Batch, Reading
<1>3. \A n \in 1..Cardinality(named) : InOrder(named)[n] \in named
  BY <1>1, InOrderSorts
<1>4. end = CallsChunk(b) \o t
  <2>1. b = [n \in 1..Cardinality(named) |->
               IF Readable(c.tools, InOrder(named)[n]) THEN CallOf(c.tools, InOrder(named)[n])
               ELSE [call |-> InOrder(named)[n], pieces |-> 0]]
    BY <1>3
  <2> HIDE DEF b
  <2> QED BY <2>1 DEF AnthropicEnd
<1> HIDE DEF f
<1>5. /\ b \in Seq(Batch) /\ DOMAIN b = 1..Cardinality(named)
      /\ \A n \in DOMAIN b : b[n].call \in named /\ b[n] = f[b[n].call] /\ b[n].call = InOrder(named)[n]
      /\ \A i \in named : \E n \in DOMAIN b : b[n].call = i
      /\ \A m, n \in DOMAIN b : m < n => b[m].call < b[n].call
      /\ named = {} <=> b = <<>>
  <2>1. InTurnIs(b, f, named)
    <3>1. b = InTurn(f, named)
      BY DEF InTurn
    <3> HIDE DEF b, named
    <3> QED BY <1>1, <1>2, <3>1, BatchInOrder
  <2> HIDE DEF b, named
  <2> QED BY <2>1 DEF InTurnIs
<1> HIDE DEF b
<1>6. \A n \in DOMAIN b : b[n] = IF Readable(c.tools, b[n].call) THEN CallOf(c.tools, b[n].call)
                                 ELSE [call |-> b[n].call, pieces |-> 0]
  BY <1>5 DEF f
<1>7. /\ CallsChunk(b) \in Seq(Chunks) /\ Issues(CallsChunk(b), b)
      /\ Kinds(CallsChunk(b)) = IF b = <<>> THEN {} ELSE {"calls"}
  BY <1>5, CallsAreAChunk
<1>8. t \in Seq(Chunks) /\ Kinds(t) = IF b = <<>> /\ ~c.text THEN {"empty"} ELSE {}
  <2>1. "unknown" \in Reasons
    BY DEF Reasons
  <2>2. EmptyChunk("unknown") \in Seq(Chunks) /\ Kinds(EmptyChunk("unknown")) = {"empty"}
    BY <2>1, EmptyIsAChunk
  <2> QED BY <2>2, NoChunk
<1> HIDE DEF t
<1>9. end \in Seq(Chunks) /\ Issues(end, b) /\ Kinds(end) = Kinds(CallsChunk(b)) \cup Kinds(t)
  BY <1>4, <1>7, <1>8, KindsAdd, BatchFirst
<1> HIDE DEF end, named
<1>10. /\ {"text", "reasoning", "usage", "error", "refused"} \cap Kinds(end) = {}
       /\ named # {} => "calls" \in Kinds(end) /\ "empty" \notin Kinds(end)
       /\ c.text => "empty" \notin Kinds(end)
       /\ named = {} /\ ~c.text => "empty" \in Kinds(end)
  BY <1>5, <1>7, <1>8, <1>9
<1>11. MendedBatchOf(b, c.tools, named)
  BY <1>5, <1>6 DEF MendedBatchOf
<1> QED BY <1>5, <1>9, <1>10, <1>11 DEF end, named

LEMMA JsonEnds ==
  ASSUME NEW c, Reading(c)
  PROVE  LET named == DOMAIN c.tools \ Unnamed(c.tools)
             bad == named \cap Unreadable(c.tools)
             end == JsonEnd(c)
         IN  /\ end \in Seq(Chunks)
             /\ {"text", "reasoning", "error", "refused"} \cap Kinds(end) = {}
             /\ bad # {} => Issues(end, <<>>)
             /\ bad = {} => Issues(end, CallsOf(c.tools, named))
             /\ bad = {} /\ "empty" \in Kinds(end) => named = {} /\ c.out = <<>>
<1> DEFINE named == DOMAIN c.tools \ Unnamed(c.tools)
           bad == named \cap Unreadable(c.tools)
           end == JsonEnd(c)
           b == CallsOf(c.tools, named)
           u == UsageChunk(c)
           said == IF bad # {} THEN EmptyChunk(IF c.finish = "length" THEN "length" ELSE "arguments")
                   ELSE CallsChunk(b)
           t == IF said = <<>> /\ c.out = <<>>
                THEN EmptyChunk(IF c.finish = "none" THEN "unknown" ELSE c.finish) ELSE <<>>
<1>1. end = (said \o t) \o u
  BY DEF JsonEnd
<1>2. u \in Seq(Chunks) /\ Kinds(u) \subseteq {"usage"}
  BY UsageIsAChunk
<1>3. b \in Seq(Batch) /\ (named = {} <=> b = <<>>)
  <2>1. named \in SUBSET DOMAIN c.tools
    OBVIOUS
  <2> HIDE DEF named
  <2> QED BY <2>1, CallsAreABatch DEF BatchOf
<1> HIDE DEF b
<1>4. /\ CallsChunk(b) \in Seq(Chunks) /\ Issues(CallsChunk(b), b)
      /\ Kinds(CallsChunk(b)) = IF b = <<>> THEN {} ELSE {"calls"}
  BY <1>3, CallsAreAChunk
<1>6. /\ said \in Seq(Chunks)
      /\ Kinds(said) = IF bad # {} THEN {"empty"} ELSE IF b = <<>> THEN {} ELSE {"calls"}
      /\ Issues(said, IF bad # {} THEN <<>> ELSE b)
  <2>1. "length" \in Reasons /\ "arguments" \in Reasons
    BY DEF Reasons
  <2> DEFINE r == IF c.finish = "length" THEN "length" ELSE "arguments"
  <2>2. EmptyChunk(r) \in Seq(Chunks) /\ Kinds(EmptyChunk(r)) = {"empty"}
    BY <2>1, EmptyIsAChunk
  <2>3. Issues(EmptyChunk(r), <<>>)
    BY <2>2, NoCallsNoBatch
  <2>4. CASE bad # {}
    <3>1. said = EmptyChunk(r)
      BY <2>4
    <3> HIDE DEF bad, r, said
    <3> QED BY <2>2, <2>3, <2>4, <3>1
  <2>5. CASE bad = {}
    <3>1. said = CallsChunk(b)
      BY <2>5
    <3> HIDE DEF bad, said
    <3> QED BY <1>4, <2>5, <3>1
  <2> QED BY <2>4, <2>5
<1>7. /\ t \in Seq(Chunks) /\ Kinds(t) \subseteq {"empty"}
      /\ Kinds(t) # {} => said = <<>> /\ c.out = <<>>
  <2>1. c.finish \in Reasons
    BY DEF Reading
  <2> DEFINE r == IF c.finish = "none" THEN "unknown" ELSE c.finish
  <2>2. r \in Reasons
    BY <2>1 DEF Reasons
  <2>3. EmptyChunk(r) \in Seq(Chunks) /\ Kinds(EmptyChunk(r)) = {"empty"}
    BY <2>2, EmptyIsAChunk
  <2> HIDE DEF said, r
  <2>4. t = IF said = <<>> /\ c.out = <<>> THEN EmptyChunk(r) ELSE <<>>
    BY DEF r
  <2> HIDE DEF t
  <2> QED BY <2>3, <2>4, NoChunk
<1>8. said = <<>> => bad = {} /\ b = <<>>
  <2>1. ASSUME said = <<>> PROVE Kinds(said) = {}
    BY <2>1 DEF Kinds
  <2> QED BY <1>6, <2>1
<1> HIDE DEF said, t, u, end, named, bad
<1>9. /\ said \o t \in Seq(Chunks) /\ Kinds(said \o t) = Kinds(said) \cup Kinds(t)
      /\ Issues(said \o t, IF bad # {} THEN <<>> ELSE b)
  BY <1>6, <1>7, KindsAdd, BatchFirst
<1>10. /\ end \in Seq(Chunks) /\ Kinds(end) = Kinds(said) \cup Kinds(t) \cup Kinds(u)
       /\ Issues(end, IF bad # {} THEN <<>> ELSE b)
  BY <1>1, <1>2, <1>9, KindsAdd, BatchFirst
<1>11. /\ {"text", "reasoning", "error", "refused"} \cap Kinds(end) = {}
       /\ bad = {} /\ "empty" \in Kinds(end) => named = {} /\ c.out = <<>>
  BY <1>2, <1>3, <1>6, <1>7, <1>8, <1>10
<1> QED BY <1>10, <1>11 DEF end, named, bad, b

(***************************************************************************)
(* The invariant                                                           *)
(***************************************************************************)
StreamTypeOK ==
  /\ answer \in [client : Clients, style : Styles, delta : BOOLEAN, reasoning : BOOLEAN, text : BOOLEAN,
                 calls : Seq(CallShapes), ends : {"none", "stop", "tool_calls"}]
  /\ sent \in [reasoning : BOOLEAN, text : BOOLEAN, told : [DOMAIN answer.calls -> Nat], snapshot : BOOLEAN]
  /\ cut \in BOOLEAN
  /\ client \in [tools : {client.tools}, text : BOOLEAN, reasoning : BOOLEAN, finish : Reasons,
                 usage : BOOLEAN, out : Seq(Chunks), open : BOOLEAN]

\* The calls a client has heard of, and how many pieces of them.
Heard ==
  IF answer.style # "snapshot" THEN {i \in DOMAIN answer.calls : sent.told[i] > 0}
  ELSE IF sent.snapshot /\ answer.delta THEN DOMAIN answer.calls ELSE {}

HeardOf(i) == IF answer.style # "snapshot" THEN sent.told[i] - 1 ELSE answer.calls[i].pieces

\* The entries are what was sent, and no call has more pieces than it was meant to have.
EntriesAsSent ==
  /\ \A i \in DOMAIN answer.calls : sent.told[i] <= answer.calls[i].pieces + 1
  /\ client.open \/ answer.client # "json" =>
       /\ DOMAIN client.tools = Heard
       /\ \A i \in Heard : client.tools[i] = [named |-> answer.calls[i].named, pieces |-> HeardOf(i)]

\* While a client reads it has shown the text, and nothing but text and thoughts.
ShownSoFar ==
  /\ sent.text => answer.text
  /\ client.open => /\ Kinds(client.out) \subseteq {"reasoning", "text"}
                    /\ "text" \in Kinds(client.out) <=> sent.text
                    /\ client.text = sent.text

\* The server sent all of an answer that can be used, and the client has read it.
Usable ==
  /\ AllSent /\ ~cut /\ (answer.style = "snapshot" => answer.delta)
  /\ \A i \in DOMAIN answer.calls : Makeable(i)

\* In the end the calls of batch are issued.
Reports(batch) ==
  /\ Issues(client.out, batch)
  /\ \A n \in DOMAIN batch : batch[n].pieces \in {0, answer.calls[batch[n].call].pieces}
  /\ \A m, n \in DOMAIN batch : m < n => batch[m].call < batch[n].call
  /\ answer.client = "openai" /\ batch # <<>> =>
       /\ \A n \in DOMAIN batch : batch[n].call \in DOMAIN client.tools
       /\ \A i \in DOMAIN client.tools : \E n \in DOMAIN batch : batch[n].call = i
  /\ ~client.open /\ answer.client # "json" => \E k \in Kinds(client.out) : k # "reasoning" /\ k # "usage"
  /\ ~client.open /\ "error" \notin Kinds(client.out) /\ Usable =>
       /\ "refused" \in Kinds(client.out) => answer.calls = <<>> /\ ~answer.text
       /\ batch = [i \in DOMAIN answer.calls |-> Meant(i)]
       /\ answer.text <=> "text" \in Kinds(client.out)
       /\ "empty" \in Kinds(client.out) => answer.calls = <<>> /\ ~answer.text

Reported == \E batch \in Seq(Batch) : Reports(batch)

StreamInd == StreamTypeOK /\ EntriesAsSent /\ ShownSoFar /\ Reported

LEMMA IssuedAsReported ==
  ASSUME NEW batch \in Seq(Batch), Issues(client.out, batch)
  PROVE  /\ Issued = batch /\ \A m, n \in SaidAs("calls") : m = n
         /\ \A k : SaidAs(k) = {} <=> k \notin Kinds(client.out)
<1>1. \A k : SaidAs(k) = {} <=> k \notin Kinds(client.out)
  BY DEF SaidAs, Kinds
<1>2. \A m, n \in SaidAs("calls") : m = n
  BY DEF SaidAs, Issues
<1>3. CASE SaidAs("calls") = {}
  BY <1>1, <1>2, <1>3 DEF Issues, Issued
<1>4. CASE SaidAs("calls") # {}
  <2>1. (CHOOSE n \in SaidAs("calls") : TRUE) \in SaidAs("calls")
    BY <1>4
  <2>2. \A n \in SaidAs("calls") : client.out[n].calls = batch
    BY DEF SaidAs, Issues
  <2> QED BY <1>1, <1>2, <1>4, <2>1, <2>2 DEF Issued
<1> QED BY <1>3, <1>4

LEMMA ReportedIsSafe ==
  ASSUME StreamInd
  PROVE  StreamSafety
<1>1. PICK batch \in Seq(Batch) : Reports(batch)
  BY DEF StreamInd, Reported
<1>2. /\ Issued = batch /\ \A m, n \in SaidAs("calls") : m = n
      /\ \A k : SaidAs(k) = {} <=> k \notin Kinds(client.out)
  BY <1>1, IssuedAsReported DEF Reports
<1>3. NoFragments
  BY <1>1, <1>2 DEF NoFragments, Reports
<1>4. AllOrNothing
  <2> SUFFICES ASSUME answer.client = "openai", Issued # <<>>
               PROVE  {Issued[n].call : n \in DOMAIN Issued} = DOMAIN client.tools
    BY DEF AllOrNothing
  <2>1. /\ \A n \in DOMAIN batch : batch[n].call \in DOMAIN client.tools
        /\ \A i \in DOMAIN client.tools : \E n \in DOMAIN batch : batch[n].call = i
    BY <1>1, <1>2 DEF Reports
  <2> QED BY <1>2, <2>1
<1>5. WholeAnswer
  <2> SUFFICES ASSUME CameWhole, answer.style = "snapshot" => answer.delta
               PROVE  /\ SaidAs("refused") = {} \/ (answer.calls = <<>> /\ ~answer.text)
                      /\ Issued = [i \in DOMAIN answer.calls |-> Meant(i)]
                      /\ answer.text <=> SaidAs("text") # {}
                      /\ SaidAs("empty") # {} => ~answer.text /\ answer.calls = <<>>
    BY DEF WholeAnswer
  <2>1. Usable /\ ~client.open /\ "error" \notin Kinds(client.out)
    BY <1>2 DEF CameWhole, Usable
  <2>2. /\ "refused" \in Kinds(client.out) => answer.calls = <<>> /\ ~answer.text
        /\ batch = [i \in DOMAIN answer.calls |-> Meant(i)]
        /\ answer.text <=> "text" \in Kinds(client.out)
        /\ "empty" \in Kinds(client.out) => answer.calls = <<>> /\ ~answer.text
    BY <1>1, <2>1 DEF Reports
  <2> QED BY <1>2, <2>2
<1>6. NeverSilent
  <2> SUFFICES ASSUME ~client.open, answer.client # "json"
               PROVE  \E n \in DOMAIN client.out : client.out[n].is # "reasoning" /\ client.out[n].is # "usage"
    BY DEF NeverSilent
  <2>1. \E k \in Kinds(client.out) : k # "reasoning" /\ k # "usage"
    BY <1>1 DEF Reports
  <2> QED BY <2>1 DEF Kinds
<1> QED BY <1>3, <1>4, <1>5, <1>6 DEF StreamSafety

LEMMA StreamInitInd == StreamInit => StreamInd
<1> SUFFICES ASSUME StreamInit PROVE StreamInd
  OBVIOUS
<1>1. PICK n \in 0..MaxCalls : \E calls \in [1..n -> CallShapes] :
         answer \in [client : Clients, style : Styles, delta : BOOLEAN, reasoning : BOOLEAN, text : BOOLEAN,
                     calls : {calls}, ends : {"none", "stop", "tool_calls"}]
  BY DEF StreamInit
<1>2. PICK calls \in [1..n -> CallShapes] :
         answer \in [client : Clients, style : Styles, delta : BOOLEAN, reasoning : BOOLEAN, text : BOOLEAN,
                     calls : {calls}, ends : {"none", "stop", "tool_calls"}]
  BY <1>1
<1>3. n \in Nat /\ calls \in Seq(CallShapes)
  BY <1>2
<1>4. sent = NothingSent(answer.calls) /\ cut = FALSE /\ client = NewClient
  BY DEF StreamInit
<1>5. client.out = <<>> /\ client.open /\ client.text = FALSE /\ client.tools = <<>>
  BY <1>4 DEF NewClient
<1>6. StreamTypeOK
  <2>1. answer \in [client : Clients, style : Styles, delta : BOOLEAN, reasoning : BOOLEAN, text : BOOLEAN,
                    calls : Seq(CallShapes), ends : {"none", "stop", "tool_calls"}]
    BY <1>2, <1>3
  <2>2. sent \in [reasoning : BOOLEAN, text : BOOLEAN, told : [DOMAIN answer.calls -> Nat], snapshot : BOOLEAN]
    BY <1>4 DEF NothingSent
  <2>3. client \in [tools : {client.tools}, text : BOOLEAN, reasoning : BOOLEAN, finish : Reasons,
                    usage : BOOLEAN, out : Seq(Chunks), open : BOOLEAN]
    BY <1>4 DEF NewClient, Reasons
  <2> QED BY <1>4, <2>1, <2>2, <2>3 DEF StreamTypeOK
<1>7. EntriesAsSent
  <2>1. \A i \in DOMAIN answer.calls : sent.told[i] = 0 /\ answer.calls[i].pieces \in Nat
    BY <1>4, <1>6 DEF NothingSent, StreamTypeOK
  <2>2. sent.snapshot = FALSE
    BY <1>4 DEF NothingSent
  <2>3. Heard = {} /\ DOMAIN client.tools = {}
    BY <1>5, <2>1, <2>2 DEF Heard
  <2> QED BY <2>1, <2>3 DEF EntriesAsSent
<1>8. Kinds(client.out) = {} /\ Issues(client.out, <<>>)
  BY <1>5, NoChunk
<1>9. ShownSoFar
  BY <1>4, <1>5, <1>8 DEF ShownSoFar, NothingSent
<1>10. Reported
  <2>1. <<>> \in Seq(Batch)
    OBVIOUS
  <2>2. Reports(<<>>)
    BY <1>5, <1>8 DEF Reports
  <2> QED BY <2>1, <2>2 DEF Reported
<1> QED BY <1>6, <1>7, <1>9, <1>10 DEF StreamInd

\* A client that goes on reading has nothing to report yet.
LEMMA ReadingOn ==
  ASSUME client'.open, client'.out \in Seq(Chunks), Kinds(client'.out) \subseteq {"reasoning", "text"}
  PROVE  Reported'
<1>1. Issues(client'.out, <<>>)
  BY NoCallsNoBatch
<1>2. Reports(<<>>)'
  BY <1>1 DEF Reports
<1>3. <<>> \in Seq(Batch)
  OBVIOUS
<1> QED BY <1>2, <1>3 DEF Reported

LEMMA SayAddsAKind ==
  ASSUME NEW out \in Seq(Chunks), NEW k \in {"reasoning", "text"}
  PROVE  Append(out, [is |-> k]) \in Seq(Chunks) /\ Kinds(Append(out, [is |-> k])) = Kinds(out) \cup {k}
<1> DEFINE x == [is |-> k]
<1>1. x \in Chunks /\ x.is = k
  BY DEF Chunks
<1>2. <<x>> \in Seq(Chunks) /\ Kinds(<<x>>) = {k}
  BY <1>1, OneChunk
<1>3. Append(out, x) = out \o <<x>>
  BY <1>1, AppendIsConcat
<1> HIDE DEF x
<1>4. out \o <<x>> \in Seq(Chunks) /\ Kinds(out \o <<x>>) = Kinds(out) \cup Kinds(<<x>>)
  BY <1>2, KindsAdd
<1>5. Append(out, x) \in Seq(Chunks) /\ Kinds(Append(out, x)) = Kinds(out) \cup {k}
  BY <1>2, <1>3, <1>4
<1> QED BY <1>5 DEF x

\* A snapshot of what is there already changes nothing.
LEMMA SameEntry ==
  ASSUME NEW n \in BOOLEAN, NEW p \in Nat, NEW e, e = [named |-> n, pieces |-> p]
  PROVE  [named |-> e.named \/ n, pieces |-> IF p > 0 THEN p ELSE e.pieces] = [named |-> n, pieces |-> p]
<1>1. e.named = n /\ e.pieces = p
  OBVIOUS
<1>2. (e.named \/ n) = n
  BY <1>1, Zenon
<1>3. (IF p > 0 THEN p ELSE e.pieces) = p
  BY <1>1
<1> QED BY <1>2, <1>3

LEMMA TakeFrameInd ==
  ASSUME StreamInd, TakeFrame
  PROVE  StreamInd'
<1> USE DEF StreamInd
<1>1. PICK f \in Frames : Due(f) /\ sent' = SentWith(f) /\ client' = Taken(client, f)
  BY DEF TakeFrame
<1>2. answer' = answer /\ cut' = cut /\ client.open /\ ~cut
  BY DEF TakeFrame, Streaming
<1>3. /\ client.out \in Seq(Chunks) /\ DOMAIN client.tools = Heard
      /\ \A i \in Heard : client.tools[i] = [named |-> answer.calls[i].named, pieces |-> HeardOf(i)]
      /\ Kinds(client.out) \subseteq {"reasoning", "text"} /\ ("text" \in Kinds(client.out) <=> sent.text)
      /\ client.text = sent.text /\ (sent.text => answer.text)
  BY <1>2 DEF StreamTypeOK, EntriesAsSent, ShownSoFar
<1>4. \A i \in DOMAIN answer.calls :
        answer.calls[i].pieces \in Nat /\ answer.calls[i].named \in BOOLEAN /\ sent.told[i] \in Nat
        /\ sent.told[i] <= answer.calls[i].pieces + 1
  BY DEF StreamTypeOK, EntriesAsSent
<1>5. CASE f.is = "reasoning"
  <2>1. sent' = [sent EXCEPT !.reasoning = TRUE]
    BY <1>1, <1>5 DEF SentWith
  <2>2. /\ client' \in [tools : {client.tools}, text : BOOLEAN, reasoning : BOOLEAN, finish : Reasons,
                        usage : BOOLEAN, out : Seq(Chunks), open : BOOLEAN]
        /\ client'.tools = client.tools /\ client'.text = client.text /\ client'.open
        /\ Kinds(client'.out) \subseteq Kinds(client.out) \cup {"reasoning"} /\ Kinds(client.out) \subseteq Kinds(client'.out)
    <3>1. CASE answer.client = "anthropic"
      <4>1. client' = client
        BY <1>1, <1>5, <3>1 DEF Taken
      <4> QED BY <1>2, <4>1 DEF StreamTypeOK
    <3>2. CASE answer.client # "anthropic"
      <4>1. client' = [client EXCEPT !.out = Append(client.out, [is |-> "reasoning"]), !.reasoning = TRUE]
        BY <1>1, <1>5, <3>2 DEF Taken, SayItem, StreamTypeOK
      <4>2. /\ Append(client.out, [is |-> "reasoning"]) \in Seq(Chunks)
            /\ Kinds(Append(client.out, [is |-> "reasoning"])) = Kinds(client.out) \cup {"reasoning"}
        BY <1>3, SayAddsAKind
      <4>3. client'.out = Append(client.out, [is |-> "reasoning"])
        BY <4>1 DEF StreamTypeOK
      <4>4. Kinds(client'.out) = Kinds(client.out) \cup {"reasoning"}
        BY <4>2, <4>3
      <4>5. client' \in [tools : {client.tools}, text : BOOLEAN, reasoning : BOOLEAN, finish : Reasons,
                        usage : BOOLEAN, out : Seq(Chunks), open : BOOLEAN]
        BY <4>1, <4>2 DEF StreamTypeOK
      <4> QED BY <1>2, <4>1, <4>4, <4>5 DEF StreamTypeOK
    <3> QED BY <3>1, <3>2
  <2>3. StreamTypeOK'
    BY <1>2, <2>1, <2>2 DEF StreamTypeOK
  <2>4. sent'.told = sent.told /\ sent'.snapshot = sent.snapshot /\ sent'.text = sent.text
    BY <2>1 DEF StreamTypeOK
  <2>5. Heard' = Heard /\ \A i : HeardOf(i)' = HeardOf(i)
    BY <1>2, <2>4 DEF Heard, HeardOf
  <2>6. EntriesAsSent'
    BY <1>2, <1>3, <1>4, <2>2, <2>4, <2>5 DEF EntriesAsSent
  <2>7. ShownSoFar'
    BY <1>2, <1>3, <2>2, <2>4 DEF ShownSoFar
  <2>8. Reported'
    BY <1>3, <2>2, <2>3, ReadingOn DEF StreamTypeOK
  <2> QED BY <2>3, <2>6, <2>7, <2>8
<1>6. CASE f.is = "text"
  <2>1. sent' = [sent EXCEPT !.text = TRUE] /\ answer.text
    BY <1>1, <1>6 DEF SentWith, Due, TextDue
  <2>2. client' = [client EXCEPT !.out = Append(client.out, [is |-> "text"]), !.text = TRUE]
    BY <1>1, <1>6 DEF Taken, SayItem, StreamTypeOK
  <2>3. /\ Append(client.out, [is |-> "text"]) \in Seq(Chunks)
        /\ Kinds(Append(client.out, [is |-> "text"])) = Kinds(client.out) \cup {"text"}
    BY <1>3, SayAddsAKind
  <2>4. /\ client'.out = Append(client.out, [is |-> "text"]) /\ client'.tools = client.tools
        /\ client'.text = TRUE /\ client'.open
    BY <1>2, <2>2 DEF StreamTypeOK
  <2>5. Kinds(client'.out) = Kinds(client.out) \cup {"text"} /\ client'.out \in Seq(Chunks)
    BY <2>3, <2>4
  <2>6. client' \in [tools : {client.tools}, text : BOOLEAN, reasoning : BOOLEAN, finish : Reasons,
                     usage : BOOLEAN, out : Seq(Chunks), open : BOOLEAN]
    BY <2>2, <2>3 DEF StreamTypeOK
  <2>7. StreamTypeOK'
    BY <1>2, <2>1, <2>4, <2>6 DEF StreamTypeOK
  <2>8. sent'.told = sent.told /\ sent'.snapshot = sent.snapshot /\ sent'.text = TRUE
    BY <2>1 DEF StreamTypeOK
  <2>9. Heard' = Heard /\ \A i : HeardOf(i)' = HeardOf(i)
    BY <1>2, <2>8 DEF Heard, HeardOf
  <2>10. EntriesAsSent'
    BY <1>2, <1>3, <1>4, <2>4, <2>8, <2>9 DEF EntriesAsSent
  <2>11. ShownSoFar'
    BY <1>2, <1>3, <2>1, <2>4, <2>5, <2>8 DEF ShownSoFar
  <2>12. Reported'
    BY <1>3, <2>4, <2>5, ReadingOn
  <2> QED BY <2>7, <2>10, <2>11, <2>12
<1>7. CASE f.is \in {"name", "piece"}
  <2>1. PICK i \in Owed : f = [is |-> IF sent.told[i] = 0 THEN "name" ELSE "piece", call |-> i]
    BY <1>1, <1>7 DEF Due
  <2>2. /\ f.call = i /\ i \in DOMAIN answer.calls /\ answer.style # "snapshot"
        /\ sent.told[i] <= answer.calls[i].pieces /\ (f.is = "name" <=> sent.told[i] = 0)
    BY <2>1 DEF Owed
  <2>3. sent' = [sent EXCEPT !.told[i] = sent.told[i] + 1]
    BY <1>1, <1>7, <2>2 DEF SentWith, StreamTypeOK
  <2>4. client' = [client EXCEPT !.tools = Fragment(client.tools, f)]
    BY <1>1, <1>7 DEF Taken, StreamTypeOK
  <2>5. /\ client'.tools = Fragment(client.tools, f) /\ client'.out = client.out /\ client'.open
        /\ client'.text = client.text
    BY <1>2, <2>4 DEF StreamTypeOK
  <2>6. StreamTypeOK'
    <3>1. sent' \in [reasoning : BOOLEAN, text : BOOLEAN, told : [DOMAIN answer.calls -> Nat], snapshot : BOOLEAN]
      <4> DEFINE t == [sent.told EXCEPT ![i] = sent.told[i] + 1]
      <4>1. t \in [DOMAIN answer.calls -> Nat]
        BY <1>4, <2>2 DEF StreamTypeOK
      <4>2. sent' = [sent EXCEPT !.told = t]
        BY <2>3 DEF StreamTypeOK
      <4> HIDE DEF t
      <4> QED BY <4>1, <4>2 DEF StreamTypeOK
    <3>2. client' \in [tools : {client'.tools}, text : BOOLEAN, reasoning : BOOLEAN, finish : Reasons,
                       usage : BOOLEAN, out : Seq(Chunks), open : BOOLEAN]
      BY <2>4 DEF StreamTypeOK
    <3> QED BY <1>2, <3>1, <3>2 DEF StreamTypeOK
  <2>7. /\ \A j \in DOMAIN answer.calls : sent'.told[j] = IF j = i THEN sent.told[i] + 1 ELSE sent.told[j]
        /\ sent'.snapshot = sent.snapshot /\ sent'.text = sent.text
    BY <2>2, <2>3 DEF StreamTypeOK
  <2>8. Heard' = Heard \cup {i} /\ \A j \in DOMAIN answer.calls : HeardOf(j)' = IF j = i THEN sent.told[i] ELSE HeardOf(j)
    BY <1>2, <1>4, <2>2, <2>7 DEF Heard, HeardOf
  <2>9. i \in Heard <=> sent.told[i] > 0
    BY <2>2 DEF Heard
  <2>10. DOMAIN client'.tools = Heard \cup {i}
         /\ \A j \in Heard \cup {i} : j # i => client'.tools[j] = client.tools[j]
    BY <1>3, <2>2, <2>5 DEF Fragment, WithEntry
  <2>11. client'.tools[i] = [named |-> answer.calls[i].named, pieces |-> sent.told[i]]
    <3>1. CASE sent.told[i] = 0
      <4>1. EntryOf(client.tools, i) = [named |-> FALSE, pieces |-> 0]
        BY <1>3, <2>9, <3>1 DEF EntryOf, Bare
      <4> QED BY <2>2, <2>5, <3>1, <4>1 DEF Fragment, WithEntry
    <3>2. CASE sent.told[i] # 0
      <4>1. EntryOf(client.tools, i) = [named |-> answer.calls[i].named, pieces |-> sent.told[i] - 1]
        BY <1>3, <1>4, <2>2, <2>9, <3>2 DEF EntryOf, HeardOf
      <4>2. client'.tools[i] = [EntryOf(client.tools, i) EXCEPT !.pieces = EntryOf(client.tools, i).pieces + 1]
        BY <2>2, <2>5, <3>2 DEF Fragment, WithEntry
      <4>3. sent.told[i] - 1 + 1 = sent.told[i]
        BY <1>4, <2>2
      <4> QED BY <4>1, <4>2, <4>3
    <3> QED BY <3>1, <3>2
  <2>12. EntriesAsSent'
    <3>1. \A j \in DOMAIN answer.calls : sent'.told[j] <= answer.calls[j].pieces + 1
      BY <1>4, <2>2, <2>7
    <3>2. \A j \in Heard \cup {i} : client'.tools[j] = [named |-> answer.calls[j].named, pieces |-> HeardOf(j)']
      <4>1. Heard \subseteq DOMAIN answer.calls
        BY DEF Heard
      <4> QED BY <1>3, <2>2, <2>8, <2>10, <2>11, <4>1
    <3> QED BY <1>2, <2>8, <2>10, <3>1, <3>2 DEF EntriesAsSent
  <2>13. ShownSoFar'
    BY <1>2, <1>3, <2>5, <2>7 DEF ShownSoFar
  <2>14. Reported'
    BY <1>3, <2>5, ReadingOn
  <2> QED BY <2>6, <2>12, <2>13, <2>14
<1>8. CASE f.is = "snapshot"
  <2>1. /\ sent' = [sent EXCEPT !.snapshot = TRUE] /\ SnapshotDue /\ Owed = {}
        /\ client' = IF answer.delta THEN [client EXCEPT !.tools = Snapshot(client.tools)] ELSE client
    BY <1>1, <1>8 DEF SentWith, Due, Taken, StreamTypeOK
  <2>2. /\ client'.out = client.out /\ client'.open /\ client'.text = client.text
        /\ client'.tools = IF answer.delta THEN Snapshot(client.tools) ELSE client.tools
    BY <1>2, <2>1 DEF StreamTypeOK
  <2>3. StreamTypeOK'
    <3>1. sent' \in [reasoning : BOOLEAN, text : BOOLEAN, told : [DOMAIN answer.calls -> Nat], snapshot : BOOLEAN]
      BY <2>1 DEF StreamTypeOK
    <3>2. client' \in [tools : {client'.tools}, text : BOOLEAN, reasoning : BOOLEAN, finish : Reasons,
                       usage : BOOLEAN, out : Seq(Chunks), open : BOOLEAN]
      BY <2>1 DEF StreamTypeOK
    <3> QED BY <1>2, <3>1, <3>2 DEF StreamTypeOK
  <2>4. sent'.told = sent.told /\ sent'.snapshot = TRUE /\ sent'.text = sent.text /\ ~sent.snapshot
    BY <2>1 DEF StreamTypeOK, SnapshotDue
  <2>5. EntriesAsSent'
    <3>1. CASE ~answer.delta
      <4>1. Heard' = Heard /\ \A i : HeardOf(i)' = HeardOf(i)
        BY <1>2, <2>4, <3>1 DEF Heard, HeardOf
      <4> QED BY <1>2, <1>3, <1>4, <2>2, <2>4, <3>1, <4>1 DEF EntriesAsSent
    <3>2. CASE answer.delta /\ answer.style = "snapshot"
      <4>1. Heard = {} /\ Heard' = DOMAIN answer.calls
        BY <1>2, <2>4, <3>2 DEF Heard
      <4>2. \A i : HeardOf(i)' = answer.calls[i].pieces
        BY <1>2, <3>2 DEF HeardOf
      <4>3. \A i \in DOMAIN answer.calls : EntryOf(client.tools, i) = [named |-> FALSE, pieces |-> 0]
        BY <1>3, <4>1 DEF EntryOf, Bare
      <4>4. /\ DOMAIN client'.tools = DOMAIN answer.calls
            /\ \A i \in DOMAIN answer.calls :
                 client'.tools[i] = [named |-> answer.calls[i].named, pieces |-> answer.calls[i].pieces]
        BY <1>4, <2>2, <3>2, <4>3 DEF Snapshot
      <4> QED BY <1>2, <1>4, <2>4, <4>1, <4>2, <4>4 DEF EntriesAsSent
    <3>3. CASE answer.delta /\ answer.style # "snapshot"
      <4>1. \A i \in DOMAIN answer.calls : sent.told[i] = answer.calls[i].pieces + 1
        BY <1>4, <2>1, <3>3 DEF Owed
      <4>2. Heard = DOMAIN answer.calls /\ Heard' = DOMAIN answer.calls
        BY <1>2, <1>4, <2>4, <3>3, <4>1 DEF Heard
      <4>3. \A i \in DOMAIN answer.calls : HeardOf(i) = answer.calls[i].pieces /\ HeardOf(i)' = answer.calls[i].pieces
        BY <1>2, <1>4, <2>4, <3>3, <4>1 DEF HeardOf
      <4>4. \A i \in DOMAIN answer.calls :
              EntryOf(client.tools, i) = [named |-> answer.calls[i].named, pieces |-> answer.calls[i].pieces]
        BY <1>3, <4>2, <4>3 DEF EntryOf
      <4>5. /\ DOMAIN client'.tools = DOMAIN answer.calls
            /\ \A i \in DOMAIN answer.calls :
                 client'.tools[i] = [named |-> answer.calls[i].named, pieces |-> answer.calls[i].pieces]
        <5>1. client'.tools = Snapshot(client.tools)
          BY <2>2, <3>3
        <5>6. DOMAIN client'.tools = DOMAIN answer.calls
          BY <5>1 DEF Snapshot
        <5>7. ASSUME NEW i \in DOMAIN answer.calls
              PROVE  client'.tools[i] = [named |-> answer.calls[i].named, pieces |-> answer.calls[i].pieces]
          <6>1. client'.tools[i] =
                  [named |-> EntryOf(client.tools, i).named \/ answer.calls[i].named,
                   pieces |-> IF answer.calls[i].pieces > 0 THEN answer.calls[i].pieces
                              ELSE EntryOf(client.tools, i).pieces]
            BY <5>1 DEF Snapshot
          <6>2. EntryOf(client.tools, i) = [named |-> answer.calls[i].named, pieces |-> answer.calls[i].pieces]
            BY <4>4
          <6> QED BY <1>4, <6>1, <6>2, SameEntry
        <5> QED BY <5>6, <5>7
      <4> QED BY <1>2, <1>4, <2>4, <4>2, <4>3, <4>5 DEF EntriesAsSent
    <3> QED BY <3>1, <3>2, <3>3
  <2>6. ShownSoFar'
    BY <1>2, <1>3, <2>2, <2>4 DEF ShownSoFar
  <2>7. Reported'
    BY <1>3, <2>2, ReadingOn
  <2> QED BY <2>3, <2>5, <2>6, <2>7
<1>9. f.is \in {"reasoning", "text", "name", "piece", "snapshot"}
  BY DEF Frames
<1> QED BY <1>5, <1>6, <1>7, <1>8, <1>9

\* The steps that leave what is read as it is.
LEMMA SaidInd ==
  ASSUME StreamInd, CutAtLimit \/ SayWhy \/ SayUsage
  PROVE  StreamInd'
<1> USE DEF StreamInd
<1>1. /\ answer' = answer /\ sent' = sent /\ cut' \in BOOLEAN /\ client.open /\ client'.open
      /\ client'.tools = client.tools /\ client'.out = client.out /\ client'.text = client.text
      /\ client' \in [tools : {client.tools}, text : BOOLEAN, reasoning : BOOLEAN, finish : Reasons,
                      usage : BOOLEAN, out : Seq(Chunks), open : BOOLEAN]
  <2>1. CASE CutAtLimit
    BY <2>1 DEF CutAtLimit, Streaming, StreamTypeOK
  <2>2. CASE SayWhy
    <3>1. answer.ends \in Reasons /\ "length" \in Reasons
      BY DEF StreamTypeOK, Reasons
    <3>2. PICK why \in Reasons : client' = [client EXCEPT !.finish = why]
      BY <2>2, <3>1 DEF SayWhy
    <3> QED BY <2>2, <3>2 DEF SayWhy, StreamTypeOK
  <2>3. CASE SayUsage
    BY <2>3 DEF SayUsage, StreamTypeOK
  <2> QED BY <2>1, <2>2, <2>3
<1>2. StreamTypeOK'
  BY <1>1 DEF StreamTypeOK
<1>3. Heard' = Heard /\ \A i : HeardOf(i)' = HeardOf(i)
  BY <1>1 DEF Heard, HeardOf
<1>4. EntriesAsSent'
  BY <1>1, <1>3 DEF EntriesAsSent
<1>5. ShownSoFar'
  BY <1>1 DEF ShownSoFar
<1>6. Reported'
  BY <1>1, <1>2, ReadingOn DEF ShownSoFar, StreamTypeOK
<1> QED BY <1>2, <1>4, <1>5, <1>6

\* A client that stops leaves the rest as it is.
LEMMA StoppedKeeps ==
  ASSUME StreamInd, client.open, UNCHANGED <<answer, sent, cut>>, NEW items \in Seq(Chunks),
         client' = Closed(client, items)
  PROVE  /\ StreamTypeOK' /\ EntriesAsSent' /\ ShownSoFar'
         /\ client'.tools = client.tools /\ ~client'.open /\ client'.out = client.out \o items
         /\ client'.out \in Seq(Chunks) /\ Kinds(client'.out) = Kinds(client.out) \cup Kinds(items)
         /\ \A batch : Issues(items, batch) => Issues(client'.out, batch)
<1> USE DEF StreamInd
<1>1. client' = [client EXCEPT !.out = client.out \o items, !.open = FALSE]
  BY DEF Closed, StreamTypeOK
<1>2. client.out \in Seq(Chunks) /\ "calls" \notin Kinds(client.out)
  BY DEF StreamTypeOK, ShownSoFar
<1>3. client.out \o items \in Seq(Chunks) /\ Kinds(client.out \o items) = Kinds(client.out) \cup Kinds(items)
  BY <1>2, KindsAdd
<1>4. client'.tools = client.tools /\ client'.open = FALSE /\ client'.out = client.out \o items
  BY <1>1 DEF StreamTypeOK
<1>5. client' \in [tools : {client.tools}, text : BOOLEAN, reasoning : BOOLEAN, finish : Reasons,
                   usage : BOOLEAN, out : Seq(Chunks), open : BOOLEAN]
  BY <1>1, <1>3 DEF StreamTypeOK
<1>6. StreamTypeOK'
  BY <1>4, <1>5 DEF StreamTypeOK
<1>7. Heard' = Heard /\ \A i : HeardOf(i)' = HeardOf(i)
  BY DEF Heard, HeardOf
<1>8. EntriesAsSent'
  BY <1>4, <1>7 DEF EntriesAsSent
<1>9. ShownSoFar'
  BY <1>4 DEF ShownSoFar
<1>10. \A batch : Issues(items, batch) => Issues(client'.out, batch)
  BY <1>2, <1>4, BatchLast
<1> QED BY <1>3, <1>4, <1>6, <1>8, <1>9, <1>10

LEMMA StreamFailsInd ==
  ASSUME StreamInd, StreamFails
  PROVE  StreamInd'
<1> USE DEF StreamInd
<1>1. client.open /\ UNCHANGED <<answer, sent, cut>>
  BY DEF StreamFails
<1>2. FailedChunk \in Seq(Chunks) /\ Kinds(FailedChunk) = {"error"} /\ Issues(FailedChunk, <<>>)
  BY ErrorsAreChunks, NoCallsNoBatch
<1>3. <<>> \in Seq(Batch)
  OBVIOUS
<1>4. /\ StreamTypeOK' /\ EntriesAsSent' /\ ShownSoFar' /\ ~client'.open
      /\ Issues(client'.out, <<>>) /\ "error" \in Kinds(client'.out)
  <2>1. CASE answer.client = "json"
    <3>1. client' = [NewClient EXCEPT !.out = FailedChunk, !.open = FALSE]
      BY <2>1 DEF StreamFails
    <3>2. client'.out = FailedChunk /\ client'.open = FALSE
      BY <3>1 DEF NewClient
    <3>3. client' \in [tools : {client'.tools}, text : BOOLEAN, reasoning : BOOLEAN, finish : Reasons,
                       usage : BOOLEAN, out : Seq(Chunks), open : BOOLEAN]
      BY <1>2, <3>1 DEF NewClient, Reasons
    <3>4. StreamTypeOK'
      BY <1>1, <3>3 DEF StreamTypeOK
    <3>5. EntriesAsSent'
      BY <1>1, <2>1, <3>2 DEF EntriesAsSent
    <3>6. ShownSoFar'
      BY <1>1, <3>2 DEF ShownSoFar
    <3> QED BY <1>2, <3>2, <3>4, <3>5, <3>6
  <2>2. CASE answer.client # "json"
    <3>1. client' = Closed(client, FailedChunk)
      BY <2>2 DEF StreamFails
    <3> QED BY <1>1, <1>2, <3>1, StoppedKeeps
  <2> QED BY <2>1, <2>2
<1>5. Reports(<<>>)'
  BY <1>1, <1>4 DEF Reports
<1>6. Reported'
  BY <1>3, <1>5 DEF Reported
<1> QED BY <1>4, <1>6

\* What a client has when it stops.
LEMMA ReadSoFar ==
  ASSUME StreamInd, client.open
  PROVE  /\ Reading(client) /\ DOMAIN client.tools = Heard
         /\ DOMAIN answer.calls = 1..Len(answer.calls) /\ Len(answer.calls) \in Nat
         /\ \A i \in Heard : /\ i \in DOMAIN answer.calls
                             /\ client.tools[i] = [named |-> answer.calls[i].named, pieces |-> HeardOf(i)]
                             /\ HeardOf(i) \in Nat
         /\ \A i \in Heard : Readable(client.tools, i) => client.tools[i].pieces \in {0, answer.calls[i].pieces}
<1> USE DEF StreamInd
<1>1. /\ DOMAIN client.tools = Heard
      /\ \A i \in Heard : client.tools[i] = [named |-> answer.calls[i].named, pieces |-> HeardOf(i)]
  BY DEF EntriesAsSent
<1>2. DOMAIN answer.calls = 1..Len(answer.calls) /\ Len(answer.calls) \in Nat
  BY DEF StreamTypeOK
<1>3. \A i \in DOMAIN answer.calls : answer.calls[i].pieces \in Nat /\ answer.calls[i].named \in BOOLEAN /\ sent.told[i] \in Nat
  BY DEF StreamTypeOK
<1>4. \A i \in Heard : i \in DOMAIN answer.calls /\ HeardOf(i) \in Nat
  BY <1>3 DEF Heard, HeardOf
<1>5. Reading(client)
  <2>1. IsFiniteSet(DOMAIN answer.calls) /\ DOMAIN answer.calls \subseteq Nat
    BY <1>2, FS_Interval
  <2>2. client.finish \in Reasons /\ client.text \in BOOLEAN /\ client.out \in Seq(Chunks)
    BY DEF StreamTypeOK
  <2>3. \A i \in DOMAIN client.tools : client.tools[i] \in [named : BOOLEAN, pieces : Nat]
    <3> SUFFICES ASSUME NEW i \in Heard PROVE client.tools[i] \in [named : BOOLEAN, pieces : Nat]
      BY <1>1
    <3>1. client.tools[i] = [named |-> answer.calls[i].named, pieces |-> HeardOf(i)]
      BY <1>1
    <3>2. answer.calls[i].named \in BOOLEAN /\ HeardOf(i) \in Nat
      BY <1>3, <1>4
    <3> QED BY <3>1, <3>2
  <2>4. DOMAIN client.tools \subseteq DOMAIN answer.calls
    BY <1>1, <1>4
  <2> QED BY <2>1, <2>2, <2>3, <2>4 DEF Reading
<1>6. \A i \in Heard : Readable(client.tools, i) => client.tools[i].pieces \in {0, answer.calls[i].pieces}
  BY DEF Readable
<1> QED BY <1>1, <1>2, <1>4, <1>5, <1>6

\* Of an answer that can be used and was read to its end every call is there.
LEMMA AllHeard ==
  ASSUME StreamInd, client.open, Usable
  PROVE  /\ Heard = DOMAIN answer.calls /\ (sent.text <=> answer.text)
         /\ \A i \in Heard : client.tools[i].pieces = answer.calls[i].pieces
         /\ Unnamed(client.tools) = {} /\ Unreadable(client.tools) = {}
<1> USE DEF StreamInd
<1>1. /\ DOMAIN client.tools = Heard
      /\ \A i \in Heard : /\ i \in DOMAIN answer.calls
                          /\ client.tools[i] = [named |-> answer.calls[i].named, pieces |-> HeardOf(i)]
  BY ReadSoFar
<1>2. Owed = {} /\ ~SnapshotDue /\ (sent.text <=> answer.text)
  BY DEF Usable, AllSent, TextDue, ShownSoFar, StreamTypeOK
<1>3. \A i \in DOMAIN answer.calls : answer.calls[i].pieces \in Nat /\ sent.told[i] \in Nat
                                     /\ sent.told[i] <= answer.calls[i].pieces + 1
  BY DEF StreamTypeOK, EntriesAsSent
<1>4. Heard = DOMAIN answer.calls /\ \A i \in Heard : HeardOf(i) = answer.calls[i].pieces
  <2>1. CASE answer.style = "snapshot"
    <3>1. sent.snapshot /\ answer.delta
      BY <1>2, <2>1 DEF SnapshotDue, Usable
    <3> QED BY <2>1, <3>1 DEF Heard, HeardOf
  <2>2. CASE answer.style # "snapshot"
    <3>1. \A i \in DOMAIN answer.calls : sent.told[i] = answer.calls[i].pieces + 1
      BY <1>2, <1>3, <2>2 DEF Owed
    <3> QED BY <1>3, <2>2, <3>1 DEF Heard, HeardOf
  <2> QED BY <2>1, <2>2
<1>5. \A i \in Heard : client.tools[i].pieces = answer.calls[i].pieces /\ (answer.calls[i].named => client.tools[i].named)
  <2> SUFFICES ASSUME NEW i \in Heard
               PROVE  client.tools[i].pieces = answer.calls[i].pieces /\ (answer.calls[i].named => client.tools[i].named)
    OBVIOUS
  <2>1. client.tools[i] = [named |-> answer.calls[i].named, pieces |-> answer.calls[i].pieces]
    BY <1>1, <1>4
  <2> QED BY <2>1
<1>6. \A i \in DOMAIN answer.calls : answer.calls[i].named /\ (~answer.calls[i].broken \/ answer.calls[i].pieces = 0)
  BY DEF Usable, Makeable
<1>7. Unnamed(client.tools) = {}
  BY <1>1, <1>5, <1>6 DEF Unnamed
<1>8. Unreadable(client.tools) = {}
  BY <1>1, <1>5, <1>6 DEF Unreadable, Readable
<1> QED BY <1>2, <1>4, <1>5, <1>7, <1>8

\* All the calls of an answer, in their order, are the answer's.
LEMMA WholeBatch ==
  ASSUME StreamInd, client.open, Usable, NEW b,
         b = CallsOf(client.tools, DOMAIN client.tools)
  PROVE  b = [i \in DOMAIN answer.calls |-> Meant(i)]
<1>1. DOMAIN client.tools = 1..Len(answer.calls) /\ DOMAIN answer.calls = 1..Len(answer.calls) /\ Len(answer.calls) \in Nat
  BY ReadSoFar, AllHeard
<1>2. /\ Cardinality(1..Len(answer.calls)) = Len(answer.calls)
      /\ InOrder(1..Len(answer.calls)) = [n \in 1..Len(answer.calls) |-> n]
  BY <1>1, InOrderOfAll
<1>3. \A i \in 1..Len(answer.calls) : client.tools[i].pieces = answer.calls[i].pieces
  BY <1>1, AllHeard, ReadSoFar
<1>4. b = [n \in 1..Len(answer.calls) |-> CallOf(client.tools, n)]
  BY <1>1, <1>2 DEF CallsOf
<1> QED BY <1>1, <1>3, <1>4 DEF CallOf, Meant

LEMMA OpenAiEndInd ==
  ASSUME StreamInd, EndOfStream, answer.client = "openai"
  PROVE  StreamInd'
<1> USE DEF StreamInd
<1> DEFINE end == OpenAiEnd(client)
           bad == Unnamed(client.tools) \cup Unreadable(client.tools)
           read == CallsOf(client.tools, DOMAIN client.tools)
<1>1. client.open /\ UNCHANGED <<answer, sent, cut>> /\ client' = Closed(client, end)
  BY DEF EndOfStream, EndOf
<1>2. Reading(client) /\ DOMAIN client.tools = Heard
  BY <1>1, ReadSoFar
<1>3. /\ end \in Seq(Chunks) /\ {"text", "reasoning"} \cap Kinds(end) = {}
      /\ bad # {} => Issues(end, <<>>) /\ ({"empty", "refused"} \cap Kinds(end) # {})
      /\ bad = {} => /\ Issues(end, CallsOf(client.tools, DOMAIN client.tools))
                     /\ IF DOMAIN client.tools # {} \/ client.text THEN {"empty", "refused"} \cap Kinds(end) = {}
                        ELSE {"empty", "refused"} \cap Kinds(end) # {}
                     /\ DOMAIN client.tools # {} => "calls" \in Kinds(end)
  BY <1>2, OpenAiEnds
<1>4a. BatchOf(read, client.tools, DOMAIN client.tools)
  <2>1. DOMAIN client.tools \in SUBSET DOMAIN client.tools
    OBVIOUS
  <2> QED BY <1>2, <2>1, CallsAreABatch
<1>4b. <<>> \in Seq(Batch) /\ read \in Seq(Batch)
  BY <1>4a DEF BatchOf
<1>4c. PICK b \in Seq(Batch) : b = IF bad = {} THEN read ELSE <<>>
  BY <1>4b
<1>4. Issues(end, b)
  BY <1>3, <1>4c
<1>5. bad = {} => /\ \A n \in DOMAIN b : b[n].call \in DOMAIN client.tools /\ b[n] = CallOf(client.tools, b[n].call)
                  /\ \A i \in DOMAIN client.tools : \E n \in DOMAIN b : b[n].call = i
                  /\ \A m, n \in DOMAIN b : m < n => b[m].call < b[n].call
  <2> HIDE DEF read, bad
  <2> QED BY <1>4a, <1>4c DEF BatchOf
<1>6. bad # {} => b = <<>>
  BY <1>4c
<1>7. bad = {} => b = CallsOf(client.tools, DOMAIN client.tools)
  BY <1>4c
<1>8. bad = {} => \A i \in Heard : Readable(client.tools, i)
  BY <1>2 DEF Unreadable
<1>9. \A i \in Heard : Readable(client.tools, i) => client.tools[i].pieces \in {0, answer.calls[i].pieces}
  BY <1>1, ReadSoFar
<1>10. Usable => bad = {} /\ Heard = DOMAIN answer.calls /\ (sent.text <=> answer.text)
  BY <1>1, AllHeard
<1>11. Usable => b = [i \in DOMAIN answer.calls |-> Meant(i)]
  BY <1>1, <1>7, <1>10, WholeBatch
<1>12. DOMAIN answer.calls = {} => answer.calls = <<>>
  BY <1>1, ReadSoFar DEF StreamTypeOK
<1> HIDE DEF end, read, bad
<1>13. /\ StreamTypeOK' /\ EntriesAsSent' /\ ShownSoFar'
       /\ client'.tools = client.tools /\ ~client'.open
       /\ Kinds(client'.out) = Kinds(client.out) \cup Kinds(end) /\ Issues(client'.out, b)
  BY <1>1, <1>3, <1>4, StoppedKeeps
<1>14. /\ Kinds(client.out) \subseteq {"reasoning", "text"} /\ ("text" \in Kinds(client.out) <=> sent.text)
       /\ client.text = sent.text
  BY <1>1 DEF ShownSoFar
<1>15. \A n \in DOMAIN b : b[n].pieces \in {0, answer.calls[b[n].call].pieces}
  BY <1>2, <1>5, <1>6, <1>8, <1>9 DEF CallOf
<1>16. \E k \in Kinds(client'.out) : k # "reasoning" /\ k # "usage"
  <2>1. CASE bad # {}
    BY <1>3, <1>13, <2>1
  <2>2. CASE bad = {} /\ DOMAIN client.tools # {}
    BY <1>3, <1>13, <2>2
  <2>3. CASE bad = {} /\ DOMAIN client.tools = {} /\ client.text
    BY <1>13, <1>14, <2>3
  <2>4. CASE bad = {} /\ DOMAIN client.tools = {} /\ ~client.text
    BY <1>3, <1>13, <2>4
  <2> QED BY <2>1, <2>2, <2>3, <2>4
<1>17. ASSUME Usable
       PROVE  /\ "refused" \in Kinds(client'.out) => answer.calls = <<>> /\ ~answer.text
              /\ answer.text <=> "text" \in Kinds(client'.out)
              /\ "empty" \in Kinds(client'.out) => answer.calls = <<>> /\ ~answer.text
  <2>1. "refused" \in Kinds(client'.out) \/ "empty" \in Kinds(client'.out) => {"empty", "refused"} \cap Kinds(end) # {}
    BY <1>13, <1>14
  <2>2. {"empty", "refused"} \cap Kinds(end) # {} => DOMAIN client.tools = {} /\ ~client.text
    BY <1>3, <1>10, <1>17
  <2>3. answer.text <=> "text" \in Kinds(client'.out)
    BY <1>3, <1>10, <1>13, <1>14, <1>17
  <2> QED BY <1>2, <1>10, <1>12, <1>14, <1>17, <2>1, <2>2, <2>3
<1>18. Usable' <=> Usable
  BY <1>1 DEF Usable, AllSent, ReasoningDue, TextDue, SnapshotDue, Owed, Makeable
<1>19. \A i : Meant(i)' = Meant(i)
  BY <1>1 DEF Meant
<1>20. Reports(b)'
  BY <1>1, <1>5, <1>6, <1>11, <1>13, <1>15, <1>16, <1>17, <1>18, <1>19 DEF Reports
<1> QED BY <1>13, <1>20 DEF Reported

LEMMA AnthropicEndInd ==
  ASSUME StreamInd, EndOfStream, answer.client = "anthropic"
  PROVE  StreamInd'
<1> USE DEF StreamInd
<1> DEFINE end == AnthropicEnd(client)
           named == DOMAIN client.tools \ Unnamed(client.tools)
<1>1. client.open /\ UNCHANGED <<answer, sent, cut>> /\ client' = Closed(client, end)
  BY DEF EndOfStream, EndOf
<1>2. Reading(client) /\ DOMAIN client.tools = Heard
  BY <1>1, ReadSoFar
<1>3. /\ end \in Seq(Chunks)
      /\ {"text", "reasoning", "usage", "error", "refused"} \cap Kinds(end) = {}
      /\ named # {} => "calls" \in Kinds(end) /\ "empty" \notin Kinds(end)
      /\ client.text => "empty" \notin Kinds(end)
      /\ named = {} /\ ~client.text => "empty" \in Kinds(end)
  BY <1>2, AnthropicEnds
<1>4a. PICK b \in Seq(Batch) : Issues(end, b) /\ MendedBatchOf(b, client.tools, named)
  BY <1>2, AnthropicEnds
<1>4. /\ Issues(end, b) /\ DOMAIN b = 1..Cardinality(named)
      /\ \A n \in DOMAIN b :
           /\ b[n].call \in named /\ b[n].call = InOrder(named)[n]
           /\ b[n] = IF Readable(client.tools, b[n].call) THEN CallOf(client.tools, b[n].call)
                     ELSE [call |-> b[n].call, pieces |-> 0]
      /\ \A m, n \in DOMAIN b : m < n => b[m].call < b[n].call
  BY <1>4a DEF MendedBatchOf
<1>5. \A i \in Heard : Readable(client.tools, i) => client.tools[i].pieces \in {0, answer.calls[i].pieces}
  BY <1>1, ReadSoFar
<1>6. \A n \in DOMAIN b : b[n].pieces \in {0, answer.calls[b[n].call].pieces}
  <2> SUFFICES ASSUME NEW n \in DOMAIN b PROVE b[n].pieces \in {0, answer.calls[b[n].call].pieces}
    OBVIOUS
  <2>1. b[n].call \in Heard
    BY <1>2, <1>4
  <2>2. CASE Readable(client.tools, b[n].call)
    <3>1. b[n] = CallOf(client.tools, b[n].call)
      BY <1>4, <2>2
    <3>2. b[n].pieces = client.tools[b[n].call].pieces
      BY <3>1 DEF CallOf
    <3> QED BY <1>5, <2>1, <2>2, <3>2
  <2>3. CASE ~Readable(client.tools, b[n].call)
    <3>1. b[n] = [call |-> b[n].call, pieces |-> 0]
      BY <1>4, <2>3
    <3>2. b[n].pieces = 0
      BY <3>1
    <3> QED BY <3>2
  <2> QED BY <2>2, <2>3
<1>7. Usable => /\ Heard = DOMAIN answer.calls /\ (sent.text <=> answer.text) /\ named = Heard
                /\ \A i \in Heard : client.tools[i].pieces = answer.calls[i].pieces
                /\ \A i \in Heard : Readable(client.tools, i)
  <2> SUFFICES ASSUME Usable
               PROVE  /\ Heard = DOMAIN answer.calls /\ (sent.text <=> answer.text) /\ named = Heard
                      /\ \A i \in Heard : client.tools[i].pieces = answer.calls[i].pieces
                      /\ \A i \in Heard : Readable(client.tools, i)
    OBVIOUS
  <2>1. /\ Heard = DOMAIN answer.calls /\ (sent.text <=> answer.text)
        /\ \A i \in Heard : client.tools[i].pieces = answer.calls[i].pieces
        /\ Unnamed(client.tools) = {} /\ Unreadable(client.tools) = {}
    BY <1>1, AllHeard
  <2> QED BY <1>2, <2>1 DEF Unreadable
<1>8. Usable => b = [i \in DOMAIN answer.calls |-> Meant(i)]
  <2> SUFFICES ASSUME Usable PROVE b = [i \in DOMAIN answer.calls |-> Meant(i)]
    OBVIOUS
  <2>1. DOMAIN answer.calls = 1..Len(answer.calls) /\ Len(answer.calls) \in Nat /\ named = 1..Len(answer.calls)
    BY <1>1, <1>7, ReadSoFar
  <2> HIDE DEF named
  <2>a. Cardinality(1..Len(answer.calls)) = Len(answer.calls)
    BY <2>1, InOrderOfAll
  <2>2. DOMAIN b = 1..Len(answer.calls)
    BY <1>4, <2>1, <2>a
  <2>3. \A n \in DOMAIN b : b[n].call = n
    BY <1>4, <2>1, <2>2, InOrderOfAll
  <2>4. \A n \in DOMAIN b : b[n] = Meant(n)
    <3> SUFFICES ASSUME NEW n \in DOMAIN b PROVE b[n] = Meant(n)
      OBVIOUS
    <3>1. n \in Heard /\ b[n].call = n
      BY <1>7, <2>1, <2>2, <2>3
    <3> QED BY <1>4, <1>7, <3>1 DEF CallOf, Meant
  <2> QED BY <2>1, <2>2, <2>4
<1>9. DOMAIN answer.calls = {} => answer.calls = <<>>
  BY <1>1, ReadSoFar DEF StreamTypeOK
<1> HIDE DEF end, named
<1>10. /\ StreamTypeOK' /\ EntriesAsSent' /\ ShownSoFar'
       /\ client'.tools = client.tools /\ ~client'.open
       /\ Kinds(client'.out) = Kinds(client.out) \cup Kinds(end) /\ Issues(client'.out, b)
  BY <1>1, <1>3, <1>4, StoppedKeeps
<1>11. /\ Kinds(client.out) \subseteq {"reasoning", "text"} /\ ("text" \in Kinds(client.out) <=> sent.text)
       /\ client.text = sent.text
  BY <1>1 DEF ShownSoFar
<1>12. \E k \in Kinds(client'.out) : k # "reasoning" /\ k # "usage"
  <2>1. CASE named # {}
    BY <1>3, <1>10, <2>1
  <2>2. CASE client.text
    BY <1>10, <1>11, <2>2
  <2>3. CASE named = {} /\ ~client.text
    BY <1>3, <1>10, <2>3
  <2> QED BY <2>1, <2>2, <2>3
<1>13. ASSUME Usable
       PROVE  /\ "refused" \in Kinds(client'.out) => answer.calls = <<>> /\ ~answer.text
              /\ answer.text <=> "text" \in Kinds(client'.out)
              /\ "empty" \in Kinds(client'.out) => answer.calls = <<>> /\ ~answer.text
  BY <1>3, <1>7, <1>9, <1>10, <1>11, <1>13
<1>14. Usable' <=> Usable
  BY <1>1 DEF Usable, AllSent, ReasoningDue, TextDue, SnapshotDue, Owed, Makeable
<1>15. \A i : Meant(i)' = Meant(i)
  BY <1>1 DEF Meant
<1>16. Reports(b)'
  BY <1>1, <1>4, <1>6, <1>8, <1>10, <1>12, <1>13, <1>14, <1>15 DEF Reports
<1> QED BY <1>10, <1>16 DEF Reported

LEMMA JsonEndInd ==
  ASSUME StreamInd, EndOfStream, answer.client = "json"
  PROVE  StreamInd'
<1> USE DEF StreamInd
<1> DEFINE end == JsonEnd(client)
           named == DOMAIN client.tools \ Unnamed(client.tools)
           bad == named \cap Unreadable(client.tools)
           read == CallsOf(client.tools, named)
<1>1. client.open /\ UNCHANGED <<answer, sent, cut>> /\ client' = Closed(client, end)
  BY DEF EndOfStream, EndOf
<1>2. Reading(client) /\ DOMAIN client.tools = Heard
  BY <1>1, ReadSoFar
<1>3. /\ end \in Seq(Chunks) /\ {"text", "reasoning", "error", "refused"} \cap Kinds(end) = {}
      /\ bad # {} => Issues(end, <<>>)
      /\ bad = {} => Issues(end, CallsOf(client.tools, named))
      /\ bad = {} /\ "empty" \in Kinds(end) => named = {} /\ client.out = <<>>
  BY <1>2, JsonEnds
<1>4. named \in SUBSET DOMAIN client.tools
  OBVIOUS
<1>5a. BatchOf(read, client.tools, named)
  <2> HIDE DEF named
  <2> QED BY <1>2, <1>4, CallsAreABatch
<1>5b. <<>> \in Seq(Batch) /\ read \in Seq(Batch)
  BY <1>5a DEF BatchOf
<1>5c. PICK b \in Seq(Batch) : b = IF bad = {} THEN read ELSE <<>>
  BY <1>5b
<1>5. bad = {} => /\ \A n \in DOMAIN b : b[n].call \in named /\ b[n] = CallOf(client.tools, b[n].call)
                  /\ \A m, n \in DOMAIN b : m < n => b[m].call < b[n].call
  <2> HIDE DEF read, bad, named
  <2> QED BY <1>5a, <1>5c DEF BatchOf
<1>6. Issues(end, b) /\ (bad # {} => b = <<>>) /\ (bad = {} => b = CallsOf(client.tools, named))
  <2> HIDE DEF bad
  <2> QED BY <1>3, <1>5c
<1>7. bad = {} => \A i \in named : i \in Heard /\ Readable(client.tools, i)
  BY <1>2 DEF Unreadable
<1>8. \A i \in Heard : Readable(client.tools, i) => client.tools[i].pieces \in {0, answer.calls[i].pieces}
  BY <1>1, ReadSoFar
<1>9. Usable => bad = {} /\ named = Heard /\ Heard = DOMAIN answer.calls /\ (sent.text <=> answer.text)
  BY <1>1, <1>2, AllHeard
<1>10. Usable => b = [i \in DOMAIN answer.calls |-> Meant(i)]
  BY <1>1, <1>2, <1>6, <1>9, WholeBatch
<1>11. DOMAIN answer.calls = {} => answer.calls = <<>>
  BY <1>1, ReadSoFar DEF StreamTypeOK
<1> HIDE DEF end, read, bad, named
<1>12. /\ StreamTypeOK' /\ EntriesAsSent' /\ ShownSoFar'
       /\ client'.tools = client.tools /\ ~client'.open
       /\ Kinds(client'.out) = Kinds(client.out) \cup Kinds(end) /\ Issues(client'.out, b)
  BY <1>1, <1>3, <1>6, StoppedKeeps
<1>13. Kinds(client.out) \subseteq {"reasoning", "text"} /\ ("text" \in Kinds(client.out) <=> sent.text)
  BY <1>1 DEF ShownSoFar
<1>14. \A n \in DOMAIN b : b[n].pieces \in {0, answer.calls[b[n].call].pieces}
  BY <1>5, <1>6, <1>7, <1>8 DEF CallOf
<1>15. ASSUME Usable
       PROVE  /\ "refused" \in Kinds(client'.out) => answer.calls = <<>> /\ ~answer.text
              /\ answer.text <=> "text" \in Kinds(client'.out)
              /\ "empty" \in Kinds(client'.out) => answer.calls = <<>> /\ ~answer.text
  <2>1. client.out = <<>> => ~sent.text
    BY <1>13 DEF Kinds
  <2> QED BY <1>3, <1>9, <1>11, <1>12, <1>13, <1>15, <2>1
<1>16. Usable' <=> Usable
  BY <1>1 DEF Usable, AllSent, ReasoningDue, TextDue, SnapshotDue, Owed, Makeable
<1>17. \A i : Meant(i)' = Meant(i)
  BY <1>1 DEF Meant
<1>18. Reports(b)'
  BY <1>1, <1>5, <1>6, <1>10, <1>12, <1>14, <1>15, <1>16, <1>17 DEF Reports
<1> QED BY <1>6, <1>12, <1>18 DEF Reported

LEMMA StreamStepInd == StreamInd /\ [StreamNext]_streamVars => StreamInd'
<1> SUFFICES ASSUME StreamInd, [StreamNext]_streamVars PROVE StreamInd'
  OBVIOUS
<1>1. CASE TakeFrame
  BY <1>1, TakeFrameInd
<1>2. CASE CutAtLimit \/ SayWhy \/ SayUsage
  BY <1>2, SaidInd
<1>3. CASE EndOfStream
  <2>1. answer.client \in {"openai", "anthropic", "json"}
    BY DEF StreamInd, StreamTypeOK
  <2> QED BY <1>3, <2>1, OpenAiEndInd, AnthropicEndInd, JsonEndInd
<1>4. CASE StreamFails
  BY <1>4, StreamFailsInd
<1>5. CASE UNCHANGED streamVars
  <2>1. answer' = answer /\ sent' = sent /\ cut' = cut /\ client' = client
    BY <1>5 DEF streamVars
  <2>2. StreamTypeOK' /\ ShownSoFar'
    BY <2>1 DEF StreamInd, StreamTypeOK, ShownSoFar
  <2>3. Heard' = Heard /\ \A i : HeardOf(i)' = HeardOf(i)
    BY <2>1 DEF Heard, HeardOf
  <2>4. EntriesAsSent'
    BY <2>1, <2>3 DEF StreamInd, EntriesAsSent
  <2>5. Usable' = Usable /\ \A i : Meant(i)' = Meant(i)
    BY <2>1 DEF Usable, AllSent, ReasoningDue, TextDue, SnapshotDue, Owed, Makeable, Meant
  <2>6. ASSUME NEW b, Reports(b) PROVE Reports(b)'
    BY <2>1, <2>5, <2>6 DEF Reports
  <2>7. Reported'
    BY <2>6 DEF StreamInd, Reported
  <2> QED BY <2>2, <2>4, <2>7 DEF StreamInd
<1> QED BY <1>1, <1>2, <1>3, <1>4, <1>5 DEF StreamNext

\* Whatever the server sends, wherever it stops and however its gateway sends the
\* calls: a call is issued once, whole and in its place, an OpenAI client issues all
\* of them or none, an answer that came whole is issued whole, and no stream ends
\* without a word (openai_compat.rs:289, anthropic.rs:192).
THEOREM AnswersAreRead == StreamSpec => []StreamSafety
<1>1. StreamInit => StreamInd
  BY StreamInitInd
<1>2. StreamInd /\ [StreamNext]_streamVars => StreamInd'
  BY StreamStepInd
<1>3. StreamInd => StreamSafety
  BY ReportedIsSafe
<1> QED BY <1>1, <1>2, <1>3, PTL DEF StreamSpec
=============================================================================
