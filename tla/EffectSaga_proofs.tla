------------------------- MODULE EffectSaga_proofs --------------------------
(***************************************************************************)
(* Proofs about EffectSaga for every set of proposals, checkpoints, keys   *)
(* and callers, and any number of crashes.  What concerns approvals and    *)
(* the binding of a key holds however many callers are at work on it; that *)
(* compensations are recorded in the right order needs one worker for each *)
(* key at a time, which is how a task is worked on.                        *)
(*                                                                         *)
(* The second half is about AgentLoop, for every set of files, graph of    *)
(* work items, budget, limit of admitted reads and number of resumptions.  *)
(***************************************************************************)
EXTENDS EffectSaga, AgentLoop, NaturalsInduction, WellFoundedInduction,
        FiniteSetTheorems, SequenceTheorems, TLAPS

USE EffectAssumption

Approves(p) ==
  \E c \in Checkpoints : ApprovedFor(c, "IrreversibleEffect", p.action, p.payload)

\* A caller that has begun has a proposal, and past the gate it is the one
\* that the journal binds its key to.
CallersBound ==
  \A a \in Callers :
    /\ caller[a].pc = "idle" => caller[a] = Idle
    /\ caller[a].pc # "idle" => caller[a].proposal \in Proposals
    /\ caller[a].pc = "confirmed" => Approves(caller[a].proposal)
    /\ caller[a].pc \in {"cleared", "acted", "undoing", "undid"} =>
         LET k == caller[a].proposal.key
         IN  effects[k] # Nobody /\ effects[k].proposal = caller[a].proposal

\* What the journal holds went through the gate.
EntriesGated ==
  \A k \in EffectKeys : effects[k] # Nobody =>
    /\ effects[k].proposal.key = k
    /\ effects[k].proposal.class = "Irreversible" => Approves(effects[k].proposal)

\* The inductive invariant of the approvals.
GateInv == EffectTypeOK /\ CallersBound /\ EntriesGated /\ KeyOfOneEffect /\ SelectionApproved

-----------------------------------------------------------------------------
\* A new entry is not Nobody.
LEMMA NewEntry ==
  ASSUME NEW p \in Proposals, NEW s \in States
  PROVE  /\ [proposal |-> p, state |-> s] \in Entries
         /\ [proposal |-> p, state |-> s] # Nobody
<1>1. [proposal |-> p, state |-> s] \in Entries
  BY DEF Entries
<1> QED BY <1>1

LEMMA KeyOf == ASSUME NEW p \in Proposals PROVE p.key \in EffectKeys
BY DEF EffectKeys

LEMMA GateInit == EffectInit => GateInv
<1> SUFFICES ASSUME EffectInit PROVE GateInv OBVIOUS
<1>1. EffectTypeOK
  BY DEF EffectInit, EffectTypeOK, Idle
<1>2. CallersBound /\ EntriesGated /\ KeyOfOneEffect /\ SelectionApproved
  BY DEF EffectInit, CallersBound, EntriesGated, KeyOfOneEffect, SelectionApproved, Idle
<1> QED BY <1>1, <1>2 DEF GateInv

-----------------------------------------------------------------------------
(* The decisions: what is approved stays approved, by the same person. *)

DecisionsGrow ==
  \A c \in Checkpoints : decisions[c] # Nobody /\ decisions[c].state = "Approved" =>
    decisions'[c] = decisions[c]

LEMMA RequestStep ==
  ASSUME EffectTypeOK, NEW c \in Checkpoints, NEW kind \in Kinds, NEW s \in Subjects,
         NEW d \in Payloads, RequestDecision(c, kind, s, d)
  PROVE  decisions' \in [Checkpoints -> Decisions \cup {Nobody}] /\ DecisionsGrow
<1> DEFINE new == [kind |-> kind, subject |-> s, digest |-> d, state |-> "Pending", actor |-> Nobody]
<1>1. new \in Decisions
  BY DEF Decisions
<1>2. decisions' = [decisions EXCEPT ![c] = new] /\ decisions[c] = Nobody
  BY DEF RequestDecision
<1> HIDE DEF new
<1> QED BY <1>1, <1>2 DEF EffectTypeOK, DecisionsGrow

LEMMA DecideStep ==
  ASSUME EffectTypeOK, NEW c \in Checkpoints, NEW actor \in Deciders,
         NEW state \in {"Approved", "Rejected"}, Decide(c, actor, state)
  PROVE  decisions' \in [Checkpoints -> Decisions \cup {Nobody}] /\ DecisionsGrow
<1> DEFINE new == [decisions[c] EXCEPT !.state = state, !.actor = actor]
<1>1. decisions[c] \in Decisions
  BY DEF EffectTypeOK, Decide
<1>2. new \in Decisions
  BY <1>1 DEF Decisions
<1>3. decisions' = [decisions EXCEPT ![c] = new]
  BY <1>1 DEF Decide, EffectTypeOK, Decisions
<1>4. decisions[c].state = "Pending"
  BY DEF Decide
<1> HIDE DEF new
<1> QED BY <1>2, <1>3, <1>4 DEF EffectTypeOK, DecisionsGrow

\* Approvals are kept by every step.
LEMMA ApprovalsKept ==
  ASSUME EffectTypeOK, [EffectNext]_effectVars
  PROVE  decisions' \in [Checkpoints -> Decisions \cup {Nobody}] /\ DecisionsGrow
<1>1. CASE UNCHANGED decisions
  BY <1>1 DEF EffectTypeOK, DecisionsGrow
<1>2. CASE \E c \in Checkpoints, kind \in Kinds, s \in Subjects, d \in Payloads :
             RequestDecision(c, kind, s, d)
  BY <1>2, RequestStep
<1>3. CASE \E c \in Checkpoints, actor \in Deciders, state \in {"Approved", "Rejected"} :
             Decide(c, actor, state)
  BY <1>3, DecideStep
<1> QED
  BY <1>1, <1>2, <1>3 DEF EffectNext, effectVars, SelectHitl, PrepareEffect, CheckApproval,
     PrepareConfirmed, Prepare, Act, MarkExecuted, MarkFailed, Mark, PickCompensation, Undo,
     MarkCompensated, EffectCrash

LEMMA ApprovedStays ==
  ASSUME DecisionsGrow, NEW p, Approves(p)
  PROVE  Approves(p)'
BY DEF DecisionsGrow, Approves, ApprovedFor

-----------------------------------------------------------------------------
(* The types, one conjunct at a time. *)

\* What a mark makes of an entry.
LEMMA MarkStep ==
  ASSUME EffectTypeOK, CallersBound, NEW a \in Callers, NEW from \in SUBSET States,
         NEW state \in States, caller[a].pc \in {"cleared", "acted", "undid"},
         Mark(a, from, state)
  PROVE  /\ effects' \in [EffectKeys -> Entries \cup {Nobody}]
         /\ caller' = [caller EXCEPT ![a] = Idle]
         /\ \A k \in EffectKeys :
              /\ effects[k] = Nobody => effects'[k] = Nobody
              /\ effects[k] # Nobody => effects'[k] # Nobody /\ effects'[k].proposal = effects[k].proposal
              /\ k # caller[a].proposal.key => effects'[k] = effects[k]
         /\ LET k == caller[a].proposal.key
            IN  effects'[k].state = IF effects[k].state \in from THEN state ELSE effects[k].state
<1> DEFINE p == caller[a].proposal
           new == [proposal |-> p, state |-> IF effects[p.key].state \in from THEN state ELSE effects[p.key].state]
<1>1. /\ p \in Proposals /\ p.key \in EffectKeys
      /\ effects[p.key] \in Entries /\ effects[p.key].proposal = p
  BY KeyOf DEF CallersBound, EffectTypeOK
<1>2. effects[p.key] = [proposal |-> p, state |-> effects[p.key].state] /\ effects[p.key].state \in States
  BY <1>1 DEF Entries
<1>3. new \in Entries /\ new # Nobody
  BY <1>2, <1>1 DEF Entries
<1>4. effects' = [effects EXCEPT ![p.key] = new]
  <2> DEFINE x == IF effects[p.key].state \in from THEN state ELSE effects[p.key].state
  <2>1. effects' = [effects EXCEPT ![p.key] = [effects[p.key] EXCEPT !.state = x]]
    BY DEF Mark
  <2>2. [effects[p.key] EXCEPT !.state = x] = [proposal |-> p, state |-> x]
    BY <1>2
  <2> QED BY <2>1, <2>2
<1>a. caller' = [caller EXCEPT ![a] = Idle]
  BY DEF Mark
<1>5. new.proposal = p /\ new.state = IF effects[p.key].state \in from THEN state ELSE effects[p.key].state
  OBVIOUS
<1> HIDE DEF new
<1> QED BY <1>1, <1>3, <1>4, <1>a, <1>5 DEF EffectTypeOK

\* What prepare makes of the journal and of its caller.
LEMMA PrepareStep ==
  ASSUME EffectTypeOK, NEW a \in Callers, NEW p \in Proposals, NEW confirmed \in BOOLEAN,
         Prepare(a, p, confirmed)
  PROVE  \/ /\ effects' = effects
            /\ caller' = [caller EXCEPT ![a] = Idle]
         \/ /\ effects[p.key] \in Entries /\ effects[p.key].proposal = p
            /\ effects[p.key].state \in {"Prepared", "Failed"}
            /\ effects' = effects
            /\ caller' = [caller EXCEPT ![a] = [pc |-> "cleared", proposal |-> p]]
         \/ /\ effects[p.key] = Nobody /\ GateAllows(p, confirmed)
            /\ effects' = [effects EXCEPT ![p.key] = [proposal |-> p, state |-> "Prepared"]]
            /\ caller' = [caller EXCEPT ![a] = [pc |-> "cleared", proposal |-> p]]
<1>1. p.key \in EffectKeys
  BY KeyOf
<1>2. CASE ~Authorized(p, confirmed)
  BY <1>2 DEF Prepare
<1>3. CASE Authorized(p, confirmed) /\ effects[p.key] # Nobody
  <2>1. effects' = effects
    BY <1>1, <1>3 DEF Prepare, EffectTypeOK
  <2> QED BY <1>1, <1>3, <2>1 DEF Prepare, Authorized, EffectTypeOK
<1>4. CASE Authorized(p, confirmed) /\ effects[p.key] = Nobody
  BY <1>1, <1>4 DEF Prepare, Authorized, EffectTypeOK
<1> QED BY <1>2, <1>3, <1>4

\* How a step may change the journal, whoever takes it.
JournalGrows ==
  \A k \in EffectKeys : effects[k] # Nobody =>
    effects'[k] # Nobody /\ effects'[k].proposal = effects[k].proposal

CallerRecords == [pc : {"idle", "confirmed", "cleared", "acted", "undoing", "undid"},
                  proposal : Proposals \cup {Nobody}]

\* What a step has to keep of the journal and of the callers.
Journal ==
  /\ effects \in [EffectKeys -> Entries \cup {Nobody}] /\ caller \in [Callers -> CallerRecords]
  /\ CallersBound /\ EntriesGated

\* One caller changes, and is bound by the new journal as it must be.
LEMMA CallerStep ==
  ASSUME EffectTypeOK, CallersBound, DecisionsGrow, JournalGrows,
         NEW a \in Callers, NEW r \in CallerRecords, caller' = [caller EXCEPT ![a] = r],
         r.pc = "idle" => r = Idle,
         r.pc # "idle" => r.proposal \in Proposals,
         r.pc = "confirmed" => Approves(r.proposal),
         r.pc \in {"cleared", "acted", "undoing", "undid"} =>
           effects'[r.proposal.key] # Nobody /\ effects'[r.proposal.key].proposal = r.proposal
  PROVE  caller' \in [Callers -> CallerRecords] /\ CallersBound'
<1>1. caller' \in [Callers -> CallerRecords]
  BY DEF EffectTypeOK, CallerRecords
<1>2. ASSUME NEW b \in Callers
      PROVE  /\ caller'[b].pc = "idle" => caller'[b] = Idle
             /\ caller'[b].pc # "idle" => caller'[b].proposal \in Proposals
             /\ caller'[b].pc = "confirmed" => Approves(caller'[b].proposal)
             /\ caller'[b].pc \in {"cleared", "acted", "undoing", "undid"} =>
                  /\ effects'[caller'[b].proposal.key] # Nobody
                  /\ effects'[caller'[b].proposal.key].proposal = caller'[b].proposal
  <2>1. CASE b = a
    <3>1. caller'[b] = r
      BY <2>1 DEF EffectTypeOK
    <3> QED BY <3>1
  <2>2. CASE b # a
    <3>1. caller'[b] = caller[b]
      BY <2>2 DEF EffectTypeOK
    <3>2. caller[b].proposal \in Proposals => caller[b].proposal.key \in EffectKeys
      BY KeyOf
    <3>3. caller[b].pc \in {"cleared", "acted", "undoing", "undid"} => caller[b].proposal \in Proposals
      BY DEF CallersBound
    <3> QED BY <3>1, <3>2, <3>3 DEF CallersBound, JournalGrows
  <2> QED BY <2>1, <2>2
<1>3. \A p : Approves(p) => Approves(p)'
  BY ApprovedStays
<1>4. CallersBound'
  BY <1>2, <1>3 DEF CallersBound, Approves
<1> QED BY <1>1, <1>4

\* A step of the journal that keeps every entry but for its state.
LEMMA EntriesStep ==
  ASSUME EntriesGated, DecisionsGrow, JournalGrows,
         \A k \in EffectKeys : effects[k] = Nobody => effects'[k] = Nobody
  PROVE  EntriesGated'
<1>1. \A p : Approves(p) => Approves(p)'
  BY ApprovedStays
<1>2. \A k \in EffectKeys : effects'[k] # Nobody =>
        effects[k] # Nobody /\ effects'[k].proposal = effects[k].proposal
  BY DEF JournalGrows
<1> QED BY <1>1, <1>2 DEF EntriesGated

LEMMA SameJournal ==
  ASSUME EffectTypeOK, EntriesGated, DecisionsGrow, effects' = effects
  PROVE  /\ effects' \in [EffectKeys -> Entries \cup {Nobody}]
         /\ JournalGrows /\ EntriesGated'
<1>1. JournalGrows
  BY DEF JournalGrows
<1> QED BY <1>1, EntriesStep DEF EffectTypeOK

LEMMA JournalOfPrepare ==
  ASSUME EffectTypeOK, CallersBound, EntriesGated, DecisionsGrow,
         NEW a \in Callers, NEW p \in Proposals, NEW confirmed \in BOOLEAN,
         Prepare(a, p, confirmed), confirmed => Approves(p)
  PROVE  Journal' /\ JournalGrows
<1>0. p.key \in EffectKeys
  BY KeyOf
<1> DEFINE cleared == [pc |-> "cleared", proposal |-> p]
<1>1. Idle \in CallerRecords /\ cleared \in CallerRecords
  BY DEF Idle, CallerRecords
<1>2. CASE effects' = effects /\ caller' = [caller EXCEPT ![a] = Idle]
  <2>1. Idle.pc = "idle"
    BY DEF Idle
  <2> QED BY <1>1, <1>2, <2>1, SameJournal, CallerStep DEF Journal
<1>3. CASE /\ effects[p.key] \in Entries /\ effects[p.key].proposal = p
           /\ effects' = effects
           /\ caller' = [caller EXCEPT ![a] = cleared]
  <2>1. effects'[p.key] # Nobody /\ effects'[p.key].proposal = p
    BY <1>3
  <2>2. cleared.pc = "cleared" /\ cleared.proposal = p
    OBVIOUS
  <2> HIDE DEF cleared
  <2> QED BY <1>1, <1>3, <2>1, <2>2, SameJournal, CallerStep DEF Journal
<1>4. CASE /\ effects[p.key] = Nobody /\ GateAllows(p, confirmed)
           /\ effects' = [effects EXCEPT ![p.key] = [proposal |-> p, state |-> "Prepared"]]
           /\ caller' = [caller EXCEPT ![a] = cleared]
  <2> DEFINE new == [proposal |-> p, state |-> "Prepared"]
  <2>1. new \in Entries /\ new # Nobody /\ new.proposal = p
    BY NewEntry DEF States
  <2>2. effects' = [effects EXCEPT ![p.key] = new]
    BY <1>4
  <2>3. cleared.pc = "cleared" /\ cleared.proposal = p
    OBVIOUS
  <2>4. p.class = "Irreversible" => Approves(p)
    BY <1>4 DEF GateAllows
  <2> HIDE DEF new, cleared
  <2>5. effects' \in [EffectKeys -> Entries \cup {Nobody}]
    BY <1>0, <2>1, <2>2 DEF EffectTypeOK
  <2>a. \A k \in EffectKeys : k # p.key => effects'[k] = effects[k]
    BY <2>2 DEF EffectTypeOK
  <2>b. JournalGrows
    BY <1>4, <2>a DEF JournalGrows
  <2>6. effects'[p.key] # Nobody /\ effects'[p.key].proposal = p
    BY <1>0, <2>1, <2>2 DEF EffectTypeOK
  <2>7. caller' \in [Callers -> CallerRecords] /\ CallersBound'
    BY <1>1, <1>4, <2>3, <2>b, <2>6, CallerStep
  <2>8. \A q : Approves(q) => Approves(q)'
    BY ApprovedStays
  <2>10. EntriesGated'
    BY <2>4, <2>6, <2>8, <2>a DEF EntriesGated
  <2> QED BY <2>5, <2>b, <2>7, <2>10 DEF Journal
<1> QED BY <1>2, <1>3, <1>4, PrepareStep

LEMMA JournalOfMark ==
  ASSUME EffectTypeOK, CallersBound, EntriesGated, DecisionsGrow,
         NEW a \in Callers, NEW from \in SUBSET States, NEW state \in States,
         caller[a].pc \in {"cleared", "acted", "undid"}, Mark(a, from, state)
  PROVE  Journal' /\ JournalGrows
<1>1. /\ effects' \in [EffectKeys -> Entries \cup {Nobody}]
      /\ caller' = [caller EXCEPT ![a] = Idle]
      /\ \A k \in EffectKeys :
           /\ effects[k] = Nobody => effects'[k] = Nobody
           /\ effects[k] # Nobody => effects'[k] # Nobody /\ effects'[k].proposal = effects[k].proposal
  BY MarkStep
<1>2. JournalGrows
  BY <1>1 DEF JournalGrows
<1>3. EntriesGated'
  BY <1>1, <1>2, EntriesStep
<1>4. Idle \in CallerRecords /\ Idle.pc = "idle"
  BY DEF Idle, CallerRecords
<1>5. caller' \in [Callers -> CallerRecords] /\ CallersBound'
  BY <1>1, <1>2, <1>4, CallerStep
<1> QED BY <1>1, <1>2, <1>3, <1>5 DEF Journal

\* The other steps of a caller leave the journal as it is.
LEMMA JournalOfCaller ==
  ASSUME EffectTypeOK, CallersBound, EntriesGated, DecisionsGrow, NEW a \in Callers,
         \/ \E p \in Proposals, c \in Checkpoints : CheckApproval(a, p, c)
         \/ \E k \in EffectKeys : PickCompensation(a, k)
         \/ Act(a) \/ Undo(a)
  PROVE  Journal' /\ JournalGrows
<1>1. ASSUME NEW q \in Proposals, NEW place \in {"confirmed", "acted", "undoing", "undid"},
             effects' = effects, caller' = [caller EXCEPT ![a] = [pc |-> place, proposal |-> q]],
             place = "confirmed" => Approves(q),
             place # "confirmed" => effects[q.key] # Nobody /\ effects[q.key].proposal = q
      PROVE  Journal' /\ JournalGrows
  <2> DEFINE new == [pc |-> place, proposal |-> q]
  <2>1. new \in CallerRecords /\ new.pc = place /\ new.proposal = q
    BY DEF CallerRecords
  <2>2. caller' = [caller EXCEPT ![a] = new]
    BY <1>1
  <2> HIDE DEF new
  <2> QED BY <1>1, <2>1, <2>2, SameJournal, CallerStep DEF Journal
<1>2. CASE \E p \in Proposals, c \in Checkpoints : CheckApproval(a, p, c)
  BY <1>1, <1>2 DEF CheckApproval, Approves
<1>3. CASE \E k \in EffectKeys : PickCompensation(a, k)
  <2>1. PICK k \in EffectKeys : PickCompensation(a, k)
    BY <1>3
  <2>2. effects[k] # Nobody
    BY <2>1 DEF PickCompensation, PendingCompensations
  <2>3. effects[k] \in Entries
    BY <2>2 DEF EffectTypeOK
  <2>4. effects[k].proposal \in Proposals /\ effects[k].proposal.key = k
    BY <2>2, <2>3 DEF EntriesGated, Entries
  <2> QED BY <1>1, <2>1, <2>2, <2>4 DEF PickCompensation
<1>4. CASE Act(a) \/ Undo(a)
  <2>1. PICK place \in {"acted", "undid"} :
          /\ caller[a].pc \in {"cleared", "undoing"} /\ effects' = effects
          /\ caller' = [caller EXCEPT ![a].pc = place]
    BY <1>4 DEF Act, Undo
  <2>a. caller \in [Callers -> CallerRecords]
    BY DEF EffectTypeOK, CallerRecords
  <2>b. [caller[a] EXCEPT !.pc = place] = [pc |-> place, proposal |-> caller[a].proposal]
    BY <2>a DEF CallerRecords
  <2>c. caller' = [caller EXCEPT ![a] = [caller[a] EXCEPT !.pc = place]]
    BY <2>1
  <2>2. caller' = [caller EXCEPT ![a] = [pc |-> place, proposal |-> caller[a].proposal]]
    BY <2>b, <2>c
  <2>3. /\ caller[a].proposal \in Proposals
        /\ effects[caller[a].proposal.key] # Nobody
        /\ effects[caller[a].proposal.key].proposal = caller[a].proposal
    BY <2>1 DEF CallersBound
  <2> QED BY <1>1, <2>1, <2>2, <2>3
<1> QED BY <1>2, <1>3, <1>4

LEMMA JournalOfCrash ==
  ASSUME EffectTypeOK, EntriesGated, DecisionsGrow, EffectCrash
  PROVE  Journal' /\ JournalGrows
<1>1. effects' = effects /\ caller' = [a \in Callers |-> Idle]
  BY DEF EffectCrash
<1>2. caller' \in [Callers -> CallerRecords] /\ CallersBound'
  BY <1>1 DEF CallersBound, Idle, CallerRecords
<1> QED BY <1>1, <1>2, SameJournal DEF Journal

\* Whoever takes a step, the journal and its callers stay as they must be.
LEMMA JournalStep ==
  ASSUME EffectTypeOK, CallersBound, EntriesGated, [EffectNext]_effectVars
  PROVE  Journal' /\ JournalGrows
<1>0. DecisionsGrow /\ (\A p : Approves(p) => Approves(p)')
  BY ApprovalsKept, ApprovedStays
<1>1. CASE effects' = effects /\ caller' = caller
  <2>1. CallersBound' /\ caller' \in [Callers -> CallerRecords]
    BY <1>0, <1>1 DEF CallersBound, EffectTypeOK, CallerRecords
  <2> QED BY <1>0, <1>1, <2>1, SameJournal DEF Journal
<1>2. ASSUME NEW a \in Callers, NEW p \in Proposals, PrepareEffect(a, p)
      PROVE  Journal' /\ JournalGrows
  BY <1>0, <1>2, JournalOfPrepare DEF PrepareEffect
<1>3. ASSUME NEW a \in Callers, PrepareConfirmed(a)
      PROVE  Journal' /\ JournalGrows
  <2>1. caller[a].proposal \in Proposals /\ Approves(caller[a].proposal)
    BY <1>3 DEF PrepareConfirmed, CallersBound
  <2> QED BY <1>0, <1>3, <2>1, JournalOfPrepare DEF PrepareConfirmed
<1>4. ASSUME NEW a \in Callers, MarkExecuted(a) \/ MarkFailed(a) \/ MarkCompensated(a)
      PROVE  Journal' /\ JournalGrows
  BY <1>0, <1>4, JournalOfMark DEF MarkExecuted, MarkFailed, MarkCompensated, States
<1> QED
  BY <1>0, <1>1, <1>2, <1>3, <1>4, JournalOfCaller, JournalOfCrash
     DEF EffectNext, effectVars, RequestDecision, Decide, SelectHitl

-----------------------------------------------------------------------------
(* The approvals. *)

\* Only Act adds to what happened, and only SelectHitl sets an authority.
LEMMA HappenedStep ==
  ASSUME GateInv, [EffectNext]_effectVars, JournalGrows
  PROVE  happened' \in SUBSET Proposals /\ KeyOfOneEffect'
<1>0. \A p \in happened : effects'[p.key] # Nobody /\ effects'[p.key].proposal = p
  BY KeyOf DEF GateInv, EffectTypeOK, KeyOfOneEffect, JournalGrows
<1>1. CASE happened' = happened
  BY <1>0, <1>1 DEF GateInv, EffectTypeOK, KeyOfOneEffect
<1>2. ASSUME NEW a \in Callers, Act(a)
      PROVE  happened' \in SUBSET Proposals /\ KeyOfOneEffect'
  <2>1. /\ caller[a].proposal \in Proposals
        /\ effects[caller[a].proposal.key] # Nobody
        /\ effects[caller[a].proposal.key].proposal = caller[a].proposal
    BY <1>2 DEF Act, GateInv, CallersBound
  <2>2. happened' = happened \cup {caller[a].proposal} /\ effects' = effects
    BY <1>2 DEF Act
  <2> QED BY <1>0, <2>1, <2>2 DEF GateInv, EffectTypeOK, KeyOfOneEffect
<1> QED
  BY <1>1, <1>2 DEF EffectNext, effectVars, RequestDecision, Decide, SelectHitl, PrepareEffect,
     CheckApproval, PrepareConfirmed, Prepare, MarkExecuted, MarkFailed, Mark,
     PickCompensation, Undo, MarkCompensated, EffectCrash

LEMMA AuthorityStep ==
  ASSUME GateInv, [EffectNext]_effectVars
  PROVE  authority' \in [LogicalKeys -> HumanSelections \cup {Nobody}] /\ SelectionApproved'
<1>0. DecisionsGrow
  BY ApprovalsKept DEF GateInv
<1>1. CASE authority' = authority
  <2>1. \A c \in Checkpoints : \A l, v : ApprovedFor(c, "VersionConvergence", l, v) =>
          ApprovedFor(c, "VersionConvergence", l, v)' /\ decisions'[c].actor = decisions[c].actor
    BY <1>0 DEF ApprovedFor, DecisionsGrow
  <2>2. SelectionApproved'
    BY <1>1, <2>1 DEF GateInv, SelectionApproved
  <2> QED BY <1>1, <2>2 DEF GateInv, EffectTypeOK
<1>2. ASSUME NEW c \in Checkpoints, NEW l \in LogicalKeys, NEW v \in Payloads, NEW actor \in Deciders,
             SelectHitl(l, v, c, actor)
      PROVE  authority' \in [LogicalKeys -> HumanSelections \cup {Nobody}] /\ SelectionApproved'
  <2> DEFINE new == [version |-> v, by |-> actor]
  <2>1. new \in HumanSelections /\ new.version = v /\ new.by = actor
    BY DEF HumanSelections
  <2>2. /\ authority' = [authority EXCEPT ![l] = new] /\ decisions' = decisions
        /\ ApprovedFor(c, "VersionConvergence", l, v) /\ decisions[c].actor = actor
    BY <1>2 DEF SelectHitl
  <2> HIDE DEF new
  <2>3. authority' \in [LogicalKeys -> HumanSelections \cup {Nobody}]
    BY <2>1, <2>2 DEF GateInv, EffectTypeOK
  <2>4. authority'[l] = new /\ \A m \in LogicalKeys : m # l => authority'[m] = authority[m]
    BY <2>2 DEF GateInv, EffectTypeOK
  <2>5. SelectionApproved'
    BY <2>1, <2>2, <2>4 DEF GateInv, SelectionApproved, ApprovedFor
  <2> QED BY <2>3, <2>5
<1> QED
  BY <1>1, <1>2 DEF EffectNext, effectVars, RequestDecision, Decide, PrepareEffect,
     CheckApproval, PrepareConfirmed, Prepare, Act, MarkExecuted, MarkFailed, Mark,
     PickCompensation, Undo, MarkCompensated, EffectCrash

LEMMA WorldStep ==
  ASSUME EffectTypeOK, CallersBound, [EffectNext]_effectVars
  PROVE  world' \in [EffectKeys -> {"never", "in force", "undone"}]
<1>1. CASE world' = world
  BY <1>1 DEF EffectTypeOK
<1>2. CASE \E a \in Callers : Act(a) \/ Undo(a)
  BY <1>2 DEF Act, Undo, EffectTypeOK
<1> QED
  BY <1>1, <1>2 DEF EffectNext, effectVars, RequestDecision, Decide, SelectHitl, PrepareEffect,
     CheckApproval, PrepareConfirmed, Prepare, MarkExecuted, MarkFailed, Mark,
     PickCompensation, MarkCompensated, EffectCrash

LEMMA GateStep ==
  ASSUME GateInv, [EffectNext]_effectVars
  PROVE  GateInv'
<1>1. Journal' /\ JournalGrows
  BY JournalStep DEF GateInv
<1>2. decisions' \in [Checkpoints -> Decisions \cup {Nobody}]
  BY ApprovalsKept DEF GateInv
<1>3. EffectTypeOK'
  BY <1>1, <1>2, HappenedStep, AuthorityStep, WorldStep
     DEF GateInv, EffectTypeOK, Journal, CallerRecords
<1> QED BY <1>1, <1>3, HappenedStep, AuthorityStep DEF GateInv, Journal

\* Whatever the callers do, and however often the process ends: every irreversible
\* effect that took place is approved for its action and its payload.
THEOREM ApprovalsHold ==
  EffectSpec => [](EffectTypeOK /\ KeyOfOneEffect /\ IrreversibleApproved /\ SelectionApproved)
<1>1. GateInv /\ [EffectNext]_effectVars => GateInv'
  BY GateStep
<1>2. GateInv => EffectTypeOK /\ KeyOfOneEffect /\ IrreversibleApproved /\ SelectionApproved
  <2> SUFFICES ASSUME GateInv PROVE IrreversibleApproved
    BY DEF GateInv
  <2>1. ASSUME NEW p \in happened, p.class = "Irreversible" PROVE Approves(p)
    <3>1. p.key \in EffectKeys
      BY KeyOf DEF GateInv, EffectTypeOK
    <3>2. effects[p.key] # Nobody /\ effects[p.key].proposal = p
      BY DEF GateInv, KeyOfOneEffect
    <3> QED BY <2>1, <3>1, <3>2 DEF GateInv, EntriesGated
  <2> QED BY <2>1 DEF IrreversibleApproved, Approves
<1> QED BY <1>1, <1>2, GateInit, PTL DEF EffectSpec

\* What prepare answers: an effect that is recorded as executed, or as undone,
\* is never begun again.
THEOREM NeverAgain == EffectSpec => RecordedNeverAgain
<1>1. ASSUME GateInv, EffectNext, NEW a \in Callers, caller[a].pc # "cleared", caller'[a].pc = "cleared"
      PROVE  effects'[caller'[a].proposal.key].state \in {"Prepared", "Failed"}
  <2>0. caller \in [Callers -> CallerRecords]
    BY <1>1 DEF GateInv, EffectTypeOK, CallerRecords
  <2>1. CASE \E b \in Callers : \/ \E p \in Proposals : PrepareEffect(b, p)
                                \/ PrepareConfirmed(b)
    <3>1. PICK b \in Callers, p \in Proposals, confirmed \in BOOLEAN : Prepare(b, p, confirmed)
      BY <1>1, <2>1 DEF PrepareConfirmed, PrepareEffect, GateInv, CallersBound
    <3>2. p.key \in EffectKeys
      BY KeyOf
    <3>3. CASE caller' = [caller EXCEPT ![b] = Idle]
      BY <1>1, <3>3 DEF GateInv, EffectTypeOK, Idle
    <3>4. CASE /\ effects[p.key].state \in {"Prepared", "Failed"} /\ effects' = effects
               /\ caller' = [caller EXCEPT ![b] = [pc |-> "cleared", proposal |-> p]]
      BY <1>1, <3>4 DEF GateInv, EffectTypeOK
    <3>5. CASE /\ effects' = [effects EXCEPT ![p.key] = [proposal |-> p, state |-> "Prepared"]]
               /\ caller' = [caller EXCEPT ![b] = [pc |-> "cleared", proposal |-> p]]
      BY <1>1, <3>2, <3>5 DEF GateInv, EffectTypeOK
    <3> QED BY <1>1, <3>1, <3>3, <3>4, <3>5, PrepareStep DEF GateInv
  <2>2. CASE \E b \in Callers : MarkExecuted(b) \/ MarkFailed(b) \/ MarkCompensated(b)
    <3>1. PICK b \in Callers : caller' = [caller EXCEPT ![b] = Idle]
      BY <2>2 DEF MarkExecuted, MarkFailed, MarkCompensated, Mark
    <3> QED BY <1>1, <2>0, <3>1 DEF Idle
  <2>3. CASE \E b \in Callers, p \in Proposals, c \in Checkpoints : CheckApproval(b, p, c)
    <3>1. PICK b \in Callers, p \in Proposals : caller' = [caller EXCEPT ![b] = [pc |-> "confirmed", proposal |-> p]]
      BY <2>3 DEF CheckApproval
    <3> QED BY <1>1, <2>0, <3>1
  <2>4. CASE \E b \in Callers, k \in EffectKeys : PickCompensation(b, k)
    <3>1. PICK b \in Callers, k \in EffectKeys :
            caller' = [caller EXCEPT ![b] = [pc |-> "undoing", proposal |-> effects[k].proposal]]
      BY <2>4 DEF PickCompensation
    <3> QED BY <1>1, <2>0, <3>1
  <2>5. CASE \E b \in Callers : Act(b) \/ Undo(b)
    <3>1. PICK b \in Callers, place \in {"acted", "undid"} :
            caller' = [caller EXCEPT ![b] = [caller[b] EXCEPT !.pc = place]]
      BY <2>5 DEF Act, Undo
    <3>2. [caller[b] EXCEPT !.pc = place].pc = place
      BY <2>0 DEF CallerRecords
    <3> QED BY <1>1, <2>0, <3>1, <3>2
  <2>6. CASE EffectCrash
    BY <1>1, <2>6 DEF EffectCrash, Idle
  <2>7. CASE caller' = caller
    BY <1>1, <2>7
  <2> QED
    BY <1>1, <2>1, <2>2, <2>3, <2>4, <2>5, <2>6, <2>7
       DEF EffectNext, RequestDecision, Decide, SelectHitl
<1>2. GateInv /\ [EffectNext]_effectVars =>
        [\A a \in Callers : caller[a].pc # "cleared" /\ caller'[a].pc = "cleared" =>
           effects'[caller'[a].proposal.key].state \in {"Prepared", "Failed"}]_effectVars
  BY <1>1
<1>3. GateInv /\ [EffectNext]_effectVars => GateInv'
  BY GateStep
<1> QED BY <1>2, <1>3, GateInit, PTL DEF EffectSpec, RecordedNeverAgain

-----------------------------------------------------------------------------
(* The order of doing and recording, where a key has one worker at a time. *)

OneWorker ==
  \A a, b \in Callers : a # b /\ caller[a].pc # "idle" /\ caller[b].pc # "idle" =>
    caller[a].proposal.key # caller[b].proposal.key

\* Where a caller stands, and what the journal says of its key.
CallersInOrder ==
  \A a \in Callers :
    LET k == caller[a].proposal.key
    IN  /\ caller[a].pc \in {"cleared", "acted"} => effects[k].state \in {"Prepared", "Failed"}
        /\ caller[a].pc \in {"undoing", "undid"} => effects[k].state = "Executed"
        /\ caller[a].pc = "undid" => world[k] = "undone"

UndoneWasExecuted == \A k \in EffectKeys : world[k] = "undone" => effects[k] # Nobody

OrderInv == OneWorker /\ CallersInOrder /\ UndoneWasExecuted /\ CompensatedIsUndone

\* Nobody but a is at work on this key.
Alone(a, q) ==
  \A b \in Callers : b # a /\ caller[b].pc # "idle" => caller[b].proposal.key # q

\* A caller takes a step that concerns one key, which is its own.
OwnKey(a, r, q) ==
  /\ caller' = [caller EXCEPT ![a] = r]
  /\ Alone(a, q)
  /\ r.pc # "idle" => r.proposal.key = q
  /\ \A k \in EffectKeys : k # q => effects'[k] = effects[k] /\ world'[k] = world[k]
  /\ r.pc \in {"cleared", "acted"} => effects'[q].state \in {"Prepared", "Failed"}
  /\ r.pc \in {"undoing", "undid"} => effects'[q].state = "Executed"
  /\ r.pc = "undid" => world'[q] = "undone"
  /\ world'[q] = "undone" => effects'[q] # Nobody /\ effects'[q].state \in {"Executed", "Compensated"}
  /\ effects'[q] # Nobody /\ effects'[q].state = "Compensated" => world'[q] = "undone"

LEMMA OwnKeyStep ==
  ASSUME GateInv, OrderInv, NEW a \in Callers, NEW r \in CallerRecords, NEW q \in EffectKeys,
         OwnKey(a, r, q)
  PROVE  OrderInv'
<1> USE DEF OwnKey, Alone
<1>1. \A b \in Callers : caller'[b] = IF b = a THEN r ELSE caller[b]
  BY DEF GateInv, EffectTypeOK
<1>2. OneWorker'
  BY <1>1 DEF OrderInv, OneWorker
<1>3. \A b \in Callers : caller[b].pc # "idle" => caller[b].proposal.key \in EffectKeys
  BY KeyOf DEF GateInv, CallersBound
<1>4. CallersInOrder'
  <2>1. ASSUME NEW b \in Callers
        PROVE  LET k == caller'[b].proposal.key
               IN  /\ caller'[b].pc \in {"cleared", "acted"} => effects'[k].state \in {"Prepared", "Failed"}
                   /\ caller'[b].pc \in {"undoing", "undid"} => effects'[k].state = "Executed"
                   /\ caller'[b].pc = "undid" => world'[k] = "undone"
    <3>1. CASE b = a
      BY <1>1, <3>1
    <3>2. CASE b # a
      BY <1>1, <1>3, <3>2 DEF OrderInv, CallersInOrder
    <3> QED BY <3>1, <3>2
  <2> QED BY <2>1 DEF CallersInOrder
<1>5. UndoneWasExecuted'
  BY DEF OrderInv, UndoneWasExecuted
<1>6. CompensatedIsUndone'
  BY DEF OrderInv, CompensatedIsUndone
<1> QED BY <1>2, <1>4, <1>5, <1>6 DEF OrderInv

\* Nobody else is at work on the key of a caller that starts, or that has begun.
LEMMA OthersElsewhere ==
  ASSUME GateInv, OrderInv, ~SharedKeys, NEW a \in Callers, NEW q \in EffectKeys,
         MayStart(a, q) \/ (caller[a].pc # "idle" /\ caller[a].proposal.key = q)
  PROVE  Alone(a, q)
BY DEF Alone, GateInv, CallersBound, OrderInv, OneWorker, MayStart, Idle

LEMMA PrepareInOrder ==
  ASSUME GateInv, OrderInv, NEW a \in Callers, NEW p \in Proposals, NEW confirmed \in BOOLEAN,
         Prepare(a, p, confirmed),
         Alone(a, p.key)
  PROVE  OrderInv'
<1>1. p.key \in EffectKeys
  BY KeyOf
<1> DEFINE cleared == [pc |-> "cleared", proposal |-> p]
<1>2. /\ Idle \in CallerRecords /\ Idle.pc = "idle"
      /\ cleared \in CallerRecords /\ cleared.pc = "cleared" /\ cleared.proposal = p
  BY DEF Idle, CallerRecords
<1>3. world' = world
  BY DEF Prepare
<1>4. /\ world[p.key] = "undone" =>
           effects[p.key] # Nobody /\ effects[p.key].state \in {"Executed", "Compensated"}
      /\ effects[p.key] # Nobody /\ effects[p.key].state = "Compensated" => world[p.key] = "undone"
  BY <1>1 DEF OrderInv, UndoneWasExecuted, CompensatedIsUndone
<1> HIDE DEF cleared
<1>5. CASE effects' = effects /\ caller' = [caller EXCEPT ![a] = Idle]
  <2>1. OwnKey(a, Idle, p.key)
    BY <1>2, <1>3, <1>4, <1>5 DEF OwnKey
  <2> QED BY <1>1, <1>2, <2>1, OwnKeyStep
<1>6. CASE /\ effects[p.key].state \in {"Prepared", "Failed"} /\ effects' = effects
           /\ caller' = [caller EXCEPT ![a] = cleared]
  <2>1. OwnKey(a, cleared, p.key)
    BY <1>2, <1>3, <1>4, <1>6 DEF OwnKey
  <2> QED BY <1>1, <1>2, <2>1, OwnKeyStep
<1>7. CASE /\ effects[p.key] = Nobody
           /\ effects' = [effects EXCEPT ![p.key] = [proposal |-> p, state |-> "Prepared"]]
           /\ caller' = [caller EXCEPT ![a] = cleared]
  <2>1. effects'[p.key].state = "Prepared" /\ \A k \in EffectKeys : k # p.key => effects'[k] = effects[k]
    BY <1>1, <1>7 DEF GateInv, EffectTypeOK
  <2>2. world'[p.key] # "undone"
    BY <1>3, <1>4, <1>7
  <2>3. OwnKey(a, cleared, p.key)
    BY <1>2, <1>3, <1>7, <2>1, <2>2 DEF OwnKey
  <2> QED BY <1>1, <1>2, <2>3, OwnKeyStep
<1> QED BY <1>5, <1>6, <1>7, PrepareStep DEF cleared, GateInv

LEMMA MarkInOrder ==
  ASSUME GateInv, OrderInv, ~SharedKeys, NEW a \in Callers,
         MarkExecuted(a) \/ MarkFailed(a) \/ MarkCompensated(a)
  PROVE  OrderInv'
<1> DEFINE q == caller[a].proposal.key
<1>1. /\ caller[a].pc \in {"cleared", "acted", "undid"}
      /\ \E from \in SUBSET States, state \in States : Mark(a, from, state)
  BY DEF MarkExecuted, MarkFailed, MarkCompensated, States
<1>2. q \in EffectKeys /\ effects[q] # Nobody
  BY <1>1, KeyOf DEF GateInv, CallersBound
<1>3. Alone(a, q)
  BY <1>1, <1>2, OthersElsewhere
<1>4. /\ caller' = [caller EXCEPT ![a] = Idle] /\ world' = world
      /\ effects'[q] # Nobody /\ \A k \in EffectKeys : k # q => effects'[k] = effects[k]
  BY <1>1, <1>2, MarkStep DEF GateInv, Mark
<1>5. Idle \in CallerRecords /\ Idle.pc = "idle"
  BY DEF Idle, CallerRecords
<1>6. /\ world[q] = "undone" => effects[q].state \in {"Executed", "Compensated"}
      /\ effects[q].state = "Compensated" => world[q] = "undone"
      /\ caller[a].pc \in {"cleared", "acted"} => effects[q].state \in {"Prepared", "Failed"}
      /\ caller[a].pc = "undid" => world[q] = "undone"
  BY <1>2 DEF OrderInv, CallersInOrder, CompensatedIsUndone
<1>7. /\ caller[a].pc \in {"cleared", "acted"} => effects'[q].state \in {"Prepared", "Executed", "Failed"}
      /\ caller[a].pc = "undid" => effects'[q].state \in {"Compensated", effects[q].state}
  <2>1. CASE MarkExecuted(a)
    BY <1>6, <2>1, MarkStep DEF MarkExecuted, States, GateInv
  <2>2. CASE MarkFailed(a)
    BY <1>6, <2>2, MarkStep DEF MarkFailed, States, GateInv
  <2>3. CASE MarkCompensated(a)
    BY <1>6, <2>3, MarkStep DEF MarkCompensated, States, GateInv
  <2> QED BY <2>1, <2>2, <2>3
<1> HIDE DEF q
<1>8. /\ world'[q] = "undone" => effects'[q].state \in {"Executed", "Compensated"}
      /\ effects'[q].state = "Compensated" => world'[q] = "undone"
  BY <1>1, <1>4, <1>6, <1>7
<1>9. OwnKey(a, Idle, q)
  BY <1>3, <1>4, <1>5, <1>8 DEF OwnKey
<1> QED BY <1>2, <1>5, <1>9, OwnKeyStep

LEMMA CallerInOrder ==
  ASSUME GateInv, OrderInv, ~SharedKeys, NEW a \in Callers,
         \/ \E p \in Proposals, c \in Checkpoints : CheckApproval(a, p, c)
         \/ \E k \in EffectKeys : PickCompensation(a, k)
         \/ Act(a) \/ Undo(a)
  PROVE  OrderInv'
<1>0. caller \in [Callers -> CallerRecords]
  BY DEF GateInv, EffectTypeOK, CallerRecords
<1>1. ASSUME NEW p \in Proposals, NEW place \in {"confirmed", "acted", "undoing", "undid"},
             caller' = [caller EXCEPT ![a] = [pc |-> place, proposal |-> p]], effects' = effects,
             Alone(a, p.key),
             \A k \in EffectKeys : k # p.key => world'[k] = world[k],
             place = "acted" => effects[p.key].state \in {"Prepared", "Failed"} /\ world'[p.key] = "in force",
             place = "undoing" => effects[p.key].state = "Executed" /\ world' = world,
             place = "undid" => /\ effects[p.key] # Nobody /\ effects[p.key].state = "Executed"
                             /\ world'[p.key] = "undone",
             place = "confirmed" => world' = world
      PROVE  OrderInv'
  <2> DEFINE new == [pc |-> place, proposal |-> p]
  <2>1. p.key \in EffectKeys
    BY KeyOf
  <2>2. new \in CallerRecords /\ new.pc = place /\ new.proposal = p /\ caller' = [caller EXCEPT ![a] = new]
    BY <1>1 DEF CallerRecords
  <2>3. /\ world[p.key] = "undone" =>
             effects[p.key] # Nobody /\ effects[p.key].state \in {"Executed", "Compensated"}
        /\ effects[p.key] # Nobody /\ effects[p.key].state = "Compensated" => world[p.key] = "undone"
    BY <2>1 DEF OrderInv, UndoneWasExecuted, CompensatedIsUndone
  <2> HIDE DEF new
  <2>4. /\ world'[p.key] = "undone" =>
             effects'[p.key] # Nobody /\ effects'[p.key].state \in {"Executed", "Compensated"}
        /\ effects'[p.key] # Nobody /\ effects'[p.key].state = "Compensated" => world'[p.key] = "undone"
    BY <1>1, <2>3
  <2>5. OwnKey(a, new, p.key)
    BY <1>1, <2>2, <2>4 DEF OwnKey
  <2> QED BY <2>1, <2>2, <2>5, OwnKeyStep
<1>2. CASE \E p \in Proposals, c \in Checkpoints : CheckApproval(a, p, c)
  <2>1. PICK p \in Proposals, c \in Checkpoints : CheckApproval(a, p, c)
    BY <1>2
  <2>2. Alone(a, p.key)
    BY <2>1, KeyOf, OthersElsewhere DEF CheckApproval
  <2> QED BY <1>1, <2>1, <2>2 DEF CheckApproval
<1>3. CASE \E k \in EffectKeys : PickCompensation(a, k)
  <2>1. PICK k \in EffectKeys : PickCompensation(a, k)
    BY <1>3
  <2>2. effects[k] # Nobody /\ effects[k].state = "Executed"
    BY <2>1 DEF PickCompensation, PendingCompensations
  <2>3. effects[k] \in Entries
    BY <2>2 DEF GateInv, EffectTypeOK
  <2>4. effects[k].proposal \in Proposals /\ effects[k].proposal.key = k
    BY <2>2, <2>3 DEF GateInv, EntriesGated, Entries
  <2>5. Alone(a, k)
    BY <2>1, OthersElsewhere DEF PickCompensation
  <2> QED BY <1>1, <2>1, <2>2, <2>4, <2>5 DEF PickCompensation
<1>4. ASSUME caller[a].pc \in {"cleared", "undoing"}
      PROVE  /\ caller[a].proposal \in Proposals /\ caller[a].proposal.key \in EffectKeys
             /\ effects[caller[a].proposal.key] # Nobody
             /\ Alone(a, caller[a].proposal.key)
             /\ \A place : [caller[a] EXCEPT !.pc = place] = [pc |-> place, proposal |-> caller[a].proposal]
  <2>1. /\ caller[a].proposal \in Proposals /\ caller[a].proposal.key \in EffectKeys
        /\ effects[caller[a].proposal.key] # Nobody
    BY <1>4, KeyOf DEF GateInv, CallersBound
  <2>2. \A place : [caller[a] EXCEPT !.pc = place] = [pc |-> place, proposal |-> caller[a].proposal]
    BY <1>0 DEF CallerRecords
  <2> QED BY <1>4, <2>1, <2>2, OthersElsewhere
<1>5. CASE Act(a)
  <2>1. /\ caller[a].pc = "cleared" /\ effects' = effects
        /\ caller' = [caller EXCEPT ![a] = [caller[a] EXCEPT !.pc = "acted"]]
        /\ world' = [world EXCEPT ![caller[a].proposal.key] = "in force"]
    BY <1>5 DEF Act
  <2>2. effects[caller[a].proposal.key].state \in {"Prepared", "Failed"}
    BY <2>1 DEF OrderInv, CallersInOrder
  <2>3. world \in [EffectKeys -> {"never", "in force", "undone"}]
    BY DEF GateInv, EffectTypeOK
  <2> QED BY <1>1, <1>4, <2>1, <2>2, <2>3
<1>6. CASE Undo(a)
  <2>1. /\ caller[a].pc = "undoing" /\ effects' = effects
        /\ caller' = [caller EXCEPT ![a] = [caller[a] EXCEPT !.pc = "undid"]]
        /\ world' = [world EXCEPT ![caller[a].proposal.key] = "undone"]
    BY <1>6 DEF Undo
  <2>2. effects[caller[a].proposal.key].state = "Executed"
    BY <2>1 DEF OrderInv, CallersInOrder
  <2>3. world \in [EffectKeys -> {"never", "in force", "undone"}]
    BY DEF GateInv, EffectTypeOK
  <2> QED BY <1>1, <1>4, <2>1, <2>2, <2>3
<1> QED BY <1>2, <1>3, <1>5, <1>6

LEMMA OrderStep ==
  ASSUME GateInv, OrderInv, ~SharedKeys, [EffectNext]_effectVars
  PROVE  OrderInv'
<1>1. CASE effects' = effects /\ caller' = caller /\ world' = world
  BY <1>1 DEF OrderInv, OneWorker, CallersInOrder, UndoneWasExecuted, CompensatedIsUndone
<1>2. ASSUME NEW a \in Callers, NEW p \in Proposals, PrepareEffect(a, p)
      PROVE  OrderInv'
  BY <1>2, KeyOf, OthersElsewhere, PrepareInOrder DEF PrepareEffect
<1>3. ASSUME NEW a \in Callers, PrepareConfirmed(a)
      PROVE  OrderInv'
  <2>1. caller[a].pc = "confirmed" /\ caller[a].proposal \in Proposals
    BY <1>3 DEF PrepareConfirmed, GateInv, CallersBound
  <2> QED BY <1>3, <2>1, KeyOf, OthersElsewhere, PrepareInOrder DEF PrepareConfirmed
<1>4. CASE EffectCrash
  BY <1>4 DEF EffectCrash, Idle, OrderInv, OneWorker, CallersInOrder, UndoneWasExecuted, CompensatedIsUndone
<1> QED
  BY <1>1, <1>2, <1>3, <1>4, MarkInOrder, CallerInOrder
     DEF EffectNext, effectVars, RequestDecision, Decide, SelectHitl

\* Where a key has one worker at a time, the journal is true of the world: what it
\* says was compensated is undone, and nothing is undone that was not executed.
THEOREM JournalIsTrue == ~SharedKeys /\ EffectSpec => []JournalSafety
<1>1. EffectInit => OrderInv
  BY DEF EffectInit, OrderInv, OneWorker, CallersInOrder, UndoneWasExecuted, CompensatedIsUndone, Idle
<1>2. GateInv /\ [EffectNext]_effectVars => GateInv'
  BY GateStep
<1>3. GateInv /\ OrderInv /\ ~SharedKeys /\ [EffectNext]_effectVars => OrderInv'
  BY OrderStep
<1>4. OrderInv => CompensatedIsUndone
  BY DEF OrderInv
<1>5. ~SharedKeys /\ EffectSpec => []OrderInv
  <2>1. CASE ~SharedKeys
    <3>1. GateInv /\ OrderInv /\ [EffectNext]_effectVars => OrderInv'
      BY <1>3, <2>1
    <3> QED BY <1>1, <1>2, <3>1, GateInit, PTL DEF EffectSpec
  <2> QED BY <2>1
<1> QED BY <1>4, <1>5, ApprovalsHold, PTL DEF JournalSafety

-----------------------------------------------------------------------------
(* The agent loop *)

HIDE EffectAssumption

-----------------------------------------------------------------------------
(* The graph *)

ItemRecs == [st : ItemStates, reads : 0 .. MaxReads, hyp : 1 .. 2,
             streak : 0 .. 1, cands : SUBSET Files]

\* A graph is made of its three parts.
LEMMA GraphIs ==
  /\ \A g \in Graphs : /\ g.items \in [Items -> ItemRecs] /\ DOMAIN g.items = Items
                       /\ g.targets \subseteq Files /\ g.confirmed \subseteq Files
                       /\ \A i \in Items : g.items[i] \in ItemRecs
  /\ \A items, targets, confirmed :
       items \in [Items -> ItemRecs] /\ targets \subseteq Files /\ confirmed \subseteq Files =>
         [items |-> items, targets |-> targets, confirmed |-> confirmed] \in Graphs
  /\ \A g \in Graphs : \A items \in [Items -> ItemRecs] : [g EXCEPT !.items = items] \in Graphs
BY DEF Graphs, ItemRecs

LEMMA ItemNumbers == Items \subseteq Nat /\ IsFiniteSet(Items) /\ NoItem \notin Items
<1>1. Items \subseteq 1 .. 9
  BY SolveGraphAssumption
<1>2. IsFiniteSet(1 .. 9)
  <2>1. 1 \in Int /\ 9 \in Int
    OBVIOUS
  <2> QED BY <2>1, FS_Interval
<1>3. IsFiniteSet(Items)
  BY <1>1, <1>2, FS_Subset
<1> QED BY <1>1, <1>3 DEF NoItem

\* A set of numbers has a least one.
LEMMA LeastNumber ==
  ASSUME NEW S \in SUBSET Nat, S # {}
  PROVE  \E n \in S : \A m \in S : n <= m
<1>1. PICK n \in S : \A m \in S : ~ (<<m, n>> \in OpToRel(<, Nat))
  BY NatLessThanWellFounded, WFMin
<1>2. ASSUME NEW m \in S PROVE n <= m
  <2>1. m \in Nat /\ n \in Nat
    OBVIOUS
  <2>2. ~ (m < n)
    BY <1>1, <2>1 DEF OpToRel
  <2> QED BY <2>1, <2>2
<1> QED BY <1>2

LEMMA FirstIsIn ==
  ASSUME NEW S \in SUBSET Items, S # {}
  PROVE  (CHOOSE i \in S : \A j \in S : i <= j) \in S
BY LeastNumber, ItemNumbers

LEMMA RankIsNat ==
  ASSUME NEW g \in Graphs, NEW i \in Items
  PROVE  AdmissionRank(g, i) \in Nat
<1>1. g.items[i].st \in ItemStates
  BY GraphIs DEF ItemRecs
<1>2. StateRank[g.items[i].st] \in Nat
  BY <1>1 DEF ItemStates, StateRank
<1>3. Risk[i] \in Nat /\ i \in Nat
  BY SolveGraphAssumption, ItemNumbers
<1> QED BY <1>2, <1>3 DEF AdmissionRank

LEMMA FirstOfIsIn ==
  ASSUME NEW g \in Graphs, NEW S \in SUBSET Items
  PROVE  /\ FirstOf(g, S) \in Items \cup {NoItem}
         /\ S # {} => FirstOf(g, S) \in S
         /\ S = {} => FirstOf(g, S) = NoItem
<1>1. CASE S = {}
  BY <1>1 DEF FirstOf
<1>2. CASE S # {}
  <2> DEFINE R == {AdmissionRank(g, i) : i \in S}
  <2>1. R \subseteq Nat /\ R # {}
    BY <1>2, RankIsNat
  <2>2. PICK n \in R : \A m \in R : n <= m
    BY <2>1, LeastNumber
  <2>3. PICK i \in S : n = AdmissionRank(g, i)
    OBVIOUS
  <2>4. \A j \in S : AdmissionRank(g, i) <= AdmissionRank(g, j)
    BY <2>2, <2>3
  <2>5. (CHOOSE k \in S : \A j \in S : AdmissionRank(g, k) <= AdmissionRank(g, j)) \in S
    BY <2>3, <2>4
  <2> QED BY <1>2, <2>5 DEF FirstOf
<1> QED BY <1>1, <1>2

LEMMA ReadyFinite ==
  ASSUME NEW g \in Graphs
  PROVE  /\ ReadySurfaces(g) \subseteq Items /\ IsFiniteSet(ReadySurfaces(g))
         /\ Cardinality(ReadySurfaces(g)) \in Nat
<1>1. ReadySurfaces(g) \subseteq Items
  BY DEF ReadySurfaces
<1> QED BY <1>1, ItemNumbers, FS_Subset, FS_CardinalityType

-----------------------------------------------------------------------------
(* Which items proceed together: the first of those that are left, one     *)
(* after the other.                                                        *)

Waits(g, i, admitted) ==
  \/ Cardinality(admitted) >= MaxParallel
  \/ \E j \in admitted : g.items[i].cands \cap g.items[j].cands # {}
  \/ Risk[i] = 2 /\ \E j \in ReadySurfaces(g) \ {i} : g.items[i].cands \cap g.items[j].cands # {}

AdmitNext(g, before) ==
  [in   |-> IF Waits(g, FirstOf(g, before.left), before.in) THEN before.in
            ELSE before.in \cup {FirstOf(g, before.left)},
   left |-> before.left \ {FirstOf(g, before.left)}]

AdmitUpTo(a, g, n) ==
  a = [k \in 0 .. n |-> IF k = 0 THEN [in |-> {}, left |-> ReadySurfaces(g)]
                        ELSE AdmitNext(g, a[k - 1])]

LEMMA AdmitExists ==
  ASSUME NEW g
  PROVE  \A n \in Nat : \E a : AdmitUpTo(a, g, n)
<1> DEFINE Bad == {n \in Nat : ~ \E a : AdmitUpTo(a, g, n)}
<1>1. SUFFICES ASSUME Bad # {} PROVE FALSE
  OBVIOUS
<1>2. PICK n \in Bad : \A m \in Bad : n <= m
  <2>1. Bad \subseteq Nat
    OBVIOUS
  <2> HIDE DEF Bad
  <2> QED BY <1>1, <2>1, LeastNumber
<1>3. n # 0
  <2> DEFINE f == [k \in 0 .. 0 |-> [in |-> {}, left |-> ReadySurfaces(g)]]
  <2>1. AdmitUpTo(f, g, 0)
    BY DEF AdmitUpTo
  <2> QED BY <2>1
<1>4. n - 1 \in Nat /\ n - 1 \notin Bad
  BY <1>2, <1>3
<1>5. PICK a : AdmitUpTo(a, g, n - 1)
  BY <1>4
<1> DEFINE val(k) == IF k = 0 THEN [in |-> {}, left |-> ReadySurfaces(g)]
                     ELSE AdmitNext(g, a[k - 1])
<1> DEFINE h == [k \in 0 .. n |-> val(k)]
<1>6. \A k \in 0 .. n - 1 : h[k] = a[k]
  <2>1. \A k \in 0 .. n - 1 : a[k] = val(k)
    BY <1>5 DEF AdmitUpTo
  <2>2. \A k \in 0 .. n - 1 : h[k] = val(k)
    BY <1>4
  <2> QED BY <2>1, <2>2
<1>7. AdmitUpTo(h, g, n)
  <2>1. h = [k \in 0 .. n |-> val(k)]
    OBVIOUS
  <2> HIDE DEF h
  <2>2. \A k \in 0 .. n : k # 0 => h[k - 1] = a[k - 1]
    BY <1>4, <1>6
  <2> QED BY <2>1, <2>2 DEF AdmitUpTo
<1> QED BY <1>7

\* What is admitted is ready.
LEMMA AdmittedReady ==
  ASSUME NEW g \in Graphs
  PROVE  AdmitConcurrent(g) \subseteq Items
<1> DEFINE N == Cardinality(ReadySurfaces(g))
<1>0. N \in Nat
  BY ReadyFinite
<1>1. PICK b : AdmitUpTo(b, g, N)
  BY <1>0, AdmitExists
<1> DEFINE a == CHOOSE f : AdmitUpTo(f, g, N)
<1>2. AdmitConcurrent(g) = a[N].in
  BY DEF AdmitConcurrent, AdmitUpTo, AdmitNext, Waits
<1>3. AdmitUpTo(a, g, N)
  BY <1>1
<1> HIDE DEF a
<1> DEFINE In(k) == /\ a[k].in \subseteq Items /\ a[k].left \subseteq ReadySurfaces(g)
                    /\ Cardinality(a[k].left) = N - k
<1>4. In(0)
  BY <1>0, <1>3, ReadyFinite DEF AdmitUpTo
<1>5. ASSUME NEW k \in 1 .. N, In(k - 1)
      PROVE  In(k)
  <2> DEFINE before == a[k - 1]
  <2>0. k - 1 \in 0 .. N /\ k \in 0 .. N /\ k # 0
    BY <1>0
  <2>1. k - 1 \in 0 .. N /\ a[k] = AdmitNext(g, before)
    BY <1>3, <2>0 DEF AdmitUpTo
  <2>2. before.left \subseteq Items /\ IsFiniteSet(before.left) /\ before.left # {}
    <3>1. Cardinality(before.left) = N - (k - 1) /\ N - (k - 1) # 0
      BY <1>5, <1>0
    <3>2. before.left # {}
      BY <3>1, FS_EmptySet
    <3>3. before.left \subseteq ReadySurfaces(g)
      BY <1>5
    <3> QED BY <3>2, <3>3, ReadyFinite, FS_Subset
  <2>3. FirstOf(g, before.left) \in before.left
    BY <2>2, FirstOfIsIn
  <2>4. Cardinality(before.left \ {FirstOf(g, before.left)}) = Cardinality(before.left) - 1
    <3>1. \A S, x : IsFiniteSet(S) /\ x \in S => Cardinality(S \ {x}) = Cardinality(S) - 1
      BY FS_RemoveElement
    <3> HIDE DEF before
    <3> QED BY <2>2, <2>3, <3>1
  <2>5. a[k].in \subseteq Items
    BY <1>5, <2>1, <2>2, <2>3 DEF AdmitNext
  <2>6. a[k].left = before.left \ {FirstOf(g, before.left)}
    BY <2>1 DEF AdmitNext
  <2>7. Cardinality(a[k].left) = N - k
    BY <1>0, <1>5, <2>4, <2>6
  <2> QED BY <1>5, <2>5, <2>6, <2>7
<1>6. \A k \in Nat : k <= N => In(k)
  <2> DEFINE Bad == {k \in Nat : k <= N /\ ~In(k)}
  <2> HIDE DEF In, N
  <2>1. SUFFICES ASSUME Bad # {} PROVE FALSE
    OBVIOUS
  <2>2. PICK k \in Bad : \A m \in Bad : k <= m
    <3>1. Bad \subseteq Nat
      OBVIOUS
    <3> HIDE DEF Bad
    <3> QED BY <2>1, <3>1, LeastNumber
  <2>3. k # 0
    BY <1>4
  <2>4. k - 1 \in Nat /\ k - 1 \notin Bad
    BY <2>2, <2>3
  <2>5. In(k - 1) /\ k \in 1 .. N
    BY <1>0, <2>3, <2>4
  <2>6. In(k)
    BY <1>5, <2>5
  <2> QED BY <2>6
<1> QED BY <1>0, <1>2, <1>6

LEMMA NextAdmittedIsIn ==
  ASSUME NEW g \in Graphs, NEW used
  PROVE  NextAdmitted(g, used) \in Items \cup {NoItem}
<1>1. AdmitConcurrent(g) \ used \in SUBSET Items
  BY AdmittedReady
<1> QED BY <1>1, FirstOfIsIn DEF NextAdmitted

LEMMA SupportsAreItems ==
  ASSUME NEW g \in Graphs, NEW t, NEW c, NEW used
  PROVE  Supports(g, t, c, used) \subseteq Items
<1>1. ActiveItem(g) \in Items \cup {NoItem}
  BY ReadyFinite, FirstOfIsIn DEF ActiveItem
<1>2. NextAdmitted(g, used) \in Items \cup {NoItem}
  BY NextAdmittedIsIn
<1> HIDE DEF ActiveItem
<1> QED BY <1>1, <1>2 DEF Supports

LEMMA ProposalIsItem ==
  ASSUME NEW e
  PROVE  ProposalSupports(e) \subseteq Items
<1> DEFINE S == IF Items \ e.verified # {} THEN Items \ e.verified ELSE Items
<1>1. S \in SUBSET Items /\ S # {}
  BY SolveGraphAssumption
<1>2. (CHOOSE i \in S : \A j \in S : i <= j) \in S
  BY <1>1, FirstIsIn
<1> QED BY <1>2 DEF ProposalSupports

-----------------------------------------------------------------------------
(* What is done to a graph leaves a graph. *)

LEMMA ContractIsGraph == FromContract \in Graphs
<1>1. FreshItem \in ItemRecs
  BY DEF FreshItem, ItemRecs, ItemStates, MaxReads
<1>2. [i \in Items |-> FreshItem] \in [Items -> ItemRecs]
  BY <1>1
<1> HIDE DEF FreshItem
<1> QED BY <1>2, GraphIs DEF FromContract

LEMMA GroundedIsGraph ==
  ASSUME NEW g \in Graphs, NEW found \in SUBSET Files, NEW sure
  PROVE  ApplyGrounding(g, found, sure) \in Graphs
<1> DEFINE items == [i \in Items |->
                      [g.items[i] EXCEPT
                         !.cands = found,
                         !.st = IF @ \in {"Pending", "Locating"} THEN "Located" ELSE @]]
<1>1. ASSUME NEW i \in Items PROVE items[i] \in ItemRecs
  <2> DEFINE item == g.items[i]
             st == IF item.st \in {"Pending", "Locating"} THEN "Located" ELSE item.st
  <2>1. item \in ItemRecs
    BY GraphIs
  <2>2. items[i] = [item EXCEPT !.cands = found, !.st = st]
    OBVIOUS
  <2> HIDE DEF item, items
  <2>3. st \in ItemStates
    BY <2>1 DEF ItemRecs, ItemStates
  <2> HIDE DEF st
  <2> QED BY <2>1, <2>2, <2>3 DEF ItemRecs
<1>2. items \in [Items -> ItemRecs]
  BY <1>1
<1>3. ApplyGrounding(g, found, sure) =
        IF found = {} THEN g
        ELSE [items |-> items, targets |-> found, confirmed |-> IF sure THEN found ELSE {}]
  BY DEF ApplyGrounding
<1>4. (IF sure THEN found ELSE {}) \subseteq Files
  OBVIOUS
<1> HIDE DEF items
<1> QED BY <1>2, <1>3, <1>4, GraphIs

LEMMA TargetsInGraph ==
  ASSUME NEW g \in Graphs, NEW c, NEW r, r.finds \subseteq Files
  PROVE  /\ WithTargets(g, c, r) \in Graphs
         /\ WithTargets(g, c, r).items = g.items
         /\ WithTargets(g, c, r).targets \subseteq Files
<1> DEFINE found == IF ~r.ok THEN {}
                    ELSE IF c.tool = "search" THEN r.finds ELSE {c.file} \cap Files
<1>1. found \subseteq Files
  OBVIOUS
<1>2. WithTargets(g, c, r) = [g EXCEPT !.targets = @ \cup found, !.confirmed = @ \cup found]
  BY DEF WithTargets
<1> HIDE DEF found
<1> QED BY <1>1, <1>2 DEF Graphs

LEMMA AdvancedItem ==
  ASSUME NEW item \in ItemRecs
  PROVE  AdvanceHypothesis(item) \in ItemRecs
<1> DEFINE st == IF item.reads > 0 THEN "Ready"
                 ELSE IF item.cands # {} THEN "Located" ELSE "Locating"
<1>1. st \in ItemStates
  BY DEF ItemStates
<1>2. AdvanceHypothesis(item) = IF item.hyp = 1 THEN [item EXCEPT !.hyp = 2, !.streak = 0]
                                ELSE [item EXCEPT !.hyp = 1, !.streak = 0, !.st = st]
  BY DEF AdvanceHypothesis
<1> HIDE DEF st
<1>3. [item EXCEPT !.streak = 0] \in ItemRecs
  BY DEF ItemRecs
<1>4. \A calm \in ItemRecs, h \in 1 .. 2 : [calm EXCEPT !.hyp = h] \in ItemRecs
  BY DEF ItemRecs
<1>5. \A calm \in ItemRecs : [calm EXCEPT !.st = st] \in ItemRecs
  BY <1>1 DEF ItemRecs
<1>6. \A h : /\ [item EXCEPT !.hyp = h, !.streak = 0] = [[item EXCEPT !.streak = 0] EXCEPT !.hyp = h]
             /\ [item EXCEPT !.hyp = h, !.streak = 0, !.st = st]
                  = [[[item EXCEPT !.streak = 0] EXCEPT !.hyp = h] EXCEPT !.st = st]
  BY DEF ItemRecs
<1>7. 1 \in 1 .. 2 /\ 2 \in 1 .. 2
  OBVIOUS
<1>8. CASE item.hyp = 1
  <2>1. [item EXCEPT !.hyp = 2, !.streak = 0] \in ItemRecs
    BY <1>3, <1>4, <1>6, <1>7, Zenon
  <2> QED BY <1>2, <1>8, <2>1, Zenon
<1>9. CASE item.hyp # 1
  <2>1. [[item EXCEPT !.streak = 0] EXCEPT !.hyp = 1] \in ItemRecs
    BY <1>3, <1>4, <1>7, Zenon
  <2>2. [item EXCEPT !.hyp = 1, !.streak = 0, !.st = st] \in ItemRecs
    BY <2>1, <1>5, <1>6, Zenon
  <2> QED BY <1>2, <1>9, <2>2, Zenon
<1> QED BY <1>8, <1>9

LEMMA RecordedItem ==
  ASSUME NEW g \in Graphs, NEW t, NEW c, NEW verify, NEW kind, NEW item \in ItemRecs, NEW r
  PROVE  RecordItem(g, t, c, verify, kind, item, r) \in ItemRecs
<1>1. [item EXCEPT !.streak = 1] \in ItemRecs /\ [item EXCEPT !.streak = 0] \in ItemRecs
  BY DEF ItemRecs
<1> DEFINE calm == [item EXCEPT !.streak = 0]
<1>2. AdvanceHypothesis(item) \in ItemRecs /\ AdvanceHypothesis(calm) \in ItemRecs
  BY <1>1, AdvancedItem
<1> DEFINE st == NextState(t, c, verify, kind, item, r)
<1>3. st \in ItemStates
  BY DEF NextState, ItemRecs, ItemStates
<1> DEFINE full == [calm EXCEPT !.reads = IF c.tool = "read" /\ @ < MaxReads THEN @ + 1 ELSE @,
                                !.st    = st,
                                !.cands = @ \cup g.targets]
<1>4. full \in ItemRecs
  <2>1. g.targets \subseteq Files
    BY GraphIs
  <2>2. calm \in ItemRecs
    BY <1>1
  <2> HIDE DEF st, calm
  <2>3. calm.cands \cup g.targets \subseteq Files
    BY <2>1, <2>2 DEF ItemRecs
  <2>4. (IF c.tool = "read" /\ calm.reads < MaxReads THEN calm.reads + 1 ELSE calm.reads)
          \in 0 .. MaxReads
    BY <2>2 DEF ItemRecs, MaxReads
  <2> QED BY <1>3, <2>2, <2>3, <2>4 DEF ItemRecs
<1>5. RecordItem(g, t, c, verify, kind, item, r) =
        IF kind = "NoInformation"
        THEN IF item.streak = 0 THEN [item EXCEPT !.streak = 1]
             ELSE IF item.st \in Early THEN AdvanceHypothesis(item) ELSE item
        ELSE IF r.ok THEN full
             ELSE IF c.tool = "search" THEN AdvanceHypothesis(calm) ELSE calm
  BY DEF RecordItem
<1> HIDE DEF full, calm
<1>6. calm \in ItemRecs
  BY <1>1 DEF calm
<1> QED BY <1>1, <1>2, <1>4, <1>5, <1>6

LEMMA FailureMapped ==
  ASSUME NEW items \in [Items -> ItemRecs], NEW supports, NEW r
  PROVE  MapFailure(items, supports, r) \in [Items -> ItemRecs]
<1> DEFINE back == LET named == {i \in supports \cap r.mention : items[i].cands # {}}
                   IN  IF named # {} THEN named ELSE supports
<1>1. MapFailure(items, supports, r) =
        [i \in Items |-> IF i \in back THEN [items[i] EXCEPT !.st = "Ready"] ELSE items[i]]
  BY DEF MapFailure
<1>2. \A i \in Items : [items[i] EXCEPT !.st = "Ready"] \in ItemRecs
  BY DEF ItemRecs, ItemStates
<1> HIDE DEF back
<1> QED BY <1>1, <1>2

LEMMA ResultInGraph ==
  ASSUME NEW g \in Graphs, NEW t, NEW c, NEW supports, NEW verify, NEW r, r.finds \subseteq Files
  PROVE  RecordResult(g, t, c, supports, verify, r) \in Graphs
<1> DEFINE kind == EvidenceKind(g, t, c, verify, r)
           h == WithTargets(g, c, r)
           items == [i \in Items |-> IF i \in supports
                                     THEN RecordItem(h, t, c, verify, kind, g.items[i], r)
                                     ELSE g.items[i]]
<1>1. h \in Graphs
  BY TargetsInGraph
<1>2. RecordResult(g, t, c, supports, verify, r) =
        [h EXCEPT !.items = IF kind = "VerificationFailed"
                            THEN MapFailure(items, supports, r) ELSE items]
  BY DEF RecordResult
<1> HIDE DEF h, kind
<1>3. ASSUME NEW i \in Items
      PROVE  RecordItem(h, t, c, verify, kind, g.items[i], r) \in ItemRecs /\ g.items[i] \in ItemRecs
  BY <1>1, RecordedItem, GraphIs
<1>4. items \in [Items -> ItemRecs]
  BY <1>3
<1> HIDE DEF items
<1>5. (IF kind = "VerificationFailed" THEN MapFailure(items, supports, r) ELSE items)
        \in [Items -> ItemRecs]
  BY <1>4, FailureMapped
<1> QED BY <1>1, <1>2, <1>5, GraphIs

LEMMA SettledIsGraph ==
  ASSUME NEW g \in Graphs, NEW settled
  PROVE  SettleStaticConvergence(g, settled) \in Graphs
<1> DEFINE items == [i \in Items |->
      IF i \in settled THEN [g.items[i] EXCEPT !.st = "Verified"] ELSE g.items[i]]
<1>1. \A i \in Items : g.items[i] \in ItemRecs /\ [g.items[i] EXCEPT !.st = "Verified"] \in ItemRecs
  BY GraphIs DEF ItemRecs, ItemStates
<1>2. items \in [Items -> ItemRecs]
  BY <1>1
<1>3. SettleStaticConvergence(g, settled) = [g EXCEPT !.items = items]
  BY DEF SettleStaticConvergence
<1> HIDE DEF items
<1> QED BY <1>2, <1>3, GraphIs

LEMMA RejectionIsGraph ==
  ASSUME NEW g \in Graphs, NEW supports
  PROVE  RecordGateRejection(g, supports) \in Graphs
<1> DEFINE lead == CHOOSE i \in supports : \A j \in supports : i <= j
           items == [g.items EXCEPT ![lead] = [g.items[lead] EXCEPT !.streak = 1]]
<1>1. RecordGateRejection(g, supports) = [g EXCEPT !.items = items]
  BY DEF RecordGateRejection
<1> HIDE DEF lead
<1>2. \A i \in Items : g.items[i] \in ItemRecs /\ [g.items[i] EXCEPT !.streak = 1] \in ItemRecs
  BY GraphIs DEF ItemRecs
<1>3. items \in [Items -> ItemRecs]
  BY <1>2, GraphIs
<1> HIDE DEF items
<1> QED BY <1>1, <1>3, GraphIs

-----------------------------------------------------------------------------
(* The facts *)

LEMMA FactsHave ==
  ASSUME NEW e \in Facts
  PROVE  /\ e.steps \in Nat /\ e.calls \in Nat /\ e.successes \in Nat /\ e.writes \in Nat
         /\ e.attempted \in BOOLEAN /\ e.evidence \in BOOLEAN
         /\ e.changed \subseteq Items /\ e.verified \subseteq Items
BY DEF Facts

LEMMA FactsOf ==
  ASSUME NEW steps \in Nat, NEW calls \in Nat, NEW successes \in Nat, NEW writes \in Nat,
         NEW attempted \in BOOLEAN, NEW changed \in SUBSET Items, NEW verified \in SUBSET Items,
         NEW evidence \in BOOLEAN
  PROVE  [steps |-> steps, calls |-> calls, successes |-> successes, writes |-> writes,
          attempted |-> attempted, changed |-> changed, verified |-> verified,
          evidence |-> evidence] \in Facts
BY DEF Facts

\* What a result of a tool does to the facts: a counted write takes all
\* evidence back, anything else gives evidence to the items of the call only.
LEMMA ToolFacts ==
  ASSUME NEW e \in Facts, NEW t, NEW c, NEW supports \in SUBSET Items, NEW r
  PROVE  LET n == RecordToolResult(e, t, c, supports, r) IN
         /\ n \in Facts /\ n.steps = e.steps /\ n.writes >= e.writes
         /\ n.writes > e.writes => IsWrite(c) /\ n.verified = {}
         /\ n.writes = e.writes => n.changed = e.changed
         /\ n.verified \subseteq e.verified \cup supports
<1> DEFINE wrote == IsWrite(c) /\ r.ok /\ r.changed
           proves == Proves(e, t, c, r)
           successes == IF r.ok THEN e.successes + 1 ELSE e.successes
           writes == IF wrote THEN e.writes + 1 ELSE e.writes
           attempted == e.attempted \/ IsWrite(c)
           changed == IF wrote THEN e.changed \cup supports ELSE e.changed
           verified == IF wrote THEN {} ELSE IF proves THEN e.verified \cup supports ELSE e.verified
           n == [steps |-> e.steps, calls |-> e.calls, successes |-> successes, writes |-> writes,
                 attempted |-> attempted, changed |-> changed, verified |-> verified,
                 evidence |-> TRUE]
<1>1. RecordToolResult(e, t, c, supports, r) = n
  BY DEF RecordToolResult
<1>2. successes \in Nat /\ writes \in Nat
  BY FactsHave
<1>3. attempted \in BOOLEAN
  OBVIOUS
<1>4. changed \in SUBSET Items /\ verified \in SUBSET Items
  BY FactsHave
<1>5. writes >= e.writes /\ (writes > e.writes => wrote) /\ (writes = e.writes => ~wrote)
  BY FactsHave
<1>6. (wrote => verified = {}) /\ (~wrote => changed = e.changed)
      /\ verified \subseteq e.verified \cup supports
  OBVIOUS
<1>7. wrote => IsWrite(c)
  OBVIOUS
<1> HIDE DEF wrote, proves, successes, writes, attempted, changed, verified
<1>8. n \in Facts
  BY <1>2, <1>3, <1>4, FactsHave, FactsOf
<1> QED BY <1>1, <1>5, <1>6, <1>7, <1>8

LEMMA StaticFacts ==
  ASSUME NEW e \in Facts, NEW t, NEW settled \in SUBSET Items
  PROVE  LET n == RecordStaticVerification(e, t, settled) IN
         /\ n \in Facts /\ n.steps = e.steps /\ n.writes = e.writes /\ n.changed = e.changed
         /\ n.verified \subseteq e.verified \cup settled
<1>1. \/ RecordStaticVerification(e, t, settled) = e
      \/ RecordStaticVerification(e, t, settled) = [e EXCEPT !.verified = @ \cup settled]
  BY DEF RecordStaticVerification
<1>2. [e EXCEPT !.verified = @ \cup settled] \in Facts
  BY DEF Facts
<1>3. LET n == [e EXCEPT !.verified = @ \cup settled]
      IN  /\ n.steps = e.steps /\ n.writes = e.writes /\ n.changed = e.changed
          /\ n.verified = e.verified \cup settled
  BY DEF Facts
<1> QED BY <1>1, <1>2, <1>3

-----------------------------------------------------------------------------
(* The results of a batch, one after the other *)

FlagsOK(f) == {"hard", "cancelled", "provider"} \subseteq DOMAIN f
SameEnds(f, h) ==
  /\ FlagsOK(f)
  /\ f.hard = h.hard /\ f.cancelled = h.cancelled /\ f.provider = h.provider

StampOK(s) ==
  /\ s \in [total : Nat, wrote : Nat, proof : [Items -> Nat]]
  /\ s.wrote <= s.total

Current(e, s) == \A i \in e.verified : s.proof[i] >= s.wrote

SomeWritten == \E f \in Files : base[f] # Untouched

\* Facts and evidence as they are after some of the results.
TakenOK(a) ==
  /\ a.goal \in Graphs /\ a.exec \in Facts /\ a.exec.steps = exec.steps
  /\ SameEnds(a.flags, flags)
  /\ StampOK(a.stamp) /\ a.stamp.total = stamp.total
  /\ Current(a.exec, a.stamp)
  /\ a.exec.writes > 0 => SomeWritten
  /\ turn = 1 /\ a.exec.changed # {} => a.exec.writes > 0
  /\ \A i \in a.exec.verified :
       \/ i \in exec.verified
       \/ a.stamp.proof[i] = stamp.total
  /\ \A i \in Items : a.stamp.proof[i] \in {stamp.proof[i], stamp.total}

\* A call of the batch, with what came of it.
EntryOK(b) ==
  /\ {"call", "supports", "spec", "verify", "done", "r"} \subseteq DOMAIN b
  /\ b.supports \subseteq Items
  /\ b.call \in Calls
  /\ "finds" \in DOMAIN b.r /\ b.r.finds \subseteq Files
  /\ IsWrite(b.call) => base[b.call.file] # Untouched

LEMMA WriteHasFile == ASSUME NEW c \in Calls, IsWrite(c) PROVE c.file \in Files
BY AgentLoopAssumption DEF IsWrite

\* What a new record of the evidence shows.
LEMMA Stamped ==
  ASSUME NEW s, StampOK(s), NEW wrote \in {s.wrote, s.total}, NEW marked
  PROVE  LET n == [total |-> s.total, wrote |-> wrote,
                   proof |-> [i \in Items |-> IF i \in marked THEN s.total ELSE s.proof[i]]]
         IN  /\ StampOK(n) /\ n.total = s.total /\ n.wrote = wrote
             /\ \A i \in Items : n.proof[i] = IF i \in marked THEN s.total ELSE s.proof[i]
<1> DEFINE p == [i \in Items |-> IF i \in marked THEN s.total ELSE s.proof[i]]
<1>1. s.total \in Nat /\ s.wrote \in Nat /\ s.proof \in [Items -> Nat] /\ s.wrote <= s.total
  BY DEF StampOK
<1>2. p \in [Items -> Nat]
  BY <1>1
<1>3. \A i \in Items : p[i] = IF i \in marked THEN s.total ELSE s.proof[i]
  OBVIOUS
<1> HIDE DEF p
<1>4. wrote \in Nat /\ wrote <= s.total
  BY <1>1
<1> QED BY <1>1, <1>2, <1>3, <1>4 DEF StampOK

LEMMA RecordedOK ==
  ASSUME NEW a, TakenOK(a), NEW b, EntryOK(b), NEW holds \in SUBSET Items,
         StampOK(stamp)
  PROVE  TakenOK(Recorded(a, b, holds))
<1> DEFINE e == RecordToolResult(a.exec, task, b.call, b.supports, b.r)
           kind == IF b.spec THEN EvidenceKind(a.goal, task, b.call, b.verify, b.r)
                   ELSE "NoInformation"
           g == IF b.spec THEN RecordResult(a.goal, task, b.call, b.supports, b.verify, b.r)
                ELSE a.goal
           exact == IF kind = "VerificationPassed" /\ task.idempotent /\ ~e.attempted
                       /\ CanConclude(g, task)
                    THEN RecordStaticVerification(e, task, b.supports) ELSE e
           settled == IF kind \in {"ChangeApplied", "AlreadySatisfied"}
                      THEN Settled(g, task, holds) ELSE {}
           final == IF settled = {} THEN exact ELSE RecordStaticVerification(exact, task, settled)
           fl == [a.flags EXCEPT
                   !.baseline = @ \/ (kind = "VerificationPassed" /\ RequiresWorkspaceChange(task)
                                      /\ final.writes = 0),
                   !.notified = @ /\ kind = "NoInformation"]
           wrote == IF e.writes > a.exec.writes THEN a.stamp.total ELSE a.stamp.wrote
           marked == {i \in Items : i \in final.verified /\ (i \in settled \/ i \in b.supports)}
           st == [total |-> a.stamp.total, wrote |-> wrote,
                  proof |-> [i \in Items |-> IF i \in marked THEN a.stamp.total ELSE a.stamp.proof[i]]]
           new == SettleStaticConvergence(g, settled)
           n == [goal |-> new, exec |-> final, flags |-> fl, stamp |-> st]
<1>1. Recorded(a, b, holds) = n
  BY DEF Recorded
<1>2. g \in Graphs
  BY ResultInGraph DEF TakenOK, EntryOK
<1>3. settled \in SUBSET Items
  BY DEF Settled
<1>4. new \in Graphs
  BY <1>2, SettledIsGraph
<1>5. /\ e \in Facts /\ e.steps = exec.steps /\ e.writes >= a.exec.writes
      /\ e.writes > a.exec.writes => IsWrite(b.call) /\ e.verified = {}
      /\ e.writes = a.exec.writes => e.changed = a.exec.changed
      /\ e.verified \subseteq a.exec.verified \cup b.supports
  BY ToolFacts DEF TakenOK, EntryOK
<1> HIDE DEF e, kind, g, new
<1>6. /\ exact \in Facts /\ exact.steps = e.steps /\ exact.writes = e.writes
      /\ exact.changed = e.changed /\ exact.verified \subseteq e.verified \cup b.supports
  BY <1>5, StaticFacts DEF EntryOK
<1> HIDE DEF exact
<1> HIDE DEF settled
<1>7. /\ final \in Facts /\ final.steps = exec.steps /\ final.writes = e.writes
      /\ final.changed = e.changed
      /\ final.verified \subseteq e.verified \cup b.supports \cup settled
  BY <1>3, <1>5, <1>6, StaticFacts
<1> HIDE DEF final
<1>8. SameEnds(fl, flags)
  BY DEF SameEnds, FlagsOK, TakenOK
<1> HIDE DEF fl
<1>9. wrote \in {a.stamp.wrote, a.stamp.total} /\ StampOK(a.stamp)
  BY DEF TakenOK
<1>10. /\ StampOK(st) /\ st.total = a.stamp.total /\ st.wrote = wrote
       /\ \A i \in Items : st.proof[i] = IF i \in marked THEN a.stamp.total ELSE a.stamp.proof[i]
  <2> HIDE DEF wrote, marked
  <2> QED BY <1>9, Stamped
<1>11. \A i \in final.verified : i \in Items /\ (i \in marked \/ (i \in a.exec.verified /\ i \in e.verified))
  <2>1. final.verified \subseteq Items
    BY <1>7, FactsHave
  <2>2. e.verified \subseteq a.exec.verified \cup b.supports
    BY <1>5
  <2>3. final.verified \subseteq e.verified \cup b.supports \cup settled
    BY <1>7
  <2>4. ASSUME NEW i \in final.verified, i \notin marked
        PROVE  i \in a.exec.verified /\ i \in e.verified
    <3>1. i \in Items /\ i \notin settled /\ i \notin b.supports
      BY <2>1, <2>4
    <3> HIDE DEF marked
    <3> QED BY <2>2, <2>3, <3>1
  <2> HIDE DEF marked
  <2> QED BY <2>1, <2>4
<1>12. a.stamp.total \in Nat /\ a.stamp.wrote \in Nat /\ a.stamp.wrote <= a.stamp.total
       /\ a.stamp.proof \in [Items -> Nat] /\ a.stamp.total = stamp.total
  BY DEF TakenOK, StampOK
<1>13. e.writes \in Nat /\ a.exec.writes \in Nat
  BY <1>5 DEF TakenOK, Facts
<1> HIDE DEF marked, st
<1>14. Current(final, st)
  <2> SUFFICES ASSUME NEW i \in final.verified PROVE st.proof[i] >= st.wrote
    BY DEF Current
  <2>1. CASE i \in marked
    BY <1>10, <1>11, <1>12, <2>1
  <2>2. CASE i \notin marked
    <3>1. i \in a.exec.verified /\ i \in Items /\ ~ (e.writes > a.exec.writes)
      BY <1>5, <1>11, <2>2
    <3>2. st.wrote = a.stamp.wrote /\ st.proof[i] = a.stamp.proof[i]
      BY <1>10, <2>2, <3>1
    <3>3. a.stamp.proof[i] >= a.stamp.wrote
      BY <3>1 DEF TakenOK, Current
    <3> QED BY <3>2, <3>3
  <2> QED BY <2>1, <2>2
<1>15. final.writes > 0 => SomeWritten
  <2>1. CASE e.writes > a.exec.writes
    <3>1. IsWrite(b.call) /\ b.call \in Calls /\ base[b.call.file] # Untouched
      BY <1>5, <2>1 DEF EntryOK
    <3> QED BY <3>1, WriteHasFile DEF SomeWritten
  <2>2. CASE ~ (e.writes > a.exec.writes)
    <3>1. final.writes = a.exec.writes
      BY <1>5, <1>7, <1>13, <2>2
    <3> QED BY <3>1 DEF TakenOK
  <2> QED BY <2>1, <2>2
<1>16. turn = 1 /\ final.changed # {} => final.writes > 0
  <2>1. CASE e.writes > a.exec.writes
    BY <1>7, <1>13, <2>1
  <2>2. CASE ~ (e.writes > a.exec.writes)
    <3>1. e.writes = a.exec.writes
      BY <1>5, <1>13, <2>2
    <3> QED BY <3>1, <1>5, <1>7 DEF TakenOK
  <2> QED BY <2>1, <2>2
<1>17. \A i \in Items : st.proof[i] \in {stamp.proof[i], stamp.total}
  BY <1>10, <1>12 DEF TakenOK
<1>18. ASSUME NEW i \in final.verified
       PROVE  i \in exec.verified \/ st.proof[i] = stamp.total
  <2>1. CASE i \in marked
    BY <1>10, <1>11, <1>12, <2>1
  <2>2. CASE i \notin marked
    <3>1. i \in a.exec.verified /\ i \in Items /\ st.proof[i] = a.stamp.proof[i]
      BY <1>10, <1>11, <2>2
    <3> QED BY <3>1 DEF TakenOK
  <2> QED BY <2>1, <2>2
<1>19. n.goal = new /\ n.exec = final /\ n.flags = fl /\ n.stamp = st
  OBVIOUS
<1> HIDE DEF n
<1>20. st.total = stamp.total
  BY <1>10, <1>12
<1>21. TakenOK(n)
  BY <1>4, <1>7, <1>8, <1>10, <1>14, <1>15, <1>16, <1>17, <1>18, <1>19, <1>20 DEF TakenOK
<1> QED BY <1>1, <1>21

TakenUpTo(a, holds, n) ==
  a = [k \in 0 .. n |->
         IF k = 0 THEN [goal |-> goal, exec |-> exec, flags |-> flags, stamp |-> stamp]
         ELSE Recorded(a[k - 1], batch[k], holds)]

LEMMA TakenExists ==
  ASSUME NEW holds
  PROVE  \A n \in Nat : \E a : TakenUpTo(a, holds, n)
<1> DEFINE Bad == {n \in Nat : ~ \E a : TakenUpTo(a, holds, n)}
<1>1. SUFFICES ASSUME Bad # {} PROVE FALSE
  OBVIOUS
<1>2. PICK n \in Bad : \A m \in Bad : n <= m
  <2>1. Bad \subseteq Nat
    OBVIOUS
  <2> HIDE DEF Bad
  <2> QED BY <1>1, <2>1, LeastNumber
<1> DEFINE start == [goal |-> goal, exec |-> exec, flags |-> flags, stamp |-> stamp]
<1>3. n # 0
  <2> DEFINE f == [k \in 0 .. 0 |-> start]
  <2>1. TakenUpTo(f, holds, 0)
    BY DEF TakenUpTo
  <2> QED BY <2>1
<1>4. n - 1 \in Nat /\ n - 1 \notin Bad
  BY <1>2, <1>3
<1>5. PICK a : TakenUpTo(a, holds, n - 1)
  BY <1>4
<1> DEFINE val(k) == IF k = 0 THEN start ELSE Recorded(a[k - 1], batch[k], holds)
<1> DEFINE h == [k \in 0 .. n |-> val(k)]
<1>6. \A k \in 0 .. n - 1 : h[k] = a[k]
  <2>1. \A k \in 0 .. n - 1 : a[k] = val(k)
    BY <1>5 DEF TakenUpTo
  <2>2. \A k \in 0 .. n - 1 : h[k] = val(k)
    BY <1>4
  <2> QED BY <2>1, <2>2
<1>7. TakenUpTo(h, holds, n)
  <2>1. h = [k \in 0 .. n |-> val(k)]
    OBVIOUS
  <2> HIDE DEF h
  <2>2. \A k \in 0 .. n : k # 0 => h[k - 1] = a[k - 1]
    BY <1>4, <1>6
  <2> QED BY <2>1, <2>2 DEF TakenUpTo
<1> QED BY <1>7

BatchOK ==
  \E n \in 0 .. MaxBatch : /\ DOMAIN batch = 1 .. n /\ Len(batch) = n
                           /\ \A k \in 1 .. n : EntryOK(batch[k])

LEMMA ResultsOK ==
  ASSUME NEW holds \in SUBSET Items, BatchOK, StampOK(stamp),
         TakenOK([goal |-> goal, exec |-> exec, flags |-> flags, stamp |-> stamp])
  PROVE  TakenOK(Results(holds))
<1> DEFINE N == Len(batch)
<1>0. N \in Nat /\ \A k \in 1 .. N : EntryOK(batch[k])
  BY AgentLoopAssumption DEF BatchOK
<1>1. PICK b : TakenUpTo(b, holds, N)
  BY <1>0, TakenExists
<1> DEFINE a == CHOOSE f : TakenUpTo(f, holds, N)
<1>2. Results(holds) = a[N]
  BY DEF Results, TakenUpTo
<1>3. TakenUpTo(a, holds, N)
  BY <1>1
<1> HIDE DEF a, N
<1>4. TakenOK(a[0])
  BY <1>0, <1>3 DEF TakenUpTo
<1>5. ASSUME NEW k \in 1 .. N, TakenOK(a[k - 1])
      PROVE  TakenOK(a[k])
  <2>0. k \in 0 .. N /\ k # 0 /\ EntryOK(batch[k])
    BY <1>0
  <2>1. a[k] = Recorded(a[k - 1], batch[k], holds)
    BY <1>3, <2>0 DEF TakenUpTo
  <2> QED BY <1>5, <2>0, <2>1, RecordedOK
<1>6. \A k \in Nat : k <= N => TakenOK(a[k])
  <2> DEFINE Bad == {k \in Nat : k <= N /\ ~TakenOK(a[k])}
  <2>1. SUFFICES ASSUME Bad # {} PROVE FALSE
    OBVIOUS
  <2>2. PICK k \in Bad : \A m \in Bad : k <= m
    <3>1. Bad \subseteq Nat
      OBVIOUS
    <3> HIDE DEF Bad
    <3> QED BY <2>1, <3>1, LeastNumber
  <2>3. k # 0
    BY <1>4
  <2>4. k - 1 \in Nat /\ k - 1 \notin Bad
    BY <2>2, <2>3
  <2>5. TakenOK(a[k - 1]) /\ k \in 1 .. N
    BY <1>0, <2>3, <2>4
  <2>6. TakenOK(a[k])
    BY <1>5, <2>5
  <2> QED BY <2>6
<1> QED BY <1>0, <1>2, <1>6

-----------------------------------------------------------------------------
(* The calls of a reply, one after the other *)

GatedUpTo(a, calls, advised, blocked, n) ==
  a = [k \in 0 .. n |->
         IF k = 0 THEN [goal |-> goal, used |-> {}, seen |-> {}, queue |-> <<>>]
         ELSE Gated(a[k - 1], calls[k], advised, blocked)]

LEMMA GatedExists ==
  ASSUME NEW calls, NEW advised, NEW blocked
  PROVE  \A n \in Nat : \E a : GatedUpTo(a, calls, advised, blocked, n)
<1> DEFINE Bad == {n \in Nat : ~ \E a : GatedUpTo(a, calls, advised, blocked, n)}
<1>1. SUFFICES ASSUME Bad # {} PROVE FALSE
  OBVIOUS
<1>2. PICK n \in Bad : \A m \in Bad : n <= m
  <2>1. Bad \subseteq Nat
    OBVIOUS
  <2> HIDE DEF Bad
  <2> QED BY <1>1, <2>1, LeastNumber
<1> DEFINE start == [goal |-> goal, used |-> {}, seen |-> {}, queue |-> <<>>]
<1>3. n # 0
  <2> DEFINE f == [k \in 0 .. 0 |-> start]
  <2>1. GatedUpTo(f, calls, advised, blocked, 0)
    BY DEF GatedUpTo
  <2> QED BY <2>1
<1>4. n - 1 \in Nat /\ n - 1 \notin Bad
  BY <1>2, <1>3
<1>5. PICK a : GatedUpTo(a, calls, advised, blocked, n - 1)
  BY <1>4
<1> DEFINE val(k) == IF k = 0 THEN start ELSE Gated(a[k - 1], calls[k], advised, blocked)
<1> DEFINE h == [k \in 0 .. n |-> val(k)]
<1>6. \A k \in 0 .. n - 1 : h[k] = a[k]
  <2>1. \A k \in 0 .. n - 1 : a[k] = val(k)
    BY <1>5 DEF GatedUpTo
  <2>2. \A k \in 0 .. n - 1 : h[k] = val(k)
    BY <1>4
  <2> QED BY <2>1, <2>2
<1>7. GatedUpTo(h, calls, advised, blocked, n)
  <2>1. h = [k \in 0 .. n |-> val(k)]
    OBVIOUS
  <2> HIDE DEF h
  <2>2. \A k \in 0 .. n : k # 0 => h[k - 1] = a[k - 1]
    BY <1>4, <1>6
  <2> QED BY <2>1, <2>2 DEF GatedUpTo
<1> QED BY <1>7

\* What is queued comes from the calls looked at so far.
QueuedOK(b) ==
  /\ {"call", "supports", "spec", "verify", "done", "r"} \subseteq DOMAIN b
  /\ b.supports \subseteq Items /\ b.call \in Calls
  /\ "finds" \in DOMAIN b.r /\ b.r.finds \subseteq Files

GatedOK(a, n) ==
  /\ a.goal \in Graphs
  /\ IsFiniteSet(a.seen)
  /\ \E m \in 0 .. n : /\ a.queue \in Seq(Range(a.queue)) /\ Len(a.queue) = m
                       /\ DOMAIN a.queue = 1 .. m
                       /\ \A k \in 1 .. m : QueuedOK(a.queue[k])

LEMMA GatedKeeps ==
  ASSUME goal \in Graphs, NEW a, NEW n \in Nat, GatedOK(a, n), NEW c \in Calls,
         NEW advised, NEW blocked
  PROVE  GatedOK(Gated(a, c, advised, blocked), n + 1)
<1> DEFINE sup == IF Controlled THEN Supports(a.goal, task, c, a.used) ELSE ProposalSupports(exec)
           spec == Controlled /\ HasActionSpec(a.goal, task, c, sup)
           used == IF Controlled /\ ~IsVerify(task, c)
                   THEN a.used \cup {NextAdmitted(a.goal, a.used)} ELSE a.used
           denied == Controlled /\ Denied(a.goal, task, c, advised)
           again == c \in a.seen \/ \E q \in a.seen : IsWrite(q) /\ IsWrite(c) /\ q.file = c.file
           verify == OfVerifyPhase(a.goal, task, c, sup)
           entry == [call |-> c, supports |-> sup, spec |-> spec, verify |-> verify,
                     done |-> FALSE, r |-> NoResult]
           newGoal == IF denied /\ spec THEN RecordGateRejection(a.goal, sup) ELSE a.goal
           seen == IF denied \/ again THEN a.seen ELSE a.seen \cup {c}
           queue == IF denied \/ again \/ c \in blocked THEN a.queue ELSE Append(a.queue, entry)
           n1 == [goal |-> newGoal, used |-> used, seen |-> seen, queue |-> queue]
<1>1. Gated(a, c, advised, blocked) = n1
  BY DEF Gated
<1>2. newGoal \in Graphs
  BY RejectionIsGraph DEF GatedOK
<1>3. IsFiniteSet(seen)
  BY FS_AddElement DEF GatedOK
<1>4. sup \subseteq Items
  BY SupportsAreItems, ProposalIsItem DEF GatedOK
<1> HIDE DEF sup, spec, verify
<1>5. QueuedOK(entry)
  BY <1>4 DEF QueuedOK, NoResult
<1> HIDE DEF entry
<1>6. PICK m \in 0 .. n : /\ a.queue \in Seq(Range(a.queue)) /\ Len(a.queue) = m
                          /\ DOMAIN a.queue = 1 .. m
                          /\ \A k \in 1 .. m : QueuedOK(a.queue[k])
  BY DEF GatedOK
<1>7. \E l \in 0 .. n + 1 : /\ queue \in Seq(Range(queue)) /\ Len(queue) = l
                            /\ DOMAIN queue = 1 .. l
                            /\ \A k \in 1 .. l : QueuedOK(queue[k])
  <2>1. CASE queue = a.queue
    <3>1. m \in 0 .. n + 1
      OBVIOUS
    <3> QED BY <1>6, <2>1, <3>1
  <2>2. CASE queue = Append(a.queue, entry)
    <3> DEFINE S == Range(a.queue) \cup {entry}
    <3>1. a.queue \in Seq(S) /\ entry \in S
      <4>1. Range(a.queue) \subseteq S
        OBVIOUS
      <4> HIDE DEF S
      <4>2. \A k \in 1 .. Len(a.queue) : a.queue[k] \in S
        BY <1>6, <4>1, ElementOfSeq
      <4>3. a.queue = [k \in 1 .. Len(a.queue) |-> a.queue[k]]
        BY <1>6
      <4> QED BY <1>6, <4>2, <4>3 DEF S
    <3> HIDE DEF S
    <3>2. /\ queue \in Seq(S) /\ Len(queue) = m + 1
          /\ \A k \in 1 .. m : queue[k] = a.queue[k]
          /\ queue[m + 1] = entry
      BY <1>6, <2>2, <3>1, AppendProperties
    <3>3. DOMAIN queue = 1 .. m + 1 /\ m + 1 \in 0 .. n + 1
      BY <3>2, LenProperties
    <3>4. \A k \in 1 .. m + 1 : QueuedOK(queue[k])
      BY <1>5, <1>6, <3>2
    <3>5. queue \in Seq(Range(queue))
      BY <3>2, <3>3 DEF Range
    <3> QED BY <3>2, <3>3, <3>4, <3>5
  <2> QED BY <2>1, <2>2
<1> HIDE DEF queue, seen, newGoal, used
<1>8. n1.goal = newGoal /\ n1.seen = seen /\ n1.queue = queue
  OBVIOUS
<1> HIDE DEF n1
<1>9. GatedOK(n1, n + 1)
  BY <1>2, <1>3, <1>7, <1>8 DEF GatedOK
<1> QED BY <1>1, <1>9

LEMMA AdmittedOK ==
  ASSUME goal \in Graphs, NEW calls \in BoundedSeq(Calls, MaxBatch), NEW advised, NEW blocked
  PROVE  GatedOK(Admitted(calls, advised, blocked), MaxBatch)
<1>1. PICK N \in 0 .. MaxBatch : calls \in [1 .. N -> Calls]
  BY DEF BoundedSeq, SeqOf
<1>2. N \in Nat /\ MaxBatch \in Nat /\ Len(calls) = N
  BY <1>1, AgentLoopAssumption
<1>3. PICK b : GatedUpTo(b, calls, advised, blocked, N)
  BY <1>2, GatedExists
<1> DEFINE a == CHOOSE f : GatedUpTo(f, calls, advised, blocked, N)
<1>4. Admitted(calls, advised, blocked) = a[N]
  BY <1>2 DEF Admitted, GatedUpTo
<1>5. GatedUpTo(a, calls, advised, blocked, N)
  BY <1>3
<1> HIDE DEF a
<1>6. GatedOK(a[0], 0)
  <2>1. a[0] = [goal |-> goal, used |-> {}, seen |-> {}, queue |-> <<>>]
    BY <1>2, <1>5 DEF GatedUpTo
  <2>2. <<>> \in Seq(Range(<<>>)) /\ Len(<<>>) = 0 /\ DOMAIN <<>> = 1 .. 0
    BY EmptySeq
  <2>3. 0 \in 0 .. 0 /\ (\A k \in 1 .. 0 : QueuedOK(a[0].queue[k]))
    OBVIOUS
  <2>4. a[0].goal = goal /\ a[0].seen = {} /\ a[0].queue = <<>>
    BY <2>1
  <2> QED BY <2>2, <2>3, <2>4, FS_EmptySet DEF GatedOK
<1>7. ASSUME NEW k \in 1 .. N, GatedOK(a[k - 1], k - 1)
      PROVE  GatedOK(a[k], k)
  <2>1. k \in 0 .. N /\ k # 0 /\ calls[k] \in Calls /\ k - 1 \in Nat /\ (k - 1) + 1 = k
    BY <1>1, <1>2
  <2>2. a[k] = Gated(a[k - 1], calls[k], advised, blocked)
    BY <1>5, <2>1 DEF GatedUpTo
  <2>3. GatedOK(Gated(a[k - 1], calls[k], advised, blocked), (k - 1) + 1)
    BY <1>7, <2>1, GatedKeeps
  <2> QED BY <2>1, <2>2, <2>3
<1>8. \A k \in Nat : k <= N => GatedOK(a[k], k)
  <2> DEFINE Bad == {k \in Nat : k <= N /\ ~GatedOK(a[k], k)}
  <2>1. SUFFICES ASSUME Bad # {} PROVE FALSE
    OBVIOUS
  <2>2. PICK k \in Bad : \A m \in Bad : k <= m
    <3>1. Bad \subseteq Nat
      OBVIOUS
    <3> HIDE DEF Bad
    <3> QED BY <2>1, <3>1, LeastNumber
  <2>3. k # 0
    BY <1>6
  <2>4. k - 1 \in Nat /\ k - 1 \notin Bad
    BY <2>2, <2>3
  <2>5. GatedOK(a[k - 1], k - 1) /\ k \in 1 .. N
    BY <1>2, <2>3, <2>4
  <2>6. GatedOK(a[k], k)
    BY <1>7, <2>5
  <2> QED BY <2>6
<1>9. GatedOK(a[N], N)
  BY <1>2, <1>8
<1>10. 0 .. N \subseteq 0 .. MaxBatch
  BY <1>1, <1>2
<1> QED BY <1>4, <1>9, <1>10 DEF GatedOK

-----------------------------------------------------------------------------
(* The reads of the log, file by file *)

LEMMA ReplayedGraph ==
  ASSUME NEW g \in Graphs, NEW f, NEW expected
  PROVE  Replay(g, f, expected) \in Graphs
<1> DEFINE c == [tool |-> "read", file |-> f]
           sup == Supports(g, task, c, {})
           r == [NoResult EXCEPT !.ok = TRUE, !.expected = expected]
           verify == OfVerifyPhase(g, task, c, sup)
<1>1. r.finds \subseteq Files
  BY DEF NoResult
<1> HIDE DEF r, c, sup, verify
<1>2. RecordResult(g, task, c, sup, verify, r) \in Graphs
  BY <1>1, ResultInGraph
<1> QED BY <1>2 DEF Replay, r, c, sup, verify

Replayed(g, f, now, expected) ==
  CASE views[f][now[f]] = 0 -> g
    [] views[f][now[f]] = 1 -> Replay(g, f, expected)
    [] OTHER -> Replay(Replay(g, f, expected), f, expected)

ReplayUpTo(a, g, now, expected, n) ==
  a = [k \in 0 .. n |-> IF k = 0 THEN g
                        ELSE Replayed(a[k - 1], SetToSeq(Files)[k], now, expected)]

LEMMA ReplayExists ==
  ASSUME NEW g, NEW now, NEW expected
  PROVE  \A n \in Nat : \E a : ReplayUpTo(a, g, now, expected, n)
<1> DEFINE Bad == {n \in Nat : ~ \E a : ReplayUpTo(a, g, now, expected, n)}
<1>1. SUFFICES ASSUME Bad # {} PROVE FALSE
  OBVIOUS
<1>2. PICK n \in Bad : \A m \in Bad : n <= m
  <2>1. Bad \subseteq Nat
    OBVIOUS
  <2> HIDE DEF Bad
  <2> QED BY <1>1, <2>1, LeastNumber
<1>3. n # 0
  <2> DEFINE f == [k \in 0 .. 0 |-> g]
  <2>1. ReplayUpTo(f, g, now, expected, 0)
    BY DEF ReplayUpTo
  <2> QED BY <2>1
<1>4. n - 1 \in Nat /\ n - 1 \notin Bad
  BY <1>2, <1>3
<1>5. PICK a : ReplayUpTo(a, g, now, expected, n - 1)
  BY <1>4
<1> DEFINE val(k) == IF k = 0 THEN g ELSE Replayed(a[k - 1], SetToSeq(Files)[k], now, expected)
<1> DEFINE h == [k \in 0 .. n |-> val(k)]
<1>6. \A k \in 0 .. n - 1 : h[k] = a[k]
  <2>1. \A k \in 0 .. n - 1 : a[k] = val(k)
    BY <1>5 DEF ReplayUpTo
  <2>2. \A k \in 0 .. n - 1 : h[k] = val(k)
    BY <1>4
  <2> QED BY <2>1, <2>2
<1>7. ReplayUpTo(h, g, now, expected, n)
  <2>1. h = [k \in 0 .. n |-> val(k)]
    OBVIOUS
  <2> HIDE DEF h
  <2>2. \A k \in 0 .. n : k # 0 => h[k - 1] = a[k - 1]
    BY <1>4, <1>6
  <2> QED BY <2>1, <2>2 DEF ReplayUpTo
<1> QED BY <1>7

LEMMA FrontierIsGraph ==
  ASSUME NEW g \in Graphs, NEW now, NEW expected
  PROVE  ResumeFrontier(g, now, expected) \in Graphs
<1> DEFINE N == Cardinality(Files)
<1>0. N \in Nat
  BY AgentLoopAssumption, FS_CardinalityType
<1>1. PICK b : ReplayUpTo(b, g, now, expected, N)
  BY <1>0, ReplayExists
<1> DEFINE a == CHOOSE f : ReplayUpTo(f, g, now, expected, N)
<1>2. ResumeFrontier(g, now, expected) = a[N]
  BY DEF ResumeFrontier, ReplayUpTo, Replayed
<1>3. ReplayUpTo(a, g, now, expected, N)
  BY <1>1
<1> HIDE DEF a, N
<1>4. a[0] \in Graphs
  BY <1>0, <1>3 DEF ReplayUpTo
<1>5. ASSUME NEW k \in 1 .. N, a[k - 1] \in Graphs
      PROVE  a[k] \in Graphs
  <2>1. k \in 0 .. N /\ k # 0
    BY <1>0
  <2>2. a[k] = Replayed(a[k - 1], SetToSeq(Files)[k], now, expected)
    BY <1>3, <2>1 DEF ReplayUpTo
  <2> QED BY <1>5, <2>2, ReplayedGraph DEF Replayed
<1>6. \A k \in Nat : k <= N => a[k] \in Graphs
  <2> DEFINE Bad == {k \in Nat : k <= N /\ a[k] \notin Graphs}
  <2>1. SUFFICES ASSUME Bad # {} PROVE FALSE
    OBVIOUS
  <2>2. PICK k \in Bad : \A m \in Bad : k <= m
    <3>1. Bad \subseteq Nat
      OBVIOUS
    <3> HIDE DEF Bad
    <3> QED BY <2>1, <3>1, LeastNumber
  <2>3. k # 0
    BY <1>4
  <2>4. k - 1 \in Nat /\ k - 1 \notin Bad
    BY <2>2, <2>3
  <2>5. a[k - 1] \in Graphs /\ k \in 1 .. N
    BY <1>0, <2>3, <2>4
  <2>6. a[k] \in Graphs
    BY <1>5, <2>5
  <2> QED BY <2>6
<1> QED BY <1>0, <1>2, <1>6

-----------------------------------------------------------------------------
(* The judgements at the end of a step *)

BudgetOK(b) == "hardSteps" \in DOMAIN b /\ b.hardSteps \in 0 .. HardSteps

JudgeOK(s) ==
  /\ DOMAIN s = {"flags", "debt", "budget"}
  /\ FlagsOK(s.flags) /\ s.debt \in Nat /\ BudgetOK(s.budget)

\* The turn is to end, whatever is owed: nothing is.
Ended(s) == s.flags.hard /\ s.debt = 0
Broken(s) == s.flags.cancelled \/ s.flags.provider

\* What a judgement may do to s: owe up to n steps more, but none when the
\* turn was cancelled or broken off.
Judged(s, t, n) ==
  /\ JudgeOK(t)
  /\ t.debt <= s.debt + n
  /\ t.budget.hardSteps = s.budget.hardSteps
  /\ (Broken(s) => Ended(s)) => (Broken(t) => Ended(t))

\* Two of the three steps that may be owed exclude each other.
OwesFirst == Recovering \/ step.tools \/ step.claim
OwesSecond == ~Recovering /\ ~step.tools
OwesThird == ~Recovering /\ ~step.claim
One(p) == IF p THEN 1 ELSE 0

LEMMA AtMostTwo == One(OwesFirst) + One(OwesSecond) + One(OwesThird) <= 2
BY DEF One, OwesFirst, OwesSecond, OwesThird

\* Flags of which others than the three are changed, and a hard stop.
LEMMA FlagSet ==
  /\ \A f : FlagsOK(f) =>
       /\ FlagsOK([f EXCEPT !.empties = 0]) /\ SameEnds([f EXCEPT !.empties = 0], f)
       /\ FlagsOK(HardStop(f)) /\ HardStop(f).hard = TRUE
       /\ HardStop(f).cancelled = f.cancelled /\ HardStop(f).provider = f.provider
       /\ LET e == [HardStop(f) EXCEPT !.provider = TRUE]
          IN  FlagsOK(e) /\ e.hard = TRUE /\ e.cancelled = f.cancelled
       /\ LET e == [HardStop(f) EXCEPT !.stalled = TRUE]
          IN  FlagsOK(e) /\ e.hard = TRUE /\ e.cancelled = f.cancelled /\ e.provider = f.provider
  /\ \A f, v : FlagsOK(f) =>
       /\ SameEnds(f, f)
       /\ SameEnds([f EXCEPT !.empties = v], f) /\ SameEnds([f EXCEPT !.repeats = v], f)
       /\ SameEnds([f EXCEPT !.streak = v], f) /\ SameEnds([f EXCEPT !.demanded = v], f)
       /\ SameEnds([f EXCEPT !.verified = v], f) /\ SameEnds([f EXCEPT !.notified = v], f)
       /\ SameEnds([f EXCEPT !.window = v], f) /\ SameEnds([f EXCEPT !.converged = v], f)
       /\ SameEnds([f EXCEPT !.answered = v], f)
<1>1. ASSUME NEW f, FlagsOK(f)
      PROVE  /\ FlagsOK([f EXCEPT !.empties = 0]) /\ SameEnds([f EXCEPT !.empties = 0], f)
             /\ FlagsOK(HardStop(f)) /\ HardStop(f).hard = TRUE
             /\ HardStop(f).cancelled = f.cancelled /\ HardStop(f).provider = f.provider
             /\ LET e == [HardStop(f) EXCEPT !.provider = TRUE]
                IN  FlagsOK(e) /\ e.hard = TRUE /\ e.cancelled = f.cancelled
             /\ LET e == [HardStop(f) EXCEPT !.stalled = TRUE]
                IN  FlagsOK(e) /\ e.hard = TRUE /\ e.cancelled = f.cancelled /\ e.provider = f.provider
  BY <1>1 DEF FlagsOK, SameEnds, HardStop
<1>2. ASSUME NEW f, NEW v, FlagsOK(f)
      PROVE  /\ SameEnds(f, f)
             /\ SameEnds([f EXCEPT !.empties = v], f) /\ SameEnds([f EXCEPT !.repeats = v], f)
             /\ SameEnds([f EXCEPT !.streak = v], f) /\ SameEnds([f EXCEPT !.demanded = v], f)
             /\ SameEnds([f EXCEPT !.verified = v], f) /\ SameEnds([f EXCEPT !.notified = v], f)
             /\ SameEnds([f EXCEPT !.window = v], f) /\ SameEnds([f EXCEPT !.converged = v], f)
             /\ SameEnds([f EXCEPT !.answered = v], f)
  BY <1>2 DEF FlagsOK, SameEnds
<1> QED BY <1>1, <1>2

\* The ways in which the judgements change s.
LEMMA JudgeSet ==
  ASSUME NEW s, JudgeOK(s)
  PROVE  /\ \A f : SameEnds(f, s.flags) =>
              /\ Judged(s, [s EXCEPT !.flags = f], 0)
              /\ Judged(s, [s EXCEPT !.flags = f, !.debt = 0], 0)
              /\ ~s.flags.hard \/ ~Broken(s) =>
                   Judged(s, [s EXCEPT !.flags = f, !.debt = @ + 1], 1)
         /\ \A f : FlagsOK(f) /\ f.hard = TRUE => Judged(s, [s EXCEPT !.flags = f, !.debt = 0], 0)
<1>0. s.debt \in Nat /\ FlagsOK(s.flags) /\ BudgetOK(s.budget) /\ DOMAIN s = {"flags", "debt", "budget"}
  BY DEF JudgeOK
<1>1. ASSUME NEW f, SameEnds(f, s.flags)
      PROVE  Judged(s, [s EXCEPT !.flags = f], 0)
  BY <1>0, <1>1 DEF Judged, JudgeOK, SameEnds, Ended, Broken
<1>2. ASSUME NEW f, SameEnds(f, s.flags)
      PROVE  Judged(s, [s EXCEPT !.flags = f, !.debt = 0], 0)
  BY <1>0, <1>2 DEF Judged, JudgeOK, SameEnds, Ended, Broken
<1>3. ASSUME NEW f, SameEnds(f, s.flags), ~s.flags.hard \/ ~Broken(s)
      PROVE  Judged(s, [s EXCEPT !.flags = f, !.debt = @ + 1], 1)
  BY <1>0, <1>3 DEF Judged, JudgeOK, SameEnds, Ended, Broken
<1>4. ASSUME NEW f, FlagsOK(f), f.hard = TRUE
      PROVE  Judged(s, [s EXCEPT !.flags = f, !.debt = 0], 0)
  BY <1>0, <1>4 DEF Judged, JudgeOK, Ended, Broken
<1> QED BY <1>1, <1>2, <1>3, <1>4

LEMMA JudgedMore ==
  ASSUME NEW s, NEW t, NEW n \in Nat, NEW m \in Nat, n <= m, JudgeOK(s), Judged(s, t, n)
  PROVE  Judged(s, t, m)
BY DEF Judged, JudgeOK

LEMMA OwedOK ==
  ASSUME NEW s, JudgeOK(s)
  PROVE  Judged(s, Owed(s), One(OwesFirst))
<1> DEFINE g == IF ~Recovering /\ (step.text # None \/ step.tools)
                THEN [s.flags EXCEPT !.empties = 0] ELSE s.flags
<1>0. FlagsOK(s.flags)
  BY DEF JudgeOK
<1>1. SameEnds(g, s.flags)
  BY <1>0, FlagSet
<1> HIDE DEF g
<1>2. FlagsOK(g) /\ g.hard = s.flags.hard
  BY <1>1 DEF SameEnds
<1> DEFINE p == [HardStop(g) EXCEPT !.provider = TRUE]
           q == [g EXCEPT !.empties = @ + 1]
           owe == step.tools \/ step.claim
<1>3. FlagsOK(p) /\ p.hard = TRUE
  BY <1>2, FlagSet
<1>4. SameEnds(q, s.flags)
  <2>1. SameEnds(q, g)
    BY <1>2, FlagSet
  <2> QED BY <1>1, <2>1 DEF SameEnds
<1>5. \/ g.hard /\ Owed(s) = [s EXCEPT !.flags = g]
      \/ Owed(s) = [s EXCEPT !.flags = p, !.debt = 0]
      \/ ~g.hard /\ Recovering /\ Owed(s) = [s EXCEPT !.flags = q, !.debt = @ + 1]
      \/ ~g.hard /\ owe /\ Owed(s) = [s EXCEPT !.flags = g, !.debt = @ + 1]
      \/ ~g.hard /\ Owed(s) = [s EXCEPT !.flags = g, !.debt = @]
  <2> DEFINE many == g.empties >= EmptyRetries[step.empty]
             few == g.empties < EmptyRetries[step.empty]
  <2>1. Owed(s) = CASE g.hard -> [s EXCEPT !.flags = g]
                    [] ~g.hard /\ Recovering /\ many -> [s EXCEPT !.flags = p, !.debt = 0]
                    [] ~g.hard /\ Recovering /\ few -> [s EXCEPT !.flags = q, !.debt = @ + 1]
                    [] OTHER -> [s EXCEPT !.flags = g, !.debt = IF owe THEN @ + 1 ELSE @]
    BY DEF Owed, g
  <2> HIDE DEF p, q, owe, many, few
  <2>2. [s EXCEPT !.flags = g, !.debt = IF owe THEN @ + 1 ELSE @]
          = IF owe THEN [s EXCEPT !.flags = g, !.debt = @ + 1] ELSE [s EXCEPT !.flags = g, !.debt = @]
    OBVIOUS
  <2>3. CASE g.hard /\ ~ (~g.hard /\ Recovering /\ many) /\ ~ (~g.hard /\ Recovering /\ few)
    BY <2>1, <2>3, Zenon
  <2>4. CASE ~g.hard
    BY <2>1, <2>2, <2>4
  <2> QED BY <2>3, <2>4
<1> HIDE DEF p, q
<1>6. One(OwesFirst) \in {0, 1} /\ (Recovering \/ owe => One(OwesFirst) = 1)
  BY DEF One, OwesFirst
<1>7. [s EXCEPT !.flags = g, !.debt = @] = [s EXCEPT !.flags = g]
  BY DEF JudgeOK
<1>8. \/ Judged(s, Owed(s), 0)
      \/ One(OwesFirst) = 1 /\ Judged(s, Owed(s), 1)
  <2>1. Judged(s, [s EXCEPT !.flags = g], 0)
    BY <1>1, JudgeSet
  <2>2. Judged(s, [s EXCEPT !.flags = p, !.debt = 0], 0)
    BY <1>3, JudgeSet
  <2>3. ~s.flags.hard => Judged(s, [s EXCEPT !.flags = q, !.debt = @ + 1], 1)
    BY <1>4, JudgeSet
  <2>4. ~s.flags.hard => Judged(s, [s EXCEPT !.flags = g, !.debt = @ + 1], 1)
    BY <1>1, JudgeSet
  <2> HIDE DEF owe
  <2>5. CASE Owed(s) \in {[s EXCEPT !.flags = g], [s EXCEPT !.flags = p, !.debt = 0]}
    BY <2>1, <2>2, <2>5
  <2>6. CASE ~g.hard /\ Recovering /\ Owed(s) = [s EXCEPT !.flags = q, !.debt = @ + 1]
    BY <1>2, <1>6, <2>3, <2>6
  <2>7. CASE ~g.hard /\ owe /\ Owed(s) = [s EXCEPT !.flags = g, !.debt = @ + 1]
    BY <1>2, <1>6, <2>4, <2>7
  <2> QED BY <1>5, <1>7, <2>5, <2>6, <2>7
<1> QED BY <1>6, <1>8, JudgedMore

LEMMA StalledOK ==
  ASSUME NEW s, JudgeOK(s)
  PROVE  Judged(s, Stalled(s), 0) /\ (Broken(Stalled(s)) <=> Broken(s))
<1> DEFINE f == [HardStop(s.flags) EXCEPT !.stalled = TRUE]
<1>1. FlagsOK(s.flags) /\ DOMAIN s = {"flags", "debt", "budget"}
  BY DEF JudgeOK
<1>2. /\ FlagsOK(f) /\ f.hard = TRUE
      /\ f.cancelled = s.flags.cancelled /\ f.provider = s.flags.provider
  BY <1>1, FlagSet
<1>3. Stalled(s) = [s EXCEPT !.flags = f, !.debt = 0]
  BY DEF Stalled
<1> HIDE DEF f
<1>4. Judged(s, Stalled(s), 0)
  <2>1. \A g : FlagsOK(g) /\ g.hard = TRUE => Judged(s, [s EXCEPT !.flags = g, !.debt = 0], 0)
    BY JudgeSet
  <2>2. Judged(s, [s EXCEPT !.flags = f, !.debt = 0], 0)
    BY <1>2, <2>1, Zenon
  <2> QED BY <1>3, <2>2
<1>5. Stalled(s).flags = f
  BY <1>1, <1>3
<1> QED BY <1>2, <1>4, <1>5 DEF Broken

\* One judgement after the other.
LEMMA JudgedTwice ==
  ASSUME NEW s, NEW t, NEW u, NEW n \in Nat, NEW m \in Nat, JudgeOK(s),
         Judged(s, t, n), Judged(t, u, m)
  PROVE  Judged(s, u, n + m)
BY DEF Judged, JudgeOK

LEMMA MonitoredOK ==
  ASSUME NEW s, JudgeOK(s)
  PROVE  Judged(s, Monitored(s), 0) /\ (Broken(Monitored(s)) <=> Broken(s))
<1> DEFINE n == IF step.tools THEN 0
                ELSE s.flags.repeats + (IF step.text = "recurrent" THEN 1 ELSE 0)
           low == Lower(n, RepeatStop)
           t == [s EXCEPT !.flags.repeats = low]
<1>1. Monitored(s) = t \/ Monitored(s) = Stalled(t)
  BY DEF Monitored
<1> HIDE DEF low
<1> DEFINE f == [s.flags EXCEPT !.repeats = low]
<1>2. Judged(s, t, 0) /\ (Broken(t) <=> Broken(s))
  <2>1. FlagsOK(s.flags) /\ DOMAIN s = {"flags", "debt", "budget"}
    BY DEF JudgeOK
  <2>2. SameEnds(f, s.flags)
    BY <2>1, FlagSet
  <2>3. t = [s EXCEPT !.flags = f] /\ t.flags = f
    BY <2>1
  <2> HIDE DEF f, t
  <2> QED BY <2>2, <2>3, JudgeSet DEF Broken, SameEnds
<1> HIDE DEF t
<1>3. Judged(t, Stalled(t), 0) /\ (Broken(Stalled(t)) <=> Broken(t))
  BY <1>2, StalledOK DEF Judged
<1>4. Judged(s, Stalled(t), 0)
  BY <1>2, <1>3, JudgedTwice
<1>5. CASE Monitored(s) = t
  BY <1>2, <1>5, Zenon
<1>6. CASE Monitored(s) = Stalled(t)
  BY <1>2, <1>3, <1>4, <1>6, Zenon
<1> QED BY <1>1, <1>5, <1>6

LEMMA TextGuardOK ==
  ASSUME NEW s, JudgeOK(s), NEW hard, Broken(s) => hard
  PROVE  \/ Judged(s, TextGuard(s, hard), 0)
         \/ OwesSecond /\ Judged(s, TextGuard(s, hard), 1)
<1> DEFINE textOnly == /\ Controlled /\ ~hard /\ ~Recovering /\ ~step.tools
                       /\ step.text # None /\ ~DeliveryReady
           streak == Lower(s.flags.streak + 1, 3)
           after == IF s.flags.baseline /\ ~ImplementationWorkflow THEN 1 ELSE 2
           f == [s.flags EXCEPT !.streak = streak]
           t == [s EXCEPT !.flags.streak = streak]
           d == [f EXCEPT !.demanded = TRUE]
           z == [[s.flags EXCEPT !.streak = 0] EXCEPT !.demanded = FALSE]
<1>1. \/ textOnly /\ TextGuard(s, hard) = [t EXCEPT !.flags.demanded = TRUE, !.debt = @ + 1]
      \/ TextGuard(s, hard) = Stalled(t)
      \/ TextGuard(s, hard) = t
      \/ TextGuard(s, hard) = [s EXCEPT !.flags.streak = 0, !.flags.demanded = FALSE]
      \/ TextGuard(s, hard) = s
  BY DEF TextGuard
<1>2. textOnly => OwesSecond /\ ~Broken(s)
  BY DEF OwesSecond
<1> HIDE DEF textOnly, streak, after
<1>3. FlagsOK(s.flags) /\ DOMAIN s = {"flags", "debt", "budget"}
  BY DEF JudgeOK
<1>4. t = [s EXCEPT !.flags = f] /\ [t EXCEPT !.flags.demanded = TRUE, !.debt = @ + 1]
        = [s EXCEPT !.flags = d, !.debt = @ + 1]
  BY <1>3
<1>5. [s EXCEPT !.flags.streak = 0, !.flags.demanded = FALSE] = [s EXCEPT !.flags = z]
  BY <1>3
<1>6. SameEnds(f, s.flags)
  BY <1>3, FlagSet
<1>7. SameEnds(d, s.flags)
  <2> HIDE DEF f
  <2>0. FlagsOK(f)
    BY <1>6 DEF SameEnds
  <2>1. SameEnds(d, f)
    BY <2>0, FlagSet
  <2> QED BY <1>6, <2>1 DEF SameEnds
<1>8. SameEnds(z, s.flags)
  <2> DEFINE y == [s.flags EXCEPT !.streak = 0]
  <2>1. SameEnds(y, s.flags)
    BY <1>3, FlagSet
  <2> HIDE DEF y
  <2>0. FlagsOK(y)
    BY <2>1 DEF SameEnds
  <2>2. SameEnds([y EXCEPT !.demanded = FALSE], y)
    BY <2>0, FlagSet
  <2> QED BY <2>1, <2>2 DEF SameEnds, y
<1> HIDE DEF f, d, z
<1>9. Judged(s, t, 0)
  BY <1>4, <1>6, JudgeSet
<1>10. Judged(s, [s EXCEPT !.flags = z], 0)
  BY <1>8, JudgeSet
<1>11. textOnly => Judged(s, [s EXCEPT !.flags = d, !.debt = @ + 1], 1)
  BY <1>2, <1>7, JudgeSet
<1>12. Judged(s, Stalled(t), 0)
  <2> HIDE DEF t
  <2>1. Judged(t, Stalled(t), 0)
    BY <1>9, StalledOK DEF Judged
  <2> QED BY <1>9, <2>1, JudgedTwice
<1>13. Judged(s, s, 0)
  BY DEF Judged, JudgeOK
<1> HIDE DEF t
<1> QED BY <1>1, <1>2, <1>4, <1>5, <1>9, <1>10, <1>11, <1>12, <1>13

\* A correction owes a step, where nothing has ended the turn.
LEMMA CorrectedOK ==
  ASSUME NEW s, JudgeOK(s), ~s.flags.hard
  PROVE  Judged(s, Corrected(s), 1)
<1> DEFINE f == [s.flags EXCEPT !.notified = TRUE]
<1>1. FlagsOK(s.flags) /\ DOMAIN s = {"flags", "debt", "budget"}
  BY DEF JudgeOK
<1>2. Corrected(s) = [s EXCEPT !.flags = f, !.debt = @ + 1]
  BY <1>1 DEF Corrected
<1>3. SameEnds(f, s.flags)
  BY <1>1, FlagSet
<1> HIDE DEF f
<1> QED BY <1>2, <1>3, JudgeSet

LEMMA VerifiedEndOK ==
  ASSUME NEW s, JudgeOK(s)
  PROVE  Judged(s, VerifiedEnd(s), 0)
<1> DEFINE f == [s.flags EXCEPT !.verified = TRUE]
<1>1. FlagsOK(s.flags) /\ DOMAIN s = {"flags", "debt", "budget"}
  BY DEF JudgeOK
<1>2. VerifiedEnd(s) = [s EXCEPT !.flags = f, !.debt = 0]
  BY <1>1 DEF VerifiedEnd
<1>3. SameEnds(f, s.flags)
  BY <1>1, FlagSet
<1> HIDE DEF f
<1>4. Judged(s, [s EXCEPT !.flags = f, !.debt = 0], 0)
  BY <1>3, JudgeSet
<1> QED BY <1>2, <1>4

\* The window moves, the hard budget stays.
LEMMA WindowOK ==
  ASSUME NEW b, BudgetOK(b)
  PROVE  /\ BudgetOK(ExtendWindow(b)) /\ ExtendWindow(b).hardSteps = b.hardSteps
         /\ BudgetOK(ArmFinalWindow(exec, b)) /\ ArmFinalWindow(exec, b).hardSteps = b.hardSteps
BY DEF BudgetOK, ExtendWindow, ArmFinalWindow

LEMMA ControlledOK ==
  ASSUME NEW s, JudgeOK(s)
  PROVE  Judged(s, ControlledVerdict(s), 0) \/ Judged(s, ControlledVerdict(s), 1)
<1>1. \/ ControlledVerdict(s) = VerifiedEnd(s)
      \/ ~s.flags.hard /\ ControlledVerdict(s) = Corrected(s)
      \/ ControlledVerdict(s) = s
  BY DEF ControlledVerdict
<1>2. Judged(s, s, 0)
  BY DEF Judged, JudgeOK
<1> QED BY <1>1, <1>2, VerifiedEndOK, CorrectedOK

LEMMA OpenOK ==
  ASSUME NEW s, JudgeOK(s)
  PROVE  Judged(s, OpenVerdict(s), 0) \/ Judged(s, OpenVerdict(s), 1)
<1> DEFINE w == [s.flags EXCEPT !.window = TRUE]
           wc == [w EXCEPT !.converged = FALSE]
           c == [s.flags EXCEPT !.converged = TRUE]
           used == [s EXCEPT !.flags.window = TRUE]
           x == ExtendWindow(s.budget)
           a == ArmFinalWindow(exec, s.budget)
<1>0. FlagsOK(s.flags) /\ BudgetOK(s.budget) /\ s.debt \in Nat /\ DOMAIN s = {"flags", "debt", "budget"}
  BY DEF JudgeOK
<1>1. \/ OpenVerdict(s) = [used EXCEPT !.budget = ExtendWindow(@), !.flags.converged = FALSE]
      \/ OpenVerdict(s) = [used EXCEPT !.budget = ArmFinalWindow(exec, @)]
      \/ OpenVerdict(s) = used
      \/ OpenVerdict(s) = [s EXCEPT !.flags.converged = TRUE,
                                    !.debt = IF s.flags.hard THEN @ ELSE @ + 1]
      \/ OpenVerdict(s) = VerifiedEnd(s)
      \/ ~s.flags.hard /\ OpenVerdict(s) = Corrected(s)
      \/ OpenVerdict(s) = s
  BY DEF OpenVerdict
<1>2. SameEnds(w, s.flags) /\ SameEnds(c, s.flags)
  BY <1>0, FlagSet
<1>3. SameEnds(wc, s.flags)
  <2> HIDE DEF w
  <2>0. FlagsOK(w)
    BY <1>2 DEF SameEnds
  <2>1. SameEnds(wc, w)
    BY <2>0, FlagSet
  <2> QED BY <1>2, <2>1 DEF SameEnds
<1>4. /\ used = [s EXCEPT !.flags = w]
      /\ [used EXCEPT !.budget = ExtendWindow(@), !.flags.converged = FALSE]
           = [s EXCEPT !.flags = wc, !.budget = x]
      /\ [used EXCEPT !.budget = ArmFinalWindow(exec, @)] = [s EXCEPT !.flags = w, !.budget = a]
  BY <1>0
<1>5. [s EXCEPT !.flags.converged = TRUE, !.debt = IF s.flags.hard THEN @ ELSE @ + 1]
        = IF s.flags.hard THEN [s EXCEPT !.flags = c] ELSE [s EXCEPT !.flags = c, !.debt = @ + 1]
  BY <1>0
<1>6. BudgetOK(x) /\ x.hardSteps = s.budget.hardSteps /\ BudgetOK(a) /\ a.hardSteps = s.budget.hardSteps
  BY <1>0, WindowOK
<1> HIDE DEF w, wc, c, x, a
<1>7. \A f, b : SameEnds(f, s.flags) /\ BudgetOK(b) /\ b.hardSteps = s.budget.hardSteps =>
        Judged(s, [s EXCEPT !.flags = f, !.budget = b], 0)
  BY <1>0 DEF Judged, JudgeOK, SameEnds, Ended, Broken
<1>8. Judged(s, used, 0)
  BY <1>2, <1>4, JudgeSet
<1>9. /\ Judged(s, [s EXCEPT !.flags = wc, !.budget = x], 0)
      /\ Judged(s, [s EXCEPT !.flags = w, !.budget = a], 0)
  BY <1>2, <1>3, <1>6, <1>7
<1>10. IF s.flags.hard THEN Judged(s, [s EXCEPT !.flags = c], 0)
       ELSE Judged(s, [s EXCEPT !.flags = c, !.debt = @ + 1], 1)
  BY <1>2, JudgeSet
<1>11. Judged(s, s, 0)
  BY DEF Judged, JudgeOK
<1> HIDE DEF used
<1> QED BY <1>1, <1>4, <1>5, <1>8, <1>9, <1>10, <1>11, VerifiedEndOK, CorrectedOK

LEMMA VerdictOK ==
  ASSUME NEW s, JudgeOK(s)
  PROVE  \/ Judged(s, Verdict(s), 0)
         \/ OwesThird /\ Judged(s, Verdict(s), 1)
<1>1. Verdict(s) = s \/ (OwesThird /\ Verdict(s) \in {ControlledVerdict(s), OpenVerdict(s)})
  BY DEF Verdict, OwesThird
<1>2. Judged(s, s, 0)
  BY DEF Judged, JudgeOK
<1> QED BY <1>1, <1>2, ControlledOK, OpenOK

\* The four together owe two steps at most.
LEMMA AllJudged ==
  ASSUME NEW s, JudgeOK(s), Broken(s) => Ended(s)
  PROVE  LET owed == Owed(s) IN Judged(s, Verdict(TextGuard(Monitored(owed), owed.flags.hard)), 2)
<1> DEFINE o == Owed(s)
           mon == Monitored(o)
           g == TextGuard(mon, o.flags.hard)
           v == Verdict(g)
           one == One(OwesFirst)
<1>1. Judged(s, o, one) /\ JudgeOK(o)
  BY OwedOK DEF Judged
<1> HIDE DEF o
<1>2. Judged(o, mon, 0) /\ JudgeOK(mon) /\ (Broken(mon) <=> Broken(o))
  BY <1>1, MonitoredOK DEF Judged
<1> HIDE DEF mon
<1>3. Broken(mon) => o.flags.hard
  BY <1>1, <1>2 DEF Judged, Ended
<1>4. PICK two \in {0, One(OwesSecond)} : Judged(mon, g, two) /\ JudgeOK(g)
  BY <1>2, <1>3, TextGuardOK DEF Judged, One
<1> HIDE DEF g
<1>5. PICK three \in {0, One(OwesThird)} : Judged(g, v, three)
  BY <1>4, VerdictOK DEF One
<1> HIDE DEF v
<1>6. one \in Nat /\ two \in Nat /\ three \in Nat /\ one + two + three <= 2
  <2>1. One(OwesFirst) \in Nat /\ One(OwesSecond) \in Nat /\ One(OwesThird) \in Nat
    BY DEF One
  <2> QED BY <2>1, AtMostTwo
<1> HIDE DEF one
<1>7. Judged(s, mon, one + 0)
  BY <1>1, <1>2, <1>6, JudgedTwice
<1>8. Judged(s, g, one + 0 + two)
  BY <1>4, <1>6, <1>7, JudgedTwice
<1>9. Judged(s, v, one + 0 + two + three)
  BY <1>5, <1>6, <1>8, JudgedTwice
<1>10. Judged(s, v, 2)
  BY <1>6, <1>9, JudgedMore
<1> QED BY <1>10 DEF v, g, mon, o

-----------------------------------------------------------------------------
(* The inductive invariant of a task's turns *)

PlacesOfStep == {"stream", "dispatch", "tail", "boundary"}
Places == {"gate", "request", "exit", "end", "done", "failed"} \cup PlacesOfStep

\* A turn that was cancelled or broken off owes no step any more.
BrokenOff ==
  flags.cancelled \/ flags.provider =>
    flags.hard /\ debt = 0 /\ pc \in {"boundary", "exit", "end"}

Shaped ==
  /\ StampOK(stamp) /\ BudgetOK(budget) /\ FlagsOK(flags) /\ BatchOK /\ BrokenOff

\* The steps of all turns, and what of the hard budget the task has left.
StepsOK ==
  /\ pc \notin {"end", "done"} =>
       /\ stamp.total = (HardSteps - budget.hardSteps) + exec.steps
       /\ exec.steps <= budget.hardSteps
       /\ turn > 1 => budget.hardSteps = ckpt.steps
  /\ pc \in {"end", "done"} => stamp.total <= HardSteps
  /\ pc \in {"end", "done"} /\ Resumable =>
       /\ stamp.total = HardSteps - ckpt.steps
       /\ \A i \in ckpt.verified : stamp.proof[i] >= stamp.wrote
  /\ pc = "done" => exec.steps = 0 /\ budget.hardSteps = HardSteps

EvidenceOK ==
  /\ Current(exec, stamp)
  /\ exec.writes > 0 => SomeWritten
  /\ turn = 1 /\ exec.changed # {} => exec.writes > 0

AgentInv ==
  /\ AgentTypeOK /\ Shaped /\ StepsOK /\ EvidenceOK
  /\ ResumedEvidenceCurrent /\ VerifiedIsProven

LEMMA TypedParts ==
  ASSUME AgentTypeOK
  PROVE  /\ task \in Tasks /\ governed \in Governors
         /\ disk \in [Files -> Contents] /\ base \in [Files -> Contents \cup {Untouched}]
         /\ goal \in Graphs /\ exec \in Facts /\ exec.steps \in Nat /\ pc \in Places
         /\ debt \in Nat /\ debt <= exec.steps + 1 /\ turn \in 1 .. MaxTurns
         /\ pc \in PlacesOfStep => debt < exec.steps
         /\ gov.frames \in 1 .. Frames
         /\ ckpt.verified \subseteq Items /\ ckpt.steps \in 0 .. HardSteps
<1>1. exec.steps \in Nat
  BY FactsHave DEF AgentTypeOK
<1> QED BY <1>1 DEF AgentTypeOK, Places, PlacesOfStep

LEMMA TypedNext ==
  ASSUME task' \in Tasks, governed' \in Governors,
         disk' \in [Files -> Contents], base' \in [Files -> Contents \cup {Untouched}],
         goal' \in Graphs, exec' \in Facts, pc' \in Places,
         debt' \in Nat, debt' <= exec'.steps + 1, turn' \in 1 .. MaxTurns,
         pc' \in PlacesOfStep => debt' < exec'.steps,
         gov'.frames \in 1 .. Frames,
         ckpt'.verified \subseteq Items, ckpt'.steps \in 0 .. HardSteps, BatchOK'
  PROVE  AgentTypeOK'
<1>1. exec'.steps \in Nat
  BY FactsHave
<1>2. debt' \in 0 .. exec'.steps + 1
  BY <1>1
<1>3. Len(batch') <= MaxBatch
  BY AgentLoopAssumption DEF BatchOK
<1> QED BY <1>2, <1>3 DEF AgentTypeOK, Places, PlacesOfStep

LEMMA BatchStays ==
  /\ BatchOK /\ UNCHANGED <<batch, base>> => BatchOK'
  /\ batch' = <<>> => BatchOK'
<1>1. ASSUME BatchOK, UNCHANGED <<batch, base>> PROVE BatchOK'
  <2>1. \A b : EntryOK(b)' <=> EntryOK(b)
    BY <1>1 DEF EntryOK
  <2> QED BY <1>1, <2>1 DEF BatchOK
<1>2. ASSUME batch' = <<>> PROVE BatchOK'
  <2>1. 0 \in 0 .. MaxBatch
    BY AgentLoopAssumption
  <2>2. DOMAIN batch' = 1 .. 0 /\ Len(batch') = 0 /\ 1 .. 0 = {}
    BY <1>2, EmptySeq
  <2> QED BY <2>1, <2>2 DEF BatchOK
<1> QED BY <1>1, <1>2

\* A step of the loop that changes neither facts nor files.
LEMMA OnlyControl ==
  ASSUME AgentInv, UNCHANGED <<task, governed, disk, base, goal, exec, ckpt, turn, stamp>>,
         pc \notin {"end", "done"}, pc' \in Places \ {"end", "done"},
         BudgetOK(budget'), budget'.hardSteps = budget.hardSteps,
         gov'.frames \in 1 .. Frames, FlagsOK(flags'), BatchOK', BrokenOff',
         debt' \in Nat, debt' <= exec.steps + 1, pc' \in PlacesOfStep => debt' < exec.steps
  PROVE  AgentInv'
<1>1. AgentTypeOK'
  BY TypedParts, TypedNext DEF AgentInv
<1>2. Shaped'
  BY DEF AgentInv, Shaped, StampOK, BudgetOK, FlagsOK
<1>3. StepsOK'
  BY DEF AgentInv, StepsOK, Places, PlacesOfStep
<1>4. EvidenceOK'
  BY DEF AgentInv, EvidenceOK, Current, SomeWritten
<1>5. ResumedEvidenceCurrent'
  BY DEF AgentInv, ResumedEvidenceCurrent
<1>6. VerifiedIsProven'
  BY DEF VerifiedIsProven
<1> QED BY <1>1, <1>2, <1>3, <1>4, <1>5, <1>6 DEF AgentInv

\* What OnlyControl asks of a step that leaves the batch, the budget and the
\* governor alone.
LEMMA OnlyPlace ==
  ASSUME AgentInv,
         UNCHANGED <<task, governed, disk, base, goal, exec, budget, batch, gov, ckpt, turn, stamp>>,
         pc \notin {"end", "done"}, pc' \in Places \ {"end", "done"},
         FlagsOK(flags'), BrokenOff',
         debt' \in Nat, debt' <= exec.steps + 1, pc' \in PlacesOfStep => debt' < exec.steps
  PROVE  AgentInv'
<1>1. BatchOK'
  BY BatchStays DEF AgentInv, Shaped
<1>2. BudgetOK(budget') /\ budget'.hardSteps = budget.hardSteps /\ gov'.frames \in 1 .. Frames
  BY TypedParts DEF AgentInv, Shaped
<1> QED BY <1>1, <1>2, OnlyControl

\* What a step that changes the flags needs to know of them.
LEMMA FlagsThen ==
  ASSUME AgentInv
  PROVE  /\ FlagsOK(flags)
         /\ pc \notin {"boundary", "exit", "end"} => ~flags.cancelled /\ ~flags.provider
BY DEF AgentInv, Shaped, BrokenOff

LEMMA BeginOK == ASSUME AgentInv, Begin PROVE AgentInv'
<1>1. FlagsOK(flags) /\ ~flags.cancelled /\ ~flags.provider
  BY FlagsThen DEF Begin
<1>2. FlagsOK(flags') /\ flags'.cancelled = flags.cancelled /\ flags'.provider = flags.provider
  BY <1>1 DEF Begin, FlagsOK
<1>3. BrokenOff'
  BY <1>1, <1>2 DEF BrokenOff
<1> QED BY <1>2, <1>3, OnlyPlace, TypedParts DEF Begin, AgentInv, Places, PlacesOfStep

LEMMA RenewPromptOK == ASSUME AgentInv, RenewPrompt PROVE AgentInv'
<1>1. FlagsOK(flags) /\ ~flags.cancelled /\ ~flags.provider
  BY FlagsThen DEF RenewPrompt
<1>2. FlagsOK(flags') /\ flags'.cancelled = flags.cancelled /\ flags'.provider = flags.provider
  BY <1>1 DEF RenewPrompt, FlagsOK
<1>3. BrokenOff'
  BY <1>1, <1>2 DEF BrokenOff
<1> QED BY <1>2, <1>3, OnlyPlace, TypedParts DEF RenewPrompt, AgentInv, Places, PlacesOfStep

LEMMA PromptExhaustedOK == ASSUME AgentInv, PromptExhausted PROVE AgentInv'
<1>1. FlagsOK(flags) /\ ~flags.cancelled /\ ~flags.provider
  BY FlagsThen DEF PromptExhausted
<1>2. FlagsOK(flags') /\ flags'.cancelled = flags.cancelled /\ flags'.provider = flags.provider
  BY <1>1 DEF PromptExhausted, FlagsOK
<1>3. BrokenOff'
  BY <1>1, <1>2 DEF BrokenOff
<1> QED BY <1>2, <1>3, OnlyPlace, TypedParts DEF PromptExhausted, AgentInv, Places, PlacesOfStep

LEMMA BudgetHitOK == ASSUME AgentInv, BudgetHit PROVE AgentInv'
<1>1. FlagsOK(flags) /\ ~flags.cancelled /\ ~flags.provider
  BY FlagsThen DEF BudgetHit
<1>2. FlagsOK(flags') /\ flags'.cancelled = flags.cancelled /\ flags'.provider = flags.provider
  BY <1>1 DEF BudgetHit, FlagsOK
<1>3. BrokenOff'
  BY <1>1, <1>2 DEF BrokenOff
<1> QED BY <1>2, <1>3, OnlyPlace, TypedParts DEF BudgetHit, AgentInv, Places, PlacesOfStep

\* Whatever breaks a reply off takes back what was owed.
LEMMA StoppedOK ==
  ASSUME AgentInv, pc \in PlacesOfStep, pc' = "boundary", debt' = 0,
         UNCHANGED <<task, governed, disk, base, goal, exec, budget, batch, gov, ckpt, turn, stamp>>,
         FlagsOK(flags'), flags'.hard
  PROVE  AgentInv'
<1>1. BrokenOff'
  BY DEF BrokenOff
<1>2. debt < exec.steps /\ debt \in Nat /\ exec.steps \in Nat
  BY TypedParts DEF AgentInv
<1>3. debt' \in Nat /\ debt' <= exec.steps + 1 /\ debt' < exec.steps
  BY <1>2
<1>4. pc' \in Places \ {"end", "done"} /\ pc \notin {"end", "done"}
  BY DEF Places, PlacesOfStep
<1> QED BY <1>1, <1>3, <1>4, OnlyPlace

LEMMA CancelOK == ASSUME AgentInv, Cancel PROVE AgentInv'
<1>1. FlagsOK(flags') /\ flags'.hard
  BY FlagsThen DEF Cancel, HardStop, FlagsOK
<1> QED BY <1>1, StoppedOK DEF Cancel, PlacesOfStep

LEMMA ProviderErrorOK == ASSUME AgentInv, ProviderError PROVE AgentInv'
<1>1. FlagsOK(flags') /\ flags'.hard
  BY FlagsThen DEF ProviderError, HardStop, FlagsOK
<1> QED BY <1>1, StoppedOK DEF ProviderError, PlacesOfStep

LEMMA MalformedOK == ASSUME AgentInv, MalformedCalls PROVE AgentInv'
<1>1. FlagsOK(flags') /\ flags'.hard
  BY FlagsThen DEF MalformedCalls, HardStop, FlagsOK
<1> QED BY <1>1, StoppedOK DEF MalformedCalls, PlacesOfStep

\* The loop goes on within a step, or leaves it.
LEMMA GoesOn ==
  ASSUME AgentInv, pc \in {"stream", "tail"}, pc' \in {"boundary", "failed"},
         UNCHANGED <<task, governed, disk, base, goal, exec, budget, batch, gov, ckpt, turn, stamp,
                     flags, debt>>
  PROVE  AgentInv'
<1>1. FlagsOK(flags') /\ BrokenOff'
  BY FlagsThen DEF BrokenOff
<1> QED BY <1>1, OnlyPlace, TypedParts DEF AgentInv, Places, PlacesOfStep

LEMMA TextReplyOK ==
  ASSUME AgentInv, NEW text, NEW claim, NEW empty, TextReply(text, claim, empty) PROVE AgentInv'
BY GoesOn DEF TextReply

LEMMA HookFailsOK == ASSUME AgentInv, HookFails PROVE AgentInv'
BY GoesOn DEF HookFails

LEMMA EndStreamOK == ASSUME AgentInv, EndStream PROVE AgentInv'
BY GoesOn DEF EndStream

LEMMA EndStepOK == ASSUME AgentInv, EndStep PROVE AgentInv'
<1> DEFINE f == [flags EXCEPT !.answered = @ \/ step.text # None]
           s == [flags |-> f, debt |-> debt, budget |-> budget]
           owed == Owed(s)
           last == Verdict(TextGuard(Monitored(owed), owed.flags.hard))
<1>1. /\ pc = "boundary"
      /\ flags' = last.flags /\ debt' = last.debt /\ budget' = last.budget
      /\ batch' = <<>>
      /\ \E over \in BOOLEAN :
           Observed(over) /\ pc' = IF over \/ last.debt = 0 THEN "exit" ELSE "request"
      /\ UNCHANGED <<task, governed, disk, base, goal, exec, ckpt, turn, stamp>>
  BY DEF EndStep
<1>2. FlagsOK(f) /\ f.hard = flags.hard /\ f.cancelled = flags.cancelled /\ f.provider = flags.provider
  BY FlagsThen DEF FlagsOK
<1> HIDE DEF f
<1>3. s.flags = f /\ s.debt = debt /\ s.budget = budget /\ DOMAIN s = {"flags", "debt", "budget"}
  OBVIOUS
<1> HIDE DEF s
<1>4. JudgeOK(s)
  BY <1>2, <1>3, TypedParts DEF JudgeOK, AgentInv, Shaped
<1>5. Broken(s) => Ended(s)
  BY <1>2, <1>3 DEF Broken, Ended, AgentInv, Shaped, BrokenOff
<1>6. Judged(s, last, 2)
  BY <1>4, <1>5, AllJudged
<1> HIDE DEF last
<1>7. /\ FlagsOK(flags') /\ debt' \in Nat /\ BudgetOK(budget')
      /\ debt' <= debt + 2 /\ budget'.hardSteps = budget.hardSteps
  BY <1>1, <1>3, <1>6 DEF Judged, JudgeOK
<1>8. flags'.cancelled \/ flags'.provider => flags'.hard /\ debt' = 0
  BY <1>1, <1>5, <1>6 DEF Judged, Broken, Ended
<1>9. debt < exec.steps /\ debt \in Nat /\ exec.steps \in Nat
  BY <1>1, TypedParts DEF AgentInv, PlacesOfStep
<1>10. debt' <= exec.steps + 1
  BY <1>7, <1>9
<1>11. pc' \in {"exit", "request"} /\ (debt' = 0 => pc' = "exit")
  BY <1>1
<1>12. gov'.frames \in 1 .. Frames
  <2>1. gov.frames \in 1 .. Frames /\ Frames \in Nat
    BY TypedParts, AgentLoopAssumption DEF AgentInv
  <2>2. gov' = gov \/ gov'.frames = gov.frames \/ (gov.frames > 1 /\ gov'.frames = gov.frames - 1)
    BY <1>1 DEF Observed
  <2> QED BY <2>1, <2>2
<1>13. BrokenOff'
  BY <1>8, <1>11 DEF BrokenOff
<1>14. pc' \in Places \ {"end", "done"} /\ pc' \notin PlacesOfStep /\ pc \notin {"end", "done"}
  BY <1>1, <1>11 DEF Places, PlacesOfStep
<1>15. BatchOK'
  BY <1>1, BatchStays
<1> QED BY <1>1, <1>7, <1>10, <1>12, <1>13, <1>14, <1>15, OnlyControl

LEMMA ClarifyOK == ASSUME AgentInv, Clarify PROVE AgentInv'
<1>1. /\ pc = "gate" /\ pc' = "end" /\ outcome' = "NeedsUserInput"
      /\ UNCHANGED <<task, governed, disk, base, goal, exec, budget, debt, flags, batch, gov,
                     ckpt, turn, stamp>>
  BY DEF Clarify
<1>2. BatchOK'
  BY <1>1, BatchStays DEF AgentInv, Shaped
<1>3. AgentTypeOK'
  BY <1>1, <1>2, TypedParts, TypedNext DEF AgentInv, Places, PlacesOfStep
<1>4. Shaped'
  BY <1>1, <1>2 DEF AgentInv, Shaped, StampOK, BudgetOK, FlagsOK, BrokenOff
<1>5. StepsOK'
  <2>1. stamp.total = (HardSteps - budget.hardSteps) + exec.steps /\ exec.steps <= budget.hardSteps
    BY <1>1 DEF AgentInv, StepsOK
  <2>2. exec.steps \in Nat /\ budget.hardSteps \in 0 .. HardSteps /\ HardSteps \in Nat
    BY TypedParts, AgentLoopAssumption DEF AgentInv, Shaped, BudgetOK
  <2>3. stamp.total <= HardSteps
    BY <2>1, <2>2
  <2> QED BY <1>1, <2>3 DEF StepsOK, Resumable
<1>6. EvidenceOK'
  BY <1>1 DEF AgentInv, EvidenceOK, Current, SomeWritten
<1>7. ResumedEvidenceCurrent'
  BY <1>1 DEF ResumedEvidenceCurrent
<1>8. VerifiedIsProven'
  BY <1>1 DEF VerifiedIsProven
<1> QED BY <1>3, <1>4, <1>5, <1>6, <1>7, <1>8 DEF AgentInv

LEMMA StartStepOK == ASSUME AgentInv, StartStep PROVE AgentInv'
<1>1. /\ pc = "request" /\ pc' = "stream" /\ debt > 0 /\ debt' = debt - 1
      /\ exec' = [exec EXCEPT !.steps = @ + 1] /\ stamp' = [stamp EXCEPT !.total = @ + 1]
      /\ batch' = <<>> /\ ~ (exec.steps >= budget.hardSteps)
      /\ UNCHANGED <<task, governed, disk, base, goal, budget, flags, gov, outcome, ckpt, turn>>
  BY DEF StartStep, HardExhausted
<1>2. BatchOK'
  BY <1>1, BatchStays
<1>3. /\ exec' \in Facts /\ exec'.steps = exec.steps + 1 /\ exec'.verified = exec.verified
      /\ exec'.writes = exec.writes /\ exec'.changed = exec.changed
  <2>1. exec \in Facts /\ exec.steps \in Nat
    BY TypedParts DEF AgentInv
  <2> QED BY <1>1, <2>1 DEF Facts
<1>4. /\ StampOK(stamp') /\ stamp'.total = stamp.total + 1
      /\ stamp'.wrote = stamp.wrote /\ stamp'.proof = stamp.proof
  BY <1>1 DEF AgentInv, Shaped, StampOK
<1>5. debt \in Nat /\ debt <= exec.steps + 1 /\ exec.steps \in Nat
  BY TypedParts DEF AgentInv
<1>6. debt' \in Nat /\ debt' <= exec'.steps + 1 /\ debt' < exec'.steps
  BY <1>1, <1>3, <1>5
<1>7. AgentTypeOK'
  BY <1>1, <1>2, <1>3, <1>6, TypedParts, TypedNext DEF AgentInv, Places, PlacesOfStep
<1>8. BrokenOff'
  BY <1>1 DEF AgentInv, Shaped, BrokenOff
<1>9. Shaped'
  BY <1>1, <1>2, <1>4, <1>8 DEF AgentInv, Shaped, BudgetOK, FlagsOK, StampOK
<1>10. StepsOK'
  <2>1. /\ stamp.total = (HardSteps - budget.hardSteps) + exec.steps /\ exec.steps <= budget.hardSteps
        /\ turn > 1 => budget.hardSteps = ckpt.steps
    BY <1>1 DEF AgentInv, StepsOK
  <2>2. exec.steps \in Nat /\ budget.hardSteps \in 0 .. HardSteps /\ HardSteps \in Nat
    BY TypedParts, AgentLoopAssumption DEF AgentInv, Shaped, BudgetOK
  <2>3. stamp.total \in Nat
    BY DEF AgentInv, Shaped, StampOK
  <2>4. stamp'.total = (HardSteps - budget.hardSteps) + exec'.steps /\ exec'.steps <= budget.hardSteps
    BY <1>1, <1>3, <1>4, <2>1, <2>2, <2>3
  <2> QED BY <1>1, <2>1, <2>4 DEF StepsOK
<1>11. EvidenceOK'
  <2>1. Current(exec', stamp')
    BY <1>3, <1>4 DEF AgentInv, EvidenceOK, Current
  <2> QED BY <1>1, <1>3, <2>1 DEF AgentInv, EvidenceOK, SomeWritten, Current
<1>12. ResumedEvidenceCurrent'
  BY <1>1, <1>3, <1>4 DEF AgentInv, ResumedEvidenceCurrent
<1>13. VerifiedIsProven'
  BY <1>1 DEF VerifiedIsProven
<1> QED BY <1>7, <1>9, <1>10, <1>11, <1>12, <1>13 DEF AgentInv

LEMMA CallReplyOK ==
  ASSUME AgentInv, NEW calls \in BoundedSeq(Calls, MaxBatch), NEW advised, NEW blocked,
         CallReply(calls, advised, blocked)
  PROVE  AgentInv'
<1> DEFINE all == Admitted(calls, advised, blocked)
           writes == {all.queue[k].call.file :
                        k \in {k \in 1 .. Len(all.queue) : IsWrite(all.queue[k].call)}}
           seen == Cardinality(all.seen)
<1>1. /\ pc = "stream" /\ batch' = all.queue /\ goal' = all.goal
      /\ exec' = [exec EXCEPT !.calls = @ + seen]
      /\ base' = [f \in Files |-> IF f \in writes /\ base[f] = Untouched THEN disk[f] ELSE base[f]]
      /\ pc' \in {"tail", "dispatch"}
      /\ UNCHANGED <<task, governed, disk, budget, debt, flags, gov, outcome, ckpt, turn, stamp>>
  BY DEF CallReply
<1>2. goal \in Graphs /\ disk \in [Files -> Contents] /\ base \in [Files -> Contents \cup {Untouched}]
  BY TypedParts DEF AgentInv
<1>3. GatedOK(all, MaxBatch)
  BY <1>2, AdmittedOK
<1> HIDE DEF all
<1>4. seen \in Nat /\ all.goal \in Graphs
  BY <1>3, FS_CardinalityType DEF GatedOK
<1> HIDE DEF seen
<1>5. PICK n \in 0 .. MaxBatch : /\ Len(all.queue) = n /\ DOMAIN all.queue = 1 .. n
                                 /\ \A k \in 1 .. n : QueuedOK(all.queue[k])
  BY <1>3 DEF GatedOK
<1>6. ASSUME NEW f \in Files PROVE disk[f] # Untouched
  <2>1. disk[f] \in Nat
    BY <1>2, AgentLoopAssumption
  <2> QED BY <2>1 DEF Untouched
<1>7. \A f \in Files : (f \in writes => base'[f] # Untouched) /\ (base[f] # Untouched => base'[f] # Untouched)
  <2> HIDE DEF writes
  <2> QED BY <1>1, <1>6
<1>8. base' \in [Files -> Contents \cup {Untouched}]
  <2> HIDE DEF writes
  <2> QED BY <1>1, <1>2
<1>9. ASSUME NEW k \in 1 .. n PROVE EntryOK(batch[k])'
  <2>1. QueuedOK(all.queue[k]) /\ batch'[k] = all.queue[k]
    BY <1>1, <1>5
  <2>2. IsWrite(all.queue[k].call) => all.queue[k].call.file \in writes
    BY <1>5
  <2>3. all.queue[k].call \in Calls
    BY <2>1 DEF QueuedOK
  <2>4. IsWrite(batch'[k].call) => base'[batch'[k].call.file] # Untouched
    BY <1>7, <2>1, <2>2, <2>3, WriteHasFile
  <2> QED BY <2>1, <2>4 DEF QueuedOK, EntryOK
<1> HIDE DEF writes
<1>10. BatchOK'
  BY <1>1, <1>5, <1>9 DEF BatchOK
<1>11. /\ exec' \in Facts /\ exec'.steps = exec.steps /\ exec'.verified = exec.verified
       /\ exec'.writes = exec.writes /\ exec'.changed = exec.changed
  BY <1>1, <1>4, TypedParts DEF AgentInv, Facts
<1>12. AgentTypeOK'
  BY <1>1, <1>4, <1>8, <1>10, <1>11, TypedParts, TypedNext DEF AgentInv, Places, PlacesOfStep
<1>13. BrokenOff'
  BY <1>1 DEF AgentInv, Shaped, BrokenOff
<1>14. Shaped'
  BY <1>1, <1>10, <1>13 DEF AgentInv, Shaped, BudgetOK, FlagsOK, StampOK
<1>15. StepsOK'
  BY <1>1, <1>11 DEF AgentInv, StepsOK
<1>16. EvidenceOK'
  <2>1. Current(exec', stamp')
    BY <1>1, <1>11 DEF AgentInv, EvidenceOK, Current
  <2>2. SomeWritten => SomeWritten'
    BY <1>7 DEF SomeWritten
  <2> QED BY <1>1, <1>11, <2>1, <2>2 DEF AgentInv, EvidenceOK, Current
<1>17. ResumedEvidenceCurrent'
  <2>1. (\A f \in Files : base'[f] = Untouched) => \A f \in Files : base[f] = Untouched
    BY <1>7
  <2> QED BY <1>1, <1>11, <2>1 DEF AgentInv, ResumedEvidenceCurrent
<1>18. VerifiedIsProven'
  BY <1>1 DEF VerifiedIsProven
<1> QED BY <1>12, <1>14, <1>15, <1>16, <1>17, <1>18 DEF AgentInv

\* A call is answered, with files that a result may name.
Answered(k) ==
  \E r : /\ batch' = [batch EXCEPT ![k].done = TRUE, ![k].r = r]
         /\ "finds" \in DOMAIN r /\ r.finds \subseteq Files

LEMMA ExecuteIs ==
  ASSUME NEW k, Execute(k)
  PROVE  LET c == batch[k].call
         IN  /\ Answered(k)
             /\ \/ disk' = disk
                \/ IsWrite(c) /\ \E v \in Contents : disk' = [disk EXCEPT ![c.file] = v]
<1> DEFINE c == batch[k].call
           Done(r) == batch' = [batch EXCEPT ![k].done = TRUE, ![k].r = r]
           Result(ok) == [NoResult EXCEPT !.ok = ok]
<1>1. \A ok : "finds" \in DOMAIN Result(ok) /\ Result(ok).finds = {}
  BY DEF NoResult
<1>2. \A r, v : "finds" \in DOMAIN r =>
        /\ "finds" \in DOMAIN [r EXCEPT !.expected = v] /\ [r EXCEPT !.expected = v].finds = r.finds
        /\ "finds" \in DOMAIN [r EXCEPT !.mention = v] /\ [r EXCEPT !.mention = v].finds = r.finds
        /\ "finds" \in DOMAIN [r EXCEPT !.changed = v] /\ [r EXCEPT !.changed = v].finds = r.finds
        /\ "finds" \in DOMAIN [r EXCEPT !.finds = v] /\ [r EXCEPT !.finds = v].finds = v
  OBVIOUS
<1>3. \A r, v, w : "finds" \in DOMAIN r =>
        /\ "finds" \in DOMAIN [r EXCEPT !.expected = v, !.seen = w]
        /\ [r EXCEPT !.expected = v, !.seen = w].finds = r.finds
  OBVIOUS
<1>4. \A r : Done(r) /\ "finds" \in DOMAIN r /\ r.finds \subseteq Files => Answered(k)
  BY DEF Answered
<1>5. \/ ~IsWrite(c) /\ Done(Result(FALSE)) /\ UNCHANGED disk
      \/ UNCHANGED disk /\ \E F \in SUBSET Files : Done([Result(TRUE) EXCEPT !.finds = F])
      \/ UNCHANGED disk /\ \E x \in BOOLEAN : Done([Result(TRUE) EXCEPT !.expected = x])
      \/ UNCHANGED disk
         /\ \E x \in {FALSE, task.idempotent} :
              Done([Result(TRUE) EXCEPT !.expected = x, !.seen = disk[c.file]])
      \/ UNCHANGED disk /\ Done(Result(TRUE))
      \/ UNCHANGED disk /\ \E M \in SUBSET batch[k].supports : Done([Result(FALSE) EXCEPT !.mention = M])
      \/ IsWrite(c) /\ \E v \in Contents, ok \in BOOLEAN :
           /\ disk' = [disk EXCEPT ![c.file] = v]
           /\ Done([Result(ok /\ v # disk[c.file]) EXCEPT !.changed = v # disk[c.file]])
  BY Zenon DEF Execute
<1> HIDE DEF Result, Done
<1>6. ASSUME UNCHANGED disk, NEW F \in SUBSET Files, Done([Result(TRUE) EXCEPT !.finds = F])
      PROVE  Answered(k)
  BY <1>1, <1>2, <1>4, <1>6
<1>7. ASSUME NEW x, Done([Result(TRUE) EXCEPT !.expected = x])
      PROVE  Answered(k)
  BY <1>1, <1>2, <1>4, <1>7
<1>8. ASSUME NEW x, Done([Result(TRUE) EXCEPT !.expected = x, !.seen = disk[c.file]])
      PROVE  Answered(k)
  BY <1>1, <1>3, <1>4, <1>8
<1>9. ASSUME NEW ok, Done(Result(ok))
      PROVE  Answered(k)
  BY <1>1, <1>4, <1>9
<1>10. ASSUME NEW M, Done([Result(FALSE) EXCEPT !.mention = M])
       PROVE  Answered(k)
  BY <1>1, <1>2, <1>4, <1>10
<1>11. ASSUME NEW ok, NEW w, Done([Result(ok) EXCEPT !.changed = w])
       PROVE  Answered(k)
  BY <1>1, <1>2, <1>4, <1>11
<1>12. Answered(k)
  BY <1>5, <1>6, <1>7, <1>8, <1>9, <1>10, <1>11
<1>13. disk' = disk \/ (IsWrite(c) /\ \E v \in Contents : disk' = [disk EXCEPT ![c.file] = v])
  BY <1>5
<1> QED BY <1>12, <1>13

LEMMA ExecuteOK ==
  ASSUME AgentInv, NEW k \in 1 .. Len(batch), Execute(k)
  PROVE  AgentInv'
<1> DEFINE c == batch[k].call
<1>1. PICK n \in 0 .. MaxBatch : /\ DOMAIN batch = 1 .. n /\ Len(batch) = n
                                 /\ \A l \in 1 .. n : EntryOK(batch[l])
  BY DEF AgentInv, Shaped, BatchOK
<1>2. /\ pc = "dispatch"
      /\ UNCHANGED <<task, governed, base, goal, exec, budget, pc, debt, flags, gov, outcome,
                     ckpt, turn, stamp>>
  BY DEF Execute
<1>3. k \in 1 .. n /\ EntryOK(batch[k]) /\ c \in Calls
  BY <1>1 DEF EntryOK
<1>4. /\ Answered(k)
      /\ \/ disk' = disk
         \/ IsWrite(c) /\ \E v \in Contents : disk' = [disk EXCEPT ![c.file] = v]
  BY ExecuteIs
<1>5. PICK r : /\ batch' = [batch EXCEPT ![k].done = TRUE, ![k].r = r]
               /\ "finds" \in DOMAIN r /\ r.finds \subseteq Files
  BY <1>4 DEF Answered
<1>6. DOMAIN batch' = 1 .. n /\ Len(batch') = n
  BY <1>1, <1>5
<1>7. \A l \in 1 .. n : EntryOK(batch[l])'
  <2>1. \A l \in 1 .. n : l # k => batch'[l] = batch[l]
    BY <1>1, <1>5
  <2>2. batch'[k] = [[batch[k] EXCEPT !.done = TRUE] EXCEPT !.r = r]
    BY <1>1, <1>3, <1>5
  <2>3. EntryOK(batch[k])'
    BY <1>2, <1>3, <1>5, <2>2 DEF EntryOK
  <2>4. \A l \in 1 .. n : l # k => EntryOK(batch[l])'
    BY <1>1, <1>2, <2>1 DEF EntryOK
  <2> QED BY <2>3, <2>4
<1>8. BatchOK'
  BY <1>6, <1>7 DEF BatchOK
<1>9. disk' \in [Files -> Contents]
  <2>1. disk \in [Files -> Contents]
    BY TypedParts DEF AgentInv
  <2> HIDE DEF c
  <2> QED BY <1>4, <2>1
<1>10. AgentTypeOK'
  BY <1>2, <1>8, <1>9, TypedParts, TypedNext DEF AgentInv, Places, PlacesOfStep
<1>11. Shaped'
  BY <1>2, <1>8 DEF AgentInv, Shaped, StampOK, BudgetOK, FlagsOK, BrokenOff
<1>12. StepsOK'
  BY <1>2 DEF AgentInv, StepsOK
<1>13. EvidenceOK'
  BY <1>2 DEF AgentInv, EvidenceOK, Current, SomeWritten
<1>14. ResumedEvidenceCurrent'
  <2>1. CASE disk' = disk
    BY <1>2, <2>1 DEF AgentInv, ResumedEvidenceCurrent
  <2>2. CASE IsWrite(c)
    <3>1. c.file \in Files /\ base[c.file] # Untouched
      BY <1>3, <2>2, WriteHasFile DEF EntryOK
    <3> HIDE DEF c
    <3> QED BY <1>2, <3>1 DEF ResumedEvidenceCurrent
  <2> QED BY <1>4, <2>1, <2>2
<1>15. VerifiedIsProven'
  BY <1>2 DEF VerifiedIsProven
<1> QED BY <1>10, <1>11, <1>12, <1>13, <1>14, <1>15 DEF AgentInv

LEMMA RecordBatchOK == ASSUME AgentInv, RecordBatch PROVE AgentInv'
<1>1. /\ pc = "dispatch" /\ pc' = "tail" /\ batch' = <<>>
      /\ UNCHANGED <<task, governed, disk, base, budget, debt, gov, outcome, ckpt, turn>>
  BY DEF RecordBatch
<1>2. PICK holds \in SUBSET Items :
        LET all == Results(holds)
        IN  goal' = all.goal /\ exec' = all.exec /\ flags' = all.flags /\ stamp' = all.stamp
  BY DEF RecordBatch
<1> DEFINE start == [goal |-> goal, exec |-> exec, flags |-> flags, stamp |-> stamp]
           all == Results(holds)
<1>3. TakenOK(start)
  <2>1. start.goal = goal /\ start.exec = exec /\ start.flags = flags /\ start.stamp = stamp
    OBVIOUS
  <2>2. StampOK(stamp) /\ FlagsOK(flags) /\ exec \in Facts /\ goal \in Graphs /\ exec.verified \subseteq Items
    BY TypedParts, FactsHave DEF AgentInv, Shaped
  <2>3. SameEnds(flags, flags)
    BY <2>2 DEF SameEnds
  <2> HIDE DEF start
  <2> QED BY <2>1, <2>2, <2>3 DEF TakenOK, AgentInv, EvidenceOK
<1>4. TakenOK(all)
  <2>1. BatchOK /\ StampOK(stamp)
    BY DEF AgentInv, Shaped
  <2> QED BY <1>3, <2>1, ResultsOK
<1>5. goal' = all.goal /\ exec' = all.exec /\ flags' = all.flags /\ stamp' = all.stamp
  BY <1>2
<1> HIDE DEF all, start
<1>6. /\ goal' \in Graphs /\ exec' \in Facts /\ exec'.steps = exec.steps
      /\ FlagsOK(flags') /\ flags'.hard = flags.hard
      /\ flags'.cancelled = flags.cancelled /\ flags'.provider = flags.provider
      /\ StampOK(stamp') /\ stamp'.total = stamp.total
      /\ Current(exec', stamp')
      /\ exec'.writes > 0 => SomeWritten
      /\ turn = 1 /\ exec'.changed # {} => exec'.writes > 0
      /\ \A i \in exec'.verified : i \in exec.verified \/ stamp'.proof[i] = stamp.total
      /\ \A i \in Items : stamp'.proof[i] \in {stamp.proof[i], stamp.total}
  BY <1>4, <1>5 DEF TakenOK, SameEnds
<1>7. BatchOK'
  BY <1>1, BatchStays
<1>8. AgentTypeOK'
  BY <1>1, <1>6, <1>7, TypedParts, TypedNext DEF AgentInv, Places, PlacesOfStep
<1>9. BrokenOff'
  BY <1>1, <1>6 DEF AgentInv, Shaped, BrokenOff
<1>10. Shaped'
  BY <1>1, <1>6, <1>7, <1>9 DEF AgentInv, Shaped, BudgetOK, FlagsOK, StampOK
<1>11. StepsOK'
  BY <1>1, <1>6 DEF AgentInv, StepsOK
<1>12. EvidenceOK'
  BY <1>1, <1>6 DEF EvidenceOK, SomeWritten, Current
<1>13. ResumedEvidenceCurrent'
  <2> SUFFICES ASSUME turn > 1, task.outcome = "Change", \A f \in Files : base[f] = Untouched,
                      NEW i \in exec'.verified
               PROVE  \/ stamp'.proof[i] > HardSteps - ckpt.steps
                      \/ \A f \in ckpt.files[i] : disk[f] = ckpt.disk[f]
    BY <1>1 DEF ResumedEvidenceCurrent
  <2>1. /\ stamp.total = (HardSteps - budget.hardSteps) + exec.steps
        /\ budget.hardSteps = ckpt.steps
    BY <1>1 DEF AgentInv, StepsOK
  <2>2. exec.steps > 0 /\ exec.steps \in Nat
    BY <1>1, TypedParts DEF AgentInv, PlacesOfStep
  <2>3. ckpt.steps \in Nat /\ HardSteps \in Nat
    BY TypedParts, AgentLoopAssumption DEF AgentInv
  <2>4. stamp.total > HardSteps - ckpt.steps
    BY <2>1, <2>2, <2>3
  <2>5. i \in Items
    BY <1>6, FactsHave
  <2>6. CASE stamp'.proof[i] = stamp.total
    BY <2>4, <2>6
  <2>7. CASE i \in exec.verified /\ stamp'.proof[i] = stamp.proof[i]
    BY <1>1, <2>7 DEF AgentInv, ResumedEvidenceCurrent
  <2> QED BY <1>6, <2>5, <2>6, <2>7
<1>14. VerifiedIsProven'
  BY <1>1 DEF VerifiedIsProven
<1> QED BY <1>8, <1>10, <1>11, <1>12, <1>13, <1>14 DEF AgentInv

-----------------------------------------------------------------------------
(* The end of a turn, and the next one *)

\* What the end does to the facts.
LEMMA RejectedFacts ==
  ASSUME NEW e \in Facts, NEW t, NEW net
  PROVE  LET n == RejectReverted(e, t, net) IN
         /\ n \in Facts /\ n.steps = e.steps /\ n.verified \subseteq e.verified
         /\ \/ n.writes = e.writes /\ n.changed = e.changed
            \/ n.writes = 0 /\ n.changed = {}
         /\ RequiresWorkspaceChange(t) /\ ~net => n.writes = 0
<1>1. \/ /\ RejectReverted(e, t, net) = e
         /\ ~ (RequiresWorkspaceChange(t) /\ e.writes > 0 /\ ~net)
      \/ RejectReverted(e, t, net) = [e EXCEPT !.writes = 0, !.changed = {}, !.verified = {}]
  BY DEF RejectReverted
<1> DEFINE n == [e EXCEPT !.writes = 0, !.changed = {}, !.verified = {}]
<1>2. n \in Facts /\ n.steps = e.steps /\ n.writes = 0 /\ n.changed = {} /\ n.verified = {}
  BY DEF Facts
<1> HIDE DEF n
<1>3. e.writes \in Nat
  BY FactsHave
<1>4. CASE RejectReverted(e, t, net) = n
  BY <1>2, <1>4
<1>5. CASE /\ RejectReverted(e, t, net) = e
           /\ ~ (RequiresWorkspaceChange(t) /\ e.writes > 0 /\ ~net)
  BY <1>3, <1>5
<1> QED BY <1>1, <1>4, <1>5 DEF n

LEMMA AnsweredFacts ==
  ASSUME NEW e \in Facts, NEW t, NEW answered
  PROVE  LET n == RecordDirectAnswer(e, t, answered) IN
         /\ n \in Facts /\ n.steps = e.steps /\ n.verified = e.verified
         /\ n.writes = e.writes /\ n.changed = e.changed
<1>1. \/ RecordDirectAnswer(e, t, answered) = e
      \/ RecordDirectAnswer(e, t, answered) = [e EXCEPT !.evidence = TRUE]
  BY DEF RecordDirectAnswer
<1> DEFINE n == [e EXCEPT !.evidence = TRUE]
<1>2. /\ n \in Facts /\ n.steps = e.steps /\ n.verified = e.verified
      /\ n.writes = e.writes /\ n.changed = e.changed
  BY DEF Facts
<1> HIDE DEF n
<1> QED BY <1>1, <1>2 DEF n

\* A delivery that counts as Verified is of a turn that was not broken off.
LEMMA VerifiedStop ==
  ASSUME NEW e, NEW t, DeliveryOutcome(e, t, StopCause(e)) = "Verified"
  PROVE  ~flags.cancelled /\ ~flags.provider
<1>1. DeliveryStatus(e, t, StopCause(e)) = "Completed"
  <2> DEFINE status == DeliveryStatus(e, t, StopCause(e))
  <2>1. status \in {"Completed", "Cancelled", "Blocked", "Paused"}
    BY DEF DeliveryStatus
  <2>2. DeliveryOutcome(e, t, StopCause(e)) =
          CASE status = "Completed" -> "Verified"
            [] status = "Cancelled" -> "Cancelled"
            [] status = "Blocked"   -> "SystemFailure"
            [] status = "Paused" ->
                 IF StopCause(e) \in {"BudgetWindowExhausted", "HardBudgetCeiling"} THEN "SystemFailure"
                 ELSE IF StopCause(e) = "HardStop" THEN "Interrupted" ELSE "PartialDelivery"
    BY DEF DeliveryOutcome
  <2> HIDE DEF status
  <2>3. status = "Completed"
    BY <2>1, <2>2
  <2> QED BY <2>3 DEF status
<1>2. StopCause(e) # "UserCancelled" /\ StopCause(e) # "ProviderError"
  BY <1>1 DEF DeliveryStatus
<1>3. flags.cancelled => StopCause(e) = "UserCancelled"
  BY DEF StopCause
<1>4. ~flags.cancelled /\ flags.provider => StopCause(e) = "ProviderError"
  BY DEF StopCause
<1> QED BY <1>2, <1>3, <1>4

LEMMA DeliverOK == ASSUME AgentInv, Deliver PROVE AgentInv'
<1> DEFINE touched == {f \in Files : base[f] # Untouched}
           net == \E f \in touched : disk[f] # base[f]
           rejected == IF touched = {} THEN exec ELSE RejectReverted(exec, task, net)
           e == RecordDirectAnswer(rejected, task, flags.answered)
           raw == DeliveryOutcome(e, task, StopCause(e))
           kept == IF governed /\ raw \notin {"Verified", "Cancelled"} THEN "PartialDelivery" ELSE raw
           marked == {i \in Items : CriterionVerdict(e, task, i) = "Investigated"}
<1>1. /\ pc = "exit" /\ pc' = "end"
      /\ exec' = e
      /\ outcome' = IF kept = "Verified" /\ ~CanComplete(e, task) THEN "PartialDelivery" ELSE kept
      /\ ckpt' = TaskCheckpoint(e)
      /\ UNCHANGED <<task, governed, disk, base, goal, budget, debt, flags, batch, gov, turn>>
  BY DEF Deliver
<1>2. stamp' = [stamp EXCEPT !.proof = [i \in Items |->
                 IF CriterionVerdict(e, task, i) = "Investigated" THEN stamp.total
                 ELSE stamp.proof[i]]]
  BY DEF Deliver
<1>3. exec \in Facts /\ StampOK(stamp)
  BY TypedParts DEF AgentInv, Shaped
<1>4. /\ rejected \in Facts /\ rejected.steps = exec.steps /\ rejected.verified \subseteq exec.verified
      /\ \/ rejected.writes = exec.writes /\ rejected.changed = exec.changed
         \/ rejected.writes = 0 /\ rejected.changed = {}
      /\ touched # {} /\ RequiresWorkspaceChange(task) /\ ~net => rejected.writes = 0
  <2> HIDE DEF touched, net
  <2> QED BY <1>3, RejectedFacts
<1> HIDE DEF rejected
<1>5. /\ e \in Facts /\ e.steps = exec.steps /\ e.verified \subseteq exec.verified
      /\ \/ e.writes = exec.writes /\ e.changed = exec.changed
         \/ e.writes = 0 /\ e.changed = {}
      /\ touched # {} /\ RequiresWorkspaceChange(task) /\ ~net => e.writes = 0
  <2> HIDE DEF touched, net
  <2> QED BY <1>4, AnsweredFacts
<1> HIDE DEF e
<1>6. /\ StampOK(stamp') /\ stamp'.total = stamp.total /\ stamp'.wrote = stamp.wrote
      /\ \A i \in Items : stamp'.proof[i] = IF i \in marked THEN stamp.total ELSE stamp.proof[i]
  <2> DEFINE p == [i \in Items |-> IF CriterionVerdict(e, task, i) = "Investigated" THEN stamp.total
                                   ELSE stamp.proof[i]]
  <2>1. stamp.proof \in [Items -> Nat] /\ stamp.total \in Nat
    BY <1>3 DEF StampOK
  <2>2. p \in [Items -> Nat]
    BY <2>1
  <2>3. \A i \in Items : p[i] = IF i \in marked THEN stamp.total ELSE stamp.proof[i]
    OBVIOUS
  <2>4. stamp' = [stamp EXCEPT !.proof = p]
    BY <1>2
  <2> HIDE DEF p, marked
  <2> QED BY <1>3, <2>2, <2>3, <2>4 DEF StampOK
<1>7. stamp.total \in Nat /\ stamp.wrote \in Nat /\ stamp.wrote <= stamp.total /\ stamp.proof \in [Items -> Nat]
  BY <1>3 DEF StampOK
<1>8. exec.verified \subseteq Items /\ e.verified \subseteq Items /\ exec.writes \in Nat
  BY <1>3, <1>5, FactsHave
<1>9. \A i \in Items : i \in marked \/ i \in exec.verified => stamp'.proof[i] >= stamp'.wrote
  <2>1. \A i \in exec.verified : stamp.proof[i] >= stamp.wrote
    BY DEF AgentInv, EvidenceOK, Current
  <2> HIDE DEF marked
  <2> QED BY <1>6, <1>7, <2>1
<1>10. /\ stamp.total = (HardSteps - budget.hardSteps) + exec.steps /\ exec.steps <= budget.hardSteps
       /\ exec.steps \in Nat /\ budget.hardSteps \in 0 .. HardSteps /\ HardSteps \in Nat
  BY <1>1, TypedParts, AgentLoopAssumption DEF AgentInv, StepsOK, Shaped, BudgetOK
<1>11. /\ ckpt'.verified \subseteq Items
       /\ ckpt'.steps = budget.hardSteps - exec.steps
       /\ \A i \in ckpt'.verified : i \in marked \/ i \in exec.verified
  <2>1. ckpt'.verified = {i \in Items : CriterionVerdict(e, task, i) \in {"Verified", "Investigated"}}
    BY <1>1 DEF TaskCheckpoint
  <2>2. ckpt'.steps = Saturating(budget.hardSteps, exec.steps)
    BY <1>1, <1>5 DEF TaskCheckpoint
  <2>3. Saturating(budget.hardSteps, exec.steps) = budget.hardSteps - exec.steps
    BY <1>10 DEF Saturating
  <2>4. \A i \in Items : CriterionVerdict(e, task, i) = "Verified" => i \in e.verified
    BY DEF CriterionVerdict
  <2>5. \A i \in ckpt'.verified : i \in marked \/ i \in e.verified
    BY <2>1, <2>4
  <2> QED BY <1>5, <2>1, <2>2, <2>3, <2>5
<1>12. BatchOK'
  BY <1>1, BatchStays DEF AgentInv, Shaped
<1>13. ckpt'.steps \in 0 .. HardSteps
  BY <1>10, <1>11
<1>14. AgentTypeOK'
  BY <1>1, <1>5, <1>11, <1>12, <1>13, TypedParts, TypedNext DEF AgentInv, Places, PlacesOfStep
<1>15. BrokenOff'
  BY <1>1 DEF AgentInv, Shaped, BrokenOff
<1>16. Shaped'
  BY <1>1, <1>6, <1>12, <1>15 DEF AgentInv, Shaped, BudgetOK, FlagsOK, StampOK
<1>17. StepsOK'
  <2>1. stamp'.total <= HardSteps /\ stamp'.total = HardSteps - ckpt'.steps
    BY <1>6, <1>7, <1>10, <1>11
  <2>2. \A i \in ckpt'.verified : stamp'.proof[i] >= stamp'.wrote
    BY <1>9, <1>11
  <2> QED BY <1>1, <2>1, <2>2 DEF StepsOK
<1>18. EvidenceOK'
  <2>1. Current(exec', stamp')
    BY <1>1, <1>5, <1>8, <1>9 DEF Current
  <2>2. exec.writes > 0 => SomeWritten
    BY DEF AgentInv, EvidenceOK
  <2>3. turn = 1 /\ exec.changed # {} => exec.writes > 0
    BY DEF AgentInv, EvidenceOK
  <2>4. exec'.writes > 0 => SomeWritten'
    BY <1>1, <1>5, <2>2 DEF SomeWritten
  <2>5. turn = 1 /\ exec'.changed # {} => exec'.writes > 0
    BY <1>1, <1>5, <2>3
  <2> QED BY <1>1, <2>1, <2>4, <2>5 DEF EvidenceOK, Current
<1>19. ResumedEvidenceCurrent'
  BY <1>1 DEF ResumedEvidenceCurrent
<1>20. VerifiedIsProven'
  <2> SUFFICES ASSUME outcome' = "Verified"
               PROVE  /\ ~flags.cancelled /\ ~flags.provider
                      /\ RequiresVerification(e, task) => e.verified = Items
                      /\ RequiresWorkspaceChange(task) =>
                           /\ turn = 1 => e.writes > 0
                           /\ e.writes > 0 => \E f \in Files : base[f] # Untouched /\ disk[f] # base[f]
    <3>1. (RequiresVerification(exec, task) => exec.verified = Items)' <=>
            (RequiresVerification(e, task) => e.verified = Items)
      BY <1>1 DEF RequiresVerification
    <3>2. RequiresWorkspaceChange(task)' <=> RequiresWorkspaceChange(task)
      BY <1>1 DEF RequiresWorkspaceChange
    <3> QED BY <1>1, <3>1, <3>2 DEF VerifiedIsProven
  <2>1. raw = "Verified" /\ CanComplete(e, task)
    <3> HIDE DEF raw
    <3> QED BY <1>1
  <2>2. ~flags.cancelled /\ ~flags.provider
    BY <2>1, VerifiedStop
  <2>3. RequiresVerification(e, task) => e.verified = Items
    BY <2>1 DEF CanComplete
  <2>4. RequiresWorkspaceChange(task) => e.writes > 0 \/ e.changed # {}
    BY <2>1 DEF CanComplete, RequiresWorkspaceChange
  <2>5. turn = 1 /\ RequiresWorkspaceChange(task) => e.writes > 0
    <3>1. turn = 1 /\ exec.changed # {} => exec.writes > 0
      BY DEF AgentInv, EvidenceOK
    <3> QED BY <1>5, <2>4, <3>1
  <2>6. ASSUME RequiresWorkspaceChange(task), e.writes > 0
        PROVE  \E f \in Files : base[f] # Untouched /\ disk[f] # base[f]
    <3>1. exec.writes > 0
      BY <1>5, <2>6
    <3>2. touched # {}
      BY <3>1 DEF AgentInv, EvidenceOK, SomeWritten
    <3>3. net
      <4>1. e.writes # 0
        BY <2>6
      <4> HIDE DEF net, touched
      <4> QED BY <1>5, <2>6, <3>2, <4>1
    <3> QED BY <3>3
  <2> QED BY <2>2, <2>3, <2>5, <2>6
<1> QED BY <1>14, <1>16, <1>17, <1>18, <1>19, <1>20 DEF AgentInv

LEMMA TurnEndOK == ASSUME AgentInv, TurnEnd PROVE AgentInv'
<1>1. /\ pc = "end" /\ pc' = "done" /\ goal' = FromContract /\ exec' = NewFacts({})
      /\ budget' = NewBudget(HardSteps, HardCalls) /\ flags' = FreshFlags
      /\ base' = [f \in Files |-> Untouched] /\ batch' = <<>> /\ debt' = 1
      /\ gov' = [frames |-> Frames, step |-> 0, writes |-> 0]
      /\ UNCHANGED <<task, governed, disk, outcome, ckpt, turn, stamp>>
  BY DEF TurnEnd, FreshTurn
<1>2. BatchOK'
  BY <1>1, BatchStays
<1>3. /\ exec' \in Facts /\ exec'.steps = 0 /\ exec'.writes = 0 /\ exec'.changed = {}
      /\ exec'.verified = {}
  BY <1>1 DEF NewFacts, Facts
<1>4. FlagsOK(flags') /\ ~flags'.cancelled /\ ~flags'.provider
  BY <1>1 DEF FreshFlags, FlagsOK
<1>5. BudgetOK(budget') /\ budget'.hardSteps = HardSteps
  BY <1>1, AgentLoopAssumption DEF NewBudget, BudgetOK
<1>6. gov'.frames \in 1 .. Frames
  BY <1>1, AgentLoopAssumption
<1>7. base' \in [Files -> Contents \cup {Untouched}] /\ goal' \in Graphs
  BY <1>1, ContractIsGraph
<1>8. debt' \in Nat /\ debt' <= exec'.steps + 1
  BY <1>1, <1>3
<1>9. AgentTypeOK'
  BY <1>1, <1>2, <1>3, <1>6, <1>7, <1>8, TypedParts, TypedNext DEF AgentInv, Places, PlacesOfStep
<1>10. Shaped'
  BY <1>1, <1>2, <1>4, <1>5 DEF AgentInv, Shaped, StampOK, BrokenOff
<1>11. StepsOK'
  BY <1>1, <1>3, <1>5 DEF AgentInv, StepsOK, Resumable
<1>12. EvidenceOK'
  BY <1>3 DEF EvidenceOK, Current
<1>13. ResumedEvidenceCurrent'
  BY <1>1 DEF ResumedEvidenceCurrent
<1>14. VerifiedIsProven'
  BY <1>1 DEF VerifiedIsProven
<1> QED BY <1>9, <1>10, <1>11, <1>12, <1>13, <1>14 DEF AgentInv

LEMMA ResumeOK == ASSUME AgentInv, Resume PROVE AgentInv'
<1>1. /\ pc = "done" /\ Resumable /\ turn < MaxTurns
      /\ disk' \in [Files -> Contents]
      /\ exec' = NewFacts(Restored(disk')) /\ budget' = ResumeBudget(budget)
      /\ pc' = "gate" /\ turn' = turn + 1
      /\ UNCHANGED <<task, governed, base, debt, flags, batch, gov, ckpt, stamp>>
  BY DEF Resume
<1>2. PICK found \in SUBSET Files, sure \in BOOLEAN, expected \in {FALSE, task.idempotent} :
        goal' = ResumeFrontier(ApplyGrounding(FromContract, found, sure), disk', expected)
  BY DEF Resume
<1>3. goal' \in Graphs
  BY <1>2, ContractIsGraph, GroundedIsGraph, FrontierIsGraph
<1> DEFINE R == Restored(disk')
<1>4. /\ R \subseteq ckpt.verified
      /\ task.outcome = "Change" => \A i \in R : \A f \in ckpt.files[i] : disk'[f] = ckpt.disk[f]
  BY DEF Restored
<1> HIDE DEF R
<1>5. ckpt.verified \subseteq Items /\ ckpt.steps \in 0 .. HardSteps
  BY TypedParts DEF AgentInv
<1>6. /\ exec' \in Facts /\ exec'.steps = 0 /\ exec'.writes = 0 /\ exec'.verified = R
  BY <1>1, <1>4, <1>5 DEF NewFacts, Facts, R
<1>7. exec.steps = 0 /\ budget.hardSteps = HardSteps /\ BudgetOK(budget)
  BY <1>1 DEF AgentInv, StepsOK, Shaped
<1>8. BudgetOK(budget') /\ budget'.hardSteps = ckpt.steps
  <2>1. HardSteps \in Nat
    BY AgentLoopAssumption
  <2>2. Lower(HardSteps, ckpt.steps) = ckpt.steps
    BY <1>5, <2>1 DEF Lower
  <2>3. "hardSteps" \in DOMAIN budget
    BY <1>7 DEF BudgetOK
  <2>4. budget'.hardSteps = Lower(budget.hardSteps, ckpt.steps) /\ "hardSteps" \in DOMAIN budget'
    BY <1>1, <2>3 DEF ResumeBudget
  <2> QED BY <1>5, <1>7, <2>2, <2>4 DEF BudgetOK
<1>9. BatchOK'
  BY <1>1, BatchStays DEF AgentInv, Shaped
<1>10. debt \in Nat /\ debt <= 0 + 1 /\ turn \in 1 .. MaxTurns /\ MaxTurns \in Nat
  BY <1>7, TypedParts, AgentLoopAssumption DEF AgentInv
<1>11. turn' \in 1 .. MaxTurns /\ turn' > 1
  BY <1>1, <1>10
<1>12. AgentTypeOK'
  <2>1. debt' \in Nat /\ debt' <= exec'.steps + 1
    BY <1>1, <1>6, <1>10
  <2> QED BY <1>1, <1>3, <1>6, <1>9, <1>11, <2>1, TypedParts, TypedNext
          DEF AgentInv, Places, PlacesOfStep
<1>13. BrokenOff'
  BY <1>1 DEF AgentInv, Shaped, BrokenOff
<1>14. Shaped'
  BY <1>1, <1>8, <1>9, <1>13 DEF AgentInv, Shaped, StampOK, FlagsOK
<1>15. StepsOK'
  <2>1. stamp.total = HardSteps - ckpt.steps
    BY <1>1 DEF AgentInv, StepsOK
  <2>2. stamp'.total = (HardSteps - budget'.hardSteps) + exec'.steps
        /\ exec'.steps <= budget'.hardSteps
    BY <1>1, <1>5, <1>6, <1>8, <2>1, AgentLoopAssumption
  <2> QED BY <1>1, <1>8, <2>2 DEF StepsOK
<1>16. EvidenceOK'
  <2>1. \A i \in ckpt.verified : stamp.proof[i] >= stamp.wrote
    BY <1>1 DEF AgentInv, StepsOK
  <2>2. Current(exec', stamp')
    BY <1>1, <1>4, <1>6, <2>1 DEF Current
  <2> QED BY <1>6, <1>11, <2>2 DEF EvidenceOK, Current
<1>17. ResumedEvidenceCurrent'
  BY <1>1, <1>4, <1>6 DEF ResumedEvidenceCurrent
<1>18. VerifiedIsProven'
  BY <1>1 DEF VerifiedIsProven
<1> QED BY <1>12, <1>14, <1>15, <1>16, <1>17, <1>18 DEF AgentInv

LEMMA AgentStart == AgentInit => AgentInv
<1> SUFFICES ASSUME AgentInit PROVE AgentInv
  OBVIOUS
<1>1. /\ task \in Tasks /\ governed \in Governors /\ pc = "gate" /\ debt = 1 /\ turn = 1
      /\ disk = [f \in Files |-> 0] /\ base = [f \in Files |-> Untouched]
      /\ exec = NewFacts({}) /\ budget = NewBudget(HardSteps, HardCalls)
      /\ flags = FreshFlags /\ batch = <<>>
      /\ gov = [frames |-> Frames, step |-> 0, writes |-> 0]
      /\ stamp = [total |-> 0, wrote |-> 0, proof |-> [i \in Items |-> 0]]
  BY DEF AgentInit
<1>2. ckpt.verified = {} /\ ckpt.steps = HardSteps
  BY DEF AgentInit
<1>3. goal \in Graphs
  BY ContractIsGraph, GroundedIsGraph DEF AgentInit
<1>4. /\ exec \in Facts /\ exec.steps = 0 /\ exec.writes = 0 /\ exec.changed = {} /\ exec.verified = {}
  BY <1>1 DEF NewFacts, Facts
<1>5. Len(batch) = 0 /\ DOMAIN batch = 1 .. 0 /\ 1 .. 0 = {} /\ MaxBatch \in Nat
  BY <1>1, EmptySeq, AgentLoopAssumption
<1>6. BatchOK
  <2>1. 0 \in 0 .. MaxBatch
    BY <1>5
  <2> QED BY <1>5, <2>1 DEF BatchOK
<1>7. FlagsOK(flags) /\ ~flags.cancelled /\ ~flags.provider
  BY <1>1 DEF FreshFlags, FlagsOK
<1>8. BudgetOK(budget) /\ budget.hardSteps = HardSteps
  BY <1>1, AgentLoopAssumption DEF NewBudget, BudgetOK
<1>9. AgentTypeOK
  <2>1. disk \in [Files -> Contents] /\ base \in [Files -> Contents \cup {Untouched}]
    BY <1>1, AgentLoopAssumption
  <2>2. gov.frames \in 1 .. Frames /\ turn \in 1 .. MaxTurns /\ HardSteps \in 0 .. HardSteps
    BY <1>1, AgentLoopAssumption
  <2>3. debt \in 0 .. exec.steps + 1 /\ Len(batch) <= MaxBatch
    BY <1>1, <1>4, <1>5
  <2> QED BY <1>1, <1>2, <1>3, <1>4, <2>1, <2>2, <2>3 DEF AgentTypeOK
<1>10. StampOK(stamp)
  BY <1>1 DEF StampOK
<1>11. Shaped
  BY <1>6, <1>7, <1>8, <1>10 DEF Shaped, BrokenOff
<1>12. StepsOK
  BY <1>1, <1>4, <1>8, AgentLoopAssumption DEF StepsOK
<1>13. EvidenceOK
  BY <1>4 DEF EvidenceOK, Current
<1>14. ResumedEvidenceCurrent /\ VerifiedIsProven
  BY <1>1 DEF ResumedEvidenceCurrent, VerifiedIsProven
<1> QED BY <1>9, <1>11, <1>12, <1>13, <1>14 DEF AgentInv

LEMMA AgentStutters == AgentInv /\ UNCHANGED vars => AgentInv'
<1> SUFFICES ASSUME AgentInv, UNCHANGED vars PROVE AgentInv'
  OBVIOUS
<1>1. UNCHANGED <<task, governed, disk, base, goal, exec, budget, pc, debt, flags, step,
                  batch, gov, outcome, ckpt, turn, views, stamp>>
  BY DEF vars
<1>2. BatchOK'
  BY <1>1, BatchStays DEF AgentInv, Shaped
<1>3. AgentTypeOK'
  BY <1>1, <1>2, TypedParts, TypedNext DEF AgentInv
<1>4. Shaped'
  BY <1>1, <1>2 DEF AgentInv, Shaped, StampOK, BudgetOK, FlagsOK, BrokenOff
<1>5. StepsOK'
  BY <1>1 DEF AgentInv, StepsOK, Resumable
<1>6. EvidenceOK'
  BY <1>1 DEF AgentInv, EvidenceOK, Current, SomeWritten
<1>7. ResumedEvidenceCurrent'
  BY <1>1 DEF AgentInv, ResumedEvidenceCurrent
<1>8. VerifiedIsProven'
  BY <1>1 DEF AgentInv, VerifiedIsProven, RequiresVerification, RequiresWorkspaceChange
<1> QED BY <1>3, <1>4, <1>5, <1>6, <1>7, <1>8 DEF AgentInv

LEMMA AgentStep == AgentInv /\ [AgentNext]_vars => AgentInv'
<1> SUFFICES ASSUME AgentInv, [AgentNext]_vars PROVE AgentInv'
  OBVIOUS
<1>1. CASE Clarify
  BY <1>1, ClarifyOK
<1>2. CASE BeforeRequest
  BY <1>2, BeginOK, RenewPromptOK, PromptExhaustedOK, BudgetHitOK, StartStepOK DEF BeforeRequest
<1>3. CASE Reply
  BY <1>3, CallReplyOK, TextReplyOK, MalformedOK DEF Reply
<1>4. CASE Cancel \/ ProviderError \/ HookFails
  BY <1>4, CancelOK, ProviderErrorOK, HookFailsOK
<1>5. CASE \E k \in 1 .. Len(batch) : Execute(k)
  BY <1>5, ExecuteOK
<1>6. CASE AfterReply
  BY <1>6, RecordBatchOK, EndStreamOK, EndStepOK, DeliverOK, TurnEndOK DEF AfterReply
<1>7. CASE Resume
  BY <1>7, ResumeOK
<1>8. CASE UNCHANGED vars
  BY <1>8, AgentStutters
<1> QED BY <1>1, <1>2, <1>3, <1>4, <1>5, <1>6, <1>7, <1>8 DEF AgentNext

LEMMA AgentInvariant == AgentSpec => []AgentInv
BY AgentStart, AgentStep, PTL DEF AgentSpec

LEMMA AgentInvSafe ==
  AgentInv => FactsSafety /\ VerifiedIsProven /\ BudgetConserved
<1> SUFFICES ASSUME AgentInv
             PROVE  FactsSafety /\ VerifiedIsProven /\ BudgetConserved
  OBVIOUS
<1>1. FactsSafety
  BY DEF AgentInv, EvidenceOK, Current, FactsSafety, EvidenceNotOlder
<1>2. BudgetConserved
  <2>1. CASE pc \in {"end", "done"}
    BY <2>1 DEF AgentInv, StepsOK, BudgetConserved
  <2>2. CASE pc \notin {"end", "done"}
    <3>1. stamp.total = (HardSteps - budget.hardSteps) + exec.steps /\ exec.steps <= budget.hardSteps
      BY <2>2 DEF AgentInv, StepsOK
    <3>2. exec.steps \in Nat /\ budget.hardSteps \in 0 .. HardSteps /\ HardSteps \in Nat
      BY TypedParts, AgentLoopAssumption DEF AgentInv, Shaped, BudgetOK
    <3> QED BY <3>1, <3>2 DEF BudgetConserved
  <2> QED BY <2>1, <2>2
<1> QED BY <1>1, <1>2 DEF AgentInv

\* The facts of a turn are of their type, no evidence in them is older than the
\* last counted write, and what is of an earlier turn is of the files as they are, whatever the model calls and whatever the tools
\* answer (record_tool_result_observed, validated_resume_report).
THEOREM FactsAreSafe == AgentSpec => []FactsSafety
BY AgentInvariant, AgentInvSafe, PTL

\* A delivery is Verified only when the turn was not broken off, every item has
\* evidence, and a change that was asked for is there (evaluate_delivery).
THEOREM VerifiedIsEarned == AgentSpec => []VerifiedIsProven
BY AgentInvariant, AgentInvSafe, PTL

\* However often a task is resumed, all its turns together make no more steps
\* than its hard budget has (TaskCheckpoint's remaining_steps).
THEOREM BudgetIsConserved == AgentSpec => []BudgetConserved
BY AgentInvariant, AgentInvSafe, PTL

\* What a resumed turn takes over as verified is still of the files as they are,
\* until the turn writes (validated_resume_report).
THEOREM ResumedEvidenceHolds == AgentSpec => []ResumedEvidenceCurrent
<1>1. AgentInv => ResumedEvidenceCurrent
  BY DEF AgentInv
<1> QED BY <1>1, AgentInvariant, PTL

LEMMA EndStays ==
  AgentInv /\ [AgentNext]_vars => [flags.cancelled \/ flags.provider => pc' # "stream"]_vars
<1> SUFFICES ASSUME AgentInv, AgentNext, flags.cancelled \/ flags.provider
             PROVE  pc' # "stream"
  OBVIOUS
<1>1. pc \in {"boundary", "exit", "end"}
  BY DEF AgentInv, Shaped, BrokenOff
<1>2. ~ (Clarify \/ BeforeRequest)
  BY <1>1 DEF Clarify, BeforeRequest, Begin, RenewPrompt, PromptExhausted, BudgetHit, StartStep
<1>3. ~ (Reply \/ MalformedCalls \/ Cancel \/ ProviderError \/ HookFails \/ RecordBatch \/ EndStream \/ Resume)
  BY <1>1 DEF Reply, CallReply, TextReply, MalformedCalls, Cancel, ProviderError, HookFails,
              RecordBatch, EndStream, Resume
<1>4. ASSUME NEW k \in 1 .. Len(batch), Execute(k) PROVE FALSE
  BY <1>1, <1>4 DEF Execute
<1>5. CASE EndStep
  <2>1. PICK over \in BOOLEAN : pc' = "exit" \/ pc' = "request"
    BY <1>5 DEF EndStep
  <2> QED BY <2>1
<1>6. CASE Deliver \/ TurnEnd
  BY <1>6 DEF Deliver, TurnEnd
<1> QED BY <1>2, <1>3, <1>4, <1>5, <1>6 DEF AgentNext, AfterReply

\* After a cancel or an error of the provider the turn makes no further request:
\* no judgement at the end of a step revives it.
THEOREM NoRequestFollows == AgentSpec => NoRequestAfterEnd
BY AgentInvariant, EndStays, PTL DEF AgentSpec, NoRequestAfterEnd
=============================================================================
