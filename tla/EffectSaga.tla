----------------------------- MODULE EffectSaga -----------------------------
(***************************************************************************)
(* External effects and the human decisions that some of them need: the    *)
(* EffectJournal, the DecisionLog, and the methods of LongHorizonRuntime   *)
(* that combine them, under a mutex each.  WalLog has the inside of their  *)
(* commits; here a commit is one step and survives a crash.                *)
(*                                                                         *)
(* The journal only records: an effect is done by the caller, after the    *)
(* answer of prepare and before mark_executed.  That caller is external,   *)
(* and so is the world it acts on.  Digests are the payloads they stand    *)
(* for.                                                                    *)
(***************************************************************************)
EXTENDS Integers, FiniteSets

CONSTANTS
  Proposals,     \* records [class, action, payload, key, undo]
  Checkpoints,   \* ids of decision checkpoints
  LogicalKeys,   \* keys of the vault with an authoritative version
  Deciders,      \* who decides
  Callers,       \* who prepares, does and records effects
  SharedKeys,    \* whether two callers may be at work on one key
  Nobody         \* no checkpoint, no proposal, no authority

Classes == {"Rollbackable", "Compensable", "Irreversible"}
Kinds   == {"Architecture", "IrreversibleEffect", "VersionConvergence"}
States  == {"Prepared", "Executed", "Failed", "Compensated"}
EffectKeys == {p.key : p \in Proposals}
Payloads   == {p.payload : p \in Proposals}
Subjects   == {p.action : p \in Proposals} \cup LogicalKeys

Decisions       == [kind : Kinds, subject : Subjects, digest : Payloads,
                    state : {"Pending", "Approved", "Rejected"}, actor : Deciders \cup {Nobody}]
Entries         == [proposal : Proposals, state : States]
HumanSelections == [version : Payloads, by : Deciders]

ASSUME EffectAssumption ==
  /\ \A p \in Proposals : p.class \in Classes /\ p.undo \in BOOLEAN
  /\ SharedKeys \in BOOLEAN
  /\ Nobody \notin Proposals \cup Deciders \cup Decisions \cup Entries \cup HumanSelections

VARIABLES
  decisions,   \* checkpoint -> [kind, subject, digest, state, actor], or Nobody
  effects,     \* key -> [proposal, state], or Nobody
  caller,      \* caller -> [pc, proposal]
  world,       \* key -> "never", "in force" or "undone"
  happened,    \* history: the proposals whose effect took place
  authority    \* logical key -> [version, by], or Nobody

effectVars == <<decisions, effects, caller, world, happened, authority>>

Idle == [pc |-> "idle", proposal |-> Nobody]

EffectInit ==
  /\ decisions = [c \in Checkpoints |-> Nobody]
  /\ effects = [k \in EffectKeys |-> Nobody]
  /\ caller = [a \in Callers |-> Idle]
  /\ world = [k \in EffectKeys |-> "never"]
  /\ happened = {}
  /\ authority = [l \in LogicalKeys |-> Nobody]

----------------------------------------------------------------------------
(* Decisions *)

\* DecisionLog::request: an id is used once.
RequestDecision(c, kind, subject, digest) ==
  /\ decisions[c] = Nobody
  /\ decisions' = [decisions EXCEPT ![c] =
       [kind |-> kind, subject |-> subject, digest |-> digest,
        state |-> "Pending", actor |-> Nobody]]
  /\ UNCHANGED <<effects, caller, world, happened, authority>>

\* Mutant: a decision may be taken again.
DecideAgain(c, actor, state) ==
  /\ decisions[c] # Nobody
  /\ decisions' = [decisions EXCEPT ![c].state = state, ![c].actor = actor]
  /\ UNCHANGED <<effects, caller, world, happened, authority>>

\* DecisionLog::decide: approve or reject, once.
Decide(c, actor, state) ==
  /\ decisions[c] # Nobody /\ decisions[c].state = "Pending"
  /\ decisions' = [decisions EXCEPT ![c].state = state, ![c].actor = actor]
  /\ UNCHANGED <<effects, caller, world, happened, authority>>

\* DecisionLog::is_approved, with the kind and the subject its callers compare.
ApprovedFor(c, kind, subject, digest) ==
  /\ decisions[c] # Nobody
  /\ decisions[c].kind = kind
  /\ decisions[c].subject = subject
  /\ decisions[c].digest = digest
  /\ decisions[c].state = "Approved"

\* Mutant: a checkpoint nobody has decided yet will do.
SelectHitlPending(l, version, c, actor) ==
  /\ decisions[c] # Nobody /\ decisions[c].digest = version
  /\ decisions[c].kind = "VersionConvergence" /\ decisions[c].subject = l
  /\ authority' = [authority EXCEPT ![l] = [version |-> version, by |-> decisions[c].actor]]
  /\ UNCHANGED <<decisions, effects, caller, world, happened>>

\* LongHorizonRuntime::select_authoritative with MergeDecision::Hitl.
SelectHitl(l, version, c, actor) ==
  /\ ApprovedFor(c, "VersionConvergence", l, version)
  /\ decisions[c].actor = actor
  /\ authority' = [authority EXCEPT ![l] = [version |-> version, by |-> actor]]
  /\ UNCHANGED <<decisions, effects, caller, world, happened>>

----------------------------------------------------------------------------
(* The journal *)

\* gate_effect.  A confirmation that prepare_effect_from_checkpoint makes has
\* the proposal's own id and action.
GateAllows(p, confirmed) ==
  \/ p.class = "Rollbackable"
  \/ p.class = "Compensable" /\ p.undo
  \/ p.class = "Irreversible" /\ confirmed

\* Mutant: only Executed stops a second execution.
AuthorizedUnlessExecuted(p, confirmed) ==
  IF effects[p.key] = Nobody THEN GateAllows(p, confirmed)
  ELSE effects[p.key].proposal = p /\ effects[p.key].state # "Executed"

\* Mutant: a key is not compared with the proposal it was bound to.
AuthorizedByKey(p, confirmed) ==
  IF effects[p.key] = Nobody THEN GateAllows(p, confirmed)
  ELSE effects[p.key].state \in {"Prepared", "Failed"}

\* The answers Prepared and AlreadyPrepared of EffectJournal::prepare, after
\* which the caller goes on.
Authorized(p, confirmed) ==
  IF effects[p.key] = Nobody THEN GateAllows(p, confirmed)
  ELSE effects[p.key].proposal = p /\ effects[p.key].state \in {"Prepared", "Failed"}

\* Commits Prepared if the key is new; every other answer leaves the journal.
Prepare(a, p, confirmed) ==
  /\ IF Authorized(p, confirmed)
     THEN /\ effects' = [effects EXCEPT ![p.key] =
               IF @ = Nobody THEN [proposal |-> p, state |-> "Prepared"] ELSE @]
          /\ caller' = [caller EXCEPT ![a] = [pc |-> "cleared", proposal |-> p]]
     ELSE /\ effects' = effects
          /\ caller' = [caller EXCEPT ![a] = Idle]
  /\ UNCHANGED <<decisions, world, happened, authority>>

\* A task has one worker, and a key belongs to one task.
MayStart(a, k) ==
  /\ caller[a] = Idle
  /\ SharedKeys \/ \A b \in Callers : caller[b] # Idle => caller[b].proposal.key # k

\* LongHorizonRuntime::prepare_effect, without a confirmation.
PrepareEffect(a, p) == MayStart(a, p.key) /\ Prepare(a, p, FALSE)

\* Mutant: the checkpoint is not compared with the payload.
CheckApprovalOfAction(a, p, c) ==
  /\ MayStart(a, p.key)
  /\ decisions[c] # Nobody
  /\ ApprovedFor(c, "IrreversibleEffect", p.action, decisions[c].digest)
  /\ caller' = [caller EXCEPT ![a] = [pc |-> "confirmed", proposal |-> p]]
  /\ UNCHANGED <<decisions, effects, world, happened, authority>>

\* prepare_effect_from_checkpoint, under the mutex of the decisions...
CheckApproval(a, p, c) ==
  /\ MayStart(a, p.key)
  /\ ApprovedFor(c, "IrreversibleEffect", p.action, p.payload)
  /\ caller' = [caller EXCEPT ![a] = [pc |-> "confirmed", proposal |-> p]]
  /\ UNCHANGED <<decisions, effects, world, happened, authority>>

\* ... and under that of the journal.
PrepareConfirmed(a) ==
  /\ caller[a].pc = "confirmed"
  /\ Prepare(a, caller[a].proposal, TRUE)

\* commit of Executed, Failed or Compensated: apply_effect_event refuses a
\* transition from another state.  The caller is done either way.
Mark(a, from, state) ==
  LET p == caller[a].proposal IN
  /\ effects' = [effects EXCEPT ![p.key].state = IF @ \in from THEN state ELSE @]
  /\ caller' = [caller EXCEPT ![a] = Idle]
  /\ UNCHANGED <<decisions, world, happened, authority>>

MarkExecuted(a) == caller[a].pc = "acted" /\ Mark(a, {"Prepared", "Failed"}, "Executed")

MarkFailed(a) == caller[a].pc = "cleared" /\ Mark(a, {"Prepared"}, "Failed")

\* Mutant: whatever was prepared is compensated.
PendingOfAny ==
  {k \in EffectKeys : effects[k] # Nobody /\ effects[k].proposal.class = "Compensable"
                      /\ effects[k].state # "Compensated"}

PendingCompensations ==
  {k \in EffectKeys : /\ effects[k] # Nobody
                      /\ effects[k].proposal.class = "Compensable"
                      /\ effects[k].state = "Executed"}

PickCompensation(a, k) ==
  /\ MayStart(a, k) /\ k \in PendingCompensations
  /\ caller' = [caller EXCEPT ![a] = [pc |-> "undoing", proposal |-> effects[k].proposal]]
  /\ UNCHANGED <<decisions, effects, world, happened, authority>>

MarkCompensated(a) == caller[a].pc = "undid" /\ Mark(a, {"Executed"}, "Compensated")

----------------------------------------------------------------------------
(* The world, and crashes *)

\* The caller does what the journal let it do.
Act(a) ==
  LET p == caller[a].proposal IN
  /\ caller[a].pc = "cleared"
  /\ caller' = [caller EXCEPT ![a].pc = "acted"]
  /\ world' = [world EXCEPT ![p.key] = "in force"]
  /\ happened' = happened \cup {p}
  /\ UNCHANGED <<decisions, effects, authority>>

\* The caller carries out the compensation the proposal names.
Undo(a) ==
  LET p == caller[a].proposal IN
  /\ caller[a].pc = "undoing"
  /\ caller' = [caller EXCEPT ![a].pc = "undid"]
  /\ world' = [world EXCEPT ![p.key] = "undone"]
  /\ UNCHANGED <<decisions, effects, happened, authority>>

\* The process ends; the two logs are replayed by open.
EffectCrash ==
  /\ \E a \in Callers : caller[a] # Idle
  /\ caller' = [a \in Callers |-> Idle]
  /\ UNCHANGED <<decisions, effects, world, happened, authority>>

EffectNext ==
  \/ \E c \in Checkpoints :
       \/ \E kind \in Kinds, s \in Subjects, d \in Payloads : RequestDecision(c, kind, s, d)
       \/ \E actor \in Deciders, state \in {"Approved", "Rejected"} : Decide(c, actor, state)
       \/ \E l \in LogicalKeys, v \in Payloads, actor \in Deciders : SelectHitl(l, v, c, actor)
  \/ \E a \in Callers :
       \/ \E p \in Proposals :
            \/ PrepareEffect(a, p)
            \/ \E c \in Checkpoints : CheckApproval(a, p, c)
       \/ PrepareConfirmed(a) \/ Act(a) \/ MarkExecuted(a) \/ MarkFailed(a)
       \/ \E k \in EffectKeys : PickCompensation(a, k)
       \/ Undo(a) \/ MarkCompensated(a)
  \/ EffectCrash

EffectSpec == EffectInit /\ [][EffectNext]_effectVars

----------------------------------------------------------------------------
(* Properties *)

EffectTypeOK ==
  /\ decisions \in [Checkpoints -> Decisions \cup {Nobody}]
  /\ effects \in [EffectKeys -> Entries \cup {Nobody}]
  /\ caller \in [Callers -> [pc : {"idle", "confirmed", "cleared", "acted", "undoing", "undid"},
                             proposal : Proposals \cup {Nobody}]]
  /\ world \in [EffectKeys -> {"never", "in force", "undone"}]
  /\ happened \in SUBSET Proposals
  /\ authority \in [LogicalKeys -> HumanSelections \cup {Nobody}]

\* An irreversible effect that took place is approved, in the log, for its
\* action and its payload, although the approval was read under another
\* mutex and by a process that may be gone.
IrreversibleApproved ==
  \A p \in happened : p.class = "Irreversible" =>
    \E c \in Checkpoints : ApprovedFor(c, "IrreversibleEffect", p.action, p.payload)

\* An authoritative version is the one somebody approved for this key.
SelectionApproved ==
  \A l \in LogicalKeys : authority[l] # Nobody =>
    \E c \in Checkpoints :
      /\ ApprovedFor(c, "VersionConvergence", l, authority[l].version)
      /\ decisions[c].actor = authority[l].by

\* An idempotency key stands for one effect, over crashes and retries, and
\* the journal knows of it before it takes place.
KeyOfOneEffect ==
  \A p \in happened : effects[p.key] # Nobody /\ effects[p.key].proposal = p

\* What is recorded as compensated is not in force, and what was undone
\* had been executed: a crash between doing and recording may repeat a step,
\* never turn the order round.
CompensatedIsUndone ==
  \A k \in EffectKeys :
    /\ effects[k] # Nobody /\ effects[k].state = "Compensated" => world[k] = "undone"
    /\ world[k] = "undone" => effects[k].state \in {"Executed", "Compensated"}

\* The safety of the journal: what it says of a key is true of the world, and
\* nothing that needs a human happens without one (INVARIANTS.md, 18).
JournalSafety ==
  EffectTypeOK /\ KeyOfOneEffect /\ CompensatedIsUndone /\ IrreversibleApproved /\ SelectionApproved

\* A retry is never told to go on with an effect that is recorded as executed.
RecordedNeverAgain ==
  [][\A a \in Callers : caller[a].pc # "cleared" /\ caller'[a].pc = "cleared" =>
       effects'[caller'[a].proposal.key].state \in {"Prepared", "Failed"}]_effectVars

\* An approval is good for one proposal (INVARIANTS.md, 18, and the comment
\* of prepare_effect_from_checkpoint).
ApprovalUsedOnce ==
  \A p, q \in {r \in happened : r.class = "Irreversible"} :
    p # q /\ p.action = q.action /\ p.payload = q.payload =>
      Cardinality({c \in Checkpoints :
                     ApprovedFor(c, "IrreversibleEffect", p.action, p.payload)}) > 1
=============================================================================
