--------------------------- MODULE Contexts_proofs --------------------------
(***************************************************************************)
(* Proofs about the contexts of the harness.  ServiceScopes: for every     *)
(* number of sessions, turns, experts and slots, a turn writes where it    *)
(* was submitted, asks its own allowance, and no permit is lost or handed  *)
(* out twice.  EventTables: for every number of contexts, handlers and     *)
(* buckets, the ids of a table do not clash and a fork has what was        *)
(* subscribed throughout it.  MemoryFacts: for every number of calls,      *)
(* recalls and facts, what is remembered stays and is recalled.            *)
(* SkillLibrary: for every number of packs, operations and restarts, the   *)
(* settings stay, the list is fresh and the packs are reconciled.          *)
(***************************************************************************)
EXTENDS ServiceScopes, EventTables, MemoryFacts, SkillLibrary, FiniteSetTheorems,
        WellFoundedInduction, TLAPS

-----------------------------------------------------------------------------
(* ServiceScopes *)

USE ScopesAssumption

Services == [log : SessionLogs \cup Experts \cup {View}, model : Inputs \cup {Upstream},
             tools : SUBSET {"plan", "delegate", "shell"}, plan : SessionLogs \cup {View}]

\* What belongs to a turn at each stage, and what an expert at work is given.
InputsScoped ==
  \A i \in Inputs :
    /\ stage[i] \in {"idle", "submitted", "running", "ended"}
    /\ stage[i] \in {"submitted", "running"} =>
         /\ scope[i] \in Services /\ home[i] \in SessionLogs
         /\ scope[i].log = home[i] /\ scope[i].plan = home[i]
    /\ stage[i] = "running" => scope[i].model = i

ExpertsScoped ==
  \A e \in Experts :
    stage[e] = "running" => scope[e] \in Services /\ scope[e].log = e /\ scope[e].tools = {"shell"}

\* Who has written has begun, and is not submitted again.
WriterStarted == last.by \in Inputs => stage[last.by] \in {"running", "ended"}

ScopesInv == ScopesSafety /\ InputsScoped /\ ExpertsScoped /\ WriterStarted

ExpertsAtWork == {e \in Experts : stage[e] = "running"}

-----------------------------------------------------------------------------
LEMMA AppIsServices == App \in Services
BY DEF App, Services

LEMMA ScopesInitial == ScopesInit => ScopesInv
<1> SUFFICES ASSUME ScopesInit PROVE ScopesInv OBVIOUS
<1>1. ScopesTypeOK
  BY DEF ScopesInit, ScopesTypeOK, Workers
<1>2. LogsApart /\ TurnsBudgeted /\ InputsScoped /\ ExpertsScoped /\ WriterStarted
  BY DEF ScopesInit, LogsApart, TurnsBudgeted, InputsScoped, ExpertsScoped, WriterStarted, Workers
<1>3. {e \in Experts : stage[e] = "running"} = {}
  BY DEF ScopesInit, Workers
<1>4. PermitsKept
  BY <1>3, FS_EmptySet DEF ScopesInit, PermitsKept
<1> QED BY <1>1, <1>2, <1>4 DEF ScopesInv, ScopesSafety

-----------------------------------------------------------------------------
(* The permits. *)

\* Every permit is free or with one of the experts at work.
LEMMA PermitsAre ==
  ASSUME ScopesTypeOK
  PROVE  /\ PermitsKept <=> permits + Cardinality(ExpertsAtWork) = Slots
         /\ IsFiniteSet(ExpertsAtWork) /\ Cardinality(ExpertsAtWork) \in Nat /\ permits \in Nat /\ Slots \in Nat
<1>1. ExpertsAtWork \subseteq Experts
  BY DEF ExpertsAtWork
<1>2. IsFiniteSet(ExpertsAtWork) /\ Cardinality(ExpertsAtWork) \in Nat
  BY <1>1, FS_Subset, FS_CardinalityType
<1> QED BY <1>2 DEF PermitsKept, ExpertsAtWork, ScopesTypeOK

\* An expert gets a permit.
LEMMA PermitTaken ==
  ASSUME ScopesTypeOK, PermitsKept, permits > 0, NEW e \in Experts, e \notin ExpertsAtWork,
         permits' = permits - 1, ExpertsAtWork' = ExpertsAtWork \cup {e}
  PROVE  PermitsKept' /\ permits' \in 0 .. Slots
<1>1. Cardinality(ExpertsAtWork') = Cardinality(ExpertsAtWork) + 1
  BY PermitsAre, FS_AddElement
<1> QED BY <1>1, PermitsAre DEF PermitsKept, ExpertsAtWork

\* Some experts give theirs back.
LEMMA PermitsReturned ==
  ASSUME ScopesTypeOK, PermitsKept, NEW S \in SUBSET ExpertsAtWork,
         permits' = permits + Cardinality(S), ExpertsAtWork' = ExpertsAtWork \ S
  PROVE  PermitsKept' /\ permits' \in 0 .. Slots
<1>1. ExpertsAtWork \cap S = S /\ IsFiniteSet(S) /\ Cardinality(S) \in Nat
  BY PermitsAre, FS_Subset, FS_CardinalityType
<1>2. Cardinality(ExpertsAtWork') = Cardinality(ExpertsAtWork) - Cardinality(S)
  BY <1>1, PermitsAre, FS_Difference
<1>3. Cardinality(ExpertsAtWork') \in Nat
  BY PermitsAre, FS_Difference, FS_CardinalityType
<1> QED BY <1>1, <1>2, <1>3, PermitsAre DEF PermitsKept, ExpertsAtWork

LEMMA PermitsSame ==
  ASSUME ScopesTypeOK, PermitsKept, permits' = permits, ExpertsAtWork' = ExpertsAtWork
  PROVE  PermitsKept' /\ permits' \in 0 .. Slots
BY DEF ScopesTypeOK, PermitsKept, ExpertsAtWork

-----------------------------------------------------------------------------
(* The steps, one at a time. *)

LEMMA ShowStep ==
  ASSUME ScopesInv, NEW s \in SessionLogs, Show(s)
  PROVE  ScopesInv'
<1>1. ScopesTypeOK'
  BY DEF Show, ScopesInv, ScopesSafety, ScopesTypeOK
<1>2. LogsApart' /\ TurnsBudgeted' /\ InputsScoped' /\ ExpertsScoped' /\ WriterStarted'
  BY DEF Show, ScopesInv, ScopesSafety, LogsApart, TurnsBudgeted, InputsScoped, ExpertsScoped, WriterStarted
<1>3. PermitsKept'
  BY PermitsSame DEF Show, ExpertsAtWork, ScopesInv, ScopesSafety
<1> QED BY <1>1, <1>2, <1>3 DEF ScopesInv, ScopesSafety

\* A turn is submitted or begun: only its own stage, services and home change.
LEMMA TurnScoped ==
  ASSUME ScopesInv, NEW i \in Inputs, NEW svc \in Services, NEW st \in {"submitted", "running"},
         NEW log \in SessionLogs,
         stage[i] \in {"idle", "submitted"},
         stage' = [stage EXCEPT ![i] = st], scope' = [scope EXCEPT ![i] = svc],
         home' = [home EXCEPT ![i] = log],
         svc.log = log, svc.plan = log, st = "running" => svc.model = i,
         UNCHANGED <<onView, shows, caller, ticket, permits, last>>
  PROVE  ScopesInv'
<1>1. /\ stage'[i] = st /\ \A w \in Workers : w # i => stage'[w] = stage[w]
      /\ scope'[i] = svc /\ \A w \in Workers : w # i => scope'[w] = scope[w]
      /\ home'[i] = log /\ \A j \in Inputs : j # i => home'[j] = home[j]
  BY DEF ScopesInv, ScopesSafety, ScopesTypeOK, Workers
<1>3. ScopesTypeOK'
  BY DEF ScopesInv, ScopesSafety, ScopesTypeOK, Services, App, Workers
<1>4. last.by # i
  BY DEF ScopesInv, WriterStarted
<1>5. LogsApart' /\ TurnsBudgeted' /\ WriterStarted'
  BY <1>1, <1>4 DEF ScopesInv, ScopesSafety, LogsApart, TurnsBudgeted, WriterStarted, Workers
<1>6. InputsScoped'
  BY <1>1 DEF ScopesInv, InputsScoped, Workers
<1>7. \A e \in Experts : stage'[e] = stage[e] /\ scope'[e] = scope[e]
  BY <1>1 DEF Workers
<1>8. ExpertsScoped' /\ ExpertsAtWork' = ExpertsAtWork
  BY <1>7 DEF ScopesInv, ExpertsScoped, ExpertsAtWork
<1>9. PermitsKept'
  BY <1>8, PermitsSame DEF ScopesInv, ScopesSafety
<1> QED BY <1>3, <1>5, <1>6, <1>8, <1>9 DEF ScopesInv, ScopesSafety

LEMMA SubmitStep ==
  ASSUME ScopesInv, NEW i \in Inputs, SubmitHere(i)
  PROVE  ScopesInv'
<1> DEFINE svc == [App EXCEPT !.log = onView, !.plan = onView]
<1>1. onView \in SessionLogs
  BY DEF ScopesInv, ScopesSafety, ScopesTypeOK
<1>2. svc \in Services /\ svc.log = onView /\ svc.plan = onView
  BY <1>1 DEF App, Services
<1>3. /\ stage[i] = "idle" /\ stage' = [stage EXCEPT ![i] = "submitted"]
      /\ scope' = [scope EXCEPT ![i] = svc] /\ home' = [home EXCEPT ![i] = onView]
      /\ UNCHANGED <<onView, shows, caller, ticket, permits, last>>
  BY DEF SubmitHere
<1> HIDE DEF svc
<1> QED BY <1>1, <1>2, <1>3, TurnScoped

LEMMA StartStep ==
  ASSUME ScopesInv, NEW i \in Inputs, StartTurn(i)
  PROVE  ScopesInv'
<1> DEFINE svc == [scope[i] EXCEPT !.model = i]
<1>1. /\ stage[i] = "submitted" /\ scope[i] \in Services /\ home[i] \in SessionLogs
      /\ scope[i].log = home[i] /\ scope[i].plan = home[i]
  BY DEF StartTurn, ScopesInv, InputsScoped
<1>3. svc \in Services /\ svc.log = home[i] /\ svc.plan = home[i] /\ svc.model = i
  BY <1>1 DEF Services
<1>4. /\ stage' = [stage EXCEPT ![i] = "running"] /\ scope' = [scope EXCEPT ![i] = svc]
      /\ UNCHANGED <<onView, shows, caller, ticket, permits, last>>
  BY DEF StartTurn
<1>5. home' = [home EXCEPT ![i] = home[i]]
  BY DEF StartTurn, ScopesInv, ScopesSafety, ScopesTypeOK
<1> HIDE DEF svc
<1> QED BY <1>1, <1>3, <1>4, <1>5, TurnScoped

\* A line, or a request, is by somebody at work.
LEMMA WriteStep ==
  ASSUME ScopesInv, NEW w \in Workers, AskModel(w) \/ CallPlan(w)
  PROVE  ScopesInv'
<1>1. stage[w] = "running" /\ UNCHANGED <<onView, shows, scope, stage, caller, ticket, permits, home>>
  BY DEF AskModel, CallPlan
<1>2. scope[w] \in Services
  BY <1>1 DEF ScopesInv, InputsScoped, ExpertsScoped, Workers
<1>3. /\ last'.by = w
      /\ last' \in [by : Workers \cup {Closed}, log : SessionLogs \cup Experts \cup {Closed},
                   model : Inputs \cup {Upstream, Closed}]
      /\ last'.log = (IF w \in Inputs THEN home[w] ELSE w)
      /\ w \in Inputs => last'.model \in {w, Closed}
  <2>1. CASE w \in Inputs
    <3>1. /\ scope[w].log = home[w] /\ scope[w].plan = home[w] /\ scope[w].model = w
          /\ home[w] \in SessionLogs /\ home[w] # View
      BY <1>1, <2>1 DEF ScopesInv, InputsScoped
    <3> QED BY <2>1, <3>1 DEF AskModel, CallPlan, LogBehind, Workers
  <2>2. CASE w \in Experts
    <3>1. w \notin Inputs /\ w # View
      BY <2>2
    <3>2. scope[w].log = w /\ scope[w].tools = {"shell"}
      BY <1>1, <2>2 DEF ScopesInv, ExpertsScoped
    <3>3. AskModel(w)
      BY <3>2 DEF CallPlan
    <3>4. scope[w].model \in Inputs \cup {Upstream}
      BY <1>2 DEF Services
    <3> QED BY <2>2, <3>1, <3>2, <3>3, <3>4 DEF AskModel, LogBehind, Workers
  <2> QED BY <2>1, <2>2 DEF Workers
<1>4. ScopesTypeOK'
  BY <1>1, <1>3 DEF ScopesInv, ScopesSafety, ScopesTypeOK
<1>5. LogsApart' /\ TurnsBudgeted' /\ WriterStarted'
  BY <1>1, <1>3 DEF LogsApart, TurnsBudgeted, WriterStarted
<1>6. InputsScoped' /\ ExpertsScoped' /\ PermitsKept'
  BY <1>1 DEF ScopesInv, ScopesSafety, InputsScoped, ExpertsScoped, PermitsKept
<1> QED BY <1>4, <1>5, <1>6 DEF ScopesInv, ScopesSafety

LEMMA DelegateStep ==
  ASSUME ScopesInv, NEW w \in Workers, NEW e \in Experts, Delegate(w, e)
  PROVE  ScopesInv'
<1>1. /\ stage[e] = "idle" /\ stage' = [stage EXCEPT ![e] = "queued"]
      /\ UNCHANGED <<onView, shows, scope, permits, home, last>>
  BY DEF Delegate
<1>2. stage'[e] = "queued" /\ \A v \in Workers : v # e => stage'[v] = stage[v]
  BY <1>1 DEF ScopesInv, ScopesSafety, ScopesTypeOK, Workers
<1>3. Cardinality({d \in Experts : caller[d] # Closed}) \in Nat
  BY FS_Subset, FS_CardinalityType
<1>4. /\ caller' \in [Experts -> Workers \cup {Closed}] /\ ticket' \in [Experts -> Nat]
  BY <1>3 DEF Delegate, ScopesInv, ScopesSafety, ScopesTypeOK
<1>5. ScopesTypeOK'
  BY <1>1, <1>4 DEF ScopesInv, ScopesSafety, ScopesTypeOK, Workers
<1>6. \A i \in Inputs : stage'[i] = stage[i]
  BY <1>2 DEF Workers
<1>7. LogsApart' /\ TurnsBudgeted' /\ WriterStarted' /\ InputsScoped'
  BY <1>1, <1>6 DEF ScopesInv, ScopesSafety, LogsApart, TurnsBudgeted, WriterStarted, InputsScoped
<1>8. ExpertsScoped' /\ ExpertsAtWork' = ExpertsAtWork
  BY <1>1, <1>2 DEF ScopesInv, ExpertsScoped, ExpertsAtWork, Workers
<1>9. PermitsKept'
  BY <1>1, <1>8, PermitsSame DEF ScopesInv, ScopesSafety
<1> QED BY <1>5, <1>7, <1>8, <1>9 DEF ScopesInv, ScopesSafety

LEMMA AcquireStep ==
  ASSUME ScopesInv, NEW e \in Experts, Acquire(e)
  PROVE  ScopesInv'
<1> DEFINE svc == [App EXCEPT !.log = e, !.tools = @ \ {"delegate", "plan"}]
<1>1. svc \in Services /\ svc.log = e /\ svc.tools = {"shell"}
  BY DEF App, Services
<1>2. /\ stage[e] = "queued" /\ permits > 0 /\ permits' = permits - 1
      /\ scope' = [scope EXCEPT ![e] = svc] /\ stage' = [stage EXCEPT ![e] = "running"]
      /\ UNCHANGED <<onView, shows, caller, ticket, home, last>>
  BY DEF Acquire, IsNext
<1> HIDE DEF svc
<1>4. /\ stage'[e] = "running" /\ scope'[e] = svc
      /\ \A v \in Workers : v # e => stage'[v] = stage[v] /\ scope'[v] = scope[v]
  BY <1>2 DEF ScopesInv, ScopesSafety, ScopesTypeOK, Workers
<1>5. e \notin ExpertsAtWork /\ ExpertsAtWork' = ExpertsAtWork \cup {e}
  BY <1>2, <1>4 DEF ExpertsAtWork, Workers
<1>6. PermitsKept' /\ permits' \in 0 .. Slots
  BY <1>2, <1>5, PermitTaken DEF ScopesInv, ScopesSafety
<1>7. ScopesTypeOK'
  BY <1>1, <1>2, <1>6 DEF ScopesInv, ScopesSafety, ScopesTypeOK, Services, App, Workers
<1>8. \A i \in Inputs : stage'[i] = stage[i] /\ scope'[i] = scope[i]
  BY <1>4 DEF Workers
<1>9. LogsApart' /\ TurnsBudgeted' /\ WriterStarted' /\ InputsScoped'
  BY <1>2, <1>8 DEF ScopesInv, ScopesSafety, LogsApart, TurnsBudgeted, WriterStarted, InputsScoped
<1>10. ExpertsScoped'
  BY <1>1, <1>4 DEF ScopesInv, ExpertsScoped, Workers
<1> QED BY <1>6, <1>7, <1>9, <1>10 DEF ScopesInv, ScopesSafety

\* Some workers are gone, with their services.
LEMMA GoneStep ==
  ASSUME ScopesInv, NEW S \in SUBSET Workers,
         \A w \in S : w \in Inputs => stage[w] = "running",
         \A w \in Workers : /\ stage'[w] = IF w \in S THEN "ended" ELSE stage[w]
                            /\ scope'[w] = IF w \in S THEN Closed ELSE scope[w],
         stage' \in [Workers -> {"idle", "submitted", "queued", "running", "ended"}],
         scope' \in [Workers -> Services \cup {Closed}],
         permits' = permits + Cardinality(S \cap ExpertsAtWork),
         UNCHANGED <<onView, shows, caller, ticket, home, last>>
  PROVE  ScopesInv'
<1>1. ExpertsAtWork' = ExpertsAtWork \ (S \cap ExpertsAtWork)
  BY DEF ExpertsAtWork, Workers
<1>2. PermitsKept' /\ permits' \in 0 .. Slots
  <2>1. S \cap ExpertsAtWork \in SUBSET ExpertsAtWork
    OBVIOUS
  <2> QED BY <1>1, <2>1, PermitsReturned DEF ScopesInv, ScopesSafety
<1>3. ScopesTypeOK'
  BY <1>2 DEF ScopesInv, ScopesSafety, ScopesTypeOK, Services, App
<1>4. LogsApart' /\ TurnsBudgeted' /\ WriterStarted'
  BY DEF ScopesInv, ScopesSafety, LogsApart, TurnsBudgeted, WriterStarted, Workers
<1>5. InputsScoped' /\ ExpertsScoped'
  BY DEF ScopesInv, InputsScoped, ExpertsScoped, Workers
<1> QED BY <1>2, <1>3, <1>4, <1>5 DEF ScopesInv, ScopesSafety

LEMMA EndExpertStep ==
  ASSUME ScopesInv, NEW e \in Experts, EndExpert(e)
  PROVE  ScopesInv'
<1>1. /\ stage[e] = "running" /\ permits' = permits + 1
      /\ stage' = [stage EXCEPT ![e] = "ended"] /\ scope' = [scope EXCEPT ![e] = Closed]
      /\ UNCHANGED <<onView, shows, caller, ticket, home, last>>
  BY DEF EndExpert
<1>2. {e} \cap ExpertsAtWork = {e} /\ Cardinality({e}) = 1
  <2>1. e \in ExpertsAtWork
    BY <1>1 DEF ExpertsAtWork
  <2>2. Cardinality({e}) = 1
    BY FS_Singleton
  <2> QED BY <2>1, <2>2
<1>3. /\ stage' \in [Workers -> {"idle", "submitted", "queued", "running", "ended"}]
      /\ scope' \in [Workers -> Services \cup {Closed}]
      /\ \A w \in Workers : /\ stage'[w] = IF w \in {e} THEN "ended" ELSE stage[w]
                            /\ scope'[w] = IF w \in {e} THEN Closed ELSE scope[w]
  BY <1>1 DEF ScopesInv, ScopesSafety, ScopesTypeOK, Services, App, Workers
<1>4. permits' = permits + Cardinality({e} \cap ExpertsAtWork)
  BY <1>1, <1>2
<1>5. {e} \in SUBSET Workers /\ \A w \in {e} : w \in Inputs => stage[w] = "running"
  BY DEF Workers
<1> QED BY <1>1, <1>3, <1>4, <1>5, GoneStep

LEMMA EndTurnStep ==
  ASSUME ScopesInv, NEW i \in Inputs, EndTurn(i)
  PROVE  ScopesInv'
<1>1. /\ stage[i] = "running"
      /\ stage' = [w \in Workers |-> IF w \in Gone(i) THEN "ended" ELSE stage[w]]
      /\ scope' = [w \in Workers |-> IF w \in Gone(i) THEN Closed ELSE scope[w]]
      /\ permits' = permits + Cardinality({e \in CallsOf(i) : stage[e] = "running"})
      /\ UNCHANGED <<onView, shows, caller, ticket, home, last>>
  BY DEF EndTurn
<1>2. Gone(i) \in SUBSET Workers /\ \A w \in Gone(i) : w \in Inputs => stage[w] = "running"
  BY <1>1 DEF Gone, CallsOf, Workers
<1>3. {e \in CallsOf(i) : stage[e] = "running"} = Gone(i) \cap ExpertsAtWork
  BY DEF Gone, CallsOf, ExpertsAtWork
<1>4. /\ stage' \in [Workers -> {"idle", "submitted", "queued", "running", "ended"}]
      /\ scope' \in [Workers -> Services \cup {Closed}]
      /\ \A w \in Workers : /\ stage'[w] = IF w \in Gone(i) THEN "ended" ELSE stage[w]
                            /\ scope'[w] = IF w \in Gone(i) THEN Closed ELSE scope[w]
  BY <1>1 DEF ScopesInv, ScopesSafety, ScopesTypeOK, Services, App
<1> QED BY <1>1, <1>2, <1>3, <1>4, GoneStep

LEMMA ScopesStep == ScopesInv /\ [ScopesNext]_scopeVars => ScopesInv'
<1> SUFFICES ASSUME ScopesInv, [ScopesNext]_scopeVars PROVE ScopesInv' OBVIOUS
<1>1. CASE UNCHANGED scopeVars
  BY <1>1 DEF scopeVars, ScopesInv, ScopesSafety, ScopesTypeOK, LogsApart, TurnsBudgeted, PermitsKept,
     InputsScoped, ExpertsScoped, WriterStarted
<1> QED
  BY <1>1, ShowStep, SubmitStep, StartStep, EndTurnStep, WriteStep, DelegateStep, AcquireStep,
     EndExpertStep DEF ScopesNext

\* Whatever the window shows, and however often turns and experts are dropped: a turn
\* writes to the session it was submitted in and asks its own allowance, an
\* expert never writes to a session, and no permit is lost or handed out twice.
THEOREM ScopesAreApart == ScopesSpec => []ScopesSafety
<1>1. ScopesInv => ScopesSafety
  BY DEF ScopesInv
<1> QED BY <1>1, ScopesInitial, ScopesStep, PTL DEF ScopesSpec

-----------------------------------------------------------------------------
(* EventTables: ids *)

\* A set of ids with a bound has a largest member.
LEMMA MaxExists ==
  ASSUME NEW S \in SUBSET Nat, S # {}, NEW n \in Nat, \A x \in S : x <= n
  PROVE  Max(S) \in S /\ \A y \in S : y <= Max(S)
<1> DEFINE Bounds == {m \in Nat : \A x \in S : x <= m}
<1>1. PICK m \in Bounds : \A y \in Bounds : ~ (<<y, m>> \in OpToRel(<, Nat))
  <2>1. Bounds # {} /\ Bounds \subseteq Nat
    OBVIOUS
  <2> HIDE DEF Bounds
  <2> QED BY <2>1, NatLessThanWellFounded, WFMin
<1>2. \A y \in Bounds : ~ (y < m)
  <2>1. \A y \in Bounds : y \in Nat /\ m \in Nat
    OBVIOUS
  <2> HIDE DEF Bounds
  <2> QED BY <1>1, <2>1 DEF OpToRel
<1>3. m \in S
  <2> SUFFICES ASSUME m \notin S PROVE FALSE
    OBVIOUS
  <2>0. m \in Nat /\ (\A x \in S : x \in Nat /\ x <= m)
    OBVIOUS
  <2>a. PICK some \in S : TRUE
    OBVIOUS
  <2>1. \A x \in S : x < m
    BY <2>0
  <2>2. m - 1 \in Nat /\ \A x \in S : x <= m - 1
    BY <2>0, <2>a, <2>1
  <2> QED BY <1>2, <2>0, <2>2
<1>4. \A y \in S : m >= y
  BY <1>1
<1>5. Max(S) \in S /\ \A y \in S : Max(S) >= y
  BY <1>3, <1>4 DEF Max
<1> QED BY <1>5

\* The first id of a fork is above every id that it has copied.
LEMMA FirstFreeAbove ==
  ASSUME NEW copied \in Seq(SUBSET Subscribed), copied # <<>>, NEW n \in Nat,
         \A i \in DOMAIN copied : \A e \in copied[i] : e.id < n
  PROVE  /\ FirstFree(copied) \in Nat
         /\ \A i \in DOMAIN copied : \A e \in copied[i] : e.id < FirstFree(copied)
<1>1. ASSUME NEW i \in DOMAIN copied
      PROVE  /\ LargestOf(copied[i]) \in Nat /\ LargestOf(copied[i]) <= n
             /\ \A e \in copied[i] : e.id <= LargestOf(copied[i])
  <2> DEFINE ids == {e.id : e \in copied[i]} \cup {0}
  <2>1. copied[i] \subseteq Subscribed
    OBVIOUS
  <2>2. ids \in SUBSET Nat /\ ids # {} /\ \A x \in ids : x <= n
    BY <1>1, <2>1 DEF Subscribed
  <2>3. Max(ids) \in ids /\ \A y \in ids : y <= Max(ids)
    <3> HIDE DEF ids
    <3> QED BY <2>2, MaxExists
  <2> QED BY <2>2, <2>3 DEF LargestOf
<1> DEFINE tops == {LargestOf(copied[i]) : i \in DOMAIN copied}
<1>2. 1 \in DOMAIN copied
  OBVIOUS
<1>3. tops \in SUBSET Nat /\ tops # {} /\ \A x \in tops : x <= n
  BY <1>1, <1>2
<1>4. PICK top \in Nat : (\A y \in tops : y <= top) /\ FirstFree(copied) = top + 1
  <2>1. FirstFree(copied) = Max(tops) + 1
    BY DEF FirstFree
  <2> HIDE DEF tops
  <2>2. Max(tops) \in tops /\ \A y \in tops : y <= Max(tops)
    BY <1>3, MaxExists
  <2> QED BY <1>3, <2>1, <2>2
<1>5. ASSUME NEW i \in DOMAIN copied, NEW e \in copied[i]
      PROVE  e.id < FirstFree(copied)
  <2>1. e.id \in Nat
    <3>1. copied[i] \subseteq Subscribed
      OBVIOUS
    <3> QED BY <3>1 DEF Subscribed
  <2>2. LargestOf(copied[i]) \in Nat /\ LargestOf(copied[i]) <= top
    BY <1>1, <1>4
  <2>3. e.id <= LargestOf(copied[i])
    BY <1>1
  <2> QED BY <1>4, <2>1, <2>2, <2>3
<1> QED BY <1>4, <1>5

-----------------------------------------------------------------------------
(* The inductive invariant. *)

Tables == [BucketNames -> SUBSET Subscribed]
Regs   == [ctx : Contexts, bucket : BucketNames, id : Nat, handler : Handlers]

TablesTypeOK ==
  /\ tables \in [Contexts -> Tables \cup {NoTable}]
  /\ nextId \in [Contexts -> Nat]
  /\ adding \in SUBSET Regs /\ regs \in SUBSET Regs
  /\ forking \in [Contexts -> Copies \cup {NoTable}]
  /\ owed \in [Contexts -> SUBSET Handlers]

\* Who has a table; a fork under way has none yet, and its parent has one.
WhoHasTables ==
  /\ tables[Root] # NoTable
  /\ \A r \in adding \cup regs : tables[r.ctx] # NoTable
  /\ \A c \in Contexts : forking[c] # NoTable =>
       /\ tables[c] = NoTable /\ tables[forking[c].parent] # NoTable
       /\ Len(forking[c].copied) <= Len(Buckets)

\* No id that is in use, or in a copy, will be given again.
IdsGiven ==
  /\ \A c \in Contexts : tables[c] # NoTable =>
       \A b \in BucketNames : \A e \in tables[c][b] : e.id < nextId[c]
  /\ \A r \in adding \cup regs : r.id < nextId[r.ctx]
  /\ \A c \in Contexts : forking[c] # NoTable =>
       \A i \in DOMAIN forking[c].copied : \A e \in forking[c].copied[i] :
         e.id < nextId[forking[c].parent]

\* Entries of one list, or of the copy of one, have different ids; and so have those
\* that are on their way into it.
CopiesUnique ==
  \A c \in Contexts : forking[c] # NoTable =>
    \A i \in DOMAIN forking[c].copied : \A d, e \in forking[c].copied[i] : d.id = e.id => d = e

ListsUnique ==
  /\ \A c \in Contexts : tables[c] # NoTable =>
       \A b \in BucketNames : \A d, e \in tables[c][b] : d.id = e.id => d = e
  /\ \A r \in adding : \A e \in tables[r.ctx][r.bucket] : e.id # r.id
  /\ \A r, s \in adding : r.ctx = s.ctx /\ r.bucket = s.bucket /\ r.id = s.id => r = s

\* Nobody holds a registration for this entry of this list.
Inherited(c, b, e) == \A r \in adding \cup regs : r.ctx = c /\ r.bucket = b => r.id # e.id

OwedIsInherited ==
  \A c \in Contexts \ {Root} : tables[c] # NoTable =>
    \A h \in owed[c] : \E b \in BucketNames : \E e \in tables[c][b] :
      e.handler = h /\ Inherited(c, b, e)

\* What a fork owes is copied, or still there to be copied.
OwedIsComing ==
  \A c \in Contexts : forking[c] # NoTable =>
    \A h \in owed[c] :
      \/ \E i \in DOMAIN forking[c].copied : \E e \in forking[c].copied[i] : e.handler = h
      \/ \E i \in DOMAIN Buckets :
           /\ i > Len(forking[c].copied)
           /\ \E e \in tables[forking[c].parent][Buckets[i]] : e.handler = h

TablesInv ==
  /\ TablesTypeOK /\ WhoHasTables /\ IdsGiven /\ CopiesUnique /\ ListsUnique
  /\ RegisteredIsHeard /\ OwedIsInherited /\ OwedIsComing /\ DroppedIsSilent

HIDE ScopesAssumption
USE TablesAssumption

LEMMA TablesInitial == TablesInit => TablesInv
<1> SUFFICES ASSUME TablesInit PROVE TablesInv OBVIOUS
<1>1. EmptyTable \in Tables /\ EmptyTable # NoTable /\ \A b \in BucketNames : EmptyTable[b] = {}
  BY DEF EmptyTable, Tables
<1>2. TablesTypeOK
  BY <1>1 DEF TablesInit, TablesTypeOK
<1>3. \A c \in Contexts : tables[c] # NoTable => c = Root /\ tables[c] = EmptyTable
  BY DEF TablesInit
<1>4. /\ tables[Root] = EmptyTable /\ adding = {} /\ regs = {}
      /\ \A c \in Contexts : forking[c] = NoTable
  BY DEF TablesInit
<1>5. WhoHasTables /\ IdsGiven /\ CopiesUnique /\ ListsUnique /\ OwedIsComing
  BY <1>1, <1>3, <1>4 DEF WhoHasTables, IdsGiven, CopiesUnique, ListsUnique, OwedIsComing
<1>6. RegisteredIsHeard /\ OwedIsInherited /\ DroppedIsSilent
  BY <1>1, <1>3, <1>4 DEF RegisteredIsHeard, OwedIsInherited, DroppedIsSilent
<1> QED BY <1>2, <1>5, <1>6 DEF TablesInv

\* One list of one table changes.
LEMMA ListChanged ==
  ASSUME TablesTypeOK, NEW c \in Contexts, tables[c] # NoTable, NEW b \in BucketNames,
         NEW L \in SUBSET Subscribed, tables' = [tables EXCEPT ![c] = [tables[c] EXCEPT ![b] = L]]
  PROVE  /\ tables' \in [Contexts -> Tables \cup {NoTable}]
         /\ tables'[c] # NoTable /\ tables'[c][b] = L
         /\ \A d \in Contexts : d # c => tables'[d] = tables[d]
         /\ \A a \in BucketNames : a # b => tables'[c][a] = tables[c][a]
         /\ \A d \in Contexts : tables'[d] = NoTable <=> tables[d] = NoTable
<1> DEFINE new == [tables[c] EXCEPT ![b] = L]
<1>1. tables[c] \in Tables
  BY DEF TablesTypeOK
<1>2. new \in Tables /\ new[b] = L /\ \A a \in BucketNames : a # b => new[a] = tables[c][a]
  BY <1>1 DEF Tables
<1>3. new # NoTable
  BY <1>2 DEF Tables
<1> HIDE DEF new
<1>4. /\ tables' = [tables EXCEPT ![c] = new] /\ tables \in [Contexts -> Tables \cup {NoTable}]
  BY DEF new, TablesTypeOK
<1>5. tables'[c] = new /\ \A d \in Contexts : d # c => tables'[d] = tables[d]
  BY <1>4
<1>6. tables' \in [Contexts -> Tables \cup {NoTable}]
  BY <1>2, <1>4
<1> QED BY <1>2, <1>3, <1>5, <1>6

LEMMA EntryOf ==
  ASSUME NEW r \in Regs
  PROVE  /\ r.ctx \in Contexts /\ r.bucket \in BucketNames /\ r.id \in Nat /\ r.handler \in Handlers
         /\ Entry(r) \in Subscribed /\ Entry(r).id = r.id /\ Entry(r).handler = r.handler
BY DEF Regs, Entry, Subscribed

\* What identifies a registration.
LEMMA SameReg ==
  ASSUME NEW r \in Regs, NEW s \in Regs, r.ctx = s.ctx, r.bucket = s.bucket, Entry(r) = Entry(s)
  PROVE  r = s
<1>1. r.id = s.id /\ r.handler = s.handler
  BY EntryOf
<1> QED BY <1>1 DEF Regs

LEMMA TakeIdStep ==
  ASSUME TablesInv, NEW h \in Handlers, NEW c \in Contexts, NEW b \in BucketNames, TakeId(h, c, b)
  PROVE  TablesInv'
<1> DEFINE new == [ctx |-> c, bucket |-> b, id |-> nextId[c], handler |-> h]
<1>0. TablesTypeOK
  BY DEF TablesInv
<1>1. /\ new \in Regs /\ new.ctx = c /\ new.bucket = b /\ new.id = nextId[c] /\ new.handler = h
      /\ nextId[c] \in Nat
  BY <1>0 DEF Regs, TablesTypeOK
<1>2. /\ tables[c] # NoTable /\ adding' = adding \cup {new}
      /\ nextId' = [nextId EXCEPT ![c] = nextId[c] + 1]
      /\ UNCHANGED <<tables, regs, forking, owed>>
  BY DEF TakeId
<1> HIDE DEF new
<1>3. /\ nextId' \in [Contexts -> Nat] /\ nextId'[c] = nextId[c] + 1
      /\ \A d \in Contexts : d # c => nextId'[d] = nextId[d]
  BY <1>0, <1>1, <1>2 DEF TablesTypeOK
<1>4. TablesTypeOK'
  BY <1>0, <1>1, <1>2, <1>3 DEF TablesTypeOK
<1>5. WhoHasTables'
  BY <1>1, <1>2 DEF TablesInv, WhoHasTables
<1>6. \A d \in Contexts : \A n \in Nat : n < nextId[d] => n < nextId'[d]
  <2> SUFFICES ASSUME NEW d \in Contexts, NEW n \in Nat, n < nextId[d] PROVE n < nextId'[d]
    OBVIOUS
  <2>1. nextId[c] \in Nat /\ nextId'[c] = nextId[c] + 1
    BY <1>1, <1>3
  <2>2. CASE d = c
    BY <2>1, <2>2
  <2>3. CASE d # c
    BY <1>3, <2>3
  <2> QED BY <2>2, <2>3
<1>7. IdsGiven'
  <2>1. \A r \in adding' \cup regs' : r.id < nextId'[r.ctx]
    BY <1>0, <1>1, <1>2, <1>3, <1>6, EntryOf DEF TablesInv, IdsGiven, TablesTypeOK
  <2>2. ASSUME NEW d \in Contexts, tables[d] # NoTable, NEW a \in BucketNames, NEW e \in tables[d][a]
        PROVE  e.id < nextId'[d]
    <3>1. e.id \in Nat
      BY <1>0, <2>2 DEF TablesTypeOK, Tables, Subscribed
    <3> QED BY <1>6, <2>2, <3>1 DEF TablesInv, IdsGiven
  <2>3. ASSUME NEW d \in Contexts, forking[d] # NoTable, NEW i \in DOMAIN forking[d].copied,
               NEW e \in forking[d].copied[i]
        PROVE  e.id < nextId'[forking[d].parent]
    <3>1. forking[d] \in Copies
      BY <1>0, <2>3 DEF TablesTypeOK
    <3>2. forking[d].copied[i] \in SUBSET Subscribed /\ forking[d].parent \in Contexts
      BY <3>1 DEF Copies
    <3>3. e.id \in Nat
      BY <3>2 DEF Subscribed
    <3> QED BY <1>6, <2>3, <3>2, <3>3 DEF TablesInv, IdsGiven
  <2> QED BY <1>2, <2>1, <2>2, <2>3 DEF IdsGiven
<1>8. \A r \in adding \cup regs : r.ctx = c => r.id # new.id
  BY <1>0, <1>1 DEF TablesInv, IdsGiven, TablesTypeOK, Regs
<1>9. \A a \in BucketNames : \A e \in tables[c][a] : e.id # new.id
  <2> SUFFICES ASSUME NEW a \in BucketNames, NEW e \in tables[c][a] PROVE e.id # new.id
    OBVIOUS
  <2>1. e.id \in Nat
    BY <1>0, <1>2 DEF TablesTypeOK, Tables, Subscribed
  <2> QED BY <1>1, <1>2, <2>1 DEF TablesInv, IdsGiven
<1>10. ListsUnique'
  BY <1>0, <1>1, <1>2, <1>8, <1>9 DEF TablesInv, ListsUnique
<1>11. OwedIsInherited'
  <2> SUFFICES ASSUME NEW d \in Contexts \ {Root}, tables[d] # NoTable, NEW g \in owed[d]
               PROVE  \E a \in BucketNames : \E e \in tables[d][a] : e.handler = g /\ Inherited(d, a, e)'
    BY <1>2 DEF OwedIsInherited
  <2>a. PICK a \in BucketNames : \E e \in tables[d][a] : e.handler = g /\ Inherited(d, a, e)
    BY DEF TablesInv, OwedIsInherited
  <2>1. PICK e \in tables[d][a] : e.handler = g /\ Inherited(d, a, e)
    BY <2>a
  <2>2. Inherited(d, a, e)'
    BY <1>1, <1>2, <1>9, <2>1 DEF Inherited
  <2> QED BY <2>1, <2>2
<1>12. CopiesUnique' /\ RegisteredIsHeard' /\ OwedIsComing' /\ DroppedIsSilent'
  BY <1>2 DEF TablesInv, CopiesUnique, RegisteredIsHeard, OwedIsComing, DroppedIsSilent
<1> QED BY <1>4, <1>5, <1>7, <1>10, <1>11, <1>12 DEF TablesInv

LEMMA PushStep ==
  ASSUME TablesInv, NEW r \in adding, Push(r)
  PROVE  TablesInv'
<1> DEFINE L == tables[r.ctx][r.bucket] \cup {Entry(r)}
<1>0. TablesTypeOK /\ r \in Regs
  BY DEF TablesInv, TablesTypeOK
<1>1. tables[r.ctx] # NoTable /\ tables[r.ctx] \in Tables
  BY <1>0, EntryOf DEF TablesInv, WhoHasTables, TablesTypeOK
<1>2. L \in SUBSET Subscribed
  BY <1>0, <1>1, EntryOf DEF Tables
<1>3. /\ adding' = adding \ {r} /\ regs' = regs \cup {r}
      /\ tables' = [tables EXCEPT ![r.ctx] = [tables[r.ctx] EXCEPT ![r.bucket] = L]]
      /\ UNCHANGED <<nextId, forking, owed>>
  BY DEF Push
<1> HIDE DEF L
<1>4. /\ tables' \in [Contexts -> Tables \cup {NoTable}]
      /\ tables'[r.ctx] # NoTable /\ tables'[r.ctx][r.bucket] = L
      /\ \A d \in Contexts : d # r.ctx => tables'[d] = tables[d]
      /\ \A a \in BucketNames : a # r.bucket => tables'[r.ctx][a] = tables[r.ctx][a]
      /\ \A d \in Contexts : tables'[d] = NoTable <=> tables[d] = NoTable
  BY <1>0, <1>1, <1>2, <1>3, EntryOf, ListChanged
<1>5. adding' \cup regs' = adding \cup regs
  BY <1>3
<1>6. TablesTypeOK'
  BY <1>0, <1>3, <1>4 DEF TablesTypeOK
<1>7. \A d \in Contexts, a \in BucketNames : tables[d] # NoTable =>
        /\ tables[d][a] \subseteq tables'[d][a]
        /\ \A e \in tables'[d][a] : e \in tables[d][a] \/ (e = Entry(r) /\ d = r.ctx /\ a = r.bucket)
  BY <1>4 DEF L
<1>8. WhoHasTables'
  BY <1>0, <1>3, <1>4, <1>5, EntryOf DEF TablesInv, WhoHasTables, TablesTypeOK, Copies
<1>9. IdsGiven'
  BY <1>0, <1>3, <1>4, <1>5, <1>7, EntryOf DEF TablesInv, IdsGiven
<1>10. ListsUnique'
  <2>1. \A s \in adding : s \in Regs
    BY <1>0 DEF TablesTypeOK
  <2>2. \A s \in adding' : \A e \in tables'[s.ctx][s.bucket] : e.id # s.id
    <3> SUFFICES ASSUME NEW s \in adding', NEW e \in tables'[s.ctx][s.bucket] PROVE e.id # s.id
      OBVIOUS
    <3>1. s \in adding /\ s # r /\ s \in Regs /\ tables[s.ctx] # NoTable
      BY <1>3, <2>1 DEF TablesInv, WhoHasTables
    <3>2. CASE e \in tables[s.ctx][s.bucket]
      BY <3>1, <3>2 DEF TablesInv, ListsUnique
    <3>3. CASE e = Entry(r) /\ s.ctx = r.ctx /\ s.bucket = r.bucket
      BY <1>0, <3>1, <3>3, EntryOf DEF TablesInv, ListsUnique
    <3> QED BY <1>7, <3>1, <3>2, <3>3, EntryOf
  <2>3. ASSUME NEW d \in Contexts, tables'[d] # NoTable, NEW a \in BucketNames,
               NEW e \in tables'[d][a], NEW f \in tables'[d][a], e.id = f.id
        PROVE  e = f
    <3>1. tables[d] # NoTable
      BY <1>4, <2>3
    <3>2. \A g \in tables[r.ctx][r.bucket] : g.id # Entry(r).id
      BY <1>0, EntryOf DEF TablesInv, ListsUnique
    <3> QED BY <1>7, <2>3, <3>1, <3>2 DEF TablesInv, ListsUnique
  <2> QED BY <1>3, <2>2, <2>3 DEF TablesInv, ListsUnique
<1>11. RegisteredIsHeard'
  <2> SUFFICES ASSUME NEW s \in regs' PROVE Entry(s) \in tables'[s.ctx][s.bucket]
    BY DEF RegisteredIsHeard
  <2>1. CASE s = r
    BY <1>4, <2>1 DEF L
  <2>2. CASE s \in regs
    <3>1. s \in Regs /\ tables[s.ctx] # NoTable /\ Entry(s) \in tables[s.ctx][s.bucket]
      BY <1>0, <2>2 DEF TablesInv, TablesTypeOK, WhoHasTables, RegisteredIsHeard
    <3> QED BY <1>7, <3>1, EntryOf
  <2> QED BY <1>3, <2>1, <2>2
<1>12. OwedIsInherited'
  <2> SUFFICES ASSUME NEW d \in Contexts \ {Root}, tables'[d] # NoTable, NEW g \in owed[d]
               PROVE  \E a \in BucketNames : \E e \in tables'[d][a] : e.handler = g /\ Inherited(d, a, e)'
    BY <1>3 DEF OwedIsInherited
  <2>0. tables[d] # NoTable
    BY <1>4
  <2>a. PICK a \in BucketNames : \E e \in tables[d][a] : e.handler = g /\ Inherited(d, a, e)
    BY <2>0 DEF TablesInv, OwedIsInherited
  <2>1. PICK e \in tables[d][a] : e.handler = g /\ Inherited(d, a, e)
    BY <2>a
  <2>2. Inherited(d, a, e)'
    BY <1>5, <2>1 DEF Inherited
  <2> QED BY <1>7, <2>0, <2>1, <2>2
<1>13. OwedIsComing'
  <2>1. \A c \in Contexts : forking[c] # NoTable =>
          forking[c].parent \in Contexts /\ tables[forking[c].parent] # NoTable
    BY <1>0 DEF TablesInv, WhoHasTables, TablesTypeOK, Copies
  <2>2. \A i \in DOMAIN Buckets : Buckets[i] \in BucketNames
    BY DEF BucketNames
  <2> QED BY <1>3, <1>7, <2>1, <2>2 DEF TablesInv, OwedIsComing
<1>14. DroppedIsSilent'
  <2> SUFFICES ASSUME NEW a \in BucketNames, NEW e \in tables'[Root][a]
               PROVE  \E s \in regs' : s.ctx = Root /\ s.bucket = a /\ Entry(s) = e
    BY DEF DroppedIsSilent
  <2>1. tables[Root] # NoTable
    BY DEF TablesInv, WhoHasTables
  <2> QED BY <1>3, <1>7, <2>1 DEF TablesInv, DroppedIsSilent
<1>15. CopiesUnique'
  BY <1>3 DEF TablesInv, CopiesUnique
<1> QED BY <1>6, <1>8, <1>9, <1>10, <1>11, <1>12, <1>13, <1>14, <1>15 DEF TablesInv

LEMMA UnsubscribeStep ==
  ASSUME TablesInv, NEW r \in regs, Unsubscribe(r)
  PROVE  TablesInv'
<1> DEFINE L == {e \in tables[r.ctx][r.bucket] : e.id # r.id}
<1>0. TablesTypeOK /\ r \in Regs
  BY DEF TablesInv, TablesTypeOK
<1>1. /\ tables[r.ctx] # NoTable /\ tables[r.ctx] \in Tables
      /\ Entry(r) \in tables[r.ctx][r.bucket]
  BY <1>0, EntryOf DEF TablesInv, WhoHasTables, TablesTypeOK, RegisteredIsHeard
<1>2. L \in SUBSET Subscribed
  BY <1>0, <1>1, EntryOf DEF Tables
<1>3. /\ regs' = regs \ {r}
      /\ tables' = [tables EXCEPT ![r.ctx] = [tables[r.ctx] EXCEPT ![r.bucket] = L]]
      /\ owed' = [c \in Contexts |-> IF forking[c] # NoTable THEN owed[c] \ {r.handler} ELSE owed[c]]
      /\ UNCHANGED <<nextId, adding, forking>>
  BY DEF Unsubscribe
\* Only the entry of r goes.
<1>a. \A e \in tables[r.ctx][r.bucket] : e \in L \/ e = Entry(r)
  BY <1>0, <1>1, EntryOf DEF TablesInv, ListsUnique
<1>b. \A e \in L : e \in tables[r.ctx][r.bucket] /\ e.id # r.id
  OBVIOUS
<1> HIDE DEF L
<1>4. /\ tables' \in [Contexts -> Tables \cup {NoTable}]
      /\ tables'[r.ctx] # NoTable /\ tables'[r.ctx][r.bucket] = L
      /\ \A d \in Contexts : d # r.ctx => tables'[d] = tables[d]
      /\ \A a \in BucketNames : a # r.bucket => tables'[r.ctx][a] = tables[r.ctx][a]
      /\ \A d \in Contexts : tables'[d] = NoTable <=> tables[d] = NoTable
  BY <1>0, <1>1, <1>2, <1>3, EntryOf, ListChanged
<1>6. TablesTypeOK'
  BY <1>0, <1>3, <1>4 DEF TablesTypeOK
<1>7. \A d \in Contexts, a \in BucketNames : tables[d] # NoTable =>
        /\ tables'[d][a] \subseteq tables[d][a]
        /\ \A e \in tables[d][a] :
             e \in tables'[d][a] \/ (e = Entry(r) /\ d = r.ctx /\ a = r.bucket)
  BY <1>4, <1>a, <1>b
<1>c. \A e \in tables'[r.ctx][r.bucket] : e.id # r.id
  BY <1>4, <1>b
<1>8. WhoHasTables'
  BY <1>0, <1>3, <1>4, EntryOf DEF TablesInv, WhoHasTables, TablesTypeOK, Copies
<1>9. IdsGiven' /\ CopiesUnique'
  BY <1>0, <1>3, <1>4, <1>7 DEF TablesInv, IdsGiven, CopiesUnique
<1>10. ListsUnique'
  <2>1. \A s \in adding : s \in Regs /\ tables[s.ctx] # NoTable
    BY <1>0 DEF TablesInv, TablesTypeOK, WhoHasTables
  <2> QED BY <1>3, <1>4, <1>7, <2>1, EntryOf DEF TablesInv, ListsUnique
<1>11. RegisteredIsHeard'
  <2> SUFFICES ASSUME NEW s \in regs, s # r PROVE Entry(s) \in tables'[s.ctx][s.bucket]
    BY <1>3 DEF RegisteredIsHeard
  <2>1. s \in Regs /\ tables[s.ctx] # NoTable /\ Entry(s) \in tables[s.ctx][s.bucket]
    BY <1>0 DEF TablesInv, TablesTypeOK, WhoHasTables, RegisteredIsHeard
  <2>2. ~ (Entry(s) = Entry(r) /\ s.ctx = r.ctx /\ s.bucket = r.bucket)
    BY <1>0, <2>1, SameReg
  <2> QED BY <1>7, <2>1, <2>2, EntryOf
<1>12. OwedIsInherited'
  <2> SUFFICES ASSUME NEW d \in Contexts \ {Root}, tables'[d] # NoTable, NEW g \in owed'[d]
               PROVE  \E a \in BucketNames : \E e \in tables'[d][a] : e.handler = g /\ Inherited(d, a, e)'
    BY DEF OwedIsInherited
  <2>0. tables[d] # NoTable /\ g \in owed[d]
    BY <1>3, <1>4 DEF TablesInv, WhoHasTables
  <2>a. PICK a \in BucketNames : \E e \in tables[d][a] : e.handler = g /\ Inherited(d, a, e)
    BY <2>0 DEF TablesInv, OwedIsInherited
  <2>1. PICK e \in tables[d][a] : e.handler = g /\ Inherited(d, a, e)
    BY <2>a
  <2>2. Inherited(d, a, e)'
    BY <1>3, <2>1 DEF Inherited
  <2>3. e \in tables'[d][a]
    BY <1>0, <1>7, <2>0, <2>1, EntryOf DEF Inherited
  <2> QED BY <2>1, <2>2, <2>3
<1>13. OwedIsComing'
  <2> SUFFICES ASSUME NEW c \in Contexts, forking[c] # NoTable, NEW h \in owed[c], h # r.handler
               PROVE  \/ \E i \in DOMAIN forking[c].copied : \E e \in forking[c].copied[i] : e.handler = h
                      \/ \E i \in DOMAIN Buckets :
                           /\ i > Len(forking[c].copied)
                           /\ \E e \in tables'[forking[c].parent][Buckets[i]] : e.handler = h
    BY <1>3 DEF OwedIsComing
  <2>1. forking[c].parent \in Contexts /\ tables[forking[c].parent] # NoTable
    BY <1>0 DEF TablesInv, WhoHasTables, TablesTypeOK, Copies
  <2>2. \A i \in DOMAIN Buckets : Buckets[i] \in BucketNames
    BY DEF BucketNames
  <2>3. ASSUME NEW i \in DOMAIN Buckets, NEW e \in tables[forking[c].parent][Buckets[i]], e.handler = h
        PROVE  e \in tables'[forking[c].parent][Buckets[i]]
    BY <1>0, <1>7, <2>1, <2>2, <2>3, EntryOf
  <2> QED BY <2>3 DEF TablesInv, OwedIsComing
<1>14. DroppedIsSilent'
  <2> SUFFICES ASSUME NEW a \in BucketNames, NEW e \in tables'[Root][a]
               PROVE  \E s \in regs' : s.ctx = Root /\ s.bucket = a /\ Entry(s) = e
    BY DEF DroppedIsSilent
  <2>1. tables[Root] # NoTable /\ e \in tables[Root][a]
    BY <1>7 DEF TablesInv, WhoHasTables
  <2>2. PICK s \in regs : s.ctx = Root /\ s.bucket = a /\ Entry(s) = e
    BY <2>1 DEF TablesInv, DroppedIsSilent
  <2>3. s # r
    BY <1>0, <1>c, <2>2, EntryOf
  <2> QED BY <1>3, <2>2, <2>3
<1> QED BY <1>6, <1>8, <1>9, <1>10, <1>11, <1>12, <1>13, <1>14 DEF TablesInv

LEMMA StartForkStep ==
  ASSUME TablesInv, NEW c \in Contexts, NEW p \in Contexts, StartFork(c, p)
  PROVE  TablesInv'
<1> DEFINE new == [parent |-> p, copied |-> <<>>]
           due == {e.handler : e \in UNION {tables[p][b] : b \in BucketNames}}
<1>0. TablesTypeOK
  BY DEF TablesInv
<1>1. /\ tables[p] # NoTable /\ tables[c] = NoTable /\ forking[c] = NoTable
      /\ forking' = [forking EXCEPT ![c] = new] /\ owed' = [owed EXCEPT ![c] = due]
      /\ UNCHANGED <<tables, nextId, adding, regs>>
  BY DEF StartFork
<1>2. new \in Copies /\ new.parent = p /\ Len(new.copied) = 0 /\ DOMAIN new.copied = {}
  BY DEF Copies
<1>3. tables[p] \in Tables
  BY <1>0, <1>1 DEF TablesTypeOK
<1>4. due \in SUBSET Handlers
  BY <1>3 DEF Tables, Subscribed
<1>5. \A h \in due : \E i \in DOMAIN Buckets : \E e \in tables[p][Buckets[i]] : e.handler = h
  BY DEF BucketNames
<1>6. \A i \in DOMAIN Buckets : i > 0 /\ Len(Buckets) \in Nat
  OBVIOUS
<1> HIDE DEF new, due
<1>7. /\ forking'[c] = new /\ owed'[c] = due
      /\ \A d \in Contexts : d # c => forking'[d] = forking[d] /\ owed'[d] = owed[d]
  BY <1>0, <1>1 DEF TablesTypeOK
<1>8. TablesTypeOK'
  BY <1>0, <1>1, <1>2, <1>4 DEF TablesTypeOK
<1>9. WhoHasTables' /\ IdsGiven' /\ CopiesUnique'
  BY <1>1, <1>2, <1>6, <1>7 DEF TablesInv, WhoHasTables, IdsGiven, CopiesUnique
<1>10. ListsUnique' /\ RegisteredIsHeard' /\ DroppedIsSilent'
  BY <1>1 DEF TablesInv, ListsUnique, RegisteredIsHeard, DroppedIsSilent
<1>11. OwedIsInherited'
  BY <1>1, <1>7 DEF TablesInv, OwedIsInherited, Inherited
<1>12. OwedIsComing'
  <2>1. ASSUME NEW h \in due
        PROVE  \E i \in DOMAIN Buckets : /\ i > Len(new.copied)
                                         /\ \E e \in tables[new.parent][Buckets[i]] : e.handler = h
    BY <1>2, <1>5, <1>6
  <2> QED BY <1>1, <1>7, <2>1 DEF TablesInv, OwedIsComing
<1> QED BY <1>8, <1>9, <1>10, <1>11, <1>12 DEF TablesInv

LEMMA CloneStep ==
  ASSUME TablesInv, NEW c \in Contexts, CloneBucket(c)
  PROVE  TablesInv'
<1> DEFINE f == forking[c]
           done == Len(f.copied)
           list == tables[f.parent][Buckets[done + 1]]
           new == [parent |-> f.parent, copied |-> Append(f.copied, list)]
<1>0. TablesTypeOK
  BY DEF TablesInv
<1>1. f # NoTable /\ done < Len(Buckets) /\ UNCHANGED <<tables, nextId, adding, regs, owed>>
  BY DEF CloneBucket
<1>2. f \in Copies /\ f.parent \in Contexts /\ f.copied \in Seq(SUBSET Subscribed) /\ done \in Nat
  BY <1>0, <1>1 DEF TablesTypeOK, Copies
<1>3. tables[f.parent] # NoTable /\ tables[f.parent] \in Tables
  BY <1>0, <1>1, <1>2 DEF TablesInv, WhoHasTables, TablesTypeOK
<1>4. done + 1 \in DOMAIN Buckets /\ Buckets[done + 1] \in BucketNames
  BY <1>1, <1>2 DEF BucketNames
<1>5. list \in SUBSET Subscribed
  BY <1>3, <1>4 DEF Tables
<1>6. forking' = [forking EXCEPT ![c] = [f EXCEPT !.copied = Append(f.copied, list)]]
  BY DEF CloneBucket
<1>7. [f EXCEPT !.copied = Append(f.copied, list)] = new
  <2>1. f = [parent |-> f.parent, copied |-> f.copied]
    BY <1>2 DEF Copies
  <2>2. \A q : [f EXCEPT !.copied = q] = [parent |-> f.parent, copied |-> q]
    <3> HIDE DEF f
    <3> QED BY <2>1
  <2> HIDE DEF list, f
  <2> QED BY <2>2
<1>8. /\ new \in Copies /\ new.parent = f.parent /\ Len(new.copied) = done + 1
      /\ \A i \in DOMAIN new.copied :
           new.copied[i] = IF i = done + 1 THEN list ELSE f.copied[i]
      /\ \A i \in DOMAIN new.copied : i # done + 1 => i \in DOMAIN f.copied
      /\ \A i \in DOMAIN f.copied : i \in DOMAIN new.copied /\ i # done + 1
      /\ done + 1 \in DOMAIN new.copied
  BY <1>2, <1>5 DEF Copies
<1>9. \A e \in list : e.id < nextId[f.parent]
  BY <1>2, <1>3, <1>4 DEF TablesInv, IdsGiven
<1>10. \A d, e \in list : d.id = e.id => d = e
  BY <1>2, <1>3, <1>4 DEF TablesInv, ListsUnique
<1>11. forking' = [forking EXCEPT ![c] = new]
  BY <1>6, <1>7
<1>12. forking'[c] = new /\ \A d \in Contexts : d # c => forking'[d] = forking[d]
  BY <1>0, <1>11 DEF TablesTypeOK
<1>13. done + 1 <= Len(Buckets)
  BY <1>1, <1>2
<1>14. \A h \in owed[c] :
         \/ \E i \in DOMAIN new.copied : \E e \in new.copied[i] : e.handler = h
         \/ \E i \in DOMAIN Buckets : i > done + 1 /\ \E e \in tables[f.parent][Buckets[i]] : e.handler = h
  <2> SUFFICES ASSUME NEW h \in owed[c],
                      ~ \E i \in DOMAIN new.copied : \E e \in new.copied[i] : e.handler = h
               PROVE  \E i \in DOMAIN Buckets : i > done + 1 /\ \E e \in tables[f.parent][Buckets[i]] : e.handler = h
    OBVIOUS
  <2>1. ~ \E i \in DOMAIN f.copied : \E e \in f.copied[i] : e.handler = h
    <3> HIDE DEF new, list, done
    <3> QED BY <1>8
  <2>2. ~ \E e \in list : e.handler = h
    <3> HIDE DEF new, list, done
    <3> QED BY <1>8
  <2>3. PICK i \in DOMAIN Buckets : i > done /\ \E e \in tables[f.parent][Buckets[i]] : e.handler = h
    BY <1>1, <2>1 DEF TablesInv, OwedIsComing
  <2>4. i # done + 1
    BY <2>2, <2>3
  <2> QED BY <1>2, <2>3, <2>4
<1> HIDE DEF new, list, f, done
<1>15. TablesTypeOK'
  BY <1>0, <1>1, <1>8, <1>11 DEF TablesTypeOK
<1>16. WhoHasTables'
  <2>1. tables[c] = NoTable
    BY <1>1 DEF TablesInv, WhoHasTables, f
  <2> QED BY <1>1, <1>3, <1>8, <1>12, <1>13, <2>1 DEF TablesInv, WhoHasTables
<1>17. IdsGiven' /\ CopiesUnique'
  <2>1. \A i \in DOMAIN f.copied :
          /\ \A e \in f.copied[i] : e.id < nextId[f.parent]
          /\ \A d, e \in f.copied[i] : d.id = e.id => d = e
    BY <1>1 DEF TablesInv, IdsGiven, CopiesUnique, f
  <2>2. \A i \in DOMAIN new.copied :
          /\ \A e \in new.copied[i] : e.id < nextId[new.parent]
          /\ \A d, e \in new.copied[i] : d.id = e.id => d = e
    BY <1>8, <1>9, <1>10, <2>1
  <2> QED BY <1>1, <1>12, <2>2 DEF TablesInv, IdsGiven, CopiesUnique
<1>18. OwedIsComing'
  <2> SUFFICES ASSUME NEW d \in Contexts, forking'[d] # NoTable, NEW h \in owed'[d]
               PROVE  \/ \E i \in DOMAIN forking'[d].copied : \E e \in forking'[d].copied[i] : e.handler = h
                      \/ \E i \in DOMAIN Buckets :
                           /\ i > Len(forking'[d].copied)
                           /\ \E e \in tables[forking'[d].parent][Buckets[i]] : e.handler = h
    BY <1>1 DEF OwedIsComing
  <2>1. h \in owed[d]
    BY <1>1
  <2>2. CASE d = c
    BY <1>8, <1>12, <1>14, <2>1, <2>2
  <2>3. CASE d # c
    <3>1. forking'[d] = forking[d]
      BY <1>12, <2>3
    <3> QED BY <2>1, <3>1 DEF TablesInv, OwedIsComing
  <2> QED BY <2>2, <2>3
<1>19. ListsUnique' /\ RegisteredIsHeard' /\ DroppedIsSilent' /\ OwedIsInherited'
  BY <1>1 DEF TablesInv, ListsUnique, RegisteredIsHeard, DroppedIsSilent, OwedIsInherited, Inherited
<1> QED BY <1>15, <1>16, <1>17, <1>18, <1>19 DEF TablesInv

LEMMA EndForkStep ==
  ASSUME TablesInv, NEW c \in Contexts, EndFork(c)
  PROVE  TablesInv'
<1> DEFINE f == forking[c]
           new == [b \in BucketNames |-> UNION {f.copied[i] : i \in {j \in DOMAIN Buckets : Buckets[j] = b}}]
           n == FirstFree(f.copied)
<1>0. TablesTypeOK
  BY DEF TablesInv
<1>1. /\ f # NoTable /\ Len(f.copied) = Len(Buckets)
      /\ tables' = [tables EXCEPT ![c] = new] /\ nextId' = [nextId EXCEPT ![c] = n]
      /\ forking' = [forking EXCEPT ![c] = NoTable] /\ UNCHANGED <<adding, regs, owed>>
  BY DEF EndFork
<1>2. f \in Copies /\ f.parent \in Contexts /\ f.copied \in Seq(SUBSET Subscribed)
  BY <1>0, <1>1 DEF TablesTypeOK, Copies
<1>3. DOMAIN f.copied = DOMAIN Buckets /\ f.copied # <<>>
  BY <1>1, <1>2
<1>4. \A i \in DOMAIN Buckets : Buckets[i] \in BucketNames /\ new[Buckets[i]] = f.copied[i]
  <2> SUFFICES ASSUME NEW i \in DOMAIN Buckets PROVE Buckets[i] \in BucketNames /\ new[Buckets[i]] = f.copied[i]
    OBVIOUS
  <2>1. {j \in DOMAIN Buckets : Buckets[j] = Buckets[i]} = {i}
    OBVIOUS
  <2>2. Buckets[i] \in BucketNames
    BY DEF BucketNames
  <2> QED BY <2>1, <2>2
<1>5. \A b \in BucketNames : \E i \in DOMAIN Buckets : b = Buckets[i]
  BY DEF BucketNames
<1>6. \A i \in DOMAIN Buckets : f.copied[i] \in SUBSET Subscribed
  BY <1>2, <1>3
<1>7. new \in Tables
  <2>1. \A b \in BucketNames : new[b] \in SUBSET Subscribed
    <3> HIDE DEF new
    <3> QED BY <1>4, <1>5, <1>6
  <2> QED BY <2>1 DEF Tables
<1>8. n \in Nat /\ \A i \in DOMAIN f.copied : \A e \in f.copied[i] : e.id < n
  <2>1. nextId[f.parent] \in Nat /\ \A i \in DOMAIN f.copied : \A e \in f.copied[i] : e.id < nextId[f.parent]
    BY <1>0, <1>1, <1>2 DEF TablesInv, TablesTypeOK, IdsGiven
  <2> QED BY <1>2, <1>3, <2>1, FirstFreeAbove
<1>9. \A b \in BucketNames : \A e \in new[b] : e.id < n
  <2> HIDE DEF new, n
  <2> QED BY <1>3, <1>4, <1>5, <1>8
<1>10. \A b \in BucketNames : \A d, e \in new[b] : d.id = e.id => d = e
  <2>1. \A i \in DOMAIN f.copied : \A d, e \in f.copied[i] : d.id = e.id => d = e
    BY <1>1 DEF TablesInv, CopiesUnique
  <2> HIDE DEF new, n
  <2> QED BY <1>3, <1>4, <1>5, <2>1
<1>11. \A h \in owed[c] : \E b \in BucketNames : \E e \in new[b] : e.handler = h
  <2> SUFFICES ASSUME NEW h \in owed[c] PROVE \E b \in BucketNames : \E e \in new[b] : e.handler = h
    OBVIOUS
  <2>1. \A i \in DOMAIN Buckets : ~ (i > Len(f.copied))
    BY <1>1
  <2>2. PICK i \in DOMAIN f.copied : \E e \in f.copied[i] : e.handler = h
    <3> HIDE DEF new
    <3> QED BY <1>1, <2>1 DEF TablesInv, OwedIsComing
  <2> HIDE DEF new, n, f
  <2> QED BY <1>3, <1>4, <2>2
<1>12. tables[c] = NoTable /\ c # Root /\ \A r \in adding \cup regs : r.ctx # c
  BY <1>1 DEF TablesInv, WhoHasTables
<1>13. new # NoTable
  BY <1>7 DEF Tables
<1> HIDE DEF new, n
<1>14. /\ tables'[c] = new /\ nextId'[c] = n /\ forking'[c] = NoTable
       /\ \A d \in Contexts : d # c => /\ tables'[d] = tables[d] /\ nextId'[d] = nextId[d]
                                       /\ forking'[d] = forking[d]
  BY <1>0, <1>1 DEF TablesTypeOK
<1>15. \A d \in Contexts : forking[d] # NoTable => forking[d].parent \in Contexts /\ forking[d].parent # c
  BY <1>0, <1>12 DEF TablesInv, WhoHasTables, TablesTypeOK, Copies
<1>16. \A r \in adding \cup regs : r \in Regs /\ r.ctx \in Contexts
  BY <1>0, EntryOf DEF TablesTypeOK
<1>17. TablesTypeOK'
  BY <1>0, <1>1, <1>7, <1>8 DEF TablesTypeOK
<1>18. WhoHasTables'
  BY <1>1, <1>12, <1>13, <1>14, <1>15, <1>16 DEF TablesInv, WhoHasTables
<1>19. IdsGiven'
  BY <1>1, <1>9, <1>12, <1>14, <1>15, <1>16 DEF TablesInv, IdsGiven
<1>20. CopiesUnique' /\ ListsUnique'
  BY <1>1, <1>10, <1>12, <1>14, <1>16 DEF TablesInv, CopiesUnique, ListsUnique
<1>21. RegisteredIsHeard' /\ DroppedIsSilent'
  BY <1>1, <1>12, <1>14, <1>16 DEF TablesInv, RegisteredIsHeard, DroppedIsSilent
<1>22. OwedIsInherited'
  <2> SUFFICES ASSUME NEW d \in Contexts \ {Root}, tables'[d] # NoTable, NEW g \in owed[d]
               PROVE  \E a \in BucketNames : \E e \in tables'[d][a] : e.handler = g /\ Inherited(d, a, e)'
    BY <1>1 DEF OwedIsInherited
  <2>1. CASE d = c
    BY <1>1, <1>11, <1>12, <1>14, <2>1 DEF Inherited
  <2>2. CASE d # c
    BY <1>1, <1>14, <2>2 DEF TablesInv, OwedIsInherited, Inherited
  <2> QED BY <2>1, <2>2
<1>23. OwedIsComing'
  BY <1>1, <1>14, <1>15 DEF TablesInv, OwedIsComing
<1> QED BY <1>17, <1>18, <1>19, <1>20, <1>21, <1>22, <1>23 DEF TablesInv

LEMMA TablesStep == TablesInv /\ [TablesNext]_tableVars => TablesInv'
<1> SUFFICES ASSUME TablesInv, [TablesNext]_tableVars PROVE TablesInv' OBVIOUS
<1>1. CASE UNCHANGED tableVars
  BY <1>1 DEF tableVars, TablesInv, TablesTypeOK, WhoHasTables, IdsGiven, CopiesUnique, ListsUnique,
     RegisteredIsHeard, OwedIsInherited, Inherited, OwedIsComing, DroppedIsSilent
<1> QED
  BY <1>1, TakeIdStep, PushStep, UnsubscribeStep, StartForkStep, CloneStep, EndForkStep DEF TablesNext

\* For any number of contexts, handlers, buckets and ids, and any number of forks and
\* subscriptions under way: ids do not clash, a registration is heard, and a
\* fork has what was subscribed throughout it, for good.
THEOREM TablesAreSafe == TablesSpec => []TablesSafety
<1>1. TablesInv => TablesSafety
  <2> SUFFICES ASSUME TablesInv PROVE TablesSafety OBVIOUS
  <2>1. IdsUnique
    <3> SUFFICES ASSUME NEW c \in Contexts, tables[c] # NoTable, NEW b \in BucketNames,
                        NEW d \in tables[c][b] \cup {Entry(r) : r \in {a \in adding : a.ctx = c /\ a.bucket = b}},
                        NEW e \in tables[c][b] \cup {Entry(r) : r \in {a \in adding : a.ctx = c /\ a.bucket = b}},
                        d.id = e.id
                 PROVE  d = e
      BY DEF IdsUnique
    <3>1. \A r \in adding : r \in Regs /\ Entry(r).id = r.id
      BY EntryOf DEF TablesInv, TablesTypeOK
    <3> QED BY <3>1 DEF TablesInv, ListsUnique
  <2>2. ForkInherits
    BY DEF TablesInv, OwedIsInherited, ForkInherits
  <2> QED BY <2>1, <2>2 DEF TablesInv, TablesSafety
<1> QED BY <1>1, TablesInitial, TablesStep, PTL DEF TablesSpec

-----------------------------------------------------------------------------
(* MemoryFacts *)

HIDE TablesAssumption
USE FactsAssumption

Lists == [FactIds -> Remembers \cup {NoFact}]
CallStages == {"idle", "reading", "filling", "loaded", "emptied", "written", "indexing", "done"}
CallsTyped == call \in [Callers -> [pc : CallStages, held : Lists, left : SUBSET FactIds]]

\* The types, and what holds whoever overlaps whom: one recall at a time holds
\* the index, which is built from a cache, and a call goes on only with a cache.
FactsOrder ==
  /\ \A q, r \in Recallers : AtWork(q) /\ AtWork(r) => q = r
  /\ recallIndex # NotThere => factCache # NotThere /\ ~IndexHeld
  /\ \A c \in Callers :
       call[c].pc \in {"loaded", "emptied", "written", "indexing"} => factCache # NotThere
  /\ \A r \in Recallers : call[r].pc \in {"idle", "reading", "filling", "loaded"}
  /\ \A w \in Remembers : call[w].pc \in {"emptied", "written"} =>
       \A i \in IdsOf[w] : call[w].held[i] = w

StoresTyped ==
  /\ factFile \in Lists \cup {NotThere} /\ factCache \in Lists \cup {NotThere}
  /\ recallIndex \in Lists \cup {NotThere}
  /\ excused \subseteq {"writes", "recall", "torn"} /\ noted \in Lists
  /\ factFaults \in 0 .. MaxFactFaults

FactsBasic == FactsTypeOK /\ CallsTyped /\ FactsOrder

\* What a step of a call does to its own record, and to no other.
Becomes(c, p, h, l) ==
  /\ call'[c].pc = p /\ call'[c].held = h /\ call'[c].left = l
  /\ \A d \in Callers \ {c} : call'[d] = call[d]

LEMMA CallSteps ==
  ASSUME CallsTyped, FactsTypeOK, NEW c \in Callers
  PROVE  /\ LookAtCache(c) =>
              /\ CallsTyped'
              /\ Becomes(c, IF factCache = NotThere THEN "reading" ELSE "loaded",
                         IF factCache = NotThere THEN call[c].held ELSE factCache, call[c].left)
         /\ ReadFacts(c) =>
              /\ CallsTyped'
              /\ Becomes(c, "filling", IF factFile = NotThere THEN NoFacts ELSE factFile, call[c].left)
         /\ FillCache(c) => CallsTyped' /\ Becomes(c, "loaded", call[c].held, call[c].left)
         /\ EmptyFactFile(c) => CallsTyped' /\ Becomes(c, "emptied", WithOwn(c), call[c].left)
         /\ FillFactFile(c) => CallsTyped' /\ Becomes(c, "written", call[c].held, call[c].left)
         /\ c \in Remembers /\ ReplaceCache(c) =>
              CallsTyped' /\ Becomes(c, "indexing", call[c].held, IdsOf[c])
         /\ BuildIndex(c) => CallsTyped' /\ Becomes(c, "idle", NoFacts, {})
         /\ WriteFails(c) \/ EndCall(c) => CallsTyped' /\ Becomes(c, "done", NoFacts, {})
         /\ \A i \in FactIds : IndexUpsert(c, i) =>
              CallsTyped' /\ Becomes(c, "indexing", call[c].held, call[c].left \ {i})
<1> USE DEF CallsTyped, Becomes
<1>0. NoFacts \in Lists /\ (factFile # NotThere => factFile \in Lists)
      /\ (factCache # NotThere => factCache \in Lists)
  BY DEF FactsTypeOK, Lists, NoFacts
<1>1. ASSUME NEW p \in CallStages, call' = [call EXCEPT ![c].pc = p]
      PROVE  CallsTyped' /\ Becomes(c, p, call[c].held, call[c].left)
  BY <1>1
<1>2. ASSUME NEW p \in CallStages, NEW h \in Lists,
             call' = [call EXCEPT ![c].pc = p, ![c].held = h]
      PROVE  CallsTyped' /\ Becomes(c, p, h, call[c].left)
  BY <1>2
<1>3. ASSUME NEW p \in CallStages, NEW l \in SUBSET FactIds,
             call' = [call EXCEPT ![c].pc = p, ![c].left = l]
      PROVE  CallsTyped' /\ Becomes(c, p, call[c].held, l)
  BY <1>3
<1>4. ASSUME NEW p \in {"idle", "done"}, call' = [call EXCEPT ![c] = [Waits EXCEPT !.pc = p]]
      PROVE  CallsTyped' /\ Becomes(c, p, NoFacts, {})
  BY <1>4, <1>0 DEF Waits, CallStages
<1>5. LookAtCache(c) =>
        /\ CallsTyped'
        /\ Becomes(c, IF factCache = NotThere THEN "reading" ELSE "loaded",
                   IF factCache = NotThere THEN call[c].held ELSE factCache, call[c].left)
  <2>1. CASE LookAtCache(c) /\ factCache = NotThere
    <3>1. call' = [call EXCEPT ![c] = [@ EXCEPT !.pc = "reading"]]
      BY <2>1 DEF LookAtCache
    <3> QED BY <2>1, <3>1 DEF CallStages
  <2>2. CASE LookAtCache(c) /\ factCache # NotThere
    <3>1. call' = [call EXCEPT ![c] = [@ EXCEPT !.pc = "loaded", !.held = factCache]]
      BY <2>2 DEF LookAtCache
    <3> QED BY <1>0, <2>2, <3>1 DEF CallStages
  <2> QED BY <2>1, <2>2
<1>6. ReadFacts(c) =>
        /\ CallsTyped'
        /\ Becomes(c, "filling", IF factFile = NotThere THEN NoFacts ELSE factFile, call[c].left)
  BY <1>0, <1>2 DEF ReadFacts, CallStages
<1>7. FillCache(c) => CallsTyped' /\ Becomes(c, "loaded", call[c].held, call[c].left)
  BY <1>1 DEF FillCache, CallStages
<1>8. EmptyFactFile(c) => CallsTyped' /\ Becomes(c, "emptied", WithOwn(c), call[c].left)
  <2>1. c \in Remembers => WithOwn(c) \in Lists
    BY DEF WithOwn, Lists, Callers
  <2> QED BY <2>1, <1>2 DEF EmptyFactFile, CallStages
<1>9. FillFactFile(c) => CallsTyped' /\ Becomes(c, "written", call[c].held, call[c].left)
  BY <1>1 DEF FillFactFile, CallStages
<1>10. c \in Remembers /\ ReplaceCache(c) =>
         CallsTyped' /\ Becomes(c, "indexing", call[c].held, IdsOf[c])
  BY <1>3 DEF ReplaceCache, CallStages
<1>11. BuildIndex(c) => CallsTyped' /\ Becomes(c, "idle", NoFacts, {})
  BY <1>0 DEF BuildIndex, Waits, CallStages
<1>12. WriteFails(c) \/ EndCall(c) => CallsTyped' /\ Becomes(c, "done", NoFacts, {})
  BY <1>4 DEF WriteFails, EndCall
<1>13. ASSUME NEW i \in FactIds, IndexUpsert(c, i)
       PROVE  CallsTyped' /\ Becomes(c, "indexing", call[c].held, call[c].left \ {i})
  <2>1. call' = [call EXCEPT ![c].left = @ \ {i}] /\ call[c].pc = "indexing"
    BY <1>13 DEF IndexUpsert
  <2> QED BY <2>1
<1> HIDE DEF CallsTyped, Becomes
<1> QED BY <1>5, <1>6, <1>7, <1>8, <1>9, <1>10, <1>11, <1>12, <1>13

LEMMA TypedParts == StoresTyped /\ CallsTyped => FactsTypeOK
BY DEF StoresTyped, CallsTyped, FactsTypeOK, Lists, CallStages

LEMMA WithOwnHas ==
  ASSUME NEW c \in Remembers
  PROVE  /\ \A i \in IdsOf[c] : WithOwn(c)[i] = c
         /\ \A i \in FactIds \ IdsOf[c] : WithOwn(c)[i] = call[c].held[i]
BY DEF WithOwn

LEMMA FactsBasicStep == FactsBasic /\ [FactsNext]_factVars => FactsBasic'
<1> SUFFICES ASSUME FactsBasic, [FactsNext]_factVars PROVE FactsBasic'
  OBVIOUS
<1>0. FactsTypeOK /\ CallsTyped /\ FactsOrder /\ StoresTyped
  BY DEF FactsBasic, FactsTypeOK, StoresTyped, Lists
<1>a. ASSUME StoresTyped', CallsTyped', FactsOrder' PROVE FactsBasic'
  <2>1. StoresTyped' /\ CallsTyped' => FactsTypeOK'
    BY TypedParts, PTL
  <2> QED BY <1>a, <2>1 DEF FactsBasic
<1>b. \A c \in Callers : /\ call[c].held \in Lists /\ call[c].held # NotThere
                          /\ call[c].left \subseteq FactIds
  BY <1>0 DEF CallsTyped, Lists
<1>c. recallIndex # NotThere =>
        \A i \in FactIds, w \in Remembers : [recallIndex EXCEPT ![i] = w] \in Lists
  BY <1>0 DEF StoresTyped, Lists
<1>1. ASSUME NEW c \in Callers, LookAtCache(c) PROVE FactsBasic'
  <2>1. /\ CallsTyped'
        /\ Becomes(c, IF factCache = NotThere THEN "reading" ELSE "loaded",
                   IF factCache = NotThere THEN call[c].held ELSE factCache, call[c].left)
    BY <1>0, <1>1, CallSteps DEF Callers
  <2>2. /\ call[c].pc = "idle" /\ (c \in Recallers => recallIndex = NotThere /\ ~IndexHeld)
        /\ excused' \subseteq {"writes", "recall", "torn"}
        /\ UNCHANGED <<factFile, factCache, recallIndex, noted, factFaults>>
    BY <1>0, <1>1 DEF LookAtCache, Overlaps, StoresTyped
  <2>3. StoresTyped'
    BY <1>0, <1>b, <2>2 DEF StoresTyped, Callers
  <2>4. FactsOrder'
    BY <1>0, <2>1, <2>2 DEF FactsOrder, Becomes, Callers, AtWork, IndexHeld
  <2> QED BY <1>a, <2>1, <2>3, <2>4
<1>2. ASSUME NEW c \in Callers, ReadFacts(c) PROVE FactsBasic'
  <2>1. /\ CallsTyped'
        /\ Becomes(c, "filling", IF factFile = NotThere THEN NoFacts ELSE factFile, call[c].left)
    BY <1>0, <1>2, CallSteps DEF Callers
  <2>2. /\ call[c].pc = "reading" /\ excused' \subseteq {"writes", "recall", "torn"}
        /\ UNCHANGED <<factFile, factCache, recallIndex, noted, factFaults>>
    BY <1>0, <1>2 DEF ReadFacts, StoresTyped
  <2>3. StoresTyped'
    BY <1>0, <1>b, <2>2 DEF StoresTyped, Callers
  <2>4. FactsOrder'
    BY <1>0, <2>1, <2>2 DEF FactsOrder, Becomes, Callers, AtWork, IndexHeld
  <2> QED BY <1>a, <2>1, <2>3, <2>4
<1>3. ASSUME NEW c \in Callers, FillCache(c) PROVE FactsBasic'
  <2>1. /\ CallsTyped'
        /\ Becomes(c, "loaded", call[c].held, call[c].left)
    BY <1>0, <1>3, CallSteps DEF Callers
  <2>2. /\ call[c].pc = "filling" /\ factCache' = call[c].held
        /\ UNCHANGED <<factFile, recallIndex, excused, noted, factFaults>>
    BY <1>0, <1>3 DEF FillCache, StoresTyped
  <2>3. StoresTyped'
    BY <1>0, <1>b, <2>2 DEF StoresTyped, Callers
  <2>4. FactsOrder'
    BY <1>0, <1>b, <2>1, <2>2 DEF FactsOrder, Becomes, Callers, AtWork, IndexHeld
  <2> QED BY <1>a, <2>1, <2>3, <2>4
<1>4. ASSUME NEW c \in Remembers, EmptyFactFile(c) PROVE FactsBasic'
  <2>1. /\ CallsTyped'
        /\ Becomes(c, "emptied", WithOwn(c), call[c].left)
    BY <1>0, <1>4, CallSteps DEF Callers
  <2>2. /\ call[c].pc = "loaded" /\ factFile' = NotThere
        /\ UNCHANGED <<factCache, recallIndex, excused, noted, factFaults>>
    BY <1>0, <1>4 DEF EmptyFactFile, StoresTyped
  <2>3. StoresTyped'
    BY <1>0, <1>b, <2>2 DEF StoresTyped, Callers
  <2>4. FactsOrder'
    BY <1>0, <2>1, <2>2, WithOwnHas DEF FactsOrder, Becomes, Callers, AtWork, IndexHeld
  <2> QED BY <1>a, <2>1, <2>3, <2>4
<1>5. ASSUME NEW c \in Remembers, FillFactFile(c) PROVE FactsBasic'
  <2>1. /\ CallsTyped'
        /\ Becomes(c, "written", call[c].held, call[c].left)
    BY <1>0, <1>5, CallSteps DEF Callers
  <2>2. /\ call[c].pc = "emptied" /\ factFile' = call[c].held
        /\ UNCHANGED <<factCache, recallIndex, excused, noted, factFaults>>
    BY <1>0, <1>5 DEF FillFactFile, StoresTyped
  <2>3. StoresTyped'
    BY <1>0, <1>b, <2>2 DEF StoresTyped, Callers
  <2>4. FactsOrder'
    BY <1>0, <2>1, <2>2 DEF FactsOrder, Becomes, Callers, AtWork, IndexHeld
  <2> QED BY <1>a, <2>1, <2>3, <2>4
<1>6. ASSUME NEW c \in Remembers, WriteFails(c) PROVE FactsBasic'
  <2>1. /\ CallsTyped'
        /\ Becomes(c, "done", NoFacts, {})
    BY <1>0, <1>6, CallSteps DEF Callers
  <2>2. /\ call[c].pc = "emptied" /\ factFaults' \in 0 .. MaxFactFaults
        /\ UNCHANGED <<factFile, factCache, recallIndex, excused, noted>>
    BY <1>0, <1>6 DEF WriteFails, StoresTyped
  <2>3. StoresTyped'
    BY <1>0, <1>b, <2>2 DEF StoresTyped, Callers
  <2>4. FactsOrder'
    BY <1>0, <2>1, <2>2 DEF FactsOrder, Becomes, Callers, AtWork, IndexHeld
  <2> QED BY <1>a, <2>1, <2>3, <2>4
<1>7. ASSUME NEW c \in Remembers, ReplaceCache(c) PROVE FactsBasic'
  <2>1. /\ CallsTyped'
        /\ Becomes(c, "indexing", call[c].held, IdsOf[c])
    BY <1>0, <1>7, CallSteps DEF Callers
  <2>2. /\ call[c].pc = "written" /\ factCache' = call[c].held /\ noted' \in Lists
        /\ UNCHANGED <<factFile, recallIndex, excused, factFaults>>
    BY <1>0, <1>7 DEF ReplaceCache, StoresTyped, Lists
  <2>3. StoresTyped'
    BY <1>0, <1>b, <2>2 DEF StoresTyped, Callers
  <2>4. FactsOrder'
    BY <1>0, <1>b, <2>1, <2>2 DEF FactsOrder, Becomes, Callers, AtWork, IndexHeld
  <2> QED BY <1>a, <2>1, <2>3, <2>4
<1>8. ASSUME NEW c \in Remembers, EndCall(c) PROVE FactsBasic'
  <2>1. /\ CallsTyped'
        /\ Becomes(c, "done", NoFacts, {})
    BY <1>0, <1>8, CallSteps DEF Callers
  <2>2. /\ call[c].pc = "indexing" /\ call[c].left = {}
        /\ UNCHANGED <<factFile, factCache, recallIndex, excused, noted, factFaults>>
    BY <1>0, <1>8 DEF EndCall, StoresTyped
  <2>3. StoresTyped'
    BY <1>0, <1>b, <2>2 DEF StoresTyped, Callers
  <2>4. FactsOrder'
    BY <1>0, <2>1, <2>2 DEF FactsOrder, Becomes, Callers, AtWork, IndexHeld
  <2> QED BY <1>a, <2>1, <2>3, <2>4
<1>9. ASSUME NEW c \in Recallers, BuildIndex(c) PROVE FactsBasic'
  <2>1. /\ CallsTyped'
        /\ Becomes(c, "idle", NoFacts, {})
    BY <1>0, <1>9, CallSteps DEF Callers
  <2>2. /\ call[c].pc = "loaded" /\ recallIndex' = call[c].held
        /\ UNCHANGED <<factFile, factCache, excused, noted, factFaults>>
    BY <1>0, <1>9 DEF BuildIndex, StoresTyped
  <2>3. StoresTyped'
    BY <1>0, <1>b, <2>2 DEF StoresTyped, Callers
  <2>4. FactsOrder'
    BY <1>0, <2>1, <2>2 DEF FactsOrder, Becomes, Callers, AtWork, IndexHeld
  <2> QED BY <1>a, <2>1, <2>3, <2>4
<1>10. ASSUME NEW c \in Remembers, NEW i \in FactIds, IndexUpsert(c, i) PROVE FactsBasic'
  <2>1. /\ CallsTyped'
        /\ Becomes(c, "indexing", call[c].held, call[c].left \ {i})
    BY <1>0, <1>10, CallSteps DEF Callers
  <2>2. /\ call[c].pc = "indexing" /\ ~IndexHeld /\ (recallIndex = NotThere <=> recallIndex' = NotThere)
        /\ recallIndex' \in Lists \cup {NotThere}
        /\ UNCHANGED <<factFile, factCache, excused, noted, factFaults>>
    <3>1. CASE recallIndex = NotThere
      BY <1>10, <3>1 DEF IndexUpsert
    <3>2. CASE recallIndex # NotThere
      <4>1. recallIndex' = [recallIndex EXCEPT ![i] = c]
        BY <1>10, <3>2 DEF IndexUpsert
      <4>2. recallIndex' \in Lists /\ recallIndex' # NotThere
        BY <1>c, <3>2, <4>1 DEF Lists
      <4> QED BY <1>10, <3>2, <4>2 DEF IndexUpsert
    <3> QED BY <3>1, <3>2
  <2>3. StoresTyped'
    BY <1>0, <1>b, <2>2 DEF StoresTyped, Callers
  <2>4. FactsOrder'
    BY <1>0, <2>1, <2>2 DEF FactsOrder, Becomes, Callers, AtWork, IndexHeld
  <2> QED BY <1>a, <2>1, <2>3, <2>4
<1>11. CASE FactsCrash
  <2>1. CallsTyped'
    BY <1>0, <1>11 DEF FactsCrash, CallsTyped, CallStages, Lists, Waits, NoFacts
  <2>2. \A c \in Callers : call'[c].pc \in {"idle", "done"}
    BY <1>0, <1>11 DEF FactsCrash, CallsTyped, Waits, AtWork
  <2>3. noted' \in Lists
    BY <1>0, <1>11 DEF FactsCrash, StoresTyped, Lists
  <2>4. StoresTyped'
    BY <1>0, <1>11, <2>3 DEF FactsCrash, StoresTyped
  <2>5. FactsOrder'
    BY <1>0, <1>11, <2>2 DEF FactsCrash, FactsOrder, AtWork, Waits, Callers
  <2> QED BY <1>a, <2>1, <2>4, <2>5
<1>12. CASE UNCHANGED factVars
  BY <1>0, <1>12 DEF factVars, FactsBasic, FactsTypeOK, CallsTyped, FactsOrder, AtWork, IndexHeld
<1> QED BY <1>1, <1>2, <1>3, <1>4, <1>5, <1>6, <1>7, <1>8, <1>9, <1>10, <1>11, <1>12 DEF FactsNext

-----------------------------------------------------------------------------
\* No two writes have overlapped, and no load has found the file between the two
\* halves of a write.
Quiet == {"writes", "torn"} \cap excused = {}

Listed(i) == factCache # NotThere /\ factCache[i] # NoFact

\* A write on its way to the index will bring i there.
Owed(i) == \E w \in Remembers : call[w].pc = "indexing" /\ i \in call[w].left

\* The list that write w has loaded, or is about to, has i.
Brings(w, i) ==
  \/ call[w].pc = "reading" /\ factFile # NotThere /\ factFile[i] # NoFact
  \/ call[w].pc \in {"filling", "loaded"} /\ call[w].held[i] # NoFact
  \/ call[w].pc \in {"emptied", "written"} /\ i \notin IdsOf[w] /\ call[w].held[i] # NoFact

\* An index made of list l has, or is owed, what is listed, and has what a write
\* will list beside its own facts.
Covers(l) ==
  \A i \in FactIds : l[i] = NoFact =>
    (Listed(i) => Owed(i)) /\ \A w \in Remembers : ~Brings(w, i)

\* The index is one such list, and so is whatever a recall may make it of.
CoversAll ==
  /\ factCache # NotThere => Covers(factCache)
  /\ recallIndex # NotThere => Covers(recallIndex)
  /\ \A r \in Recallers :
       /\ call[r].pc \in {"filling", "loaded"} => Covers(call[r].held)
       /\ call[r].pc = "reading" /\ factFile # NotThere => Covers(factFile)

QuietOrder ==
  /\ \A v, w \in Remembers : AtWork(v) /\ AtWork(w) => v = w
  /\ factCache = NotThere => factFile # NotThere
  /\ \A c \in Callers :
       call[c].pc = "filling" /\ factCache = NotThere => call[c].held = factFile
  /\ \A r \in Recallers, w \in Remembers :
       call[r].pc = "reading" /\ call[w].pc \in {"loaded", "emptied"} =>
         \A i \in FactIds : Listed(i) => call[w].held[i] # NoFact

ListedInv == Quiet => QuietOrder /\ CoversAll

\* A step that lists, loads and owes nothing that is new keeps every such list.
Carried ==
  \A i \in FactIds :
    /\ Listed(i)' => Listed(i) \/ Owed(i)' \/ \E w \in Remembers : Brings(w, i)
    /\ Owed(i) => Owed(i)'
    /\ \A w \in Remembers : Brings(w, i)' =>
         (Listed(i) /\ ~Owed(i)) \/ \E v \in Remembers : Brings(v, i)

CoversNext(l) ==
  \A i \in FactIds : l[i] = NoFact =>
    (Listed(i)' => Owed(i)') /\ \A w \in Remembers : ~Brings(w, i)'

LEMMA CarriedCovers ==
  ASSUME NEW l, Covers(l), Carried
  PROVE  CoversNext(l)
BY DEF Covers, CoversNext, Carried

LEMMA CoversAllNext ==
  ASSUME factCache' # NotThere => CoversNext(factCache'),
         recallIndex' # NotThere => CoversNext(recallIndex'),
         \A r \in Recallers :
           /\ call'[r].pc \in {"filling", "loaded"} => CoversNext(call'[r].held)
           /\ call'[r].pc = "reading" /\ factFile' # NotThere => CoversNext(factFile')
  PROVE  CoversAll'
BY DEF CoversAll, Covers, CoversNext

\* What each step does outside the record of the call.
LEMMA StoreSteps ==
  ASSUME NEW c \in Callers
  PROVE  /\ LookAtCache(c) =>
              /\ call[c].pc = "idle" /\ (c \in Recallers => recallIndex = NotThere /\ ~IndexHeld)
              /\ excused' = excused \cup Overlaps(c)
              /\ UNCHANGED <<factFile, factCache, recallIndex, noted>>
         /\ ReadFacts(c) =>
              /\ call[c].pc = "reading"
              /\ excused' = excused \cup (IF factFile = NotThere THEN {"torn"} ELSE {})
              /\ UNCHANGED <<factFile, factCache, recallIndex, noted>>
         /\ FillCache(c) =>
              /\ call[c].pc = "filling" /\ factCache' = call[c].held
              /\ UNCHANGED <<factFile, recallIndex, excused, noted>>
         /\ EmptyFactFile(c) =>
              /\ c \in Remembers /\ call[c].pc = "loaded" /\ factFile' = NotThere
              /\ UNCHANGED <<factCache, recallIndex, excused, noted>>
         /\ FillFactFile(c) =>
              /\ call[c].pc = "emptied" /\ factFile' = call[c].held
              /\ UNCHANGED <<factCache, recallIndex, excused, noted>>
         /\ WriteFails(c) =>
              /\ call[c].pc = "emptied"
              /\ UNCHANGED <<factFile, factCache, recallIndex, excused, noted>>
         /\ ReplaceCache(c) =>
              /\ call[c].pc = "written" /\ factCache' = call[c].held
              /\ noted' = [i \in FactIds |-> IF i \in IdsOf[c] THEN c ELSE noted[i]]
              /\ UNCHANGED <<factFile, recallIndex, excused>>
         /\ EndCall(c) =>
              /\ call[c].pc = "indexing" /\ call[c].left = {}
              /\ UNCHANGED <<factFile, factCache, recallIndex, excused, noted>>
         /\ BuildIndex(c) =>
              /\ call[c].pc = "loaded" /\ recallIndex' = call[c].held
              /\ UNCHANGED <<factFile, factCache, excused, noted>>
BY DEF LookAtCache, ReadFacts, FillCache, EmptyFactFile, FillFactFile, WriteFails, ReplaceCache,
       EndCall, BuildIndex

LEMMA ListedStep == FactsBasic /\ FactsBasic' /\ ListedInv /\ [FactsNext]_factVars => ListedInv'
<1> SUFFICES ASSUME FactsBasic, FactsBasic', ListedInv, [FactsNext]_factVars, Quiet'
             PROVE  QuietOrder' /\ CoversAll'
  BY DEF ListedInv
<1>0. FactsTypeOK /\ CallsTyped /\ FactsOrder /\ CallsTyped' /\ FactsOrder' /\ StoresTyped
  BY DEF FactsBasic, FactsTypeOK, StoresTyped, Lists
<1>q. Quiet => QuietOrder /\ CoversAll
  BY DEF ListedInv
<1>b. \A c \in Callers : call[c].held \in Lists /\ call[c].held # NotThere
  BY <1>0 DEF CallsTyped, Lists
<1>1. ASSUME NEW c \in Callers, LookAtCache(c) PROVE QuietOrder' /\ CoversAll'
  <2>1. Becomes(c, IF factCache = NotThere THEN "reading" ELSE "loaded",
                IF factCache = NotThere THEN call[c].held ELSE factCache, call[c].left)
    BY <1>0, <1>1, CallSteps DEF Callers
  <2>2. /\ call[c].pc = "idle" /\ (c \in Recallers => recallIndex = NotThere /\ ~IndexHeld)
        /\ excused' = excused \cup Overlaps(c)
        /\ UNCHANGED <<factFile, factCache, recallIndex, noted>>
    BY <1>1, StoreSteps
  <2>3. Quiet /\ QuietOrder /\ CoversAll
    BY <1>q, <2>2 DEF Quiet
  <2>4. c \in Remembers => \A d \in Remembers \ {c} : ~AtWork(d)
    BY <2>2 DEF Overlaps, Quiet, Callers
  <2>5. QuietOrder'
    <3>1. \A v, w \in Remembers : AtWork(v)' /\ AtWork(w)' => v = w
      BY <2>1, <2>3, <2>4 DEF QuietOrder, Becomes, AtWork, Callers
    <3>2. \A d \in Callers : call'[d].pc = "filling" /\ factCache' = NotThere => call'[d].held = factFile'
      BY <2>1, <2>2, <2>3 DEF QuietOrder, Becomes
    <3>3. ASSUME NEW r \in Recallers, NEW w \in Remembers,
                 call'[r].pc = "reading", call'[w].pc \in {"loaded", "emptied"}, NEW i \in FactIds, Listed(i)'
          PROVE  call'[w].held[i] # NoFact
      <4>1. factCache # NotThere
        BY <2>2, <3>3 DEF Listed
      <4>2. call[r].pc = "reading" /\ r # c
        BY <2>1, <3>3, <4>1 DEF Becomes, Callers
      <4>3. CASE w = c
        BY <2>1, <2>2, <3>3, <4>1, <4>3 DEF Becomes, Listed
      <4>4. CASE w # c
        BY <2>1, <2>2, <2>3, <3>3, <4>2, <4>4 DEF Becomes, Listed, QuietOrder, Callers
      <4> QED BY <4>3, <4>4
    <3> QED BY <2>2, <2>3, <3>1, <3>2, <3>3 DEF QuietOrder
  <2>6. CASE c \in Recallers
    <3>1. Carried
      BY <2>1, <2>2, <2>6 DEF Carried, Listed, Owed, Brings, Becomes, Callers
    <3>2. \A r \in Recallers \ {c} : call'[r].pc = "idle"
      BY <1>0, <2>1, <2>2, <2>6 DEF FactsOrder, IndexHeld, AtWork, Becomes, Callers
    <3>3. factCache # NotThere => CoversNext(factCache)
      BY <2>3, <3>1, CarriedCovers DEF CoversAll
    <3>4. ASSUME factCache = NotThere PROVE Covers(factFile)
      BY <1>0, <2>3, <3>4 DEF Covers, Listed, Brings, FactsOrder, QuietOrder, Callers
    <3>5. factCache = NotThere => CoversNext(factFile)
      BY <3>1, <3>4, CarriedCovers
    <3> QED BY <2>1, <2>2, <2>5, <2>6, <3>2, <3>3, <3>5, CoversAllNext DEF Becomes
  <2>7. CASE c \in Remembers /\ factCache # NotThere
    <3>1. \A r \in Recallers : call'[r] = call[r]
      BY <2>1, <2>7 DEF Becomes, Callers
    <3>2. \A i \in FactIds : ~Owed(i)
      BY <2>2, <2>4, <2>7 DEF Owed, AtWork
    <3>3. \A i \in FactIds : Brings(c, i)' => Listed(i)
      BY <2>1, <2>2, <2>7 DEF Brings, Becomes, Listed
    <3>4. \A w \in Remembers \ {c}, i \in FactIds : Brings(w, i)' => Brings(w, i)
      BY <2>1, <2>2 DEF Brings, Becomes, Callers
    <3>5. Carried
      BY <2>2, <3>2, <3>3, <3>4 DEF Carried, Listed
    <3> QED BY <2>2, <2>3, <2>5, <3>1, <3>5, CarriedCovers, CoversAllNext DEF CoversAll
  <2>8. CASE c \in Remembers /\ factCache = NotThere
    <3>1. \A r \in Recallers : call'[r] = call[r]
      BY <2>1, <2>8 DEF Becomes, Callers
    <3>2. recallIndex = NotThere
      BY <1>0, <2>8 DEF FactsOrder
    <3>3. CoversNext(factFile)
      <4>1. \A w \in Remembers \ {c} : call'[w].pc \in {"idle", "done"}
        BY <2>1, <2>4, <2>8 DEF Becomes, Callers, AtWork
      <4> QED BY <2>1, <2>2, <2>8, <4>1 DEF CoversNext, Listed, Brings, Becomes
    <3>4. \A r \in Recallers : call'[r].pc \in {"filling", "loaded"} => call'[r].held = factFile
      BY <1>0, <2>3, <2>8, <3>1 DEF FactsOrder, QuietOrder, Callers
    <3> QED BY <2>2, <2>5, <2>8, <3>1, <3>2, <3>3, <3>4, CoversAllNext
  <2> QED BY <2>6, <2>7, <2>8 DEF Callers
<1>2. ASSUME NEW c \in Callers, ReadFacts(c) PROVE QuietOrder' /\ CoversAll'
  <2>1. Becomes(c, "filling", IF factFile = NotThere THEN NoFacts ELSE factFile, call[c].left)
    BY <1>0, <1>2, CallSteps DEF Callers
  <2>2. Quiet /\ QuietOrder /\ CoversAll
    BY <1>q, <1>2, StoreSteps DEF Quiet, Callers
  <2>3. QuietOrder'
    BY <1>0, <1>b, <1>2, <2>1, <2>2, StoreSteps, SMTT(40) DEF QuietOrder, FactsOrder, Becomes, AtWork, Callers, Listed, Quiet
  <2>4. Carried
    BY <1>0, <1>b, <1>2, <2>1, <2>2, StoreSteps, SMTT(40) DEF QuietOrder, FactsOrder, Becomes, AtWork, Callers, Listed, Owed, Brings, Carried, Quiet
  <2>5. CoversAll'
    <3>1. factFile # NotThere /\ UNCHANGED <<factFile, factCache, recallIndex>>
          /\ call[c].pc = "reading"
      BY <1>2, StoreSteps DEF Quiet
    <3>2. \A r \in Recallers \ {c} : call'[r] = call[r]
      BY <2>1 DEF Becomes, Callers
    <3>3. c \in Recallers => CoversNext(factFile) /\ call'[c].held = factFile
      BY <2>1, <2>2, <2>4, <3>1, CarriedCovers DEF CoversAll, Becomes
    <3>4. \A r \in Recallers :
            /\ call'[r].pc \in {"filling", "loaded"} => CoversNext(call'[r].held)
            /\ call'[r].pc = "reading" => CoversNext(factFile)
      <4>1. c \in Recallers => call'[c].pc = "filling"
        BY <2>1 DEF Becomes
      <4> QED BY <2>2, <2>4, <3>1, <3>2, <3>3, <4>1, CarriedCovers DEF CoversAll
    <3> QED BY <2>2, <2>4, <3>1, <3>4, CarriedCovers, CoversAllNext DEF CoversAll
  <2> QED BY <2>3, <2>5
<1>3. ASSUME NEW c \in Callers, FillCache(c) PROVE QuietOrder' /\ CoversAll'
  <2>1. Becomes(c, "loaded", call[c].held, call[c].left)
    BY <1>0, <1>3, CallSteps DEF Callers
  <2>2. Quiet /\ QuietOrder /\ CoversAll
    BY <1>q, <1>3, StoreSteps DEF Quiet, Callers
  <2>3. QuietOrder'
    BY <1>0, <1>b, <1>3, <2>1, <2>2, StoreSteps, SMTT(40) DEF QuietOrder, FactsOrder, Becomes, AtWork, Callers, Listed, Quiet
  <2>4. /\ call[c].pc = "filling" /\ factCache' = call[c].held
        /\ UNCHANGED <<factFile, recallIndex, excused, noted>>
    BY <1>3, StoreSteps
  <2>5. CASE c \in Remembers
    <3>1. \A r \in Recallers : call'[r] = call[r]
      BY <2>1, <2>5 DEF Becomes, Callers
    <3>2. Carried
      BY <1>0, <1>b, <2>1, <2>2, <2>4, <2>5 DEF Becomes, Callers, Listed, Owed, Brings, Carried
    <3>3. CoversNext(factCache')
      BY <2>1, <2>2, <2>4, <2>5, SMTT(40) DEF CoversNext, Listed, Brings, Becomes, QuietOrder, AtWork, Callers
    <3> QED BY <2>2, <2>3, <2>4, <3>1, <3>2, <3>3, CarriedCovers, CoversAllNext DEF CoversAll
  <2>6. CASE c \in Recallers
    <3>1. recallIndex = NotThere
      BY <1>0, <2>4, <2>6 DEF FactsOrder, IndexHeld, AtWork
    <3>2. \A r \in Recallers \ {c} : call'[r].pc = "idle"
      BY <1>0, <2>1, <2>4, <2>6 DEF FactsOrder, AtWork, Becomes, Callers
    <3>3. \A w \in Remembers : call'[w] = call[w]
      BY <2>1, <2>6 DEF Becomes, Callers
    <3>4. \A i \in FactIds : call[c].held[i] = NoFact => \A w \in Remembers : ~Brings(w, i)
      BY <2>2, <2>4, <2>6 DEF CoversAll, Covers
    <3>5. CoversNext(call[c].held)
      BY <2>4, <3>3, <3>4 DEF CoversNext, Listed, Brings
    <3> QED BY <2>1, <2>3, <2>4, <2>6, <3>1, <3>2, <3>5, CoversAllNext DEF Becomes
  <2> QED BY <2>5, <2>6 DEF Callers
<1>4. ASSUME NEW c \in Remembers, EmptyFactFile(c) PROVE QuietOrder' /\ CoversAll'
  <2>1. Becomes(c, "emptied", WithOwn(c), call[c].left)
    BY <1>0, <1>4, CallSteps DEF Callers
  <2>2. Quiet /\ QuietOrder /\ CoversAll
    BY <1>q, <1>4, StoreSteps DEF Quiet, Callers
  <2>3. QuietOrder'
    BY <1>0, <1>b, <1>4, <2>1, <2>2, StoreSteps, WithOwnHas, SMTT(40) DEF QuietOrder, FactsOrder, Becomes, AtWork, Callers, Listed, Quiet
  <2>4. Carried
    BY <1>0, <1>b, <1>4, <2>1, <2>2, StoreSteps, WithOwnHas, SMTT(40) DEF QuietOrder, FactsOrder, Becomes, AtWork, Callers, Listed, Owed, Brings, Carried, Quiet
  <2>5. CoversAll'
    <3>1. \A r \in Recallers : call'[r] = call[r]
      BY <2>1 DEF Becomes, Callers
    <3>2. UNCHANGED <<factCache, recallIndex>> /\ factFile' \in {factFile, NotThere}
      BY <1>4, StoreSteps DEF Callers
    <3> QED BY <2>2, <2>4, <3>1, <3>2, CarriedCovers, CoversAllNext DEF CoversAll
  <2> QED BY <2>3, <2>5
<1>5. ASSUME NEW c \in Remembers, FillFactFile(c) PROVE QuietOrder' /\ CoversAll'
  <2>1. Becomes(c, "written", call[c].held, call[c].left)
    BY <1>0, <1>5, CallSteps DEF Callers
  <2>2. Quiet /\ QuietOrder /\ CoversAll
    BY <1>q, <1>5, StoreSteps DEF Quiet, Callers
  <2>3. QuietOrder'
    BY <1>0, <1>b, <1>5, <2>1, <2>2, StoreSteps, SMTT(40) DEF QuietOrder, FactsOrder, Becomes, AtWork, Callers, Listed, Quiet
  <2>4. Carried
    BY <1>0, <1>b, <1>5, <2>1, <2>2, StoreSteps, SMTT(40) DEF QuietOrder, FactsOrder, Becomes, AtWork, Callers, Listed, Owed, Brings, Carried, Quiet
  <2>5. CoversAll'
    <3>1. \A r \in Recallers : call'[r] = call[r]
      BY <2>1 DEF Becomes, Callers
    <3>2. /\ UNCHANGED <<factCache, recallIndex>> /\ factFile' = call[c].held
          /\ call[c].pc = "emptied"
      BY <1>5, StoreSteps DEF Callers
    <3>3. \A w \in Remembers \ {c} : ~AtWork(w)'
      BY <2>1, <2>3 DEF QuietOrder, Becomes, AtWork, Callers
    <3>4. (\E r \in Recallers : call[r].pc = "reading") => CoversNext(call[c].held)
      BY <2>1, <2>2, <3>2, <3>3 DEF QuietOrder, CoversNext, Listed, Brings, Becomes, AtWork, Callers
    <3> QED BY <2>2, <2>4, <3>1, <3>2, <3>4, CarriedCovers, CoversAllNext DEF CoversAll
  <2> QED BY <2>3, <2>5
<1>6. ASSUME NEW c \in Remembers, WriteFails(c) PROVE QuietOrder' /\ CoversAll'
  <2>1. Becomes(c, "done", NoFacts, {})
    BY <1>0, <1>6, CallSteps DEF Callers
  <2>2. Quiet /\ QuietOrder /\ CoversAll
    BY <1>q, <1>6, StoreSteps DEF Quiet, Callers
  <2>3. QuietOrder'
    BY <1>0, <1>b, <1>6, <2>1, <2>2, StoreSteps, SMTT(40) DEF QuietOrder, FactsOrder, Becomes, AtWork, Callers, Listed, Quiet
  <2>4. Carried
    BY <1>0, <1>b, <1>6, <2>1, <2>2, StoreSteps, SMTT(40) DEF QuietOrder, FactsOrder, Becomes, AtWork, Callers, Listed, Owed, Brings, Carried, Quiet
  <2>5. CoversAll'
    <3>1. \A r \in Recallers : call'[r] = call[r]
      BY <2>1 DEF Becomes, Callers
    <3>2. UNCHANGED <<factCache, recallIndex>> /\ factFile' \in {factFile, NotThere}
      BY <1>6, StoreSteps DEF Callers
    <3> QED BY <2>2, <2>4, <3>1, <3>2, CarriedCovers, CoversAllNext DEF CoversAll
  <2> QED BY <2>3, <2>5
<1>7. ASSUME NEW c \in Remembers, ReplaceCache(c) PROVE QuietOrder' /\ CoversAll'
  <2>1. Becomes(c, "indexing", call[c].held, IdsOf[c])
    BY <1>0, <1>7, CallSteps DEF Callers
  <2>2. Quiet /\ QuietOrder /\ CoversAll
    BY <1>q, <1>7, StoreSteps DEF Quiet, Callers
  <2>3. QuietOrder'
    BY <1>0, <1>b, <1>7, <2>1, <2>2, StoreSteps, SMTT(40) DEF QuietOrder, FactsOrder, Becomes, AtWork, Callers, Listed, Quiet
  <2>4. Carried
    BY <1>0, <1>b, <1>7, <2>1, <2>2, StoreSteps, SMTT(40) DEF QuietOrder, FactsOrder, Becomes, AtWork, Callers, Listed, Owed, Brings, Carried, Quiet
  <2>5. CoversAll'
    <3>1. \A r \in Recallers : call'[r] = call[r]
      BY <2>1 DEF Becomes, Callers
    <3>2. UNCHANGED <<factFile, recallIndex>> /\ factCache' = call[c].held
      BY <1>7, StoreSteps DEF Callers
    <3>3. \A w \in Remembers \ {c} : ~AtWork(w)'
      BY <2>1, <2>3 DEF QuietOrder, Becomes, AtWork, Callers
    <3>4. CoversNext(factCache')
      BY <2>1, <3>2, <3>3 DEF CoversNext, Listed, Brings, Becomes, AtWork, Callers
    <3> QED BY <2>2, <2>4, <3>1, <3>2, <3>4, CarriedCovers, CoversAllNext DEF CoversAll
  <2> QED BY <2>3, <2>5
<1>8. ASSUME NEW c \in Remembers, EndCall(c) PROVE QuietOrder' /\ CoversAll'
  <2>1. Becomes(c, "done", NoFacts, {})
    BY <1>0, <1>8, CallSteps DEF Callers
  <2>2. Quiet /\ QuietOrder /\ CoversAll
    BY <1>q, <1>8, StoreSteps DEF Quiet, Callers
  <2>3. QuietOrder'
    BY <1>0, <1>b, <1>8, <2>1, <2>2, StoreSteps, SMTT(40) DEF QuietOrder, FactsOrder, Becomes, AtWork, Callers, Listed, Quiet
  <2>4. Carried
    BY <1>0, <1>b, <1>8, <2>1, <2>2, StoreSteps, SMTT(40) DEF QuietOrder, FactsOrder, Becomes, AtWork, Callers, Listed, Owed, Brings, Carried, Quiet
  <2>5. CoversAll'
    <3>1. \A r \in Recallers : call'[r] = call[r]
      BY <2>1 DEF Becomes, Callers
    <3>2. UNCHANGED <<factCache, recallIndex>> /\ factFile' \in {factFile, NotThere}
      BY <1>8, StoreSteps DEF Callers
    <3> QED BY <2>2, <2>4, <3>1, <3>2, CarriedCovers, CoversAllNext DEF CoversAll
  <2> QED BY <2>3, <2>5
<1>9. ASSUME NEW c \in Recallers, BuildIndex(c) PROVE QuietOrder' /\ CoversAll'
  <2>1. Becomes(c, "idle", NoFacts, {})
    BY <1>0, <1>9, CallSteps DEF Callers
  <2>2. Quiet /\ QuietOrder /\ CoversAll
    BY <1>q, <1>9, StoreSteps DEF Quiet, Callers
  <2>3. QuietOrder'
    BY <1>0, <1>b, <1>9, <2>1, <2>2, StoreSteps, SMTT(40) DEF QuietOrder, FactsOrder, Becomes, AtWork, Callers, Listed, Quiet
  <2>4. Carried
    BY <1>0, <1>b, <1>9, <2>1, <2>2, StoreSteps, SMTT(40) DEF QuietOrder, FactsOrder, Becomes, AtWork, Callers, Listed, Owed, Brings, Carried, Quiet
  <2>5. CoversAll'
    <3>1. /\ UNCHANGED <<factFile, factCache>> /\ recallIndex' = call[c].held
          /\ call[c].pc = "loaded"
      BY <1>9, StoreSteps DEF Callers
    <3>2. \A r \in Recallers : call'[r].pc = "idle"
      BY <1>0, <2>1, <3>1 DEF FactsOrder, AtWork, Becomes, Callers
    <3> QED BY <2>2, <2>4, <3>1, <3>2, CarriedCovers, CoversAllNext DEF CoversAll
  <2> QED BY <2>3, <2>5
<1>10. ASSUME NEW c \in Remembers, NEW j \in FactIds, IndexUpsert(c, j)
       PROVE  QuietOrder' /\ CoversAll'
  <2>1. Becomes(c, "indexing", call[c].held, call[c].left \ {j})
    BY <1>0, <1>10, CallSteps DEF Callers
  <2>2. /\ call[c].pc = "indexing" /\ ~IndexHeld
        /\ UNCHANGED <<factFile, factCache, excused, noted>>
    BY <1>10 DEF IndexUpsert
  <2>3. Quiet /\ QuietOrder /\ CoversAll
    BY <1>q, <2>2 DEF Quiet
  <2>4. QuietOrder'
    BY <1>0, <1>b, <2>1, <2>2, <2>3, SMTT(40) DEF QuietOrder, FactsOrder, Becomes, AtWork, Callers, Listed, Quiet
  <2>5. \A w \in Remembers, i \in FactIds :
          /\ Listed(i)' <=> Listed(i)
          /\ Brings(w, i)' => Brings(w, i)
          /\ i # j /\ Owed(i) => Owed(i)'
    BY <1>0, <2>1, <2>2 DEF Listed, Brings, Owed, Becomes, Callers
  <2>6. \A r \in Recallers : call'[r].pc = "idle"
    BY <1>0, <2>1, <2>2 DEF FactsOrder, Becomes, Callers, IndexHeld, AtWork
  <2>7. factCache' # NotThere => Covers(factCache)'
    BY <2>2, <2>3, <2>5 DEF CoversAll, Covers, Listed
  <2>8. recallIndex' # NotThere => Covers(recallIndex)'
    <3>1. recallIndex' # NotThere =>
            recallIndex # NotThere /\ \A i \in FactIds :
              (i # j => recallIndex'[i] = recallIndex[i]) /\ recallIndex'[j] # NoFact
      BY <1>0, <1>10 DEF IndexUpsert, StoresTyped, Lists
    <3> QED BY <2>3, <2>5, <3>1 DEF CoversAll, Covers
  <2> QED BY <2>4, <2>6, <2>7, <2>8 DEF CoversAll
<1>11. CASE FactsCrash
  <2>1. \A c \in Callers : call'[c].pc \in {"idle", "done"}
    BY <1>0, <1>11 DEF FactsCrash, CallsTyped, Waits, AtWork
  <2>2. factCache' = NotThere /\ recallIndex' = NotThere /\ factFile' # NotThere
    BY <1>11 DEF FactsCrash, Quiet
  <2> QED BY <2>1, <2>2 DEF QuietOrder, CoversAll, AtWork, Callers
<1>12. CASE UNCHANGED factVars
  <2>1. QuietOrder' <=> QuietOrder
    BY <1>12 DEF factVars, QuietOrder, AtWork, Listed
  <2>2. CoversAll' <=> CoversAll
    BY <1>12 DEF factVars, CoversAll, Covers, Listed, Owed, Brings
  <2> QED BY <1>q, <1>12, <2>1, <2>2 DEF factVars, Quiet
<1> QED BY <1>1, <1>2, <1>3, <1>4, <1>5, <1>6, <1>7, <1>8, <1>9, <1>10, <1>11, <1>12 DEF FactsNext

-----------------------------------------------------------------------------
\* No two calls have overlapped, and no load or crash has found the file torn.
Calm == excused = {}

\* The fact that was noted under i, if one was, is what list l has.
Has(l, i) == noted[i] # NoFact => l[i] = noted[i]

\* One call at a time; what is noted is in the cache, or else in the file; the file
\* holds it but for what the call that has just written it is about to note; and
\* the list at hand holds it but for what its call will write.
StoredOrder ==
  /\ \A c, d \in Callers : AtWork(c) /\ AtWork(d) => c = d
  /\ IF factCache # NotThere THEN \A i \in FactIds : Has(factCache, i)
     ELSE factFile # NotThere /\ \A i \in FactIds : Has(factFile, i)
  /\ \A w \in Remembers : call[w].pc = "written" => factFile = call[w].held
  /\ factFile # NotThere => \A i \in FactIds :
       Has(factFile, i) \/ \E w \in Remembers : call[w].pc = "written" /\ i \in IdsOf[w]
  /\ \A c \in Callers : call[c].pc \in {"filling", "loaded"} =>
       \A i \in FactIds : Has(call[c].held, i)
  /\ \A w \in Remembers : call[w].pc \in {"emptied", "written"} =>
       \A i \in FactIds \ IdsOf[w] : Has(call[w].held, i)

StoredInv == Calm => StoredOrder

LEMMA StoredStep == FactsBasic /\ StoredInv /\ [FactsNext]_factVars => StoredInv'
<1> SUFFICES ASSUME FactsBasic, StoredInv, [FactsNext]_factVars, Calm'
             PROVE  StoredOrder'
  BY DEF StoredInv
<1>0. FactsTypeOK /\ CallsTyped /\ FactsOrder /\ StoresTyped
  BY DEF FactsBasic, FactsTypeOK, StoresTyped, Lists
<1>q. Calm => StoredOrder
  BY DEF StoredInv
<1>b. \A c \in Callers : call[c].held \in Lists /\ call[c].held # NotThere
  BY <1>0 DEF CallsTyped, Lists
<1>1. ASSUME NEW c \in Callers, LookAtCache(c) PROVE StoredOrder'
  <2>1. Becomes(c, IF factCache = NotThere THEN "reading" ELSE "loaded",
                IF factCache = NotThere THEN call[c].held ELSE factCache, call[c].left)
    BY <1>0, <1>1, CallSteps DEF Callers
  <2>2. StoredOrder
    BY <1>q, <1>1, StoreSteps DEF Calm, Callers
  <2>3. \A d \in Callers \ {c} : ~AtWork(d)
    BY <1>1, StoreSteps DEF Overlaps, Calm
  <2> QED
    BY <1>0, <1>b, <1>1, <2>1, <2>2, <2>3, StoreSteps, SMTT(40)
       DEF StoredOrder, Has, FactsOrder, Becomes, AtWork, Callers, Calm
<1>2. ASSUME NEW c \in Callers, ReadFacts(c) PROVE StoredOrder'
  <2>1. Becomes(c, "filling", IF factFile = NotThere THEN NoFacts ELSE factFile, call[c].left)
    BY <1>0, <1>2, CallSteps DEF Callers
  <2>2. StoredOrder
    BY <1>q, <1>2, StoreSteps DEF Calm, Callers
  <2> QED
    BY <1>0, <1>b, <1>2, <2>1, <2>2, StoreSteps, SMTT(40)
       DEF StoredOrder, Has, FactsOrder, Becomes, AtWork, Callers, Calm
<1>3. ASSUME NEW c \in Callers, FillCache(c) PROVE StoredOrder'
  <2>1. Becomes(c, "loaded", call[c].held, call[c].left)
    BY <1>0, <1>3, CallSteps DEF Callers
  <2>2. StoredOrder
    BY <1>q, <1>3, StoreSteps DEF Calm, Callers
  <2> QED
    BY <1>0, <1>b, <1>3, <2>1, <2>2, StoreSteps, SMTT(40)
       DEF StoredOrder, Has, FactsOrder, Becomes, AtWork, Callers, Calm
<1>4. ASSUME NEW c \in Remembers, EmptyFactFile(c) PROVE StoredOrder'
  <2>1. Becomes(c, "emptied", WithOwn(c), call[c].left)
    BY <1>0, <1>4, CallSteps DEF Callers
  <2>2. StoredOrder
    BY <1>q, <1>4, StoreSteps DEF Calm, Callers
  <2> QED
    BY <1>0, <1>b, <1>4, <2>1, <2>2, WithOwnHas, StoreSteps, SMTT(40)
       DEF StoredOrder, Has, FactsOrder, Becomes, AtWork, Callers, Calm
<1>5. ASSUME NEW c \in Remembers, FillFactFile(c) PROVE StoredOrder'
  <2>1. Becomes(c, "written", call[c].held, call[c].left)
    BY <1>0, <1>5, CallSteps DEF Callers
  <2>2. StoredOrder
    BY <1>q, <1>5, StoreSteps DEF Calm, Callers
  <2> QED
    BY <1>0, <1>b, <1>5, <2>1, <2>2, StoreSteps, SMTT(40)
       DEF StoredOrder, Has, FactsOrder, Becomes, AtWork, Callers, Calm
<1>6. ASSUME NEW c \in Remembers, WriteFails(c) PROVE StoredOrder'
  <2>1. Becomes(c, "done", NoFacts, {})
    BY <1>0, <1>6, CallSteps DEF Callers
  <2>2. StoredOrder
    BY <1>q, <1>6, StoreSteps DEF Calm, Callers
  <2> QED
    BY <1>0, <1>b, <1>6, <2>1, <2>2, StoreSteps, SMTT(40)
       DEF StoredOrder, Has, FactsOrder, Becomes, AtWork, Callers, Calm
<1>7. ASSUME NEW c \in Remembers, ReplaceCache(c) PROVE StoredOrder'
  <2>1. Becomes(c, "indexing", call[c].held, IdsOf[c])
    BY <1>0, <1>7, CallSteps DEF Callers
  <2>2. StoredOrder
    BY <1>q, <1>7, StoreSteps DEF Calm, Callers
  <2> QED
    BY <1>0, <1>b, <1>7, <2>1, <2>2, StoreSteps, SMTT(40)
       DEF StoredOrder, Has, FactsOrder, Becomes, AtWork, Callers, Calm
<1>8. ASSUME NEW c \in Remembers, EndCall(c) PROVE StoredOrder'
  <2>1. Becomes(c, "done", NoFacts, {})
    BY <1>0, <1>8, CallSteps DEF Callers
  <2>2. StoredOrder
    BY <1>q, <1>8, StoreSteps DEF Calm, Callers
  <2> QED
    BY <1>0, <1>b, <1>8, <2>1, <2>2, StoreSteps, SMTT(40)
       DEF StoredOrder, Has, FactsOrder, Becomes, AtWork, Callers, Calm
<1>9. ASSUME NEW c \in Recallers, BuildIndex(c) PROVE StoredOrder'
  <2>1. Becomes(c, "idle", NoFacts, {})
    BY <1>0, <1>9, CallSteps DEF Callers
  <2>2. StoredOrder
    BY <1>q, <1>9, StoreSteps DEF Calm, Callers
  <2> QED
    BY <1>0, <1>b, <1>9, <2>1, <2>2, StoreSteps, SMTT(40)
       DEF StoredOrder, Has, FactsOrder, Becomes, AtWork, Callers, Calm
<1>10. ASSUME NEW c \in Remembers, NEW j \in FactIds, IndexUpsert(c, j) PROVE StoredOrder'
  <2>1. Becomes(c, "indexing", call[c].held, call[c].left \ {j})
    BY <1>0, <1>10, CallSteps DEF Callers
  <2>2. call[c].pc = "indexing" /\ UNCHANGED <<factFile, factCache, excused, noted>>
    BY <1>10 DEF IndexUpsert
  <2>3. StoredOrder
    BY <1>q, <2>2 DEF Calm
  <2> QED BY <1>0, <2>1, <2>2, <2>3, SMTT(40) DEF StoredOrder, Has, Becomes, AtWork, Callers
<1>11. CASE FactsCrash
  <2>1. \A c \in Callers : call'[c].pc \in {"idle", "done"}
    BY <1>0, <1>11 DEF FactsCrash, CallsTyped, Waits, AtWork
  <2>2. factCache' = NotThere /\ factFile' = factFile /\ factFile # NotThere /\ StoredOrder
    BY <1>11, <1>q DEF FactsCrash, Calm
  <2>3. ASSUME NEW i \in FactIds PROVE Has(factFile, i)'
    <3>1. CASE \E w \in Remembers : call[w].pc = "written" /\ i \in IdsOf[w]
      <4>1. PICK w \in Remembers : call[w].pc = "written" /\ i \in IdsOf[w] /\ noted'[i] = w
        BY <1>11, <3>1 DEF FactsCrash
      <4>2. factFile[i] = w
        BY <1>0, <2>2, <4>1 DEF StoredOrder, FactsOrder
      <4> QED BY <2>2, <4>1, <4>2 DEF Has
    <3>2. CASE ~\E w \in Remembers : call[w].pc = "written" /\ i \in IdsOf[w]
      <4>1. noted'[i] = noted[i]
        BY <1>11, <3>2 DEF FactsCrash
      <4> QED BY <2>2, <3>2, <4>1 DEF Has, StoredOrder
    <3> QED BY <3>1, <3>2
  <2> QED BY <2>1, <2>2, <2>3 DEF StoredOrder, AtWork, Callers
<1>12. CASE UNCHANGED factVars
  <2>1. StoredOrder' <=> StoredOrder
    BY <1>12 DEF factVars, StoredOrder, Has, AtWork
  <2> QED BY <1>q, <1>12, <2>1 DEF factVars, Calm
<1> QED BY <1>1, <1>2, <1>3, <1>4, <1>5, <1>6, <1>7, <1>8, <1>9, <1>10, <1>11, <1>12 DEF FactsNext

-----------------------------------------------------------------------------
FactsInv == FactsBasic /\ ListedInv /\ StoredInv

LEMMA FactsInitial == FactsInit => FactsInv
<1> SUFFICES ASSUME FactsInit PROVE FactsInv
  OBVIOUS
<1>1. FactsBasic
  BY DEF FactsInit, FactsBasic, FactsTypeOK, CallsTyped, CallStages, FactsOrder, Lists, NoFacts,
         Waits, AtWork, IndexHeld, Callers
<1>2. \A c \in Callers : call[c].pc = "idle"
  BY DEF FactsInit, Waits
<1>3. factFile = NoFacts /\ factFile # NotThere /\ factCache = NotThere /\ recallIndex = NotThere
      /\ noted = NoFacts
  BY DEF FactsInit, NoFacts
<1>4. QuietOrder /\ CoversAll
  BY <1>2, <1>3 DEF QuietOrder, CoversAll, AtWork, Callers
<1>5. StoredOrder
  BY <1>2, <1>3 DEF StoredOrder, Has, NoFacts, AtWork, Callers
<1> QED BY <1>1, <1>4, <1>5 DEF FactsInv, ListedInv, StoredInv

LEMMA FactsMeanSafety == FactsInv => RememberSafety
<1> SUFFICES ASSUME FactsInv PROVE RememberSafety
  OBVIOUS
<1>1. FactsTypeOK
  BY DEF FactsInv, FactsBasic
<1>2. ListedIsRecalled
  <2> SUFFICES ASSUME Quiet, recallIndex # NotThere, factCache # NotThere,
                      \A c \in Remembers : call[c].pc \notin {"written", "indexing"},
                      NEW i \in FactIds, factCache[i] # NoFact
               PROVE  recallIndex[i] # NoFact
    BY DEF ListedIsRecalled, Quiet
  <2>1. Covers(recallIndex)
    BY DEF FactsInv, ListedInv, CoversAll
  <2>2. Listed(i) /\ ~Owed(i)
    BY DEF Listed, Owed
  <2> QED BY <2>1, <2>2 DEF Covers
<1>3. StoredStays
  BY DEF FactsInv, StoredInv, StoredOrder, Has, Calm, StoredStays
<1> QED BY <1>1, <1>2, <1>3 DEF RememberSafety

\* For any number of calls and recalls that interleave as the locks allow, and over
\* crashes and failed writes: what the list shows is recalled once no write is on its
\* way to the index, where no writes overlap; and where no calls overlap at all, a
\* fact that was stored stays in its last version (remember, consolidate, recall).
THEOREM FactsStayAndAreRecalled == FactsSpec => []RememberSafety
<1>1. FactsInv /\ [FactsNext]_factVars => FactsInv'
  BY FactsBasicStep, ListedStep, StoredStep DEF FactsInv
<1> QED BY <1>1, FactsInitial, FactsMeanSafety, PTL DEF FactsSpec

-----------------------------------------------------------------------------
(* SkillLibrary *)

HIDE FactsAssumption
USE SkillsAssumption

Settings == {"on", "off"}
SkillLists == [Packs -> Settings \cup {NoSkill}]
HandStages == {"idle", "scan", "empty", "put", "clear", "reclaim", "delete", "folder", "synced",
               "copy", "copied"}
HandRecords == [pc : HandStages, job : {"none", "start", "sync", "toggle", "delete"},
                pack : Packs \cup {NoSkill}, held : Settings \cup {NoSkill},
                todo : SUBSET Packs, seen : SUBSET Packs, alone : BOOLEAN]
WalkRecords == [pc : {"idle", "filling", "listed"}, held : SkillLists \cup {NoList}, late : BOOLEAN]

HandsTyped == worker \in [Hands -> HandRecords]
WalksTyped ==
  /\ listing \in [Readers -> WalkRecords] /\ skillCache \in SkillLists \cup {NoList}
  /\ \A r \in Readers : listing[r].pc # "idle" => listing[r].held \in SkillLists
PacksTyped ==
  /\ packDirs \in [Packs -> {"whole", "bare", NoSkill}]
  /\ records \in [Packs -> Settings \cup {"torn", NoSkill}]
  /\ chosen \in [Packs -> Settings \cup {NoSkill}]
  /\ crossed \subseteq Packs /\ staleFill \in BOOLEAN
SkillsTyped == HandsTyped /\ WalksTyped /\ PacksTyped

\* What a worker holds at each stage; a walk of its own is part of a scan.
Staged ==
  \A w \in Hands :
    /\ worker[w].pc \in {"empty", "put", "clear", "delete", "folder", "copy"} => worker[w].pack \in Packs
    /\ worker[w].pc \in {"idle", "scan", "reclaim", "synced", "copied"} => worker[w].pack = NoSkill
    /\ worker[w].pc \in {"empty", "put"} => worker[w].held \in Settings
    /\ worker[w].pc \in {"scan", "reclaim", "synced"} => worker[w].job = "sync"
    /\ worker[w].job = "start" => worker[w].pc = "idle"
    /\ listing[w].pc # "idle" => worker[w].pc = "scan" /\ worker[w].todo = {}

\* A pack that two workers hold is crossed.
Crossings ==
  \A v, w \in Hands : v # w /\ worker[v].pack = worker[w].pack /\ worker[v].pack # NoSkill
    => worker[v].pack \in crossed

\* While a sync is alone, no other worker has begun.
Syncing(w) == worker[w].job = "sync" /\ worker[w].pc \notin {"idle", "copy", "copied"}
SyncsAlone == \A w \in Hands : Syncing(w) /\ worker[w].alone => ~OtherBusy(w)

HandsInv == Staged /\ Crossings /\ SyncsAlone

\* A write that nothing crossed is what was chosen, and has emptied its record.
WritesChosen ==
  \A w \in Hands : worker[w].pc \in {"empty", "put"} /\ worker[w].pack \notin crossed =>
    /\ \/ worker[w].job = "toggle" \/ chosen[worker[w].pack] = NoSkill
       \/ worker[w].held = chosen[worker[w].pack]
    /\ worker[w].pc = "put" => records[worker[w].pack] = "torn"

ChosenInv == WritesChosen /\ SettingKept

\* A list on its way to the cache is as the records are, but where a write has
\* not yet cleared the cache, or has done so since the list was read.
NoWrite == \A w \in Hands : worker[w].pc \notin {"put", "clear", "folder"}
FillsFresh ==
  NoWrite => \A r \in Readers : listing[r].pc = "filling" /\ ~listing[r].late => listing[r].held = Readable

FreshInv == FillsFresh /\ ListIsFresh

\* A sync alone: what it has seen is registered, and the rest of the whole folders
\* is before it; when it reclaims, what it has seen are the whole folders, and the
\* other records are before it.
Registers(w) ==
  /\ \A p \in Packs : packDirs[p] = "whole" => p \in worker[w].seen \cup worker[w].todo
  /\ \A p \in worker[w].seen :
       /\ packDirs[p] = "whole"
       /\ Readable[p] # NoSkill \/ (worker[w].pc \in {"empty", "put"} /\ worker[w].pack = p)
  /\ listing[w].pc # "idle" => listing[w].held = Readable
Reclaims(w) ==
  /\ \A p \in Packs : p \in worker[w].seen <=> packDirs[p] = "whole"
  /\ worker[w].seen \cap worker[w].todo = {}
  /\ \A p \in Packs : Readable[p] # NoSkill <=>
       p \in worker[w].seen \cup worker[w].todo \/ (worker[w].pc = "delete" /\ worker[w].pack = p)
  /\ worker[w].pc = "synced" => worker[w].todo = {}
  /\ worker[w].pc \in {"delete", "folder"} => worker[w].pack \notin worker[w].seen \cup worker[w].todo
InOrder(w) ==
  /\ worker[w].pc \in {"scan", "empty", "put", "clear"} => Registers(w)
  /\ worker[w].pc \in {"reclaim", "delete", "folder", "synced"} => Reclaims(w)
SyncsInv == ~staleFill => \A w \in Hands : Syncing(w) /\ worker[w].alone => InOrder(w)

SkillsInv == SkillsTyped /\ HandsInv /\ ChosenInv /\ FreshInv /\ SyncsInv

-----------------------------------------------------------------------------
(* What a step does to the worker that makes it, and to the other one. *)

HandGets(w, p, j, k, h, t, s, a) ==
  /\ worker'[w].pc = p /\ worker'[w].job = j /\ worker'[w].pack = k /\ worker'[w].held = h
  /\ worker'[w].todo = t /\ worker'[w].seen = s /\ worker'[w].alone = a
HandKeeps(v) == worker'[v] = worker[v]
HandCrossed(v) ==
  HandGets(v, worker[v].pc, worker[v].job, worker[v].pack, worker[v].held, worker[v].todo,
           worker[v].seen, ~Busy(v))

Moves(w, p, j, k, h, t, s, a) ==
  HandGets(w, p, j, k, h, t, s, a) /\ \A v \in Hands \ {w} : HandKeeps(v)
Begins(w, p, j, k, h, t, a) ==
  HandGets(w, p, j, k, h, t, {}, a) /\ \A v \in Hands \ {w} : HandCrossed(v)

LEMMA AloneSet ==
  ASSUME NEW r \in HandRecords, NEW b \in BOOLEAN, NEW q, q = [r EXCEPT !.alone = b]
  PROVE  q \in HandRecords /\ q.pc = r.pc /\ q.job = r.job /\ q.pack = r.pack /\ q.held = r.held
         /\ q.todo = r.todo /\ q.seen = r.seen /\ q.alone = b
BY DEF HandRecords

LEMMA HandBegins ==
  ASSUME HandsTyped, NEW w \in Hands, NEW q \in HandRecords, q.seen = {},
         worker' = NotAlone([worker EXCEPT ![w] = q], w)
  PROVE  HandsTyped' /\ Begins(w, q.pc, q.job, q.pack, q.held, q.todo, q.alone)
<1> DEFINE ws == [worker EXCEPT ![w] = q]
<1>1. ws[w] = q /\ \A v \in Hands \ {w} : ws[v] = worker[v]
  BY DEF HandsTyped
<1>2. worker' = [v \in Hands |-> IF v = w THEN ws[v] ELSE [ws[v] EXCEPT !.alone = ~Busy(v)]]
  BY DEF NotAlone
<1> HIDE DEF ws
<1>3. worker'[w] = q
  BY <1>1, <1>2
<1>4. ASSUME NEW v \in Hands \ {w} PROVE worker'[v] \in HandRecords /\ HandCrossed(v)
  <2> DEFINE b == ~Busy(v)
  <2>1. worker'[v] = [worker[v] EXCEPT !.alone = b] /\ worker[v] \in HandRecords
    BY <1>1, <1>2 DEF HandsTyped
  <2>2. b \in BOOLEAN
    OBVIOUS
  <2> HIDE DEF b
  <2>3. worker'[v].alone = b /\ worker'[v] \in HandRecords
        /\ HandGets(v, worker[v].pc, worker[v].job, worker[v].pack, worker[v].held, worker[v].todo,
                    worker[v].seen, b)
    BY <2>1, <2>2, AloneSet DEF HandGets
  <2> QED BY <2>3 DEF HandCrossed, b
<1>5. worker' \in [Hands -> HandRecords]
  BY <1>2, <1>3, <1>4
<1> QED BY <1>3, <1>4, <1>5 DEF HandsTyped, Begins, HandGets

LEMMA HandBecomes ==
  ASSUME HandsTyped, NEW w \in Hands, NEW q \in HandRecords, worker' = [worker EXCEPT ![w] = q]
  PROVE  HandsTyped' /\ Moves(w, q.pc, q.job, q.pack, q.held, q.todo, q.seen, q.alone)
BY DEF HandsTyped, Moves, HandGets, HandKeeps

LEMMA ToStage ==
  ASSUME HandsTyped, NEW w \in Hands, NEW p \in HandStages, worker' = [worker EXCEPT ![w].pc = p]
  PROVE  HandsTyped' /\ Moves(w, p, worker[w].job, worker[w].pack, worker[w].held, worker[w].todo,
                              worker[w].seen, worker[w].alone)
<1> DEFINE q == [worker[w] EXCEPT !.pc = p]
<1>1. q \in HandRecords /\ q.pc = p /\ q.job = worker[w].job /\ q.pack = worker[w].pack
      /\ q.held = worker[w].held /\ q.todo = worker[w].todo /\ q.seen = worker[w].seen
      /\ q.alone = worker[w].alone
  BY DEF HandsTyped, HandRecords
<1>2. worker' = [worker EXCEPT ![w] = q]
  OBVIOUS
<1> HIDE DEF q
<1> QED BY <1>1, <1>2, HandBecomes

LEMMA HandTakesUp ==
  ASSUME HandsTyped, NEW w \in Hands, NEW p \in HandStages, NEW k \in Packs,
         NEW h \in Settings \cup {NoSkill}, NEW s \in SUBSET Packs,
         worker' = [worker EXCEPT ![w] = TakesUp(w, p, k, h, s)]
  PROVE  HandsTyped' /\ Moves(w, p, worker[w].job, k, h, worker[w].todo \ {k}, s, worker[w].alone)
<1> DEFINE j == worker[w].job  t == worker[w].todo \ {k}  a == worker[w].alone
<1>1. j \in {"none", "start", "sync", "toggle", "delete"} /\ t \in SUBSET Packs /\ a \in BOOLEAN
  BY DEF HandsTyped, HandRecords
<1>2. worker' = [worker EXCEPT ![w] = [pc |-> p, job |-> j, pack |-> k, held |-> h, todo |-> t,
                                       seen |-> s, alone |-> a]]
  BY DEF TakesUp
<1> HIDE DEF j, t, a
<1> DEFINE q == [pc |-> p, job |-> j, pack |-> k, held |-> h, todo |-> t, seen |-> s, alone |-> a]
<1>3. q \in HandRecords /\ q.pc = p /\ q.job = j /\ q.pack = k /\ q.held = h /\ q.todo = t
      /\ q.seen = s /\ q.alone = a
  BY <1>1 DEF HandRecords
<1>4. worker' = [worker EXCEPT ![w] = q]
  BY <1>2
<1> HIDE DEF q
<1>5. HandsTyped' /\ Moves(w, p, j, k, h, t, s, a)
  BY <1>3, <1>4, HandBecomes
<1> QED BY <1>5 DEF j, t, a

LEMMA ScanEffect ==
  ASSUME SkillsTyped, NEW w \in Hands, NEW p \in Packs, ScanPack(w, p)
  PROVE  /\ HandsTyped'
         /\ packDirs[p] = "whole" =>
              Moves(w, "empty", worker[w].job, p, SettingFor(p), worker[w].todo \ {p},
                    worker[w].seen \cup {p}, worker[w].alone)
         /\ packDirs[p] # "whole" =>
              Moves(w, worker[w].pc, worker[w].job, worker[w].pack, worker[w].held,
                    worker[w].todo \ {p}, worker[w].seen, worker[w].alone)
<1>1. SettingFor(p) \in Settings
  BY DEF SettingFor, Readable, Parsed, SkillsTyped, PacksTyped, Settings
<1>2. worker[w] \in HandRecords
  BY DEF SkillsTyped, HandsTyped
<1>3. CASE packDirs[p] = "whole"
  <2>1. worker' = [worker EXCEPT ![w] = TakesUp(w, "empty", p, SettingFor(p), worker[w].seen \cup {p})]
    BY <1>3 DEF ScanPack
  <2>2. SettingFor(p) \in Settings \cup {NoSkill} /\ worker[w].seen \cup {p} \in SUBSET Packs
        /\ "empty" \in HandStages
    BY <1>1, <1>2 DEF HandRecords, HandStages
  <2> QED BY <1>3, <2>1, <2>2, HandTakesUp DEF SkillsTyped
<1>4. CASE packDirs[p] # "whole"
  <2> DEFINE q == [worker[w] EXCEPT !.todo = @ \ {p}]
  <2>1. q \in HandRecords /\ q.pc = worker[w].pc /\ q.job = worker[w].job /\ q.pack = worker[w].pack
        /\ q.held = worker[w].held /\ q.todo = worker[w].todo \ {p} /\ q.seen = worker[w].seen
        /\ q.alone = worker[w].alone
    BY <1>2 DEF HandRecords
  <2>2. worker' = [worker EXCEPT ![w] = q]
    BY <1>4 DEF ScanPack
  <2> HIDE DEF q
  <2> QED BY <1>4, <2>1, <2>2, HandBecomes DEF SkillsTyped
<1> QED BY <1>3, <1>4

LEMMA RestEffect ==
  ASSUME HandsTyped, NEW w \in Hands, worker' = [worker EXCEPT ![w] = Rests]
  PROVE  HandsTyped' /\ Moves(w, "idle", "none", NoSkill, NoSkill, {}, {}, TRUE)
<1> DEFINE q == Rests
<1>1. q \in HandRecords /\ q.pc = "idle" /\ q.job = "none" /\ q.pack = NoSkill /\ q.held = NoSkill
      /\ q.todo = {} /\ q.seen = {} /\ q.alone = TRUE
  BY DEF Rests, Hand, HandRecords, HandStages
<1>2. worker' = [worker EXCEPT ![w] = q]
  OBVIOUS
<1> HIDE DEF q
<1> QED BY <1>1, <1>2, HandBecomes

LEMMA AfterEffect ==
  ASSUME HandsTyped, NEW w \in Hands, worker' = AfterPack(w)
  PROVE  /\ HandsTyped'
         /\ worker[w].job # "sync" => Moves(w, "idle", "none", NoSkill, NoSkill, {}, {}, TRUE)
         /\ worker[w].job = "sync" =>
              Moves(w, IF worker[w].pc = "clear" THEN "scan" ELSE "reclaim", "sync", NoSkill, NoSkill,
                    worker[w].todo, worker[w].seen, worker[w].alone)
<1>1. CASE worker[w].job # "sync"
  BY <1>1, RestEffect DEF AfterPack
<1>2. CASE worker[w].job = "sync"
  <2> DEFINE q == [worker[w] EXCEPT !.pack = NoSkill, !.held = NoSkill,
                                    !.pc = IF worker[w].pc = "clear" THEN "scan" ELSE "reclaim"]
  <2>1. q \in HandRecords /\ q.pc = (IF worker[w].pc = "clear" THEN "scan" ELSE "reclaim")
        /\ q.job = worker[w].job /\ q.pack = NoSkill
        /\ q.held = NoSkill /\ q.todo = worker[w].todo /\ q.seen = worker[w].seen
        /\ q.alone = worker[w].alone
    <3> DEFINE p == IF worker[w].pc = "clear" THEN "scan" ELSE "reclaim"
    <3>1. worker[w] \in HandRecords /\ p \in HandStages
      BY DEF HandsTyped, HandStages
    <3> HIDE DEF p
    <3> QED BY <3>1 DEF HandRecords, p
  <2>2. worker' = [worker EXCEPT ![w] = q]
    BY <1>2 DEF AfterPack
  <2> HIDE DEF q
  <2> QED BY <1>2, <2>1, <2>2, HandBecomes
<1> QED BY <1>1, <1>2

LEMMA ReclaimTheseEffect ==
  ASSUME SkillsTyped, NEW w \in Hands, ReclaimThese(w)
  PROVE  HandsTyped' /\ Moves(w, "reclaim", worker[w].job, worker[w].pack, worker[w].held, NotSeen(w),
                              worker[w].seen, worker[w].alone)
<1> DEFINE q == [worker[w] EXCEPT !.pc = "reclaim", !.todo = NotSeen(w)]
<1>1. q \in HandRecords /\ q.pc = "reclaim" /\ q.job = worker[w].job /\ q.pack = worker[w].pack
      /\ q.held = worker[w].held /\ q.todo = NotSeen(w) /\ q.seen = worker[w].seen
      /\ q.alone = worker[w].alone
  <2>1. NotSeen(w) \in SUBSET Packs
    BY DEF NotSeen
  <2>2. worker[w] \in HandRecords
    BY DEF SkillsTyped, HandsTyped
  <2> QED BY <2>1, <2>2 DEF HandRecords, HandStages
<1>2. worker' = [worker EXCEPT ![w] = q]
  BY DEF ReclaimThese
<1> HIDE DEF q
<1> QED BY <1>1, <1>2, HandBecomes DEF SkillsTyped

LEMMA ReclaimEffect ==
  ASSUME SkillsTyped, NEW w \in Hands, NEW p \in Packs, Reclaim(w, p)
  PROVE  HandsTyped' /\ Moves(w, "delete", worker[w].job, p, Readable[p], worker[w].todo \ {p},
                              worker[w].seen, worker[w].alone)
<1>1. worker' = [worker EXCEPT ![w] = TakesUp(w, "delete", p, Readable[p], worker[w].seen)]
  BY DEF Reclaim
<1>2. Readable[p] \in Settings \cup {NoSkill}
  BY DEF Readable, Parsed, SkillsTyped, PacksTyped, Settings
<1>3. worker[w].seen \in SUBSET Packs /\ "delete" \in HandStages
  BY DEF SkillsTyped, HandsTyped, HandRecords, HandStages
<1> QED BY <1>1, <1>2, <1>3, HandTakesUp DEF SkillsTyped

LEMMA SyncEffect ==
  ASSUME HandsTyped, NEW w \in Hands, worker' = NotAlone([worker EXCEPT ![w] = SyncFrom(w)], w)
  PROVE  HandsTyped' /\ Begins(w, "scan", "sync", NoSkill, NoSkill, {p \in Packs : packDirs[p] # NoSkill},
                               ~OtherBusy(w))
<1> DEFINE t == {p \in Packs : packDirs[p] # NoSkill}
           a == ~OtherBusy(w)
           q == [pc |-> "scan", job |-> "sync", pack |-> NoSkill, held |-> NoSkill, todo |-> t,
                 seen |-> {}, alone |-> a]
<1>1. t \in SUBSET Packs /\ a \in BOOLEAN
  OBVIOUS
<1>2. SyncFrom(w) = q
  BY DEF SyncFrom, Hand
<1> HIDE DEF t, a
<1>3. q \in HandRecords /\ q.pc = "scan" /\ q.job = "sync" /\ q.pack = NoSkill /\ q.held = NoSkill
      /\ q.todo = t /\ q.seen = {} /\ q.alone = a
  BY <1>1 DEF HandRecords, HandStages
<1> HIDE DEF q
<1>4. HandsTyped' /\ Begins(w, "scan", "sync", NoSkill, NoSkill, t, a)
  BY <1>2, <1>3, HandBegins
<1> QED BY <1>4 DEF t, a

LEMMA PanelEffect ==
  ASSUME HandsTyped, NEW p \in HandStages, NEW j \in {"sync", "toggle", "delete"}, NEW k \in Packs,
         NEW h \in Settings \cup {NoSkill}, NEW q,
         q = [pc |-> p, job |-> j, pack |-> k, held |-> h, todo |-> {}, seen |-> {}, alone |-> TRUE],
         PanelBegins(k, q)
  PROVE  HandsTyped' /\ Begins("panel", p, j, k, h, {}, TRUE)
<1>1. q \in HandRecords /\ q.pc = p /\ q.job = j /\ q.pack = k /\ q.held = h
      /\ q.todo = {} /\ q.seen = {} /\ q.alone = TRUE
  BY DEF HandRecords
<1>2. worker' = NotAlone([worker EXCEPT !["panel"] = q], "panel")
  BY DEF PanelBegins
<1> QED BY <1>1, <1>2, HandBegins DEF Hands

LEMMA ToggleEffect ==
  ASSUME SkillsTyped, NEW p \in Packs, NEW s \in {"on", "off"}, Toggle(p, s)
  PROVE  HandsTyped' /\ Begins("panel", "empty", "toggle", p, s, {}, TRUE)
<1> DEFINE q == [pc |-> "empty", job |-> "toggle", pack |-> p, held |-> s, todo |-> {}, seen |-> {},
                 alone |-> TRUE]
<1>1. PanelBegins(p, q)
  BY DEF Toggle, Hand
<1> QED BY <1>1, PanelEffect DEF SkillsTyped, HandStages, Settings

LEMMA DeleteEffect ==
  ASSUME SkillsTyped, NEW p \in Packs, Delete(p)
  PROVE  HandsTyped' /\ Begins("panel", "delete", "delete", p, Readable[p], {}, TRUE)
<1> DEFINE h == Readable[p]
           q == [pc |-> "delete", job |-> "delete", pack |-> p, held |-> h, todo |-> {}, seen |-> {},
                 alone |-> TRUE]
<1>1. PanelBegins(p, q)
  BY DEF Delete, Hand
<1>2. h \in Settings \cup {NoSkill}
  BY DEF Readable, Parsed, SkillsTyped, PacksTyped, Settings
<1> HIDE DEF h
<1> QED BY <1>1, <1>2, PanelEffect DEF SkillsTyped, HandStages, h

LEMMA InstallEffect ==
  ASSUME SkillsTyped, NEW p \in Packs, Install(p)
  PROVE  HandsTyped' /\ Begins("panel", "copy", "sync", p, NoSkill, {}, TRUE)
<1> DEFINE q == [pc |-> "copy", job |-> "sync", pack |-> p, held |-> NoSkill, todo |-> {}, seen |-> {},
                 alone |-> TRUE]
<1>1. PanelBegins(p, q)
  BY DEF Install, Hand
<1> QED BY <1>1, PanelEffect DEF SkillsTyped, HandStages

LEMMA CopyEffect ==
  ASSUME SkillsTyped, CopyFolder
  PROVE  /\ HandsTyped'
         /\ packDirs[worker["panel"].pack] = NoSkill => UNCHANGED worker
         /\ packDirs[worker["panel"].pack] # NoSkill =>
              Moves("panel", "copied", worker["panel"].job, NoSkill, worker["panel"].held,
                    worker["panel"].todo, worker["panel"].seen, worker["panel"].alone)
<1>1. CASE packDirs[worker["panel"].pack] = NoSkill
  BY <1>1 DEF CopyFolder, SkillsTyped, HandsTyped
<1>2. CASE packDirs[worker["panel"].pack] # NoSkill
  <2> DEFINE q == [worker["panel"] EXCEPT !.pc = "copied", !.pack = NoSkill]
  <2>1. q \in HandRecords /\ q.pc = "copied" /\ q.job = worker["panel"].job /\ q.pack = NoSkill
        /\ q.held = worker["panel"].held /\ q.todo = worker["panel"].todo /\ q.seen = worker["panel"].seen
        /\ q.alone = worker["panel"].alone
    BY DEF SkillsTyped, HandsTyped, HandRecords, HandStages, Hands
  <2>2. worker' = [worker EXCEPT !["panel"] = q]
    <3>1. worker' = [worker EXCEPT !["panel"].pc = "copied", !["panel"].pack = NoSkill]
      BY <1>2 DEF CopyFolder
    <3>2. worker \in [Hands -> HandRecords] /\ "panel" \in Hands
      BY DEF SkillsTyped, HandsTyped, Hands
    <3> QED BY <3>1, <3>2
  <2> HIDE DEF q
  <2> QED BY <1>2, <2>1, <2>2, HandBecomes DEF SkillsTyped, Hands
<1> QED BY <1>1, <1>2

LEMMA EditEffect ==
  ASSUME HandsTyped, worker' = NotAlone(worker, "none")
  PROVE  HandsTyped' /\ \A v \in Hands : HandCrossed(v)
<1>1. worker' = [v \in Hands |-> IF v = "none" THEN worker[v] ELSE [worker[v] EXCEPT !.alone = ~Busy(v)]]
  BY DEF NotAlone
<1>2. ASSUME NEW v \in Hands PROVE worker'[v] \in HandRecords /\ HandCrossed(v)
  <2> DEFINE b == ~Busy(v)
  <2>1. worker'[v] = [worker[v] EXCEPT !.alone = b] /\ worker[v] \in HandRecords
    BY <1>1 DEF HandsTyped, Hands
  <2>2. b \in BOOLEAN
    OBVIOUS
  <2> HIDE DEF b
  <2>3. worker'[v].alone = b /\ worker'[v] \in HandRecords
        /\ HandGets(v, worker[v].pc, worker[v].job, worker[v].pack, worker[v].held, worker[v].todo,
                    worker[v].seen, b)
    BY <2>1, <2>2, AloneSet DEF HandGets
  <2> QED BY <2>3 DEF HandCrossed, b
<1>3. worker' \in [Hands -> HandRecords]
  BY <1>1, <1>2
<1> QED BY <1>2, <1>3 DEF HandsTyped

WalksLate ==
  \A r \in Readers : /\ listing'[r].pc = listing[r].pc /\ listing'[r].held = listing[r].held
                     /\ listing'[r].pc = "filling" => listing'[r].late

LEMMA CacheClearedEffect ==
  ASSUME WalksTyped, CacheCleared
  PROVE  listing' \in [Readers -> WalkRecords] /\ WalksLate
<1> DEFINE late(r) == listing[r].late \/ listing[r].pc = "filling"
<1>1. listing' = [r \in Readers |-> [listing[r] EXCEPT !.late = late(r)]]
  BY DEF CacheCleared
<1>2. \A r \in Readers : listing[r] \in WalkRecords /\ late(r) \in BOOLEAN
  BY DEF WalksTyped
<1>3. \A r \in Readers : listing[r].pc = "filling" => late(r)
  OBVIOUS
<1> HIDE DEF late
<1>4. ASSUME NEW r \in Readers
      PROVE  /\ listing'[r] \in WalkRecords /\ listing'[r].pc = listing[r].pc
             /\ listing'[r].held = listing[r].held /\ listing'[r].late = late(r)
  BY <1>1, <1>2 DEF WalkRecords
<1> QED BY <1>1, <1>3, <1>4 DEF WalksLate

LEMMA StartEffect ==
  ASSUME worker' = [w \in Hands |-> AtStart(w)]
  PROVE  HandsTyped' /\ \A w \in Hands :
           HandGets(w, "idle", IF w = "start" THEN "start" ELSE "none", NoSkill, NoSkill, {}, {}, TRUE)
<1> DEFINE j(w) == IF w = "start" THEN "start" ELSE "none"
           q(w) == [pc |-> "idle", job |-> j(w), pack |-> NoSkill, held |-> NoSkill, todo |-> {},
                    seen |-> {}, alone |-> TRUE]
<1>1. \A w \in Hands : AtStart(w) = q(w)
  BY DEF AtStart, Hand
<1>2. \A w \in Hands : q(w) \in HandRecords
  BY DEF HandRecords, HandStages
<1>3. \A w \in Hands : worker'[w] = q(w)
  BY <1>1
<1> QED BY <1>1, <1>2, <1>3 DEF HandsTyped, HandGets

-----------------------------------------------------------------------------
(* Each action keeps the invariant. *)

\* A step of one worker, or of the file manager, leaves no other sync alone.
LEMMA OthersNotAlone ==
  ASSUME HandsInv, NEW w \in Hands, Busy(w), \A v \in Hands \ {w} : HandKeeps(v)
  PROVE  \A v \in Hands \ {w} : ~(Syncing(v)' /\ worker'[v].alone)
BY DEF HandsInv, SyncsAlone, Syncing, OtherBusy, Busy, HandKeeps

LEMMA OthersCrossed ==
  ASSUME NEW w, \A v \in Hands \ {w} : HandCrossed(v)
  PROVE  \A v \in Hands \ {w} : ~(Syncing(v)' /\ worker'[v].alone)
BY DEF Syncing, Busy, HandCrossed, HandGets

LEMMA EmptyRecordKeeps ==
  ASSUME SkillsInv, NEW w \in Hands, EmptyRecord(w)
  PROVE  SkillsInv'
<1> USE DEF SkillsInv, SkillsTyped
<1>1. HandsTyped' /\ worker[w].pc = "empty"
      /\ Moves(w, "put", worker[w].job, worker[w].pack, worker[w].held, worker[w].todo,
               worker[w].seen, worker[w].alone)
  BY ToStage DEF EmptyRecord, HandStages
<1>2. worker[w].pack \in Packs /\ listing[w].pc = "idle"
  BY <1>1 DEF HandsInv, Staged
<1>3. /\ records' = [records EXCEPT ![worker[w].pack] = "torn"]
      /\ UNCHANGED <<packDirs, skillCache, listing, chosen, crossed, staleFill>>
  BY DEF EmptyRecord
<1>4. WalksTyped' /\ PacksTyped'
  BY <1>2, <1>3 DEF WalksTyped, PacksTyped
<1>5. HandsInv'
  <2>1. Staged'
    BY <1>1, <1>2, <1>3 DEF HandsInv, Staged, Moves, HandGets, HandKeeps
  <2>2. Crossings'
    BY <1>1, <1>3 DEF HandsInv, Crossings, Moves, HandGets, HandKeeps
  <2>3. SyncsAlone'
    BY <1>1 DEF HandsInv, SyncsAlone, Syncing, OtherBusy, Busy, Moves, HandGets, HandKeeps
  <2> QED BY <2>1, <2>2, <2>3 DEF HandsInv
<1>6. ChosenInv'
  <2>1. records'[worker[w].pack] = "torn" /\ \A p \in Packs : p # worker[w].pack => records'[p] = records[p]
    BY <1>2, <1>3 DEF PacksTyped
  <2>2. WritesChosen'
    BY <1>1, <1>2, <1>3, <2>1 DEF HandsInv, Staged, ChosenInv, WritesChosen, Moves, HandGets, HandKeeps
  <2>3. SettingKept'
    BY <1>1, <1>2, <1>3, <2>1 DEF ChosenInv, SettingKept, Writing, Moves, HandGets, HandKeeps
  <2> QED BY <2>2, <2>3 DEF ChosenInv
<1>7. FreshInv'
  BY <1>1, <1>3 DEF FreshInv, FillsFresh, ListIsFresh, NoWrite, Moves, HandGets
<1>8. SyncsInv'
  <2> SUFFICES ASSUME ~staleFill', Syncing(w)', worker'[w].alone PROVE InOrder(w)'
    BY <1>1, OthersNotAlone DEF SyncsInv, Moves, Busy
  <2>1. InOrder(w)
    BY <1>1, <1>3 DEF SyncsInv, Syncing, Moves, HandGets
  <2>2. Registers(w)
    BY <1>1, <2>1 DEF InOrder
  <2>3. \A p \in Packs : p # worker[w].pack => Readable'[p] = Readable[p]
    BY <1>2, <1>3 DEF Readable, PacksTyped
  <2>4. Registers(w)'
    BY <1>1, <1>2, <1>3, <2>2, <2>3 DEF Registers, Moves, HandGets, HandsTyped, HandRecords
  <2> QED BY <1>1, <2>4 DEF InOrder, Moves, HandGets
<1> QED BY <1>1, <1>4, <1>5, <1>6, <1>7, <1>8

LEMMA PutRecordKeeps ==
  ASSUME SkillsInv, NEW w \in Hands, PutRecord(w)
  PROVE  SkillsInv'
<1> USE DEF SkillsInv, SkillsTyped
<1>1. HandsTyped' /\ worker[w].pc = "put"
      /\ Moves(w, "clear", worker[w].job, worker[w].pack, worker[w].held, worker[w].todo,
               worker[w].seen, worker[w].alone)
  BY ToStage DEF PutRecord, HandStages
<1>2. worker[w].pack \in Packs /\ listing[w].pc = "idle" /\ worker[w].held \in Settings
  BY <1>1 DEF HandsInv, Staged
<1>3. /\ records' = [records EXCEPT ![worker[w].pack] = worker[w].held]
      /\ chosen' = [chosen EXCEPT ![worker[w].pack] =
                      IF worker[w].job = "toggle" \/ chosen[worker[w].pack] = NoSkill
                      THEN worker[w].held ELSE chosen[worker[w].pack]]
      /\ UNCHANGED <<packDirs, skillCache, listing, crossed, staleFill>>
  BY DEF PutRecord
<1>4. WalksTyped' /\ PacksTyped'
  BY <1>2, <1>3 DEF WalksTyped, PacksTyped
<1>5. HandsInv'
  <2>1. Staged'
    BY <1>1, <1>2, <1>3 DEF HandsInv, Staged, Moves, HandGets, HandKeeps
  <2>2. Crossings'
    BY <1>1, <1>3 DEF HandsInv, Crossings, Moves, HandGets, HandKeeps
  <2>3. SyncsAlone'
    BY <1>1 DEF HandsInv, SyncsAlone, Syncing, OtherBusy, Busy, Moves, HandGets, HandKeeps
  <2> QED BY <2>1, <2>2, <2>3 DEF HandsInv
<1>6. ChosenInv'
  <2>1. \A p \in Packs : p # worker[w].pack => records'[p] = records[p] /\ chosen'[p] = chosen[p]
    BY <1>2, <1>3 DEF PacksTyped
  <2>2. \A v \in Hands \ {w} : worker[v].pack = worker[w].pack => worker[w].pack \in crossed
    BY <1>2 DEF HandsInv, Crossings
  <2>3. WritesChosen'
    BY <1>1, <1>2, <1>3, <2>1, <2>2 DEF HandsInv, Staged, ChosenInv, WritesChosen, Moves, HandGets, HandKeeps
  <2>4. worker[w].pack \notin crossed => records'[worker[w].pack] = chosen'[worker[w].pack]
    BY <1>1, <1>2, <1>3 DEF ChosenInv, WritesChosen, PacksTyped
  <2>5. SettingKept'
    BY <1>1, <1>2, <1>3, <2>1, <2>4 DEF ChosenInv, SettingKept, Writing, Moves, HandGets, HandKeeps
  <2> QED BY <2>3, <2>5 DEF ChosenInv
<1>7. FreshInv'
  BY <1>1, <1>3 DEF FreshInv, FillsFresh, ListIsFresh, NoWrite, Moves, HandGets
<1>8. SyncsInv'
  <2> SUFFICES ASSUME ~staleFill', Syncing(w)', worker'[w].alone PROVE InOrder(w)'
    BY <1>1, OthersNotAlone DEF SyncsInv, Moves, Busy
  <2>1. InOrder(w)
    BY <1>1, <1>3 DEF SyncsInv, Syncing, Moves, HandGets
  <2>2. Registers(w)
    BY <1>1, <2>1 DEF InOrder
  <2>3. (\A p \in Packs : p # worker[w].pack => Readable'[p] = Readable[p])
        /\ Readable'[worker[w].pack] # NoSkill
    BY <1>2, <1>3 DEF Readable, PacksTyped, Parsed, Settings
  <2>4. Registers(w)'
    BY <1>1, <1>2, <1>3, <2>2, <2>3 DEF Registers, Moves, HandGets, HandsTyped, HandRecords
  <2> QED BY <1>1, <2>4 DEF InOrder, Moves, HandGets
<1> QED BY <1>1, <1>4, <1>5, <1>6, <1>7, <1>8

LEMMA ClearCacheKeeps ==
  ASSUME SkillsInv, NEW w \in Hands, ClearCache(w)
  PROVE  SkillsInv'
<1> USE DEF SkillsInv, SkillsTyped
<1>1. /\ HandsTyped' /\ worker[w].pc = "clear"
      /\ worker[w].job # "sync" => Moves(w, "idle", "none", NoSkill, NoSkill, {}, {}, TRUE)
      /\ worker[w].job = "sync" => Moves(w, "scan", "sync", NoSkill, NoSkill,
                                         worker[w].todo, worker[w].seen, worker[w].alone)
  BY AfterEffect DEF ClearCache
<1>2. worker[w].pack \in Packs /\ listing[w].pc = "idle"
  BY <1>1 DEF HandsInv, Staged
<1>3. CacheCleared /\ UNCHANGED <<packDirs, records, chosen, crossed, staleFill>>
  BY DEF ClearCache
<1>4. WalksLate
  BY <1>3, CacheClearedEffect
<1>5. WalksTyped' /\ PacksTyped'
  <2>1. listing' \in [Readers -> WalkRecords]
    BY <1>3, CacheClearedEffect
  <2> QED BY <1>3, <1>4, <2>1 DEF WalksLate, WalksTyped, PacksTyped, CacheCleared
<1>6. HandsInv'
  <2>1. Staged'
    BY <1>1, <1>2, <1>4 DEF WalksLate, HandsInv, Staged, Moves, HandGets, HandKeeps, Hands, Readers
  <2>2. Crossings'
    BY <1>1, <1>3 DEF HandsInv, Crossings, Moves, HandGets, HandKeeps
  <2>3. SyncsAlone'
    BY <1>1 DEF HandsInv, SyncsAlone, Syncing, OtherBusy, Busy, Moves, HandGets, HandKeeps
  <2> QED BY <2>1, <2>2, <2>3 DEF HandsInv
<1>7. ChosenInv'
  <2>1. WritesChosen'
    BY <1>1, <1>3 DEF ChosenInv, WritesChosen, Moves, HandGets, HandKeeps
  <2>2. SettingKept'
    BY <1>1, <1>3 DEF ChosenInv, SettingKept, Writing, Moves, HandGets, HandKeeps
  <2> QED BY <2>1, <2>2 DEF ChosenInv
<1>8. FreshInv'
  BY <1>3, <1>4 DEF WalksLate, FreshInv, FillsFresh, ListIsFresh, CacheCleared
<1>9. SyncsInv'
  <2> SUFFICES ASSUME ~staleFill', Syncing(w)', worker'[w].alone PROVE InOrder(w)'
    BY <1>1, OthersNotAlone DEF SyncsInv, Moves, Busy
  <2>1. worker[w].job = "sync"
    BY <1>1 DEF Syncing, Moves, HandGets
  <2>2. Registers(w)
    BY <1>1, <1>3, <2>1 DEF SyncsInv, Syncing, Moves, HandGets, InOrder
  <2>3. Registers(w)'
    BY <1>1, <1>2, <1>3, <1>4, <2>1, <2>2 DEF WalksLate, Registers, Moves, HandGets, Readable, Hands, Readers
  <2> QED BY <1>1, <2>1, <2>3 DEF InOrder, Moves, HandGets
<1> QED BY <1>1, <1>5, <1>6, <1>7, <1>8, <1>9

LEMMA ScanPackKeeps ==
  ASSUME SkillsInv, NEW w \in Hands, NEW p \in Packs, ScanPack(w, p)
  PROVE  SkillsInv'
<1> USE DEF SkillsInv, SkillsTyped
<1>1. /\ HandsTyped' /\ worker[w].pc = "scan" /\ p \in worker[w].todo
      /\ packDirs[p] = "whole" =>
           Moves(w, "empty", worker[w].job, p, SettingFor(p), worker[w].todo \ {p},
                 worker[w].seen \cup {p}, worker[w].alone)
      /\ packDirs[p] # "whole" =>
           Moves(w, "scan", worker[w].job, worker[w].pack, worker[w].held,
                 worker[w].todo \ {p}, worker[w].seen, worker[w].alone)
  BY ScanEffect DEF ScanPack
<1>2. worker[w].pack = NoSkill /\ listing[w].pc = "idle" /\ worker[w].job = "sync"
  BY <1>1 DEF HandsInv, Staged
<1>3. /\ UNCHANGED <<packDirs, records, skillCache, listing, chosen, staleFill>>
      /\ packDirs[p] = "whole" => Holds(w, p)
      /\ packDirs[p] # "whole" => UNCHANGED crossed
  BY DEF ScanPack
<1>4. crossed \subseteq crossed' /\ crossed' \subseteq Packs
  BY <1>3 DEF Holds, PacksTyped
<1>5. SettingFor(p) \in Settings
  BY DEF SettingFor, Readable, Parsed, PacksTyped, Settings
<1>6. WalksTyped' /\ PacksTyped'
  BY <1>3, <1>4 DEF WalksTyped, PacksTyped
<1>7. HandsInv'
  <2>1. Staged'
    BY <1>1, <1>2, <1>3, <1>5 DEF HandsInv, Staged, Moves, HandGets, HandKeeps
  <2>2. Crossings'
    BY <1>1, <1>2, <1>3, <1>4 DEF HandsInv, Crossings, Holds, Busy, Staged, Moves, HandGets, HandKeeps
  <2>3. SyncsAlone'
    BY <1>1 DEF HandsInv, SyncsAlone, Syncing, OtherBusy, Busy, Moves, HandGets, HandKeeps
  <2> QED BY <2>1, <2>2, <2>3 DEF HandsInv
<1>8. ChosenInv'
  <2>1. ASSUME packDirs[p] = "whole", p \notin crossed' PROVE chosen[p] = NoSkill \/ SettingFor(p) = chosen[p]
    <3>1. ~Writing(p) /\ p \notin crossed
      BY <1>1, <1>3, <1>4, <2>1 DEF Writing, Holds, Busy
    <3>2. records[p] = chosen[p]
      BY <3>1 DEF ChosenInv, SettingKept
    <3> QED BY <3>2 DEF SettingFor, Readable, Parsed, PacksTyped, Settings
  <2>2. WritesChosen'
    BY <1>1, <1>3, <1>4, <2>1 DEF ChosenInv, WritesChosen, Moves, HandGets, HandKeeps
  <2>3. SettingKept'
    BY <1>1, <1>3, <1>4 DEF ChosenInv, SettingKept, Writing, Moves, HandGets, HandKeeps
  <2> QED BY <2>2, <2>3 DEF ChosenInv
<1>9. FreshInv'
  BY <1>1, <1>3 DEF FreshInv, FillsFresh, ListIsFresh, NoWrite, Moves, HandGets, HandKeeps, Readable
<1>10. SyncsInv'
  <2> SUFFICES ASSUME ~staleFill', Syncing(w)', worker'[w].alone PROVE InOrder(w)'
    BY <1>1, OthersNotAlone DEF SyncsInv, Moves, Busy
  <2>1. Registers(w)
    BY <1>1, <1>2, <1>3 DEF SyncsInv, Syncing, Moves, HandGets, InOrder
  <2>2. Readable' = Readable
    BY <1>3 DEF Readable
  <2>3. CASE packDirs[p] = "whole"
    <3>1. worker'[w].pc = "empty" /\ worker'[w].pack = p /\ worker'[w].todo = worker[w].todo \ {p}
          /\ worker'[w].seen = worker[w].seen \cup {p}
      BY <1>1, <2>3 DEF Moves, HandGets
    <3>2. Registers(w)'
      BY <1>1, <1>2, <1>3, <2>1, <2>2, <2>3, <3>1 DEF Registers
    <3> QED BY <3>1, <3>2 DEF InOrder
  <2>4. CASE packDirs[p] # "whole"
    <3>1. worker'[w].pc = "scan" /\ worker'[w].todo = worker[w].todo \ {p}
          /\ worker'[w].seen = worker[w].seen
      BY <1>1, <2>4 DEF Moves, HandGets
    <3>2. Registers(w)'
      BY <1>1, <1>2, <1>3, <2>1, <2>2, <2>4, <3>1 DEF Registers
    <3> QED BY <3>1, <3>2 DEF InOrder
  <2> QED BY <2>3, <2>4
<1> QED BY <1>1, <1>6, <1>7, <1>8, <1>9, <1>10

LEMMA ReclaimTheseKeeps ==
  ASSUME SkillsInv, NEW w \in Hands, ReclaimThese(w)
  PROVE  SkillsInv'
<1> USE DEF SkillsInv, SkillsTyped
<1>1. /\ HandsTyped' /\ worker[w].pc = "scan" /\ listing[w].pc = "listed"
      /\ Moves(w, "reclaim", worker[w].job, worker[w].pack, worker[w].held, NotSeen(w),
               worker[w].seen, worker[w].alone)
  BY ReclaimTheseEffect DEF ReclaimThese
<1>2. worker[w].pack = NoSkill /\ worker[w].todo = {} /\ worker[w].job = "sync"
  BY <1>1 DEF HandsInv, Staged
<1>3. /\ listing' = [listing EXCEPT ![w] = ListsNothing]
      /\ UNCHANGED <<packDirs, records, skillCache, chosen, crossed, staleFill>>
  BY DEF ReclaimThese
<1>4. /\ listing' \in [Readers -> WalkRecords]
      /\ listing'[w].pc = "idle" /\ \A r \in Readers : r # w => listing'[r] = listing[r]
  BY <1>3 DEF WalksTyped, WalkRecords, ListsNothing, Readers
<1>5. WalksTyped' /\ PacksTyped'
  BY <1>3, <1>4 DEF WalksTyped, PacksTyped
<1>6. HandsInv'
  <2>1. Staged'
    BY <1>1, <1>2, <1>4 DEF HandsInv, Staged, Moves, HandGets, HandKeeps, Readers
  <2>2. Crossings'
    BY <1>1, <1>3 DEF HandsInv, Crossings, Moves, HandGets, HandKeeps
  <2>3. SyncsAlone'
    BY <1>1 DEF HandsInv, SyncsAlone, Syncing, OtherBusy, Busy, Moves, HandGets, HandKeeps
  <2> QED BY <2>1, <2>2, <2>3 DEF HandsInv
<1>7. ChosenInv'
  <2>1. WritesChosen'
    BY <1>1, <1>3 DEF ChosenInv, WritesChosen, Moves, HandGets, HandKeeps
  <2>2. SettingKept'
    BY <1>1, <1>3 DEF ChosenInv, SettingKept, Writing, Moves, HandGets, HandKeeps
  <2> QED BY <2>1, <2>2 DEF ChosenInv
<1>8. FreshInv'
  BY <1>1, <1>3, <1>4 DEF FreshInv, FillsFresh, ListIsFresh, NoWrite, Moves, HandGets, HandKeeps, Readable
<1>9. SyncsInv'
  <2> SUFFICES ASSUME ~staleFill', Syncing(w)', worker'[w].alone PROVE InOrder(w)'
    BY <1>1, OthersNotAlone DEF SyncsInv, Moves, Busy
  <2>1. Registers(w)
    BY <1>1, <1>2, <1>3 DEF SyncsInv, Syncing, Moves, HandGets, InOrder
  <2>2. Readable' = Readable /\ listing[w].held = Readable
    BY <1>1, <1>3, <2>1 DEF Readable, Registers
  <2>3. worker'[w].pc = "reclaim" /\ worker'[w].todo = NotSeen(w) /\ worker'[w].seen = worker[w].seen
    BY <1>1 DEF Moves, HandGets
  <2>4. Reclaims(w)'
    BY <1>1, <1>2, <1>3, <2>1, <2>2, <2>3 DEF Registers, Reclaims, NotSeen, HandsTyped, HandRecords
  <2> QED BY <2>3, <2>4 DEF InOrder
<1> QED BY <1>1, <1>5, <1>6, <1>7, <1>8, <1>9

LEMMA ReclaimKeeps ==
  ASSUME SkillsInv, NEW w \in Hands, NEW p \in Packs, Reclaim(w, p)
  PROVE  SkillsInv'
<1> USE DEF SkillsInv, SkillsTyped
<1>1. /\ HandsTyped' /\ worker[w].pc = "reclaim" /\ p \in worker[w].todo
      /\ Moves(w, "delete", worker[w].job, p, Readable[p], worker[w].todo \ {p},
               worker[w].seen, worker[w].alone)
  BY ReclaimEffect DEF Reclaim
<1>2. worker[w].pack = NoSkill /\ listing[w].pc = "idle" /\ worker[w].job = "sync"
  BY <1>1 DEF HandsInv, Staged
<1>3. Holds(w, p) /\ UNCHANGED <<packDirs, records, skillCache, listing, chosen, staleFill>>
  BY DEF Reclaim
<1>4. crossed \subseteq crossed' /\ crossed' \subseteq Packs
  BY <1>3 DEF Holds, PacksTyped
<1>5. WalksTyped' /\ PacksTyped'
  BY <1>3, <1>4 DEF WalksTyped, PacksTyped
<1>6. HandsInv'
  <2>1. Staged'
    BY <1>1, <1>2, <1>3 DEF HandsInv, Staged, Moves, HandGets, HandKeeps
  <2>2. Crossings'
    BY <1>1, <1>2, <1>3, <1>4 DEF HandsInv, Crossings, Holds, Busy, Staged, Moves, HandGets, HandKeeps
  <2>3. SyncsAlone'
    BY <1>1 DEF HandsInv, SyncsAlone, Syncing, OtherBusy, Busy, Moves, HandGets, HandKeeps
  <2> QED BY <2>1, <2>2, <2>3 DEF HandsInv
<1>7. ChosenInv'
  <2>1. WritesChosen'
    BY <1>1, <1>3, <1>4 DEF ChosenInv, WritesChosen, Moves, HandGets, HandKeeps
  <2>2. SettingKept'
    BY <1>1, <1>3, <1>4 DEF ChosenInv, SettingKept, Writing, Moves, HandGets, HandKeeps
  <2> QED BY <2>1, <2>2 DEF ChosenInv
<1>8. FreshInv'
  BY <1>1, <1>3 DEF FreshInv, FillsFresh, ListIsFresh, NoWrite, Moves, HandGets, HandKeeps, Readable
<1>9. SyncsInv'
  <2> SUFFICES ASSUME ~staleFill', Syncing(w)', worker'[w].alone PROVE InOrder(w)'
    BY <1>1, OthersNotAlone DEF SyncsInv, Moves, Busy
  <2>1. Reclaims(w)
    BY <1>1, <1>2, <1>3 DEF SyncsInv, Syncing, Moves, HandGets, InOrder
  <2>2. Readable' = Readable
    BY <1>3 DEF Readable
  <2>3. worker'[w].pc = "delete" /\ worker'[w].pack = p /\ worker'[w].todo = worker[w].todo \ {p}
        /\ worker'[w].seen = worker[w].seen
    BY <1>1 DEF Moves, HandGets
  <2>4. Reclaims(w)'
    BY <1>1, <1>3, <2>1, <2>2, <2>3 DEF Reclaims, HandsTyped, HandRecords
  <2> QED BY <2>3, <2>4 DEF InOrder
<1> QED BY <1>1, <1>5, <1>6, <1>7, <1>8, <1>9

LEMMA SyncReportsKeeps ==
  ASSUME SkillsInv, NEW w \in Hands, SyncReports(w)
  PROVE  SkillsInv'
<1> USE DEF SkillsInv, SkillsTyped
<1>1. /\ HandsTyped' /\ worker[w].pc = "reclaim" /\ worker[w].todo = {}
      /\ Moves(w, "synced", worker[w].job, worker[w].pack, worker[w].held, worker[w].todo,
               worker[w].seen, worker[w].alone)
  BY ToStage DEF SyncReports, HandStages
<1>2. worker[w].pack = NoSkill /\ listing[w].pc = "idle" /\ worker[w].job = "sync"
  BY <1>1 DEF HandsInv, Staged
<1>3. UNCHANGED <<packDirs, records, skillCache, listing, chosen, crossed, staleFill>>
  BY DEF SyncReports
<1>4. WalksTyped' /\ PacksTyped'
  BY <1>3 DEF WalksTyped, PacksTyped
<1>5. HandsInv'
  <2>1. Staged'
    BY <1>1, <1>2, <1>3 DEF HandsInv, Staged, Moves, HandGets, HandKeeps
  <2>2. Crossings'
    BY <1>1, <1>3 DEF HandsInv, Crossings, Moves, HandGets, HandKeeps
  <2>3. SyncsAlone'
    BY <1>1 DEF HandsInv, SyncsAlone, Syncing, OtherBusy, Busy, Moves, HandGets, HandKeeps
  <2> QED BY <2>1, <2>2, <2>3 DEF HandsInv
<1>6. ChosenInv'
  <2>1. WritesChosen'
    BY <1>1, <1>3 DEF ChosenInv, WritesChosen, Moves, HandGets, HandKeeps
  <2>2. SettingKept'
    BY <1>1, <1>3 DEF ChosenInv, SettingKept, Writing, Moves, HandGets, HandKeeps
  <2> QED BY <2>1, <2>2 DEF ChosenInv
<1>7. FreshInv'
  BY <1>1, <1>3 DEF FreshInv, FillsFresh, ListIsFresh, NoWrite, Moves, HandGets, HandKeeps, Readable
<1>8. SyncsInv'
  <2> SUFFICES ASSUME ~staleFill', Syncing(w)', worker'[w].alone PROVE InOrder(w)'
    BY <1>1, OthersNotAlone DEF SyncsInv, Moves, Busy
  <2>1. Reclaims(w)
    BY <1>1, <1>2, <1>3 DEF SyncsInv, Syncing, Moves, HandGets, InOrder
  <2>2. Readable' = Readable
    BY <1>3 DEF Readable
  <2>3. worker'[w].pc = "synced" /\ worker'[w].todo = worker[w].todo /\ worker'[w].seen = worker[w].seen
    BY <1>1 DEF Moves, HandGets
  <2>4. Reclaims(w)'
    BY <1>1, <1>3, <2>1, <2>2, <2>3 DEF Reclaims
  <2> QED BY <2>3, <2>4 DEF InOrder
<1> QED BY <1>1, <1>4, <1>5, <1>6, <1>7, <1>8

LEMMA SyncEndsKeeps ==
  ASSUME SkillsInv, NEW w \in Hands, SyncEnds(w)
  PROVE  SkillsInv'
<1> USE DEF SkillsInv, SkillsTyped
<1>1. /\ HandsTyped' /\ worker[w].pc = "synced"
      /\ Moves(w, "idle", "none", NoSkill, NoSkill, {}, {}, TRUE)
  BY RestEffect DEF SyncEnds
<1>2. listing[w].pc = "idle"
  BY <1>1 DEF HandsInv, Staged
<1>3. UNCHANGED <<packDirs, records, skillCache, listing, chosen, crossed, staleFill>>
  BY DEF SyncEnds
<1>4. WalksTyped' /\ PacksTyped'
  BY <1>3 DEF WalksTyped, PacksTyped
<1>5. HandsInv'
  <2>1. Staged'
    BY <1>1, <1>2, <1>3 DEF HandsInv, Staged, Moves, HandGets, HandKeeps
  <2>2. Crossings'
    BY <1>1, <1>3 DEF HandsInv, Crossings, Moves, HandGets, HandKeeps
  <2>3. SyncsAlone'
    BY <1>1 DEF HandsInv, SyncsAlone, Syncing, OtherBusy, Busy, Moves, HandGets, HandKeeps
  <2> QED BY <2>1, <2>2, <2>3 DEF HandsInv
<1>6. ChosenInv'
  <2>1. WritesChosen'
    BY <1>1, <1>3 DEF ChosenInv, WritesChosen, Moves, HandGets, HandKeeps
  <2>2. SettingKept'
    BY <1>1, <1>3 DEF ChosenInv, SettingKept, Writing, Moves, HandGets, HandKeeps
  <2> QED BY <2>1, <2>2 DEF ChosenInv
<1>7. FreshInv'
  BY <1>1, <1>3 DEF FreshInv, FillsFresh, ListIsFresh, NoWrite, Moves, HandGets, HandKeeps, Readable
<1>8. SyncsInv'
  <2>1. ~Syncing(w)'
    BY <1>1 DEF Syncing, Moves, HandGets
  <2> QED BY <1>1, <2>1, OthersNotAlone DEF SyncsInv, Moves, Busy
<1> QED BY <1>1, <1>4, <1>5, <1>6, <1>7, <1>8

LEMMA RemoveRecordKeeps ==
  ASSUME SkillsInv, NEW w \in Hands, RemoveRecord(w)
  PROVE  SkillsInv'
<1> USE DEF SkillsInv, SkillsTyped
<1>1. HandsTyped' /\ worker[w].pc = "delete"
      /\ Moves(w, "folder", worker[w].job, worker[w].pack, worker[w].held, worker[w].todo,
               worker[w].seen, worker[w].alone)
  BY ToStage DEF RemoveRecord, HandStages
<1>2. worker[w].pack \in Packs /\ listing[w].pc = "idle"
  BY <1>1 DEF HandsInv, Staged
<1>3. /\ records' = [records EXCEPT ![worker[w].pack] = NoSkill]
      /\ chosen' = [chosen EXCEPT ![worker[w].pack] = NoSkill]
      /\ UNCHANGED <<packDirs, skillCache, listing, crossed, staleFill>>
  BY DEF RemoveRecord
<1>4. WalksTyped' /\ PacksTyped'
  BY <1>2, <1>3 DEF WalksTyped, PacksTyped
<1>5. HandsInv'
  <2>1. Staged'
    BY <1>1, <1>2, <1>3 DEF HandsInv, Staged, Moves, HandGets, HandKeeps
  <2>2. Crossings'
    BY <1>1, <1>3 DEF HandsInv, Crossings, Moves, HandGets, HandKeeps
  <2>3. SyncsAlone'
    BY <1>1 DEF HandsInv, SyncsAlone, Syncing, OtherBusy, Busy, Moves, HandGets, HandKeeps
  <2> QED BY <2>1, <2>2, <2>3 DEF HandsInv
<1>6. ChosenInv'
  <2>1. /\ \A p \in Packs : p # worker[w].pack => records'[p] = records[p] /\ chosen'[p] = chosen[p]
        /\ records'[worker[w].pack] = chosen'[worker[w].pack]
    BY <1>2, <1>3 DEF PacksTyped
  <2>2. \A v \in Hands \ {w} : worker[v].pack = worker[w].pack => worker[w].pack \in crossed
    BY <1>2 DEF HandsInv, Crossings
  <2>3. WritesChosen'
    BY <1>1, <1>2, <1>3, <2>1, <2>2 DEF HandsInv, Staged, ChosenInv, WritesChosen, Moves, HandGets, HandKeeps
  <2>4. SettingKept'
    BY <1>1, <1>2, <1>3, <2>1 DEF ChosenInv, SettingKept, Writing, Moves, HandGets, HandKeeps
  <2> QED BY <2>3, <2>4 DEF ChosenInv
<1>7. FreshInv'
  BY <1>1, <1>3 DEF FreshInv, FillsFresh, ListIsFresh, NoWrite, Moves, HandGets
<1>8. SyncsInv'
  <2> SUFFICES ASSUME ~staleFill', Syncing(w)', worker'[w].alone PROVE InOrder(w)'
    BY <1>1, OthersNotAlone DEF SyncsInv, Moves, Busy
  <2>1. Reclaims(w)
    BY <1>1, <1>3 DEF SyncsInv, Syncing, Moves, HandGets, InOrder
  <2>2. (\A p \in Packs : p # worker[w].pack => Readable'[p] = Readable[p])
        /\ Readable'[worker[w].pack] = NoSkill
    BY <1>2, <1>3 DEF Readable, PacksTyped, Parsed
  <2>3. worker'[w].pc = "folder" /\ worker'[w].pack = worker[w].pack /\ worker'[w].todo = worker[w].todo
        /\ worker'[w].seen = worker[w].seen
    BY <1>1 DEF Moves, HandGets
  <2>4. Reclaims(w)'
    BY <1>1, <1>2, <1>3, <2>1, <2>2, <2>3 DEF Reclaims
  <2> QED BY <2>3, <2>4 DEF InOrder
<1> QED BY <1>1, <1>4, <1>5, <1>6, <1>7, <1>8

LEMMA RemoveFolderKeeps ==
  ASSUME SkillsInv, NEW w \in Hands, RemoveFolder(w)
  PROVE  SkillsInv'
<1> USE DEF SkillsInv, SkillsTyped
<1>1. /\ HandsTyped' /\ worker[w].pc = "folder"
      /\ worker[w].job # "sync" => Moves(w, "idle", "none", NoSkill, NoSkill, {}, {}, TRUE)
      /\ worker[w].job = "sync" => Moves(w, "reclaim", "sync", NoSkill, NoSkill,
                                         worker[w].todo, worker[w].seen, worker[w].alone)
  BY AfterEffect DEF RemoveFolder
<1>2. worker[w].pack \in Packs /\ listing[w].pc = "idle"
  BY <1>1 DEF HandsInv, Staged
<1>3. /\ packDirs' = [packDirs EXCEPT ![worker[w].pack] =
                        IF worker[w].held = NoSkill THEN packDirs[worker[w].pack] ELSE NoSkill]
      /\ CacheCleared /\ UNCHANGED <<records, chosen, crossed, staleFill>>
  BY DEF RemoveFolder
<1>4. WalksLate
  BY <1>3, CacheClearedEffect
<1>5. WalksTyped' /\ PacksTyped'
  <2>1. listing' \in [Readers -> WalkRecords]
    BY <1>3, CacheClearedEffect
  <2> QED BY <1>2, <1>3, <1>4, <2>1 DEF WalksLate, WalksTyped, PacksTyped, CacheCleared
<1>6. HandsInv'
  <2>1. Staged'
    BY <1>1, <1>2, <1>4 DEF WalksLate, HandsInv, Staged, Moves, HandGets, HandKeeps, Hands, Readers
  <2>2. Crossings'
    BY <1>1, <1>3 DEF HandsInv, Crossings, Moves, HandGets, HandKeeps
  <2>3. SyncsAlone'
    BY <1>1 DEF HandsInv, SyncsAlone, Syncing, OtherBusy, Busy, Moves, HandGets, HandKeeps
  <2> QED BY <2>1, <2>2, <2>3 DEF HandsInv
<1>7. ChosenInv'
  <2>1. WritesChosen'
    BY <1>1, <1>3 DEF ChosenInv, WritesChosen, Moves, HandGets, HandKeeps
  <2>2. SettingKept'
    BY <1>1, <1>3 DEF ChosenInv, SettingKept, Writing, Moves, HandGets, HandKeeps
  <2> QED BY <2>1, <2>2 DEF ChosenInv
<1>8. FreshInv'
  BY <1>3, <1>4 DEF WalksLate, FreshInv, FillsFresh, ListIsFresh, CacheCleared
<1>9. SyncsInv'
  <2> SUFFICES ASSUME ~staleFill', Syncing(w)', worker'[w].alone PROVE InOrder(w)'
    BY <1>1, OthersNotAlone DEF SyncsInv, Moves, Busy
  <2>1. worker[w].job = "sync"
    BY <1>1 DEF Syncing, Moves, HandGets
  <2>2. Reclaims(w)
    BY <1>1, <1>3, <2>1 DEF SyncsInv, Syncing, Moves, HandGets, InOrder
  <2>3. worker'[w].pc = "reclaim" /\ worker'[w].todo = worker[w].todo /\ worker'[w].seen = worker[w].seen
    BY <1>1, <2>1 DEF Moves, HandGets
  <2>4. packDirs'[worker[w].pack] # "whole" /\ Readable' = Readable
        /\ \A p \in Packs : p # worker[w].pack => packDirs'[p] = packDirs[p]
    BY <1>1, <1>2, <1>3, <2>2 DEF PacksTyped, Reclaims, Readable
  <2>5. Reclaims(w)'
    BY <1>1, <1>2, <2>2, <2>3, <2>4 DEF Reclaims
  <2> QED BY <2>3, <2>5 DEF InOrder
<1> QED BY <1>1, <1>5, <1>6, <1>7, <1>8, <1>9

SyncBegins(w) == worker' = NotAlone([worker EXCEPT ![w] = SyncFrom(w)], w)

LEMMA SyncBeginsKeeps ==
  ASSUME SkillsInv, NEW w \in Hands,
         (w = "start" /\ worker[w].job = "start") \/ worker[w].pc = "copied",
         SyncBegins(w),
         UNCHANGED <<packDirs, records, skillCache, listing, chosen, crossed, staleFill>>
  PROVE  SkillsInv'
<1> USE DEF SkillsInv, SkillsTyped
<1> DEFINE t == {p \in Packs : packDirs[p] # NoSkill}
           a == ~OtherBusy(w)
<1>1. HandsTyped' /\ Begins(w, "scan", "sync", NoSkill, NoSkill, t, a)
  BY SyncEffect DEF SyncBegins
<1> HIDE DEF t, a
<1>2. listing[w].pc = "idle" /\ worker[w].pc \in {"idle", "copied"}
  BY DEF HandsInv, Staged
<1>3. WalksTyped' /\ PacksTyped'
  BY DEF WalksTyped, PacksTyped
<1>4. HandsInv'
  <2>1. Staged'
    BY <1>1, <1>2 DEF HandsInv, Staged, Begins, HandGets, HandCrossed
  <2>2. Crossings'
    BY <1>1 DEF HandsInv, Crossings, Begins, HandGets, HandCrossed
  <2>3. SyncsAlone'
    <3>1. worker'[w].alone = a /\ \A v \in Hands \ {w} : worker'[v].pc = worker[v].pc
      BY <1>1 DEF Begins, HandGets, HandCrossed
    <3>2. worker'[w].alone => ~OtherBusy(w)'
      BY <3>1 DEF a, OtherBusy, Busy
    <3> QED BY <1>1, <3>2, OthersCrossed DEF SyncsAlone, Begins
  <2> QED BY <2>1, <2>2, <2>3 DEF HandsInv
<1>5. ChosenInv'
  <2>1. WritesChosen'
    BY <1>1 DEF ChosenInv, WritesChosen, Begins, HandGets, HandCrossed
  <2>2. SettingKept'
    BY <1>1, <1>2 DEF ChosenInv, SettingKept, Writing, Begins, HandGets, HandCrossed
  <2> QED BY <2>1, <2>2 DEF ChosenInv
<1>6. FreshInv'
  BY <1>1, <1>2 DEF FreshInv, FillsFresh, ListIsFresh, NoWrite, Begins, HandGets, HandCrossed, Readable
<1>7. SyncsInv'
  <2> SUFFICES ASSUME ~staleFill', Syncing(w)', worker'[w].alone PROVE InOrder(w)'
    BY <1>1, OthersCrossed DEF SyncsInv, Begins
  <2>1. worker'[w].pc = "scan" /\ worker'[w].seen = {}
        /\ worker'[w].todo = t
    BY <1>1 DEF Begins, HandGets
  <2>2. Registers(w)'
    BY <1>2, <2>1 DEF Registers, PacksTyped, t
  <2> QED BY <2>1, <2>2 DEF InOrder
<1> QED BY <1>1, <1>3, <1>4, <1>5, <1>6, <1>7

LEMMA PanelKeeps ==
  ASSUME SkillsInv, ~Busy("panel"), NEW p \in Packs, NEW begin, NEW j, NEW h,
         \/ begin = "empty" /\ j = "toggle" /\ h \in Settings
         \/ begin = "delete" /\ j = "delete"
         \/ begin = "copy" /\ j = "sync",
         HandsTyped', Begins("panel", begin, j, p, h, {}, TRUE), Holds("panel", p),
         packDirs' \in [Packs -> {"whole", "bare", NoSkill}],
         UNCHANGED <<records, skillCache, listing, chosen, staleFill>>
  PROVE  SkillsInv'
<1> USE DEF SkillsInv, SkillsTyped
<1>1. worker["panel"].pc = "idle" /\ listing["panel"].pc = "idle" /\ "panel" \in Hands
  BY DEF HandsInv, Staged, Busy, Hands
<1>2. crossed \subseteq crossed' /\ crossed' \subseteq Packs
  BY DEF Holds, PacksTyped
<1>3. WalksTyped' /\ PacksTyped'
  BY <1>2 DEF WalksTyped, PacksTyped
<1>4. HandsInv'
  <2>1. Staged'
    BY <1>1 DEF HandsInv, Staged, Begins, HandGets, HandCrossed
  <2>2. Crossings'
    BY <1>1, <1>2 DEF HandsInv, Crossings, Staged, Holds, Busy, Begins, HandGets, HandCrossed
  <2>3. SyncsAlone'
    BY OthersCrossed, <1>1 DEF SyncsAlone, Syncing, Begins, HandGets
  <2> QED BY <2>1, <2>2, <2>3 DEF HandsInv
<1>5. ChosenInv'
  <2>1. WritesChosen'
    BY <1>1, <1>2 DEF ChosenInv, WritesChosen, Begins, HandGets, HandCrossed
  <2>2. SettingKept'
    BY <1>1, <1>2 DEF ChosenInv, SettingKept, Writing, Begins, HandGets, HandCrossed
  <2> QED BY <2>1, <2>2 DEF ChosenInv
<1>6. FreshInv'
  BY <1>1 DEF FreshInv, FillsFresh, ListIsFresh, NoWrite, Begins, HandGets, HandCrossed, Readable
<1>7. SyncsInv'
  <2>1. ~Syncing("panel")'
    BY DEF Syncing, Begins, HandGets
  <2> QED BY <2>1, OthersCrossed DEF SyncsInv, Begins
<1> QED BY <1>3, <1>4, <1>5, <1>6, <1>7

LEMMA ToggleKeeps ==
  ASSUME SkillsInv, NEW p \in Packs, NEW s \in {"on", "off"}, Toggle(p, s)
  PROVE  SkillsInv'
<1>1. HandsTyped' /\ Begins("panel", "empty", "toggle", p, s, {}, TRUE)
  BY ToggleEffect DEF SkillsInv
<1>2. /\ ~Busy("panel") /\ Holds("panel", p)
      /\ UNCHANGED <<packDirs, records, skillCache, listing, chosen, staleFill>>
  BY DEF Toggle, PanelBegins
<1> QED BY <1>1, <1>2, PanelKeeps DEF SkillsInv, SkillsTyped, PacksTyped, Settings

LEMMA DeleteKeeps ==
  ASSUME SkillsInv, NEW p \in Packs, Delete(p)
  PROVE  SkillsInv'
<1> DEFINE h == Readable[p]
<1>1. HandsTyped' /\ Begins("panel", "delete", "delete", p, h, {}, TRUE)
  BY DeleteEffect DEF SkillsInv
<1>2. /\ ~Busy("panel") /\ Holds("panel", p)
      /\ UNCHANGED <<packDirs, records, skillCache, listing, chosen, staleFill>>
  BY DEF Delete, PanelBegins
<1> HIDE DEF h
<1> QED BY <1>1, <1>2, PanelKeeps DEF SkillsInv, SkillsTyped, PacksTyped

LEMMA InstallKeeps ==
  ASSUME SkillsInv, NEW p \in Packs, Install(p)
  PROVE  SkillsInv'
<1>1. HandsTyped' /\ Begins("panel", "copy", "sync", p, NoSkill, {}, TRUE)
  BY InstallEffect DEF SkillsInv
<1>2. /\ ~Busy("panel") /\ Holds("panel", p) /\ packDirs' = [packDirs EXCEPT ![p] = NoSkill]
      /\ UNCHANGED <<records, skillCache, listing, chosen, staleFill>>
  BY DEF Install, PanelBegins
<1>3. packDirs' \in [Packs -> {"whole", "bare", NoSkill}]
  BY <1>2 DEF SkillsInv, SkillsTyped, PacksTyped
<1> QED BY <1>1, <1>2, <1>3, PanelKeeps

LEMMA CopyFolderKeeps ==
  ASSUME SkillsInv, CopyFolder
  PROVE  SkillsInv'
<1> USE DEF SkillsInv, SkillsTyped
<1>1. /\ HandsTyped' /\ worker["panel"].pc = "copy" /\ "panel" \in Hands
      /\ \A v \in Hands \ {"panel"} : HandKeeps(v)
      /\ worker'["panel"].pc \in {"copy", "copied"} /\ worker'["panel"].job = worker["panel"].job
      /\ \/ worker'["panel"].pc = "copy" /\ worker'["panel"].pack = worker["panel"].pack
         \/ worker'["panel"].pc = "copied" /\ worker'["panel"].pack = NoSkill
  BY CopyEffect DEF CopyFolder, Moves, HandGets, HandKeeps, Hands
<1>2. worker["panel"].pack \in Packs /\ listing["panel"].pc = "idle"
      /\ worker["panel"].job \notin {"start"}
  BY <1>1 DEF HandsInv, Staged
<1>3. /\ packDirs' \in [Packs -> {"whole", "bare", NoSkill}]
      /\ UNCHANGED <<records, skillCache, listing, chosen, crossed, staleFill>>
  BY <1>2 DEF CopyFolder, PacksTyped
<1>4. WalksTyped' /\ PacksTyped'
  BY <1>3 DEF WalksTyped, PacksTyped
<1>5. HandsInv'
  <2>1. Staged'
    BY <1>1, <1>2, <1>3 DEF HandsInv, Staged, HandKeeps
  <2>2. Crossings'
    BY <1>1, <1>3 DEF HandsInv, Crossings, HandKeeps
  <2>3. SyncsAlone'
    BY <1>1 DEF HandsInv, SyncsAlone, Syncing, OtherBusy, Busy, HandKeeps
  <2> QED BY <2>1, <2>2, <2>3 DEF HandsInv
<1>6. ChosenInv'
  <2>1. WritesChosen'
    BY <1>1, <1>3 DEF ChosenInv, WritesChosen, HandKeeps
  <2>2. SettingKept'
    BY <1>1, <1>3 DEF ChosenInv, SettingKept, Writing, HandKeeps
  <2> QED BY <2>1, <2>2 DEF ChosenInv
<1>7. FreshInv'
  BY <1>1, <1>3 DEF FreshInv, FillsFresh, ListIsFresh, NoWrite, HandKeeps, Readable
<1>8. SyncsInv'
  <2>1. ~Syncing("panel")'
    BY <1>1 DEF Syncing
  <2> QED BY <1>1, <2>1, OthersNotAlone DEF SyncsInv, Busy
<1> QED BY <1>1, <1>4, <1>5, <1>6, <1>7, <1>8

LEMMA EditFolderKeeps ==
  ASSUME SkillsInv, NEW p \in Packs, EditFolder(p)
  PROVE  SkillsInv'
<1> USE DEF SkillsInv, SkillsTyped
<1>1. HandsTyped' /\ \A v \in Hands : HandCrossed(v)
  BY EditEffect DEF EditFolder
<1>2. /\ packDirs' \in [Packs -> {"whole", "bare", NoSkill}]
      /\ UNCHANGED <<records, skillCache, listing, chosen, crossed, staleFill>>
  BY DEF EditFolder, PacksTyped
<1>3. WalksTyped' /\ PacksTyped'
  BY <1>2 DEF WalksTyped, PacksTyped
<1>4. \A v \in Hands : ~(Syncing(v)' /\ worker'[v].alone)
  BY <1>1 DEF Syncing, Busy, HandCrossed, HandGets
<1>5. HandsInv'
  <2>1. Staged'
    BY <1>1, <1>2 DEF HandsInv, Staged, HandCrossed, HandGets
  <2>2. Crossings'
    BY <1>1, <1>2 DEF HandsInv, Crossings, HandCrossed, HandGets
  <2>3. SyncsAlone'
    BY <1>4 DEF SyncsAlone
  <2> QED BY <2>1, <2>2, <2>3 DEF HandsInv
<1>6. ChosenInv'
  <2>1. WritesChosen'
    BY <1>1, <1>2 DEF ChosenInv, WritesChosen, HandCrossed, HandGets
  <2>2. SettingKept'
    BY <1>1, <1>2 DEF ChosenInv, SettingKept, Writing, HandCrossed, HandGets
  <2> QED BY <2>1, <2>2 DEF ChosenInv
<1>7. FreshInv'
  BY <1>1, <1>2 DEF FreshInv, FillsFresh, ListIsFresh, NoWrite, HandCrossed, HandGets, Readable
<1>8. SyncsInv'
  BY <1>4 DEF SyncsInv
<1> QED BY <1>1, <1>3, <1>5, <1>6, <1>7, <1>8

LEMMA SkillsRestartKeeps ==
  ASSUME SkillsInv, Restart
  PROVE  SkillsInv'
<1> USE DEF SkillsInv, SkillsTyped
<1>1. HandsTyped' /\ \A w \in Hands :
        HandGets(w, "idle", IF w = "start" THEN "start" ELSE "none", NoSkill, NoSkill, {}, {}, TRUE)
  BY StartEffect DEF Restart
<1>2. /\ skillCache' = NoList /\ \A r \in Readers : listing'[r] = ListsNothing
      /\ listing' \in [Readers -> WalkRecords]
      /\ crossed' = crossed \cup {p \in Packs : records[p] = "torn"}
      /\ UNCHANGED <<packDirs, records, chosen, staleFill>>
  BY DEF Restart, ListsNothing, WalkRecords
<1>3. WalksTyped' /\ PacksTyped'
  BY <1>2 DEF WalksTyped, PacksTyped, ListsNothing
<1>4. HandsInv'
  <2>1. Staged'
    BY <1>1, <1>2 DEF Staged, HandGets, ListsNothing, Readers
  <2>2. Crossings' /\ SyncsAlone'
    BY <1>1 DEF Crossings, SyncsAlone, Syncing, HandGets
  <2> QED BY <2>1, <2>2 DEF HandsInv
<1>5. ChosenInv'
  <2>1. WritesChosen'
    BY <1>1 DEF WritesChosen, HandGets
  <2>2. SettingKept'
    BY <1>1, <1>2 DEF ChosenInv, SettingKept, WritesChosen, Writing, HandGets
  <2> QED BY <2>1, <2>2 DEF ChosenInv
<1>6. FreshInv'
  BY <1>2 DEF FreshInv, FillsFresh, ListIsFresh, ListsNothing
<1>7. SyncsInv'
  BY <1>1 DEF SyncsInv, Syncing, HandGets
<1> QED BY <1>1, <1>3, <1>4, <1>5, <1>6, <1>7

LEMMA ReadListKeeps ==
  ASSUME SkillsInv, NEW r \in Readers, ReadList(r)
  PROVE  SkillsInv'
<1> USE DEF SkillsInv, SkillsTyped
<1>1. /\ listing[r].pc = "idle" /\ (r \in Hands => worker[r].pc = "scan" /\ worker[r].todo = {})
      /\ UNCHANGED <<packDirs, records, skillCache, worker, chosen, crossed, staleFill>>
  BY DEF ReadList
<1>2. Readable' = Readable /\ Readable \in SkillLists
  <2>1. \A p \in Packs : Parsed(records[p]) \in Settings \cup {NoSkill}
    BY DEF Parsed, PacksTyped, Settings
  <2> QED BY <1>1, <2>1 DEF Readable, SkillLists
<1>3. /\ listing' \in [Readers -> WalkRecords] /\ listing'[r].late = listing[r].late
      /\ \/ listing'[r].pc = "filling" /\ listing'[r].held = Readable
         \/ listing'[r].pc = "listed" /\ listing'[r].held = skillCache /\ skillCache # NoList
      /\ \A v \in Readers : v # r => listing'[v] = listing[v]
  <2>1. CASE skillCache = NoList
    <3>1. listing' = [listing EXCEPT ![r] = [listing[r] EXCEPT !.pc = "filling", !.held = Readable]]
      BY <2>1 DEF ReadList
    <3> QED BY <1>2, <3>1 DEF WalksTyped, WalkRecords
  <2>2. CASE skillCache # NoList
    <3>1. listing' = [listing EXCEPT ![r] = [listing[r] EXCEPT !.pc = "listed", !.held = skillCache]]
      BY <2>2 DEF ReadList
    <3> QED BY <2>2, <3>1 DEF WalksTyped, WalkRecords
  <2> QED BY <2>1, <2>2
<1>4. HandsTyped' /\ WalksTyped' /\ PacksTyped'
  BY <1>1, <1>2, <1>3 DEF HandsTyped, WalksTyped, PacksTyped
<1>5. HandsInv'
  <2>1. Staged'
    BY <1>1, <1>3 DEF HandsInv, Staged, Readers
  <2>2. Crossings' /\ SyncsAlone'
    BY <1>1 DEF HandsInv, Crossings, SyncsAlone, Syncing, OtherBusy, Busy
  <2> QED BY <2>1, <2>2 DEF HandsInv
<1>6. ChosenInv'
  BY <1>1 DEF ChosenInv, WritesChosen, SettingKept, Writing
<1>7. FreshInv'
  BY <1>1, <1>2, <1>3 DEF FreshInv, FillsFresh, ListIsFresh, NoWrite
<1>8. SyncsInv'
  <2> SUFFICES ASSUME ~staleFill, NEW w \in Hands, Syncing(w), worker[w].alone PROVE InOrder(w)'
    BY <1>1 DEF SyncsInv, Syncing
  <2>1. InOrder(w) /\ ~OtherBusy(w)
    BY DEF SyncsInv, HandsInv, SyncsAlone
  <2>2. Reclaims(w) => Reclaims(w)'
    BY <1>1, <1>2 DEF Reclaims
  <2>3. ASSUME worker[w].pc \in {"scan", "empty", "put", "clear"}, Registers(w) PROVE Registers(w)'
    <3>1. w = r => listing'[w].held = Readable
      <4>1. w = r => NoWrite
        BY <1>1, <2>1 DEF NoWrite, OtherBusy, Busy
      <4> QED BY <1>3, <4>1 DEF FreshInv, ListIsFresh, NoWrite
    <3>2. listing'[w].pc # "idle" => listing'[w].held = Readable
      BY <1>3, <2>3, <3>1 DEF Registers, Readers
    <3> QED BY <1>1, <1>2, <2>3, <3>2 DEF Registers
  <2> QED BY <1>1, <2>1, <2>2, <2>3 DEF InOrder
<1> QED BY <1>4, <1>5, <1>6, <1>7, <1>8

LEMMA FillListKeeps ==
  ASSUME SkillsInv, NEW r \in Readers, FillList(r)
  PROVE  SkillsInv'
<1> USE DEF SkillsInv, SkillsTyped
<1>1. /\ listing[r].pc = "filling" /\ skillCache' = listing[r].held
      /\ staleFill' = (staleFill \/ listing[r].late)
      /\ UNCHANGED <<packDirs, records, worker, chosen, crossed>>
  BY DEF FillList
<1>2. Readable' = Readable
  BY <1>1 DEF Readable
<1>3. /\ listing' \in [Readers -> WalkRecords]
      /\ listing'[r].pc = "listed" /\ listing'[r].held = listing[r].held
      /\ \A v \in Readers : v # r => listing'[v] = listing[v]
  BY DEF FillList, WalksTyped, WalkRecords
<1>4. HandsTyped' /\ WalksTyped' /\ PacksTyped'
  BY <1>1, <1>3 DEF HandsTyped, WalksTyped, PacksTyped, WalkRecords
<1>5. HandsInv'
  <2>1. Staged'
    BY <1>1, <1>3 DEF HandsInv, Staged, Readers
  <2>2. Crossings' /\ SyncsAlone'
    BY <1>1 DEF HandsInv, Crossings, SyncsAlone, Syncing, OtherBusy, Busy
  <2> QED BY <2>1, <2>2 DEF HandsInv
<1>6. ChosenInv'
  BY <1>1 DEF ChosenInv, WritesChosen, SettingKept, Writing
<1>7. FreshInv'
  BY <1>1, <1>2, <1>3 DEF FreshInv, FillsFresh, ListIsFresh, NoWrite
<1>8. SyncsInv'
  <2> SUFFICES ASSUME ~staleFill, NEW w \in Hands, Syncing(w), worker[w].alone PROVE InOrder(w)'
    BY <1>1 DEF SyncsInv, Syncing
  <2>1. InOrder(w)
    BY DEF SyncsInv
  <2>2. Reclaims(w) => Reclaims(w)'
    BY <1>1, <1>2 DEF Reclaims
  <2>3. Registers(w) => Registers(w)'
    BY <1>1, <1>2, <1>3 DEF Registers, Readers
  <2> QED BY <1>1, <2>1, <2>2, <2>3 DEF InOrder
<1> QED BY <1>4, <1>5, <1>6, <1>7, <1>8

LEMMA MatchedKeeps ==
  ASSUME SkillsInv, Matched
  PROVE  SkillsInv'
<1> USE DEF SkillsInv, SkillsTyped
<1>1. UNCHANGED <<packDirs, records, skillCache, worker, chosen, crossed, staleFill>>
  BY DEF Matched
<1>2. Readable' = Readable
  BY <1>1 DEF Readable
<1>3. /\ listing' \in [Readers -> WalkRecords] /\ listing'["match"].pc = "idle"
      /\ \A v \in Readers : v # "match" => listing'[v] = listing[v]
  BY DEF Matched, WalksTyped, WalkRecords, ListsNothing, Readers
<1>4. HandsTyped' /\ WalksTyped' /\ PacksTyped'
  BY <1>1, <1>3 DEF HandsTyped, WalksTyped, PacksTyped
<1>5. HandsInv'
  <2>1. Staged'
    BY <1>1, <1>3 DEF HandsInv, Staged, Readers, Hands
  <2>2. Crossings' /\ SyncsAlone'
    BY <1>1 DEF HandsInv, Crossings, SyncsAlone, Syncing, OtherBusy, Busy
  <2> QED BY <2>1, <2>2 DEF HandsInv
<1>6. ChosenInv'
  BY <1>1 DEF ChosenInv, WritesChosen, SettingKept, Writing
<1>7. FreshInv'
  BY <1>1, <1>2, <1>3 DEF FreshInv, FillsFresh, ListIsFresh, NoWrite
<1>8. SyncsInv'
  <2> SUFFICES ASSUME ~staleFill, NEW w \in Hands, Syncing(w), worker[w].alone PROVE InOrder(w)'
    BY <1>1 DEF SyncsInv, Syncing
  <2>1. InOrder(w)
    BY DEF SyncsInv
  <2>2. Reclaims(w) => Reclaims(w)'
    BY <1>1, <1>2 DEF Reclaims
  <2>3. Registers(w) => Registers(w)'
    BY <1>1, <1>2, <1>3 DEF Registers, Readers, Hands
  <2> QED BY <1>1, <2>1, <2>2, <2>3 DEF InOrder
<1> QED BY <1>4, <1>5, <1>6, <1>7, <1>8

LEMMA SkillsStart == SkillsInit => SkillsInv
<1> SUFFICES ASSUME SkillsInit PROVE SkillsInv
  OBVIOUS
<1> DEFINE j(w) == IF w = "start" THEN "start" ELSE "none"
           q(w) == [pc |-> "idle", job |-> j(w), pack |-> NoSkill, held |-> NoSkill, todo |-> {},
                    seen |-> {}, alone |-> TRUE]
<1>1. /\ \A w \in Hands : worker[w] = q(w)
      /\ worker = [w \in Hands |-> q(w)]
  BY DEF SkillsInit, AtStart, Hand
<1>2. \A w \in Hands : q(w) \in HandRecords
  BY DEF HandRecords, HandStages
<1>3. HandsTyped /\ \A w \in Hands : worker[w].pc = "idle" /\ worker[w].job \in {"start", "none"}
                                     /\ worker[w].pack = NoSkill
  BY <1>1, <1>2 DEF HandsTyped
<1>4. \A r \in Readers : listing[r].pc = "idle" /\ ~listing[r].late
  BY DEF SkillsInit, ListsNothing
<1>5. WalksTyped
  BY <1>4 DEF SkillsInit, WalksTyped, WalkRecords, ListsNothing
<1>6. PacksTyped
  BY DEF SkillsInit, PacksTyped, Settings
<1>7. HandsInv
  BY <1>3, <1>4 DEF HandsInv, Staged, Crossings, SyncsAlone, Syncing, Readers
<1>8. ChosenInv
  BY <1>3 DEF SkillsInit, ChosenInv, WritesChosen, SettingKept
<1>9. FreshInv
  BY <1>4 DEF SkillsInit, FreshInv, FillsFresh, ListIsFresh
<1>10. SyncsInv
  BY <1>3 DEF SyncsInv, Syncing
<1> QED BY <1>3, <1>5, <1>6, <1>7, <1>8, <1>9, <1>10 DEF SkillsInv, SkillsTyped

LEMMA SkillsStay == SkillsInv /\ UNCHANGED skillVars => SkillsInv'
<1> SUFFICES ASSUME SkillsInv, UNCHANGED skillVars PROVE SkillsInv'
  OBVIOUS
<1>1. SkillsTyped'
  BY DEF SkillsInv, skillVars, SkillsTyped, HandsTyped, WalksTyped, PacksTyped
<1>2. HandsInv'
  BY DEF SkillsInv, skillVars, HandsInv, Staged, Crossings, SyncsAlone, Syncing, OtherBusy, Busy
<1>3. ChosenInv'
  BY DEF SkillsInv, skillVars, ChosenInv, WritesChosen, SettingKept, Writing
<1>4. FreshInv'
  BY DEF SkillsInv, skillVars, FreshInv, FillsFresh, ListIsFresh, NoWrite, Readable
<1>5. SyncsInv'
  BY DEF SkillsInv, skillVars, SyncsInv, Syncing, InOrder, Registers, Reclaims, Readable
<1> QED BY <1>1, <1>2, <1>3, <1>4, <1>5 DEF SkillsInv

LEMMA SkillsStep == SkillsInv /\ [SkillsNext]_skillVars => SkillsInv'
<1> SUFFICES ASSUME SkillsInv, [SkillsNext]_skillVars PROVE SkillsInv'
  OBVIOUS
<1>1. CASE UNCHANGED skillVars
  BY <1>1, SkillsStay
<1>2. ASSUME NEW r \in Readers, ReadList(r) \/ FillList(r) PROVE SkillsInv'
  BY <1>2, ReadListKeeps, FillListKeeps
<1>3. CASE Matched
  BY <1>3, MatchedKeeps
<1>4. CASE StartSyncs
  BY <1>4, SyncBeginsKeeps DEF StartSyncs, SyncBegins, Hands
<1>5. ASSUME NEW w \in Hands,
             \/ EmptyRecord(w) \/ PutRecord(w) \/ ClearCache(w) \/ ReclaimThese(w)
             \/ SyncReports(w) \/ SyncEnds(w) \/ RemoveRecord(w) \/ RemoveFolder(w)
      PROVE  SkillsInv'
  BY <1>5, EmptyRecordKeeps, PutRecordKeeps, ClearCacheKeeps, ReclaimTheseKeeps, SyncReportsKeeps,
     SyncEndsKeeps, RemoveRecordKeeps, RemoveFolderKeeps
<1>6. ASSUME NEW w \in Hands, NEW p \in Packs, ScanPack(w, p) \/ Reclaim(w, p) PROVE SkillsInv'
  BY <1>6, ScanPackKeeps, ReclaimKeeps
<1>7. ASSUME NEW p \in Packs, Delete(p) \/ Install(p) \/ EditFolder(p) PROVE SkillsInv'
  BY <1>7, DeleteKeeps, InstallKeeps, EditFolderKeeps
<1>8. ASSUME NEW p \in Packs, NEW s \in {"on", "off"}, Toggle(p, s) PROVE SkillsInv'
  BY <1>8, ToggleKeeps
<1>9. CASE CopyFolder
  BY <1>9, CopyFolderKeeps
<1>10. CASE SyncInstalled
  BY <1>10, SyncBeginsKeeps DEF SyncInstalled, SyncBegins, Hands
<1>11. CASE Restart
  BY <1>11, SkillsRestartKeeps
<1> QED BY <1>1, <1>2, <1>3, <1>4, <1>5, <1>6, <1>7, <1>8, <1>9, <1>10, <1>11 DEF SkillsNext

LEMMA SkillsInvSafe == SkillsInv => SkillSafety
<1> SUFFICES ASSUME SkillsInv PROVE SkillSafety
  OBVIOUS
<1> USE DEF SkillsInv, SkillsTyped
<1>1. SkillsTypeOK
  BY DEF HandsTyped, HandRecords, WalksTyped, PacksTyped, SkillsTypeOK, SkillLists, Settings
<1>2. SyncReconciles
  <2> SUFFICES ASSUME NEW w \in Hands, worker[w].pc = "synced", worker[w].alone, ~staleFill
               PROVE  \A p \in Packs : Readable[p] # NoSkill <=> packDirs[p] = "whole"
    BY DEF SyncReconciles
  <2>1. Reclaims(w)
    BY DEF HandsInv, Staged, SyncsInv, Syncing, InOrder
  <2> QED BY <2>1 DEF Reclaims
<1> QED BY <1>1, <1>2 DEF SkillSafety, ChosenInv, FreshInv

\* Whatever the start's sync, the interface, the file manager and crashes do, in any
\* number and order: a setting the user chose stays, the list of match_skills is fresh,
\* and a sync that nothing crossed leaves a record for every whole folder and no other.
THEOREM PacksAreReconciled == SkillsSpec => []SkillSafety
<1>1. SkillsInit => SkillsInv
  BY SkillsStart
<1>2. SkillsInv /\ [SkillsNext]_skillVars => SkillsInv'
  BY SkillsStep
<1>3. SkillsInv => SkillSafety
  BY SkillsInvSafe
<1> QED BY <1>1, <1>2, <1>3, PTL DEF SkillsSpec
=============================================================================
