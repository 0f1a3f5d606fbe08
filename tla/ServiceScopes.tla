---------------------------- MODULE ServiceScopes ---------------------------
(***************************************************************************)
(* Who works with which services.  The application's context holds the log *)
(* that the window shows, the model and the tools; a submission forks it   *)
(* and overrides the log with the session that is shown at that moment and *)
(* the plan tool with one for that session; a turn forks once more and     *)
(* overrides the model with one that asks for an allowance; and an expert  *)
(* forks the application's context again, with a log of its own and        *)
(* neither a plan tool nor a delegate tool.  Experts share a number of     *)
(* slots.  A fork and its overrides end with the call that made them,      *)
(* wherever it is dropped.                                                 *)
(*                                                                         *)
(* TurnController has the queue behind a submission, EventTables what else *)
(* a fork copies.                                                          *)
(***************************************************************************)
EXTENDS Integers, FiniteSets

CONSTANTS
  SessionLogs,
  Inputs,          \* submissions, each with a turn of its own
  Experts,         \* experts that may be called
  Slots,           \* permits of InProcessSubagent
  MaxShows,        \* bound on the switches between sessions
  View,            \* the log that follows the window
  Upstream,        \* the model without an allowance
  Closed           \* no scope, no caller

Workers == Inputs \cup Experts

ASSUME ScopesAssumption ==
  /\ Slots \in Nat \ {0} /\ MaxShows \in Nat
  /\ IsFiniteSet(Experts) /\ Inputs \cap Experts = {}
  /\ View \notin SessionLogs \cup Experts /\ Upstream \notin Inputs \cup {Closed}
  /\ Closed \notin SessionLogs \cup Workers

VARIABLES
  onView,      \* the session that the window shows
  shows,       \* switches so far
  scope,       \* worker -> its services, or Closed
  stage,       \* worker -> "idle", "submitted", "queued", "running", "ended"
  caller,      \* expert -> the turn that waits for it, or Closed
  ticket,      \* expert -> how many were called before it
  permits,     \* free slots
  home,        \* history: input -> the session it was submitted in, or Closed
  last         \* history: the last line, [by, log, model]: who wrote it to which log,
               \* and whose allowance the request with it was asked of

scopeVars == <<onView, shows, scope, stage, caller, ticket, permits, home, last>>

\* What compose registers: plan is the log that the plan tool writes to.
App == [log |-> View, model |-> Upstream, tools |-> {"plan", "delegate", "shell"}, plan |-> View]

ScopesInit ==
  /\ onView \in SessionLogs /\ shows = 0
  /\ scope = [w \in Workers |-> Closed]
  /\ stage = [w \in Workers |-> "idle"]
  /\ caller = [e \in Experts |-> Closed]
  /\ ticket = [e \in Experts |-> 0] /\ permits = Slots
  /\ home = [i \in Inputs |-> Closed]
  /\ last = [by |-> Closed, log |-> Closed, model |-> Closed]

LogBehind(log) == IF log = View THEN onView ELSE log
CallsOf(w) == {e \in Experts : caller[e] = w /\ stage[e] \in {"queued", "running"}}

----------------------------------------------------------------------------
(* Submissions and turns *)

\* switch, while anything may be under way.
Show(s) ==
  /\ shows < MaxShows /\ s # onView
  /\ onView' = s /\ shows' = shows + 1
  /\ UNCHANGED <<scope, stage, caller, ticket, permits, home, last>>

\* Mutant: the session's fork keeps the log that follows the window.
SubmitHereUnpinned(i) ==
  /\ stage[i] = "idle"
  /\ scope' = [scope EXCEPT ![i] = App]
  /\ stage' = [stage EXCEPT ![i] = "submitted"]
  /\ home' = [home EXCEPT ![i] = onView]
  /\ UNCHANGED <<onView, shows, caller, ticket, permits, last>>

\* current_session_context: the log is pinned, and the plan tool is replaced.
SubmitHere(i) ==
  /\ stage[i] = "idle"
  /\ scope' = [scope EXCEPT ![i] = [App EXCEPT !.log = onView, !.plan = onView]]
  /\ stage' = [stage EXCEPT ![i] = "submitted"]
  /\ home' = [home EXCEPT ![i] = onView]
  /\ UNCHANGED <<onView, shows, caller, ticket, permits, last>>

OnlyOfItsSession(i) == \A j \in Inputs \ {i} : home[j] = home[i] => stage[j] # "running"

\* Mutant: the turn runs in the session's context.
StartUnbudgeted(i) ==
  /\ stage[i] = "submitted" /\ OnlyOfItsSession(i)
  /\ stage' = [stage EXCEPT ![i] = "running"]
  /\ UNCHANGED <<onView, shows, scope, caller, ticket, permits, home, last>>

\* run_durable_turn provides the budgeted model in a fork of its own.
StartTurn(i) ==
  /\ stage[i] = "submitted" /\ OnlyOfItsSession(i)
  /\ stage' = [stage EXCEPT ![i] = "running"]
  /\ scope' = [scope EXCEPT ![i].model = i]
  /\ UNCHANGED <<onView, shows, caller, ticket, permits, home, last>>

\* A step of an agent loop: a line in its log and a request to its model.
AskModel(w) ==
  /\ stage[w] = "running" /\ CallsOf(w) = {}
  /\ last' = [by |-> w, log |-> LogBehind(scope[w].log), model |-> scope[w].model]
  /\ UNCHANGED <<onView, shows, scope, stage, caller, ticket, permits, home>>

\* dispatch of the plan tool, where the registry has it.
CallPlan(w) ==
  /\ stage[w] = "running" /\ CallsOf(w) = {} /\ "plan" \in scope[w].tools
  /\ last' = [by |-> w, log |-> LogBehind(scope[w].plan), model |-> Closed]
  /\ UNCHANGED <<onView, shows, scope, stage, caller, ticket, permits, home>>

\* The delegate tool, or the experts of a council, which are called at once.
Delegate(w, e) ==
  /\ stage[w] = "running" /\ "delegate" \in scope[w].tools
  /\ stage[e] = "idle"
  /\ stage' = [stage EXCEPT ![e] = "queued"]
  /\ caller' = [caller EXCEPT ![e] = w]
  /\ ticket' = [ticket EXCEPT ![e] = Cardinality({d \in Experts : caller[d] # Closed})]
  /\ UNCHANGED <<onView, shows, scope, permits, home, last>>

----------------------------------------------------------------------------
(* Experts *)

\* The one that has waited longest for a slot.
IsNext(e) ==
  /\ stage[e] = "queued"
  /\ \A d \in Experts : stage[d] = "queued" => ticket[e] <= ticket[d]

\* Mutant: the expert works with all tools.
AcquireWithAllTools(e) ==
  /\ IsNext(e) /\ permits > 0
  /\ scope' = [scope EXCEPT ![e] = [App EXCEPT !.log = e]]
  /\ stage' = [stage EXCEPT ![e] = "running"]
  /\ permits' = permits - 1
  /\ UNCHANGED <<onView, shows, caller, ticket, home, last>>

\* acquire hands out permits in the order of the calls; then the fork.
Acquire(e) ==
  /\ IsNext(e) /\ permits > 0
  /\ scope' = [scope EXCEPT ![e] = [App EXCEPT !.log = e, !.tools = @ \ {"delegate", "plan"}]]
  /\ stage' = [stage EXCEPT ![e] = "running"]
  /\ permits' = permits - 1
  /\ UNCHANGED <<onView, shows, caller, ticket, home, last>>

\* The answer, an error, or the cut of an expert that is idle.
EndExpert(e) ==
  /\ stage[e] = "running" /\ CallsOf(e) = {}
  /\ stage' = [stage EXCEPT ![e] = "ended"]
  /\ scope' = [scope EXCEPT ![e] = Closed]
  /\ permits' = permits + 1
  /\ UNCHANGED <<onView, shows, caller, ticket, home, last>>

Gone(i) == {i} \cup CallsOf(i)

\* Mutant: a dropped call keeps its permit.
EndTurnKeepingPermits(i) ==
  /\ stage[i] = "running"
  /\ stage' = [w \in Workers |-> IF w \in Gone(i) THEN "ended" ELSE stage[w]]
  /\ scope' = [w \in Workers |-> IF w \in Gone(i) THEN Closed ELSE scope[w]]
  /\ UNCHANGED <<onView, shows, caller, ticket, permits, home, last>>

\* The turn returns or is dropped, and with it every call that it waits for.
EndTurn(i) ==
  /\ stage[i] = "running"
  /\ stage' = [w \in Workers |-> IF w \in Gone(i) THEN "ended" ELSE stage[w]]
  /\ scope' = [w \in Workers |-> IF w \in Gone(i) THEN Closed ELSE scope[w]]
  /\ permits' = permits + Cardinality({e \in CallsOf(i) : stage[e] = "running"})
  /\ UNCHANGED <<onView, shows, caller, ticket, home, last>>

ScopesNext ==
  \/ \E s \in SessionLogs : Show(s)
  \/ \E i \in Inputs : SubmitHere(i) \/ StartTurn(i) \/ EndTurn(i)
  \/ \E w \in Workers : AskModel(w) \/ CallPlan(w)
  \/ \E w \in Workers, e \in Experts : Delegate(w, e)
  \/ \E e \in Experts : Acquire(e) \/ EndExpert(e)

\* The runtime polls what is ready, and an expert that does nothing is cut.
ScopesFairness == \A e \in Experts : WF_scopeVars(Acquire(e)) /\ WF_scopeVars(EndExpert(e))

ScopesSpec == ScopesInit /\ [][ScopesNext]_scopeVars /\ ScopesFairness

----------------------------------------------------------------------------
(* Properties *)

ScopesTypeOK ==
  LET Services == [log : SessionLogs \cup Experts \cup {View}, model : Inputs \cup {Upstream},
                   tools : SUBSET App.tools, plan : SessionLogs \cup {View}]
  IN  /\ onView \in SessionLogs /\ shows \in 0 .. MaxShows
      /\ scope \in [Workers -> Services \cup {Closed}]
      /\ stage \in [Workers -> {"idle", "submitted", "queued", "running", "ended"}]
      /\ caller \in [Experts -> Workers \cup {Closed}]
      /\ ticket \in [Experts -> Nat] /\ permits \in 0 .. Slots
      /\ home \in [Inputs -> SessionLogs \cup {Closed}]
      /\ last \in [by : Workers \cup {Closed}, log : SessionLogs \cup Experts \cup {Closed},
                   model : Inputs \cup {Upstream, Closed}]

\* A turn writes to the session it was submitted in, its plan included, whatever
\* the window shows meanwhile; and an expert never writes to a session.
LogsApart ==
  last.by # Closed => last.log = IF last.by \in Inputs THEN home[last.by] ELSE last.by

\* What a turn asks of a model itself is asked of its own allowance.
TurnsBudgeted == last.by \in Inputs => last.model \in {last.by, Closed}

\* Every permit is free or with an expert at work.
PermitsKept == permits + Cardinality({e \in Experts : stage[e] = "running"}) = Slots

ScopesSafety == ScopesTypeOK /\ LogsApart /\ TurnsBudgeted /\ PermitsKept

\* Every expert that is called comes to an end: none waits for a slot for ever.
DelegationsEnd == \A e \in Experts : stage[e] = "queued" ~> stage[e] = "ended"

\* All requests on behalf of a turn are asked of its allowance (INVARIANTS.md:79).
\* The code does not keep it: experts get the model of the application's context.
ExpertsBudgeted == last.model # Upstream
=============================================================================
