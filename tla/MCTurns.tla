------------------------------ MODULE MCTurns -------------------------------
(***************************************************************************)
(* TLC instance of what runs a turn: the session controller, with three    *)
(* inputs of which the second is a council; and the council itself, whose  *)
(* smaller plans fail as often as they can, and the large one once, with   *)
(* an implementation that is written by nobody; and the services that      *)
(* turns and their experts work with.  They share no state: part says      *)
(* whose behaviour this is.                                                *)
(***************************************************************************)
EXTENDS TurnController, CouncilDag, ServiceScopes

MCItems == 1..3
MCCouncils == {2}

FailuresOf == [c \in Classes |-> IF c = "high" THEN 1 ELSE 5]
EditsOf == [c \in Classes |-> IF c = "high" THEN 0 ELSE 1]

VARIABLE part

allVars == <<vars, councilVars, scopeVars, part>>

\* Where the controller is looked at, the council was cancelled before it began.
CouncilOver ==
  /\ class = "analysis"
  /\ task = [t \in DOMAIN Plan[class] |-> [FreshTask EXCEPT !.st = "cancelled"]]
  /\ failure = FALSE /\ progress = FALSE /\ stopped = TRUE
  /\ phase = "over" /\ outcome = "cancelled" /\ reported = TRUE
  /\ failures = 0 /\ stray = FALSE /\ edits = 0 /\ tested = 0

\* Where the council is looked at, nothing is ever submitted.
NothingSubmitted == ControllerInit /\ shown = CHOOSE s \in Sessions : TRUE

NothingScoped == ScopesInit /\ onView = CHOOSE s \in SessionLogs : TRUE

TurnsInit ==
  \/ part = "controller" /\ ControllerInit /\ CouncilOver /\ NothingScoped
  \/ part = "council" /\ NothingSubmitted /\ CouncilInit /\ NothingScoped
  \/ part = "scopes" /\ NothingSubmitted /\ CouncilOver /\ ScopesInit

InController == part = "controller" /\ UNCHANGED <<councilVars, scopeVars, part>>
InCouncil == part = "council" /\ UNCHANGED <<vars, scopeVars, part>>
InScopes == part = "scopes" /\ UNCHANGED <<vars, councilVars, part>>

TurnsNext ==
  \/ part = "controller" /\ ControllerNext /\ InController
  \/ part = "council" /\ CouncilNext /\ InCouncil
  \/ part = "scopes" /\ ScopesNext /\ InScopes

\* The fairness of the three.
TurnsSpec ==
  /\ TurnsInit /\ [][TurnsNext]_allVars
  /\ \A c \in Items : WF_allVars(part = "controller" /\ ConsumerStep(c) /\ InController)
  /\ WF_allVars(part = "council" /\ Scheduler /\ InCouncil)
  /\ SF_allVars(part = "council" /\ Returns /\ InCouncil)
  /\ \A e \in Experts : WF_allVars(part = "scopes" /\ Acquire(e) /\ InScopes)
                          /\ WF_allVars(part = "scopes" /\ EndExpert(e) /\ InScopes)
=============================================================================
