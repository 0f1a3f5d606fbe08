---------------------------- MODULE MCAgentLoop ----------------------------
(* Small instances of AgentLoop for TLC: changes of a workspace, that are   *)
(* resumed, and tasks that ask or verify.                                   *)
EXTENDS AgentLoop

Change(evidence) ==
  [strategy |-> "Transformative", outcome |-> "Change", evidence |-> evidence,
   idempotent |-> FALSE, provable |-> TRUE, open |-> FALSE]
Ask     == [Change("command") EXCEPT !.strategy = "Investigative", !.outcome = "Answer"]
Compare == [Ask EXCEPT !.strategy = "Comparative", !.open = TRUE]
Verify  == [Ask EXCEPT !.strategy = "Verification", !.outcome = "Verify"]

Read(f) == [tool |-> "read", file |-> f]
Edit(f) == [tool |-> "edit", file |-> f]
Test    == [tool |-> "test", file |-> NoFile]
Search  == [tool |-> "search", file |-> NoFile]

ChangeTasks == {Change("command"), Change("static")}
ChangeCalls == {Read("a"), Edit("a"), Test}
AskTasks    == {Ask, Compare, Verify}
AskCalls    == {Read("a"), Search, Test}
EndsCalls   == {Read("a"), Test}

AllEvents  == {"question", "prompt cap", "cancel", "provider error", "malformed", "hook error"}
AskEvents  == {"question", "prompt cap"}
SameText == {[text |-> "recurrent", claim |-> FALSE]}
TwoTexts == {[text |-> "other", claim |-> FALSE], [text |-> "recurrent", claim |-> TRUE]}
OneRetry == [starved |-> 1]
NoRetry  == [reason \in {} |-> 0]
NoDeps   == [i \in Items |-> {}]
LowRisk  == [i \in Items |-> 0]

\* A governor watches the changes that a command must prove; those for which
\* the code is evidence enough go without.
ChangeInit == AgentInit /\ (governed <=> task.evidence = "command")
ChangeSpec == ChangeInit /\ [][AgentNext]_vars
=============================================================================
