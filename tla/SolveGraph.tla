----------------------------- MODULE SolveGraph -----------------------------
(***************************************************************************)
(* The solve graph of a turn (harness-runtime, goal_execution.rs): the     *)
(* acceptance items of a task, what has been found out about each, and     *)
(* the decisions the agent loop takes from them.  A graph is a record      *)
(*   items     : [Items -> state, reads, hypothesis, streak, candidates]   *)
(*   targets   : the files named by the workspace, a search or a tool      *)
(*   confirmed : those of them that may be edited                          *)
(* and every definition is a function of it.  A task is a record with the  *)
(* strategy, the outcome asked for, the kind of evidence it needs,         *)
(* idempotent (an exact transformation, which may hold already), provable  *)
(* (the goal has assertions to be found in a file) and open (no solve      *)
(* mode closes its tools).                                                 *)
(* What only words the advice to the model is left out.  The budgets per   *)
(* phase are advice too, but advice is returned before a denial: Denied    *)
(* takes that as a parameter.                                              *)
(***************************************************************************)
EXTENDS Naturals, FiniteSets, Sequences, SequencesExt

CONSTANTS
  Items,       \* acceptance items, numbered in the order of their ids
  Files,
  DependsOn,   \* [Items -> SUBSET Items], from the sketch
  Risk,        \* [Items -> 0..2]
  MaxParallel  \* MAX_PARALLEL_SURFACES

ASSUME SolveGraphAssumption ==
  /\ Items \subseteq 1 .. 9 /\ Items # {}
  /\ DependsOn \in [Items -> SUBSET Items]
  /\ Risk \in [Items -> 0 .. 2]
  /\ MaxParallel \in Nat \ {0}

NoItem == 0
NoFile == "no file"

ItemStates == {"Pending", "Locating", "Located", "Inspecting", "Ready",
               "Changed", "Satisfied", "Verified"}
Early    == {"Pending", "Locating", "Located", "Inspecting"}
Awaiting == {"Changed", "Satisfied"}

\* Reads and misses are counted as far as a condition looks at them.
MaxReads == 2
Graphs ==
  [items : [Items -> [st : ItemStates, reads : 0 .. MaxReads, hyp : 1 .. 2,
                      streak : 0 .. 1, cands : SUBSET Files]],
   targets : SUBSET Files, confirmed : SUBSET Files]

FreshItem == [st |-> "Pending", reads |-> 0, hyp |-> 1, streak |-> 0, cands |-> {}]

FromContract ==
  [items |-> [i \in Items |-> FreshItem], targets |-> {}, confirmed |-> {}]

\* What the scan of the workspace found, sure or only likely.
ApplyGrounding(g, found, sure) ==
  IF found = {} THEN g
  ELSE [items |-> [i \in Items |->
                    [g.items[i] EXCEPT
                       !.cands = found,
                       !.st = IF @ \in {"Pending", "Locating"} THEN "Located" ELSE @]],
        targets   |-> found,
        confirmed |-> IF sure THEN found ELSE {}]

ReadOnly(task)         == task.strategy = "Investigative"
VerificationOnly(task) == task.strategy = "Verification"

---------------------------------------------------------------------------
(* Which item is next *)

ReadySurfaces(g) ==
  {i \in Items : /\ g.items[i].st # "Verified"
                 /\ \A d \in DependsOn[i] : g.items[d].st = "Verified"}

StateRank == [Ready |-> 0, Inspecting |-> 1, Located |-> 2, Locating |-> 3,
              Pending |-> 4, Changed |-> 5, Satisfied |-> 5, Verified |-> 6]

\* The risk first, then the progress, then the id.
AdmissionRank(g, i) == 100 * Risk[i] + 10 * StateRank[g.items[i].st] + i

FirstOf(g, S) ==
  IF S = {} THEN NoItem
  ELSE CHOOSE i \in S : \A j \in S : AdmissionRank(g, i) <= AdmissionRank(g, j)

ActiveItem(g) == FirstOf(g, ReadySurfaces(g))

\* Items that share a candidate file do not proceed in one step; one of
\* high risk waits even for those that are not admitted yet.  They are looked
\* at in the order of their ranks.
AdmitConcurrent(g) ==
  LET ready == ReadySurfaces(g)
      Shares(i, j) == g.items[i].cands \cap g.items[j].cands # {}
      Waits(i, admitted) == \/ Cardinality(admitted) >= MaxParallel
                            \/ \E j \in admitted : Shares(i, j)
                            \/ Risk[i] = 2 /\ \E j \in ready \ {i} : Shares(i, j)
      admit[n \in 0 .. Cardinality(ready)] ==
        IF n = 0 THEN [in |-> {}, left |-> ready]
        ELSE LET before == admit[n - 1]
                 i == FirstOf(g, before.left)
             IN  [in   |-> IF Waits(i, before.in) THEN before.in ELSE before.in \cup {i},
                  left |-> before.left \ {i}]
  IN  admit[Cardinality(ready)].in

NextAdmitted(g, used) ==
  IF Cardinality(Items) <= 1 THEN NoItem
  ELSE FirstOf(g, AdmitConcurrent(g) \ used)

---------------------------------------------------------------------------
(* A tool call: its tool and the file it names                            *)

IsWrite(c)  == c.tool \in {"edit", "create"}
IsVerify(task, c) ==
  \/ c.tool \in {"test", "build"}
  \/ VerificationOnly(task) /\ c.tool = "shell"
ToolName(c) == CASE c.tool \in {"read", "create"} -> "fs"
                 [] c.tool \in {"test", "build", "shell"} -> "shell"
                 [] OTHER -> c.tool

\* The items a call is for.  A verification is for all that were changed,
\* or as a baseline for an item that was only read.
Supports(g, task, c, used) ==
  LET a == ActiveItem(g)
      changed == {i \in Items : g.items[i].st \in Awaiting}
      n == NextAdmitted(g, used)
  IN  IF IsVerify(task, c)
      THEN IF VerificationOnly(task) THEN Items
           ELSE IF changed # {} THEN changed
           ELSE {i \in {a} \ {NoItem} : g.items[i].st = "Ready" /\ g.items[i].reads > 0}
      ELSE (IF n # NoItem THEN {n} ELSE {a}) \ {NoItem}

\* Whether the call gets an action contract; without one its result does
\* not reach the graph.
HasActionSpec(g, task, c, supports) ==
  /\ supports # {}
  /\ ActiveItem(g) # NoItem
  /\ IF IsVerify(task, c)
     THEN \/ VerificationOnly(task)
          \/ \A i \in Items : g.items[i].st \notin {"Pending", "Locating", "Inspecting"}
     ELSE \A i \in supports : i = ActiveItem(g) \/ i \in AdmitConcurrent(g)

\* Whether the action is of the verify phase, taken when the call is made:
\* a read of an item that waits for its verification is.
OfVerifyPhase(g, task, c, supports) ==
  \/ IsVerify(task, c)
  \/ /\ c.tool = "read" /\ supports # {}
     /\ LET lead == CHOOSE i \in supports : \A j \in supports : i <= j
        IN  g.items[lead].st \in Awaiting

CanConclude(g, task) ==
  IF ReadOnly(task)
  THEN \A i \in Items : /\ g.items[i].reads > 0
                        /\ g.items[i].st \notin {"Pending", "Locating", "Located"}
  ELSE \A i \in Items : g.items[i].st = "Verified"

\* Whether the item's assertions could be looked up in a file.
StaticallyProvable(g, task, i) ==
  task.provable /\ g.items[i].cands \cup g.targets # {}

AllowedTools(g, task) ==
  LET a == ActiveItem(g)
      st == g.items[a].st
  IN  IF VerificationOnly(task)
      THEN IF CanConclude(g, task) THEN {} ELSE {"shell", "fs", "edit"}
      ELSE IF a = NoItem THEN {}
      ELSE CASE st \in Early -> {"search", "fs"}
             [] st = "Ready" ->
                  {"search", "fs"} \cup
                  (IF ReadOnly(task) \/ g.confirmed = {} THEN {}
                   ELSE IF g.items[a].reads > 0 THEN {"edit", "shell"} ELSE {"edit"})
             [] OTHER -> {"shell"} \cup
                  (IF StaticallyProvable(g, task, a) THEN {"fs"} ELSE {})

\* The calls that are refused.  All other judgements are advice, and the
\* call is dispatched; advised says that the phase's budget is used up.
Denied(g, task, c, advised) ==
  LET a == ActiveItem(g) IN
  \/ IsWrite(c) /\ ReadOnly(task)
  \/ /\ IsWrite(c) => "edit" \in AllowedTools(g, task)
     /\ ~advised
     /\ ToolName(c) \in AllowedTools(g, task)
     /\ \/ /\ c.tool = "search" /\ a # NoItem /\ g.confirmed # {}
           /\ g.items[a].st = "Ready" /\ g.items[a].reads >= 2
        \/ c.tool = "edit" /\ c.file \notin g.confirmed

---------------------------------------------------------------------------
(* What a result does.  r.ok: the tool succeeded (a search that finds      *)
(* nothing did not); r.changed: the file's content is another one;         *)
(* r.finds: the files a search names; r.expected: the text read holds all  *)
(* expected values; r.mention: the items whose files a failure names.      *)

AdvanceHypothesis(item) ==
  IF item.hyp = 1 THEN [item EXCEPT !.hyp = 2, !.streak = 0]
  ELSE [item EXCEPT !.hyp = 1, !.streak = 0,
          !.st = IF item.reads > 0 THEN "Ready"
                 ELSE IF item.cands # {} THEN "Located" ELSE "Locating"]

EvidenceMatches(task, c) ==
  CASE task.evidence = "visual"   -> FALSE
    [] task.evidence = "behavior" -> VerificationOnly(task) \/ c.tool = "test"
    [] OTHER -> TRUE

WithTargets(g, c, r) ==
  LET found == IF ~r.ok THEN {}
               ELSE IF c.tool = "search" THEN r.finds ELSE {c.file} \cap Files
  IN  [g EXCEPT !.targets = @ \cup found, !.confirmed = @ \cup found]

EvidenceKind(g, task, c, verify, r) ==
  IF c.tool = "search"
  THEN IF ~r.ok THEN "HypothesisRejected"
       ELSE IF WithTargets(g, c, r) # g THEN "TargetFound" ELSE "NoInformation"
  ELSE IF task.idempotent /\ c.tool = "read" /\ r.ok /\ r.expected THEN "AlreadySatisfied"
  ELSE IF verify
  THEN IF ~r.ok THEN "VerificationFailed"
       ELSE IF EvidenceMatches(task, c) THEN "VerificationPassed" ELSE "NoInformation"
  ELSE IF IsWrite(c) /\ r.ok /\ r.changed THEN "ChangeApplied"
  ELSE IF c.tool = "read" /\ r.ok THEN "DataFlowConfirmed" ELSE "NoInformation"

NextState(task, c, verify, kind, item, r) ==
  IF kind = "VerificationPassed" /\ (VerificationOnly(task) \/ item.st \in Awaiting)
  THEN "Verified"
  ELSE IF verify THEN item.st
  ELSE CASE IsWrite(c) -> IF r.changed THEN "Changed" ELSE "Ready"
         [] c.tool = "read" -> IF kind = "AlreadySatisfied" THEN "Satisfied"
                               ELSE IF ReadOnly(task) THEN "Inspecting" ELSE "Ready"
         [] c.tool = "search" -> "Inspecting"
         [] OTHER -> item.st

RecordItem(g, task, c, verify, kind, item, r) ==
  IF kind = "NoInformation"
  THEN IF item.streak = 0 THEN [item EXCEPT !.streak = 1]
       ELSE IF item.st \in Early THEN AdvanceHypothesis(item) ELSE item
  ELSE LET calm == [item EXCEPT !.streak = 0] IN
       IF r.ok
       THEN [calm EXCEPT
               !.reads = IF c.tool = "read" /\ @ < MaxReads THEN @ + 1 ELSE @,
               !.st    = NextState(task, c, verify, kind, item, r),
               !.cands = @ \cup g.targets]
       ELSE IF c.tool = "search" THEN AdvanceHypothesis(calm) ELSE calm

\* A failed verification sends the items it names back to be changed, or all.
MapFailure(items, supports, r) ==
  LET named == {i \in supports \cap r.mention : items[i].cands # {}}
      back  == IF named # {} THEN named ELSE supports
  IN  [i \in Items |-> IF i \in back THEN [items[i] EXCEPT !.st = "Ready"] ELSE items[i]]

RecordResult(g, task, c, supports, verify, r) ==
  LET kind == EvidenceKind(g, task, c, verify, r)
      h    == WithTargets(g, c, r)
      items == [i \in Items |-> IF i \in supports
                                THEN RecordItem(h, task, c, verify, kind, g.items[i], r)
                                ELSE g.items[i]]
  IN  [h EXCEPT !.items = IF kind = "VerificationFailed"
                          THEN MapFailure(items, supports, r) ELSE items]

\* Items whose assertions are found in their files on disk are verified
\* without a command; holds are those that would be found.
Settled(g, task, holds) ==
  IF task.evidence # "static" THEN {}
  ELSE {i \in holds : g.items[i].st \in Awaiting /\ StaticallyProvable(g, task, i)}

SettleStaticConvergence(g, settled) ==
  [g EXCEPT !.items = [i \in Items |->
      IF i \in settled THEN [g.items[i] EXCEPT !.st = "Verified"] ELSE g.items[i]]]

\* A denied call tells nothing about the item it was for.
RecordGateRejection(g, supports) ==
  LET lead == CHOOSE i \in supports : \A j \in supports : i <= j
  IN  [g EXCEPT !.items[lead].streak = 1]

EvaluateCompletion(g, task, hadTools) ==
  IF hadTools THEN "Continue" ELSE IF CanConclude(g, task) THEN "Complete" ELSE "Correct"
=============================================================================
