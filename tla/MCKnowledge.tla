---------------------------- MODULE MCKnowledge -----------------------------
(* TLC instance of the knowledge base: facts of which two texts say the same *)
(* and one is refused, and pages some of whose saves are of one size.        *)
EXTENDS KnowledgeBase

SameKey == [t \in Texts |-> IF t \in {"t", "T"} THEN "t" ELSE t]
FitTexts == Texts \ {"x"}
Sizes == [n \in 1 .. MaxSaves |-> IF n = 3 THEN 1 ELSE n]

\* Only the facts move, or only the index.
ReviewSpec == KnowledgeInit /\ [][PromotionNext /\ UNCHANGED indexVars]_promotionVars
RestartSpec == KnowledgeInit /\ [][IndexNext /\ UNCHANGED promotionVars]_indexVars
=============================================================================
