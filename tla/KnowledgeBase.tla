--------------------------- MODULE KnowledgeBase ----------------------------
(***************************************************************************)
(* The knowledge base: what is distilled and promoted (FactPromotion), and *)
(* the index in which the files of the root are found (KnowledgeIndex).    *)
(* Promotions write files that the index walks; the index sees them as     *)
(* saves of pages, so the two share no state here.                         *)
(***************************************************************************)
EXTENDS FactPromotion, KnowledgeIndex

KnowledgeInit == PromotionInit /\ IndexInit

KnowledgeNext ==
  \/ PromotionNext /\ UNCHANGED indexVars
  \/ IndexNext /\ UNCHANGED promotionVars

KnowledgeSpec == KnowledgeInit /\ [][KnowledgeNext]_<<promotionVars, indexVars>>

\* The knowledge base keeps what was distilled, once (FactPromotion), and finds
\* what it keeps (KnowledgeIndex).
KnowledgeSafety == PromotionSafety /\ IndexSafety
=============================================================================
