--------------------------- MODULE FactPromotion ----------------------------
(***************************************************************************)
(* Candidate facts and what becomes of them: a session that is distilled   *)
(* writes candidates into review/, a reviewer writes a confidence into     *)
(* them, and each start of the program promotes those that pass a gate     *)
(* into facts/ and removes them from review/, one file at a time.  Nothing *)
(* is locked; a process may die between any two steps.  KnowledgeIndex has *)
(* what is made of facts/ afterwards.                                      *)
(*                                                                         *)
(* A file is named by the id of its fact, as distil names it.  A text      *)
(* stands for a body; NormKey is its normalised form.                      *)
(***************************************************************************)
EXTENDS Integers, FiniteSets

CONSTANTS
  NumFacts,     \* ids of facts, in the order of their file names
  Texts,
  NormKey,      \* text -> the key that duplicates are found by
  Fit,          \* texts with a source and long enough to stand alone
  Gradings,     \* confidences a reviewer may give, in hundredths
  Promoters,    \* processes that start
  Unedited,     \* TRUE: nobody edits review/ while it is promoted
  MaxEdits,     \* bound on distillations and reviews
  NoFile

Facts == 1 .. NumFacts

ASSUME PromotionAssumption ==
  /\ NumFacts \in Nat /\ MaxEdits \in Nat /\ Unedited \in BOOLEAN
  /\ DOMAIN NormKey = Texts /\ Fit \subseteq Texts
  /\ Gradings \subseteq 0 .. 100
  /\ NoFile \notin Texts
  /\ NoFile \notin [text : Texts, confidence : 0 .. 100, reviewed : BOOLEAN]
  /\ NoFile \notin [text : Texts \cup {NoFile}, reviewed : BOOLEAN]

VARIABLES
  review,     \* fact -> [text, confidence, reviewed], or NoFile
  facts,      \* fact -> [text, reviewed], or NoFile; text is NoFile in an empty file
  promoter,   \* process -> [pc, known, left, fact, held]
  asked,      \* history: fact -> the text last distilled for it, or NoFile
  edited      \* distillations and reviews so far

promotionVars == <<review, facts, promoter, asked, edited>>

AtRest == [pc |-> "idle", known |-> {}, left |-> {}, fact |-> 0, held |-> NoFile]

PromotionInit ==
  /\ review = [f \in Facts |-> NoFile]
  /\ facts = [f \in Facts |-> NoFile]
  /\ promoter = [p \in Promoters |-> AtRest]
  /\ asked = [f \in Facts |-> NoFile]
  /\ edited = 0

ConfidenceMin == 70

\* FrontMatter::default, which render_candidate leaves as it is.
DefaultConfidence == 70

----------------------------------------------------------------------------
(* Distillation and review *)

MayEdit ==
  /\ edited < MaxEdits
  /\ Unedited => \A p \in Promoters : promoter[p].pc = "idle"

\* write_distillation overwrites the candidate of its id.
Distil(f, text) ==
  /\ MayEdit /\ edited' = edited + 1
  /\ review' = [review EXCEPT ![f] =
       [text |-> text, confidence |-> DefaultConfidence, reviewed |-> FALSE]]
  /\ asked' = [asked EXCEPT ![f] = text]
  /\ UNCHANGED <<facts, promoter>>

\* approve, which also serves to turn a candidate down.
Approve(f, confidence) ==
  /\ MayEdit /\ edited' = edited + 1
  /\ review[f] # NoFile
  /\ review' = [review EXCEPT ![f].confidence = confidence, ![f].reviewed = TRUE]
  /\ UNCHANGED <<facts, promoter, asked>>

----------------------------------------------------------------------------
(* promote_review_dir *)

FullFact(f) == facts[f] # NoFile /\ facts[f].text # NoFile

\* The keys of facts/, and then the list of review/.
StartPromotion(p) ==
  /\ promoter[p].pc = "idle"
  /\ promoter' = [promoter EXCEPT ![p] =
       [AtRest EXCEPT !.pc = "scanning",
                      !.known = {NormKey[facts[f].text] : f \in {g \in Facts : FullFact(g)}},
                      !.left = {f \in Facts : review[f] # NoFile}]]
  /\ UNCHANGED <<review, facts, asked, edited>>

\* Mutant: the duplicates are not looked for.
PassesUnique(candidate, known) ==
  candidate.text \in Fit /\ candidate.confidence >= ConfidenceMin

\* judge_candidate without a reason to refuse.
Passes(candidate, known) ==
  /\ candidate.text \in Fit
  /\ candidate.confidence >= ConfidenceMin
  /\ NormKey[candidate.text] \notin known

IsNext(p, f) == f \in promoter[p].left /\ \A g \in promoter[p].left : f <= g

\* Mutant: the candidate is taken out of review/ before it is in facts/.
JudgeAndTake(p, f) ==
  /\ promoter[p].pc = "scanning" /\ IsNext(p, f)
  /\ IF review[f] # NoFile /\ Passes(review[f], promoter[p].known)
     THEN /\ promoter' = [promoter EXCEPT ![p].pc = "judged", ![p].fact = f, ![p].held = review[f]]
          /\ review' = [review EXCEPT ![f] = NoFile]
     ELSE promoter' = [promoter EXCEPT ![p].left = @ \ {f}] /\ UNCHANGED review
  /\ UNCHANGED <<facts, asked, edited>>

\* A candidate is read and judged; one that is gone or refused is left alone.
Judge(p, f) ==
  /\ promoter[p].pc = "scanning" /\ IsNext(p, f)
  /\ promoter' =
       IF review[f] # NoFile /\ Passes(review[f], promoter[p].known)
       THEN [promoter EXCEPT ![p].pc = "judged", ![p].fact = f, ![p].held = review[f]]
       ELSE [promoter EXCEPT ![p].left = @ \ {f}]
  /\ UNCHANGED <<review, facts, asked, edited>>

\* fs::write empties the file ...
OpenFact(p) ==
  /\ promoter[p].pc = "judged"
  /\ facts' = [facts EXCEPT ![promoter[p].fact] = [text |-> NoFile, reviewed |-> FALSE]]
  /\ promoter' = [promoter EXCEPT ![p].pc = "opened"]
  /\ UNCHANGED <<review, asked, edited>>

\* Mutant: the keys found at the start are all that is compared with.
WriteUnnoted(p) ==
  LET held == promoter[p].held IN
  /\ promoter[p].pc = "opened"
  /\ facts' = [facts EXCEPT ![promoter[p].fact] = [text |-> held.text, reviewed |-> held.reviewed]]
  /\ promoter' = [promoter EXCEPT ![p].pc = "written"]
  /\ UNCHANGED <<review, asked, edited>>

\* ... and fills it.
WriteFact(p) ==
  LET held == promoter[p].held IN
  /\ promoter[p].pc = "opened"
  /\ facts' = [facts EXCEPT ![promoter[p].fact] = [text |-> held.text, reviewed |-> held.reviewed]]
  /\ promoter' = [promoter EXCEPT ![p].pc = "written", ![p].known = @ \cup {NormKey[held.text]}]
  /\ UNCHANGED <<review, asked, edited>>

\* A candidate that is not there any more is an error, which ends the scan.
RemoveCandidate(p) ==
  LET f == promoter[p].fact IN
  /\ promoter[p].pc = "written"
  /\ review' = [review EXCEPT ![f] = NoFile]
  /\ promoter' = [promoter EXCEPT ![p] =
       IF review[f] = NoFile THEN AtRest
       ELSE [AtRest EXCEPT !.pc = "scanning", !.known = promoter[p].known, !.left = promoter[p].left \ {f}]]
  /\ UNCHANGED <<facts, asked, edited>>

EndPromotion(p) ==
  /\ promoter[p].pc = "scanning" /\ promoter[p].left = {}
  /\ promoter' = [promoter EXCEPT ![p] = AtRest]
  /\ UNCHANGED <<review, facts, asked, edited>>

\* The process ends, at any point.
PromoterDies(p) ==
  /\ promoter[p].pc # "idle"
  /\ promoter' = [promoter EXCEPT ![p] = AtRest]
  /\ UNCHANGED <<review, facts, asked, edited>>

PromotionNext ==
  \/ \E f \in Facts : \/ \E t \in Texts : Distil(f, t)
                      \/ \E c \in Gradings : Approve(f, c)
  \/ \E p \in Promoters :
       \/ StartPromotion(p) \/ OpenFact(p) \/ WriteFact(p) \/ RemoveCandidate(p)
       \/ EndPromotion(p) \/ PromoterDies(p)
       \/ \E f \in Facts : Judge(p, f)

PromotionSpec == PromotionInit /\ [][PromotionNext]_promotionVars

----------------------------------------------------------------------------
(* Properties *)

Candidates == [text : Texts, confidence : Gradings \cup {DefaultConfidence}, reviewed : BOOLEAN]

PromotionTypeOK ==
  /\ review \in [Facts -> Candidates \cup {NoFile}]
  /\ facts \in [Facts -> [text : Texts \cup {NoFile}, reviewed : BOOLEAN] \cup {NoFile}]
  /\ promoter \in [Promoters ->
       [pc : {"idle", "scanning", "judged", "opened", "written"}, known : SUBSET {NormKey[t] : t \in Texts},
        left : SUBSET Facts, fact : Facts \cup {0}, held : Candidates \cup {NoFile}]]
  /\ asked \in [Facts -> Texts \cup {NoFile}] /\ edited \in 0 .. MaxEdits

\* No two facts say the same, although candidates of one scan may, and a scan
\* may have died after any of its steps.
FactsUnique ==
  \A f, g \in Facts :
    f # g /\ FullFact(f) /\ FullFact(g) => NormKey[facts[f].text] # NormKey[facts[g].text]

\* What was distilled is in review/ or in facts/, wherever a scan died.
NothingLost ==
  \A f \in Facts : asked[f] # NoFile =>
    \/ review[f] # NoFile /\ review[f].text = asked[f]
    \/ FullFact(f) /\ facts[f].text = asked[f]

\* The safety of the promotion.
PromotionSafety == PromotionTypeOK /\ FactsUnique /\ NothingLost

\* A candidate that nobody has reviewed is not promoted (promotion.rs:7).
UnreviewedStayOut == \A f \in Facts : FullFact(f) => facts[f].reviewed
=============================================================================
