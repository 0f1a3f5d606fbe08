------------------------------ MODULE MCParts ------------------------------
(***************************************************************************)
(* TLC instance of the components that share no state with each other: the *)
(* logs, the vault, the effect journal, the monitoring tap, the parsers of *)
(* a model's answer and the knowledge base.  A behaviour is one of theirs: *)
(* part says whose, and the others stay as they begin.                     *)
(***************************************************************************)
EXTENDS WalLog, VaultStore, EffectSaga, MonitorTap, StreamCuts, MCStream,
        MCKnowledge

CONSTANTS p1, p2, a1, a2, a3, a4, k1, k2

VARIABLE part

\* Two calls of the vault publish on one key, a third on the other, a fourth
\* selects.  The third belongs to the second process where there is one.
MCHome == [a \in Actors |-> IF a = a3 /\ p2 \in Processes THEN p2 ELSE p1]
MCKeyOf == [a \in Actors |-> IF a = a3 THEN k2 ELSE k1]

\* Two proposals that share an idempotency key, and one that can be undone.
Irreversibly(payload, key) ==
  [class |-> "Irreversible", action |-> "publish", payload |-> payload, key |-> key, undo |-> FALSE]

SomeProposals ==
  {Irreversibly("v1", "k1"), Irreversibly("v2", "k1"),
   [Irreversibly("v1", "k2") EXCEPT !.class = "Compensable", !.undo = TRUE]}

\* Nothing tells callers, deciders or checkpoints apart.
EffectSymmetry == Permutations(Callers) \cup Permutations(Deciders) \cup Permutations(Checkpoints)

\* Emissions of the log and of the loop.
SomeEmissions == <<3, 1>>

\* What an event of a response carries, and what a text is put together from:
\* markers of both spellings, parts of markers, and a call.
SomePayloads == {<<>>, <<"x">>, <<"W">>, <<"x", "W">>}
SomeSegments ==
  {<<"a">>, <<"<">>, <<"<", "|">>, OpenMark, <<"<", "!", "t">>, CloseMark, CallOpen \o <<"a">> \o CallClose}

\* How a component that is not looked at begins: as one of its first states.
NoCuts == sse = NoResponse /\ dsml = [NewText(<<>>) EXCEPT !.open = FALSE]
NoAnswer ==
  /\ answer = [client |-> "openai", style |-> "apart", delta |-> TRUE, reasoning |-> FALSE,
               text |-> FALSE, calls |-> <<>>, ends |-> "stop"]
  /\ sent = NothingSent(<<>>) /\ cut = FALSE /\ client = NewClient

PartsInit ==
  /\ part \in {"wal", "vault", "effects", "monitor", "cuts", "stream", "facts", "index"}
  /\ WalInit /\ VaultInit /\ EffectInit /\ TapInit
  /\ PromotionInit /\ IndexInit
  /\ IF part = "cuts" THEN CutsInit ELSE NoCuts
  /\ IF part = "stream" THEN StreamInit ELSE NoAnswer

Others(p) ==
  /\ part = p /\ UNCHANGED part
  /\ p # "wal"     => UNCHANGED walVars
  /\ p # "vault"   => UNCHANGED vars
  /\ p # "effects" => UNCHANGED effectVars
  /\ p # "monitor" => UNCHANGED tapVars
  /\ p # "cuts"    => UNCHANGED cutVars
  /\ p # "stream"  => UNCHANGED streamVars
  /\ p # "facts"   => UNCHANGED promotionVars
  /\ p # "index"   => UNCHANGED indexVars

PartsNext ==
  \/ part = "wal" /\ WalNext /\ Others("wal")
  \/ part = "vault" /\ VaultNext /\ Others("vault")
  \/ part = "effects" /\ EffectNext /\ Others("effects")
  \/ part = "monitor" /\ TapNext /\ Others("monitor")
  \/ part = "cuts" /\ CutsNext /\ Others("cuts")
  \/ part = "stream" /\ StreamNext /\ Others("stream")
  \/ part = "facts" /\ PromotionNext /\ Others("facts")
  \/ part = "index" /\ IndexNext /\ Others("index")

allVars ==
  <<walVars, vars, effectVars, tapVars, cutVars, streamVars, promotionVars, indexVars, part>>

PartsSpec == PartsInit /\ [][PartsNext]_allVars
=============================================================================
