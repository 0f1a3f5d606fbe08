----------------------------- MODULE ModelStream -----------------------------
(***************************************************************************)
(* A streamed answer of a model on its way to the agent: the frames of the *)
(* server (openai_compat.rs, anthropic.rs), the tool calls that are put    *)
(* together from their fragments, and what is made of an answer that ends  *)
(* early, is cut at its token limit, or has calls that cannot be read.     *)
(*                                                                         *)
(* The arguments of a call are pieces of a JSON text; only all of them are *)
(* readable.  How frames are found in the bytes, and calls in the text, is *)
(* in StreamCuts.                                                          *)
(***************************************************************************)
EXTENDS Integers, Sequences, FiniteSetsExt

CONSTANTS
  Clients,     \* "openai", "anthropic", "json": a complete answer, not streamed
  Styles,      \* how a gateway sends calls: "apart", "braided", "snapshot", "both"
  CallShapes,  \* what a call may look like: [named, pieces, broken]
  MaxCalls     \* of an answer

ASSUME StreamAssumption ==
  /\ Clients \subseteq {"openai", "anthropic", "json"}
  /\ Styles \subseteq {"apart", "braided", "snapshot", "both"}
  /\ CallShapes \subseteq [named : BOOLEAN, pieces : Nat, broken : BOOLEAN]
  /\ MaxCalls \in Nat

VARIABLES
  answer,  \* what the model says: [client, style, delta, reasoning, text, calls, ends]
  sent,    \* the frames sent: [reasoning, text, told, snapshot], told of each call how many
  cut,     \* the model was stopped at its token limit
  client   \* [tools, text, reasoning, finish, usage, out, open]

streamVars == <<answer, sent, cut, client>>

(***************************************************************************)
(* The server                                                              *)
(***************************************************************************)
ReasoningDue == answer.reasoning /\ ~sent.reasoning
TextDue == answer.text /\ ~sent.text
SnapshotDue == answer.style \in {"snapshot", "both"} /\ ~sent.snapshot

\* The calls with fragments to come: a call is its name and then its pieces.
Owed == {i \in DOMAIN answer.calls : answer.style # "snapshot" /\ sent.told[i] <= answer.calls[i].pieces}

\* Call by call, or a fragment of each in turn.
ComesFirst(i, j) ==
  IF answer.style = "braided" /\ sent.told[i] # sent.told[j] THEN sent.told[i] < sent.told[j] ELSE i <= j

Frames ==
  [is : {"reasoning", "text", "snapshot"}] \cup [is : {"name", "piece"}, call : DOMAIN answer.calls]

\* The frame that comes next.
Due(f) ==
  \/ ReasoningDue /\ f = [is |-> "reasoning"]
  \/ ~ReasoningDue /\ TextDue /\ f = [is |-> "text"]
  \/ /\ ~ReasoningDue /\ ~TextDue
     /\ \E i \in Owed : /\ \A j \in Owed : ComesFirst(i, j)
                        /\ f = [is |-> IF sent.told[i] = 0 THEN "name" ELSE "piece", call |-> i]
  \/ ~ReasoningDue /\ ~TextDue /\ Owed = {} /\ SnapshotDue /\ f = [is |-> "snapshot"]

AllSent == ~ReasoningDue /\ ~TextDue /\ Owed = {} /\ ~SnapshotDue

\* What has been sent when f has.
SentWith(f) ==
  CASE f.is = "reasoning" -> [sent EXCEPT !.reasoning = TRUE]
    [] f.is = "text"      -> [sent EXCEPT !.text = TRUE]
    [] f.is = "snapshot"  -> [sent EXCEPT !.snapshot = TRUE]
    [] OTHER              -> [sent EXCEPT !.told[f.call] = @ + 1]

(***************************************************************************)
(* The fragments of a call                                                 *)
(***************************************************************************)
Bare == [named |-> FALSE, pieces |-> 0]
EntryOf(tools, i) == IF i \in DOMAIN tools THEN tools[i] ELSE Bare

WithEntry(tools, i, entry) == [j \in DOMAIN tools \cup {i} |-> IF j = i THEN entry ELSE tools[j]]

\* Mutant: a fragment belongs to the call that came last.
FragmentOfLast(tools, f) ==
  LET i == IF f.is = "piece" THEN Max(DOMAIN tools) ELSE f.call
      old == EntryOf(tools, i)
  IN  WithEntry(tools, i, IF f.is = "name" THEN [old EXCEPT !.named = answer.calls[i].named]
                     ELSE [old EXCEPT !.pieces = @ + 1])

\* collect_one_tool: an increment adds to the entry of its index.
Fragment(tools, f) ==
  LET i == f.call
      old == EntryOf(tools, i)
  IN  WithEntry(tools, i, IF f.is = "name" THEN [old EXCEPT !.named = answer.calls[i].named]
                     ELSE [old EXCEPT !.pieces = @ + 1])

\* Mutant: a snapshot is one more increment.
SnapshotAdded(tools) ==
  [i \in DOMAIN answer.calls |->
     [named |-> EntryOf(tools, i).named \/ answer.calls[i].named,
      pieces |-> EntryOf(tools, i).pieces + answer.calls[i].pieces]]

\* The complete message of the last frame takes the place of what there is.
Snapshot(tools) ==
  [i \in DOMAIN answer.calls |->
     [named |-> EntryOf(tools, i).named \/ answer.calls[i].named,
      pieces |-> IF answer.calls[i].pieces > 0 THEN answer.calls[i].pieces ELSE EntryOf(tools, i).pieces]]

SayItem(c, item) == [c EXCEPT !.out = Append(@, item)]

\* One frame.  The client of Anthropic does not show what the model thinks; a
\* frame without a delta is left before its message is looked at.
Taken(c, f) ==
  CASE f.is = "reasoning" /\ answer.client = "anthropic" -> c
    [] f.is = "reasoning" /\ answer.client # "anthropic" -> [SayItem(c, [is |-> "reasoning"]) EXCEPT !.reasoning = TRUE]
    [] f.is = "text"      -> [SayItem(c, [is |-> "text"]) EXCEPT !.text = TRUE]
    [] f.is = "snapshot"  -> IF answer.delta THEN [c EXCEPT !.tools = Snapshot(@)] ELSE c
    [] OTHER              -> [c EXCEPT !.tools = Fragment(@, f)]

(***************************************************************************)
(* The end of an answer                                                    *)
(***************************************************************************)
\* parse_tool_arguments: no arguments at all are an empty object.
Readable(tools, i) ==
  tools[i].pieces = 0 \/ (tools[i].pieces = answer.calls[i].pieces /\ ~answer.calls[i].broken)

Unnamed(tools) == {i \in DOMAIN tools : ~tools[i].named}
Unreadable(tools) == {i \in DOMAIN tools : ~Readable(tools, i)}

CallOf(tools, i) == [call |-> i, pieces |-> tools[i].pieces]

\* As the map of the fragments holds them.
InOrder(is) == [n \in 1..Cardinality(is) |-> CHOOSE i \in is : Cardinality({j \in is : j <= i}) = n]

CallsOf(tools, is) == [n \in 1..Cardinality(is) |-> CallOf(tools, InOrder(is)[n])]

CallsChunk(calls) == IF calls = <<>> THEN <<>> ELSE <<[is |-> "calls", calls |-> calls]>>
EmptyChunk(reason) == <<[is |-> "empty", reason |-> reason]>>
FailedChunk == <<[is |-> "error"]>>
RefusedChunk == <<[is |-> "refused"]>>
UsageChunk(c) == IF c.usage THEN <<[is |-> "usage"]>> ELSE <<>>

\* Mutant: the calls that can be read are issued without the others.
OpenAiEndPartly(c) ==
  LET good == (DOMAIN c.tools \ Unnamed(c.tools)) \ Unreadable(c.tools)
  IN  UsageChunk(c) \o IF DOMAIN c.tools # {} THEN CallsChunk(CallsOf(c.tools, good)) ELSE EmptyChunk("unknown")

\* Mutant: thinking counts as an answer.
OpenAiEndThoughtful(c) ==
  LET bad == Unnamed(c.tools) \cup Unreadable(c.tools)
      first == Min(bad)
  IN  IF bad # {}
      THEN IF c.finish = "length" THEN UsageChunk(c) \o EmptyChunk("length")
           ELSE IF first \notin Unnamed(c.tools) THEN UsageChunk(c) \o EmptyChunk("arguments")
           ELSE RefusedChunk
      ELSE UsageChunk(c) \o CallsChunk(CallsOf(c.tools, DOMAIN c.tools))
           \o IF DOMAIN c.tools # {} \/ c.text \/ c.reasoning THEN <<>>
              ELSE IF c.finish = "tool_calls" THEN RefusedChunk
              ELSE EmptyChunk(IF c.finish # "none" THEN c.finish ELSE "unknown")

\* The first call that cannot be made decides for all of them.
OpenAiEnd(c) ==
  LET bad == Unnamed(c.tools) \cup Unreadable(c.tools)
      first == Min(bad)
  IN  IF bad # {}
      THEN IF c.finish = "length" THEN UsageChunk(c) \o EmptyChunk("length")
           ELSE IF first \notin Unnamed(c.tools) THEN UsageChunk(c) \o EmptyChunk("arguments")
           ELSE RefusedChunk
      ELSE UsageChunk(c) \o CallsChunk(CallsOf(c.tools, DOMAIN c.tools))
           \o IF DOMAIN c.tools # {} \/ c.text THEN <<>>
              ELSE IF c.finish = "tool_calls" THEN RefusedChunk
              ELSE EmptyChunk(IF c.finish # "none" THEN c.finish
                         ELSE IF c.reasoning THEN "reasoning_only" ELSE "unknown")

\* Arguments that cannot be read become an empty object.
AnthropicEnd(c) ==
  LET named == DOMAIN c.tools \ Unnamed(c.tools)
      call(i) == IF Readable(c.tools, i) THEN CallOf(c.tools, i) ELSE [call |-> i, pieces |-> 0]
      calls == [n \in 1..Cardinality(named) |-> call(InOrder(named)[n])]
  IN  CallsChunk(calls) \o IF calls = <<>> /\ ~c.text THEN EmptyChunk("unknown") ELSE <<>>

\* complete_response_chunks: calls without a name are passed over, and one that
\* cannot be read clears the others.
JsonEnd(c) ==
  LET named == DOMAIN c.tools \ Unnamed(c.tools)
      bad == named \cap Unreadable(c.tools)
      said == IF bad # {} THEN EmptyChunk(IF c.finish = "length" THEN "length" ELSE "arguments")
              ELSE CallsChunk(CallsOf(c.tools, named))
      silent == said = <<>> /\ c.out = <<>>
  IN  said \o (IF silent THEN EmptyChunk(IF c.finish = "none" THEN "unknown" ELSE c.finish) ELSE <<>>)
           \o UsageChunk(c)

Closed(c, items) == [c EXCEPT !.out = @ \o items, !.open = FALSE]

EndOf(c) ==
  Closed(c, CASE answer.client = "openai" -> OpenAiEnd(c)
            [] answer.client = "anthropic" -> AnthropicEnd(c)
            [] answer.client = "json" -> JsonEnd(c))

(***************************************************************************)
(* Steps                                                                   *)
(***************************************************************************)
NewClient == [tools |-> <<>>, text |-> FALSE, reasoning |-> FALSE, finish |-> "none", usage |-> FALSE,
              out |-> <<>>, open |-> TRUE]

NothingSent(calls) ==
  [reasoning |-> FALSE, text |-> FALSE, told |-> [i \in DOMAIN calls |-> 0], snapshot |-> FALSE]

StreamInit ==
  /\ \E n \in 0..MaxCalls : \E calls \in [1..n -> CallShapes] :
       answer \in [client : Clients, style : Styles, delta : BOOLEAN,
                   reasoning : BOOLEAN, text : BOOLEAN, calls : {calls},
                   ends : {"none", "stop", "tool_calls"}]
  /\ answer.client = "anthropic" => answer.style \in {"apart", "braided"}
  /\ answer.client = "json" => answer.style = "apart"
  /\ answer.style \in {"apart", "braided"} => answer.delta
  /\ sent = NothingSent(answer.calls) /\ cut = FALSE /\ client = NewClient

Streaming == client.open /\ ~cut /\ ~AllSent

\* A frame with content; heartbeats and frames that are no JSON change nothing.
TakeFrame ==
  /\ Streaming
  /\ \E f \in Frames : Due(f) /\ sent' = SentWith(f) /\ client' = Taken(client, f)
  /\ UNCHANGED <<answer, cut>>

\* The limit of tokens is reached in the middle of the answer.
CutAtLimit ==
  /\ Streaming
  /\ cut' = TRUE
  /\ UNCHANGED <<answer, sent, client>>

\* The model has no more to say: the frame of its finish_reason.
SayWhy ==
  /\ client.open /\ (cut \/ AllSent) /\ client.finish = "none"
  /\ LET why == IF cut THEN "length" ELSE answer.ends IN
       /\ why # "none" /\ answer.client # "anthropic"
       /\ client' = [client EXCEPT !.finish = why]
  /\ UNCHANGED <<answer, sent, cut>>

\* The frame of the tokens used, in the end.
SayUsage ==
  /\ client.open /\ (cut \/ AllSent) /\ ~client.usage
  /\ answer.client # "anthropic"
  /\ client' = [client EXCEPT !.usage = TRUE]
  /\ UNCHANGED <<answer, sent, cut>>

\* [DONE], message_stop or the end of the connection, wherever it is; a complete
\* answer is read as a whole or not at all.
EndOfStream ==
  /\ client.open
  /\ answer.client = "json" => AllSent \/ (cut /\ client.finish = "length")
  /\ client' = EndOf(client)
  /\ UNCHANGED <<answer, sent, cut>>

\* An error of the server or of the connection, or a silence that is too long;
\* of a complete answer nothing has been shown by then.
StreamFails ==
  /\ client.open
  /\ client' = IF answer.client = "json" THEN [NewClient EXCEPT !.out = FailedChunk, !.open = FALSE]
               ELSE Closed(client, FailedChunk)
  /\ UNCHANGED <<answer, sent, cut>>

StreamNext == TakeFrame \/ CutAtLimit \/ SayWhy \/ SayUsage \/ EndOfStream \/ StreamFails

StreamSpec == StreamInit /\ [][StreamNext]_streamVars

(***************************************************************************)
(* Properties                                                              *)
(***************************************************************************)
SaidAs(kind) == {n \in DOMAIN client.out : client.out[n].is = kind}

\* The calls of the chunk that has them.
Issued == IF SaidAs("calls") = {} THEN <<>> ELSE client.out[CHOOSE n \in SaidAs("calls") : TRUE].calls

Meant(i) == [call |-> i, pieces |-> answer.calls[i].pieces]
Makeable(i) == answer.calls[i].named /\ (~answer.calls[i].broken \/ answer.calls[i].pieces = 0)

\* A call is issued once, in its place, and with all of its arguments or none:
\* never with a part of them or with some of them twice (openai_compat.rs:296).
NoFragments ==
  /\ \A m, n \in SaidAs("calls") : m = n
  /\ \A n \in DOMAIN Issued : Issued[n].pieces \in {0, answer.calls[Issued[n].call].pieces}
  /\ \A m, n \in DOMAIN Issued : m < n => Issued[m].call < Issued[n].call

\* One bad call is the end of the batch: an OpenAI client that has issued a call
\* has issued every call it had been sent.
AllOrNothing ==
  answer.client = "openai" /\ Issued # <<>> => {Issued[n].call : n \in DOMAIN Issued} = DOMAIN client.tools

\* The server sent everything, and there is nothing wrong with it.
CameWhole ==
  ~client.open /\ SaidAs("error") = {} /\ AllSent /\ ~cut /\ \A i \in DOMAIN answer.calls : Makeable(i)

\* An answer that came whole and can be used is issued whole; a message at the
\* end of the stream has to come with a delta for that.
WholeAnswer ==
  CameWhole /\ (answer.style = "snapshot" => answer.delta) =>
    /\ SaidAs("refused") = {} \/ (answer.calls = <<>> /\ ~answer.text)
    /\ Issued = [i \in DOMAIN answer.calls |-> Meant(i)]
    /\ answer.text <=> SaidAs("text") # {}
    /\ SaidAs("empty") # {} => ~answer.text /\ answer.calls = <<>>

\* A stream never ends without a word: text, calls, an error or the statement
\* that there was nothing; thinking is none of them.
NeverSilent ==
  ~client.open /\ answer.client # "json" =>
    \E n \in DOMAIN client.out : client.out[n].is # "reasoning" /\ client.out[n].is # "usage"

StreamSafety == NoFragments /\ AllOrNothing /\ WholeAnswer /\ NeverSilent

\* openai_compat.rs:352, and the test at 1012: the calls of a complete message at
\* the end of a stream are collected.
FinalMessageIsRead == CameWhole => Issued = [i \in DOMAIN answer.calls |-> Meant(i)]

\* openai_compat.rs:295: what the limit of tokens has left of a call is never
\* issued as a call.
LimitIssuesNoRemnant ==
  answer.client = "openai" /\ client.finish = "length" =>
    \A n \in DOMAIN Issued : Issued[n] = Meant(Issued[n].call)
=============================================================================
