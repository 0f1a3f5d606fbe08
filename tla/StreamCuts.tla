----------------------------- MODULE StreamCuts -----------------------------
(***************************************************************************)
(* Two parsers of a model's answer that see it cut anywhere: sse.rs makes  *)
(* events of the chunks the network delivers, and the filter of dsml.rs    *)
(* takes tool calls the model wrote as text out of the pieces of that text *)
(* (ModelStream has what happens between them).                            *)
(*                                                                         *)
(* Characters and markers are a few symbols.  A wide character is two      *)
(* bytes, and a line of data begins with "d".                              *)
(***************************************************************************)
EXTENDS Integers, Sequences, SequencesExt

CONSTANTS
  EventData,     \* what an event may carry, as characters; <<>> is a heartbeat
  MaxEvents,    \* events of a response
  Segments,     \* pieces a text is put together from
  MaxSegments,  \* how many of them
  CutWide       \* whether the network may cut a wide character

VARIABLES
  sse,      \* [meant, rest, buf, frames, open]
  dsml      \* [text, rest, buf, capture, capturing, out, open]

cutVars == <<sse, dsml>>

\* Where needle begins in s for the first time; 0 if nowhere.
FirstAt(s, needle) ==
  LET at == {i \in 1..(Len(s) - Len(needle) + 1) : SubSeq(s, i, i + Len(needle) - 1) = needle}
  IN  IF at = {} THEN 0 ELSE Min(at)

Rest(s, i) == SubSeq(s, i, Len(s))

(***************************************************************************)
(* Server-sent events                                                      *)
(***************************************************************************)
Bytes(chars) == FlattenSeq([i \in DOMAIN chars |-> IF chars[i] = "W" THEN <<"w1", "w2">> ELSE <<chars[i]>>])

Encoded(payload, eol) == (IF payload = <<>> THEN <<":">> ELSE <<"d">> \o Bytes(payload)) \o eol \o eol

\* from_utf8_lossy: half of a character becomes a replacement.
Decoded(bytes) ==
  LET char(i) == CASE bytes[i] = "w1" -> IF i < Len(bytes) /\ bytes[i + 1] = "w2" THEN <<"W">> ELSE <<"?">>
                   [] bytes[i] = "w2" -> IF i > 1 /\ bytes[i - 1] = "w1" THEN <<>> ELSE <<"?">>
                   [] OTHER -> <<bytes[i]>>
  IN  FlattenSeq([i \in DOMAIN bytes |-> char(i)])

OneLineEnd(s) ==
  FlattenSeq([i \in DOMAIN s |-> IF s[i] = "r" /\ i < Len(s) /\ s[i + 1] = "n" THEN <<>> ELSE <<s[i]>>])

\* The payload of an event; <<>> when it has no line of data.
DataOf(raw) ==
  IF raw # <<>> /\ Head(raw) = "d" THEN SelectSeq(Tail(raw), LAMBDA c : c \notin {"n", "r"}) ELSE <<>>

\* drain_events: the events that are whole, and what is left.
RECURSIVE Drained(_, _)
Drained(buf, frames) ==
  LET end == FirstAt(buf, <<"n", "n">>)
  IN  IF end = 0 THEN [buf |-> buf, frames |-> frames]
      ELSE Drained(Rest(buf, end + 2), Append(frames, DataOf(SubSeq(buf, 1, end + 1))))

\* Mutant: each chunk is normalised for itself.
JoinedPlainly(buf, bytes) == buf

\* A line end that is cut between its two characters is whole again when the
\* second one comes.
Joined(buf, bytes) ==
  CASE buf # <<>> /\ Last(buf) = "r" /\ Head(bytes) = "n" -> Front(buf)
    [] buf # <<>> /\ Last(buf) = "r" /\ Head(bytes) # "n" -> Append(buf, "n")
    [] OTHER -> buf

PushChunk(buf, frames, bytes) == Drained(Joined(buf, bytes) \o OneLineEnd(Decoded(bytes)), frames)

ReceiveChunk ==
  \E k \in 1..Len(sse.rest) :
    LET next == PushChunk(sse.buf, sse.frames, SubSeq(sse.rest, 1, k)) IN
    /\ sse.open
    /\ ~CutWide => sse.rest[k] # "w1"
    /\ sse' = [sse EXCEPT !.rest = Rest(@, k + 1), !.buf = next.buf, !.frames = next.frames]
    /\ UNCHANGED dsml

\* The connection ends, at the end of the response or before: what is left is
\* one more event, if it has data.
CloseConnection ==
  /\ sse.open
  /\ sse' = [sse EXCEPT !.open = FALSE,
               !.frames = IF DataOf(sse.buf) = <<>> THEN @ ELSE Append(@, DataOf(sse.buf))]
  /\ UNCHANGED dsml

(***************************************************************************)
(* Tool calls in the text                                                  *)
(***************************************************************************)
OpenMark == <<"<", "|", "t">>
CloseMark == <<"<", "/", "t">>
CallOpen == <<"<", "|", "i">>
CallClose == <<"<", "/", "i">>

\* The other spelling of a marker, and what it is replaced with.
Normalised(s) ==
  [i \in DOMAIN s |-> IF s[i] = "!" /\ i > 1 /\ s[i - 1] = "<" THEN "|" ELSE s[i]]

\* Mutant: only the longest beginning of a marker is held back.
HeldWhole(s) ==
  LET n == Len(OpenMark) - 1 IN IF Len(s) >= n /\ Rest(s, Len(s) - n + 1) = SubSeq(OpenMark, 1, n) THEN n ELSE 0

\* hold_open_suffix: how much of the end of s may be the beginning of a marker.
HeldBack(s) ==
  LET may(n) == \E mark \in {OpenMark, <<"<", "!", "t">>} : n < Len(mark) /\ IsPrefix(Rest(s, Len(s) - n + 1), mark)
  IN  Max({0} \cup {n \in 1..Len(s) : may(n)})

AsText(s) == IF s = <<>> THEN <<>> ELSE [i \in DOMAIN s |-> [text |-> s[i]]]

\* drain_invokes: the calls that are closed, and what is left of the capture.
RECURSIVE Invoked(_, _)
Invoked(cap, out) ==
  LET start == FirstAt(cap, CallOpen)
      end == IF start = 0 THEN 0 ELSE FirstAt(Rest(cap, start), CallClose)
  IN  IF end = 0 THEN [cap |-> cap, out |-> out]
      ELSE LET close == start + end - 1 IN
           Invoked(Rest(cap, close + Len(CallClose)),
                   Append(out, [call |-> SubSeq(cap, start + Len(CallOpen), close - 1)]))

\* DsmlFilter::push, one turn of its loop at a time.
RECURSIVE Pushed(_, _)
Pushed(f, pending) ==
  IF f.capturing
  THEN LET drained == Invoked(Normalised(f.capture \o pending), f.out)
           close == FirstAt(drained.cap, CloseMark)
       IN  IF close = 0 THEN [f EXCEPT !.capture = drained.cap, !.out = drained.out]
           ELSE Pushed([f EXCEPT !.capturing = FALSE, !.capture = <<>>, !.out = drained.out],
                       Rest(drained.cap, close + Len(CloseMark)))
  ELSE LET s == Normalised(f.buf \o pending)
           open == FirstAt(s, OpenMark)
           keep == Len(s) - HeldBack(s)
       IN  IF open # 0
           THEN Pushed([f EXCEPT !.buf = <<>>, !.capturing = TRUE, !.out = @ \o AsText(SubSeq(s, 1, open - 1))],
                       Rest(s, open + Len(OpenMark)))
           ELSE [f EXCEPT !.buf = Rest(s, keep + 1), !.out = @ \o AsText(SubSeq(s, 1, keep))]

\* DsmlFilter::finish: what was held back is no text (strip_dsml), and what was
\* captured and is no whole call is dropped.
Finished(f) ==
  [f EXCEPT !.open = FALSE, !.capturing = FALSE, !.capture = <<>>, !.buf = <<>>,
            !.out = IF f.capturing THEN Invoked(f.capture, f.out).out ELSE @]

PushText ==
  \E k \in 1..Len(dsml.rest) :
    /\ dsml.open
    /\ dsml' = [Pushed(dsml, SubSeq(dsml.rest, 1, k)) EXCEPT !.rest = Rest(dsml.rest, k + 1)]
    /\ UNCHANGED sse

FinishText ==
  /\ dsml.open /\ dsml.rest = <<>>
  /\ dsml' = Finished(dsml)
  /\ UNCHANGED sse

(***************************************************************************)
(* Specification                                                           *)
(***************************************************************************)
NewText(text) ==
  [text |-> text, rest |-> text, buf |-> <<>>, capture |-> <<>>, capturing |-> FALSE, out |-> <<>>, open |-> TRUE]

NoResponse == [meant |-> <<>>, rest |-> <<>>, buf |-> <<>>, frames |-> <<>>, open |-> FALSE]

\* One response, or one text, is taken apart at a time.
CutsInit ==
  \/ /\ \E eol \in {<<"n">>, <<"r", "n">>}, n \in 1..MaxEvents : \E events \in [1..n -> EventData] :
          sse = [meant |-> events, rest |-> FlattenSeq([i \in 1..n |-> Encoded(events[i], eol)]),
                 buf |-> <<>>, frames |-> <<>>, open |-> TRUE]
     /\ dsml = [NewText(<<>>) EXCEPT !.open = FALSE]
  \/ /\ \E n \in 1..MaxSegments : \E parts \in [1..n -> Segments] : dsml = NewText(FlattenSeq(parts))
     /\ sse = NoResponse

CutsNext == ReceiveChunk \/ CloseConnection \/ PushText \/ FinishText

CutsSpec == CutsInit /\ [][CutsNext]_cutVars

(***************************************************************************)
(* Properties                                                              *)
(***************************************************************************)
\* The events of a response are the same wherever the network cuts it, line
\* ends included, as long as no wide character is cut (sse.rs:56).  An event
\* that the end of the connection cuts is delivered as far as it came.
FramesAsSent ==
  \A i \in DOMAIN sse.frames :
    /\ i <= Len(sse.meant)
    /\ IF sse.rest = <<>> \/ i < Len(sse.frames) \/ sse.open
       THEN sse.frames[i] = sse.meant[i] ELSE IsPrefix(sse.frames[i], sse.meant[i])

\* A text whose markers come in order: after the end of a block nothing opens,
\* and no call ends.
Orderly(text) ==
  LET s == Normalised(text)
      end == FirstAt(s, CloseMark)
  IN  end = 0 \/ \A mark \in {OpenMark, CallOpen, CallClose} : FirstAt(Rest(s, end + 1), mark) = 0

\* The filter makes the same text and calls of an answer however the provider
\* cut it, if its markers come in order (dsml.rs:14), and nothing it has let
\* through is taken back.
TextAsWritten ==
  LET whole == Finished(Pushed(NewText(dsml.text), dsml.text)).out IN
  Orderly(dsml.text) => IF dsml.open THEN IsPrefix(dsml.out, whole) ELSE dsml.out = whole

CutsDontMatter == FramesAsSent /\ TextAsWritten
=============================================================================
