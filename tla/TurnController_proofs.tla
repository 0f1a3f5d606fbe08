------------------------ MODULE TurnController_proofs ------------------------
(***************************************************************************)
(* Proofs about the session controller: for every number of sessions and   *)
(* inputs, the log of a session is made of whole turns, in the order of    *)
(* their submission, each delivered at most once; and a request to stop    *)
(* only ever reaches the turn under way.                                   *)
(*                                                                         *)
(* The argument: a session has at most one consumer that is not done, and  *)
(* what that consumer does next says how the log of its session ends.      *)
(***************************************************************************)
EXTENDS TurnController, SequenceTheorems, TLAPS

USE ControllerAssumption

Events == [kind : {"start", "delivery", "end"}, item : Items]

Idle == {"none", "done"}
Holding == {"starting", "working", "delivered", "closing", "clear"}
Busy == Holding \cup {"store"}
InTurn == {"working", "delivered", "closing"}

-----------------------------------------------------------------------------
(* The shape of a log. *)

\* What may follow what: only a council's turn ends without a delivery.
Follows(e, f) ==
  \/ e.kind = "end" /\ f.kind = "start" /\ e.item < f.item
  \/ e.kind = "start" /\ f.kind = "delivery" /\ e.item = f.item
  \/ e.kind = "delivery" /\ f.kind = "end" /\ e.item = f.item
  \/ e.kind = "start" /\ f.kind = "end" /\ e.item = f.item /\ e.item \in Councils

WellFormed(L) ==
  /\ L # <<>> => L[1].kind = "start"
  /\ \A n \in 1 .. Len(L) - 1 : Follows(L[n], L[n + 1])
  /\ \A m, n \in 1 .. Len(L) : m < n => L[m].item <= L[n].item

AtRest(L) == L # <<>> => L[Len(L)].kind = "end"

\* The turn of i begins after the first k events of L, all of earlier inputs.
Begins(L, k, i) == AtRest(L) /\ Len(L) = k /\ \A n \in 1 .. Len(L) : L[n].item < i
Started(L, k, i) == Len(L) = k + 1 /\ L[k + 1] = Event("start", i)
Delivered(L, k, i) ==
  Len(L) = k + 2 /\ L[k + 1] = Event("start", i) /\ L[k + 2] = Event("delivery", i)
Ended(L, k, i) ==
  /\ Len(L) > k /\ L[Len(L)] = Event("end", i)

-----------------------------------------------------------------------------
(* The invariant. *)

SubmittedInOrder == \A i \in submitted, j \in Items : j < i => j \in submitted

OneConsumer ==
  /\ \A c \in Items : pc[c] # "none" => c \in submitted
  /\ \A c \in Items : pc[c] \notin Idle => owner[c] \in running
  /\ \A c, d \in Items : pc[c] \notin Idle /\ pc[d] \notin Idle /\ owner[c] = owner[d] => c = d

\* A queue holds its session's inputs in order, none of which has had its turn.
Queued ==
  \A s \in Sessions :
    /\ \A n \in 1 .. Len(pending[s]) : owner[pending[s][n]] = s
    /\ \A m, n \in 1 .. Len(pending[s]) : m < n => pending[s][m] < pending[s][n]
    /\ \A m \in 1 .. Len(log[s]), n \in 1 .. Len(pending[s]) : log[s][m].item < pending[s][n]

Logs == \A s \in Sessions :
  WellFormed(log[s]) /\ \A n \in 1 .. Len(log[s]) : log[s][n].item \in submitted

\* The input at work is of its consumer's session, and before all that wait.
AtWork ==
  \A c \in Items : pc[c] \in Busy =>
    /\ item[c] \in submitted /\ owner[item[c]] = owner[c]
    /\ \A n \in 1 .. Len(pending[owner[c]]) : item[c] < pending[owner[c]][n]

\* How the log ends while a consumer is in each place.
Place(c) ==
  LET L == log[owner[c]] k == cursor[c] i == item[c] IN
  /\ pc[c] = "store" => \A n \in 1 .. Len(L) : L[n].item < i
  /\ pc[c] = "starting" => Begins(L, k, i)
  /\ pc[c] = "working" => Started(L, k, i)
  /\ pc[c] = "delivered" => Delivered(L, k, i)
  /\ pc[c] = "closing" => Begins(L, k, i) \/ Started(L, k, i) \/ Delivered(L, k, i) \/ Ended(L, k, i)

Places == \A c \in Items : Place(c)

\* A log that no turn is writing to ends with the end of one.
Resting ==
  \A s \in Sessions : (\A c \in Items : pc[c] \in InTurn => owner[c] # s) => AtRest(log[s])

\* A token is that of the turn under way.
Tokens ==
  \A s \in Sessions : token[s] # NoItem =>
    \E c \in Items : owner[c] = s /\ item[c] = token[s] /\ pc[c] \in Holding

ControllerInv ==
  /\ ControllerTypeOK /\ SubmittedInOrder /\ OneConsumer /\ Queued /\ Logs
  /\ AtWork /\ Places /\ Resting /\ Tokens

-----------------------------------------------------------------------------
(* Logs that grow. *)

LEMMA EventIn == \A k \in {"start", "delivery", "end"}, i \in Items : Event(k, i) \in Events
BY DEF Event, Events

LEMMA ItemsOf ==
  ASSUME NEW L \in Seq(Events)
  PROVE  \A n \in 1 .. Len(L) : L[n] \in Events /\ L[n].item \in Items /\ L[n].item \in Nat
<1>1. \A n \in 1 .. Len(L) : L[n] \in Events
  OBVIOUS
<1> QED BY <1>1 DEF Events

LEMMA AppendWellFormed ==
  ASSUME NEW L \in Seq(Events), WellFormed(L), NEW e \in Events,
         IF L = <<>> THEN e.kind = "start" ELSE Follows(L[Len(L)], e)
  PROVE  /\ Append(L, e) \in Seq(Events) /\ Len(Append(L, e)) = Len(L) + 1
         /\ Append(L, e)[Len(L) + 1] = e
         /\ \A n \in 1 .. Len(L) : Append(L, e)[n] = L[n]
         /\ WellFormed(Append(L, e))
<1> DEFINE M == Append(L, e)
<1>1. /\ M \in Seq(Events) /\ Len(M) = Len(L) + 1 /\ M[Len(L) + 1] = e
      /\ \A n \in 1 .. Len(L) : M[n] = L[n]
  OBVIOUS
<1>2. \A n \in 1 .. Len(L) : L[n].item \in Nat
  BY ItemsOf
<1>3. e.item \in Nat
  BY DEF Events
<1> HIDE DEF M
<1>4. L # <<>> => Len(L) \in 1 .. Len(L) /\ L[Len(L)].item <= e.item
  BY <1>2, <1>3 DEF Follows
<1>5. M # <<>> => M[1].kind = "start"
  BY <1>1 DEF WellFormed
<1>6. \A n \in 1 .. Len(M) - 1 : Follows(M[n], M[n + 1])
  BY <1>1 DEF WellFormed
<1>7. \A m, n \in 1 .. Len(M) : m < n => M[m].item <= M[n].item
  <2> SUFFICES ASSUME NEW m \in 1 .. Len(M), NEW n \in 1 .. Len(M), m < n
               PROVE  M[m].item <= M[n].item
    OBVIOUS
  <2>1. CASE n \in 1 .. Len(L)
    BY <1>1, <2>1 DEF WellFormed
  <2>2. CASE n = Len(L) + 1
    <3>1. m \in 1 .. Len(L) /\ L # <<>>
      BY <1>1, <2>2
    <3>2. L[m].item <= L[Len(L)].item
      BY <3>1, <1>2 DEF WellFormed
    <3> QED BY <3>1, <3>2, <1>1, <1>2, <1>3, <1>4, <2>2
  <2> QED BY <1>1, <2>1, <2>2
<1> QED BY <1>1, <1>5, <1>6, <1>7 DEF WellFormed, M

\* The event by which a turn begins, goes on, or ends.
LEMMA StartAfter ==
  ASSUME NEW L \in Seq(Events), WellFormed(L), NEW k \in Nat, NEW i \in Items, Begins(L, k, i)
  PROVE  LET M == Append(L, Event("start", i)) IN
         M \in Seq(Events) /\ WellFormed(M) /\ Started(M, k, i)
<1>1. Event("start", i) \in Events
  BY EventIn
<1>2. L # <<>> => Follows(L[Len(L)], Event("start", i))
  BY DEF Begins, AtRest, Follows, Event
<1>3. Event("start", i).kind = "start"
  BY DEF Event
<1> QED BY <1>1, <1>2, <1>3, AppendWellFormed DEF Begins, Started

LEMMA DeliveryAfter ==
  ASSUME NEW L \in Seq(Events), WellFormed(L), NEW k \in Nat, NEW i \in Items, Started(L, k, i)
  PROVE  LET M == Append(L, Event("delivery", i)) IN
         M \in Seq(Events) /\ WellFormed(M) /\ Delivered(M, k, i)
<1>1. Event("delivery", i) \in Events
  BY EventIn
<1>2. L # <<>> /\ Follows(L[Len(L)], Event("delivery", i))
  BY DEF Started, Follows, Event
<1> QED BY <1>1, <1>2, AppendWellFormed DEF Started, Delivered

LEMMA EndAfter ==
  ASSUME NEW L \in Seq(Events), WellFormed(L), NEW k \in Nat, NEW i \in Items,
         Delivered(L, k, i) \/ (Started(L, k, i) /\ i \in Councils)
  PROVE  LET M == Append(L, Event("end", i)) IN
         M \in Seq(Events) /\ WellFormed(M) /\ Ended(M, k, i)
<1>1. Event("end", i) \in Events
  BY EventIn
<1>2. L # <<>> /\ Follows(L[Len(L)], Event("end", i)) /\ Len(L) > k
  BY DEF Started, Delivered, Follows, Event
<1> QED BY <1>1, <1>2, AppendWellFormed DEF Ended

\* No event of a log is of a later input than the turn at its end.
LEMMA NothingLater ==
  ASSUME NEW L \in Seq(Events), WellFormed(L), NEW k \in Nat, NEW i \in Items,
         Begins(L, k, i) \/ Started(L, k, i) \/ Delivered(L, k, i) \/ Ended(L, k, i),
         NEW n \in 1 .. Len(L)
  PROVE  L[n].item <= i
<1>1. \A m \in 1 .. Len(L) : L[m].item \in Nat
  BY ItemsOf
<1>2. CASE Begins(L, k, i)
  BY <1>1, <1>2 DEF Begins
<1>3. CASE ~ Begins(L, k, i)
  <2>1. L[Len(L)].item = i
    BY <1>3 DEF Started, Delivered, Ended, Event
  <2>2. n = Len(L) \/ (n < Len(L) /\ Len(L) \in 1 .. Len(L))
    OBVIOUS
  <2> QED BY <1>1, <2>1, <2>2 DEF WellFormed
<1> QED BY <1>2, <1>3

-----------------------------------------------------------------------------
(* What the shape of the logs says. *)

LEMMA ShapeIsSafe == ControllerInv => ControllerSafety
<1> SUFFICES ASSUME ControllerInv PROVE ControllerSafety
  OBVIOUS
<1>1. ASSUME NEW s \in Sessions
      PROVE  /\ log[s] \in Seq(Events) /\ WellFormed(log[s])
             /\ \A n \in 1 .. Len(log[s]) : log[s][n].item \in Nat
  <2>1. log[s] \in Seq(Events)
    BY DEF ControllerInv, ControllerTypeOK, Events
  <2> QED BY <2>1, ItemsOf DEF ControllerInv, Logs
<1>2. TurnsNeverMix
  <2> SUFFICES ASSUME NEW s \in Sessions, NEW n \in 1 .. Len(log[s]) - 1
               PROVE  IF log[s][n].kind = "end"
                      THEN log[s][n + 1].kind = "start" /\ log[s][n + 1].item # log[s][n].item
                      ELSE log[s][n + 1].item = log[s][n].item /\ log[s][n + 1].kind # "start"
    BY DEF TurnsNeverMix
  <2>1. Follows(log[s][n], log[s][n + 1])
    BY <1>1 DEF WellFormed
  <2>2. log[s][n].item \in Nat
    BY <1>1
  <2> QED BY <2>1, <2>2 DEF Follows
<1>3. SubmissionOrder
  <2> SUFFICES ASSUME NEW s \in Sessions, NEW m \in DOMAIN log[s], NEW n \in DOMAIN log[s], m < n
               PROVE  log[s][m].item <= log[s][n].item
    BY DEF SubmissionOrder
  <2>1. m \in 1 .. Len(log[s]) /\ n \in 1 .. Len(log[s])
    BY <1>1
  <2> QED BY <1>1, <2>1 DEF WellFormed
<1>4. ASSUME NEW s \in Sessions, NEW m \in 1 .. Len(log[s]), NEW n \in 1 .. Len(log[s]), m < n,
             log[s][m].kind = "delivery", log[s][n] = log[s][m]
      PROVE  FALSE
  <2> DEFINE L == log[s]
  <2>1. \A j \in 1 .. Len(L) : L[j].item \in Nat
    BY <1>1
  <2>2. /\ \A j \in 1 .. Len(L) - 1 : Follows(L[j], L[j + 1])
        /\ \A j, k \in 1 .. Len(L) : j < k => L[j].item <= L[k].item
    BY <1>1 DEF WellFormed
  <2>3. Len(L) \in Nat
    BY <1>1
  <2>7. L[m].kind = "delivery" /\ L[n] = L[m]
    BY <1>4
  <2> HIDE DEF L
  <2>4. m + 1 \in 1 .. Len(L) /\ L[m + 1].kind = "end" /\ L[m + 1].item = L[m].item
    BY <1>4, <2>2, <2>3, <2>7 DEF Follows, L
  <2>5. m + 1 < n
    BY <1>4, <2>4, <2>7, <2>3 DEF L
  <2>6. m + 2 \in 1 .. Len(L) /\ L[m + 1].item < L[m + 2].item
    <3>1. m + 1 \in 1 .. Len(L) - 1 /\ (m + 1) + 1 = m + 2
      BY <1>4, <2>4, <2>5, <2>3 DEF L
    <3> QED BY <3>1, <2>4, <2>2 DEF Follows
  <2>8. L[m + 2].item <= L[n].item
    <3>1. m + 2 = n \/ m + 2 < n
      BY <2>5, <2>3, <1>4
    <3> QED BY <3>1, <2>6, <2>2, <2>1, <1>4 DEF L
  <2> QED BY <2>1, <2>4, <2>6, <2>7, <2>8, <1>4 DEF L
<1>5. AtMostOneDelivery
  <2> SUFFICES ASSUME NEW s \in Sessions, NEW m \in DOMAIN log[s], NEW n \in DOMAIN log[s],
                      log[s][m].kind = "delivery", log[s][n] = log[s][m]
               PROVE  m = n
    BY DEF AtMostOneDelivery
  <2>1. m \in 1 .. Len(log[s]) /\ n \in 1 .. Len(log[s])
    BY <1>1
  <2>2. ~ (m < n) /\ ~ (n < m)
    BY <1>4, <2>1
  <2> QED BY <2>1, <2>2
<1>6. AgentTurnsDelivered
  <2> SUFFICES ASSUME NEW s \in Sessions, NEW n \in DOMAIN log[s],
                      log[s][n].kind = "end", log[s][n].item \notin Councils
               PROVE  n > 1 /\ log[s][n - 1].kind = "delivery"
    BY DEF AgentTurnsDelivered, EndsDelivered
  <2>1. n \in 1 .. Len(log[s]) /\ log[s] # <<>>
    BY <1>1
  <2>2. n # 1
    BY <1>1, <2>1 DEF WellFormed
  <2>3. n - 1 \in 1 .. Len(log[s]) - 1 /\ (n - 1) + 1 = n
    BY <2>1, <2>2
  <2>4. Follows(log[s][n - 1], log[s][n])
    BY <1>1, <2>3 DEF WellFormed
  <2> QED BY <2>1, <2>2, <2>4 DEF Follows
<1> QED BY <1>2, <1>3, <1>5, <1>6 DEF ControllerSafety, ControllerInv

-----------------------------------------------------------------------------
(* A consumer in its turn that changes the log of its session, and where it  *)
(* is, and nothing else.                                                     *)

LEMMA PendingIn ==
  ASSUME ControllerTypeOK, NEW s \in Sessions, NEW n \in 1 .. Len(pending[s])
  PROVE  pending[s][n] \in submitted \ removed /\ pending[s][n] \in Items /\ pending[s][n] \in Nat
<1>1. pending[s] \in Seq(submitted \ removed) /\ submitted \subseteq Items
  BY DEF ControllerTypeOK
<1>2. pending[s][n] \in submitted \ removed
  BY <1>1
<1> QED BY <1>1, <1>2

WritesLog(c, M, l) ==
  /\ pc[c] \in Holding /\ l \in Holding
  /\ log' = [log EXCEPT ![owner[c]] = M] /\ pc' = [pc EXCEPT ![c] = l]
  /\ UNCHANGED <<shown, queueVars, token, cancelled, item, cursor, boundVars>>

LEMMA WriteKeepsInv ==
  ASSUME ControllerInv, NEW c \in Items, NEW M \in Seq(Events), NEW l, WritesLog(c, M, l),
         WellFormed(M), Place(c)', l \in InTurn \/ AtRest(M),
         \A n \in 1 .. Len(M) : M[n].item \in submitted /\ M[n].item <= item[c]
  PROVE  ControllerInv'
<1> USE DEF Busy, Holding, InTurn, Idle
<1>1. /\ owner[c] \in Sessions /\ item[c] \in Items
      /\ \A s \in Sessions : log'[s] = IF s = owner[c] THEN M ELSE log[s]
      /\ \A d \in Items : pc'[d] = IF d = c THEN l ELSE pc[d]
      /\ pc[c] \in Holding /\ l \in Holding
  <2>1. owner[c] \in Sessions /\ pc[c] \in Holding /\ l \in Holding /\ submitted \subseteq Items
    BY DEF ControllerInv, ControllerTypeOK, WritesLog
  <2>2. item[c] \in Items
    BY <2>1 DEF ControllerInv, AtWork
  <2>3. \A d \in Items : pc'[d] = IF d = c THEN l ELSE pc[d]
    BY DEF ControllerInv, ControllerTypeOK, WritesLog
  <2>4. \A s \in Sessions : log'[s] = IF s = owner[c] THEN M ELSE log[s]
    BY DEF ControllerInv, ControllerTypeOK, WritesLog
  <2> QED BY <2>1, <2>2, <2>3, <2>4
<1>2. UNCHANGED <<shown, submitted, removed, owner, running, pending, token, cancelled, item, cursor, boundVars>>
  BY DEF WritesLog, queueVars
<1>3. \A d \in Items : pc[d] \notin Idle /\ d # c => owner[d] # owner[c]
  BY <1>1 DEF ControllerInv, OneConsumer
<1>4. ControllerTypeOK'
  <2>1. log' \in [Sessions -> Seq([kind : {"start", "delivery", "end"}, item : Items])]
    BY DEF ControllerInv, ControllerTypeOK, Events, WritesLog
  <2>2. pc' \in [Items -> {"none", "pop", "store", "starting", "working", "delivered",
                       "closing", "clear", "done"}]
    BY DEF ControllerInv, ControllerTypeOK, WritesLog
  <2> QED BY <2>1, <2>2, <1>2 DEF ControllerInv, ControllerTypeOK
<1>5. SubmittedInOrder' /\ OneConsumer'
  BY <1>1, <1>2 DEF ControllerInv, SubmittedInOrder, OneConsumer
<1>6. Queued'
  <2> SUFFICES ASSUME NEW s \in Sessions, NEW m \in 1 .. Len(log'[s]), NEW n \in 1 .. Len(pending[s])
               PROVE  log'[s][m].item < pending[s][n]
    BY <1>2 DEF ControllerInv, Queued
  <2>1. CASE s # owner[c]
    BY <1>1, <2>1 DEF ControllerInv, Queued
  <2>2. CASE s = owner[c]
    <3>1. M[m].item <= item[c] /\ item[c] < pending[s][n] /\ M[m].item \in Nat
      BY <1>1, <2>2, ItemsOf DEF ControllerInv, AtWork
    <3>2. pending[s][n] \in Nat
      BY PendingIn DEF ControllerInv
    <3>3. item[c] \in Nat /\ M[m].item \in Nat /\ log'[s] = M
      BY <1>1, <2>2, <3>1
    <3> QED BY <3>1, <3>2, <3>3
  <2> QED BY <2>1, <2>2
<1>7. Logs' /\ AtWork'
  BY <1>1, <1>2 DEF ControllerInv, Logs, AtWork
<1>8. Places'
  <2> SUFFICES ASSUME NEW d \in Items, d # c PROVE Place(d)'
    BY DEF Places
  <2>1. pc'[d] = pc[d] /\ owner[d] \in Sessions
    BY <1>1 DEF ControllerInv, ControllerTypeOK
  <2>2. pc[d] \notin Idle => log'[owner[d]] = log[owner[d]]
    BY <1>1, <1>3, <2>1
  <2>3. Place(d)
    BY DEF ControllerInv, Places
  <2> QED BY <2>1, <2>2, <2>3, <1>2 DEF Place
<1>9. Resting'
  <2> SUFFICES ASSUME NEW s \in Sessions, \A d \in Items : pc'[d] \in InTurn => owner[d] # s
               PROVE  AtRest(log'[s])
    BY <1>2 DEF Resting
  <2>1. CASE s = owner[c]
    BY <1>1, <2>1
  <2>2. CASE s # owner[c]
    BY <1>1, <2>2 DEF ControllerInv, Resting
  <2> QED BY <2>1, <2>2
<1>10. Tokens'
  <2> SUFFICES ASSUME NEW s \in Sessions, token[s] # NoItem
               PROVE  \E d \in Items : owner[d] = s /\ item[d] = token[s] /\ pc'[d] \in Holding
    BY <1>2 DEF Tokens
  <2> QED BY <1>1 DEF ControllerInv, Tokens
<1> QED BY <1>4, <1>5, <1>6, <1>7, <1>8, <1>9, <1>10 DEF ControllerInv

-----------------------------------------------------------------------------
(* The steps of a turn. *)

LEMMA AtTurn ==
  ASSUME ControllerInv, NEW c \in Items, pc[c] \in Holding
  PROVE  /\ log[owner[c]] \in Seq(Events) /\ WellFormed(log[owner[c]])
         /\ item[c] \in Items /\ item[c] \in submitted /\ cursor[c] \in Nat /\ Place(c)
         /\ \A n \in 1 .. Len(log[owner[c]]) : log[owner[c]][n].item \in submitted
<1>1. owner[c] \in Sessions /\ submitted \subseteq Items
  BY DEF ControllerInv, ControllerTypeOK
<1>2. item[c] \in submitted
  BY DEF ControllerInv, AtWork, Busy
<1>3. cursor[c] \in Nat /\ Place(c)
  BY DEF ControllerInv, ControllerTypeOK, Places
<1>4. log[owner[c]] \in Seq(Events)
  BY <1>1 DEF ControllerInv, ControllerTypeOK, Events
<1> QED BY <1>1, <1>2, <1>3, <1>4 DEF ControllerInv, Logs

\* A log that ends with an event of the turn holds nothing later, and nothing that
\* was not submitted.
LEMMA TurnWrites ==
  ASSUME ControllerInv, NEW c \in Items, NEW M \in Seq(Events), NEW l, WritesLog(c, M, l),
         WellFormed(M),
         LET k == cursor[c] i == item[c] IN
           Begins(M, k, i) \/ Started(M, k, i) \/ Delivered(M, k, i) \/ Ended(M, k, i),
         \A n \in 1 .. Len(M) : M[n].item \in submitted,
         Place(c)', l \in InTurn \/ AtRest(M)
  PROVE  ControllerInv'
<1>1. pc[c] \in Holding
  BY DEF WritesLog
<1>2. item[c] \in Items /\ cursor[c] \in Nat
  BY <1>1, AtTurn
<1>3. \A n \in 1 .. Len(M) : M[n].item <= item[c]
  BY <1>2, NothingLater
<1> QED BY <1>3, WriteKeepsInv

\* What the event that is appended adds to the log.
LEMMA AppendedItems ==
  ASSUME ControllerInv, NEW L \in Seq(Events), \A n \in 1 .. Len(L) : L[n].item \in submitted,
         NEW k \in {"start", "delivery", "end"}, NEW i \in submitted
  PROVE  \A n \in 1 .. Len(Append(L, Event(k, i))) : Append(L, Event(k, i))[n].item \in submitted
<1>1. Event(k, i) \in Events
  BY DEF ControllerInv, ControllerTypeOK, Event, Events
<1> QED BY <1>1 DEF Event

LEMMA EndsAtRest ==
  ASSUME NEW L, NEW k, NEW i, Ended(L, k, i) PROVE AtRest(L)
BY DEF Ended, AtRest, Event

LEMMA Joined ==
  ASSUME NEW a \in Events, NEW b \in Events, NEW e \in Events
  PROVE  /\ <<a>> \o <<b>> = <<a, b>> /\ <<a>> \o <<b>> \o <<e>> = <<a, b, e>>
         /\ <<>> \o <<a>> = <<a>> /\ <<>> \o <<>> = <<>>
<1>1. <<a>> \o <<b>> = <<a, b>>
  <2>1. <<a>> \in Seq(Events) /\ <<b>> \in Seq(Events) /\ <<a, b>> \in Seq(Events)
    OBVIOUS
  <2>2. /\ <<a>> \o <<b>> \in Seq(Events) /\ Len(<<a>> \o <<b>>) = 2
        /\ \A j \in 1 .. 2 : (<<a>> \o <<b>>)[j] = <<a, b>>[j]
    BY <2>1, ConcatProperties
  <2> QED BY <2>1, <2>2, SeqEqual
<1>2. <<a, b>> \o <<e>> = <<a, b, e>>
  <2>1. <<a, b>> \in Seq(Events) /\ <<e>> \in Seq(Events) /\ <<a, b, e>> \in Seq(Events)
    OBVIOUS
  <2>2. /\ <<a, b>> \o <<e>> \in Seq(Events) /\ Len(<<a, b>> \o <<e>>) = 3
        /\ \A j \in 1 .. 3 : (<<a, b>> \o <<e>>)[j] = <<a, b, e>>[j]
    BY <2>1, ConcatProperties
  <2> QED BY <2>1, <2>2, SeqEqual
<1>3. <<>> \o <<a>> = <<a>> /\ <<>> \o <<>> = <<>>
  <2>1. <<>> \in Seq(Events) /\ <<a>> \in Seq(Events)
    OBVIOUS
  <2> QED BY <2>1, ConcatEmptySeq
<1> QED BY <1>1, <1>2, <1>3

LEMMA OneMore ==
  ASSUME NEW L \in Seq(Events), NEW e \in Events
  PROVE  L \o <<e>> = Append(L, e)
OBVIOUS

LEMMA TwoMore ==
  ASSUME NEW L \in Seq(Events), NEW a \in Events, NEW b \in Events, NEW e \in Events
  PROVE  /\ L \o <<a, b>> = Append(Append(L, a), b)
         /\ L \o <<a, b, e>> = Append(Append(Append(L, a), b), e)
<1>1. <<a>> \in Seq(Events) /\ <<b>> \in Seq(Events) /\ <<e>> \in Seq(Events) /\ <<a, b>> \in Seq(Events)
  OBVIOUS
<1>2. L \o <<a>> = Append(L, a) /\ Append(L, a) \in Seq(Events)
  BY OneMore
<1>3. (L \o <<a>>) \o <<b>> = Append(Append(L, a), b)
  BY <1>2, OneMore
<1>8. <<a>> \o <<b>> = <<a, b>>
  BY Joined
<1>4. (L \o <<a>>) \o <<b>> = L \o (<<a>> \o <<b>>)
  BY <1>1, ConcatAssociative
<1>5. Append(Append(L, a), b) \o <<e>> = Append(Append(Append(L, a), b), e)
  BY <1>2, OneMore
<1>6. (L \o <<a, b>>) \o <<e>> = L \o (<<a, b>> \o <<e>>)
  BY <1>1, ConcatAssociative
<1>7. <<a, b>> \o <<e>> = <<a, b, e>>
  BY Joined
<1> QED BY <1>3, <1>4, <1>5, <1>6, <1>7, <1>8

\* How the place of a consumer comes out of where it goes, and the log it leaves.
LEMMA PlaceAfter ==
  ASSUME ControllerInv, NEW c \in Items, NEW M, NEW l, WritesLog(c, M, l),
         LET k == cursor[c] i == item[c] IN
           \/ l = "working" /\ Started(M, k, i)
           \/ l = "delivered" /\ Delivered(M, k, i)
           \/ l = "closing" /\ (Begins(M, k, i) \/ Started(M, k, i) \/ Delivered(M, k, i) \/ Ended(M, k, i))
           \/ l = "clear"
  PROVE  Place(c)'
<1>1. pc'[c] = l /\ log'[owner[c]] = M
  BY DEF ControllerInv, ControllerTypeOK, WritesLog
<1>2. item' = item /\ cursor' = cursor /\ owner' = owner
  BY DEF WritesLog, queueVars
<1> QED BY <1>1, <1>2 DEF Place

LEMMA TurnStartKeeps == ASSUME ControllerInv, NEW c \in Items, TurnStart(c) PROVE ControllerInv'
<1> DEFINE L == log[owner[c]] i == item[c] M == Append(L, Event("start", i))
<1>1. pc[c] \in Holding
  BY DEF TurnStart, Holding
<1>2. L \in Seq(Events) /\ WellFormed(L) /\ i \in Items /\ i \in submitted /\ cursor[c] \in Nat /\ Begins(L, cursor[c], i)
  BY <1>1, AtTurn DEF TurnStart, Place
<1>3. M \in Seq(Events) /\ WellFormed(M) /\ Started(M, cursor[c], i)
  BY <1>2, StartAfter
<1>4. \A n \in 1 .. Len(M) : M[n].item \in submitted
  BY <1>1, <1>2, AtTurn, AppendedItems
<1>5. Event("start", i) \in Events
  BY <1>2, EventIn
<1>6. WritesLog(c, M, "working")
  <2>1. log' = [log EXCEPT ![owner[c]] = L \o <<Event("start", i)>>]
    BY DEF TurnStart, LogEvents, Home
  <2>2. L \o <<Event("start", i)>> = M
    BY <1>2, <1>5, OneMore
  <2> QED BY <2>1, <2>2, <1>1 DEF TurnStart, Goto, WritesLog, Holding
<1>7. Place(c)'
  BY <1>3, <1>6, PlaceAfter
<1> HIDE DEF M
<1> QED BY <1>3, <1>4, <1>6, <1>7, TurnWrites DEF InTurn

LEMMA DeliverKeeps == ASSUME ControllerInv, NEW c \in Items, Deliver(c) PROVE ControllerInv'
<1> DEFINE L == log[owner[c]] i == item[c] M == Append(L, Event("delivery", i))
<1>1. pc[c] \in Holding
  BY DEF Deliver, Holding
<1>2. L \in Seq(Events) /\ WellFormed(L) /\ i \in Items /\ i \in submitted /\ cursor[c] \in Nat /\ Started(L, cursor[c], i)
  BY <1>1, AtTurn DEF Deliver, Place
<1>3. M \in Seq(Events) /\ WellFormed(M) /\ Delivered(M, cursor[c], i)
  BY <1>2, DeliveryAfter
<1>4. \A n \in 1 .. Len(M) : M[n].item \in submitted
  BY <1>1, <1>2, AtTurn, AppendedItems
<1>5. Event("delivery", i) \in Events
  BY <1>2, EventIn
<1>6. WritesLog(c, M, "delivered")
  <2>1. log' = [log EXCEPT ![owner[c]] = L \o <<Event("delivery", i)>>]
    BY DEF Deliver, LogEvents, Home
  <2>2. L \o <<Event("delivery", i)>> = M
    BY <1>2, <1>5, OneMore
  <2> QED BY <2>1, <2>2, <1>1 DEF Deliver, Goto, WritesLog, Holding
<1>7. Place(c)'
  BY <1>3, <1>6, PlaceAfter
<1> HIDE DEF M
<1> QED BY <1>3, <1>4, <1>6, <1>7, TurnWrites DEF InTurn

\* The end of a turn, whether it was delivered or is a blocked council's.
LEMMA EndKeeps ==
  ASSUME ControllerInv, NEW c \in Items, TurnEnd(c) \/ CouncilBlocked(c) PROVE ControllerInv'
<1> DEFINE L == log[owner[c]] i == item[c] M == Append(L, Event("end", i))
<1>1. pc[c] \in Holding
  BY DEF TurnEnd, CouncilBlocked, Holding
<1>2. /\ L \in Seq(Events) /\ WellFormed(L) /\ i \in Items /\ i \in submitted /\ cursor[c] \in Nat
      /\ Delivered(L, cursor[c], i) \/ (Started(L, cursor[c], i) /\ i \in Councils)
  BY <1>1, AtTurn DEF TurnEnd, CouncilBlocked, Place
<1>3. M \in Seq(Events) /\ WellFormed(M) /\ Ended(M, cursor[c], i)
  BY <1>2, EndAfter
<1>4. \A n \in 1 .. Len(M) : M[n].item \in submitted
  BY <1>1, <1>2, AtTurn, AppendedItems
<1>5. Event("end", i) \in Events
  BY <1>2, EventIn
<1>6. PICK l \in {"clear", "closing"} : WritesLog(c, M, l)
  <2>1. log' = [log EXCEPT ![owner[c]] = L \o <<Event("end", i)>>]
    BY DEF TurnEnd, CouncilBlocked, LogEvents, Home
  <2>2. L \o <<Event("end", i)>> = M
    BY <1>2, <1>5, OneMore
  <2> QED BY <2>1, <2>2, <1>1 DEF TurnEnd, CouncilBlocked, Goto, WritesLog, Holding
<1>7. Place(c)'
  BY <1>3, <1>6, PlaceAfter
<1> HIDE DEF M
<1>8. AtRest(M)
  BY <1>3, EndsAtRest
<1> QED BY <1>3, <1>4, <1>6, <1>7, <1>8, TurnWrites

LEMMA FailKeeps == ASSUME ControllerInv, NEW c \in Items, TurnFails(c) PROVE ControllerInv'
<1> DEFINE L == log[owner[c]] i == item[c]
<1>1. pc[c] \in Holding
  BY DEF TurnFails, Holding
<1>2. /\ L \in Seq(Events) /\ WellFormed(L) /\ \A n \in 1 .. Len(L) : L[n].item \in submitted
      /\ Begins(L, cursor[c], i) \/ Started(L, cursor[c], i) \/ Delivered(L, cursor[c], i)
  BY <1>1, AtTurn DEF TurnFails, Place
<1>3. WritesLog(c, L, "closing")
  BY <1>1 DEF TurnFails, Goto, WritesLog, Holding, ControllerInv, ControllerTypeOK
<1>4. Place(c)'
  BY <1>2, <1>3, PlaceAfter
<1> HIDE DEF L
<1> QED BY <1>2, <1>3, <1>4, TurnWrites DEF InTurn

-----------------------------------------------------------------------------
(* close_failed_turn. *)

\* Of which kind the events after the cursor are.
LEMMA KindsAfter ==
  ASSUME NEW L \in Seq(Events), NEW k \in Nat, k <= Len(L), NEW x
  PROVE  LET current == SubSeq(L, k + 1, Len(L)) IN
         (\E n \in DOMAIN current : current[n].kind = x) <=> (\E n \in k + 1 .. Len(L) : L[n].kind = x)
<1> DEFINE current == SubSeq(L, k + 1, Len(L))
<1>1. \A j \in k + 1 .. Len(L) : L[j] \in Events
  OBVIOUS
<1>2. /\ current \in Seq(Events) /\ Len(current) = Len(L) - k
      /\ \A j \in 1 .. Len(L) - k : current[j] = L[j + k]
  <2>1. Len(L) - (k + 1) + 1 = Len(L) - k /\ k + 1 \in Int /\ Len(L) \in Int
    OBVIOUS
  <2>2. \A j \in 1 .. Len(L) - k : (k + 1) + j - 1 = j + k
    OBVIOUS
  <2>3. k + 1 <= Len(L) \/ Len(L) - k = 0
    OBVIOUS
  <2>4. /\ current \in Seq(Events) /\ Len(current) = IF k + 1 <= Len(L) THEN Len(L) - (k + 1) + 1 ELSE 0
        /\ \A j \in 1 .. Len(L) - (k + 1) + 1 : current[j] = L[(k + 1) + j - 1]
    BY <1>1, <2>1, SubSeqProperties
  <2> HIDE DEF current
  <2>5. Len(current) = Len(L) - k
    BY <2>4, <2>1, <2>3
  <2>6. \A j \in 1 .. Len(L) - k : current[j] = L[j + k]
    BY <2>4, <2>1, <2>2
  <2> QED BY <2>4, <2>5, <2>6
<1>3. DOMAIN current = 1 .. Len(L) - k
  BY <1>2
<1> HIDE DEF current
<1>4. ASSUME NEW n \in DOMAIN current, current[n].kind = x PROVE \E m \in k + 1 .. Len(L) : L[m].kind = x
  <2>1. n + k \in k + 1 .. Len(L) /\ L[n + k].kind = x
    BY <1>2, <1>3, <1>4
  <2> QED BY <2>1
<1>5. ASSUME NEW m \in k + 1 .. Len(L), L[m].kind = x PROVE \E n \in DOMAIN current : current[n].kind = x
  <2>1. m - k \in DOMAIN current /\ (m - k) + k = m
    BY <1>3
  <2> QED BY <1>2, <1>3, <1>5, <2>1
<1> QED BY <1>4, <1>5 DEF current

\* What is appended, by what the turn has.
LEMMA ClosesWhatIsOpen ==
  ASSUME ControllerInv, NEW c \in Items, CloseFailedTurn(c)
  PROVE  LET L == log[owner[c]] k == cursor[c] i == item[c] IN
         /\ Ended(L, k, i) => log' = log
         /\ Begins(L, k, i) =>
              log' = [log EXCEPT ![owner[c]] =
                        @ \o <<Event("start", i), Event("delivery", i), Event("end", i)>>]
         /\ Started(L, k, i) =>
              log' = [log EXCEPT ![owner[c]] = @ \o <<Event("delivery", i), Event("end", i)>>]
         /\ Delivered(L, k, i) => log' = [log EXCEPT ![owner[c]] = @ \o <<Event("end", i)>>]
<1> DEFINE L == log[owner[c]] k == cursor[c] i == item[c]
           Has(x) == \E n \in k + 1 .. Len(L) : L[n].kind = x
           Missing(x) == IF Has(x) THEN <<>> ELSE <<Event(x, i)>>
<1>1. L \in Seq(Events) /\ k \in Nat /\ Place(c) /\ i \in Items
  BY AtTurn DEF CloseFailedTurn, Holding
<1>0. Event("start", i) \in Events /\ Event("delivery", i) \in Events /\ Event("end", i) \in Events
  BY <1>1, EventIn
<1>2. k <= Len(L) /\ (Begins(L, k, i) \/ Started(L, k, i) \/ Delivered(L, k, i) \/ Ended(L, k, i))
  BY <1>1 DEF CloseFailedTurn, Place, Begins, Started, Delivered, Ended
<1>3. IF Has("end") THEN UNCHANGED log
      ELSE LogEvents(c, Missing("start") \o Missing("delivery") \o <<Event("end", i)>>)
  <2>1. \A x : LET current == SubSeq(L, k + 1, Len(L)) IN
                 (\E n \in DOMAIN current : current[n].kind = x) <=> Has(x)
    BY <1>1, <1>2, KindsAfter
  <2> HIDE DEF Has
  <2> QED BY <2>1 DEF CloseFailedTurn, Home
<1>4. ASSUME Ended(L, k, i) PROVE log' = log
  <2>1. Has("end")
    BY <1>1, <1>4 DEF Ended, Event
  <2> HIDE DEF Has
  <2> QED BY <1>3, <2>1
<1>5. ASSUME Begins(L, k, i)
      PROVE  log' = [log EXCEPT ![owner[c]] = @ \o <<Event("start", i), Event("delivery", i), Event("end", i)>>]
  <2>1. ~ Has("start") /\ ~ Has("delivery") /\ ~ Has("end")
    BY <1>1, <1>5 DEF Begins
  <2> HIDE DEF Has
  <2>2. Missing("start") \o Missing("delivery") \o <<Event("end", i)>>
          = <<Event("start", i), Event("delivery", i), Event("end", i)>>
    BY <2>1, <1>0, Joined
  <2> QED BY <1>3, <2>1, <2>2 DEF LogEvents, Home
<1>6. ASSUME Started(L, k, i)
      PROVE  log' = [log EXCEPT ![owner[c]] = @ \o <<Event("delivery", i), Event("end", i)>>]
  <2>1. Has("start") /\ ~ Has("delivery") /\ ~ Has("end")
    BY <1>1, <1>6 DEF Started, Event
  <2> HIDE DEF Has
  <2>2. Missing("start") \o Missing("delivery") \o <<Event("end", i)>> = <<Event("delivery", i), Event("end", i)>>
    BY <2>1, <1>0, Joined
  <2> QED BY <1>3, <2>1, <2>2 DEF LogEvents, Home
<1>7. ASSUME Delivered(L, k, i)
      PROVE  log' = [log EXCEPT ![owner[c]] = @ \o <<Event("end", i)>>]
  <2>0. /\ k + 1 \in k + 1 .. Len(L) /\ L[k + 1].kind = "start"
        /\ k + 2 \in k + 1 .. Len(L) /\ L[k + 2].kind = "delivery"
        /\ \A n \in k + 1 .. Len(L) : n = k + 1 \/ n = k + 2
    BY <1>1, <1>7 DEF Delivered, Event
  <2>1. Has("start") /\ Has("delivery") /\ ~ Has("end")
    BY <2>0
  <2> HIDE DEF Has
  <2>2. Missing("start") \o Missing("delivery") \o <<Event("end", i)>> = <<Event("end", i)>>
    BY <2>1, <1>0, Joined
  <2> QED BY <1>3, <2>1, <2>2 DEF LogEvents, Home
<1> QED BY <1>4, <1>5, <1>6, <1>7

LEMMA CloseKeeps == ASSUME ControllerInv, NEW c \in Items, CloseFailedTurn(c) PROVE ControllerInv'
<1> DEFINE L == log[owner[c]] k == cursor[c] i == item[c]
           start == Event("start", i) delivery == Event("delivery", i) end == Event("end", i)
           Submitted(M) == \A n \in 1 .. Len(M) : M[n].item \in submitted
           Open(M) == M \in Seq(Events) /\ WellFormed(M) /\ Submitted(M)
<1>1. pc[c] \in Holding
  BY DEF CloseFailedTurn, Holding
<1>2. /\ Open(L) /\ i \in Items /\ i \in submitted /\ k \in Nat
      /\ Begins(L, k, i) \/ Started(L, k, i) \/ Delivered(L, k, i) \/ Ended(L, k, i)
  BY <1>1, AtTurn DEF CloseFailedTurn, Place
<1>3. start \in Events /\ delivery \in Events /\ end \in Events
  BY <1>2, EventIn
<1>4. ASSUME NEW M, Open(M), Begins(M, k, i) PROVE Open(Append(M, start)) /\ Started(Append(M, start), k, i)
  BY <1>2, <1>4, StartAfter, AppendedItems
<1>5. ASSUME NEW M, Open(M), Started(M, k, i)
      PROVE  Open(Append(M, delivery)) /\ Delivered(Append(M, delivery), k, i)
  BY <1>2, <1>5, DeliveryAfter, AppendedItems
<1>6. ASSUME NEW M, Open(M), Delivered(M, k, i) PROVE Open(Append(M, end)) /\ Ended(Append(M, end), k, i)
  BY <1>2, <1>6, EndAfter, AppendedItems
<1>7. PICK M : Open(M) /\ Ended(M, k, i) /\ log' = [log EXCEPT ![owner[c]] = M]
  <2>1. CASE Ended(L, k, i)
    <3>1. log' = [log EXCEPT ![owner[c]] = L]
      BY <2>1, ClosesWhatIsOpen DEF ControllerInv, ControllerTypeOK
    <3> QED BY <1>2, <2>1, <3>1
  <2>2. CASE Begins(L, k, i)
    <3> DEFINE M == Append(Append(Append(L, start), delivery), end)
    <3>1. L \o <<start, delivery, end>> = M
      BY <1>2, <1>3, TwoMore
    <3>2. Open(M) /\ Ended(M, k, i)
      <4> HIDE DEF Open, start, delivery, end
      <4>1. Open(Append(L, start)) /\ Started(Append(L, start), k, i)
        BY <1>2, <1>4, <2>2
      <4>2. Open(Append(Append(L, start), delivery)) /\ Delivered(Append(Append(L, start), delivery), k, i)
        BY <4>1, <1>5
      <4> QED BY <4>2, <1>6
    <3>3. log' = [log EXCEPT ![owner[c]] = M]
      BY <2>2, <3>1, ClosesWhatIsOpen
    <3> QED BY <3>2, <3>3
  <2>3. CASE Started(L, k, i)
    <3> DEFINE M == Append(Append(L, delivery), end)
    <3>1. L \o <<delivery, end>> = M
      BY <1>2, <1>3, TwoMore
    <3>2. Open(M) /\ Ended(M, k, i)
      <4> HIDE DEF Open, start, delivery, end
      <4>1. Open(Append(L, delivery)) /\ Delivered(Append(L, delivery), k, i)
        BY <1>2, <1>5, <2>3
      <4> QED BY <4>1, <1>6
    <3>3. log' = [log EXCEPT ![owner[c]] = M]
      BY <2>3, <3>1, ClosesWhatIsOpen
    <3> QED BY <3>2, <3>3
  <2>4. CASE Delivered(L, k, i)
    <3> DEFINE M == Append(L, end)
    <3>1. L \o <<end>> = M
      BY <1>2, <1>3
    <3>2. Open(M) /\ Ended(M, k, i)
      BY <1>2, <1>6, <2>4
    <3>3. log' = [log EXCEPT ![owner[c]] = M]
      BY <2>4, <3>1, ClosesWhatIsOpen
    <3> QED BY <3>2, <3>3
  <2> QED BY <1>2, <2>1, <2>2, <2>3, <2>4
<1>8. WritesLog(c, M, "clear")
  BY <1>1, <1>7 DEF CloseFailedTurn, Goto, WritesLog, Holding
<1>9. Place(c)'
  BY <1>8, PlaceAfter
<1>10. AtRest(M)
  BY <1>7, EndsAtRest
<1> QED BY <1>7, <1>8, <1>9, <1>10, TurnWrites

-----------------------------------------------------------------------------
(* The queue, and what the user does. *)

LEMMA ControllerInitial == ControllerInit => ControllerInv
<1> SUFFICES ASSUME ControllerInit PROVE ControllerInv
  OBVIOUS
<1>1. ControllerTypeOK
  <2>1. <<>> \in Seq(submitted \ removed) /\ <<>> \in Seq([kind : {"start", "delivery", "end"}, item : Items])
    OBVIOUS
  <2> QED BY <2>1 DEF ControllerInit, ControllerTypeOK
<1>2. \A s \in Sessions : log[s] = <<>> /\ pending[s] = <<>> /\ token[s] = NoItem
  BY DEF ControllerInit
<1>3. \A c \in Items : pc[c] = "none" /\ submitted = {}
  BY DEF ControllerInit
<1>4. SubmittedInOrder /\ OneConsumer /\ AtWork /\ Places /\ Tokens
  BY <1>2, <1>3 DEF SubmittedInOrder, OneConsumer, AtWork, Places, Place, Tokens, Busy, Holding, Idle
<1>5. Queued /\ Logs /\ Resting
  BY <1>2, <1>3 DEF Queued, Logs, WellFormed, Resting, AtRest
<1> QED BY <1>1, <1>4, <1>5 DEF ControllerInv

\* What does not touch the queues, the logs and the consumers.
LEMMA OthersKeep ==
  ASSUME ControllerInv, Cancel \/ SwitchSession PROVE ControllerInv'
<1>1. UNCHANGED <<queueVars, token, turnVars>> /\ shown' \in Sessions /\ cancelled' \subseteq Items
  <2>1. token[shown] \in Items \cup {NoItem} /\ cancelled \subseteq Items /\ shown \in Sessions
    BY DEF ControllerInv, ControllerTypeOK
  <2> QED BY <2>1 DEF Cancel, SwitchSession
<1>2. ControllerTypeOK'
  BY <1>1 DEF ControllerInv, ControllerTypeOK, queueVars, turnVars
<1>3. SubmittedInOrder' /\ OneConsumer' /\ Queued' /\ Logs' /\ AtWork' /\ Places' /\ Resting' /\ Tokens'
  BY <1>1 DEF ControllerInv, queueVars, turnVars, SubmittedInOrder, OneConsumer, Queued, Logs, AtWork,
              Places, Place, Resting, Tokens
<1> QED BY <1>2, <1>3 DEF ControllerInv

LEMMA SubmitKeeps == ASSUME ControllerInv, NEW i \in Items, Submit(i) PROVE ControllerInv'
<1> USE DEF Busy, Holding, InTurn, Idle
<1> DEFINE q == pending[shown]
<1>1. /\ shown \in Sessions /\ i \notin submitted /\ submitted' = submitted \cup {i}
      /\ owner' = [owner EXCEPT ![i] = shown] /\ owner \in [Items -> Sessions]
      /\ UNCHANGED <<shown, removed, token, cancelled, item, cursor, log, boundVars>>
  BY DEF Submit, ControllerInv, ControllerTypeOK
<1>2. \A j \in submitted : j \in Items /\ j \in Nat /\ j < i /\ owner'[j] = owner[j]
  <2>1. \A j \in submitted : j \in Items /\ j # i /\ ~ (i < j)
    BY <1>1 DEF ControllerInv, SubmittedInOrder, ControllerTypeOK
  <2>2. ASSUME NEW j \in submitted PROVE j \in Nat /\ j < i
    <3>1. j \in Nat /\ i \in Nat /\ Items \subseteq Nat
      BY <2>1, ControllerAssumption
    <3>2. j # i /\ ~ (i < j)
      BY <2>1
    <3> QED BY <3>1, <3>2
  <2>3. \A j \in submitted : owner'[j] = owner[j]
    BY <1>1, <2>1
  <2> QED BY <2>1, <2>2, <2>3
<1>3. /\ pending' = [pending EXCEPT ![shown] = Append(q, i)] /\ pending \in [Sessions -> Seq(submitted \ removed)]
      /\ running' = running \cup {shown} /\ i \notin removed
  BY <1>1 DEF Submit, ControllerInv, ControllerTypeOK
<1>4. \A s \in Sessions : pending[s] \in Seq(submitted \ removed) /\ log[s] \in Seq(Events)
  BY DEF ControllerInv, ControllerTypeOK, Events
<1>5. /\ \A s \in Sessions : s # shown => pending'[s] = pending[s]
      /\ Len(pending'[shown]) = Len(q) + 1 /\ pending'[shown][Len(q) + 1] = i
      /\ \A n \in 1 .. Len(q) : pending'[shown][n] = q[n] /\ q[n] \in submitted
  BY <1>1, <1>3, <1>4
<1>6. /\ \A c \in Items : c # i => pc'[c] = pc[c] /\ owner'[c] = owner[c]
      /\ pc[i] = "none" /\ owner'[i] = shown
      /\ pc'[i] = IF shown \in running THEN "none" ELSE "pop"
      /\ pc' \in [Items -> {"none", "pop", "store", "starting", "working", "delivered", "closing", "clear", "done"}]
  <2>1. pc \in [Items -> {"none", "pop", "store", "starting", "working", "delivered", "closing", "clear", "done"}]
    BY DEF ControllerInv, ControllerTypeOK
  <2>2. pc[i] = "none"
    BY <1>1 DEF ControllerInv, OneConsumer
  <2> QED BY <1>1, <2>1, <2>2 DEF Submit, Goto
<1>7. ControllerTypeOK'
  <2>1. \A s \in Sessions : pending[s] \in Seq(submitted' \ removed)
    BY <1>1, <1>4, SeqMonotonic
  <2>2. pending' \in [Sessions -> Seq(submitted' \ removed')]
    <3>1. Append(q, i) \in Seq(submitted' \ removed)
      BY <1>1, <1>3, <2>1
    <3> QED BY <1>1, <1>3, <2>1, <3>1
  <2> QED BY <1>1, <1>3, <1>6, <2>2 DEF ControllerInv, ControllerTypeOK
<1>8. SubmittedInOrder'
  BY <1>1 DEF Submit, ControllerInv, SubmittedInOrder
<1>9. OneConsumer'
  BY <1>1, <1>3, <1>6 DEF ControllerInv, OneConsumer
<1>10. Queued'
  <2> SUFFICES ASSUME NEW s \in Sessions
               PROVE  /\ \A n \in 1 .. Len(pending'[s]) : owner'[pending'[s][n]] = s
                      /\ \A m, n \in 1 .. Len(pending'[s]) : m < n => pending'[s][m] < pending'[s][n]
                      /\ \A m \in 1 .. Len(log'[s]), n \in 1 .. Len(pending'[s]) : log'[s][m].item < pending'[s][n]
    BY DEF Queued
  <2>0. /\ \A n \in 1 .. Len(pending[s]) : owner[pending[s][n]] = s /\ pending[s][n] \in submitted
        /\ \A m, n \in 1 .. Len(pending[s]) : m < n => pending[s][m] < pending[s][n]
        /\ \A m \in 1 .. Len(log[s]), n \in 1 .. Len(pending[s]) : log[s][m].item < pending[s][n]
    BY <1>4 DEF ControllerInv, Queued
  <2>1. CASE s # shown
    BY <1>1, <1>2, <1>5, <2>0, <2>1
  <2>2. CASE s = shown
    <3>1. Len(pending'[s]) = Len(pending[s]) + 1 /\ Len(pending[s]) \in Nat
      BY <1>4, <1>5, <2>2
    <3>2. \A n \in 1 .. Len(pending'[s]) :
            \/ n \in 1 .. Len(pending[s]) /\ pending'[s][n] = pending[s][n]
            \/ n = Len(pending[s]) + 1 /\ pending'[s][n] = i
      BY <1>5, <2>2, <3>1
    <3>3. \A n \in 1 .. Len(pending'[s]) : owner'[pending'[s][n]] = s
      BY <3>2, <2>0, <1>2, <1>6, <2>2
    <3>4. \A m \in 1 .. Len(log'[s]), n \in 1 .. Len(pending'[s]) : log'[s][m].item < pending'[s][n]
      <4>1. \A m \in 1 .. Len(log[s]) : log[s][m].item < i
        BY <1>2 DEF ControllerInv, Logs
      <4> QED BY <4>1, <3>2, <2>0, <1>1
    <3>5. \A m, n \in 1 .. Len(pending'[s]) : m < n => pending'[s][m] < pending'[s][n]
      BY <3>1, <3>2, <2>0, <1>2
    <3> QED BY <3>3, <3>4, <3>5
  <2> QED BY <2>1, <2>2
<1>11. Logs'
  BY <1>1 DEF ControllerInv, Logs
<1>12. AtWork'
  <2> SUFFICES ASSUME NEW c \in Items, pc'[c] \in Busy
               PROVE  /\ item[c] \in submitted' /\ owner'[item[c]] = owner'[c]
                      /\ \A n \in 1 .. Len(pending'[owner'[c]]) : item[c] < pending'[owner'[c]][n]
    BY <1>1 DEF AtWork
  <2>1. c # i /\ pc[c] \in Busy /\ owner'[c] = owner[c]
    BY <1>6
  <2>2. /\ item[c] \in submitted /\ owner[item[c]] = owner[c]
        /\ \A n \in 1 .. Len(pending[owner[c]]) : item[c] < pending[owner[c]][n]
    BY <2>1 DEF ControllerInv, AtWork
  <2>3. owner[c] \in Sessions
    BY <1>1
  <2>4. \A n \in 1 .. Len(pending'[owner[c]]) : item[c] < pending'[owner[c]][n]
    <3>1. CASE owner[c] # shown
      BY <1>5, <2>2, <2>3, <3>1
    <3>2. CASE owner[c] = shown
      <4>1. \A n \in 1 .. Len(pending'[shown]) : n \in 1 .. Len(q) \/ n = Len(q) + 1
        BY <1>1, <1>4, <1>5
      <4> QED BY <1>2, <1>5, <2>2, <3>2, <4>1
    <3> QED BY <3>1, <3>2
  <2> QED BY <1>1, <1>2, <2>1, <2>2, <2>4
<1>13. Places'
  BY <1>1, <1>6 DEF ControllerInv, Places, Place
<1>14. Resting'
  BY <1>1, <1>6 DEF ControllerInv, Resting
<1>15. Tokens'
  BY <1>1, <1>6 DEF ControllerInv, Tokens
<1> QED BY <1>7, <1>8, <1>9, <1>10, <1>11, <1>12, <1>13, <1>14, <1>15 DEF ControllerInv

\* A sequence that has lost one of its elements.
LEMMA WithoutOne ==
  ASSUME NEW S, NEW q \in Seq(S), NEW n \in 1 .. Len(q)
  PROVE  LET r == SubSeq(q, 1, n - 1) \o SubSeq(q, n + 1, Len(q)) IN
         /\ r \in Seq(S) /\ Len(r) = Len(q) - 1
         /\ \A m \in 1 .. Len(r) : r[m] = IF m < n THEN q[m] ELSE q[m + 1]
<1> DEFINE a == SubSeq(q, 1, n - 1) b == SubSeq(q, n + 1, Len(q)) r == a \o b
<1>1. \A j \in 1 .. Len(q) : q[j] \in S
  OBVIOUS
<1>2. a \in Seq(S) /\ Len(a) = n - 1 /\ \A j \in 1 .. n - 1 : a[j] = q[j]
  <2>1. \A j \in 1 .. n - 1 : q[j] \in S
    BY <1>1
  <2>2. /\ a \in Seq(S) /\ Len(a) = IF 1 <= n - 1 THEN (n - 1) - 1 + 1 ELSE 0
        /\ \A j \in 1 .. (n - 1) - 1 + 1 : a[j] = q[1 + j - 1]
    BY <2>1, SubSeqProperties
  <2> HIDE DEF a
  <2> QED BY <2>2
<1>3. b \in Seq(S) /\ Len(b) = Len(q) - n /\ \A j \in 1 .. Len(q) - n : b[j] = q[n + j]
  <2>1. \A j \in n + 1 .. Len(q) : q[j] \in S
    BY <1>1
  <2>2. /\ b \in Seq(S) /\ Len(b) = IF n + 1 <= Len(q) THEN Len(q) - (n + 1) + 1 ELSE 0
        /\ \A j \in 1 .. Len(q) - (n + 1) + 1 : b[j] = q[(n + 1) + j - 1]
    BY <2>1, SubSeqProperties
  <2> HIDE DEF b
  <2>3. \A j \in 1 .. Len(q) - n : j \in 1 .. Len(q) - (n + 1) + 1 /\ (n + 1) + j - 1 = n + j
    OBVIOUS
  <2> QED BY <2>2, <2>3
<1> HIDE DEF a, b
<1>4. /\ r \in Seq(S) /\ Len(r) = Len(q) - 1
      /\ \A m \in 1 .. Len(r) : r[m] = IF m <= n - 1 THEN a[m] ELSE b[m - (n - 1)]
  <2>1. /\ r \in Seq(S) /\ Len(r) = Len(a) + Len(b)
        /\ \A m \in 1 .. Len(a) + Len(b) : r[m] = IF m <= Len(a) THEN a[m] ELSE b[m - Len(a)]
    BY <1>2, <1>3, ConcatProperties
  <2>2. Len(a) + Len(b) = Len(q) - 1
    BY <1>2, <1>3
  <2> HIDE DEF r
  <2> QED BY <1>2, <2>1, <2>2
<1> HIDE DEF r
<1>5. \A m \in 1 .. Len(q) - 1 : r[m] = IF m < n THEN q[m] ELSE q[m + 1]
  <2> SUFFICES ASSUME NEW m \in 1 .. Len(q) - 1 PROVE r[m] = IF m < n THEN q[m] ELSE q[m + 1]
    OBVIOUS
  <2>1. CASE m < n
    BY <1>2, <1>4, <2>1
  <2>2. CASE ~ (m < n)
    <3>1. m - (n - 1) \in 1 .. Len(q) - n /\ n + (m - (n - 1)) = m + 1
      BY <2>2
    <3> QED BY <1>3, <1>4, <2>2, <3>1
  <2> QED BY <2>1, <2>2
<1> QED BY <1>4, <1>5 DEF a, b, r

\* A queue of which a part is left, in its order.
Shrinks(s, r) ==
  \E f \in [1 .. Len(r) -> 1 .. Len(pending[s])] :
    /\ \A m \in 1 .. Len(r) : r[m] = pending[s][f[m]]
    /\ \A m, n \in 1 .. Len(r) : m < n => f[m] < f[n]

LEMMA ShrunkQueued ==
  ASSUME ControllerInv, NEW s \in Sessions, NEW r \in Seq(submitted), Shrinks(s, r),
         pending' = [pending EXCEPT ![s] = r], UNCHANGED <<owner, log>>
  PROVE  /\ Queued'
         /\ \A t \in Sessions : \A n \in 1 .. Len(pending'[t]) :
              \E k \in 1 .. Len(pending[t]) : pending'[t][n] = pending[t][k]
<1>1. \A t \in Sessions : pending'[t] = IF t = s THEN r ELSE pending[t]
  BY DEF ControllerInv, ControllerTypeOK
<1>2. PICK f \in [1 .. Len(r) -> 1 .. Len(pending[s])] :
        /\ \A m \in 1 .. Len(r) : r[m] = pending[s][f[m]]
        /\ \A m, n \in 1 .. Len(r) : m < n => f[m] < f[n]
  BY DEF Shrinks
<1>3. \A n \in 1 .. Len(r) : f[n] \in 1 .. Len(pending[s])
  BY <1>2
<1>4. Queued
  BY DEF ControllerInv
<1>5. ASSUME NEW t \in Sessions
      PROVE  /\ \A n \in 1 .. Len(pending'[t]) : owner[pending'[t][n]] = t
             /\ \A m, n \in 1 .. Len(pending'[t]) : m < n => pending'[t][m] < pending'[t][n]
             /\ \A m \in 1 .. Len(log[t]), n \in 1 .. Len(pending'[t]) : log[t][m].item < pending'[t][n]
             /\ \A n \in 1 .. Len(pending'[t]) : \E k \in 1 .. Len(pending[t]) : pending'[t][n] = pending[t][k]
  <2>1. CASE t # s
    BY <1>1, <1>4, <2>1 DEF Queued
  <2>2. CASE t = s
    <3> DEFINE p == pending[s]
    <3>1. pending'[t] = r /\ \A n \in 1 .. Len(r) : f[n] \in 1 .. Len(p) /\ r[n] = p[f[n]]
      BY <1>1, <1>2, <1>3, <2>2
    <3>2. /\ \A n \in 1 .. Len(p) : owner[p[n]] = s
          /\ \A m, n \in 1 .. Len(p) : m < n => p[m] < p[n]
          /\ \A m \in 1 .. Len(log[s]), n \in 1 .. Len(p) : log[s][m].item < p[n]
      BY <1>4 DEF Queued
    <3>3. \A m, n \in 1 .. Len(r) : m < n => f[m] < f[n]
      BY <1>2
    <3> HIDE DEF p
    <3>4. \A m, n \in 1 .. Len(r) : m < n => r[m] < r[n]
      BY <3>1, <3>2, <3>3
    <3>5. /\ \A n \in 1 .. Len(r) : owner[r[n]] = s
          /\ \A m \in 1 .. Len(log[s]), n \in 1 .. Len(r) : log[s][m].item < r[n]
          /\ \A n \in 1 .. Len(r) : \E k \in 1 .. Len(p) : r[n] = p[k]
      BY <3>1, <3>2
    <3> QED BY <3>1, <3>4, <3>5, <2>2 DEF p
  <2> QED BY <2>1, <2>2
<1> QED BY <1>5 DEF Queued

LEMMA SeqOfElements ==
  ASSUME NEW S, NEW r \in Seq(S), NEW T, \A m \in 1 .. Len(r) : r[m] \in T
  PROVE  r \in Seq(T)
<1>1. Len(r) \in Nat /\ r \in [1 .. Len(r) -> S]
  BY LenProperties
<1>2. r \in [1 .. Len(r) -> T]
  BY <1>1
<1> QED BY <1>1, <1>2, SeqDef

LEMMA RemoveKeeps == ASSUME ControllerInv, NEW i \in Items, RemoveQueued(i) PROVE ControllerInv'
<1> DEFINE q == pending[shown]
<1>1. /\ shown \in Sessions /\ pending \in [Sessions -> Seq(submitted \ removed)] /\ submitted \subseteq Items
      /\ q \in Seq(submitted \ removed)
  BY DEF ControllerInv, ControllerTypeOK
<1>2. PICK n \in 1 .. Len(q) :
        /\ q[n] = i /\ pending' = [pending EXCEPT ![shown] = SubSeq(q, 1, n - 1) \o SubSeq(q, n + 1, Len(q))]
  <2>1. DOMAIN q = 1 .. Len(q)
    BY <1>1
  <2> QED BY <2>1 DEF RemoveQueued
<1>3. /\ removed' = removed \cup {i}
      /\ UNCHANGED <<shown, submitted, owner, running, token, cancelled, pc, item, cursor, log>>
  BY DEF RemoveQueued, turnVars
<1> DEFINE r == SubSeq(q, 1, n - 1) \o SubSeq(q, n + 1, Len(q))
<1>4. /\ r \in Seq(submitted \ removed) /\ Len(r) = Len(q) - 1
      /\ \A m \in 1 .. Len(r) : r[m] = IF m < n THEN q[m] ELSE q[m + 1]
  BY <1>1, WithoutOne
<1>5. pending' = [pending EXCEPT ![shown] = r]
  BY <1>2
<1> HIDE DEF r
<1>6. Shrinks(shown, r) /\ \A m \in 1 .. Len(r) : r[m] # i
  <2> DEFINE f == [m \in 1 .. Len(r) |-> IF m < n THEN m ELSE m + 1]
  <2>1. f \in [1 .. Len(r) -> 1 .. Len(q)] /\ \A m \in 1 .. Len(r) : f[m] # n
    BY <1>1, <1>4
  <2>2. \A m \in 1 .. Len(r) : r[m] = q[f[m]]
    BY <1>4
  <2>3. \A m, k \in 1 .. Len(r) : m < k => f[m] < f[k]
    BY <1>1, <1>4
  <2> HIDE DEF f
  <2>4. Shrinks(shown, r)
    BY <2>1, <2>2, <2>3 DEF Shrinks
  <2>5. \A k \in 1 .. Len(q) : k # n => q[k] # i
    <3> SUFFICES ASSUME NEW k \in 1 .. Len(q), k # n, q[k] = i PROVE FALSE
      OBVIOUS
    <3>1. k < n \/ n < k
      BY <1>1
    <3>2. \A a, b \in 1 .. Len(q) : a < b => q[a] < q[b]
      BY <1>1 DEF ControllerInv, Queued
    <3>3. i \in Nat
      BY ControllerAssumption
    <3> QED BY <1>2, <3>1, <3>2, <3>3
  <2>6. \A m \in 1 .. Len(r) : f[m] \in 1 .. Len(q) /\ f[m] # n
    BY <2>1
  <2> QED BY <2>2, <2>4, <2>5, <2>6
<1>7. \A m \in 1 .. Len(r) : r[m] \in submitted \ removed /\ r[m] \in submitted \ removed'
  BY <1>3, <1>4, <1>6
<1>8. r \in Seq(submitted \ removed') /\ r \in Seq(submitted)
  BY <1>4, <1>7, SeqOfElements
<1>9. Queued' /\ \A t \in Sessions : \A m \in 1 .. Len(pending'[t]) :
                   \E k \in 1 .. Len(pending[t]) : pending'[t][m] = pending[t][k]
  BY <1>3, <1>1, <1>5, <1>6, <1>8, ShrunkQueued
<1>10. ControllerTypeOK'
  <2>1. \A s \in Sessions : s # shown => pending[s] \in Seq(submitted \ removed')
    <3> SUFFICES ASSUME NEW s \in Sessions, s # shown PROVE pending[s] \in Seq(submitted \ removed')
      OBVIOUS
    <3>0. pending[s] \in Seq(submitted \ removed)
      BY <1>1
    <3>1. \A m \in 1 .. Len(pending[s]) : owner[pending[s][m]] = s /\ pending[s][m] \in submitted \ removed
      BY <3>0 DEF ControllerInv, Queued
    <3>2. owner[i] = shown
      BY <1>1, <1>2 DEF ControllerInv, Queued
    <3>3. \A m \in 1 .. Len(pending[s]) : pending[s][m] \in submitted \ removed'
      BY <1>3, <3>1, <3>2
    <3> QED BY <3>0, <3>3, SeqOfElements
  <2>2. pending' \in [Sessions -> Seq(submitted \ removed')]
    BY <1>1, <1>5, <1>8, <2>1
  <2>3. i \in submitted
    BY <1>1, <1>2
  <2> QED BY <1>3, <2>2, <2>3 DEF ControllerInv, ControllerTypeOK
<1>11. AtWork'
  <2> SUFFICES ASSUME NEW c \in Items, pc[c] \in Busy
               PROVE  /\ item[c] \in submitted /\ owner[item[c]] = owner[c]
                      /\ \A m \in 1 .. Len(pending'[owner[c]]) : item[c] < pending'[owner[c]][m]
    BY <1>3 DEF AtWork
  <2>1. owner[c] \in Sessions
    BY DEF ControllerInv, ControllerTypeOK
  <2> QED BY <2>1, <1>9 DEF ControllerInv, AtWork
<1>12. SubmittedInOrder' /\ OneConsumer' /\ Logs' /\ Places' /\ Resting' /\ Tokens'
  BY <1>3 DEF ControllerInv, SubmittedInOrder, OneConsumer, Logs, Places, Place, Resting, Tokens
<1> QED BY <1>9, <1>10, <1>11, <1>12 DEF ControllerInv

LEMMA PopKeeps == ASSUME ControllerInv, NEW c \in Items, PopFront(c) PROVE ControllerInv'
<1> USE DEF Busy, Holding, InTurn, Idle
<1> DEFINE s == owner[c] q == pending[s] r == Tail(q)
<1>1. /\ s \in Sessions /\ pending \in [Sessions -> Seq(submitted \ removed)] /\ submitted \subseteq Items
      /\ q \in Seq(submitted \ removed) /\ q # <<>> /\ pc[c] = "pop"
      /\ pc \in [Items -> {"none", "pop", "store", "starting", "working", "delivered", "closing", "clear", "done"}]
      /\ item \in [Items -> Items \cup {NoItem}]
  BY DEF PopFront, Home, ControllerInv, ControllerTypeOK
<1>2. /\ item' = [item EXCEPT ![c] = Head(q)] /\ pending' = [pending EXCEPT ![s] = r]
      /\ pc' = [pc EXCEPT ![c] = "store"]
      /\ UNCHANGED <<shown, submitted, removed, owner, running, token, cancelled, cursor, log>>
  BY DEF PopFront, Home, Goto
<1>3. /\ r \in Seq(submitted \ removed) /\ Len(r) = Len(q) - 1 /\ Head(q) = q[1] /\ 1 \in 1 .. Len(q)
      /\ \A m \in 1 .. Len(r) : r[m] = q[m + 1] /\ m + 1 \in 1 .. Len(q)
  BY <1>1
<1>4. q[1] \in submitted /\ q[1] \in Items
  <2>1. q[1] \in submitted \ removed
    BY <1>1, <1>3, ElementOfSeq
  <2> QED BY <1>1, <2>1
<1>5. /\ \A d \in Items : d # c => pc'[d] = pc[d] /\ item'[d] = item[d]
      /\ pc'[c] = "store" /\ item'[c] = q[1]
  BY <1>1, <1>2, <1>3
<1>6. Shrinks(s, r) /\ r \in Seq(submitted)
  <2> DEFINE f == [m \in 1 .. Len(r) |-> m + 1]
  <2>1. f \in [1 .. Len(r) -> 1 .. Len(q)] /\ \A m \in 1 .. Len(r) : f[m] = m + 1
    BY <1>3
  <2> HIDE DEF f
  <2>2. Shrinks(s, r)
    BY <1>3, <2>1 DEF Shrinks
  <2>3. \A m \in 1 .. Len(r) : r[m] \in submitted
    BY <1>1, <1>3
  <2> QED BY <1>3, <2>2, <2>3, SeqOfElements
<1>7. Queued' /\ \A t \in Sessions : \A m \in 1 .. Len(pending'[t]) :
                   \E k \in 1 .. Len(pending[t]) : pending'[t][m] = pending[t][k]
  BY <1>1, <1>2, <1>6, ShrunkQueued
<1>8. ControllerTypeOK'
  <2>1. pending' \in [Sessions -> Seq(submitted \ removed)]
    BY <1>1, <1>2, <1>3
  <2>2. item' \in [Items -> Items \cup {NoItem}]
    BY <1>1, <1>2, <1>3, <1>4
  <2>3. pc' \in [Items -> {"none", "pop", "store", "starting", "working", "delivered", "closing", "clear", "done"}]
    BY <1>1, <1>2
  <2> QED BY <1>2, <2>1, <2>2, <2>3 DEF ControllerInv, ControllerTypeOK
<1>9. /\ \A n \in 1 .. Len(q) : owner[q[n]] = s
      /\ \A m, n \in 1 .. Len(q) : m < n => q[m] < q[n]
      /\ \A m \in 1 .. Len(log[s]), n \in 1 .. Len(q) : log[s][m].item < q[n]
  BY <1>1 DEF ControllerInv, Queued
<1>10. AtWork'
  <2> SUFFICES ASSUME NEW d \in Items, pc'[d] \in Busy
               PROVE  /\ item'[d] \in submitted /\ owner[item'[d]] = owner[d]
                      /\ \A m \in 1 .. Len(pending'[owner[d]]) : item'[d] < pending'[owner[d]][m]
    BY <1>2 DEF AtWork
  <2>1. CASE d = c
    <3>1. pending'[s] = r
      BY <1>1, <1>2
    <3>2. \A m \in 1 .. Len(r) : q[1] < r[m]
      BY <1>1, <1>3, <1>9
    <3> QED BY <1>4, <1>5, <1>3, <1>9, <2>1, <3>1, <3>2
  <2>2. CASE d # c
    <3>1. owner[d] \in Sessions
      BY DEF ControllerInv, ControllerTypeOK
    <3> QED BY <1>5, <1>7, <2>2, <3>1 DEF ControllerInv, AtWork
  <2> QED BY <2>1, <2>2
<1>11. Places'
  <2> SUFFICES ASSUME NEW d \in Items PROVE Place(d)'
    BY DEF Places
  <2>1. CASE d = c
    BY <1>2, <1>3, <1>5, <1>9, <2>1 DEF Place
  <2>2. CASE d # c
    BY <1>2, <1>5, <2>2 DEF ControllerInv, Places, Place
  <2> QED BY <2>1, <2>2
<1>12. SubmittedInOrder' /\ OneConsumer' /\ Logs'
  BY <1>1, <1>2, <1>5 DEF ControllerInv, SubmittedInOrder, OneConsumer, Logs
<1>13. Resting' /\ Tokens'
  BY <1>1, <1>2, <1>5 DEF ControllerInv, Resting, Tokens
<1> QED BY <1>7, <1>8, <1>10, <1>11, <1>12, <1>13 DEF ControllerInv

\* A consumer goes on, or leaves, outside its turn: the log and the queue stay.
Moves(c, l) ==
  /\ pc' = [pc EXCEPT ![c] = l]
  /\ UNCHANGED <<shown, submitted, removed, owner, pending, cancelled, item, log, boundVars>>

LEMMA MoveKeeps ==
  ASSUME ControllerInv, NEW c \in Items, NEW l, Moves(c, l),
         pc[c] \in {"pop", "store", "clear"}, l \in {"done", "pop", "starting"},
         cursor' \in [Items -> Nat], \A d \in Items : d # c => cursor'[d] = cursor[d],
         running' \subseteq running, \A s \in Sessions : s # owner[c] => (s \in running => s \in running'),
         l # "done" => running' = running,
         l = "starting" => pc[c] = "store" /\ cursor'[c] = Len(log[owner[c]]),
         token' = [token EXCEPT ![owner[c]] = IF l = "starting" THEN item[c] ELSE NoItem]
  PROVE  ControllerInv'
<1> USE DEF Busy, Holding, InTurn, Idle
<1>1. /\ owner[c] \in Sessions /\ pc[c] \notin Idle /\ token \in [Sessions -> Items \cup {NoItem}]
      /\ \A d \in Items : owner[d] \in Sessions
      /\ pc \in [Items -> {"none", "pop", "store", "starting", "working", "delivered", "closing", "clear", "done"}]
      /\ running \subseteq Sessions /\ submitted \subseteq Items
  BY DEF ControllerInv, ControllerTypeOK
<1>2. UNCHANGED <<shown, submitted, removed, owner, pending, cancelled, item, log>>
  BY DEF Moves
<1>3. \A d \in Items : pc[d] \notin Idle /\ d # c => owner[d] # owner[c]
  BY <1>1 DEF ControllerInv, OneConsumer
<1>4. pc'[c] = l /\ \A d \in Items : d # c => pc'[d] = pc[d]
  BY <1>1 DEF Moves
<1>5. /\ \A s \in Sessions : s # owner[c] => token'[s] = token[s]
      /\ token'[owner[c]] = IF l = "starting" THEN item[c] ELSE NoItem
  BY <1>1
<1>6. ControllerTypeOK'
  <2>1. pc' \in [Items -> {"none", "pop", "store", "starting", "working", "delivered", "closing", "clear", "done"}]
    BY <1>1 DEF Moves
  <2>2. token' \in [Sessions -> Items \cup {NoItem}]
    BY <1>1 DEF ControllerInv, ControllerTypeOK
  <2> QED BY <1>1, <1>2, <2>1, <2>2 DEF ControllerInv, ControllerTypeOK
<1>7. SubmittedInOrder' /\ Queued' /\ Logs'
  BY <1>2 DEF ControllerInv, SubmittedInOrder, Queued, Logs
<1>8. OneConsumer'
  <2>1. \A d \in Items : pc'[d] # "none" => pc[d] # "none"
    BY <1>1, <1>4
  <2>2. \A d \in Items : pc'[d] \notin Idle => pc[d] \notin Idle
    BY <1>1, <1>4
  <2>3. \A d \in Items : pc'[d] \notin Idle => owner[d] \in running'
    <3> SUFFICES ASSUME NEW d \in Items, pc'[d] \notin Idle PROVE owner[d] \in running'
      OBVIOUS
    <3>1. owner[d] \in running
      BY <2>2 DEF ControllerInv, OneConsumer
    <3>2. CASE d = c
      <4>1. l # "done"
        BY <1>4, <3>2
      <4> QED BY <3>1, <4>1
    <3>3. CASE d # c
      BY <1>1, <1>3, <2>2, <3>1, <3>3
    <3> QED BY <3>2, <3>3
  <2> QED BY <1>2, <2>1, <2>2, <2>3 DEF ControllerInv, OneConsumer
<1>9. AtWork'
  BY <1>2, <1>4 DEF ControllerInv, AtWork
<1>10. Places'
  <2> SUFFICES ASSUME NEW d \in Items PROVE Place(d)'
    BY DEF Places
  <2>1. CASE d # c
    BY <1>2, <1>4, <2>1 DEF ControllerInv, Places, Place
  <2>2. CASE d = c /\ l # "starting"
    BY <1>4, <2>2 DEF Place
  <2>3. CASE d = c /\ l = "starting"
    <3>1. \A n \in 1 .. Len(log[owner[c]]) : log[owner[c]][n].item < item[c]
      BY <2>3 DEF ControllerInv, Places, Place
    <3>2. AtRest(log[owner[c]])
      BY <1>1, <1>3, <2>3 DEF ControllerInv, Resting
    <3> QED BY <1>2, <1>4, <2>3, <3>1, <3>2 DEF Place, Begins
  <2> QED BY <2>1, <2>2, <2>3
<1>11. Resting'
  <2> SUFFICES ASSUME NEW s \in Sessions, \A d \in Items : pc'[d] \in InTurn => owner[d] # s
               PROVE  AtRest(log[s])
    BY <1>2 DEF Resting
  <2>1. \A d \in Items : pc[d] \in InTurn => owner[d] # s
    BY <1>1, <1>4
  <2> QED BY <2>1 DEF ControllerInv, Resting
<1>12. Tokens'
  <2> SUFFICES ASSUME NEW s \in Sessions, token'[s] # NoItem
               PROVE  \E d \in Items : owner[d] = s /\ item[d] = token'[s] /\ pc'[d] \in Holding
    BY <1>2 DEF Tokens
  <2>1. CASE s = owner[c]
    BY <1>4, <1>5, <2>1
  <2>2. CASE s # owner[c]
    <3>1. PICK d \in Items : owner[d] = s /\ item[d] = token[s] /\ pc[d] \in Holding
      BY <1>5, <2>2 DEF ControllerInv, Tokens
    <3> QED BY <1>4, <1>5, <2>2, <3>1
  <2> QED BY <2>1, <2>2
<1> QED BY <1>6, <1>7, <1>8, <1>9, <1>10, <1>11, <1>12 DEF ControllerInv

LEMMA ConsumerKeeps == ASSUME ControllerInv, NEW c \in Items, ConsumerStep(c) PROVE ControllerInv'
<1>1. cursor \in [Items -> Nat] /\ owner[c] \in Sessions /\ log[owner[c]] \in Seq(Events)
  BY DEF ControllerInv, ControllerTypeOK, Events
<1>2. CASE RemoveEntry(c)
  <2>1. Moves(c, "done") /\ pc[c] = "pop" /\ cursor' = cursor /\ running' = running \ {owner[c]}
        /\ token' = [token EXCEPT ![owner[c]] = NoItem]
    BY <1>2 DEF RemoveEntry, Home, Goto, Moves
  <2> QED BY <1>1, <2>1, MoveKeeps
<1>3. CASE StoreToken(c)
  <2>1. Moves(c, "starting") /\ pc[c] = "store" /\ running' = running
        /\ cursor' = [cursor EXCEPT ![c] = Len(log[owner[c]])]
        /\ token' = [token EXCEPT ![owner[c]] = item[c]]
    BY <1>3 DEF StoreToken, Home, Goto, Moves, queueVars
  <2>2. cursor' \in [Items -> Nat] /\ cursor'[c] = Len(log[owner[c]]) /\ \A d \in Items : d # c => cursor'[d] = cursor[d]
    BY <1>1, <2>1
  <2> QED BY <2>1, <2>2, MoveKeeps
<1>4. CASE ClearToken(c)
  <2>1. Moves(c, "pop") /\ pc[c] = "clear" /\ cursor' = cursor /\ running' = running
        /\ token' = [token EXCEPT ![owner[c]] = NoItem]
    BY <1>4 DEF ClearToken, Home, Goto, Moves, queueVars
  <2> QED BY <1>1, <2>1, MoveKeeps
<1> QED BY <1>2, <1>3, <1>4, PopKeeps, TurnStartKeeps, DeliverKeeps, EndKeeps, FailKeeps, CloseKeeps
        DEF ConsumerStep

LEMMA ControllerInductive == ControllerInv /\ [ControllerNext]_vars => ControllerInv'
<1> SUFFICES ASSUME ControllerInv, [ControllerNext]_vars PROVE ControllerInv'
  OBVIOUS
<1>1. CASE UNCHANGED vars
  BY <1>1 DEF vars, queueVars, turnVars, ControllerInv, ControllerTypeOK, SubmittedInOrder, OneConsumer, Queued,
              Logs, AtWork, Places, Place, Resting, Tokens
<1>2. CASE ControllerNext
  BY <1>2, OthersKeep, SubmitKeeps, RemoveKeeps, ConsumerKeeps DEF ControllerNext
<1> QED BY <1>1, <1>2

-----------------------------------------------------------------------------
(* The theorems. *)

\* The log of every session is the turns of its inputs, one after the other and in
\* the order of their submission, each closed turn of an agent with one delivery:
\* for any number of sessions and inputs, however the user submits, takes back,
\* stops and switches, and wherever turns fail.
THEOREM LogsAreWholeTurns == ControllerSpec => []ControllerSafety
<1>1. ControllerSpec => []ControllerInv
  BY ControllerInitial, ControllerInductive, PTL DEF ControllerSpec
<1> QED BY <1>1, ShapeIsSafe, PTL

\* Only the request to stop cancels, and what it finds in the entry of the session
\* shown is the token of the turn under way there.
THEOREM StopsReachTheirTurn == ControllerSpec => CancelsCurrentTurn
<1> DEFINE Stops ==
      \A i \in cancelled' \ cancelled :
        \E c \in Items : item[c] = i /\ pc[c] \notin {"none", "pop", "done"} /\ owner[i] = shown
<1>1. ControllerInv /\ [ControllerNext]_vars => [Stops]_vars
  <2> SUFFICES ASSUME ControllerInv, ControllerNext, NEW i \in cancelled' \ cancelled
               PROVE  \E c \in Items : item[c] = i /\ pc[c] \notin {"none", "pop", "done"} /\ owner[i] = shown
    OBVIOUS
  <2>1. i = token[shown] /\ i # NoItem
    BY DEF ControllerNext, Cancel, Submit, RemoveQueued, SwitchSession, ConsumerStep, PopFront, RemoveEntry,
           StoreToken, TurnStart, Deliver, TurnEnd, CouncilBlocked, TurnFails, CloseFailedTurn, ClearToken
  <2>2. shown \in Sessions
    BY DEF ControllerInv, ControllerTypeOK
  <2>3. PICK c \in Items : owner[c] = shown /\ item[c] = i /\ pc[c] \in Holding
    BY <2>1, <2>2 DEF ControllerInv, Tokens
  <2>4. owner[item[c]] = owner[c]
    BY <2>3 DEF ControllerInv, AtWork, Busy
  <2> QED BY <2>3, <2>4 DEF Holding
<1>2. ControllerSpec => []ControllerInv
  BY ControllerInitial, ControllerInductive, PTL DEF ControllerSpec
<1>3. [][Stops]_vars => CancelsCurrentTurn
  BY DEF CancelsCurrentTurn
<1> HIDE DEF Stops
<1>4. ControllerSpec => [][Stops]_vars
  BY <1>1, <1>2, PTL DEF ControllerSpec
<1> QED BY <1>3, <1>4
=============================================================================
