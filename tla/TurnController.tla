--------------------------- MODULE TurnController ----------------------------
(***************************************************************************)
(* The session controller (controller.rs): a FIFO of inputs per session,   *)
(* one consumer task per session that runs a turn for each input, the      *)
(* cancellation of the running turn, and the events that a turn appends to *)
(* the log of its session (agent_loop.rs, council.rs) or that              *)
(* close_failed_turn appends for it.                                       *)
(*                                                                         *)
(* The entry of a session in the map of queues exists exactly while its    *)
(* running flag is set.  A consumer is named after the input whose         *)
(* submission spawned it.  The map is behind a mutex that no step keeps.   *)
(***************************************************************************)
EXTENDS Naturals, Sequences

CONSTANTS
  Sessions,
  Items,        \* inputs, numbered in the order of their submission
  Councils,     \* those that start a council
  NoItem,       \* not an input
  MaxSwitches,  \* bound on changes of the session shown
  MaxCancels    \* bound on requests to stop

ASSUME ControllerAssumption ==
  /\ Items \subseteq Nat
  /\ Councils \subseteq Items
  /\ NoItem \notin Items
  /\ MaxSwitches \in Nat
  /\ MaxCancels \in Nat

VARIABLES
  shown,        \* the session that the interface shows
  submitted,    \* inputs so far
  removed,      \* inputs taken back before their turn
  owner,        \* history: the session of a submitted input
  running,      \* sessions with an entry in the map of queues
  pending,      \* the FIFO of each session
  token,        \* the input whose CancellationToken the entry holds, or NoItem
  cancelled,    \* inputs whose token is cancelled
  pc,           \* where each consumer is
  item,         \* the input it runs
  cursor,       \* length of the log when that turn began
  log,          \* events of each session
  switches,
  cancels

queueVars == <<submitted, removed, owner, running, pending>>
turnVars == <<pc, item, cursor, log>>
boundVars == <<switches, cancels>>
vars == <<shown, queueVars, token, cancelled, turnVars, boundVars>>

ControllerInit ==
  /\ shown \in Sessions
  /\ submitted = {}
  /\ removed = {}
  /\ owner = [i \in Items |-> shown]
  /\ running = {}
  /\ pending = [s \in Sessions |-> <<>>]
  /\ token = [s \in Sessions |-> NoItem]
  /\ cancelled = {}
  /\ pc = [c \in Items |-> "none"]
  /\ item = [c \in Items |-> NoItem]
  /\ cursor = [c \in Items |-> 0]
  /\ log = [s \in Sessions |-> <<>>]
  /\ switches = 0
  /\ cancels = 0

Goto(c, l) == pc' = [pc EXCEPT ![c] = l]

-----------------------------------------------------------------------------
(* What the user does.                                                      *)

\* Mutant: a consumer is spawned although there is one.
SubmitAndAlwaysSpawn(i) ==
  /\ i \notin submitted
  /\ \A j \in Items : j < i => j \in submitted
  /\ submitted' = submitted \cup {i}
  /\ owner' = [owner EXCEPT ![i] = shown]
  /\ pending' = [pending EXCEPT ![shown] = Append(@, i)]
  /\ running' = running \cup {shown}
  /\ Goto(i, "pop")
  /\ UNCHANGED <<shown, removed, token, cancelled, item, cursor, log, boundVars>>

\* submit_with_attachments: the push and the test of running are one step.
Submit(i) ==
  /\ i \notin submitted
  /\ \A j \in Items : j < i => j \in submitted
  /\ submitted' = submitted \cup {i}
  /\ owner' = [owner EXCEPT ![i] = shown]
  /\ pending' = [pending EXCEPT ![shown] = Append(@, i)]
  /\ running' = running \cup {shown}
  /\ IF shown \in running THEN UNCHANGED pc ELSE Goto(i, "pop")
  /\ UNCHANGED <<shown, removed, token, cancelled, item, cursor, log, boundVars>>

\* Mutant: the input is reported as removed and stays in the queue.
RemoveQueuedKeeps(i) ==
  /\ shown \in running
  /\ \E n \in DOMAIN pending[shown] : pending[shown][n] = i
  /\ removed' = removed \cup {i}
  /\ UNCHANGED <<shown, submitted, owner, running, pending, token, cancelled,
                 turnVars, boundVars>>

RemoveQueued(i) ==
  /\ shown \in running
  /\ \E n \in DOMAIN pending[shown] :
       /\ pending[shown][n] = i
       /\ pending' = [pending EXCEPT ![shown] =
                        SubSeq(@, 1, n - 1) \o SubSeq(@, n + 1, Len(@))]
  /\ removed' = removed \cup {i}
  /\ UNCHANGED <<shown, submitted, owner, running, token, cancelled, turnVars,
                 boundVars>>

\* cancel(): the token of the session shown, if it has one.
Cancel ==
  /\ cancels < MaxCancels
  /\ cancels' = cancels + 1
  /\ cancelled' = cancelled \cup ({token[shown]} \ {NoItem})
  /\ UNCHANGED <<shown, queueVars, token, turnVars, switches>>

\* new_session and the history: a consumer keeps the log it has pinned.
SwitchSession ==
  /\ switches < MaxSwitches
  /\ switches' = switches + 1
  /\ shown' \in Sessions \ {shown}
  /\ UNCHANGED <<queueVars, token, cancelled, turnVars, cancels>>

-----------------------------------------------------------------------------
(* run_turn_queue.                                                          *)

Home(c) == owner[c]
Event(k, i) == [kind |-> k, item |-> i]
LogEvents(c, es) == log' = [log EXCEPT ![Home(c)] = @ \o es]

\* Mutant: the last input is taken first.
PopBack(c) ==
  /\ pc[c] = "pop"
  /\ pending[Home(c)] # <<>>
  /\ LET last == Len(pending[Home(c)]) IN
       /\ item' = [item EXCEPT ![c] = pending[Home(c)][last]]
       /\ pending' = [pending EXCEPT ![Home(c)] = SubSeq(@, 1, last - 1)]
  /\ Goto(c, "store")
  /\ UNCHANGED <<shown, submitted, removed, owner, running, token, cancelled,
                 cursor, log, boundVars>>

PopFront(c) ==
  /\ pc[c] = "pop"
  /\ pending[Home(c)] # <<>>
  /\ item' = [item EXCEPT ![c] = Head(pending[Home(c)])]
  /\ pending' = [pending EXCEPT ![Home(c)] = Tail(@)]
  /\ Goto(c, "store")
  /\ UNCHANGED <<shown, submitted, removed, owner, running, token, cancelled,
                 cursor, log, boundVars>>

\* Mutant: the entry stays in the map when the consumer leaves.
LeaveEntry(c) ==
  /\ pc[c] = "pop"
  /\ pending[Home(c)] = <<>>
  /\ Goto(c, "done")
  /\ UNCHANGED <<shown, queueVars, token, cancelled, item, cursor, log, boundVars>>

\* The queue is empty: the entry goes, token and all, in the same step.
RemoveEntry(c) ==
  /\ pc[c] = "pop"
  /\ pending[Home(c)] = <<>>
  /\ running' = running \ {Home(c)}
  /\ token' = [token EXCEPT ![Home(c)] = NoItem]
  /\ Goto(c, "done")
  /\ UNCHANGED <<shown, submitted, removed, owner, pending, cancelled, item, cursor,
                 log, boundVars>>

StoreToken(c) ==
  /\ pc[c] = "store"
  /\ token' = [token EXCEPT ![Home(c)] = item[c]]
  /\ cursor' = [cursor EXCEPT ![c] = Len(log[Home(c)])]
  /\ Goto(c, "starting")
  /\ UNCHANGED <<shown, queueVars, cancelled, item, log, boundVars>>

TurnStart(c) ==
  /\ pc[c] = "starting"
  /\ LogEvents(c, <<Event("start", item[c])>>)
  /\ Goto(c, "working")
  /\ UNCHANGED <<shown, queueVars, token, cancelled, item, cursor, boundVars>>

Deliver(c) ==
  /\ pc[c] = "working"
  /\ LogEvents(c, <<Event("delivery", item[c])>>)
  /\ Goto(c, "delivered")
  /\ UNCHANGED <<shown, queueVars, token, cancelled, item, cursor, boundVars>>

\* The end of the turn; a durable one may still fail to finalize its task, and
\* returns that error.
TurnEnd(c) ==
  /\ pc[c] = "delivered"
  /\ LogEvents(c, <<Event("end", item[c])>>)
  /\ pc' \in {[pc EXCEPT ![c] = l] : l \in {"clear", "closing"}}
  /\ UNCHANGED <<shown, queueVars, token, cancelled, item, cursor, boundVars>>

\* A blocked council ends its turn without a Delivery, and run_durable_turn
\* makes an error of that.
CouncilBlocked(c) ==
  /\ pc[c] = "working"
  /\ item[c] \in Councils
  /\ LogEvents(c, <<Event("end", item[c])>>)
  /\ Goto(c, "closing")
  /\ UNCHANGED <<shown, queueVars, token, cancelled, item, cursor, boundVars>>

\* The turn returns an error, panics or is dropped at its deadline.
TurnFails(c) ==
  /\ pc[c] \in {"starting", "working", "delivered"}
  /\ Goto(c, "closing")
  /\ UNCHANGED <<shown, queueVars, token, cancelled, item, cursor, log, boundVars>>

\* Mutant: the report is left out.
CloseFailedTurnBare(c) ==
  /\ pc[c] = "closing"
  /\ LET current == SubSeq(log[Home(c)], cursor[c] + 1, Len(log[Home(c)]))
         Has(k) == \E n \in DOMAIN current : current[n].kind = k
         Missing(k) == IF Has(k) THEN <<>> ELSE <<Event(k, item[c])>>
     IN  IF Has("end") THEN UNCHANGED log
         ELSE LogEvents(c, Missing("start") \o <<Event("end", item[c])>>)
  /\ Goto(c, "clear")
  /\ UNCHANGED <<shown, queueVars, token, cancelled, item, cursor, boundVars>>

\* Mutant: a Delivery is added whether there is one or not.
CloseFailedTurnTwice(c) ==
  /\ pc[c] = "closing"
  /\ LET current == SubSeq(log[Home(c)], cursor[c] + 1, Len(log[Home(c)]))
         Has(k) == \E n \in DOMAIN current : current[n].kind = k
     IN  IF Has("end") THEN UNCHANGED log
         ELSE LogEvents(c, (IF Has("start") THEN <<>> ELSE <<Event("start", item[c])>>)
                             \o <<Event("delivery", item[c]), Event("end", item[c])>>)
  /\ Goto(c, "clear")
  /\ UNCHANGED <<shown, queueVars, token, cancelled, item, cursor, boundVars>>

\* close_failed_turn adds what the events of this turn lack, and nothing when
\* they have their end.
CloseFailedTurn(c) ==
  /\ pc[c] = "closing"
  /\ LET current == SubSeq(log[Home(c)], cursor[c] + 1, Len(log[Home(c)]))
         Has(k) == \E n \in DOMAIN current : current[n].kind = k
         Missing(k) == IF Has(k) THEN <<>> ELSE <<Event(k, item[c])>>
     IN  IF Has("end") THEN UNCHANGED log
         ELSE LogEvents(c, Missing("start") \o Missing("delivery")
                             \o <<Event("end", item[c])>>)
  /\ Goto(c, "clear")
  /\ UNCHANGED <<shown, queueVars, token, cancelled, item, cursor, boundVars>>

\* Mutant: the token of the turn that has ended stays in the entry.
KeepToken(c) ==
  /\ pc[c] = "clear"
  /\ Goto(c, "pop")
  /\ UNCHANGED <<shown, queueVars, token, cancelled, item, cursor, log, boundVars>>

ClearToken(c) ==
  /\ pc[c] = "clear"
  /\ token' = [token EXCEPT ![Home(c)] = NoItem]
  /\ Goto(c, "pop")
  /\ UNCHANGED <<shown, queueVars, cancelled, item, cursor, log, boundVars>>

ConsumerStep(c) ==
  \/ PopFront(c) \/ RemoveEntry(c) \/ StoreToken(c)
  \/ TurnStart(c) \/ Deliver(c) \/ TurnEnd(c) \/ CouncilBlocked(c) \/ TurnFails(c)
  \/ CloseFailedTurn(c) \/ ClearToken(c)

ControllerNext ==
  \/ \E i \in Items : Submit(i) \/ RemoveQueued(i)
  \/ Cancel
  \/ SwitchSession
  \/ \E c \in Items : ConsumerStep(c)

\* The runtime polls every consumer, and every turn ends (its model requests
\* and tools have time limits of their own).
ControllerFairness == \A c \in Items : WF_vars(ConsumerStep(c))

ControllerSpec == ControllerInit /\ [][ControllerNext]_vars /\ ControllerFairness

-----------------------------------------------------------------------------
ControllerTypeOK ==
  /\ shown \in Sessions
  /\ removed \subseteq submitted /\ submitted \subseteq Items
  /\ owner \in [Items -> Sessions]
  /\ running \subseteq Sessions
  /\ pending \in [Sessions -> Seq(submitted \ removed)]
  /\ token \in [Sessions -> Items \cup {NoItem}]
  /\ cancelled \subseteq Items
  /\ pc \in [Items -> {"none", "pop", "store", "starting", "working", "delivered",
                       "closing", "clear", "done"}]
  /\ item \in [Items -> Items \cup {NoItem}]
  /\ cursor \in [Items -> Nat]
  /\ log \in [Sessions -> Seq([kind : {"start", "delivery", "end"}, item : Items])]

\* A session has one consumer at a time, so turns of one log never mix: after a
\* turn's first event only that turn's events follow until its end, whatever
\* is submitted, removed or shown meanwhile.
TurnsNeverMix ==
  \A s \in Sessions : \A n \in 1..Len(log[s]) - 1 :
    LET e == log[s][n] f == log[s][n + 1] IN
      IF e.kind = "end" THEN f.kind = "start" /\ f.item # e.item
                        ELSE f.item = e.item /\ f.kind # "start"

\* A report there is, is not generated again: INVARIANTS.md, on Delivery.
AtMostOneDelivery ==
  \A s \in Sessions : \A m, n \in DOMAIN log[s] :
    log[s][m].kind = "delivery" /\ log[s][n] = log[s][m] => m = n

\* A closed turn has its conclusion, however it ended.  The controller sees to
\* it for errors, panics and timeouts, the agent loop for everything else.
EndsDelivered(turns) ==
  \A s \in Sessions : \A n \in DOMAIN log[s] :
    log[s][n].kind = "end" /\ log[s][n].item \in turns =>
      n > 1 /\ log[s][n - 1].kind = "delivery"

AgentTurnsDelivered == EndsDelivered(Items \ Councils)
EveryTurnDelivered == EndsDelivered(Items)

\* ui_input.rs, cancel(): a request to stop is for the turn under way; when there
\* is none it does nothing, and never stops a later one.
CancelsCurrentTurn ==
  [][\A i \in cancelled' \ cancelled :
       \E c \in Items : item[c] = i /\ pc[c] \notin {"none", "pop", "done"}
                          /\ owner[i] = shown]_vars

\* Every input gets its turn, and the turn its end, unless it is taken back.
EveryInputServed ==
  \A i \in Items : i \in submitted ~>
    \/ i \in removed
    \/ \E n \in DOMAIN log[owner[i]] : log[owner[i]][n] = Event("end", i)

\* Turns of a session are in the order of their submission.
SubmissionOrder ==
  \A s \in Sessions : \A m, n \in DOMAIN log[s] :
    m < n => log[s][m].item <= log[s][n].item

\* The safety of the controller: the log of a session is the turns of its inputs,
\* one after the other, in their order; and a turn that is closed was delivered
\* once, however it ended.
ControllerSafety ==
  /\ ControllerTypeOK /\ TurnsNeverMix /\ SubmissionOrder
  /\ AtMostOneDelivery /\ AgentTurnsDelivered
=============================================================================
