---------------------------- MODULE EventTables -----------------------------
(***************************************************************************)
(* The subscription tables of the contexts (HandlerTable).  A table has a  *)
(* list of (id, handler) per bucket, each under a mutex of its own, and a  *)
(* counter for ids.  A fork copies the table of its parent bucket by       *)
(* bucket while others subscribe to it, and goes on counting above the     *)
(* largest id it has copied.  A subscription lives as long as the          *)
(* Registration that on() returns, which knows one table and one id.       *)
(***************************************************************************)
EXTENDS Integers, FiniteSets, Sequences, FiniteSetsExt

CONSTANTS
  Contexts,      \* contexts, of which Root is there from the start
  Root,
  Handlers,      \* what is subscribed, each once
  Buckets,       \* the buckets, in the order in which a fork locks them
  MaxIds,        \* bound on the ids a table gives
  NoTable

BucketNames == {Buckets[i] : i \in DOMAIN Buckets}

\* What the tables hold, and what a fork under way has copied of them.
Subscribed == [id : Nat, handler : Handlers]
Copies     == [parent : Contexts, copied : Seq(SUBSET Subscribed)]

ASSUME TablesAssumption ==
  /\ Root \in Contexts /\ IsFiniteSet(Handlers) /\ MaxIds \in Nat
  /\ Buckets \in Seq(STRING) /\ Buckets # <<>>
  /\ \A i, j \in DOMAIN Buckets : Buckets[i] = Buckets[j] => i = j
  /\ NoTable \notin [BucketNames -> SUBSET Subscribed] \cup Copies

VARIABLES
  tables,      \* context -> bucket -> set of [id, handler], or NoTable
  nextId,      \* context -> id of the next subscription
  adding,      \* entries with an id that are not in their table yet
  regs,        \* registrations that are held: [ctx, bucket, id, handler]
  forking,     \* context -> [parent, copied], a fork under way, or NoTable
  owed         \* history: context -> handlers subscribed while it was forked, from
               \* its first step to its last

tableVars == <<tables, nextId, adding, regs, forking, owed>>

Entry(r) == [id |-> r.id, handler |-> r.handler]
EmptyTable == [b \in BucketNames |-> {}]

TablesInit ==
  /\ tables = [c \in Contexts |-> IF c = Root THEN EmptyTable ELSE NoTable]
  /\ nextId = [c \in Contexts |-> 1]
  /\ adding = {} /\ regs = {}
  /\ forking = [c \in Contexts |-> NoTable]
  /\ owed = [c \in Contexts |-> {}]

----------------------------------------------------------------------------
(* Subscriptions *)

Unused(h) == \A r \in adding \cup regs : r.handler # h

\* on, on_parallel, on_serial, on_waterfall: add takes an id first ...
TakeId(h, c, b) ==
  /\ tables[c] # NoTable /\ Unused(h) /\ nextId[c] <= MaxIds
  /\ \A d \in Contexts : tables[d] # NoTable => \A e \in tables[d][b] : e.handler # h
  /\ adding' = adding \cup {[ctx |-> c, bucket |-> b, id |-> nextId[c], handler |-> h]}
  /\ nextId' = [nextId EXCEPT ![c] = @ + 1]
  /\ UNCHANGED <<tables, regs, forking, owed>>

\* ... and then the lock of the bucket.
Push(r) ==
  /\ r \in adding
  /\ adding' = adding \ {r} /\ regs' = regs \cup {r}
  /\ tables' = [tables EXCEPT ![r.ctx][r.bucket] = @ \cup {Entry(r)}]
  /\ UNCHANGED <<nextId, forking, owed>>

\* Mutant: a registration takes its handler out of the first bucket.
UnsubscribeFromFirst(r) ==
  /\ r \in regs /\ regs' = regs \ {r}
  /\ tables' = [tables EXCEPT ![r.ctx][Buckets[1]] = {e \in @ : e.id # r.id}]
  /\ owed' = [c \in Contexts |-> IF forking[c] # NoTable THEN owed[c] \ {r.handler} ELSE owed[c]]
  /\ UNCHANGED <<nextId, adding, forking>>

\* Drop of a Registration: remove retains what has another id.
Unsubscribe(r) ==
  /\ r \in regs /\ regs' = regs \ {r}
  /\ tables' = [tables EXCEPT ![r.ctx][r.bucket] = {e \in @ : e.id # r.id}]
  /\ owed' = [c \in Contexts |-> IF forking[c] # NoTable THEN owed[c] \ {r.handler} ELSE owed[c]]
  /\ UNCHANGED <<nextId, adding, forking>>

----------------------------------------------------------------------------
(* Forks *)

StartFork(c, p) ==
  /\ tables[p] # NoTable /\ tables[c] = NoTable /\ forking[c] = NoTable
  /\ forking' = [forking EXCEPT ![c] = [parent |-> p, copied |-> <<>>]]
  /\ owed' = [owed EXCEPT ![c] = {e.handler : e \in UNION {tables[p][b] : b \in BucketNames}}]
  /\ UNCHANGED <<tables, nextId, adding, regs>>

\* inherit_from clones one bucket under its lock.
CloneBucket(c) ==
  /\ forking[c] # NoTable
  /\ LET done == Len(forking[c].copied) IN
     /\ done < Len(Buckets)
     /\ forking' = [forking EXCEPT ![c].copied =
          Append(@, tables[forking[c].parent][Buckets[done + 1]])]
  /\ UNCHANGED <<tables, nextId, adding, regs, owed>>

LargestOf(entries) == Max({e.id : e \in entries} \cup {0})

\* Mutant: the ids of the first bucket alone are looked at.
FirstFreeOfFirst(copied) == LargestOf(copied[1]) + 1

FirstFree(copied) == Max({LargestOf(copied[i]) : i \in DOMAIN copied}) + 1

EndFork(c) ==
  /\ forking[c] # NoTable /\ Len(forking[c].copied) = Len(Buckets)
  /\ tables' = [tables EXCEPT ![c] =
       [b \in BucketNames |-> UNION {forking[c].copied[i] : i \in {j \in DOMAIN Buckets : Buckets[j] = b}}]]
  /\ nextId' = [nextId EXCEPT ![c] = FirstFree(forking[c].copied)]
  /\ forking' = [forking EXCEPT ![c] = NoTable]
  /\ UNCHANGED <<adding, regs, owed>>

TablesNext ==
  \/ \E h \in Handlers, c \in Contexts, b \in BucketNames : TakeId(h, c, b)
  \/ \E r \in adding : Push(r)
  \/ \E r \in regs : Unsubscribe(r)
  \/ \E c, p \in Contexts : StartFork(c, p)
  \/ \E c \in Contexts : CloneBucket(c) \/ EndFork(c)

TablesSpec == TablesInit /\ [][TablesNext]_tableVars

----------------------------------------------------------------------------
(* Properties *)

\* No two handlers of a list have one id, those on their way into it included:
\* else the end of one subscription would be the end of the other.
IdsUnique ==
  \A c \in Contexts : tables[c] # NoTable => \A b \in BucketNames :
    LET coming == {Entry(r) : r \in {a \in adding : a.ctx = c /\ a.bucket = b}}
    IN  \A d, e \in tables[c][b] \cup coming : d.id = e.id => d = e

\* A handler whose registration is held is in the table that it was put into.
RegisteredIsHeard == \A r \in regs : Entry(r) \in tables[r.ctx][r.bucket]

\* One that was subscribed throughout a fork is in the fork, for good: whatever
\* the fork's own registrations do, and whatever the parent drops afterwards.
ForkInherits ==
  \A c \in Contexts \ {Root} : tables[c] # NoTable =>
    \A h \in owed[c] : \E b \in BucketNames : \E e \in tables[c][b] : e.handler = h

\* What is in the root's table is registered: a plugin that is unloaded is not
\* heard there any more.  A fork keeps what it has inherited.
DroppedIsSilent ==
  \A b \in BucketNames : \A e \in tables[Root][b] :
    \E r \in regs : r.ctx = Root /\ r.bucket = b /\ Entry(r) = e

TablesSafety == IdsUnique /\ RegisteredIsHeard /\ ForkInherits /\ DroppedIsSilent
=============================================================================
