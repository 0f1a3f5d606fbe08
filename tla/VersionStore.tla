---------------------------- MODULE VersionStore ----------------------------
(***************************************************************************)
(* What the artifact vault promises to its callers, without its lock, its  *)
(* files and its processes: a store of versions in which every call takes  *)
(* effect in one step or not at all.  A publication adds its version if    *)
(* there are as many as its caller has seen; a selection makes a version   *)
(* of the key its authority; nothing else changes either.  A call that     *)
(* succeeds has taken effect, one that fails has not, and of one whose     *)
(* caller died nobody knows.                                               *)
(***************************************************************************)
EXTENDS Integers, Sequences

CONSTANTS
  Actors,
  KeyOf,        \* the key of a call
  Publishers,   \* calls that publish; the others select
  None          \* no version

VARIABLES
  versions,     \* of each key
  authority,    \* of each key a version, or None
  stage,        \* of a call: "new", "asked", "stored", "ok", "failed" or "lost"
  seen          \* how many versions its caller has seen

storeVars == <<versions, authority, stage, seen>>

StoreKeys == {KeyOf[a] : a \in Actors}

StoreInit ==
  /\ versions = [k \in StoreKeys |-> <<>>]
  /\ authority = [k \in StoreKeys |-> None]
  /\ stage = [a \in Actors |-> "new"]
  /\ seen = [a \in Actors |-> 0]

\* Who publishes looks first, and may be told that there is nothing yet.
Request(a) ==
  /\ stage[a] = "new"
  /\ stage' = [stage EXCEPT ![a] = "asked"]
  /\ IF a \in Publishers THEN \E n \in {0, Len(versions[KeyOf[a]])} : seen' = [seen EXCEPT ![a] = n]
                         ELSE UNCHANGED seen
  /\ UNCHANGED <<versions, authority>>

AddVersion(a) ==
  /\ stage[a] = "asked" /\ a \in Publishers
  /\ Len(versions[KeyOf[a]]) = seen[a]
  /\ stage' = [stage EXCEPT ![a] = "stored"]
  /\ versions' = [versions EXCEPT ![KeyOf[a]] = Append(@, a)]
  /\ UNCHANGED <<authority, seen>>

ChooseVersion(a) ==
  /\ stage[a] = "asked" /\ a \notin Publishers
  /\ stage' = [stage EXCEPT ![a] = "stored"]
  /\ \E i \in DOMAIN versions[KeyOf[a]] :
       authority' = [authority EXCEPT ![KeyOf[a]] = versions[KeyOf[a]][i]]
  /\ UNCHANGED <<versions, seen>>

Succeed(a) ==
  /\ stage[a] = "stored"
  /\ stage' = [stage EXCEPT ![a] = "ok"]
  /\ UNCHANGED <<versions, authority, seen>>

Refuse(a) ==
  /\ stage[a] \in {"new", "asked"}
  /\ stage' = [stage EXCEPT ![a] = "failed"]
  /\ UNCHANGED <<versions, authority, seen>>

\* The callers of some calls die.
Lose(S) ==
  /\ \A a \in S : stage[a] \in {"asked", "stored"}
  /\ stage' = [a \in Actors |-> IF a \in S THEN "lost" ELSE stage[a]]
  /\ UNCHANGED <<versions, authority, seen>>

StoreNext ==
  \/ \E a \in Actors : Request(a) \/ AddVersion(a) \/ ChooseVersion(a) \/ Succeed(a) \/ Refuse(a)
  \/ \E S \in SUBSET Actors : Lose(S)

StoreSpec == StoreInit /\ [][StoreNext]_storeVars
=============================================================================
