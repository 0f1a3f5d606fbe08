------------------------ MODULE ArtifactVault_proofs -------------------------
(***************************************************************************)
(* Proofs about ArtifactVault.  For any processes and calls, whatever they *)
(* do to each other and wherever they die: the files hold vaults, and the  *)
(* authority of a key is a version of it.  For any calls of one process    *)
(* that keep within the expiry of the lock: what a publication returned    *)
(* stays at its generation, what failed has left nothing, and the vault is *)
(* a store of versions (VersionStore).                                     *)
(*                                                                         *)
(* And about CouncilDag, for every bound on the experts, the attempts and  *)
(* the failures: nodes in the order of the graph, as often as they may,    *)
(* and an outcome that has its reason in them.                             *)
(***************************************************************************)
EXTENDS VaultStore, CouncilDag, SequenceTheorems, FiniteSetTheorems,
        WellFoundedInduction, NaturalsInduction, TLAPS

USE VaultAssumption, NoneAssumption

-----------------------------------------------------------------------------
(* The files.                                                               *)

WellMade(s) == \A k \in Keys : s.authority[k] # None => s.authority[k] \in Members(s.versions[k])

\* A call looks at the lock at most twice.
LooksCounted ==
  \A a \in Actors : /\ pc[a] = "new" => tries[a] = 0
                    /\ pc[a] \in {"acquire", "stealing"} => tries[a] \in 0 .. 1

\* Whoever reads a file, or is about to write one, has a vault in hand.
FilesInv ==
  /\ VaultTypeOK
  /\ LooksCounted
  /\ \A s \in {refs, backup} \ {None} : WellMade(s)
  /\ \A a \in Actors : WellMade(saving[a]) /\ (temp[a] # None => WellMade(temp[a]))

LEMMA NoneIs == None \notin VaultState /\ None \notin LockFile /\ \A a \in Actors : KeyOf[a] \in Keys
BY DEF Keys

LEMMA StateIs ==
  ASSUME NEW s \in VaultState, NEW k \in Keys
  PROVE  /\ s.versions \in [Keys -> Seq(Actors)] /\ s.authority \in [Keys -> Actors \cup {None}]
         /\ s.versions[k] \in Seq(Actors) /\ s.authority[k] \in Actors \cup {None}
         /\ Len(s.versions[k]) \in Nat
BY DEF VaultState

LEMMA EmptyIs == Empty \in VaultState /\ WellMade(Empty)
BY DEF Empty, VaultState, WellMade

LEMMA LoadIs == FilesInv => Load \in VaultState /\ WellMade(Load)
BY EmptyIs DEF FilesInv, VaultTypeOK, Load

LEMMA AppendIs ==
  ASSUME NEW q \in Seq(Actors), NEW a \in Actors
  PROVE  /\ Append(q, a) \in Seq(Actors) /\ Len(Append(q, a)) = Len(q) + 1
         /\ \A i \in DOMAIN q : i \in DOMAIN Append(q, a) /\ Append(q, a)[i] = q[i]
         /\ Append(q, a)[Len(q) + 1] = a /\ Len(q) + 1 \in DOMAIN Append(q, a)
         /\ Members(Append(q, a)) = Members(q) \cup {a}
<1>1. /\ Append(q, a) \in Seq(Actors) /\ Len(Append(q, a)) = Len(q) + 1
      /\ \A i \in 1 .. Len(q) : Append(q, a)[i] = q[i]
      /\ Append(q, a)[Len(q) + 1] = a
  BY AppendProperties
<1>2. DOMAIN q = 1 .. Len(q) /\ DOMAIN Append(q, a) = 1 .. Len(q) + 1 /\ Len(q) \in Nat
  BY <1>1, LenProperties
<1>3. Members(Append(q, a)) = Members(q) \cup {a}
  <2> DEFINE n == Len(q) r == Append(q, a)
  <2>1. /\ n \in Nat /\ DOMAIN q = 1 .. n /\ DOMAIN r = 1 .. n + 1
        /\ \A i \in 1 .. n : r[i] = q[i]
        /\ r[n + 1] = a
    BY <1>1, <1>2
  <2> HIDE DEF n, r
  <2>2. \A i \in 1 .. n + 1 : i \in 1 .. n \/ i = n + 1
    BY <2>1
  <2>3. 1 .. n \subseteq 1 .. n + 1 /\ n + 1 \in 1 .. n + 1
    BY <2>1
  <2>4. Members(r) = Members(q) \cup {a}
    BY <2>1, <2>2, <2>3 DEF Members
  <2> QED BY <2>4 DEF r
<1>4. 1 .. Len(q) \subseteq 1 .. Len(q) + 1 /\ Len(q) + 1 \in 1 .. Len(q) + 1
  BY <1>2
<1> QED BY <1>1, <1>2, <1>3, <1>4

\* What a publication is about to save: the version is added to its key.
LEMMA PublishIs ==
  ASSUME NEW s \in VaultState, NEW a \in Actors
  PROVE  LET n == [s EXCEPT !.versions[KeyOf[a]] = Append(@, a)] IN
         /\ n \in VaultState
         /\ n.versions = [s.versions EXCEPT ![KeyOf[a]] = Append(s.versions[KeyOf[a]], a)]
         /\ WellMade(s) => WellMade(n)
<1> DEFINE k == KeyOf[a] v == [s.versions EXCEPT ![k] = Append(s.versions[k], a)] n == [s EXCEPT !.versions = v]
<1>1. [s EXCEPT !.versions[KeyOf[a]] = Append(@, a)] = n
  BY DEF VaultState
<1>2. k \in Keys /\ s.versions \in [Keys -> Seq(Actors)] /\ Append(s.versions[k], a) \in Seq(Actors)
  BY NoneIs, StateIs, AppendIs
<1>3. n \in VaultState /\ n.versions = v /\ n.authority = s.authority
  BY <1>2 DEF VaultState
<1>4. \A j \in Keys : Members(s.versions[j]) \subseteq Members(v[j])
  BY <1>2, AppendIs
<1> QED BY <1>1, <1>3, <1>4 DEF WellMade

\* What a selection is about to save: a version of the key is its authority.
LEMMA SelectIs ==
  ASSUME NEW s \in VaultState, NEW a \in Actors, NEW hash \in Actors, hash \in Members(s.versions[KeyOf[a]])
  PROVE  LET n == [s EXCEPT !.authority[KeyOf[a]] = hash] IN
         /\ n \in VaultState /\ n.versions = s.versions
         /\ WellMade(s) => WellMade(n)
<1> DEFINE k == KeyOf[a] n == [s EXCEPT !.authority = [s.authority EXCEPT ![k] = hash]]
<1>1. [s EXCEPT !.authority[KeyOf[a]] = hash] = n
  BY DEF VaultState
<1>2. k \in Keys /\ s.authority \in [Keys -> Actors \cup {None}]
  BY NoneIs, StateIs
<1>3. n \in VaultState /\ n.versions = s.versions /\ n.authority = [s.authority EXCEPT ![k] = hash]
  BY <1>2 DEF VaultState
<1> QED BY <1>1, <1>2, <1>3 DEF WellMade

LEMMA FilesInitial == VaultInit => FilesInv
<1> SUFFICES ASSUME VaultInit PROVE FilesInv
  OBVIOUS
<1>1. VaultTypeOK
  BY EmptyIs DEF VaultInit, VaultTypeOK, Outside
<1> QED BY <1>1, EmptyIs DEF VaultInit, FilesInv, LooksCounted

Places == Outside \cup Locked

\* The program counter moves within its places.
LEMMA MovesWithin ==
  ASSUME FilesInv, NEW w \in Processes \cup Actors, NEW l \in Places, Goto(w, l)
  PROVE  pc' \in [Processes \cup Actors -> Outside \cup Locked] /\ pc'[w] = l
BY DEF FilesInv, VaultTypeOK, Goto, Places

\* LooksCounted follows from where the calls go.
LEMMA AttemptsKept ==
  ASSUME FilesInv, tries' = tries,
         \A a \in Actors : /\ pc'[a] = "new" => pc[a] = "new"
                           /\ pc'[a] \in {"acquire", "stealing"} => pc[a] \in {"new", "acquire", "stealing"}
  PROVE  LooksCounted'
<1>1. ASSUME NEW a \in Actors, pc'[a] = "new" PROVE tries'[a] = 0
  BY <1>1 DEF FilesInv, LooksCounted
<1>2. ASSUME NEW a \in Actors, pc'[a] \in {"acquire", "stealing"} PROVE tries'[a] \in 0 .. 1
  <2>1. tries[a] = 0 \/ tries[a] \in 0 .. 1
    BY <1>2 DEF FilesInv, LooksCounted
  <2> QED BY <2>1
<1> QED BY <1>1, <1>2 DEF LooksCounted

\* A call that leaves the files and what it is about to save alone.
LEMMA CallKeepsFiles ==
  ASSUME FilesInv, NEW a \in Actors,
         \/ Begin(a) \/ BeginFails(a) \/ CreateLock(a) \/ StampLock(a) \/ LookAtLock(a) \/ RemoveExpired(a)
         \/ Unlock(a)
  PROVE  FilesInv'
<1>1. /\ UNCHANGED <<diskVars, saving, done, crashes>>
      /\ \A s \in {refs, backup} \ {None} : WellMade(s)
      /\ \A b \in Actors : WellMade(saving[b]) /\ (temp[b] # None => WellMade(temp[b]))
  BY DEF FilesInv, Begin, BeginFails, CreateLock, StampLock, LookAtLock, RemoveExpired, Unlock, callVars
<1>2. /\ lock \in LockFile \cup {None} /\ expected \in [Actors -> Nat] /\ tries \in [Actors -> 0 .. 2]
      /\ published \subseteq Keys \X Nat \X Actors
      /\ pc \in [Processes \cup Actors -> Outside \cup Locked]
  BY DEF FilesInv, VaultTypeOK
<1>3. \E l \in Places : Goto(a, l)
  BY DEF Begin, BeginFails, CreateLock, StampLock, LookAtLock, RemoveExpired, Unlock, Places, Outside, Locked
<1>4. lock' \in LockFile \cup {None}
  <2>1. CASE StampLock(a)
    BY <1>2, <2>1 DEF StampLock, LockFile
  <2>2. CASE CreateLock(a)
    BY <2>2 DEF CreateLock, LockFile
  <2>3. CASE RemoveExpired(a) \/ Unlock(a)
    BY <2>3 DEF RemoveExpired, Unlock
  <2>4. CASE Begin(a) \/ BeginFails(a) \/ LookAtLock(a)
    BY <1>2, <2>4 DEF Begin, BeginFails, LookAtLock
  <2> QED BY <2>1, <2>2, <2>3, <2>4
<1>5. expected' \in [Actors -> Nat]
  <2>1. CASE Begin(a)
    <3>1. Len(Load.versions[KeyOf[a]]) \in Nat
      BY LoadIs, NoneIs, StateIs
    <3> QED BY <1>2, <2>1, <3>1 DEF Begin
  <2>2. CASE ~ Begin(a)
    BY <1>2, <2>2 DEF BeginFails, CreateLock, StampLock, LookAtLock, RemoveExpired, Unlock, callVars
  <2> QED BY <2>1, <2>2
<1>6. tries' \in [Actors -> 0 .. 2]
  <2>1. CASE RemoveExpired(a)
    <3>1. tries' = [tries EXCEPT ![a] = tries[a] + 1] /\ tries[a] \in 0 .. 1
      BY <1>2, <2>1 DEF RemoveExpired, FilesInv, LooksCounted
    <3> QED BY <1>2, <3>1
  <2>2. CASE ~ RemoveExpired(a)
    BY <1>2, <2>2 DEF Begin, BeginFails, CreateLock, StampLock, LookAtLock, Unlock, callVars
  <2> QED BY <2>1, <2>2
<1>7. published' \subseteq Keys \X Nat \X Actors
  <2>1. CASE Unlock(a)
    BY <1>2, <2>1, NoneIs DEF Unlock
  <2>2. CASE ~ Unlock(a)
    BY <1>2, <2>2 DEF Begin, BeginFails, CreateLock, StampLock, LookAtLock, RemoveExpired, callVars
  <2> QED BY <2>1, <2>2
<1>8. VaultTypeOK'
  BY <1>1, <1>3, <1>4, <1>5, <1>6, <1>7, MovesWithin DEF FilesInv, VaultTypeOK, diskVars
<1>9. LooksCounted'
  <2>1. CASE RemoveExpired(a)
    <3>1. tries \in [Actors -> 0 .. 2] /\ tries' = [tries EXCEPT ![a] = tries[a] + 1] /\ pc[a] = "stealing"
          /\ pc' = [pc EXCEPT ![a] = IF tries[a] = 0 THEN "acquire" ELSE "failed"]
      BY <1>2, <2>1 DEF RemoveExpired, Goto
    <3>2. \A b \in Actors : b # a => pc'[b] = pc[b] /\ tries'[b] = tries[b]
      BY <1>2, <3>1
    <3>3. pc'[a] # "new" /\ (pc'[a] \in {"acquire", "stealing"} => tries'[a] = 1)
      BY <1>2, <3>1
    <3> QED BY <3>2, <3>3 DEF FilesInv, LooksCounted
  <2>2. CASE ~ RemoveExpired(a)
    BY <1>2, <2>2, AttemptsKept DEF Begin, BeginFails, CreateLock, StampLock, LookAtLock, Unlock, callVars, Goto
  <2> QED BY <2>1, <2>2
<1> QED BY <1>1, <1>8, <1>9 DEF FilesInv, diskVars, WellMade

\* The step that computes what is to be saved.
LEMMA OperationKeepsFiles ==
  ASSUME FilesInv, NEW a \in Actors, Publish(a) \/ Select(a)
  PROVE  FilesInv'
<1>1. /\ UNCHANGED <<diskVars, lock, expected, tries, done, published, crashes>>
      /\ saving \in [Actors -> VaultState] /\ \A b \in Actors : WellMade(saving[b])
  BY DEF FilesInv, VaultTypeOK, Publish, Select
<1>2. \E n \in VaultState : WellMade(n) /\ saving' \in {saving, [saving EXCEPT ![a] = n]}
  <2>1. CASE Publish(a)
    BY <2>1, LoadIs, PublishIs DEF Publish
  <2>2. CASE Select(a)
    <3>1. PICK hash \in Publishers :
            IF hash \in Members(Load.versions[KeyOf[a]])
              THEN saving' = [saving EXCEPT ![a] = [Load EXCEPT !.authority[KeyOf[a]] = hash]]
              ELSE UNCHANGED saving
      BY <2>2 DEF Select
    <3>2. hash \in Actors
      OBVIOUS
    <3>3. CASE hash \in Members(Load.versions[KeyOf[a]])
      BY <3>1, <3>2, <3>3, LoadIs, SelectIs
    <3>4. CASE hash \notin Members(Load.versions[KeyOf[a]])
      BY <3>1, <3>4, EmptyIs
    <3> QED BY <3>3, <3>4
  <2> QED BY <2>1, <2>2
<1>3. saving' \in [Actors -> VaultState] /\ \A b \in Actors : WellMade(saving'[b])
  BY <1>1, <1>2
<1>4. \E l \in Places : Goto(a, l)
  BY DEF Publish, Select, Places, Outside, Locked
<1>5. VaultTypeOK'
  BY <1>1, <1>3, <1>4, MovesWithin DEF FilesInv, VaultTypeOK, diskVars
<1>6. LooksCounted'
  BY <1>1, AttemptsKept DEF FilesInv, VaultTypeOK, Publish, Select, Goto
<1> QED BY <1>1, <1>3, <1>5, <1>6 DEF FilesInv, diskVars, WellMade

\* The files are replaced by each other, and by what was to be saved.
LEMMA WritesKeepFiles ==
  ASSUME FilesInv, NEW w \in Processes \cup Actors,
         \/ RecoverStep(w)
         \/ w \in Actors /\ (WriteTemporary(w) \/ SwapOut(w) \/ SwapIn(w) \/ DropBackup(w))
  PROVE  FilesInv'
<1> DEFINE Made == {s \in VaultState : WellMade(s)} \cup {None}
<1>1. /\ {refs, backup} \subseteq Made /\ temp \in [Actors -> Made] /\ \A a \in Actors : saving[a] \in Made
      /\ done \in [Actors -> BOOLEAN] /\ UNCHANGED <<lock, expected, tries, saving, published, crashes>>
  BY DEF FilesInv, VaultTypeOK, RecoverStep, RecoverLook, Restore, Discard, Clean, WriteTemporary, SwapOut,
         SwapIn, DropBackup, callVars
<1>2. \E l \in Places : Goto(w, l)
  BY DEF RecoverStep, RecoverLook, Restore, Discard, Clean, Failed, WriteTemporary, SwapOut, SwapIn, DropBackup,
         Places, Outside, Locked
<1>3. {refs', backup'} \subseteq Made /\ temp' \in [Actors -> Made] /\ done' \in [Actors -> BOOLEAN]
  <2> HIDE DEF Made
  <2>0. None \in Made
    BY DEF Made
  <2>1. CASE RecoverLook(w)
    BY <1>1, <2>1 DEF RecoverLook, diskVars, callVars
  <2>2. CASE Restore(w)
    BY <1>1, <2>0, <2>2 DEF Restore, callVars
  <2>3. CASE Discard(w)
    BY <1>1, <2>0, <2>3 DEF Discard, callVars
  <2>4. CASE Clean(w)
    BY <1>1, <2>0, <2>4 DEF Clean, callVars
  <2>5. CASE w \in Actors /\ WriteTemporary(w)
    BY <1>1, <2>0, <2>5 DEF WriteTemporary, callVars
  <2>6. CASE w \in Actors /\ SwapOut(w)
    BY <1>1, <2>0, <2>6 DEF SwapOut, callVars
  <2>7. CASE w \in Actors /\ SwapIn(w)
    BY <1>1, <2>0, <2>7 DEF SwapIn, callVars
  <2>8. CASE w \in Actors /\ DropBackup(w)
    BY <1>1, <2>0, <2>8 DEF DropBackup
  <2> QED BY <2>1, <2>2, <2>3, <2>4, <2>5, <2>6, <2>7, <2>8 DEF RecoverStep
<1>4. VaultTypeOK'
  BY <1>1, <1>2, <1>3, MovesWithin DEF FilesInv, VaultTypeOK
<1>5. /\ \A s \in {refs', backup'} \ {None} : WellMade(s)
      /\ \A a \in Actors : WellMade(saving'[a]) /\ (temp'[a] # None => WellMade(temp'[a]))
  BY <1>1, <1>3, <1>4 DEF FilesInv
<1>6. LooksCounted'
  BY <1>1, AttemptsKept DEF FilesInv, VaultTypeOK, RecoverStep, RecoverLook, Restore, Discard, Clean, Failed,
                            WriteTemporary, SwapOut, SwapIn, DropBackup, Goto
<1> QED BY <1>4, <1>5, <1>6 DEF FilesInv, WellMade

LEMMA FilesStep == FilesInv /\ [VaultNext]_vars => FilesInv'
<1> SUFFICES ASSUME FilesInv, [VaultNext]_vars PROVE FilesInv'
  OBVIOUS
<1>1. CASE UNCHANGED vars
  BY <1>1 DEF vars, diskVars, callVars, FilesInv, VaultTypeOK, WellMade, LooksCounted
<1>2. ASSUME NEW a \in Actors, CallStep(a) PROVE FilesInv'
  BY <1>2, CallKeepsFiles, OperationKeepsFiles, WritesKeepFiles DEF CallStep
<1>3. ASSUME NEW w \in Processes \cup Actors, RecoverStep(w) PROVE FilesInv'
  BY <1>3, WritesKeepFiles
<1>4. ASSUME NEW p \in Processes, Open(p) PROVE FilesInv'
  <2>1. UNCHANGED <<diskVars, lock, callVars, crashes>> /\ Goto(p, "recover") /\ "recover" \in Places
    BY <1>4 DEF Open, Places, Outside
  <2>2. LooksCounted'
    BY <2>1, AttemptsKept DEF Goto, callVars, FilesInv, VaultTypeOK
  <2> QED BY <2>1, <2>2, MovesWithin DEF diskVars, callVars, FilesInv, VaultTypeOK, WellMade
<1>5. ASSUME NEW p \in Processes, Crash(p) PROVE FilesInv'
  <2>1. pc' \in [Processes \cup Actors -> Outside \cup Locked]
    BY <1>5 DEF Crash, FilesInv, VaultTypeOK, Outside
  <2>2. crashes' \in 0 .. MaxVaultCrashes
    BY <1>5 DEF Crash, FilesInv, VaultTypeOK
  <2>3. LooksCounted'
    BY <1>5, AttemptsKept DEF Crash, callVars, FilesInv, VaultTypeOK
  <2> QED BY <1>5, <2>1, <2>2, <2>3 DEF Crash, diskVars, callVars, FilesInv, VaultTypeOK, WellMade
<1>6. CASE Expire
  <2>1. lock' \in LockFile
    BY <1>6 DEF Expire, LockFile, FilesInv, VaultTypeOK
  <2>2. LooksCounted'
    BY <1>6, AttemptsKept DEF Expire, callVars
  <2> QED BY <1>6, <2>1, <2>2 DEF Expire, diskVars, callVars, FilesInv, VaultTypeOK, WellMade
<1> QED BY <1>1, <1>2, <1>3, <1>4, <1>5, <1>6 DEF VaultNext

LEMMA FilesInvariance == VaultSpec => []FilesInv
BY FilesInitial, FilesStep, PTL DEF VaultSpec

\* The authority of a key is one of its versions in every file a process may come
\* to read: for any processes and calls, wherever they die, whoever takes a lock
\* from whom.
THEOREM AuthoritiesAreVersions == VaultSpec => []AuthorityIsVersion
<1>1. FilesInv => AuthorityIsVersion
  BY DEF FilesInv, AuthorityIsVersion, WellMade
<1> QED BY <1>1, FilesInvariance, PTL

-----------------------------------------------------------------------------
(* The lock.  While calls keep within its expiry, and one that replaces an   *)
(* expired lock is left alone at it, whoever is under the lock has it.       *)

LockInv ==
  /\ \A a \in Actors : pc[a] \in Locked => lock # None /\ lock.by = a /\ ~ lock.expired
  /\ \A a \in Actors : pc[a] = "stealing" => lock # None /\ lock.expired
  /\ \A a, b \in Actors : Stealing(a) /\ Stealing(b) => a = b

\* A call at work: a crash of its process ends it.
AtWork == {"acquire", "stealing"} \cup Locked

\* No call works while the process opens the vault, and what a crash left of a
\* replacement is settled before the first call.
OpenInv ==
  /\ \A a \in Actors : pc[a] \in AtWork => pc[Home[a]] = "up"
  /\ \A a \in Actors : pc[a] \notin {"restore", "discard"}
  /\ (\E p \in Processes : pc[p] = "up") /\ (\A a \in Actors : pc[a] \notin {"swapIn", "dropBackup"}) => backup = None
  /\ \A p \in Processes : /\ pc[p] = "clean" => backup = None
                          /\ pc[p] = "restore" => backup # None /\ refs = None
                          /\ pc[p] = "discard" => backup # None /\ refs # None

\* A replacement has its temporary file until it takes the place of the old one.
SwapInv ==
  \A a \in Actors : /\ pc[a] \in {"swapOut", "swapIn"} => temp[a] = saving[a]
                    /\ pc[a] = "swapIn" => refs = None
                    /\ pc[a] = "dropBackup" => refs # None

Stored(a) == Refs.versions[KeyOf[a]]

\* What a call is about to save differs from what is stored by its own version.
Exact(a) ==
  saving[a].versions = IF a \in Publishers THEN [Refs.versions EXCEPT ![KeyOf[a]] = Append(Stored(a), a)]
                                           ELSE Refs.versions

\* The version of a publisher is at the generation after the one it has read.
Landed(a) == expected[a] + 1 \in DOMAIN Stored(a) /\ Stored(a)[expected[a] + 1] = a

Preparing == {"recover", "clean", "temporary", "swapOut", "swapIn"}

\* Where a call is, or how it ended, says whether its version is stored.
Sound(a) ==
  /\ pc[a] \in Preparing => Exact(a)
  /\ a \in Publishers =>
       /\ pc[a] \in Preparing => Len(Stored(a)) = expected[a]
       /\ pc[a] = "dropBackup" \/ done[a] => Landed(a)
       /\ \/ pc[a] \in {"new", "acquire", "stealing", "stamping", "loading", "failed"} \cup Preparing
          \/ pc[a] = "unlocking" /\ ~ done[a]
          => a \notin Members(Stored(a))
  /\ done[a] => pc[a] \in {"unlocking", "ok", "dead"}

VersionInv == (\A a \in Actors : Sound(a)) /\ AckedSurvive

\* One process, whose calls keep within the expiry of the lock.
OneWriter == Prompt /\ StealAlone /\ \A p, q \in Processes : p = q

WriterInv == FilesInv /\ LockInv /\ OpenInv /\ SwapInv /\ VersionInv

-----------------------------------------------------------------------------
(* The lock is kept.                                                        *)

\* Steps that neither take, look at, nor release the lock.
LEMMA LockUntouched ==
  ASSUME LockInv, tries' = tries,
         lock' = lock \/ (lock # None /\ lock \in LockFile /\ lock' = [lock EXCEPT !.stamped = TRUE]),
         \A a \in Actors :
           /\ pc'[a] \in Locked \cup {"stealing"} => pc[a] = pc'[a] \/ (pc[a] \in Locked /\ pc'[a] \in Locked)
           /\ pc'[a] = "acquire" => pc[a] = "acquire" \/ tries[a] = 0
  PROVE  LockInv'
<1>1. lock # None => lock' # None /\ lock'.by = lock.by /\ lock'.expired = lock.expired
  <2>1. CASE lock' = lock
    BY <2>1
  <2>2. CASE lock # None /\ lock \in LockFile /\ lock' = [lock EXCEPT !.stamped = TRUE]
    <3>1. lock' \in LockFile /\ lock'.by = lock.by /\ lock'.expired = lock.expired
      BY <2>2 DEF LockFile
    <3> QED BY <3>1
  <2> QED BY <2>1, <2>2
<1>2. "stealing" \notin Locked /\ "acquire" \notin Locked
  BY DEF Locked
<1>3. ASSUME NEW a \in Actors, pc'[a] \in Locked PROVE lock' # None /\ lock'.by = a /\ ~ lock'.expired
  BY <1>1, <1>2, <1>3 DEF LockInv
<1>4. ASSUME NEW a \in Actors, pc'[a] = "stealing" PROVE lock' # None /\ lock'.expired
  BY <1>1, <1>2, <1>4 DEF LockInv
<1>5. ASSUME NEW a \in Actors, Stealing(a)' PROVE Stealing(a)
  <2>1. CASE pc'[a] = "stealing"
    BY <1>2, <2>1 DEF Stealing
  <2>2. CASE pc'[a] = "acquire" /\ tries'[a] > 0
    <3>1. tries[a] > 0 /\ (pc[a] = "acquire" \/ tries[a] = 0)
      BY <2>2
    <3>2. ~ (0 > 0)
      OBVIOUS
    <3> QED BY <3>1, <3>2 DEF Stealing
  <2> QED BY <1>5, <2>1, <2>2 DEF Stealing
<1>6. \A a, b \in Actors : Stealing(a)' /\ Stealing(b)' => a = b
  BY <1>5 DEF LockInv
<1> QED BY <1>3, <1>4, <1>6 DEF LockInv

LEMMA LockTaken ==
  ASSUME OneWriter, FilesInv, LockInv, NEW a \in Actors,
         CreateLock(a) \/ LookAtLock(a) \/ RemoveExpired(a) \/ Unlock(a)
  PROVE  LockInv'
<1>0. /\ pc \in [Processes \cup Actors -> Outside \cup Locked]
      /\ "stealing" \notin Locked /\ "acquire" \notin Locked /\ "failed" \notin Locked /\ "ok" \notin Locked
      /\ \A w \in Processes \cup Actors : \A l : Goto(w, l) => pc'[w] = l /\ \A b \in Actors : b # w => pc'[b] = pc[b]
  BY DEF FilesInv, VaultTypeOK, Locked, Goto
<1>1. CASE CreateLock(a)
  <2>1. /\ pc'[a] = "stamping" /\ \A b \in Actors : b # a => pc'[b] = pc[b] /\ ~ Stealing(b)
        /\ lock = None /\ lock' = [by |-> a, stamped |-> FALSE, expired |-> FALSE] /\ tries' = tries
    BY <1>0, <1>1 DEF CreateLock, Undisturbed, OneWriter, callVars
  <2>2. lock' # None /\ lock'.by = a /\ ~ lock'.expired
    <3>1. lock' \in LockFile
      BY <2>1 DEF LockFile
    <3> QED BY <2>1, <3>1
  <2>3. \A b \in Actors : ~ Stealing(b)'
    BY <2>1 DEF Stealing
  <2>4. \A b \in Actors : pc'[b] # "stealing" /\ (pc'[b] \in Locked => b = a)
    BY <2>1, <2>3 DEF LockInv, Stealing
  <2> QED BY <2>2, <2>3, <2>4 DEF LockInv
<1>2. CASE LookAtLock(a)
  <2>1. /\ lock # None /\ lock' = lock /\ tries' = tries
        /\ pc'[a] \in {"stealing", "failed"} /\ (pc'[a] = "stealing" => lock.expired)
        /\ \A b \in Actors : b # a => pc'[b] = pc[b] /\ ~ Stealing(b)
    BY <1>0, <1>2 DEF LookAtLock, Undisturbed, OneWriter, callVars
  <2>2. \A b \in Actors : b # a => ~ Stealing(b)'
    BY <2>1 DEF Stealing
  <2>3. \A b \in Actors : pc'[b] \in Locked => pc[b] \in Locked
    BY <1>0, <2>1
  <2>4. \A b \in Actors : pc'[b] = "stealing" => b = a
    BY <2>2 DEF Stealing
  <2> QED BY <2>1, <2>2, <2>3, <2>4 DEF LockInv
<1>3. CASE RemoveExpired(a)
  <2>1. /\ pc[a] = "stealing" /\ lock # None /\ lock.expired
        /\ pc'[a] \in {"acquire", "failed"} /\ \A b \in Actors : b # a => pc'[b] = pc[b]
    BY <1>0, <1>3 DEF RemoveExpired, LockInv
  <2>2. \A b \in Actors : b # a => ~ Stealing(b)
    BY <2>1 DEF LockInv, Stealing
  <2>3. tries \in [Actors -> 0 .. 2] /\ tries' = [tries EXCEPT ![a] = tries[a] + 1]
    BY <1>3 DEF RemoveExpired, FilesInv, VaultTypeOK
  <2>4. \A b \in Actors : b # a => ~ Stealing(b)'
    BY <2>1, <2>2, <2>3 DEF Stealing
  <2>5. \A b \in Actors : pc[b] \notin Locked
    BY <2>1 DEF LockInv
  <2>6. \A b \in Actors : pc'[b] \notin Locked
    BY <1>0, <2>1, <2>5
  <2>7. \A b \in Actors : pc'[b] # "stealing"
    BY <2>1, <2>4 DEF Stealing
  <2> QED BY <2>4, <2>6, <2>7 DEF LockInv
<1>4. CASE Unlock(a)
  <2>1. /\ pc[a] = "unlocking" /\ lock # None /\ lock.by = a /\ ~ lock.expired /\ tries' = tries
        /\ pc'[a] \in {"ok", "failed"} /\ \A b \in Actors : b # a => pc'[b] = pc[b]
    BY <1>0, <1>4 DEF Unlock, LockInv, Locked
  <2>2. \A b \in Actors : pc'[b] \notin Locked
    BY <1>0, <2>1 DEF LockInv
  <2>3. \A b \in Actors : pc'[b] # "stealing"
    BY <2>1 DEF LockInv
  <2>4. \A b \in Actors : Stealing(b)' => Stealing(b)
    BY <2>1 DEF Stealing
  <2>5. \A b, d \in Actors : Stealing(b)' /\ Stealing(d)' => b = d
    BY <2>4 DEF LockInv
  <2> QED BY <2>2, <2>3, <2>5 DEF LockInv
<1> QED BY <1>1, <1>2, <1>3, <1>4

LEMMA LockStep ==
  ASSUME OneWriter, FilesInv, LockInv, [VaultNext]_vars
  PROVE  LockInv'
<1>0. /\ pc \in [Processes \cup Actors -> Outside \cup Locked] /\ lock \in LockFile \cup {None}
      /\ \A w \in Processes \cup Actors : \A l : Goto(w, l) => pc'[w] = l /\ \A b \in Actors : b # w => pc'[b] = pc[b]
      /\ \A p \in Processes : p \notin Actors
  BY DEF FilesInv, VaultTypeOK, Goto
<1>1. CASE UNCHANGED vars
  BY <1>1 DEF vars, callVars, LockInv, Stealing
<1>2. ASSUME NEW a \in Actors, CallStep(a) PROVE LockInv'
  <2>1. CASE CreateLock(a) \/ LookAtLock(a) \/ RemoveExpired(a) \/ Unlock(a)
    BY <2>1, LockTaken
  <2>2. CASE \/ Begin(a) \/ BeginFails(a) \/ StampLock(a) \/ Publish(a) \/ Select(a)
             \/ WriteTemporary(a) \/ SwapOut(a) \/ SwapIn(a) \/ DropBackup(a)
    <3>1. tries' = tries
      BY <2>2 DEF Begin, BeginFails, StampLock, Publish, Select, WriteTemporary, SwapOut, SwapIn, DropBackup, callVars
    <3>2. lock' = lock \/ (lock # None /\ lock \in LockFile /\ lock' = [lock EXCEPT !.stamped = TRUE])
      BY <1>0, <2>2 DEF Begin, BeginFails, StampLock, Publish, Select, WriteTemporary, SwapOut, SwapIn, DropBackup
    <3>3. \A b \in Actors : b # a => pc'[b] = pc[b]
      BY <1>0, <2>2 DEF Begin, BeginFails, StampLock, Publish, Select, WriteTemporary, SwapOut, SwapIn, DropBackup
    <3>4. /\ pc'[a] \in Locked \cup {"stealing"} => pc[a] = pc'[a] \/ (pc[a] \in Locked /\ pc'[a] \in Locked)
          /\ pc'[a] = "acquire" => pc[a] = "acquire" \/ tries[a] = 0
      <4>1. CASE Begin(a) \/ BeginFails(a)
        <5>1. tries[a] = 0 /\ pc'[a] \in {"acquire", "failed"}
          BY <1>0, <4>1 DEF Begin, BeginFails, FilesInv, LooksCounted
        <5> QED BY <5>1 DEF Locked
      <4>2. CASE ~ (Begin(a) \/ BeginFails(a))
        BY <1>0, <2>2, <4>2 DEF StampLock, Publish, Select, WriteTemporary, SwapOut, SwapIn, DropBackup, Locked
      <4> QED BY <4>1, <4>2
    <3> QED BY <3>1, <3>2, <3>3, <3>4, LockUntouched
  <2> QED BY <1>2, <2>1, <2>2 DEF CallStep
<1>3. ASSUME NEW w \in Processes \cup Actors, RecoverStep(w) PROVE LockInv'
  <2>1. tries' = tries /\ lock' = lock
    BY <1>3 DEF RecoverStep, RecoverLook, Restore, Discard, Clean, callVars
  <2>2. \A b \in Actors : b # w => pc'[b] = pc[b]
    BY <1>0, <1>3 DEF RecoverStep, RecoverLook, Restore, Discard, Clean
  <2>3. w \in Actors => pc[w] \in Locked /\ pc'[w] \in Locked
    BY <1>0, <1>3 DEF RecoverStep, RecoverLook, Restore, Discard, Clean, Failed, Locked
  <2>4. \A b \in Actors : pc'[b] = pc[b] \/ (pc[b] \in Locked /\ pc'[b] \in Locked)
    BY <2>2, <2>3
  <2>5. "acquire" \notin Locked
    BY DEF Locked
  <2> QED BY <2>1, <2>4, <2>5, LockUntouched
<1>4. ASSUME NEW p \in Processes, Open(p) \/ Crash(p) PROVE LockInv'
  <2>1. tries' = tries /\ lock' = lock
    BY <1>4 DEF Open, Crash, callVars
  <2>2. \A b \in Actors : pc'[b] = pc[b] \/ pc'[b] = "dead"
    BY <1>0, <1>4 DEF Open, Crash
  <2>3. "dead" \notin Locked \cup {"stealing"}
    BY DEF Locked
  <2> QED BY <2>1, <2>2, <2>3, LockUntouched
<1>5. CASE Expire
  <2>1. /\ lock \in LockFile /\ pc[lock.by] \notin Locked /\ UNCHANGED <<pc, tries>>
        /\ lock' = [lock EXCEPT !.expired = TRUE]
    BY <1>0, <1>5 DEF Expire, OneWriter, callVars
  <2>2. lock' \in LockFile /\ lock'.expired
    BY <2>1 DEF LockFile
  <2>3. \A a \in Actors : pc[a] \notin Locked
    BY <2>1 DEF LockInv
  <2>4. \A a \in Actors : Stealing(a)' = Stealing(a)
    BY <2>1 DEF Stealing
  <2> QED BY <2>1, <2>2, <2>3, <2>4 DEF LockInv
<1> QED BY <1>1, <1>2, <1>3, <1>4, <1>5 DEF VaultNext

-----------------------------------------------------------------------------
(* The steps of a replacement have the files to themselves.                 *)

LEMMA Solo ==
  ASSUME LockInv, NEW a \in Actors, NEW b \in Actors, pc[a] \in Locked, b # a
  PROVE  pc[b] \notin Locked
BY DEF LockInv

\* Who moves, and what the others see.
LEMMA Moves ==
  ASSUME FilesInv
  PROVE  /\ \A a \in Actors : CallStep(a) \/ RecoverStep(a) =>
              /\ \A b \in Actors : b # a => pc'[b] = pc[b]
              /\ \A p \in Processes : pc'[p] = pc[p]
         /\ \A p \in Processes : RecoverStep(p) \/ Open(p) => \A w \in Processes \cup Actors : w # p => pc'[w] = pc[w]
         /\ \A a \in Actors : a \notin Processes /\ Home[a] \in Processes
<1>1. /\ pc \in [Processes \cup Actors -> Outside \cup Locked]
      /\ \A a \in Actors : a \notin Processes /\ Home[a] \in Processes
  BY DEF FilesInv, VaultTypeOK
<1>2. ASSUME NEW a \in Actors, CallStep(a) \/ RecoverStep(a) PROVE \E l : Goto(a, l)
  BY <1>2 DEF CallStep, RecoverStep, Begin, BeginFails, CreateLock, StampLock, LookAtLock, RemoveExpired, Publish,
              Select, WriteTemporary, SwapOut, SwapIn, DropBackup, Unlock, RecoverLook, Restore, Discard, Clean
<1>3. ASSUME NEW p \in Processes, RecoverStep(p) \/ Open(p) PROVE \E l : Goto(p, l)
  BY <1>3 DEF RecoverStep, RecoverLook, Restore, Discard, Clean, Open
<1> QED BY <1>1, <1>2, <1>3 DEF Goto

\* A call moves only while its process is up, and then the process has nothing
\* left to recover.
LEMMA CallsWhenUp ==
  ASSUME OneWriter, FilesInv, OpenInv, NEW a \in Actors, CallStep(a) \/ RecoverStep(a)
  PROVE  /\ \A p \in Processes : pc[p] = "up" /\ pc'[p] = "up"
         /\ \E p \in Processes : pc[p] = "up"
         /\ pc'[a] \in AtWork => pc'[Home[a]] = "up"
<1>1. pc[a] \in AtWork \/ pc[Home[a]] = "up"
  BY DEF CallStep, RecoverStep, Begin, BeginFails, CreateLock, StampLock, LookAtLock, RemoveExpired, Publish,
         Select, WriteTemporary, SwapOut, SwapIn, DropBackup, Unlock, RecoverLook, Restore, Discard, Clean,
         AtWork, Locked
<1>2. pc[Home[a]] = "up" /\ Home[a] \in Processes
  BY <1>1, Moves DEF OpenInv
<1> QED BY <1>2, Moves DEF OneWriter

\* Between the lock and the second rename nobody else touches the files: a call
\* that recovers finds no backup.
LEMMA NoBackup ==
  ASSUME OneWriter, FilesInv, LockInv, OpenInv, NEW a \in Actors,
         pc[a] \in Locked \ {"swapIn", "dropBackup"}
  PROVE  backup = None /\ (\A p \in Processes : pc[p] = "up")
<1>1. pc[Home[a]] = "up" /\ Home[a] \in Processes
  BY Moves DEF OpenInv, AtWork
<1>2. \A b \in Actors : pc[b] \notin {"swapIn", "dropBackup"}
  BY Solo DEF Locked
<1> QED BY <1>1, <1>2 DEF OpenInv, OneWriter

LEMMA OpenStep ==
  ASSUME OneWriter, FilesInv, LockInv, OpenInv, SwapInv, [VaultNext]_vars
  PROVE  OpenInv'
<1>1. CASE UNCHANGED vars
  BY <1>1 DEF vars, diskVars, OpenInv
<1>2. ASSUME NEW a \in Actors, CallStep(a) \/ RecoverStep(a) PROVE OpenInv'
  <2>1. /\ \A p \in Processes : pc[p] = "up" /\ pc'[p] = "up"
        /\ \E p \in Processes : pc[p] = "up"
        /\ pc'[a] \in AtWork => pc'[Home[a]] = "up"
        /\ \A b \in Actors : b # a => pc'[b] = pc[b]
    BY <1>2, CallsWhenUp, Moves
  <2>2. \A b \in Actors : pc'[b] \in AtWork => pc'[Home[b]] = "up"
    BY <2>1, Moves DEF OpenInv
  <2>3. \A l : Goto(a, l) => pc'[a] = l
    BY DEF FilesInv, VaultTypeOK, Goto
  <2>4. pc'[a] \notin {"restore", "discard"}
    <3>1. CASE RecoverLook(a)
      <4>1. backup = None
        BY <3>1, NoBackup DEF RecoverLook, Locked
      <4>2. Goto(a, "clean")
        BY <3>1, <4>1 DEF RecoverLook
      <4> QED BY <2>3, <4>2
    <3>2. CASE ~ RecoverLook(a)
      BY <1>2, <2>3, <3>2 DEF CallStep, RecoverStep, Begin, BeginFails, CreateLock, StampLock, LookAtLock,
              RemoveExpired, Publish, Select, WriteTemporary, SwapOut, SwapIn, DropBackup, Unlock, Restore, Discard,
              Clean, Failed
    <3> QED BY <3>1, <3>2
  <2>5. ASSUME \A b \in Actors : pc'[b] \notin {"swapIn", "dropBackup"} PROVE backup' = None
    <3>1. CASE pc[a] \in {"swapIn", "dropBackup"}
      <4>1. CASE SwapIn(a)
        <5>1. temp[a] # None
          BY <4>1, NoneIs DEF SwapIn, SwapInv, FilesInv, VaultTypeOK
        <5>2. pc'[a] = "dropBackup"
          BY <2>3, <4>1, <5>1 DEF SwapIn
        <5> QED BY <2>5, <5>2
      <4>2. CASE DropBackup(a)
        BY <4>2 DEF DropBackup
      <4> QED BY <1>2, <3>1, <4>1, <4>2 DEF CallStep, RecoverStep, Begin, BeginFails, CreateLock, StampLock,
              LookAtLock, RemoveExpired, Publish, Select, WriteTemporary, SwapOut, Unlock, RecoverLook, Restore,
              Discard, Clean
    <3>2. CASE pc[a] \notin {"swapIn", "dropBackup"}
      <4>1. backup = None
        BY <2>1, <2>5, <3>2 DEF OpenInv
      <4>2. pc[a] # "swapOut"
        <5>1. pc[a] = "swapOut" => SwapOut(a)
          BY <1>2 DEF CallStep, RecoverStep, Begin, BeginFails, CreateLock, StampLock, LookAtLock, RemoveExpired,
              Publish, Select, WriteTemporary, SwapIn, DropBackup, Unlock, RecoverLook, Restore, Discard, Clean
        <5> QED BY <2>3, <2>5, <5>1 DEF SwapOut
      <4> QED BY <1>2, <3>2, <4>1, <4>2 DEF CallStep, RecoverStep, Begin, BeginFails, CreateLock, StampLock,
              LookAtLock, RemoveExpired, Publish, Select, WriteTemporary, SwapOut, SwapIn, DropBackup, Unlock,
              RecoverLook, Restore, Discard, Clean, diskVars
    <3> QED BY <3>1, <3>2
  <2>6. \A b \in Actors : pc'[b] \notin {"restore", "discard"}
    BY <2>1, <2>4 DEF OpenInv
  <2> QED BY <2>1, <2>2, <2>5, <2>6 DEF OpenInv
<1>3. ASSUME NEW p \in Processes, RecoverStep(p) \/ Open(p) PROVE OpenInv'
  <2>1. /\ \A q \in Processes : q = p
        /\ \A a \in Actors : pc'[a] = pc[a]
    BY <1>3, Moves DEF OneWriter
  <2>2. \A l : Goto(p, l) => pc'[p] = l
    BY DEF FilesInv, VaultTypeOK, Goto
  <2>3. pc[p] # "up"
    BY <1>3 DEF RecoverStep, RecoverLook, Restore, Discard, Clean, Open
  <2>4. \A a \in Actors : pc[a] \notin AtWork
    BY <2>1, <2>3, Moves DEF OpenInv
  <2>5. pc'[p] = "up" => backup' = None
    BY <1>3, <2>2 DEF RecoverStep, RecoverLook, Restore, Discard, Clean, Open, OpenInv, Failed
  <2>6. /\ pc'[p] = "clean" => backup' = None
        /\ pc'[p] = "restore" => backup' # None /\ refs' = None
        /\ pc'[p] = "discard" => backup' # None /\ refs' # None
    BY <1>3, <2>2 DEF RecoverStep, RecoverLook, Restore, Discard, Clean, Open, OpenInv, Failed, diskVars
  <2> QED BY <2>1, <2>4, <2>5, <2>6 DEF OpenInv
<1>4. ASSUME NEW p \in Processes, Crash(p) PROVE OpenInv'
  <2>1. /\ pc'[p] = "down" /\ \A q \in Processes : q = p
        /\ \A a \in Actors : /\ pc[a] \notin {"new", "ok", "failed"} => pc'[a] = "dead"
                             /\ pc[a] \in {"new", "ok", "failed"} => pc'[a] = pc[a]
    BY <1>4, Moves DEF Crash, OneWriter, FilesInv, VaultTypeOK
  <2>2. \A a \in Actors : pc'[a] \in {"dead", "new", "ok", "failed"}
    BY <2>1
  <2> QED BY <2>1, <2>2 DEF OpenInv, AtWork, Locked
<1>5. CASE Expire
  BY <1>5 DEF Expire, diskVars, OpenInv
<1> QED BY <1>1, <1>2, <1>3, <1>4, <1>5 DEF VaultNext

LEMMA SwapStep ==
  ASSUME OneWriter, FilesInv, LockInv, OpenInv, SwapInv, [VaultNext]_vars
  PROVE  SwapInv'
<1>0. /\ pc \in [Processes \cup Actors -> Outside \cup Locked] /\ temp \in [Actors -> VaultState \cup {None}]
      /\ saving \in [Actors -> VaultState] /\ None \notin VaultState
  BY NoneIs DEF FilesInv, VaultTypeOK
<1>1. CASE UNCHANGED vars
  BY <1>1 DEF vars, diskVars, callVars, SwapInv
<1>2. ASSUME NEW a \in Actors, CallStep(a) \/ RecoverStep(a) PROVE SwapInv'
  <2>1. /\ \A b \in Actors : b # a => pc'[b] = pc[b]
        /\ \A l : Goto(a, l) => pc'[a] = l
    BY <1>0, <1>2, Moves DEF Goto
  <2>2. /\ pc'[a] \in {"swapOut", "swapIn"} => temp'[a] = saving'[a]
        /\ pc'[a] = "swapIn" => refs' = None
        /\ pc'[a] = "dropBackup" => refs' # None
    <3>1. CASE WriteTemporary(a)
      BY <1>0, <2>1, <3>1 DEF WriteTemporary, callVars
    <3>2. CASE SwapOut(a)
      BY <1>0, <2>1, <3>2 DEF SwapOut, SwapInv, callVars
    <3>3. CASE SwapIn(a)
      BY <1>0, <2>1, <3>3 DEF SwapIn, SwapInv
    <3>4. CASE ~ (WriteTemporary(a) \/ SwapOut(a) \/ SwapIn(a))
      BY <1>2, <2>1, <3>4 DEF CallStep, RecoverStep, Begin, BeginFails, CreateLock, StampLock, LookAtLock,
              RemoveExpired, Publish, Select, DropBackup, Unlock, RecoverLook, Restore, Discard, Clean, Failed
    <3> QED BY <3>1, <3>2, <3>3, <3>4
  <2>3. ASSUME NEW b \in Actors, b # a, pc[b] \in {"swapOut", "swapIn", "dropBackup"}
        PROVE  refs' = refs /\ temp' = temp /\ saving'[b] = saving[b]
    <3>1. pc[a] \notin Locked
      BY <2>3, Solo DEF Locked
    <3> QED BY <1>2, <3>1 DEF CallStep, RecoverStep, Begin, BeginFails, CreateLock, StampLock, LookAtLock,
              RemoveExpired, Publish, Select, WriteTemporary, SwapOut, SwapIn, DropBackup, Unlock, RecoverLook,
              Restore, Discard, Clean, Locked, diskVars, callVars
  <2> QED BY <2>1, <2>2, <2>3 DEF SwapInv
<1>3. ASSUME NEW p \in Processes, RecoverStep(p) \/ Open(p) PROVE SwapInv'
  <2>1. \A a \in Actors : pc'[a] = pc[a]
    BY <1>3, Moves
  <2>2. pc[p] # "up"
    BY <1>3 DEF RecoverStep, RecoverLook, Restore, Discard, Clean, Open
  <2>3. \A a \in Actors : pc[a] \notin AtWork
    BY <2>2, Moves DEF OpenInv, OneWriter
  <2> QED BY <2>1, <2>3 DEF SwapInv, AtWork, Locked
<1>4. ASSUME NEW p \in Processes, Crash(p) PROVE SwapInv'
  <2>1. \A a \in Actors : pc'[a] = pc[a] \/ pc'[a] = "dead"
    BY <1>0, <1>4, Moves DEF Crash
  <2> QED BY <1>4, <2>1 DEF Crash, SwapInv, diskVars, callVars
<1>5. CASE Expire
  BY <1>5 DEF Expire, diskVars, callVars, SwapInv
<1> QED BY <1>1, <1>2, <1>3, <1>4, <1>5 DEF VaultNext

-----------------------------------------------------------------------------
(* The versions.  What recover_atomic would leave changes at the second      *)
(* rename alone.                                                             *)

LEMMA RefsIs == FilesInv => Refs \in VaultState
BY EmptyIs DEF FilesInv, VaultTypeOK, Refs

LEMMA RefsKept ==
  ASSUME OneWriter, FilesInv, LockInv, OpenInv, SwapInv, [VaultNext]_vars, \A a \in Actors : ~ SwapIn(a)
  PROVE  Refs' = Refs
<1>1. CASE UNCHANGED <<refs, backup>>
  BY <1>1 DEF Refs
<1>2. ASSUME NEW a \in Actors, SwapOut(a) PROVE Refs' = Refs
  <2>1. backup = None
    BY <1>2, NoBackup DEF SwapOut, Locked
  <2> QED BY <1>2, <2>1 DEF SwapOut, Refs
<1>3. ASSUME NEW a \in Actors, DropBackup(a) PROVE Refs' = Refs
  BY <1>3 DEF DropBackup, SwapInv, Refs
<1>4. ASSUME NEW w \in Processes \cup Actors, Restore(w) \/ Discard(w) PROVE Refs' = Refs
  <2>1. w \in Processes
    BY <1>4 DEF Restore, Discard, OpenInv
  <2> QED BY <1>4, <2>1 DEF Restore, Discard, OpenInv, Refs
<1>5. CASE VaultNext /\ ~ UNCHANGED <<refs, backup>>
  <2>1. \/ \E a \in Actors : SwapOut(a) \/ DropBackup(a)
        \/ \E w \in Processes \cup Actors : Restore(w) \/ Discard(w)
    BY <1>5 DEF VaultNext, CallStep, RecoverStep, Begin, BeginFails, CreateLock, StampLock, LookAtLock,
            RemoveExpired, Publish, Select, WriteTemporary, Unlock, RecoverLook, Clean, Open, Crash, Expire, diskVars
  <2> QED BY <1>2, <1>3, <1>4, <2>1
<1> QED BY <1>1, <1>5 DEF vars, diskVars

LEMMA SoundKept ==
  ASSUME NEW a \in Actors, Sound(a), Refs' = Refs, pc'[a] = pc[a], saving'[a] = saving[a], done'[a] = done[a],
         expected'[a] = expected[a]
  PROVE  Sound(a)'
BY DEF Sound, Exact, Landed, Stored

\* Who crashed is sound however far it came.
LEMMA DeadSound ==
  ASSUME NEW a \in Actors, Sound(a), Refs' = Refs, pc'[a] = "dead", saving'[a] = saving[a], done'[a] = done[a],
         expected'[a] = expected[a]
  PROVE  Sound(a)'
BY DEF Sound, Exact, Landed, Stored, Preparing

LEMMA LoadIsRefs ==
  ASSUME OneWriter, FilesInv, LockInv, OpenInv, NEW a \in Actors, pc[a] = "loading"
  PROVE  Load = Refs
<1>1. backup = None
  BY NoBackup DEF Locked
<1> QED BY <1>1 DEF Load, Refs

\* The calls, one step each, but for the second rename.
LEMMA SoundStep ==
  ASSUME OneWriter, FilesInv, LockInv, OpenInv, SwapInv, NEW a \in Actors, Sound(a), Refs' = Refs,
         CallStep(a) \/ RecoverStep(a), ~ SwapIn(a)
  PROVE  Sound(a)'
<1>0. /\ \A l : Goto(a, l) => pc'[a] = l
      /\ saving \in [Actors -> VaultState] /\ done \in [Actors -> BOOLEAN] /\ expected \in [Actors -> Nat]
  BY DEF FilesInv, VaultTypeOK, Goto
<1>1. CASE Begin(a) \/ BeginFails(a)
  <2>1. /\ pc[a] = "new" /\ pc'[a] \in {"acquire", "failed"} /\ done' = done /\ saving' = saving
    BY <1>0, <1>1 DEF Begin, BeginFails, callVars
  <2> QED BY <2>1 DEF Sound, Stored, Preparing
<1>2. CASE CreateLock(a) \/ StampLock(a) \/ LookAtLock(a) \/ RemoveExpired(a)
  <2>1. /\ pc[a] \in {"acquire", "stamping", "stealing"}
        /\ pc'[a] \in {"stamping", "loading", "stealing", "acquire", "failed"}
        /\ done' = done /\ saving' = saving /\ expected' = expected
    BY <1>0, <1>2 DEF CreateLock, StampLock, LookAtLock, RemoveExpired, callVars
  <2> QED BY <2>1 DEF Sound, Stored, Preparing
<1>3. CASE Publish(a)
  <2>1. /\ pc[a] = "loading" /\ a \in Publishers /\ Load = Refs /\ done' = done /\ expected' = expected
    BY <1>3, LoadIsRefs DEF Publish
  <2>2. ~ done[a] /\ a \notin Members(Stored(a))
    BY <2>1 DEF Sound
  <2>3. CASE Len(Load.versions[KeyOf[a]]) = expected[a]
    <3>1. /\ pc'[a] = "recover"
          /\ saving'[a] = [Load EXCEPT !.versions[KeyOf[a]] = Append(@, a)]
      BY <1>0, <1>3, <2>3 DEF Publish
    <3>2. saving'[a].versions = [Refs.versions EXCEPT ![KeyOf[a]] = Append(Stored(a), a)]
      BY <2>1, <3>1, LoadIs, PublishIs DEF Stored
    <3> QED BY <2>1, <2>2, <2>3, <3>1, <3>2 DEF Sound, Exact, Stored, Preparing
  <2>4. CASE Len(Load.versions[KeyOf[a]]) # expected[a]
    <3>1. pc'[a] = "unlocking"
      BY <1>0, <1>3, <2>4 DEF Publish
    <3> QED BY <2>1, <2>2, <3>1 DEF Sound, Stored, Preparing
  <2> QED BY <2>3, <2>4
<1>4. CASE Select(a)
  <2>1. /\ pc[a] = "loading" /\ a \notin Publishers /\ Load = Refs /\ done' = done
    BY <1>4, LoadIsRefs DEF Select
  <2>2. ~ done[a]
    BY <2>1 DEF Sound
  <2>3. PICK hash \in Publishers :
          IF hash \in Members(Load.versions[KeyOf[a]])
            THEN /\ saving' = [saving EXCEPT ![a] = [Load EXCEPT !.authority[KeyOf[a]] = hash]]
                 /\ Goto(a, "recover")
            ELSE Goto(a, "unlocking")
    BY <1>4 DEF Select
  <2>4. hash \in Actors
    BY VaultAssumption
  <2>5. CASE hash \in Members(Load.versions[KeyOf[a]])
    <3>1. saving'[a] = [Load EXCEPT !.authority[KeyOf[a]] = hash]
      BY <1>0, <2>3, <2>5
    <3>2. saving'[a].versions = Refs.versions
      BY <2>1, <2>4, <2>5, <3>1, LoadIs, SelectIs
    <3> QED BY <2>1, <2>2, <3>2 DEF Sound, Exact
  <2>6. CASE hash \notin Members(Load.versions[KeyOf[a]])
    <3>1. pc'[a] = "unlocking"
      BY <1>0, <2>3, <2>6
    <3> QED BY <2>1, <2>2, <3>1 DEF Sound, Preparing
  <2> QED BY <2>5, <2>6
<1>5. CASE RecoverStep(a) \/ WriteTemporary(a) \/ SwapOut(a)
  <2>1. ~ Restore(a) /\ ~ Discard(a)
    BY DEF Restore, Discard, OpenInv
  <2>2. RecoverLook(a) => Goto(a, "clean")
    <3>1. RecoverLook(a) => backup = None
      BY NoBackup DEF RecoverLook, Locked
    <3> QED BY <3>1 DEF RecoverLook
  <2>3. /\ pc[a] \in Preparing /\ pc'[a] \in Preparing
        /\ done' = done /\ saving' = saving /\ expected' = expected
    BY <1>0, <1>5, <2>1, <2>2 DEF RecoverStep, RecoverLook, Clean, WriteTemporary, SwapOut, Preparing, callVars
  <2>4. pc[a] \notin {"dropBackup", "unlocking", "ok", "dead"} /\ pc'[a] \notin {"dropBackup", "unlocking"}
    BY <2>3 DEF Preparing
  <2> QED BY <2>3, <2>4 DEF Sound, Exact, Stored
<1>6. CASE DropBackup(a)
  <2>1. /\ pc[a] = "dropBackup" /\ pc'[a] = "unlocking" /\ done'[a] = TRUE /\ expected' = expected
    BY <1>0, <1>6 DEF DropBackup
  <2> QED BY <2>1 DEF Sound, Landed, Stored, Preparing
<1>7. CASE Unlock(a)
  <2>1. /\ pc[a] = "unlocking" /\ pc'[a] = (IF done[a] THEN "ok" ELSE "failed")
        /\ done' = done /\ expected' = expected
    BY <1>0, <1>7 DEF Unlock
  <2> QED BY <2>1 DEF Sound, Landed, Stored, Preparing
<1> QED BY <1>1, <1>2, <1>3, <1>4, <1>5, <1>6, <1>7 DEF CallStep

\* The second rename: the versions grow by that of the call, if it publishes.
LEMMA SwapInGrows ==
  ASSUME OneWriter, FilesInv, LockInv, OpenInv, SwapInv, VersionInv, NEW a \in Actors, SwapIn(a)
  PROVE  VersionInv'
<1>0. /\ pc \in [Processes \cup Actors -> Outside \cup Locked] /\ saving \in [Actors -> VaultState]
      /\ None \notin VaultState /\ Refs \in VaultState
      /\ pc[a] = "swapIn" /\ Sound(a) /\ \A b \in Actors : b # a => pc[b] \notin Locked
  BY NoneIs, RefsIs, Solo DEF FilesInv, VaultTypeOK, SwapIn, Locked, VersionInv
<1>1. temp[a] = saving[a] /\ temp[a] # None
  BY <1>0 DEF SwapInv
<1>2. /\ refs' = saving[a] /\ pc' = [pc EXCEPT ![a] = "dropBackup"]
      /\ UNCHANGED <<expected, saving, done, published>>
  BY <1>1 DEF SwapIn, Goto, callVars
<1>3. Refs' = saving[a] /\ saving[a] \in VaultState
  BY <1>0, <1>2 DEF Refs
<1>4. /\ pc'[a] = "dropBackup" /\ (\A b \in Actors : b # a => pc'[b] = pc[b])
      /\ Exact(a) /\ ~ done[a] /\ (a \in Publishers => Len(Stored(a)) = expected[a])
  BY <1>0, <1>2 DEF Sound, Preparing
<1>5. /\ \A k \in Keys : Refs.versions[k] \in Seq(Actors) /\ Refs.versions \in [Keys -> Seq(Actors)]
      /\ \A b \in Actors : KeyOf[b] \in Keys
  BY <1>0, StateIs, NoneIs
<1>6. \A k \in Keys :
        /\ Members(Refs'.versions[k]) \subseteq Members(Refs.versions[k]) \cup {a}
        /\ \A i \in DOMAIN Refs.versions[k] : i \in DOMAIN Refs'.versions[k] /\ Refs'.versions[k][i] = Refs.versions[k][i]
  <2>1. CASE a \in Publishers
    <3>1. Refs'.versions = [Refs.versions EXCEPT ![KeyOf[a]] = Append(Refs.versions[KeyOf[a]], a)]
      BY <1>3, <1>4, <2>1 DEF Exact, Stored
    <3> QED BY <1>5, <3>1, AppendIs
  <2>2. CASE a \notin Publishers
    BY <1>3, <1>4, <2>2 DEF Exact
  <2> QED BY <2>1, <2>2
<1>7. Sound(a)'
  <2>1. CASE a \in Publishers
    <3>1. Stored(a)' = Append(Refs.versions[KeyOf[a]], a)
      BY <1>3, <1>4, <1>5, <2>1 DEF Exact, Stored
    <3>2. Landed(a)'
      BY <1>2, <1>4, <1>5, <2>1, <3>1, AppendIs DEF Landed, Stored
    <3> QED BY <1>2, <1>4, <3>2 DEF Sound, Preparing
  <2>2. CASE a \notin Publishers
    BY <1>2, <1>4, <2>2 DEF Sound, Preparing
  <2> QED BY <2>1, <2>2
<1>8. ASSUME NEW b \in Actors, b # a PROVE Sound(b)'
  <2>1. /\ pc'[b] = pc[b] /\ pc[b] \notin Locked /\ Sound(b) /\ UNCHANGED <<expected, done>>
    BY <1>0, <1>2, <1>4, <1>8 DEF VersionInv
  <2>2. pc[b] \notin Preparing \cup {"dropBackup", "unlocking"}
    BY <2>1 DEF Preparing, Locked
  <2>3. b \in Publishers /\ done[b] => Landed(b)'
    BY <1>2, <1>5, <1>6, <2>1 DEF Sound, Landed, Stored
  <2>4. b \notin Members(Stored(b)) => b \notin Members(Stored(b)')
    BY <1>5, <1>6, <1>8 DEF Stored
  <2> QED BY <2>1, <2>2, <2>3, <2>4 DEF Sound
<1>9. AckedSurvive'
  <2>1. \A v \in published : v[1] \in Keys
    BY DEF FilesInv, VaultTypeOK
  <2> QED BY <1>2, <1>6, <2>1 DEF VersionInv, AckedSurvive
<1> QED BY <1>7, <1>8, <1>9 DEF VersionInv

\* Whatever else happens, what a publication returned stays.
LEMMA AckedKept ==
  ASSUME VersionInv, Refs' = Refs,
         \/ published' = published
         \/ \E a \in Publishers : done[a] /\ published' = published \cup {<<KeyOf[a], expected[a] + 1, a>>}
  PROVE  AckedSurvive'
<1>1. \A a \in Publishers : done[a] => Landed(a)
  BY DEF VersionInv, Sound
<1> QED BY <1>1 DEF VersionInv, AckedSurvive, Landed, Stored

\* While one call takes a step the others rest.
LEMMA OneCallMoves ==
  ASSUME FilesInv, NEW a \in Actors, CallStep(a) \/ RecoverStep(a)
  PROVE  \A b \in Actors : b # a => /\ pc'[b] = pc[b] /\ saving'[b] = saving[b] /\ done'[b] = done[b]
                                    /\ expected'[b] = expected[b] /\ ~ SwapIn(b)
<1>1. ASSUME NEW b \in Actors, b # a, SwapIn(b) PROVE FALSE
  <2>1. pc'[a] = pc[a] /\ pc'[b] # pc[b]
    BY <1>1 DEF SwapIn, Goto, FilesInv, VaultTypeOK
  <2> QED BY <1>1, <2>1, Moves
<1>2. /\ saving' = saving \/ \E x : saving' = [saving EXCEPT ![a] = x]
      /\ done' = done \/ \E x : done' = [done EXCEPT ![a] = x]
      /\ expected' = expected \/ \E x : expected' = [expected EXCEPT ![a] = x]
  BY DEF CallStep, RecoverStep, Begin, BeginFails, CreateLock, StampLock, LookAtLock, RemoveExpired,
         Publish, Select, WriteTemporary, SwapOut, SwapIn, DropBackup, Unlock, RecoverLook, Restore, Discard,
         Clean, callVars
<1>3. saving \in [Actors -> VaultState] /\ done \in [Actors -> BOOLEAN] /\ expected \in [Actors -> Nat]
  BY DEF FilesInv, VaultTypeOK
<1> QED BY <1>1, <1>2, <1>3, Moves

LEMMA VersionStep ==
  ASSUME OneWriter, FilesInv, LockInv, OpenInv, SwapInv, VersionInv, [VaultNext]_vars
  PROVE  VersionInv'
<1>0. \A w \in Processes : w \notin Actors
  BY VaultAssumption
<1>1. CASE UNCHANGED vars
  <2>1. Refs' = Refs /\ UNCHANGED <<pc, saving, expected, done, published>>
    BY <1>1 DEF vars, diskVars, callVars, Refs
  <2> QED BY <2>1, SoundKept, AckedKept DEF VersionInv
<1>2. ASSUME NEW a \in Actors, CallStep(a) \/ RecoverStep(a) PROVE VersionInv'
  <2>1. CASE SwapIn(a)
    BY <2>1, SwapInGrows
  <2>2. CASE ~ SwapIn(a)
    <3>1. \A b \in Actors : b # a => ~ SwapIn(b)
      BY <1>2, OneCallMoves
    <3>2. Refs' = Refs
      BY <2>2, <3>1, RefsKept
    <3>3. Sound(a)'
      BY <1>2, <2>2, <3>2, SoundStep DEF VersionInv
    <3>4. \A b \in Actors : b # a => pc'[b] = pc[b] /\ saving'[b] = saving[b] /\ done'[b] = done[b]
                                       /\ expected'[b] = expected[b]
      BY <1>2, OneCallMoves
    <3>5. \A b \in Actors : b # a => Sound(b)'
      BY <3>2, <3>4, SoundKept DEF VersionInv
    <3>6. AckedSurvive'
      <4>1. \/ published' = published
            \/ a \in Publishers /\ done[a] /\ published' = published \cup {<<KeyOf[a], expected[a] + 1, a>>}
        BY <1>2 DEF CallStep, RecoverStep, Begin, BeginFails, CreateLock, StampLock, LookAtLock, RemoveExpired,
              Publish, Select, WriteTemporary, SwapOut, SwapIn, DropBackup, Unlock, RecoverLook, Restore, Discard,
              Clean, callVars
      <4> QED BY <3>2, <4>1, AckedKept
    <3> QED BY <3>3, <3>5, <3>6 DEF VersionInv
  <2> QED BY <2>1, <2>2
<1>3. ASSUME NEW p \in Processes, RecoverStep(p) \/ Open(p) \/ Crash(p) PROVE VersionInv'
  <2>1. UNCHANGED <<saving, done, expected, published>>
    BY <1>3 DEF RecoverStep, RecoverLook, Restore, Discard, Clean, Open, Crash, callVars
  <2>2. \A a \in Actors : pc'[a] = pc[a] \/ pc'[a] = "dead"
    <3>1. CASE RecoverStep(p) \/ Open(p)
      BY <1>0, <3>1, Moves
    <3>2. CASE Crash(p)
      BY <1>0, <3>2 DEF Crash, FilesInv, VaultTypeOK
    <3> QED BY <1>3, <3>1, <3>2
  <2>3. \A a \in Actors : ~ SwapIn(a)
    <3>1. ASSUME NEW a \in Actors, SwapIn(a) PROVE FALSE
      <4>1. pc' = [pc EXCEPT ![a] = pc'[a]] /\ pc'[a] \in {"dropBackup", "unlocking"} /\ pc[a] = "swapIn"
        BY <3>1 DEF SwapIn, Goto, FilesInv, VaultTypeOK
      <4> QED BY <2>2, <4>1
    <3> QED BY <3>1
  <2>4. Refs' = Refs
    BY <2>3, RefsKept
  <2> QED BY <2>1, <2>2, <2>4, SoundKept, DeadSound, AckedKept DEF VersionInv
<1>4. CASE Expire
  <2>1. Refs' = Refs /\ UNCHANGED <<pc, saving, expected, done, published>>
    BY <1>4 DEF Expire, diskVars, callVars, Refs
  <2> QED BY <2>1, SoundKept, AckedKept DEF VersionInv
<1> QED BY <1>1, <1>2, <1>3, <1>4 DEF VaultNext

LEMMA WriterInitial == VaultInit => WriterInv
<1> SUFFICES ASSUME VaultInit PROVE WriterInv
  OBVIOUS
<1>1. /\ \A a \in Actors : pc[a] = "new" /\ done[a] = FALSE
      /\ \A p \in Processes : pc[p] = "down"
      /\ refs = None /\ backup = None /\ published = {}
  BY DEF VaultInit
<1>2. FilesInv
  BY FilesInitial
<1>3. LockInv /\ OpenInv /\ SwapInv
  BY <1>1 DEF LockInv, OpenInv, SwapInv, Stealing, Locked, AtWork
<1>4. \A a \in Actors : Stored(a) = <<>> /\ Members(Stored(a)) = {}
  BY <1>1, NoneIs DEF Stored, Refs, Empty, Members
<1>5. VersionInv
  BY <1>1, <1>4 DEF VersionInv, Sound, AckedSurvive, Preparing
<1> QED BY <1>2, <1>3, <1>5 DEF WriterInv

LEMMA WriterStep == OneWriter /\ WriterInv /\ [VaultNext]_vars => WriterInv'
BY FilesStep, LockStep, OpenStep, SwapStep, VersionStep DEF WriterInv

LEMMA WriterInvariance == OneWriter /\ VaultSpec => []WriterInv
<1>1. CASE OneWriter
  <2>1. WriterInv /\ [VaultNext]_vars => WriterInv'
    BY <1>1, WriterStep
  <2> QED BY <2>1, WriterInitial, PTL DEF VaultSpec
<1> QED BY <1>1

\* The vault of one process, whose calls keep within the expiry of the lock: what a
\* publication returned stays at its generation, whatever others publish or select
\* and wherever the process dies, and a call that failed has left no version.
THEOREM PublishedStay == OneWriter /\ VaultSpec => []VaultSafety
<1>1. WriterInv => VaultSafety
  <2> SUFFICES ASSUME WriterInv PROVE VaultSafety
    OBVIOUS
  <2>1. FailedLeavesNothing
    <3>1. \A a \in Publishers : a \in Actors
      BY VaultAssumption
    <3> QED BY <3>1 DEF WriterInv, VersionInv, Sound, Stored, FailedLeavesNothing
  <2>2. AuthorityIsVersion
    BY DEF WriterInv, FilesInv, AuthorityIsVersion, WellMade
  <2> QED BY <2>1, <2>2 DEF WriterInv, FilesInv, VersionInv, VaultSafety
<1> QED BY <1>1, WriterInvariance, PTL

-----------------------------------------------------------------------------
(* The store of versions.  WriterInv says which versions a call is about to  *)
(* put in place; for the authorities that has to be said as well.            *)

Decided(a) ==
  IF a \in Publishers THEN saving[a].authority = Refs.authority
  ELSE \E i \in DOMAIN Stored(a) :
         saving[a].authority = [Refs.authority EXCEPT ![KeyOf[a]] = Stored(a)[i]]

DecidedInv == \A a \in Actors : pc[a] \in Preparing => Decided(a)

\* The second rename leaves nobody else under the lock.
LEMMA AloneAtSwap ==
  ASSUME FilesInv, LockInv, NEW a \in Actors, SwapIn(a)
  PROVE  /\ \A b \in Actors : b # a => pc[b] \notin Locked /\ pc'[b] = pc[b]
         /\ pc'[a] \in {"dropBackup", "unlocking"} /\ \A p \in Processes : pc'[p] = pc[p]
<1>1. pc \in [Processes \cup Actors -> Outside \cup Locked] /\ pc[a] = "swapIn"
  BY DEF FilesInv, VaultTypeOK, SwapIn
<1>2. \A b \in Actors : b # a => pc[b] \notin Locked
  BY <1>1, Solo DEF Locked
<1>3. \E l \in {"dropBackup", "unlocking"} : pc' = [pc EXCEPT ![a] = l]
  BY DEF SwapIn, Goto
<1> QED BY <1>1, <1>2, <1>3

\* A call keeps what it is about to save until it has saved it.
LEMMA SavingKept ==
  ASSUME FilesInv, OpenInv, VaultNext, NEW a \in Actors, pc'[a] \in Preparing, ~ Publish(a), ~ Select(a)
  PROVE  pc[a] \in Preparing /\ saving'[a] = saving[a]
<1>0. /\ pc \in [Processes \cup Actors -> Outside \cup Locked] /\ saving \in [Actors -> VaultState]
      /\ \A w \in Processes \cup Actors : \A l : Goto(w, l) => pc'[w] = l /\ \A b \in Actors : b # w => pc'[b] = pc[b]
      /\ \A p \in Processes : p \notin Actors
      /\ "dead" \notin Preparing
  BY DEF FilesInv, VaultTypeOK, Goto, Preparing
<1>1. ASSUME NEW b \in Actors, Publish(b) \/ Select(b) PROVE pc'[a] = pc[a] /\ saving'[a] = saving[a]
  <2>1. b # a
    BY <1>1
  <2>2. \E l : Goto(b, l)
    BY <1>1 DEF Publish, Select
  <2>3. saving' = saving \/ \E x : saving' = [saving EXCEPT ![b] = x]
    BY <1>1 DEF Publish, Select
  <2> QED BY <1>0, <2>1, <2>2, <2>3
<1>2. ASSUME NEW b \in Actors, CallStep(b), ~ Publish(b), ~ Select(b)
      PROVE  saving' = saving /\ (pc'[a] = pc[a] \/ pc[a] \in Preparing)
  <2>1. saving' = saving
    BY <1>2 DEF CallStep, Begin, BeginFails, CreateLock, StampLock, LookAtLock, RemoveExpired, WriteTemporary, SwapOut,
           SwapIn, DropBackup, Unlock, callVars
  <2>2. ASSUME b # a PROVE pc'[a] = pc[a]
    BY <1>2, <2>2, Moves
  <2>3. ASSUME b = a PROVE pc[a] \in Preparing
    BY <1>0, <1>2, <2>3 DEF CallStep, Begin, BeginFails, CreateLock, StampLock, LookAtLock, RemoveExpired,
           WriteTemporary, SwapOut, SwapIn, DropBackup, Unlock, Preparing
  <2> QED BY <2>1, <2>2, <2>3
<1>3. ASSUME NEW w \in Processes \cup Actors, RecoverStep(w)
      PROVE  saving' = saving /\ (pc'[a] = pc[a] \/ pc[a] \in Preparing)
  <2>1. saving' = saving
    BY <1>3 DEF RecoverStep, RecoverLook, Restore, Discard, Clean, callVars
  <2>2. ASSUME w # a PROVE pc'[a] = pc[a]
    BY <1>0, <1>3, <2>2 DEF RecoverStep, RecoverLook, Restore, Discard, Clean
  <2>3. ASSUME w = a PROVE pc[a] \in Preparing
    BY <1>3, <2>3 DEF RecoverStep, RecoverLook, Restore, Discard, Clean, Preparing, OpenInv
  <2> QED BY <2>1, <2>2, <2>3
<1>4. ASSUME NEW p \in Processes, Open(p) \/ Crash(p) PROVE saving' = saving /\ (pc'[a] = pc[a] \/ pc'[a] = "dead")
  BY <1>0, <1>4 DEF Open, Crash, callVars
<1>5. CASE Expire
  BY <1>5 DEF Expire, callVars
<1> QED BY <1>0, <1>1, <1>2, <1>3, <1>4, <1>5 DEF VaultNext

LEMMA DecidedStep ==
  ASSUME OneWriter, WriterInv, DecidedInv, [VaultNext]_vars
  PROVE  DecidedInv'
<1> USE DEF WriterInv
<1>0. Preparing \subseteq Locked /\ "dropBackup" \notin Preparing /\ "unlocking" \notin Preparing
  BY DEF Preparing, Locked
<1>1. CASE UNCHANGED vars
  <2>1. Refs' = Refs /\ UNCHANGED <<pc, saving>>
    BY <1>1 DEF vars, diskVars, callVars, Refs
  <2> QED BY <2>1 DEF DecidedInv, Decided, Stored
<1>2. ASSUME NEW b \in Actors, SwapIn(b) PROVE DecidedInv'
  BY <1>0, <1>2, AloneAtSwap DEF DecidedInv
<1>3. ASSUME VaultNext, \A b \in Actors : ~ SwapIn(b), NEW a \in Actors, pc'[a] \in Preparing PROVE Decided(a)'
  <2>1. Refs' = Refs /\ Refs \in VaultState /\ KeyOf[a] \in Keys
    BY <1>3, RefsKept, RefsIs, NoneIs
  <2>2. /\ saving \in [Actors -> VaultState] /\ \A l : Goto(a, l) => pc'[a] = l
    BY DEF FilesInv, VaultTypeOK, Goto
  <2>3. CASE Publish(a)
    <3>1. a \in Publishers /\ Load = Refs
      BY <2>3, LoadIsRefs DEF Publish
    <3>2. saving'[a] = [Refs EXCEPT !.versions[KeyOf[a]] = Append(@, a)]
      BY <1>0, <1>3, <2>2, <2>3, <3>1 DEF Publish
    <3>3. saving'[a].authority = Refs.authority
      BY <2>1, <3>2 DEF VaultState
    <3> QED BY <2>1, <3>1, <3>3 DEF Decided
  <2>4. CASE Select(a)
    <3>1. a \notin Publishers /\ Load = Refs
      BY <2>4, LoadIsRefs DEF Select
    <3>2. PICK hash \in Publishers : /\ hash \in Members(Stored(a))
                                    /\ saving'[a] = [Refs EXCEPT !.authority[KeyOf[a]] = hash]
      BY <1>0, <1>3, <2>2, <2>4, <3>1 DEF Select, Stored
    <3>3. saving'[a].authority = [Refs.authority EXCEPT ![KeyOf[a]] = hash]
      BY <2>1, <3>2 DEF VaultState
    <3>4. PICK i \in DOMAIN Stored(a) : Stored(a)[i] = hash
      BY <3>2 DEF Members
    <3> QED BY <2>1, <3>1, <3>3, <3>4 DEF Decided, Stored
  <2>5. CASE ~ Publish(a) /\ ~ Select(a)
    <3>1. pc[a] \in Preparing /\ saving'[a] = saving[a]
      BY <1>3, <2>5, SavingKept
    <3> QED BY <2>1, <3>1 DEF DecidedInv, Decided, Stored
  <2> QED BY <2>3, <2>4, <2>5
<1> QED BY <1>1, <1>2, <1>3 DEF DecidedInv

\* A step that one call takes, as the store sees it.
LEMMA StageMoves ==
  ASSUME NEW a \in Actors, \A b \in Actors : b # a => pc'[b] = pc[b] /\ done'[b] = done[b]
  PROVE  Stages' = [Stages EXCEPT ![a] = Stages'[a]] /\ Stages[a] = Stage(a) /\ Stages'[a] = Stage(a)'
<1>1. \A b \in Actors : b # a => Stage(b)' = Stage(b)
  BY DEF Stage
<1> QED BY <1>1 DEF Stages

\* Before the second rename a call has asked, after it its effect is stored.
LEMMA StageIs ==
  ASSUME FilesInv, NEW a \in Actors, Sound(a)
  PROVE  /\ pc[a] = "new" => Stage(a) = "new"
         /\ pc[a] \in {"acquire", "stealing", "stamping", "loading"} \cup Preparing => Stage(a) = "asked"
         /\ pc[a] = "dropBackup" => Stage(a) = "stored"
         /\ pc[a] = "unlocking" => Stage(a) = IF done[a] THEN "stored" ELSE "asked"
BY DEF Sound, Stage, Preparing

\* The steps of a call but for the second rename change no more than what its
\* caller knows.
LEMMA CallRefines ==
  ASSUME OneWriter, WriterInv, NEW a \in Actors, CallStep(a) \/ RecoverStep(a), ~ SwapIn(a)
  PROVE  [Abstract!StoreNext]_<<Refs.versions, Refs.authority, Stages, expected>>
<1> USE DEF WriterInv
<1>0. /\ \A l : Goto(a, l) => pc'[a] = l
      /\ Sound(a) /\ expected \in [Actors -> Nat] /\ KeyOf[a] \in Keys
  BY NoneIs DEF FilesInv, VaultTypeOK, Goto, VersionInv
<1>1. /\ Refs' = Refs /\ Refs \in VaultState
      /\ Stages' = [Stages EXCEPT ![a] = Stages'[a]] /\ Stages[a] = Stage(a) /\ Stages'[a] = Stage(a)'
  <2>1. VaultNext /\ \A b \in Actors : ~ SwapIn(b)
    BY OneCallMoves DEF VaultNext
  <2> QED BY <2>1, RefsKept, RefsIs, OneCallMoves, StageMoves
<1>2. Sound(a)'
  <2>1. VaultNext
    BY DEF VaultNext
  <2> QED BY <2>1, WriterStep DEF VersionInv
<1>3. /\ pc'[a] \in {"acquire", "stealing", "stamping", "loading"} \cup Preparing => Stage(a)' = "asked"
      /\ pc'[a] = "unlocking" => Stage(a)' = IF done'[a] THEN "stored" ELSE "asked"
      /\ pc'[a] \in {"ok", "failed"} => Stage(a)' = pc'[a]
  <2>1. pc'[a] \in {"ok", "failed"} => Stage(a)' = pc'[a]
    BY DEF Stage
  <2>2. done'[a] => pc'[a] \in {"unlocking", "ok", "dead"}
    BY <1>2 DEF Sound
  <2> QED BY <2>1, <2>2 DEF Stage, Preparing
<1>4. CASE Begin(a)
  <2>1. Stage(a) = "new" /\ Stage(a)' = "asked"
    BY <1>0, <1>3, <1>4, StageIs DEF Begin
  <2>2. IF a \in Publishers THEN \E n \in {0, Len(Refs.versions[KeyOf[a]])} : expected' = [expected EXCEPT ![a] = n]
                            ELSE expected' = expected
    <3>1. Len(Load.versions[KeyOf[a]]) \in {0, Len(Refs.versions[KeyOf[a]])}
      BY <1>0 DEF Load, Refs, Empty
    <3> QED BY <1>4, <3>1 DEF Begin
  <2>3. Abstract!Request(a)
    BY <1>1, <2>1, <2>2 DEF Abstract!Request
  <2> QED BY <2>3 DEF Abstract!StoreNext
<1>5. ASSUME expected' = expected, Stage(a) \in {"new", "asked"}, Stage(a)' = "failed"
      PROVE  Abstract!StoreNext
  <2>1. Abstract!Refuse(a)
    BY <1>1, <1>5 DEF Abstract!Refuse
  <2> QED BY <2>1 DEF Abstract!StoreNext
<1>6. ASSUME expected' = expected, Stage(a) = Stage(a)'
      PROVE  UNCHANGED <<Refs.versions, Refs.authority, Stages, expected>>
  <2>1. Stages' = Stages
    <3> DEFINE f == Stages g == Stages'
    <3>1. f = [b \in Actors |-> f[b]] /\ g = [f EXCEPT ![a] = f[a]]
      BY <1>1, <1>6 DEF Stages
    <3> HIDE DEF f, g
    <3>2. g = f
      BY <3>1
    <3> QED BY <3>2 DEF f, g
  <2> QED BY <1>1, <1>6, <2>1
<1>7. CASE BeginFails(a)
  BY <1>0, <1>3, <1>5, <1>7, StageIs DEF BeginFails, callVars
<1>8. CASE CreateLock(a) \/ StampLock(a) \/ LookAtLock(a) \/ RemoveExpired(a)
  <2>1. /\ expected' = expected /\ pc[a] \in {"acquire", "stealing", "stamping"}
        /\ pc'[a] \in {"acquire", "stealing", "stamping", "loading", "failed"}
    BY <1>0, <1>8 DEF CreateLock, StampLock, LookAtLock, RemoveExpired, callVars
  <2> QED BY <1>0, <1>3, <1>5, <1>6, <2>1, StageIs
<1>9. CASE Publish(a) \/ Select(a)
  <2>1. /\ expected' = expected /\ done' = done /\ pc[a] = "loading" /\ pc'[a] \in {"recover", "unlocking"}
    BY <1>0, <1>9 DEF Publish, Select
  <2>2. ~ done[a]
    BY <1>0, <2>1 DEF Sound
  <2> QED BY <1>0, <1>3, <1>6, <2>1, <2>2, StageIs DEF Preparing
<1>10. CASE RecoverStep(a) \/ WriteTemporary(a) \/ SwapOut(a)
  <2>1. ~ Restore(a) /\ ~ Discard(a)
    BY DEF Restore, Discard, OpenInv
  <2>2. RecoverLook(a) => Goto(a, "clean")
    <3>1. RecoverLook(a) => backup = None
      BY NoBackup DEF RecoverLook, Locked
    <3> QED BY <3>1 DEF RecoverLook
  <2>3. pc[a] \in Preparing /\ pc'[a] \in Preparing /\ expected' = expected
    BY <1>0, <1>10, <2>1, <2>2 DEF RecoverStep, RecoverLook, Clean, WriteTemporary, SwapOut, Preparing, callVars
  <2> QED BY <1>0, <1>3, <1>6, <2>3, StageIs
<1>11. CASE DropBackup(a)
  <2>1. pc[a] = "dropBackup" /\ pc'[a] = "unlocking" /\ done'[a] = TRUE /\ expected' = expected
    BY <1>0, <1>11 DEF DropBackup, FilesInv, VaultTypeOK
  <2> QED BY <1>0, <1>3, <1>6, <2>1, StageIs
<1>12. CASE Unlock(a)
  <2>1. /\ pc[a] = "unlocking" /\ pc'[a] = (IF done[a] THEN "ok" ELSE "failed") /\ expected' = expected
    BY <1>0, <1>12 DEF Unlock
  <2>2. CASE done[a]
    <3>1. Abstract!Succeed(a)
      BY <1>0, <1>1, <1>3, <2>1, <2>2, StageIs DEF Abstract!Succeed
    <3> QED BY <3>1 DEF Abstract!StoreNext
  <2>3. CASE ~ done[a]
    BY <1>0, <1>3, <1>5, <2>1, <2>3, StageIs
  <2> QED BY <2>2, <2>3
<1> QED BY <1>4, <1>7, <1>8, <1>9, <1>10, <1>11, <1>12 DEF CallStep

\* With the second rename it takes effect.
LEMMA SwapRefines ==
  ASSUME OneWriter, WriterInv, DecidedInv, NEW a \in Actors, SwapIn(a)
  PROVE  Abstract!StoreNext
<1> USE DEF WriterInv
<1>0. /\ saving \in [Actors -> VaultState] /\ None \notin VaultState /\ KeyOf[a] \in Keys /\ Refs \in VaultState
      /\ pc[a] = "swapIn" /\ pc[a] \in Preparing /\ Sound(a) /\ Decided(a)
  BY NoneIs, RefsIs DEF FilesInv, VaultTypeOK, SwapIn, Preparing, VersionInv, DecidedInv
<1>1. temp[a] = saving[a] /\ temp[a] # None
  BY <1>0 DEF SwapInv
<1>2. refs' = saving[a] /\ Goto(a, "dropBackup") /\ UNCHANGED <<expected, done>>
  BY <1>1 DEF SwapIn, callVars
<1>3. Refs' = saving[a]
  BY <1>0, <1>2 DEF Refs
<1>4. Stages' = [Stages EXCEPT ![a] = "stored"] /\ Stages[a] = "asked"
  <2>1. pc'[a] = "dropBackup" /\ \A b \in Actors : b # a => pc'[b] = pc[b] /\ done'[b] = done[b]
    BY <1>2 DEF Goto, FilesInv, VaultTypeOK
  <2>2. Stage(a)' = "stored" /\ Stage(a) = "asked"
    BY <1>0, <2>1, StageIs DEF Stage
  <2> QED BY <2>1, <2>2, StageMoves
<1>5. CASE a \in Publishers
  <2>1. /\ Refs'.versions = [Refs.versions EXCEPT ![KeyOf[a]] = Append(Refs.versions[KeyOf[a]], a)]
        /\ Refs'.authority = Refs.authority /\ Len(Refs.versions[KeyOf[a]]) = expected[a]
    BY <1>0, <1>3, <1>5 DEF Sound, Exact, Decided, Stored
  <2>2. Abstract!AddVersion(a)
    BY <1>2, <1>4, <1>5, <2>1 DEF Abstract!AddVersion
  <2> QED BY <2>2 DEF Abstract!StoreNext
<1>6. CASE a \notin Publishers
  <2>1. PICK i \in DOMAIN Refs.versions[KeyOf[a]] :
          Refs'.authority = [Refs.authority EXCEPT ![KeyOf[a]] = Refs.versions[KeyOf[a]][i]]
    BY <1>0, <1>3, <1>6 DEF Decided, Stored
  <2>2. Refs'.versions = Refs.versions
    BY <1>0, <1>3, <1>6 DEF Sound, Exact
  <2>3. Abstract!ChooseVersion(a)
    BY <1>2, <1>4, <1>6, <2>1, <2>2 DEF Abstract!ChooseVersion
  <2> QED BY <2>3 DEF Abstract!StoreNext
<1> QED BY <1>5, <1>6

LEMMA StoreStep ==
  ASSUME OneWriter, WriterInv, DecidedInv, [VaultNext]_vars
  PROVE  [Abstract!StoreNext]_<<Refs.versions, Refs.authority, Stages, expected>>
<1> USE DEF WriterInv
<1>0. \A p \in Processes : p \notin Actors
  BY VaultAssumption
<1>1. CASE UNCHANGED vars
  BY <1>1 DEF vars, diskVars, callVars, Refs, Stages, Stage
<1>2. ASSUME NEW a \in Actors, CallStep(a) \/ RecoverStep(a)
      PROVE  [Abstract!StoreNext]_<<Refs.versions, Refs.authority, Stages, expected>>
  BY <1>2, CallRefines, SwapRefines
<1>3. ASSUME VaultNext, UNCHANGED <<done, expected>>, \A a \in Actors : pc'[a] = pc[a]
      PROVE  UNCHANGED <<Refs.versions, Refs.authority, Stages, expected>>
  <2>1. \A a \in Actors : ~ SwapIn(a)
    BY <1>3, AloneAtSwap DEF SwapIn
  <2>2. Refs' = Refs
    BY <1>3, <2>1, RefsKept
  <2> QED BY <1>3, <2>2 DEF Stages, Stage
<1>4. ASSUME NEW p \in Processes, RecoverStep(p) \/ Open(p)
      PROVE  UNCHANGED <<Refs.versions, Refs.authority, Stages, expected>>
  <2>1. VaultNext /\ UNCHANGED <<done, expected>>
    BY <1>4 DEF VaultNext, RecoverStep, RecoverLook, Restore, Discard, Clean, Open, callVars
  <2>2. \A a \in Actors : pc'[a] = pc[a]
    BY <1>0, <1>4, Moves
  <2> QED BY <1>3, <2>1, <2>2
<1>5. CASE Expire
  BY <1>3, <1>5 DEF Expire, VaultNext, callVars
<1>6. ASSUME NEW p \in Processes, Crash(p) PROVE Abstract!StoreNext
  <2> DEFINE S == {a \in Actors : pc[a] # "dead" /\ pc'[a] = "dead"}
  <2>1. /\ UNCHANGED <<done, expected, refs, backup>>
        /\ \A a \in Actors : pc'[a] = pc[a] \/ (pc[a] \notin {"new", "ok", "failed"} /\ pc'[a] = "dead")
    BY <1>0, <1>6 DEF Crash, callVars, diskVars, FilesInv, VaultTypeOK
  <2>2. Refs' = Refs
    BY <2>1 DEF Refs
  <2>3. ASSUME NEW a \in Actors
        PROVE  IF a \in S THEN Stage(a) \in {"asked", "stored"} /\ Stage(a)' = "lost" ELSE Stage(a)' = Stage(a)
    <3>1. CASE a \in S
      BY <2>1, <3>1 DEF Stage
    <3>2. CASE a \notin S
      BY <2>1, <3>2 DEF Stage
    <3> QED BY <3>1, <3>2
  <2>4. (\A a \in S : Stages[a] \in {"asked", "stored"})
        /\ Stages' = [a \in Actors |-> IF a \in S THEN "lost" ELSE Stages[a]]
    <3> HIDE DEF S
    <3>1. S \subseteq Actors
      BY DEF S
    <3> QED BY <2>3, <3>1 DEF Stages
  <2>5. Abstract!Lose(S)
    BY <2>1, <2>2, <2>4 DEF Abstract!Lose
  <2>6. S \in SUBSET Actors
    OBVIOUS
  <2> QED BY <2>5, <2>6 DEF Abstract!StoreNext
<1> QED BY <1>1, <1>2, <1>4, <1>5, <1>6 DEF VaultNext

\* The vault of one process, whose calls keep within the expiry of the lock, is a
\* store of versions: each call takes effect at one moment, its second rename, or
\* not at all, and its caller is told which unless it dies.
THEOREM VaultImplementsStore == OneWriter /\ VaultSpec => ImplementsStore
<1>1. VaultInit => Abstract!StoreInit /\ DecidedInv
  BY NoneIs DEF VaultInit, Abstract!StoreInit, Abstract!StoreKeys, Refs, Empty, Keys, Stages, Stage, DecidedInv, Preparing
<1>2. ASSUME OneWriter PROVE VaultSpec => ImplementsStore
  <2>1. WriterInv /\ DecidedInv /\ [VaultNext]_vars => DecidedInv'
    BY <1>2, DecidedStep
  <2>2. WriterInv /\ DecidedInv /\ [VaultNext]_vars
          => [Abstract!StoreNext]_<<Refs.versions, Refs.authority, Stages, expected>>
    BY <1>2, StoreStep
  <2>3. VaultSpec => []WriterInv
    BY <1>2, WriterInvariance
  <2> QED BY <1>1, <2>1, <2>2, <2>3, PTL
          DEF VaultSpec, ImplementsStore, Abstract!StoreSpec, Abstract!storeVars
<1> QED BY <1>2

-----------------------------------------------------------------------------
(***************************************************************************)
(* CouncilDag                                                              *)
(***************************************************************************)
HIDE NoneAssumption
HIDE VaultAssumption
USE CouncilAssumption

-----------------------------------------------------------------------------
(* The plans *)

SmallPlan == {"implementation", "testing", "delivery"}
HighPlan == {"requirements", "risk", "design", "implementation", "review", "testing", "delivery"}

LEMMA PlanAnalysis ==
  /\ DOMAIN Plan["analysis"] = {"analysis", "delivery"}
  /\ Plan["analysis"]["analysis"].deps = {}
  /\ Plan["analysis"]["delivery"].deps = {"analysis"}
BY DEF Plan, Node

LEMMA PlanChange ==
  ASSUME NEW c \in {"small", "standard"}
  PROVE  /\ DOMAIN Plan[c] = SmallPlan
         /\ Plan[c]["implementation"].deps = {}
         /\ Plan[c]["testing"].deps = {"implementation"}
         /\ Plan[c]["delivery"].deps = {"testing"}
<1>1. Plan[c] = Change
  BY DEF Plan
<1> QED BY <1>1 DEF Change, Node, SmallPlan

LEMMA PlanHigh ==
  /\ DOMAIN Plan["high"] = HighPlan
  /\ \A t \in {"requirements", "risk", "design"} : Plan["high"][t].deps = {}
  /\ Plan["high"]["implementation"].deps = {"design"}
  /\ \A t \in {"review", "testing"} : Plan["high"][t].deps = {"implementation"}
  /\ Plan["high"]["delivery"].deps = {"requirements", "risk", "review", "testing"}
BY DEF Plan, Node, HighPlan

Names == {"analysis", "delivery", "design", "implementation",
          "requirements", "review", "risk", "testing"}

LEMMA PlanShape ==
  ASSUME NEW c \in {"analysis", "small", "standard", "high"}
  PROVE  /\ DOMAIN Plan[c] \subseteq Names
         /\ "delivery" \in DOMAIN Plan[c]
         /\ \A t \in DOMAIN Plan[c] : Plan[c][t].deps \subseteq DOMAIN Plan[c]
         /\ "testing" \in DOMAIN Plan[c] =>
              "implementation" \in DOMAIN Plan[c] /\ "implementation" \in Plan[c]["testing"].deps
<1>1. CASE c = "analysis"
  BY <1>1, PlanAnalysis DEF Names
<1>2. CASE c \in {"small", "standard"}
  BY <1>2, PlanChange DEF SmallPlan, Names
<1>3. CASE c = "high"
  BY <1>3, PlanHigh DEF HighPlan, Names
<1> QED BY <1>1, <1>2, <1>3

\* A plan has no cycle.
LEMMA PlanFirst ==
  ASSUME NEW c \in {"analysis", "small", "standard", "high"},
         NEW U, U \subseteq DOMAIN Plan[c], U # {}
  PROVE  \E t \in U : Plan[c][t].deps \cap U = {}
<1>1. CASE c = "analysis"
  BY <1>1, PlanAnalysis 
<1>2. CASE c \in {"small", "standard"}
  BY <1>2, PlanChange DEF SmallPlan
<1>3. CASE c = "high"
  BY <1>3, PlanHigh DEF HighPlan
<1> QED BY <1>1, <1>2, <1>3

-----------------------------------------------------------------------------
(* A pass over the names *)

LEMMA ByNameIs ==
  /\ Len(ByName) = 8
  /\ \A i \in 1 .. 8 : ByName[i] \in Names
  /\ \A t \in Names : \E i \in 1 .. 8 : ByName[i] = t
  /\ \A i, j \in 1 .. 8 : i # j => ByName[i] # ByName[j]
<1>1. Len(ByName) = 8
  BY DEF ByName
<1>2. /\ ByName[1] = "analysis" /\ ByName[2] = "delivery" /\ ByName[3] = "design"
      /\ ByName[4] = "implementation" /\ ByName[5] = "requirements"
      /\ ByName[6] = "review" /\ ByName[7] = "risk" /\ ByName[8] = "testing"
  BY DEF ByName
<1>3. \A i \in 1 .. 8 : \/ i = 1 \/ i = 2 \/ i = 3 \/ i = 4 \/ i = 5 \/ i = 6 \/ i = 7 \/ i = 8
  OBVIOUS
<1>4. 1 \in 1 .. 8 /\ 2 \in 1 .. 8 /\ 3 \in 1 .. 8 /\ 4 \in 1 .. 8 /\ 5 \in 1 .. 8
      /\ 6 \in 1 .. 8 /\ 7 \in 1 .. 8 /\ 8 \in 1 .. 8
  OBVIOUS
<1>5. \A t \in Names : \E i \in 1 .. 8 : ByName[i] = t
  BY <1>2, <1>4 DEF Names
<1>6. \A i \in 1 .. 8 : ByName[i] \in Names
  BY <1>2, <1>3 DEF Names
<1>7. \A i, j \in 1 .. 8 : i # j => ByName[i] # ByName[j]
  BY <1>2, <1>3
<1> QED BY <1>1, <1>5, <1>6, <1>7

\* g[i] is what the pass has made of the tasks after i names.
PassUpTo(g, n, lowRisk) ==
  g = [i \in 0 .. n |-> IF i = 0 THEN [task |-> task, progress |-> progress]
                         ELSE IF ByName[i] \in Tasks /\ Candidate(ByName[i])
                         THEN Started(g[i - 1], ByName[i], lowRisk)
                         ELSE g[i - 1]]

\* The passes up to n names exist, for the least n for which they did not would
\* be reached from the one before.
LEMMA PassExists ==
  ASSUME NEW lowRisk
  PROVE  \A n \in Nat : \E g : PassUpTo(g, n, lowRisk)
<1> DEFINE Bad == {n \in Nat : ~ \E g : PassUpTo(g, n, lowRisk)}
<1>1. SUFFICES Bad = {}
  OBVIOUS
<1>2. SUFFICES ASSUME Bad # {} PROVE FALSE
  OBVIOUS
<1>3. PICK n \in Bad : \A m \in Bad : ~ (<<m, n>> \in OpToRel(<, Nat))
  <2>1. Bad \subseteq Nat
    OBVIOUS
  <2> HIDE DEF Bad
  <2> QED BY <1>2, <2>1, NatLessThanWellFounded, WFMin
<1>4. n \in Nat
  OBVIOUS
<1>5. n # 0
  <2> DEFINE f == [i \in 0 .. 0 |-> [task |-> task, progress |-> progress]]
  <2>1. PassUpTo(f, 0, lowRisk)
    BY DEF PassUpTo
  <2> QED BY <2>1
<1>6. n - 1 \in Nat /\ <<n - 1, n>> \in OpToRel(<, Nat)
  BY <1>4, <1>5 DEF OpToRel
<1>7. PICK g : PassUpTo(g, n - 1, lowRisk)
  BY <1>3, <1>6
<1> DEFINE val(i) == IF i = 0 THEN [task |-> task, progress |-> progress]
                     ELSE IF ByName[i] \in Tasks /\ Candidate(ByName[i])
                     THEN Started(g[i - 1], ByName[i], lowRisk)
                     ELSE g[i - 1]
<1> DEFINE h == [i \in 0 .. n |-> val(i)]
<1>8. \A i \in 0 .. n - 1 : h[i] = g[i]
  <2> TAKE i \in 0 .. n - 1
  <2>1. h[i] = val(i)
    BY <1>4
  <2>2. g[i] = val(i)
    BY <1>7 DEF PassUpTo
  <2> QED BY <2>1, <2>2
<1>9. PassUpTo(h, n, lowRisk)
  <2>1. h = [i \in 0 .. n |-> val(i)]
    OBVIOUS
  <2> HIDE DEF h
  <2>2. \A i \in 0 .. n : i # 0 => i - 1 \in 0 .. n - 1
    BY <1>4
  <2>3. \A i \in 0 .. n : i # 0 => h[i - 1] = g[i - 1]
    BY <1>8, <2>2
  <2> QED BY <2>1, <2>3 DEF PassUpTo
<1> QED BY <1>9

LEMMA PassIs ==
  ASSUME NEW lowRisk
  PROVE  \E g : PassUpTo(g, 8, lowRisk) /\ Pass(lowRisk) = g[8]
<1>1. PICK g : PassUpTo(g, 8, lowRisk)
  BY PassExists
<1>2. Pass(lowRisk) = (CHOOSE f : PassUpTo(f, 8, lowRisk))[8]
  BY ByNameIs DEF Pass, PassUpTo
<1>3. PassUpTo(CHOOSE f : PassUpTo(f, 8, lowRisk), 8, lowRisk)
  BY <1>1
<1> QED BY <1>2, <1>3

-----------------------------------------------------------------------------
(* What a task may look like *)

Planned == DOMAIN Plan[class]

TaskRecs ==
  [st : {"pending", "ready", "working", "checking", "done", "failed", "cancelled"},
   attempt : Nat, checked : BOOLEAN, resumed : BOOLEAN, verdict : {"none", "pass", "fail"}]

\* A node that may still be started has an attempt left: the last of all once
\* it was resumed.
RecOK(rec) ==
  /\ rec \in TaskRecs
  /\ rec.verdict # "none" <=> rec.st = "done"
  /\ rec.resumed => ~Fast /\ rec.attempt \in {MaxAttempts, MaxAttempts + 1}
  /\ ~rec.resumed => rec.attempt <= MaxAttempts
  /\ rec.st \in {"pending", "ready", "checking"} =>
       rec.attempt < IF rec.resumed THEN MaxAttempts + 1 ELSE MaxAttempts
  /\ rec.st = "working" /\ rec.resumed => rec.attempt = MaxAttempts + 1
  /\ rec.st = "failed" => rec.attempt = Attempts

TasksOK(ts) ==
  /\ DOMAIN ts = Planned /\ ts = [t \in Planned |-> ts[t]]
  /\ \A t \in Planned : RecOK(ts[t])
  /\ \A t \in Planned : InFlight(ts, t) \/ ts[t].st = "done" =>
       \A d \in NodeOf(t).deps : ts[d].st = "done"
  /\ Cardinality(Running(ts)) <= MaxParallel

LEMMA PlannedFinite ==
  ASSUME class \in Classes
  PROVE  Planned \subseteq Names /\ IsFiniteSet(Planned)
<1>1. Planned \subseteq Names
  BY PlanShape DEF Planned
<1>2. \A S, x : IsFiniteSet(S) => IsFiniteSet(S \cup {x})
  BY FS_AddElement
<1>3. IsFiniteSet({} \cup {"analysis"} \cup {"delivery"} \cup {"design"} \cup {"implementation"})
  BY <1>2, FS_EmptySet
<1>4. IsFiniteSet({} \cup {"analysis"} \cup {"delivery"} \cup {"design"} \cup {"implementation"}
                  \cup {"requirements"} \cup {"review"} \cup {"risk"} \cup {"testing"})
  BY <1>2, <1>3
<1>5. Names = {} \cup {"analysis"} \cup {"delivery"} \cup {"design"} \cup {"implementation"}
                 \cup {"requirements"} \cup {"review"} \cup {"risk"} \cup {"testing"}
  BY DEF Names
<1> QED BY <1>1, <1>4, <1>5, FS_Subset

LEMMA RunningFinite ==
  ASSUME class \in Classes, NEW ts, DOMAIN ts = Planned
  PROVE  /\ Running(ts) \subseteq Planned /\ IsFiniteSet(Running(ts))
         /\ Cardinality(Running(ts)) \in Nat
         /\ Running(ts) = {} => ~Full(ts)
<1>1. Running(ts) \subseteq Planned
  BY DEF Running
<1>2. IsFiniteSet(Running(ts))
  BY <1>1, PlannedFinite, FS_Subset
<1>3. Cardinality(Running(ts)) \in Nat
  BY <1>2, FS_CardinalityType
<1>4. Running(ts) = {} => Cardinality(Running(ts)) = 0
  BY FS_EmptySet
<1>5. Running(ts) = {} => ~Full(ts)
  BY <1>4 DEF Full
<1> QED BY <1>1, <1>2, <1>3, <1>5

\* One task moves.
LEMMA OneMoves ==
  ASSUME class \in Classes, NEW ts, TasksOK(ts), NEW t \in Planned, NEW rec, RecOK(rec),
         ts[t].st # "done",
         rec.st \in {"working", "checking"} => ~Full(ts) \/ InFlight(ts, t),
         rec.st \in {"working", "checking", "done"} => \A d \in NodeOf(t).deps : ts[d].st = "done"
  PROVE  TasksOK([ts EXCEPT ![t] = rec])
<1> DEFINE new == [ts EXCEPT ![t] = rec]
<1>1. DOMAIN new = Planned /\ new = [u \in Planned |-> new[u]]
  BY DEF TasksOK
<1>2. new[t] = rec /\ \A u \in Planned : u # t => new[u] = ts[u]
  BY DEF TasksOK
<1>3. \A u \in Planned : RecOK(new[u])
  BY <1>2 DEF TasksOK
<1>4. \A u \in Planned : NodeOf(u).deps \subseteq Planned
  BY PlanShape DEF Planned, NodeOf
<1>5. \A u \in Planned : ts[u].st = "done" => new[u].st = "done"
  BY <1>2
<1> HIDE DEF new
<1>6. ASSUME NEW u \in Planned, InFlight(new, u) \/ new[u].st = "done"
      PROVE  \A d \in NodeOf(u).deps : new[d].st = "done"
  <2>1. \A d \in NodeOf(u).deps : ts[d].st = "done"
    <3>1. CASE u = t
      BY <1>2, <1>6, <3>1 DEF InFlight
    <3>2. CASE u # t
      BY <1>2, <1>6, <3>2 DEF InFlight, TasksOK
    <3> QED BY <3>1, <3>2
  <2> QED BY <2>1, <1>4, <1>5
<1>7. Cardinality(Running(new)) <= MaxParallel
  <2>0. DOMAIN ts = Planned
    BY DEF TasksOK
  <2>1. CASE rec.st \in {"working", "checking"} /\ ~InFlight(ts, t)
    <3>1. Running(new) = Running(ts) \cup {t} /\ t \notin Running(ts)
      BY <1>1, <1>2, <2>0, <2>1 DEF Running, InFlight
    <3>2. Cardinality(Running(new)) = Cardinality(Running(ts)) + 1
      BY <3>1, <2>0, RunningFinite, FS_AddElement
    <3>3. Cardinality(Running(ts)) < MaxParallel /\ Cardinality(Running(ts)) \in Nat
      BY <2>0, <2>1, RunningFinite DEF Full
    <3> QED BY <3>2, <3>3
  <2>2. CASE ~ (rec.st \in {"working", "checking"} /\ ~InFlight(ts, t))
    <3>1. Running(new) \subseteq Running(ts)
      BY <1>1, <1>2, <2>0, <2>2 DEF Running, InFlight
    <3>2. Cardinality(Running(new)) <= Cardinality(Running(ts)) /\ Cardinality(Running(new)) \in Nat
      BY <3>1, <1>1, <2>0, RunningFinite, FS_Subset
    <3>3. Cardinality(Running(ts)) <= MaxParallel /\ Cardinality(Running(ts)) \in Nat
      BY <2>0, RunningFinite DEF TasksOK
    <3> QED BY <3>2, <3>3
  <2> QED BY <2>1, <2>2
<1> QED BY <1>1, <1>3, <1>6, <1>7 DEF TasksOK, new

-----------------------------------------------------------------------------
(* The pass *)

\* What a pass has done after i names: a candidate is left as it was, or it is
\* with its expert, with the local check, or done on the spot; and if there was
\* one then something was done, or somebody was at work.
PassInv(s, i) ==
  /\ TasksOK(s.task) /\ s.progress \in BOOLEAN
  /\ \A j \in (i + 1) .. 8 : ByName[j] \in Planned => s.task[ByName[j]] = task[ByName[j]]
  /\ \A t \in Planned :
       \/ s.task[t] = task[t]
       \/ /\ Candidate(t)
          /\ \/ s.task[t].st \in {"working", "checking"}
             \/ s.task[t].st = "done" /\ t # "testing"
  /\ (\E j \in 1 .. i : ByName[j] \in Planned /\ Candidate(ByName[j])) =>
       s.progress \/ Running(s.task) # {}

LEMMA Restarted ==
  ASSUME NEW rec, RecOK(rec), rec.st \in {"pending", "ready"}
  PROVE  /\ \A verdict \in {"pass", "fail"} :
              RecOK(Done(rec, verdict)) /\ Done(rec, verdict).st = "done"
         /\ RecOK(Checking(rec)) /\ Checking(rec).st = "checking"
         /\ \A c \in BOOLEAN : RecOK(Working(rec, c)) /\ Working(rec, c).st = "working"
<1>1. rec \in TaskRecs /\ rec.attempt \in Nat
  BY DEF RecOK, TaskRecs
<1>2. ASSUME NEW verdict \in {"pass", "fail"}
      PROVE  RecOK(Done(rec, verdict)) /\ Done(rec, verdict).st = "done"
  <2> DEFINE new == Done(rec, verdict)
  <2>1. /\ new \in TaskRecs /\ new.st = "done" /\ new.verdict = verdict
        /\ new.attempt = rec.attempt /\ new.resumed = rec.resumed
    BY <1>1 DEF Done, TaskRecs
  <2> HIDE DEF new
  <2> QED BY <1>2, <2>1 DEF RecOK, new
<1>3. RecOK(Checking(rec)) /\ Checking(rec).st = "checking"
  <2> DEFINE new == Checking(rec)
  <2>1. /\ new \in TaskRecs /\ new.st = "checking" /\ new.verdict = rec.verdict
        /\ new.attempt = rec.attempt /\ new.resumed = rec.resumed
    BY <1>1 DEF Checking, TaskRecs
  <2> HIDE DEF new
  <2> QED BY <2>1 DEF RecOK, new
<1>4. ASSUME NEW c \in BOOLEAN
      PROVE  RecOK(Working(rec, c)) /\ Working(rec, c).st = "working"
  <2> DEFINE new == Working(rec, c)
  <2>1. PICK a \in Nat : a = rec.attempt + 1
    BY <1>1
  <2>2. new = [rec EXCEPT !.st = "working", !.attempt = a, !.checked = c]
    BY <2>1 DEF Working
  <2>3. /\ new \in TaskRecs /\ new.st = "working" /\ new.verdict = rec.verdict
        /\ new.attempt = a /\ new.resumed = rec.resumed
    BY <1>1, <1>4, <2>2 DEF TaskRecs
  <2> HIDE DEF new
  <2> QED BY <1>1, <2>1, <2>3 DEF RecOK, new
<1> QED BY <1>2, <1>3, <1>4

\* What starting the candidate t may make of s.
StartedAs(s, t, r) ==
  \/ r = s /\ Running(s.task) # {}
  \/ \E rec : /\ RecOK(rec) /\ r.task = [s.task EXCEPT ![t] = rec]
              /\ \/ rec.st \in {"working", "checking"} /\ r.progress = s.progress
                 \/ rec.st = "done" /\ r.progress = TRUE /\ t # "testing"
              /\ ~Full(s.task)

LEMMA StartedDoes ==
  ASSUME class \in Classes, NEW s, TasksOK(s.task), s.progress \in BOOLEAN, DOMAIN task = Planned,
         NEW t \in Planned, s.task[t].st \in {"pending", "ready"},
         \A d \in NodeOf(t).deps : s.task[d].st = "done",
         NEW lowRisk, NEW r, r = Started(s, t, lowRisk)
  PROVE  StartedAs(s, t, r)
<1> DEFINE rec == s.task[t]
           conflicts == \E q \in Running(s.task) : Overlap(NodeOf(t).scopes, NodeOf(q).scopes)
           locally == \/ t = "delivery" /\ Cardinality(Tasks) <= 3
                      \/ t = "review" /\ lowRisk
           now == IF t = "review" THEN Done(rec, "pass") ELSE LocalDelivery(s.task)
<1>1. RecOK(rec) /\ rec \in TaskRecs /\ rec.checked \in BOOLEAN
  BY DEF TasksOK, RecOK, TaskRecs
<1>6. /\ \A verdict \in {"pass", "fail"} : RecOK(Done(rec, verdict)) /\ Done(rec, verdict).st = "done"
      /\ RecOK(Checking(rec)) /\ Checking(rec).st = "checking"
      /\ \A c \in BOOLEAN : RecOK(Working(rec, c)) /\ Working(rec, c).st = "working"
  BY <1>1, Restarted
<1>2. CASE Full(s.task) \/ conflicts
  <2>1. r = s
    BY <1>2 DEF Started
  <2>2. Running(s.task) # {}
    BY <1>2, RunningFinite DEF TasksOK
  <2> QED BY <2>1, <2>2 DEF StartedAs
<1>3. CASE ~ (Full(s.task) \/ conflicts) /\ ~rec.checked /\ locally
  <2>1. r = [task |-> [s.task EXCEPT ![t] = now], progress |-> TRUE]
    BY <1>3 DEF Started
  <2>2. t \in {"delivery", "review"} /\ t # "testing"
    BY <1>3
  <2>3. PICK verdict \in {"pass", "fail"} : now = Done(rec, verdict)
    BY <2>2 DEF LocalDelivery
  <2>4. RecOK(now) /\ now.st = "done"
    BY <1>6, <2>3
  <2> HIDE DEF now, rec
  <2>5. RecOK(now) /\ r.task = [s.task EXCEPT ![t] = now] /\ r.progress = TRUE
    BY <2>1, <2>4
  <2> QED BY <1>3, <2>2, <2>4, <2>5 DEF StartedAs
<1>4. CASE ~ (Full(s.task) \/ conflicts) /\ ~rec.checked /\ ~locally /\ t = "testing"
  <2>1. r = [task |-> [s.task EXCEPT ![t] = Checking(rec)], progress |-> s.progress]
    BY <1>4 DEF Started
  <2>2. RecOK(Checking(rec)) /\ Checking(rec).st = "checking"
    BY <1>6
  <2> DEFINE new == Checking(rec)
  <2>3. RecOK(new) /\ new.st = "checking" /\ r.task = [s.task EXCEPT ![t] = new] /\ r.progress = s.progress
    BY <2>1, <2>2
  <2> HIDE DEF new, rec
  <2> QED BY <1>4, <2>3 DEF StartedAs
<1>5. CASE ~ (Full(s.task) \/ conflicts) /\ ~ (~rec.checked /\ locally) /\ ~ (~rec.checked /\ t = "testing")
  <2> DEFINE c == rec.checked \/ t = "review"
  <2>1. r = [task |-> [s.task EXCEPT ![t] = Working(rec, c)], progress |-> s.progress]
    BY <1>5 DEF Started
  <2>2. c \in BOOLEAN
    BY <1>1
  <2>3. RecOK(Working(rec, c)) /\ Working(rec, c).st = "working"
    BY <1>6, <2>2
  <2> DEFINE new == Working(rec, c)
  <2>4. RecOK(new) /\ new.st = "working" /\ r.task = [s.task EXCEPT ![t] = new] /\ r.progress = s.progress
    BY <2>1, <2>3
  <2> HIDE DEF new, rec
  <2> QED BY <1>5, <2>4 DEF StartedAs
<1> QED BY <1>2, <1>3, <1>4, <1>5

LEMMA PassStep ==
  ASSUME class \in Classes, TasksOK(task), progress \in BOOLEAN, NEW lowRisk \in BOOLEAN,
         NEW i \in 1 .. 8, NEW s, PassInv(s, i - 1)
  PROVE  PassInv(IF ByName[i] \in Tasks /\ Candidate(ByName[i])
                 THEN Started(s, ByName[i], lowRisk) ELSE s, i)
<1>1. Tasks = Planned /\ DOMAIN task = Planned /\ DOMAIN s.task = Planned
  BY DEF TasksOK, Tasks, PassInv
<1>2. ASSUME ~ (ByName[i] \in Planned /\ Candidate(ByName[i])) PROVE PassInv(s, i)
  <2>1. \A j \in (i + 1) .. 8 : j \in ((i - 1) + 1) .. 8
    OBVIOUS
  <2>2. \A j \in 1 .. i : j \in 1 .. (i - 1) \/ j = i
    OBVIOUS
  <2> QED BY <1>2, <2>1, <2>2 DEF PassInv
<1>3. ASSUME NEW t \in Planned, t = ByName[i], Candidate(t), NEW r, r = Started(s, t, lowRisk)
      PROVE  PassInv(r, i)
  <2>1. i \in ((i - 1) + 1) .. 8
    OBVIOUS
  <2>2. s.task[t] = task[t] /\ task[t].st \in {"pending", "ready"} /\ s.task[t].st \in {"pending", "ready"}
    BY <1>3, <2>1 DEF PassInv, Candidate
  <2>3. NodeOf(t).deps \subseteq Planned
    BY <1>3, PlanShape DEF Planned, NodeOf
  <2>4. \A d \in NodeOf(t).deps : s.task[d].st = "done"
    BY <1>3, <2>3 DEF PassInv, Candidate
  <2>5. TasksOK(s.task) /\ s.progress \in BOOLEAN
    BY DEF PassInv
  <2>6. StartedAs(s, t, r)
    BY <1>1, <1>3, <2>2, <2>4, <2>5, StartedDoes
  <2>7. CASE r = s /\ Running(s.task) # {}
    <3>1. \A j \in (i + 1) .. 8 : j \in ((i - 1) + 1) .. 8
      OBVIOUS
    <3> QED BY <2>7, <3>1 DEF PassInv
  <2>8. ASSUME NEW rec, RecOK(rec), r.task = [s.task EXCEPT ![t] = rec],
               \/ rec.st \in {"working", "checking"} /\ r.progress = s.progress
               \/ rec.st = "done" /\ r.progress = TRUE /\ t # "testing",
               ~Full(s.task)
        PROVE  PassInv(r, i)
    <3>1. r.task[t] = rec /\ \A u \in Planned : u # t => r.task[u] = s.task[u]
      BY <1>1, <1>3, <2>8
    <3>2. DOMAIN r.task = Planned
      BY <1>1, <2>8
    <3>3. TasksOK(r.task)
      BY <1>3, <2>2, <2>4, <2>5, <2>8, OneMoves
    <3>4. r.progress \in BOOLEAN
      BY <2>5, <2>8
    <3>5. ASSUME NEW j \in (i + 1) .. 8, ByName[j] \in Planned PROVE r.task[ByName[j]] = task[ByName[j]]
      <4>1. j \in ((i - 1) + 1) .. 8 /\ j \in 1 .. 8 /\ j # i
        OBVIOUS
      <4>2. ByName[j] # t
        BY <1>3, <4>1, ByNameIs
      <4> QED BY <3>1, <3>5, <4>1, <4>2 DEF PassInv
    <3>6. ASSUME NEW u \in Planned
          PROVE  \/ r.task[u] = task[u]
                 \/ /\ Candidate(u)
                    /\ \/ r.task[u].st \in {"working", "checking"}
                       \/ r.task[u].st = "done" /\ u # "testing"
      <4>1. CASE u = t
        BY <1>3, <2>8, <3>1, <4>1
      <4>2. CASE u # t
        BY <3>1, <4>2 DEF PassInv
      <4> QED BY <4>1, <4>2
    <3>7. r.progress \/ Running(r.task) # {}
      <4>1. CASE rec.st \in {"working", "checking"}
        BY <1>3, <3>1, <3>2, <4>1 DEF Running, InFlight
      <4> QED BY <2>8, <4>1
    <3> QED BY <3>3, <3>4, <3>5, <3>6, <3>7 DEF PassInv
  <2> QED BY <2>6, <2>7, <2>8 DEF StartedAs
<1> QED BY <1>1, <1>2, <1>3

LEMMA PassHolds ==
  ASSUME class \in Classes, TasksOK(task), progress \in BOOLEAN, NEW lowRisk \in BOOLEAN
  PROVE  PassInv(Pass(lowRisk), 8)
<1>1. PICK g : PassUpTo(g, 8, lowRisk) /\ Pass(lowRisk) = g[8]
  BY PassIs
<1>2. g[0] = [task |-> task, progress |-> progress]
  BY <1>1 DEF PassUpTo
<1>3. PassInv(g[0], 0)
  BY <1>2 DEF PassInv
<1>4. ASSUME NEW i \in 1 .. 8, PassInv(g[i - 1], i - 1) PROVE PassInv(g[i], i)
  <2>1. i \in 0 .. 8 /\ i # 0
    OBVIOUS
  <2>2. g[i] = IF ByName[i] \in Tasks /\ Candidate(ByName[i])
               THEN Started(g[i - 1], ByName[i], lowRisk) ELSE g[i - 1]
    BY <1>1, <2>1 DEF PassUpTo
  <2> QED BY <1>4, <2>2, PassStep
<1>5. /\ PassInv(g[0], 0) => PassInv(g[1], 1)
      /\ PassInv(g[1], 1) => PassInv(g[2], 2)
      /\ PassInv(g[2], 2) => PassInv(g[3], 3)
      /\ PassInv(g[3], 3) => PassInv(g[4], 4)
      /\ PassInv(g[4], 4) => PassInv(g[5], 5)
      /\ PassInv(g[5], 5) => PassInv(g[6], 6)
      /\ PassInv(g[6], 6) => PassInv(g[7], 7)
      /\ PassInv(g[7], 7) => PassInv(g[8], 8)
  <2>1. /\ 1 - 1 = 0 /\ 2 - 1 = 1 /\ 3 - 1 = 2 /\ 4 - 1 = 3 /\ 5 - 1 = 4
        /\ 6 - 1 = 5 /\ 7 - 1 = 6 /\ 8 - 1 = 7
        /\ {1, 2, 3, 4, 5, 6, 7, 8} \subseteq 1 .. 8
    OBVIOUS
  <2> QED BY <1>4, <2>1
<1> QED BY <1>1, <1>3, <1>5

-----------------------------------------------------------------------------
(* The inductive invariant *)

\* A council that has not ended has cancelled nothing, and remembers that a node
\* has failed for good as long as there is one.
FailuresTrue ==
  phase # "over" =>
    /\ \A t \in Planned : task[t].st # "cancelled"
    /\ failure = (\E t \in Planned : task[t].st = "failed")

\* When the scheduler finds nothing to wait for, no node is a candidate, unless
\* something was finished on the spot.
IdleIsIdle ==
  phase = "idle" => Running(task) = {} /\ (progress \/ \A t \in Planned : ~Candidate(t))

\* What testing looked at is what there is.
TestedIsCurrent ==
  "testing" \in Planned /\ task["testing"].st = "done" /\ ~stray => tested = edits

CouncilInv ==
  /\ class \in Classes /\ TasksOK(task)
  /\ failure \in BOOLEAN /\ progress \in BOOLEAN /\ stray \in BOOLEAN
  /\ phase \in {"loop", "idle", "select", "gates", "over"}
  /\ phase = "select" => Running(task) # {}
  /\ (phase = "over") = (outcome # "none")
  /\ phase = "gates" => \A t \in Planned : task[t].st = "done"
  /\ FailuresTrue /\ IdleIsIdle /\ TestedIsCurrent
  /\ BlockedHasCause /\ VerifiedHasPassed

LEMMA CouncilInvImplies == CouncilInv => CouncilSafety
<1> SUFFICES ASSUME CouncilInv PROVE CouncilSafety
  OBVIOUS
<1>1. Tasks = Planned /\ DOMAIN task = Planned
  BY DEF CouncilInv, TasksOK, Tasks
<1>2. CouncilTypeOK
  <2>1. \A t \in Tasks :
          /\ task[t].st \in {"pending", "ready", "working", "checking", "done", "failed", "cancelled"}
          /\ task[t].verdict \in {"none", "pass", "fail"}
          /\ task[t].verdict # "none" <=> task[t].st = "done"
    BY <1>1 DEF CouncilInv, TasksOK, RecOK, TaskRecs
  <2>2. Tasks = DOMAIN Plan[class] /\ class \in Classes /\ Cardinality(Running(task)) <= MaxParallel
    BY <1>1 DEF CouncilInv, TasksOK, Planned
  <2>3. /\ phase \in {"loop", "idle", "select", "gates", "over"}
        /\ phase = "select" => Running(task) # {}
        /\ (phase = "over") = (outcome # "none")
    BY DEF CouncilInv
  <2> QED BY <2>1, <2>2, <2>3 DEF CouncilTypeOK
<1>3. AttemptsCounted
  <2>1. ASSUME NEW t \in Tasks
        PROVE  task[t].attempt <= Attempts /\ (task[t].st = "failed" => task[t].attempt = Attempts)
    <3>1. RecOK(task[t]) /\ task[t].attempt \in Nat
      BY <1>1 DEF CouncilInv, TasksOK, RecOK, TaskRecs
    <3> QED BY <3>1 DEF RecOK, Attempts
  <2> QED BY <2>1 DEF AttemptsCounted
<1>4. DependenciesFirst
  BY <1>1 DEF CouncilInv, TasksOK, DependenciesFirst
<1>5. TestedIsDelivered
  <2>1. \A t \in Planned : task[t].verdict # "none" => task[t].st = "done"
    BY DEF CouncilInv, TasksOK, RecOK
  <2> QED BY <1>1, <2>1 DEF CouncilInv, TestedIsCurrent, VerifiedHasPassed, TestedIsDelivered
<1> QED BY <1>2, <1>3, <1>4, <1>5 DEF CouncilInv, CouncilSafety

LEMMA CouncilInvInitial == CouncilInit => CouncilInv
<1> SUFFICES ASSUME CouncilInit PROVE CouncilInv
  OBVIOUS
<1>1. class \in Classes /\ task = [t \in Planned |-> FreshTask]
  BY DEF CouncilInit, Planned
<1>2. RecOK(FreshTask) /\ FreshTask.st = "pending"
  BY DEF RecOK, FreshTask, TaskRecs
<1>3. Running(task) = {}
  BY <1>1, <1>2 DEF Running, InFlight
<1>4. TasksOK(task)
  <2>1. Cardinality(Running(task)) = 0
    BY <1>3, FS_EmptySet
  <2> QED BY <1>1, <1>2, <2>1 DEF TasksOK, InFlight
<1>5. FailuresTrue /\ IdleIsIdle /\ TestedIsCurrent
  BY <1>1, <1>2 DEF CouncilInit, FailuresTrue, IdleIsIdle, TestedIsCurrent
<1> QED BY <1>1, <1>4, <1>5 DEF CouncilInit, CouncilInv, BlockedHasCause, VerifiedHasPassed

\* A node that has not come back, and none that could be started: one has failed.
LEMMA NoCandidate ==
  ASSUME class \in Classes, TasksOK(task), Running(task) = {},
         \A t \in Planned : ~Candidate(t), \A t \in Planned : task[t].st # "cancelled",
         \E t \in Planned : task[t].st # "done"
  PROVE  \E t \in Planned : task[t].st = "failed"
<1> DEFINE U == {t \in Planned : task[t].st # "done"}
<1>1. PICK t \in U : NodeOf(t).deps \cap U = {}
  BY PlanFirst DEF Planned, NodeOf
<1>2. \A d \in NodeOf(t).deps : task[d].st = "done"
  BY <1>1, PlanShape DEF Planned, NodeOf
<1>3. task[t].st \notin {"working", "checking"}
  BY DEF Running, InFlight, TasksOK
<1>4. task[t].st \in {"pending", "ready", "working", "checking", "done", "failed", "cancelled"}
  BY DEF TasksOK, RecOK, TaskRecs
<1> QED BY <1>2, <1>3, <1>4 DEF Candidate

-----------------------------------------------------------------------------
(* The steps *)

LEMMA TasksMove ==
  ASSUME class' = class, TasksOK(task')
  PROVE  Planned' = Planned /\ TasksOK(task)' /\ Running(task)' = Running(task')
<1>1. Planned' = Planned /\ \A t : NodeOf(t)' = NodeOf(t)
  BY DEF Planned, NodeOf
<1>2. \A rec : RecOK(rec) => RecOK(rec)'
  BY DEF RecOK, Fast, Attempts
<1>3. Running(task)' = Running(task') /\ \A t : InFlight(task, t)' = InFlight(task', t)
  BY DEF Running, InFlight
<1>4. \A t \in Planned : RecOK(task'[t]) /\ RecOK(task[t])'
  BY DEF TasksOK, RecOK, Fast, Attempts
<1> QED BY <1>1, <1>3, <1>4 DEF TasksOK

LEMMA StepStartAll == CouncilInv /\ StartAll => CouncilInv'
<1> SUFFICES ASSUME CouncilInv, StartAll PROVE CouncilInv'
  OBVIOUS
<1>1. PICK lowRisk \in BOOLEAN :
        /\ task' = Pass(lowRisk).task /\ progress' = Pass(lowRisk).progress
        /\ phase' = IF Running(Pass(lowRisk).task) = {} THEN "idle" ELSE "select"
  BY DEF StartAll
<1> DEFINE s == Pass(lowRisk)
<1>2. PassInv(s, 8)
  BY PassHolds DEF CouncilInv
<1> HIDE DEF s
<1>3. /\ phase = "loop" /\ outcome = "none" /\ class' = class /\ failure' = failure /\ stray' = stray
      /\ outcome' = outcome /\ edits' = edits /\ tested' = tested
  BY DEF StartAll, CouncilInv
<1>4. task' = s.task /\ progress' = s.progress /\ phase' = IF Running(s.task) = {} THEN "idle" ELSE "select"
  BY <1>1 DEF s
<1>5. Planned' = Planned /\ TasksOK(task)' /\ Running(task)' = Running(s.task)
  BY <1>2, <1>3, <1>4, TasksMove DEF PassInv
<1>6. \A t \in Planned :
        \/ task'[t] = task[t]
        \/ /\ Candidate(t) /\ task[t].st \in {"pending", "ready"}
           /\ \/ task'[t].st \in {"working", "checking"}
              \/ task'[t].st = "done" /\ t # "testing"
  BY <1>2, <1>4 DEF PassInv, Candidate
<1>7. FailuresTrue'
  BY <1>3, <1>4, <1>5, <1>6 DEF FailuresTrue, CouncilInv
<1>8. IdleIsIdle'
  <2>1. SUFFICES ASSUME phase' = "idle", ~progress' PROVE \A t \in Planned : ~Candidate(t)'
    BY <1>4, <1>5 DEF IdleIsIdle
  <2>2. Running(s.task) = {} /\ ~s.progress
    BY <1>4, <2>1
  <2>3. ASSUME NEW t \in Planned PROVE ~Candidate(t)
    <3>1. PICK j \in 1 .. 8 : ByName[j] = t
      BY PlannedFinite, ByNameIs DEF CouncilInv
    <3> QED BY <1>2, <2>2, <3>1 DEF PassInv
  <2>4. \A t \in Planned : task'[t] = task[t]
    BY <1>6, <2>3
  <2>5. \A t \in Planned : NodeOf(t).deps \subseteq Planned /\ NodeOf(t)' = NodeOf(t)
    BY <1>3, PlanShape DEF Planned, NodeOf, CouncilInv
  <2> QED BY <2>3, <2>4, <2>5 DEF Candidate
<1>9. TestedIsCurrent'
  BY <1>3, <1>5, <1>6 DEF TestedIsCurrent, CouncilInv
<1> QED BY <1>3, <1>4, <1>5, <1>7, <1>8, <1>9, <1>2
        DEF CouncilInv, PassInv, BlockedHasCause, VerifiedHasPassed

\* The steps that leave the tasks alone.
LEMMA StepQuiet ==
  ASSUME CouncilInv,
         \/ LookAgain \/ AllDone \/ Blocked \/ WakeForCancel \/ Heartbeat
         \/ EvaluateGates \/ UserCancels \/ Edit \/ UNCHANGED councilVars
  PROVE  CouncilInv'
<1>1. class' = class /\ task' = task /\ failure' = failure /\ stray' = stray /\ tested' = tested
  BY DEF LookAgain, AllDone, Blocked, WakeForCancel, Heartbeat, EvaluateGates, UserCancels, Edit, councilVars
<1>2. Planned' = Planned /\ TasksOK(task)' /\ Running(task)' = Running(task)
  BY <1>1, TasksMove DEF CouncilInv
<1>3. \A t : Candidate(t)' = Candidate(t)
  BY <1>1 DEF Candidate, NodeOf
<1>4. Tasks = Planned /\ Tasks' = Tasks /\ \A t : NodeOf(t)' = NodeOf(t)
  BY <1>1 DEF CouncilInv, TasksOK, Tasks, NodeOf
<1>5. TestedIsCurrent /\ edits' = edits => TestedIsCurrent'
  BY <1>1, <1>2 DEF TestedIsCurrent
<1>6. CASE LookAgain \/ WakeForCancel \/ Heartbeat
  BY <1>1, <1>2, <1>5, <1>6 DEF LookAgain, WakeForCancel, Heartbeat, CouncilInv, FailuresTrue, IdleIsIdle,
     BlockedHasCause, VerifiedHasPassed
<1>7. CASE AllDone
  BY <1>1, <1>2, <1>4, <1>5, <1>7 DEF AllDone, CouncilInv, FailuresTrue, IdleIsIdle, BlockedHasCause, VerifiedHasPassed
<1>8. CASE Blocked
  <2>1. \E t \in Planned : task[t].st = "failed"
    BY <1>4, <1>8, NoCandidate DEF Blocked, CouncilInv, FailuresTrue, IdleIsIdle
  <2>2. failure
    BY <1>8, <2>1 DEF Blocked, CouncilInv, FailuresTrue
  <2>3. BlockedHasCause'
    BY <1>1, <1>4, <2>1, <2>2 DEF BlockedHasCause
  <2> QED BY <1>1, <1>2, <1>5, <1>8, <2>3 DEF Blocked, Ended, CouncilInv, FailuresTrue, IdleIsIdle, VerifiedHasPassed
<1>9. CASE EvaluateGates
  <2>1. ~failure
    BY <1>9 DEF EvaluateGates, CouncilInv, FailuresTrue
  <2>2. Gates => \A t \in Tasks : task[t].verdict = "pass"
    BY DEF Gates, Passed
  <2>3. \A t \in Planned : NodeOf(t).deps \subseteq Planned
    BY PlanShape DEF CouncilInv, Planned, NodeOf
  <2>4. VerifiedHasPassed'
    BY <1>1, <1>4, <1>9, <2>1, <2>2, <2>3 DEF EvaluateGates, Ended, VerifiedHasPassed
  <2> QED BY <1>1, <1>2, <1>5, <1>9, <2>4 DEF EvaluateGates, Ended, CouncilInv, FailuresTrue, IdleIsIdle, BlockedHasCause
<1>10. CASE UserCancels
  BY <1>1, <1>2, <1>3, <1>4, <1>5, <1>10 DEF UserCancels, CouncilInv, FailuresTrue, IdleIsIdle, BlockedHasCause, VerifiedHasPassed
<1>11. CASE Edit
  <2>1. TestedIsCurrent'
    <3>1. ~stray => task["implementation"].st = "working"
      BY <1>11 DEF Edit, CouncilInv
    <3>2. "testing" \in Planned /\ task["testing"].st = "done" => task["implementation"].st = "done"
      <4>1. "testing" \in Planned => "implementation" \in NodeOf("testing").deps
        BY PlanShape DEF CouncilInv, Planned, NodeOf
      <4> QED BY <4>1 DEF CouncilInv, TasksOK
    <3> QED BY <1>1, <1>2, <3>1, <3>2 DEF TestedIsCurrent
  <2> QED BY <1>1, <1>2, <1>11, <2>1 DEF Edit, CouncilInv, FailuresTrue, IdleIsIdle, BlockedHasCause, VerifiedHasPassed
<1>12. CASE UNCHANGED councilVars
  <2>1. phase' = phase /\ outcome' = outcome /\ progress' = progress /\ edits' = edits
    BY <1>12 DEF councilVars
  <2>2. FailuresTrue' /\ IdleIsIdle'
    BY <1>1, <1>2, <1>3, <2>1 DEF CouncilInv, FailuresTrue, IdleIsIdle
  <2>3. BlockedHasCause' /\ VerifiedHasPassed'
    BY <1>1, <1>4, <2>1 DEF CouncilInv, BlockedHasCause, VerifiedHasPassed
  <2> QED BY <1>1, <1>2, <1>5, <2>1, <2>2, <2>3 DEF CouncilInv
<1> QED BY <1>6, <1>7, <1>8, <1>9, <1>10, <1>11, <1>12

LEMMA StepSeeCancel == CouncilInv /\ SeeCancel => CouncilInv'
<1> SUFFICES ASSUME CouncilInv, SeeCancel PROVE CouncilInv'
  OBVIOUS
<1>1. /\ class' = class /\ phase' = "over" /\ outcome' = "cancelled"
      /\ failure' = failure /\ stray' = stray /\ progress' = progress /\ edits' = edits /\ tested' = tested
  BY DEF SeeCancel, Ended
<1>2. Tasks = Planned /\ DOMAIN task = Planned
  BY DEF CouncilInv, TasksOK, Tasks
<1>3. task' = [t \in Planned |-> IF task[t].st = "done" THEN task[t] ELSE [task[t] EXCEPT !.st = "cancelled"]]
  BY <1>2 DEF SeeCancel
<1>4. ASSUME NEW rec, RecOK(rec), rec.st # "done"
      PROVE  RecOK([rec EXCEPT !.st = "cancelled"]) /\ [rec EXCEPT !.st = "cancelled"].st = "cancelled"
  <2> DEFINE new == [rec EXCEPT !.st = "cancelled"]
  <2>1. rec \in TaskRecs
    BY <1>4 DEF RecOK
  <2>2. /\ new \in TaskRecs /\ new.st = "cancelled" /\ new.verdict = rec.verdict
        /\ new.attempt = rec.attempt /\ new.resumed = rec.resumed
    BY <2>1 DEF TaskRecs
  <2> HIDE DEF new
  <2>3. RecOK(new)
    BY <1>4, <2>2 DEF RecOK
  <2> QED BY <2>2, <2>3 DEF new
<1>5. DOMAIN task' = Planned /\ task' = [t \in Planned |-> task'[t]]
  BY <1>3
<1>6. \A t \in Planned : /\ RecOK(task'[t])
                         /\ task[t].st = "done" => task'[t] = task[t]
                         /\ task[t].st # "done" => task'[t].st = "cancelled"
  BY <1>3, <1>4 DEF CouncilInv, TasksOK
<1>7. Running(task') = {} /\ \A t \in Planned : ~InFlight(task', t)
  BY <1>5, <1>6 DEF Running, InFlight
<1>8. TasksOK(task')
  <2>1. Cardinality(Running(task')) = 0
    BY <1>7, FS_EmptySet
  <2>2. \A t \in Planned : NodeOf(t).deps \subseteq Planned
    BY PlanShape DEF CouncilInv, Planned, NodeOf
  <2>3. \A t \in Planned : task'[t].st = "done" => task[t].st = "done"
    BY <1>6
  <2>4. ASSUME NEW t \in Planned, task'[t].st = "done", NEW d \in NodeOf(t).deps PROVE task'[d].st = "done"
    <3>1. d \in Planned /\ task[d].st = "done"
      BY <2>2, <2>3, <2>4 DEF CouncilInv, TasksOK
    <3> QED BY <1>6, <3>1
  <2> QED BY <1>5, <1>6, <1>7, <2>1, <2>4 DEF TasksOK
<1>9. Planned' = Planned /\ TasksOK(task)'
  BY <1>1, <1>8, TasksMove
<1>10. TestedIsCurrent'
  BY <1>1, <1>6, <1>9 DEF TestedIsCurrent, CouncilInv
<1> QED BY <1>1, <1>9, <1>10 DEF CouncilInv, FailuresTrue, IdleIsIdle, BlockedHasCause, VerifiedHasPassed

\* One task has come back, and the scheduler goes round again.
LEMMA OneReturns ==
  ASSUME CouncilInv, phase = "select", class' = class, outcome' = outcome, phase' = "loop",
         NEW t \in Planned, task' = [task EXCEPT ![t] = task'[t]], RecOK(task'[t]), InFlight(task, t),
         task'[t].st \in {"ready", "failed", "done"},
         failure' = (failure \/ task'[t].st = "failed"), progress' \in BOOLEAN, stray' \in BOOLEAN,
         TestedIsCurrent'
  PROVE  CouncilInv'
<1>1. TasksOK(task) /\ DOMAIN task = Planned
  BY DEF CouncilInv, TasksOK
<1>2. \A d \in NodeOf(t).deps : task[d].st = "done"
  BY <1>1 DEF TasksOK
<1>3. TasksOK(task')
  <2>1. TasksOK([task EXCEPT ![t] = task'[t]])
    BY <1>1, <1>2, OneMoves DEF CouncilInv, InFlight
  <2> QED BY <2>1
<1>4. Planned' = Planned /\ TasksOK(task)'
  BY <1>3, TasksMove
<1>5. FailuresTrue'
  <2>1. failure = (\E u \in Planned : task[u].st = "failed") /\ \A u \in Planned : task[u].st # "cancelled"
    BY DEF CouncilInv, FailuresTrue
  <2>2. \A u \in Planned : u # t => task'[u] = task[u]
    BY <1>1
  <2>3. task[t].st # "failed"
    BY DEF InFlight
  <2>4. failure' = (\E u \in Planned : task'[u].st = "failed")
    BY <2>1, <2>2, <2>3
  <2>5. \A u \in Planned : task'[u].st # "cancelled"
    BY <2>1, <2>2
  <2> QED BY <1>4, <2>4, <2>5 DEF FailuresTrue
<1>6. outcome = "none"
  BY DEF CouncilInv
<1> QED BY <1>4, <1>5, <1>6 DEF CouncilInv, IdleIsIdle, BlockedHasCause, VerifiedHasPassed

LEMMA StepCheckedLocally ==
  ASSUME CouncilInv, NEW ok \in BOOLEAN, CheckedLocally(ok)
  PROVE  CouncilInv'
<1> DEFINE rec == task["testing"]
<1>1. "testing" \in Planned /\ RecOK(rec) /\ rec.st = "checking" /\ DOMAIN task = Planned
  BY DEF CheckedLocally, CouncilInv, TasksOK, Running
<1>2. /\ class' = class /\ phase = "select" /\ phase' = "loop" /\ outcome' = outcome
      /\ failure' = failure /\ stray' = stray /\ edits' = edits /\ progress' = TRUE
      /\ task' = [task EXCEPT !["testing"] = IF ok THEN Done(rec, "pass") ELSE [rec EXCEPT !.st = "ready"]]
      /\ tested' = IF ok THEN edits ELSE tested
  BY DEF CheckedLocally
<1>3. rec \in TaskRecs
  BY <1>1 DEF RecOK
<1>4. task'["testing"] = IF ok THEN Done(rec, "pass") ELSE [rec EXCEPT !.st = "ready"]
  BY <1>1, <1>2
<1>5. /\ task'["testing"] \in TaskRecs
      /\ task'["testing"].attempt = rec.attempt /\ task'["testing"].resumed = rec.resumed
      /\ IF ok THEN task'["testing"].st = "done" /\ task'["testing"].verdict = "pass"
         ELSE task'["testing"].st = "ready" /\ task'["testing"].verdict = rec.verdict
  <2> HIDE DEF rec
  <2>1. CASE ok
    <3>1. task'["testing"] = [rec EXCEPT !.st = "done", !.checked = TRUE, !.verdict = "pass"]
      BY <1>4, <2>1 DEF Done
    <3> QED BY <1>3, <2>1, <3>1 DEF TaskRecs
  <2>2. CASE ~ok
    <3>1. task'["testing"] = [rec EXCEPT !.st = "ready"]
      BY <1>4, <2>2
    <3> QED BY <1>3, <2>2, <3>1 DEF TaskRecs
  <2> QED BY <2>1, <2>2
<1> HIDE DEF rec
<1>6. RecOK(task'["testing"])
  BY <1>1, <1>5 DEF RecOK
<1>7. TestedIsCurrent'
  BY <1>2, <1>5 DEF TestedIsCurrent
<1>8. task' = [task EXCEPT !["testing"] = task'["testing"]]
  BY <1>2, <1>4
<1>9. InFlight(task, "testing")
  BY <1>1 DEF InFlight, rec
<1> QED BY <1>1, <1>2, <1>5, <1>6, <1>7, <1>8, <1>9, OneReturns DEF CouncilInv

LEMMA StepExpertAnswers ==
  ASSUME CouncilInv, NEW t \in Tasks, NEW verdict \in {"pass", "fail"}, ExpertAnswers(t, verdict)
  PROVE  CouncilInv'
<1> DEFINE rec == task[t]
<1>1. t \in Planned /\ RecOK(rec) /\ rec.st = "working" /\ DOMAIN task = Planned
  BY DEF ExpertAnswers, CouncilInv, TasksOK, Tasks
<1>2. /\ class' = class /\ phase = "select" /\ phase' = "loop" /\ outcome' = outcome
      /\ failure' = failure /\ stray' = stray /\ edits' = edits /\ progress' = progress
      /\ task' = [task EXCEPT ![t] = [rec EXCEPT !.st = "done", !.verdict = verdict]]
      /\ tested' = IF t = "testing" THEN edits ELSE tested
  BY DEF ExpertAnswers
<1>3. rec \in TaskRecs
  BY <1>1 DEF RecOK
<1>4. task'[t] = [rec EXCEPT !.st = "done", !.verdict = verdict] /\ task' = [task EXCEPT ![t] = task'[t]]
  BY <1>1, <1>2
<1>5. /\ task'[t] \in TaskRecs
      /\ task'[t].attempt = rec.attempt /\ task'[t].resumed = rec.resumed
      /\ task'[t].st = "done" /\ task'[t].verdict = verdict
  BY <1>3, <1>4 DEF TaskRecs
<1>6. TestedIsCurrent'
  <2>1. t # "testing" => (task'["testing"] = task["testing"] \/ "testing" \notin Planned)
    BY <1>1, <1>2
  <2>2. Planned' = Planned
    BY <1>2 DEF Planned
  <2> QED BY <1>2, <2>1, <2>2 DEF TestedIsCurrent, CouncilInv
<1> HIDE DEF rec
<1>7. RecOK(task'[t])
  BY <1>1, <1>5 DEF RecOK
<1>8. InFlight(task, t)
  BY <1>1 DEF InFlight, rec
<1> QED BY <1>1, <1>2, <1>4, <1>5, <1>6, <1>7, <1>8, OneReturns DEF CouncilInv

LEMMA StepExpertFails ==
  ASSUME CouncilInv, NEW t \in Tasks, NEW cut \in BOOLEAN, ExpertFails(t, cut)
  PROVE  CouncilInv'
<1> DEFINE rec == task[t]
<1>1. t \in Planned /\ RecOK(rec) /\ rec.st = "working" /\ DOMAIN task = Planned
  BY DEF ExpertFails, CouncilInv, TasksOK, Tasks
<1>2. /\ class' = class /\ phase = "select" /\ phase' = "loop" /\ outcome' = outcome
      /\ failure' = (failure \/ AfterFailure(rec).st = "failed") /\ edits' = edits /\ progress' = progress
      /\ task' = [task EXCEPT ![t] = AfterFailure(rec)] /\ tested' = tested
      /\ stray' = (stray \/ (t = "implementation" /\ cut))
  BY DEF ExpertFails
<1>3. rec \in TaskRecs
  BY <1>1 DEF RecOK
<1>4. task'[t] = AfterFailure(rec) /\ task' = [task EXCEPT ![t] = task'[t]]
  BY <1>1, <1>2
<1>5. /\ task'[t] \in TaskRecs /\ task'[t].attempt = rec.attempt /\ task'[t].verdict = rec.verdict
      /\ \/ rec.attempt < MaxAttempts /\ task'[t].st = "ready" /\ task'[t].resumed = rec.resumed
         \/ rec.attempt >= MaxAttempts /\ ~Fast /\ ~rec.resumed /\ task'[t].st = "ready" /\ task'[t].resumed = TRUE
         \/ rec.attempt >= MaxAttempts /\ (Fast \/ rec.resumed) /\ task'[t].st = "failed"
              /\ task'[t].resumed = rec.resumed
  <2> HIDE DEF rec
  <2>1. rec.attempt \in Nat /\ rec.resumed \in BOOLEAN
    BY <1>3 DEF TaskRecs
  <2>2. CASE rec.attempt < MaxAttempts
    <3>1. task'[t] = [rec EXCEPT !.st = "ready"]
      BY <1>4, <2>2 DEF AfterFailure
    <3> QED BY <1>3, <2>2, <3>1 DEF TaskRecs
  <2>3. CASE rec.attempt >= MaxAttempts /\ ~Fast /\ ~rec.resumed
    <3>1. task'[t] = [rec EXCEPT !.st = "ready", !.resumed = TRUE]
      BY <1>4, <2>1, <2>3 DEF AfterFailure
    <3> QED BY <1>3, <2>3, <3>1 DEF TaskRecs
  <2>4. CASE rec.attempt >= MaxAttempts /\ (Fast \/ rec.resumed)
    <3>1. task'[t] = [rec EXCEPT !.st = "failed"]
      BY <1>4, <2>1, <2>4 DEF AfterFailure
    <3> QED BY <1>3, <2>4, <3>1 DEF TaskRecs
  <2>5. rec.attempt < MaxAttempts \/ rec.attempt >= MaxAttempts
    BY <2>1
  <2> QED BY <2>2, <2>3, <2>4, <2>5
<1>6. TestedIsCurrent'
  <2>1. t # "testing" => (task'["testing"] = task["testing"] \/ "testing" \notin Planned)
    BY <1>1, <1>2
  <2>2. Planned' = Planned
    BY <1>2 DEF Planned
  <2>3. task'[t].st # "done"
    BY <1>5
  <2> QED BY <1>2, <2>1, <2>2, <2>3 DEF TestedIsCurrent, CouncilInv
<1> HIDE DEF rec
<1>7. RecOK(task'[t])
  BY <1>1, <1>3, <1>5 DEF RecOK, Attempts, TaskRecs
<1>8. InFlight(task, t)
  BY <1>1 DEF InFlight, rec
<1>9. stray' \in BOOLEAN
  BY <1>2 DEF CouncilInv
<1>10. failure' = (failure \/ task'[t].st = "failed")
  BY <1>2, <1>4
<1>11. task'[t].st \in {"ready", "failed", "done"} /\ progress' \in BOOLEAN
  BY <1>2, <1>5 DEF CouncilInv
<1> QED BY <1>1, <1>2, <1>4, <1>11, <1>6, <1>7, <1>8, <1>9, <1>10, OneReturns

LEMMA CouncilInvPreserved == CouncilInv /\ [CouncilNext]_councilVars => CouncilInv'
BY StepStartAll, StepQuiet, StepSeeCancel, StepCheckedLocally, StepExpertAnswers, StepExpertFails
   DEF CouncilNext, Scheduler, Returns

\* Nodes are started in the order of the graph, as often as they may be and as
\* many as there are experts; an outcome has its reason in the nodes, and what is
\* delivered as verified has passed and was tested as it is.
THEOREM CouncilIsSafe == CouncilSpec => []CouncilSafety
<1>1. CouncilInv /\ [CouncilNext]_councilVars => CouncilInv'
  BY CouncilInvPreserved
<1> QED BY <1>1, CouncilInvInitial, CouncilInvImplies, PTL DEF CouncilSpec
=============================================================================
