---------------------------- MODULE ArtifactVault ----------------------------
(***************************************************************************)
(* The artifact vault (lha/artifact_vault.rs): versions of logical keys,   *)
(* published by compare-and-set on their generation, and the authoritative *)
(* version of each key, all in refs.json.  A lock file with an expiry      *)
(* serialises the writers, atomic_write and recover_atomic (lha/storage.rs)*)
(* replace the file in steps that other threads and processes can see.     *)
(*                                                                         *)
(* An actor is one call: finalize_delivery reads the generation without    *)
(* the lock and publishes, select_authoritative chooses a version.  Its    *)
(* artifact is named after it.  The objects are immutable and stored       *)
(* before the call, and are left out.                                      *)
(***************************************************************************)
EXTENDS Integers, Sequences

CONSTANTS
  Processes,    \* processes that open the workspace
  Actors,
  Home,         \* the process of an actor
  KeyOf,        \* its logical key
  Publishers,   \* actors that publish; the others select
  None,         \* no value, and not an actor
  Prompt,       \* TRUE: no call holds the lock longer than its expiry
  StealAlone,   \* TRUE: nobody else looks at the lock while one replaces it
  MaxVaultCrashes  \* bound on crashes

ASSUME VaultAssumption ==
  /\ Processes \cap Actors = {}
  /\ None \notin Actors
  /\ Home \in [Actors -> Processes]
  /\ Publishers \subseteq Actors
  /\ Prompt \in BOOLEAN
  /\ StealAlone \in BOOLEAN
  /\ MaxVaultCrashes \in Nat

VARIABLES
  refs,         \* refs.json, or None
  backup,       \* refs.json.lha-backup
  temp,         \* the temporary file of each actor
  lock,         \* .vault.lock
  pc,           \* where each process (opening) and each actor is
  expected,     \* the generation an actor has read
  tries,        \* expired locks it has removed
  saving,       \* the VaultState it is about to save
  done,         \* its operation has succeeded
  published,    \* history: <<key, generation, actor>> of every publish that
                \* returned Ok
  crashes

diskVars == <<refs, backup, temp>>
callVars == <<expected, tries, saving, done, published>>
vars == <<diskVars, lock, pc, callVars, crashes>>

Keys == {KeyOf[a] : a \in Actors}
VaultState == [versions : [Keys -> Seq(Actors)],
               authority : [Keys -> Actors \cup {None}]]
LockFile == [by : Actors, stamped : BOOLEAN, expired : BOOLEAN]

\* None is no contents of a file.
ASSUME NoneAssumption == None \notin VaultState \cup LockFile

Empty == [versions |-> [k \in Keys |-> <<>>], authority |-> [k \in Keys |-> None]]

Members(s) == {s[i] : i \in DOMAIN s}
Goto(w, l) == pc' = [pc EXCEPT ![w] = l]

VaultInit ==
  /\ refs = None
  /\ backup = None
  /\ temp = [a \in Actors |-> None]
  /\ lock = None
  /\ pc = [w \in Processes \cup Actors |-> IF w \in Processes THEN "down" ELSE "new"]
  /\ expected = [a \in Actors |-> 0]
  /\ tries = [a \in Actors |-> 0]
  /\ saving = [a \in Actors |-> Empty]
  /\ done = [a \in Actors |-> FALSE]
  /\ published = {}
  /\ crashes = 0

-----------------------------------------------------------------------------
(* The lock file.                                                           *)

\* load_state takes a missing file for an empty vault.
Load == IF refs = None THEN Empty ELSE refs

\* Mutant: generations count from zero, and there is none yet.
BeginFromZero(a) ==
  /\ pc[a] = "new"
  /\ pc[Home[a]] = "up"
  /\ expected' = [expected EXCEPT ![a] = Len(Load.versions[KeyOf[a]]) - 1]
  /\ Goto(a, "acquire")
  /\ UNCHANGED <<diskVars, lock, tries, saving, done, published, crashes>>

\* versions(), without the lock; a selection starts at the lock.
Begin(a) ==
  /\ pc[a] = "new"
  /\ pc[Home[a]] = "up"
  /\ expected' = IF a \in Publishers
                   THEN [expected EXCEPT ![a] = Len(Load.versions[KeyOf[a]])]
                   ELSE expected
  /\ Goto(a, "acquire")
  /\ UNCHANGED <<diskVars, lock, tries, saving, done, published, crashes>>

\* The file was there for exists() and is gone for read().
BeginFails(a) ==
  /\ pc[a] = "new"
  /\ pc[Home[a]] = "up"
  /\ a \in Publishers
  /\ refs = None /\ backup # None
  /\ Goto(a, "failed")
  /\ UNCHANGED <<diskVars, lock, callVars, crashes>>

\* The actor has seen an expired lock, and is about to replace it.
Stealing(a) == pc[a] = "stealing" \/ (pc[a] = "acquire" /\ tries[a] > 0)
Undisturbed(a) == StealAlone => \A b \in Actors \ {a} : ~Stealing(b)

\* Mutant: an existing lock file is opened and overwritten.
CreateLockAnyway(a) ==
  /\ pc[a] = "acquire"
  /\ Undisturbed(a)
  /\ lock' = [by |-> a, stamped |-> FALSE, expired |-> FALSE]
  /\ Goto(a, "stamping")
  /\ UNCHANGED <<diskVars, callVars, crashes>>

\* create_new: an empty file, which never expires.
CreateLock(a) ==
  /\ pc[a] = "acquire"
  /\ Undisturbed(a)
  /\ lock = None
  /\ lock' = [by |-> a, stamped |-> FALSE, expired |-> FALSE]
  /\ Goto(a, "stamping")
  /\ UNCHANGED <<diskVars, callVars, crashes>>

\* The expiry goes into the file that was created, which may be gone.
StampLock(a) ==
  /\ pc[a] = "stamping"
  /\ lock' = IF lock # None /\ lock.by = a THEN [lock EXCEPT !.stamped = TRUE]
                                           ELSE lock
  /\ Goto(a, "loading")
  /\ UNCHANGED <<diskVars, callVars, crashes>>

LookAtLock(a) ==
  /\ pc[a] = "acquire"
  /\ Undisturbed(a)
  /\ lock # None
  /\ Goto(a, IF lock.expired THEN "stealing" ELSE "failed")
  /\ UNCHANGED <<diskVars, lock, callVars, crashes>>

\* remove_file takes whatever lock is at the path by now; after the second one
\* the call gives up.
RemoveExpired(a) ==
  /\ pc[a] = "stealing"
  /\ lock' = None
  /\ tries' = [tries EXCEPT ![a] = @ + 1]
  /\ Goto(a, IF tries[a] = 0 THEN "acquire" ELSE "failed")
  /\ UNCHANGED <<diskVars, expected, saving, done, published, crashes>>

\* Program counters of processes and calls without the lock, and those between
\* the lock and its release.
Outside == {"down", "up", "recover", "restore", "discard", "clean",
            "new", "acquire", "stealing", "ok", "failed", "dead"}
Locked == {"stamping", "loading", "recover", "restore", "discard", "clean",
           "temporary", "swapOut", "swapIn", "dropBackup", "unlocking"}

Expire ==
  /\ lock # None
  /\ lock.stamped /\ ~lock.expired
  /\ Prompt => pc[lock.by] \notin Locked
  /\ lock' = [lock EXCEPT !.expired = TRUE]
  /\ UNCHANGED <<diskVars, pc, callVars, crashes>>

\* Drop of VaultLock: the file at the path, whoever made it.
Unlock(a) ==
  /\ pc[a] = "unlocking"
  /\ lock' = None
  /\ Goto(a, IF done[a] THEN "ok" ELSE "failed")
  /\ published' = IF done[a] /\ a \in Publishers
                    THEN published \cup {<<KeyOf[a], expected[a] + 1, a>>} ELSE published
  /\ UNCHANGED <<diskVars, expected, tries, saving, done, crashes>>

-----------------------------------------------------------------------------
(* The operation, under the lock.                                           *)

\* Mutant: what is published last is the authority.
PublishAndSelect(a) ==
  /\ pc[a] = "loading"
  /\ a \in Publishers
  /\ IF Len(Load.versions[KeyOf[a]]) = expected[a]
       THEN /\ saving' = [saving EXCEPT ![a] =
                           [Load EXCEPT !.versions[KeyOf[a]] = Append(@, a), !.authority[KeyOf[a]] = a]]
            /\ Goto(a, "recover")
       ELSE /\ Goto(a, "unlocking")
            /\ UNCHANGED saving
  /\ UNCHANGED <<diskVars, lock, expected, tries, done, published, crashes>>

\* The generation must be the one the caller has read, or it is a Conflict.
Publish(a) ==
  /\ pc[a] = "loading"
  /\ a \in Publishers
  /\ IF Len(Load.versions[KeyOf[a]]) = expected[a]
       THEN /\ saving' = [saving EXCEPT ![a] =
                           [Load EXCEPT !.versions[KeyOf[a]] = Append(@, a)]]
            /\ Goto(a, "recover")
       ELSE /\ Goto(a, "unlocking")
            /\ UNCHANGED saving
  /\ UNCHANGED <<diskVars, lock, expected, tries, done, published, crashes>>

\* Mutant: the artifact need not be a version of the key.
SelectAny(a) ==
  /\ pc[a] = "loading"
  /\ a \notin Publishers
  /\ \E hash \in Publishers :
       saving' = [saving EXCEPT ![a] = [Load EXCEPT !.authority[KeyOf[a]] = hash]]
  /\ Goto(a, "recover")
  /\ UNCHANGED <<diskVars, lock, expected, tries, done, published, crashes>>

\* select_authoritative of any artifact; one that is not a version is refused.
Select(a) ==
  /\ pc[a] = "loading"
  /\ a \notin Publishers
  /\ \E hash \in Publishers :
       IF hash \in Members(Load.versions[KeyOf[a]])
         THEN /\ saving' = [saving EXCEPT ![a] =
                             [Load EXCEPT !.authority[KeyOf[a]] = hash]]
              /\ Goto(a, "recover")
         ELSE /\ Goto(a, "unlocking")
              /\ UNCHANGED saving
  /\ UNCHANGED <<diskVars, lock, expected, tries, done, published, crashes>>

-----------------------------------------------------------------------------
(* recover_atomic, of a process that opens the vault without the lock and   *)
(* of atomic_write under it.                                                *)

\* An error leaves open(), or atomic_write.
Failed(w) == IF w \in Processes THEN "down" ELSE "unlocking"

RecoverLook(w) ==
  /\ pc[w] = "recover"
  /\ Goto(w, CASE backup = None                 -> "clean"
               [] backup # None /\ refs = None  -> "restore"
               [] backup # None /\ refs # None  -> "discard")
  /\ UNCHANGED <<diskVars, lock, callVars, crashes>>

Restore(w) ==
  /\ pc[w] = "restore"
  /\ IF backup # None
       THEN refs' = backup /\ backup' = None /\ Goto(w, "clean")
       ELSE Goto(w, Failed(w)) /\ UNCHANGED <<refs, backup>>
  /\ UNCHANGED <<temp, lock, callVars, crashes>>

Discard(w) ==
  /\ pc[w] = "discard"
  /\ Goto(w, IF backup # None THEN "clean" ELSE Failed(w))
  /\ backup' = None
  /\ UNCHANGED <<refs, temp, lock, callVars, crashes>>

\* cleanup_temporary_siblings removes the temporary files of everybody.
Clean(w) ==
  /\ pc[w] = "clean"
  /\ temp' = [a \in Actors |-> None]
  /\ Goto(w, IF w \in Processes THEN "up" ELSE "temporary")
  /\ UNCHANGED <<refs, backup, lock, callVars, crashes>>

-----------------------------------------------------------------------------
(* The rest of atomic_write.                                                *)

WriteTemporary(a) ==
  /\ pc[a] = "temporary"
  /\ temp' = [temp EXCEPT ![a] = saving[a]]
  /\ Goto(a, "swapOut")
  /\ UNCHANGED <<refs, backup, lock, callVars, crashes>>

SwapOut(a) ==
  /\ pc[a] = "swapOut"
  /\ backup' = IF refs # None THEN refs ELSE backup
  /\ refs' = None
  /\ Goto(a, "swapIn")
  /\ UNCHANGED <<temp, lock, callVars, crashes>>

\* If the temporary file is gone the old one is put back, unless there is a
\* file by now.
SwapIn(a) ==
  /\ pc[a] = "swapIn"
  /\ IF temp[a] # None
       THEN /\ refs' = temp[a]
            /\ Goto(a, "dropBackup")
            /\ UNCHANGED backup
       ELSE /\ refs' = IF refs = None THEN backup ELSE refs
            /\ backup' = IF refs = None THEN None ELSE backup
            /\ Goto(a, "unlocking")
  /\ temp' = [temp EXCEPT ![a] = None]
  /\ UNCHANGED <<lock, callVars, crashes>>

\* Mutant: a backup that is not there is an error.
DropBackupStrictly(a) ==
  /\ pc[a] = "dropBackup"
  /\ backup' = None
  /\ done' = [done EXCEPT ![a] = backup # None]
  /\ Goto(a, "unlocking")
  /\ UNCHANGED <<refs, temp, lock, expected, tries, saving, published, crashes>>

DropBackup(a) ==
  /\ pc[a] = "dropBackup"
  /\ backup' = None
  /\ done' = [done EXCEPT ![a] = TRUE]
  /\ Goto(a, "unlocking")
  /\ UNCHANGED <<refs, temp, lock, expected, tries, saving, published, crashes>>

-----------------------------------------------------------------------------
\* ArtifactVault::open begins with recover_atomic.
Open(p) ==
  /\ pc[p] = "down"
  /\ Goto(p, "recover")
  /\ UNCHANGED <<diskVars, lock, callVars, crashes>>

\* The process dies at any step; its files stay.
Crash(p) ==
  /\ crashes < MaxVaultCrashes
  /\ pc[p] # "down"
  /\ pc' = [w \in DOMAIN pc |->
              IF w = p THEN "down"
              ELSE IF w \in Actors /\ pc[w] \notin {"new", "ok", "failed"}
                        /\ Home[w] = p
                THEN "dead" ELSE pc[w]]
  /\ crashes' = crashes + 1
  /\ UNCHANGED <<diskVars, lock, callVars>>

CallStep(a) ==
  \/ Begin(a) \/ BeginFails(a)
  \/ CreateLock(a) \/ StampLock(a) \/ LookAtLock(a) \/ RemoveExpired(a)
  \/ Publish(a) \/ Select(a)
  \/ WriteTemporary(a) \/ SwapOut(a) \/ SwapIn(a) \/ DropBackup(a)
  \/ Unlock(a)

RecoverStep(w) == RecoverLook(w) \/ Restore(w) \/ Discard(w) \/ Clean(w)

VaultNext ==
  \/ \E a \in Actors : CallStep(a)
  \/ \E w \in Processes \cup Actors : RecoverStep(w)
  \/ \E p \in Processes : Open(p) \/ Crash(p)
  \/ Expire

VaultSpec == VaultInit /\ [][VaultNext]_vars

-----------------------------------------------------------------------------
VaultTypeOK ==
  /\ {refs, backup} \subseteq VaultState \cup {None}
  /\ temp \in [Actors -> VaultState \cup {None}]
  /\ saving \in [Actors -> VaultState]
  /\ lock \in LockFile \cup {None}
  /\ pc \in [Processes \cup Actors -> Outside \cup Locked]
  /\ expected \in [Actors -> Nat]
  /\ tries \in [Actors -> 0..2]
  /\ done \in [Actors -> BOOLEAN]
  /\ published \subseteq Keys \X Nat \X Actors
  /\ crashes \in 0..MaxVaultCrashes

\* What the next recover_atomic would leave in refs.json.
Refs == IF refs # None THEN refs ELSE IF backup # None THEN backup ELSE Empty

\* Invariant 21 of INVARIANTS.md: a version is immutable, and publishing is a
\* compare-and-set.  Every version a publish returned is in refs.json at its
\* generation, whatever others publish and wherever a process dies.
AckedSurvive ==
  \A v \in published : v[2] \in DOMAIN Refs.versions[v[1]]
                     /\ Refs.versions[v[1]][v[2]] = v[3]

\* A call that returned an error has left nothing in refs.json, so the task it
\* fails has no version either.
FailedLeavesNothing ==
  \A a \in Publishers :
    pc[a] = "failed" => a \notin Members(Refs.versions[KeyOf[a]])

\* The authority of a key is a version of that key, in every file a process may
\* come to read.
AuthorityIsVersion ==
  \A s \in {refs, backup} \ {None} : \A k \in Keys :
    s.authority[k] # None => s.authority[k] \in Members(s.versions[k])

\* The safety of the vault: what is in refs.json is what was published.
VaultSafety == VaultTypeOK /\ AckedSurvive /\ FailedLeavesNothing /\ AuthorityIsVersion
=============================================================================
