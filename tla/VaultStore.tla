----------------------------- MODULE VaultStore ------------------------------
(* The refinement mapping from ArtifactVault to VersionStore.               *)
EXTENDS ArtifactVault

\* A call takes effect with the second rename, and its caller learns of it at
\* the release of the lock.
Stage(a) ==
  IF pc[a] \in {"new", "ok", "failed"} THEN pc[a]
  ELSE IF pc[a] = "dead" THEN "lost"
  ELSE IF pc[a] = "dropBackup" \/ done[a] THEN "stored" ELSE "asked"

Stages == [a \in Actors |-> Stage(a)]

\* The store is what the next process would find.
Abstract == INSTANCE VersionStore WITH
  versions <- Refs.versions,
  authority <- Refs.authority,
  stage <- Stages,
  seen <- expected

\* Invariant 21 of INVARIANTS.md once more: a call of the vault takes effect at
\* one moment or not at all, whatever lies between the lock, the two renames
\* and the release, and whoever reads or dies in between.  Every step of the
\* vault is a step of a store of versions or invisible to it.
ImplementsStore == Abstract!StoreSpec
=============================================================================
