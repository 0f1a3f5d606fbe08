--------------------------- MODULE KnowledgeIndex ---------------------------
(***************************************************************************)
(* The index of the knowledge root: KnowledgeIndex::sync walks its files,  *)
(* projects those that a checkpoint on disk does not know into the wiki    *)
(* and into an inverted index in memory, and saves the checkpoint.  A      *)
(* recall finds pages by the index and takes them from the wiki.  Files    *)
(* are edited at any time, a walk may fail and the process may end at any  *)
(* step.                                                                   *)
(*                                                                         *)
(* The n-th save of a file has content n; its terms and its text are not   *)
(* told apart.  One process walks at a time.                               *)
(***************************************************************************)
EXTENDS Integers

CONSTANTS
  Pages,         \* files of the root, outside review/
  SizeOf,        \* content -> size of the file
  MaxSaves,      \* bound on saves and deletions
  MaxSeconds,    \* bound on the time
  MaxWalkFaults, \* bound on walks that fail
  Gone           \* no file, no page, no entry

ASSUME IndexAssumption ==
  /\ MaxSaves \in Nat /\ MaxSeconds \in Nat /\ MaxWalkFaults \in Nat
  /\ DOMAIN SizeOf = 1 .. MaxSaves /\ \A n \in DOMAIN SizeOf : SizeOf[n] \in Nat
  /\ Gone \notin Nat /\ Gone \notin [mtime : Nat, size : Nat]
  /\ Gone \notin [page : Pages, mtime : Nat]

VARIABLES
  root,         \* page -> [content, mtime], or Gone
  checkpoint,   \* on disk: page -> [mtime, size], or Gone
  wiki,         \* on disk: page -> content, or Gone
  postings,     \* in memory: page -> content, or Gone
  walk,         \* [pc, seen, left, page, stamp, loaded]
  second, saves, walkFaults,
  savedAt       \* history: content -> [page, mtime] of its save, or Gone

indexVars == <<root, checkpoint, wiki, postings, walk, second, saves, walkFaults, savedAt>>

Nowhere == [p \in Pages |-> Gone]

WalkAt(pc) == [pc |-> pc, seen |-> {}, left |-> {}, page |-> Gone, stamp |-> Gone, loaded |-> Nowhere]

IndexInit ==
  /\ root = Nowhere /\ checkpoint = Nowhere /\ wiki = Nowhere /\ postings = Nowhere
  /\ walk = WalkAt("idle")
  /\ second = 0 /\ saves = 0 /\ walkFaults = 0
  /\ savedAt = [n \in 1 .. MaxSaves |-> Gone]

StampOf(file) == [mtime |-> file.mtime, size |-> SizeOf[file.content]]

----------------------------------------------------------------------------
(* The files *)

SavePage(p) ==
  /\ saves < MaxSaves /\ saves' = saves + 1
  /\ root' = [root EXCEPT ![p] = [content |-> saves', mtime |-> second]]
  /\ savedAt' = [savedAt EXCEPT ![saves'] = [page |-> p, mtime |-> second]]
  /\ UNCHANGED <<checkpoint, wiki, postings, walk, second, walkFaults>>

DeletePage(p) ==
  /\ saves < MaxSaves /\ saves' = saves + 1
  /\ root[p] # Gone /\ root' = [root EXCEPT ![p] = Gone]
  /\ UNCHANGED <<checkpoint, wiki, postings, walk, second, walkFaults, savedAt>>

NextSecond ==
  /\ second < MaxSeconds /\ second' = second + 1
  /\ UNCHANGED <<root, checkpoint, wiki, postings, walk, saves, walkFaults, savedAt>>

----------------------------------------------------------------------------
(* walk_knowledge_root *)

StartWalk ==
  /\ walk.pc \in {"idle", "synced"}
  /\ LET seen == {p \in Pages : root[p] # Gone}
     IN  walk' = [WalkAt("walking") EXCEPT !.seen = seen, !.left = seen, !.loaded = checkpoint]
  /\ UNCHANGED <<root, checkpoint, wiki, postings, second, saves, walkFaults, savedAt>>

\* Mutant: the size is not compared.
NeedsReindexByTime(entry, stamp) == entry = Gone \/ entry.mtime # stamp.mtime

\* Mutant: the time is not compared.
NeedsReindexBySize(entry, stamp) == entry = Gone \/ entry.size # stamp.size

NeedsReindex(entry, stamp) ==
  entry = Gone \/ entry.mtime # stamp.mtime \/ entry.size # stamp.size

\* The next file, in the order of the directory: its metadata.
Stat(p) ==
  /\ walk.pc = "walking" /\ p \in walk.left
  /\ walk' = IF root[p] # Gone /\ NeedsReindex(walk.loaded[p], StampOf(root[p]))
             THEN [walk EXCEPT !.pc = "stated", !.page = p, !.stamp = StampOf(root[p])]
             ELSE [walk EXCEPT !.left = @ \ {p}]
  /\ UNCHANGED <<root, checkpoint, wiki, postings, second, saves, walkFaults, savedAt>>

Passed == [walk EXCEPT !.pc = "walking", !.left = @ \ {walk.page}, !.page = Gone, !.stamp = Gone]

\* A file that vanished since is a warning.
Vanished ==
  /\ walk.pc = "stated" /\ root[walk.page] = Gone
  /\ walk' = Passed
  /\ UNCHANGED <<root, checkpoint, wiki, postings, second, saves, walkFaults, savedAt>>

\* Mutant: the page is in the index before it is in the wiki, and stays there
\* when the wiki refuses it.
FailAfterInsert ==
  /\ walkFaults < MaxWalkFaults /\ walkFaults' = walkFaults + 1
  /\ walk.pc = "stated"
  /\ postings' = IF root[walk.page] = Gone THEN postings
                 ELSE [postings EXCEPT ![walk.page] = root[walk.page].content]
  /\ walk' = WalkAt("idle")
  /\ UNCHANGED <<root, checkpoint, wiki, second, saves, savedAt>>

\* upsert_page refuses: the walk ends there, and its checkpoint is not saved.
UpsertFails ==
  /\ walkFaults < MaxWalkFaults /\ walkFaults' = walkFaults + 1
  /\ walk.pc = "stated" /\ root[walk.page] # Gone
  /\ walk' = WalkAt("idle")
  /\ UNCHANGED <<root, checkpoint, wiki, postings, second, saves, savedAt>>

\* The content is read, upserted into the wiki and inserted into the index; the
\* entry of the checkpoint has the stamp from before the reading.
ProjectPage ==
  /\ walk.pc = "stated" /\ root[walk.page] # Gone
  /\ wiki' = [wiki EXCEPT ![walk.page] = root[walk.page].content]
  /\ postings' = [postings EXCEPT ![walk.page] = root[walk.page].content]
  /\ walk' = [Passed EXCEPT !.loaded[walk.page] = walk.stamp]
  /\ UNCHANGED <<root, checkpoint, second, saves, walkFaults, savedAt>>

\* The entries of files that are gone, and their postings, are dropped.
Dropped == {p \in Pages : walk.loaded[p] # Gone /\ p \notin walk.seen}

WithoutDropped(f) == [p \in Pages |-> IF p \in Dropped THEN Gone ELSE f[p]]

\* Mutant: the postings of files that are gone stay.
EndWalkKeeping ==
  /\ walk.pc = "walking" /\ walk.left = {}
  /\ checkpoint' = WithoutDropped(walk.loaded)
  /\ walk' = WalkAt("synced")
  /\ UNCHANGED <<root, wiki, postings, second, saves, walkFaults, savedAt>>

EndWalk ==
  /\ walk.pc = "walking" /\ walk.left = {}
  /\ postings' = WithoutDropped(postings)
  /\ checkpoint' = WithoutDropped(walk.loaded)
  /\ walk' = WalkAt("synced")
  /\ UNCHANGED <<root, wiki, second, saves, walkFaults, savedAt>>

\* The checkpoint cannot be written: it stays, or is left empty, which is read
\* as one without entries.
SaveFails ==
  /\ walkFaults < MaxWalkFaults /\ walkFaults' = walkFaults + 1
  /\ walk.pc = "walking" /\ walk.left = {}
  /\ postings' = WithoutDropped(postings)
  /\ checkpoint' \in {checkpoint, Nowhere}
  /\ walk' = WalkAt("idle")
  /\ UNCHANGED <<root, wiki, second, saves, savedAt>>

\* The process ends, at any point, and another one begins with an empty index.
Restart ==
  /\ walk.pc # "idle" \/ postings # Nowhere
  /\ postings' = Nowhere
  /\ walk' = WalkAt("idle")
  /\ UNCHANGED <<root, checkpoint, wiki, second, saves, walkFaults, savedAt>>

IndexNext ==
  \/ \E p \in Pages : SavePage(p) \/ DeletePage(p) \/ Stat(p)
  \/ NextSecond
  \/ StartWalk \/ Vanished \/ UpsertFails \/ ProjectPage \/ EndWalk \/ SaveFails
  \/ Restart

IndexSpec == IndexInit /\ [][IndexNext]_indexVars

----------------------------------------------------------------------------
(* Properties *)

IndexTypeOK ==
  LET Stamps == [mtime : 0 .. MaxSeconds, size : {SizeOf[n] : n \in 1 .. MaxSaves}] \cup {Gone}
      Contents == 1 .. MaxSaves \cup {Gone}
  IN  /\ root \in [Pages -> [content : 1 .. MaxSaves, mtime : 0 .. MaxSeconds] \cup {Gone}]
      /\ checkpoint \in [Pages -> Stamps]
      /\ wiki \in [Pages -> Contents] /\ postings \in [Pages -> Contents]
      /\ walk \in [pc : {"idle", "walking", "stated", "synced"}, seen : SUBSET Pages,
                   left : SUBSET Pages, page : Pages \cup {Gone}, stamp : Stamps,
                   loaded : [Pages -> Stamps]]
      /\ second \in 0 .. MaxSeconds /\ saves \in 0 .. MaxSaves /\ walkFaults \in 0 .. MaxWalkFaults
      /\ savedAt \in [1 .. MaxSaves -> [page : Pages, mtime : 0 .. MaxSeconds] \cup {Gone}]

Unchanged(p) == root[p] # Gone /\ checkpoint[p] = StampOf(root[p])

\* Two saves of p that no stamp tells apart: of one size, in one second.
Ambiguous(p) ==
  \E m, n \in 1 .. MaxSaves :
    /\ m # n /\ savedAt[m] = savedAt[n] /\ SizeOf[m] = SizeOf[n]
    /\ savedAt[m] # Gone /\ savedAt[m].page = p

\* A file that the next walk skips is in the wiki as it is, although it may be
\* saved between the stamp and the reading, and a walk may have been cut; but for
\* files with saves that no stamp tells apart.
SkippedIsProjected ==
  \A p \in Pages : Unchanged(p) /\ ~Ambiguous(p) => wiki[p] = root[p].content

\* What a recall finds by a term has the term: the index and the wiki never part.
FoundIsRead == \A p \in Pages : postings[p] # Gone => postings[p] = wiki[p]

\* When no walk has failed, a page that a walk has dropped cannot be found.
DroppedNotFound ==
  walkFaults = 0 /\ walk.pc = "synced" =>
    \A p \in Pages : checkpoint[p] = Gone => postings[p] = Gone

\* The safety of the index.
IndexSafety == IndexTypeOK /\ SkippedIsProjected /\ FoundIsRead /\ DroppedNotFound

\* After a restart a walk builds the whole index again (index.rs:1298).
RestartRebuilds ==
  walk.pc = "synced" => \A p \in Pages : Unchanged(p) => postings[p] = root[p].content
=============================================================================
