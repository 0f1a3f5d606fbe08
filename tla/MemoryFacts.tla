----------------------------- MODULE MemoryFacts ----------------------------
(***************************************************************************)
(* The facts of the conversation memory: facts.json, a cache of it, and an *)
(* index for recall.  A write loads the list (from the cache, or from the  *)
(* file into the cache), changes its copy, rewrites the file, replaces the *)
(* cache and brings the index up to date.  The file and the cache have no  *)
(* lock from the first of these steps to the last; the index is built      *)
(* under its mutex by the first recall.  Turns, the memory tool and the    *)
(* memory panel call in parallel.                                          *)
(*                                                                         *)
(* A fact is what one call wrote under an id; embeddings, scores and the   *)
(* texts are left out.                                                     *)
(***************************************************************************)
EXTENDS Integers, FiniteSets

CONSTANTS
  FactIds,
  Remembers,       \* calls of remember and consolidate
  IdsOf,           \* call -> the ids it writes: one for remember
  Recallers,       \* calls of recall
  MaxFactFaults,   \* bound on crashes and failed writes
  NoFact, NotThere

ASSUME FactsAssumption ==
  /\ MaxFactFaults \in Nat
  /\ DOMAIN IdsOf = Remembers /\ \A c \in Remembers : IdsOf[c] \subseteq FactIds
  /\ NoFact \notin Remembers /\ Remembers \cap Recallers = {}
  /\ NotThere \notin [FactIds -> Remembers \cup {NoFact}]

VARIABLES
  factFile,     \* id -> call that wrote it, or NoFact; NotThere when it cannot be parsed
  factCache,    \* the same, or NotThere
  recallIndex,  \* the same, or NotThere: not built yet
  call,         \* call -> [pc, held, left]
  excused,      \* history: two writes have overlapped, a write and a recall have, a load found the file torn
  noted,        \* history: id -> call that last stored a fact under it, told so or cut by a crash, or NoFact
  factFaults

factVars == <<factFile, factCache, recallIndex, call, excused, noted, factFaults>>

Callers == Remembers \cup Recallers
NoFacts == [i \in FactIds |-> NoFact]
Waits == [pc |-> "idle", held |-> NoFacts, left |-> {}]

FactsInit ==
  /\ factFile = NoFacts /\ factCache = NotThere /\ recallIndex = NotThere
  /\ call = [c \in Callers |-> Waits]
  /\ excused = {}
  /\ noted = NoFacts
  /\ factFaults = 0

AtWork(c) == call[c].pc \notin {"idle", "done"}
Overlaps(c) ==
  {IF {c, d} \subseteq Remembers THEN "writes" ELSE "recall" : d \in {e \in Callers \ {c} : AtWork(e)}}
IndexHeld == \E r \in Recallers : AtWork(r)

----------------------------------------------------------------------------
(* load_facts, in a write and in the building of the index *)

\* The cache is looked at, and let go.  A recall holds the index from here on,
\* and needs the facts only if there is none.
LookAtCache(c) ==
  /\ call[c].pc = "idle"
  /\ c \in Recallers => recallIndex = NotThere /\ ~IndexHeld
  /\ call' = [call EXCEPT ![c] =
       IF factCache = NotThere THEN [@ EXCEPT !.pc = "reading"]
       ELSE [@ EXCEPT !.pc = "loaded", !.held = factCache]]
  /\ excused' = excused \cup Overlaps(c)
  /\ UNCHANGED <<factFile, factCache, recallIndex, noted, factFaults>>

\* What cannot be parsed is an empty list.
ReadFacts(c) ==
  /\ call[c].pc = "reading"
  /\ call' = [call EXCEPT ![c].pc = "filling",
                          ![c].held = IF factFile = NotThere THEN NoFacts ELSE factFile]
  /\ excused' = excused \cup IF factFile = NotThere THEN {"torn"} ELSE {}
  /\ UNCHANGED <<factFile, factCache, recallIndex, noted, factFaults>>

FillCache(c) ==
  /\ call[c].pc = "filling"
  /\ factCache' = call[c].held
  /\ call' = [call EXCEPT ![c].pc = "loaded"]
  /\ UNCHANGED <<factFile, recallIndex, excused, noted, factFaults>>

----------------------------------------------------------------------------
(* remember and consolidate *)

\* Mutant: the list is written as the call made it, without what was there.
WithOwnAlone(c) == [i \in FactIds |-> IF i \in IdsOf[c] THEN c ELSE NoFact]

WithOwn(c) == [i \in FactIds |-> IF i \in IdsOf[c] THEN c ELSE call[c].held[i]]

\* fs::write empties the file ...
EmptyFactFile(c) ==
  /\ c \in Remembers /\ call[c].pc = "loaded"
  /\ factFile' = NotThere
  /\ call' = [call EXCEPT ![c].pc = "emptied", ![c].held = WithOwn(c)]
  /\ UNCHANGED <<factCache, recallIndex, excused, noted, factFaults>>

\* ... and fills it,
FillFactFile(c) ==
  /\ call[c].pc = "emptied"
  /\ factFile' = call[c].held
  /\ call' = [call EXCEPT ![c].pc = "written"]
  /\ UNCHANGED <<factCache, recallIndex, excused, noted, factFaults>>

\* or fails: the caller is told, and the cache stays as it was.
WriteFails(c) ==
  /\ call[c].pc = "emptied" /\ factFaults < MaxFactFaults
  /\ factFaults' = factFaults + 1
  /\ call' = [call EXCEPT ![c] = [Waits EXCEPT !.pc = "done"]]
  /\ UNCHANGED <<factFile, factCache, recallIndex, excused, noted>>

\* Mutant: the cache is left for the next load.
NoteWithoutCache(c) ==
  /\ call[c].pc = "written"
  /\ call' = [call EXCEPT ![c].pc = "indexing", ![c].left = IdsOf[c]]
  /\ noted' = [i \in FactIds |-> IF i \in IdsOf[c] THEN c ELSE noted[i]]
  /\ UNCHANGED <<factFile, factCache, recallIndex, excused, factFaults>>

ReplaceCache(c) ==
  /\ call[c].pc = "written"
  /\ factCache' = call[c].held
  /\ call' = [call EXCEPT ![c].pc = "indexing", ![c].left = IdsOf[c]]
  /\ noted' = [i \in FactIds |-> IF i \in IdsOf[c] THEN c ELSE noted[i]]
  /\ UNCHANGED <<factFile, recallIndex, excused, factFaults>>

\* Mutant: a call brings one of its facts into the index.
UpsertOne(c, i) ==
  /\ call[c].pc = "indexing" /\ i \in call[c].left /\ ~IndexHeld
  /\ recallIndex' = IF recallIndex = NotThere THEN NotThere ELSE [recallIndex EXCEPT ![i] = c]
  /\ call' = [call EXCEPT ![c].left = {}]
  /\ UNCHANGED <<factFile, factCache, excused, noted, factFaults>>

\* Mutant: the index is not waited for while it is built.
UpsertPast(c, i) ==
  /\ call[c].pc = "indexing" /\ i \in call[c].left
  /\ recallIndex' = IF recallIndex = NotThere THEN NotThere ELSE [recallIndex EXCEPT ![i] = c]
  /\ call' = [call EXCEPT ![c].left = @ \ {i}]
  /\ UNCHANGED <<factFile, factCache, excused, noted, factFaults>>

\* index_upsert, fact by fact, where there is an index.
IndexUpsert(c, i) ==
  /\ call[c].pc = "indexing" /\ i \in call[c].left /\ ~IndexHeld
  /\ recallIndex' = IF recallIndex = NotThere THEN NotThere ELSE [recallIndex EXCEPT ![i] = c]
  /\ call' = [call EXCEPT ![c].left = @ \ {i}]
  /\ UNCHANGED <<factFile, factCache, excused, noted, factFaults>>

EndCall(c) ==
  /\ call[c].pc = "indexing" /\ call[c].left = {}
  /\ call' = [call EXCEPT ![c] = [Waits EXCEPT !.pc = "done"]]
  /\ UNCHANGED <<factFile, factCache, recallIndex, excused, noted, factFaults>>

----------------------------------------------------------------------------
(* recall, and crashes *)

\* build_index, after which recall looks the index up.
BuildIndex(r) ==
  /\ r \in Recallers /\ call[r].pc = "loaded"
  /\ recallIndex' = call[r].held
  /\ call' = [call EXCEPT ![r] = Waits]
  /\ UNCHANGED <<factFile, factCache, excused, noted, factFaults>>

FactsCrash ==
  /\ factFaults < MaxFactFaults /\ factFaults' = factFaults + 1
  /\ factCache' = NotThere /\ recallIndex' = NotThere
  /\ call' = [c \in Callers |-> IF AtWork(c) THEN Waits ELSE call[c]]
  /\ excused' = excused \cup IF factFile = NotThere THEN {"torn"} ELSE {}
  /\ noted' = [i \in FactIds |->
       IF \E c \in Remembers : call[c].pc = "written" /\ i \in IdsOf[c]
       THEN CHOOSE c \in Remembers : call[c].pc = "written" /\ i \in IdsOf[c] ELSE noted[i]]
  /\ UNCHANGED factFile

FactsNext ==
  \/ \E c \in Callers : LookAtCache(c) \/ ReadFacts(c) \/ FillCache(c)
  \/ \E c \in Remembers :
       \/ EmptyFactFile(c) \/ FillFactFile(c) \/ WriteFails(c) \/ ReplaceCache(c) \/ EndCall(c)
       \/ \E i \in FactIds : IndexUpsert(c, i)
  \/ \E r \in Recallers : BuildIndex(r)
  \/ FactsCrash

FactsSpec == FactsInit /\ [][FactsNext]_factVars

----------------------------------------------------------------------------
(* Properties *)

FactsTypeOK ==
  LET Lists == [FactIds -> Remembers \cup {NoFact}]
  IN  /\ factFile \in Lists \cup {NotThere} /\ factCache \in Lists \cup {NotThere}
      /\ recallIndex \in Lists \cup {NotThere}
      /\ \A c \in Callers :
           /\ call[c].pc \in {"idle", "reading", "filling", "loaded", "emptied", "written", "indexing", "done"}
           /\ call[c].held \in Lists /\ call[c].left \subseteq FactIds
      /\ excused \subseteq {"writes", "recall", "torn"} /\ noted \in Lists /\ factFaults \in 0 .. MaxFactFaults

\* What the list shows can be recalled, once no write is on its way to the index,
\* however crashes, failed writes, recalls and the building of the index
\* interleave with the writes, where no two writes overlap and no load has read
\* the file between the two halves of a write.
ListedIsRecalled ==
  /\ {"writes", "torn"} \cap excused = {}
  /\ recallIndex # NotThere /\ factCache # NotThere
  /\ \A c \in Remembers : call[c].pc \notin {"written", "indexing"}
  => \A i \in FactIds : factCache[i] # NoFact => recallIndex[i] # NoFact

\* A fact that was stored stays, in its last version, over restarts and over
\* failed writes of others, unless loads and writes overlapped or a crash
\* came between the two halves of a write.
StoredStays ==
  excused = {} => \A i \in FactIds : noted[i] # NoFact =>
    IF factCache # NotThere THEN factCache[i] = noted[i]
    ELSE factFile # NotThere /\ factFile[i] = noted[i]

RememberSafety == FactsTypeOK /\ ListedIsRecalled /\ StoredStays

\* Without the excuse: two calls that overlap drop a fact.  The code does not keep it.
EveryFactStays ==
  \A i \in FactIds : noted[i] # NoFact /\ factCache # NotThere => factCache[i] # NoFact
=============================================================================
