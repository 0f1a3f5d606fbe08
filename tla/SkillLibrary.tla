---------------------------- MODULE SkillLibrary ----------------------------
(***************************************************************************)
(* Skill packs: folders under .harness-memory/skills, a record beside them *)
(* for each (its content and whether the user enabled it), and the cached  *)
(* list of records that match_skills reads in every turn.                  *)
(*                                                                         *)
(* sync_skill_packs reconciles records with folders.  It runs in a         *)
(* background task at start, and on the interface's thread after an        *)
(* import; the same thread enables, disables and deletes skills.  Nothing  *)
(* locks a record from its reading to its writing, nor the cache from the  *)
(* reading of the folder to its filling.                                   *)
(*                                                                         *)
(* Of a record the setting is kept; contents, scores and the skills that   *)
(* are not packs are left out.                                             *)
(***************************************************************************)
EXTENDS Integers, FiniteSets

CONSTANTS
  Packs,
  MaxPanelOps,    \* bound on the operations of the interface
  MaxFolderEdits, \* bound on folders removed or made in the file manager
  MaxRestarts,    \* bound on crashes
  NoSkill, NoList

ASSUME SkillsAssumption ==
  /\ MaxPanelOps \in Nat /\ MaxFolderEdits \in Nat /\ MaxRestarts \in Nat
  /\ NoSkill \notin Packs \cup {"on", "off", "torn", "whole", "bare"}
  /\ NoList \notin [Packs -> {"on", "off", NoSkill}]

VARIABLES
  packDirs,    \* pack -> "whole", "bare" (without its SKILL.md) or NoSkill
  records,     \* pack -> "on", "off", "torn" or NoSkill
  skillCache,  \* pack -> "on", "off" or NoSkill; NoList when it was cleared
  worker,      \* the background task and the interface's thread
  listing,     \* reader -> [pc, held, late]: a walk through all_skills
  chosen,      \* history: pack -> the setting it should have
  crossed,     \* history: packs two workers held at once, or whose record a crash tore
  staleFill,   \* history: the cache was filled with a list older than a write
  panelOps, folderEdits, skillCrashes

skillVars == <<packDirs, records, skillCache, worker, listing, chosen, crossed, staleFill,
               panelOps, folderEdits, skillCrashes>>

Hands == {"start", "panel"}
Readers == Hands \cup {"match"}

Hand(stage, job, p, h, todo, alone) ==
  [pc |-> stage, job |-> job, pack |-> p, held |-> h, todo |-> todo, seen |-> {}, alone |-> alone]
Rests == Hand("idle", "none", NoSkill, NoSkill, {}, TRUE)
AtStart(w) == Hand("idle", IF w = "start" THEN "start" ELSE "none", NoSkill, NoSkill, {}, TRUE)
ListsNothing == [pc |-> "idle", held |-> NoList, late |-> FALSE]

\* What from_str makes of a record.
Parsed(s) == IF s = "torn" THEN NoSkill ELSE s
Readable == [p \in Packs |-> Parsed(records[p])]

SkillsInit ==
  /\ packDirs \in [Packs -> {"whole", NoSkill}]
  /\ records \in [Packs -> {"on", "off", NoSkill}]
  /\ skillCache = NoList
  /\ worker = [w \in Hands |-> AtStart(w)]
  /\ listing = [r \in Readers |-> ListsNothing]
  /\ chosen = records
  /\ crossed = {} /\ staleFill = FALSE
  /\ panelOps = 0 /\ folderEdits = 0 /\ skillCrashes = 0

Busy(w) == worker[w].pc # "idle"
OtherBusy(w) == \E v \in Hands \ {w} : Busy(v)
\* A pack that two workers hold counts as crossed from then on.
Holds(w, p) ==
  crossed' = crossed \cup IF \E v \in Hands \ {w} : Busy(v) /\ worker[v].pack = p THEN {p} ELSE {}
\* A sync is no longer alone once another worker or the file manager does something.
NotAlone(ws, w) == [v \in Hands |-> IF v = w THEN ws[v] ELSE [ws[v] EXCEPT !.alone = ~Busy(v)]]
CacheCleared ==
  /\ skillCache' = NoList
  /\ listing' = [r \in Readers |-> [listing[r] EXCEPT !.late = @ \/ listing[r].pc = "filling"]]

----------------------------------------------------------------------------
(* all_skills *)

\* The cache, or the records as they are now, which then fill it.
ReadList(r) ==
  /\ listing[r].pc = "idle"
  /\ r \in Hands => worker[r].pc = "scan" /\ worker[r].todo = {}
  /\ listing' = [listing EXCEPT ![r] =
       IF skillCache = NoList THEN [@ EXCEPT !.pc = "filling", !.held = Readable]
       ELSE [@ EXCEPT !.pc = "listed", !.held = skillCache]]
  /\ UNCHANGED <<packDirs, records, skillCache, worker, chosen, crossed, staleFill,
                 panelOps, folderEdits, skillCrashes>>

FillList(r) ==
  /\ listing[r].pc = "filling"
  /\ skillCache' = listing[r].held
  /\ staleFill' = (staleFill \/ listing[r].late)
  /\ listing' = [listing EXCEPT ![r].pc = "listed", ![r].late = FALSE]
  /\ UNCHANGED <<packDirs, records, worker, chosen, crossed, panelOps, folderEdits, skillCrashes>>

\* match_skills goes on with what is enabled.
Matched ==
  /\ listing["match"].pc = "listed"
  /\ listing' = [listing EXCEPT !["match"] = ListsNothing]
  /\ UNCHANGED <<packDirs, records, skillCache, worker, chosen, crossed, staleFill,
                 panelOps, folderEdits, skillCrashes>>

----------------------------------------------------------------------------
(* sync_skill_packs *)

\* read_dir: the folders there are.
SyncFrom(w) ==
  Hand("scan", "sync", NoSkill, NoSkill, {p \in Packs : packDirs[p] # NoSkill}, ~OtherBusy(w))

StartSyncs ==
  /\ worker["start"].job = "start"
  /\ worker' = NotAlone([worker EXCEPT !["start"] = SyncFrom("start")], "start")
  /\ UNCHANGED <<packDirs, records, skillCache, listing, chosen, crossed, staleFill,
                 panelOps, folderEdits, skillCrashes>>

\* Mutant: an update enables the pack as the first registration leaves it.
SettingDropped(p) == "off"

SettingFor(p) == IF Readable[p] = NoSkill THEN "off" ELSE Readable[p]

\* A sync takes up a pack of its list.
TakesUp(w, stage, p, h, seen) ==
  [pc |-> stage, job |-> worker[w].job, pack |-> p, held |-> h, todo |-> worker[w].todo \ {p},
   seen |-> seen, alone |-> worker[w].alone]

ScanPack(w, p) ==
  /\ worker[w].pc = "scan" /\ p \in worker[w].todo
  /\ IF packDirs[p] = "whole"
     THEN /\ worker' = [worker EXCEPT ![w] =
               TakesUp(w, "empty", p, SettingFor(p), worker[w].seen \cup {p})]
          /\ Holds(w, p)
     ELSE worker' = [worker EXCEPT ![w].todo = @ \ {p}] /\ UNCHANGED crossed
  /\ UNCHANGED <<packDirs, records, skillCache, listing, chosen, staleFill,
                 panelOps, folderEdits, skillCrashes>>

\* fs::write empties a record (register_skill and write_skill) ...
EmptyRecord(w) ==
  /\ worker[w].pc = "empty"
  /\ records' = [records EXCEPT ![worker[w].pack] = "torn"]
  /\ worker' = [worker EXCEPT ![w].pc = "put"]
  /\ UNCHANGED <<packDirs, skillCache, listing, chosen, crossed, staleFill,
                 panelOps, folderEdits, skillCrashes>>

\* ... and fills it;
PutRecord(w) ==
  /\ worker[w].pc = "put"
  /\ LET p == worker[w].pack
     IN  /\ records' = [records EXCEPT ![p] = worker[w].held]
         /\ chosen' = [chosen EXCEPT ![p] = IF worker[w].job = "toggle" \/ @ = NoSkill
                                            THEN worker[w].held ELSE @]
  /\ worker' = [worker EXCEPT ![w].pc = "clear"]
  /\ UNCHANGED <<packDirs, skillCache, listing, crossed, staleFill, panelOps, folderEdits, skillCrashes>>

AfterPack(w) ==
  [worker EXCEPT ![w] =
     IF worker[w].job # "sync" THEN Rests
     ELSE [@ EXCEPT !.pack = NoSkill, !.held = NoSkill,
                    !.pc = IF worker[w].pc = "clear" THEN "scan" ELSE "reclaim"]]

\* Mutant: a write leaves the list for the next one.
EndWithoutClear(w) ==
  /\ worker[w].pc = "clear"
  /\ worker' = AfterPack(w)
  /\ UNCHANGED <<packDirs, records, skillCache, listing, chosen, crossed, staleFill,
                 panelOps, folderEdits, skillCrashes>>

\* then the list is cleared.
ClearCache(w) ==
  /\ worker[w].pc = "clear"
  /\ CacheCleared
  /\ worker' = AfterPack(w)
  /\ UNCHANGED <<packDirs, records, chosen, crossed, staleFill, panelOps, folderEdits, skillCrashes>>

\* Mutant: every record that is listed and has a folder is kept, seen or not.
Vanished(w) == {p \in Packs : listing[w].held[p] # NoSkill /\ packDirs[p] = NoSkill} \ worker[w].seen

NotSeen(w) == {p \in Packs : listing[w].held[p] # NoSkill} \ worker[w].seen

ReclaimThese(w) ==
  /\ worker[w].pc = "scan" /\ listing[w].pc = "listed"
  /\ worker' = [worker EXCEPT ![w] = [@ EXCEPT !.pc = "reclaim", !.todo = NotSeen(w)]]
  /\ listing' = [listing EXCEPT ![w] = ListsNothing]
  /\ UNCHANGED <<packDirs, records, skillCache, chosen, crossed, staleFill,
                 panelOps, folderEdits, skillCrashes>>

Reclaim(w, p) ==
  /\ worker[w].pc = "reclaim" /\ p \in worker[w].todo
  /\ worker' = [worker EXCEPT ![w] = TakesUp(w, "delete", p, Readable[p], worker[w].seen)]
  /\ Holds(w, p)
  /\ UNCHANGED <<packDirs, records, skillCache, listing, chosen, staleFill,
                 panelOps, folderEdits, skillCrashes>>

SyncReports(w) ==
  /\ worker[w].pc = "reclaim" /\ worker[w].todo = {}
  /\ worker' = [worker EXCEPT ![w].pc = "synced"]
  /\ UNCHANGED <<packDirs, records, skillCache, listing, chosen, crossed, staleFill,
                 panelOps, folderEdits, skillCrashes>>

SyncEnds(w) ==
  /\ worker[w].pc = "synced"
  /\ worker' = [worker EXCEPT ![w] = Rests]
  /\ UNCHANGED <<packDirs, records, skillCache, listing, chosen, crossed, staleFill,
                 panelOps, folderEdits, skillCrashes>>

----------------------------------------------------------------------------
(* delete_skill: the record was read, and goes; its folder goes with it *)

RemoveRecord(w) ==
  /\ worker[w].pc = "delete"
  /\ records' = [records EXCEPT ![worker[w].pack] = NoSkill]
  /\ chosen' = [chosen EXCEPT ![worker[w].pack] = NoSkill]
  /\ worker' = [worker EXCEPT ![w].pc = "folder"]
  /\ UNCHANGED <<packDirs, skillCache, listing, crossed, staleFill, panelOps, folderEdits, skillCrashes>>

RemoveFolder(w) ==
  /\ worker[w].pc = "folder"
  /\ packDirs' = [packDirs EXCEPT ![worker[w].pack] = IF worker[w].held = NoSkill THEN @ ELSE NoSkill]
  /\ CacheCleared
  /\ worker' = AfterPack(w)
  /\ UNCHANGED <<records, chosen, crossed, staleFill, panelOps, folderEdits, skillCrashes>>

----------------------------------------------------------------------------
(* The interface, one operation at a time, and the file manager *)

PanelBegins(p, next) ==
  /\ ~Busy("panel") /\ panelOps < MaxPanelOps /\ panelOps' = panelOps + 1
  /\ worker' = NotAlone([worker EXCEPT !["panel"] = next], "panel")
  /\ Holds("panel", p)

\* set_skill_enabled reads the record and fails without one.
Toggle(p, setting) ==
  /\ Readable[p] # NoSkill
  /\ PanelBegins(p, Hand("empty", "toggle", p, setting, {}, TRUE))
  /\ UNCHANGED <<packDirs, records, skillCache, listing, chosen, staleFill, folderEdits, skillCrashes>>

Delete(p) ==
  /\ PanelBegins(p, Hand("delete", "delete", p, Readable[p], {}, TRUE))
  /\ UNCHANGED <<packDirs, records, skillCache, listing, chosen, staleFill, folderEdits, skillCrashes>>

\* install_skill_packs_from takes the old folder away, copies the new one,
\* file by file, and the interface's thread syncs.
Install(p) ==
  /\ PanelBegins(p, Hand("copy", "sync", p, NoSkill, {}, TRUE))
  /\ packDirs' = [packDirs EXCEPT ![p] = NoSkill]
  /\ UNCHANGED <<records, skillCache, listing, chosen, staleFill, folderEdits, skillCrashes>>

CopyFolder ==
  /\ worker["panel"].pc = "copy"
  /\ LET p == worker["panel"].pack
     IN  IF packDirs[p] = NoSkill
         THEN packDirs' = [packDirs EXCEPT ![p] = "bare"] /\ UNCHANGED worker
         ELSE /\ packDirs' = [packDirs EXCEPT ![p] = "whole"]
              /\ worker' = [worker EXCEPT !["panel"].pc = "copied", !["panel"].pack = NoSkill]
  /\ UNCHANGED <<records, skillCache, listing, chosen, crossed, staleFill, panelOps, folderEdits, skillCrashes>>

SyncInstalled ==
  /\ worker["panel"].pc = "copied"
  /\ worker' = NotAlone([worker EXCEPT !["panel"] = SyncFrom("panel")], "panel")
  /\ UNCHANGED <<packDirs, records, skillCache, listing, chosen, crossed, staleFill,
                 panelOps, folderEdits, skillCrashes>>

EditFolder(p) ==
  /\ folderEdits < MaxFolderEdits /\ folderEdits' = folderEdits + 1
  /\ packDirs[p] # "bare"
  /\ packDirs' = [packDirs EXCEPT ![p] = IF @ = "whole" THEN NoSkill ELSE "whole"]
  /\ worker' = NotAlone(worker, "none")
  /\ UNCHANGED <<records, skillCache, listing, chosen, crossed, staleFill, panelOps, skillCrashes>>

\* The program stops, and starts again with its sync.
Restart ==
  /\ skillCrashes < MaxRestarts /\ skillCrashes' = skillCrashes + 1
  /\ skillCache' = NoList
  /\ listing' = [r \in Readers |-> ListsNothing]
  /\ crossed' = crossed \cup {p \in Packs : records[p] = "torn"}
  /\ worker' = [w \in Hands |-> AtStart(w)]
  /\ UNCHANGED <<packDirs, records, chosen, staleFill, panelOps, folderEdits>>

SkillsNext ==
  \/ \E r \in Readers : ReadList(r) \/ FillList(r)
  \/ Matched \/ StartSyncs
  \/ \E w \in Hands :
       \/ EmptyRecord(w) \/ PutRecord(w) \/ ClearCache(w) \/ ReclaimThese(w)
       \/ SyncReports(w) \/ SyncEnds(w) \/ RemoveRecord(w) \/ RemoveFolder(w)
       \/ \E p \in Packs : ScanPack(w, p) \/ Reclaim(w, p)
  \/ \E p \in Packs :
       Delete(p) \/ Install(p) \/ EditFolder(p) \/ \E s \in {"on", "off"} : Toggle(p, s)
  \/ CopyFolder \/ SyncInstalled \/ Restart

SkillsSpec == SkillsInit /\ [][SkillsNext]_skillVars

----------------------------------------------------------------------------
(* Properties *)

SkillsTypeOK ==
  /\ packDirs \in [Packs -> {"whole", "bare", NoSkill}]
  /\ records \in [Packs -> {"on", "off", "torn", NoSkill}]
  /\ skillCache \in [Packs -> {"on", "off", NoSkill}] \cup {NoList}
  /\ \A w \in Hands : worker[w].todo \cup worker[w].seen \subseteq Packs
  /\ chosen \in [Packs -> {"on", "off", NoSkill}] /\ crossed \subseteq Packs

Writing(p) == \E w \in Hands : worker[w].pc = "put" /\ worker[w].pack = p

\* Updating a pack keeps what the user chose for it, whatever happens to other
\* packs meanwhile, unless two workers held the pack at once or a crash tore its
\* record (the third point of the comment on sync_skill_packs).
SettingKept == \A p \in Packs \ crossed : Writing(p) \/ records[p] = chosen[p]

\* match_skills never goes on with a list that a finished write has made old,
\* unless a reader filled the list across that write.
ListIsFresh ==
  (~staleFill /\ skillCache # NoList /\ \A w \in Hands : worker[w].pc \notin {"put", "clear", "folder"})
    => skillCache = Readable

\* A sync nothing else crossed leaves a record for every whole folder and for
\* nothing else (its fourth point), whatever crash went before it.
SyncReconciles ==
  \A w \in Hands : worker[w].pc = "synced" /\ worker[w].alone /\ ~staleFill
    => \A p \in Packs : Readable[p] # NoSkill <=> packDirs[p] = "whole"

SkillSafety == SkillsTypeOK /\ SettingKept /\ ListIsFresh /\ SyncReconciles

\* Without the excuses.  A sync at start that saw the folder of a pack without
\* its SKILL.md takes away the folder the user has just installed over it, and one that read a
\* record before the user changed it writes the old setting back.  The code keeps neither.
InstalledStays ==
  \A p \in Packs : worker["panel"].pc = "synced" /\ p \in worker["panel"].seen => packDirs[p] = "whole"
ChoiceStays == \A p \in Packs : records[p] \in {"on", "off"} /\ ~Writing(p) => records[p] = chosen[p]
=============================================================================
