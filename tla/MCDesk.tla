------------------------------- MODULE MCDesk -------------------------------
(***************************************************************************)
(* TLC instance of what lies around a turn: its lease, the sessions, the   *)
(* subscriptions of contexts, the remembered facts, the skill packs and    *)
(* the window.  They share no state; a behaviour is one of theirs, as in   *)
(* MCParts.                                                                *)
(***************************************************************************)
EXTENDS MCTurnLease, SessionLog, EventTables, MemoryFacts, SkillLibrary, WindowView, TLC

CONSTANTS r1, r2

VARIABLE part

\* Two buckets stand for the five that there are: a fork locks them one by one.
TwoBuckets == <<"emit", "waterfall">>

\* One call writes two facts (consolidate), the other one of them again.
SomeIds == [c \in Remembers |-> IF c = r1 THEN FactIds ELSE {1}]

\* Three sessions, one of them in another project.
TwoProjects == [f \in Files |-> IF f = "c" THEN "q" ELSE "p"]

\* Three chats, one of them in another project.
TwoFolders == [c \in Chats |-> IF c = "c" THEN "q" ELSE "p"]

\* Nothing tells handlers apart.
DeskSymmetry == Permutations(Handlers)

\* How skills that are not looked at begin.
NoPacks ==
  /\ packDirs = [p \in Packs |-> NoSkill] /\ records = packDirs /\ chosen = packDirs
  /\ skillCache = NoList /\ crossed = {} /\ staleFill = FALSE
  /\ worker = [w \in Hands |-> AtStart(w)] /\ listing = [r \in Readers |-> ListsNothing]
  /\ panelOps = 0 /\ folderEdits = 0 /\ skillCrashes = 0

DeskInit ==
  /\ part \in {"lease", "session", "tables", "memory", "skills", "window"}
  /\ TurnInit /\ SessionInit /\ TablesInit /\ FactsInit /\ WindowInit
  /\ IF part = "skills" THEN SkillsInit ELSE NoPacks

Others(p) ==
  /\ part = p /\ UNCHANGED part
  /\ p # "lease" => UNCHANGED vars
  /\ p # "session" => UNCHANGED sessionVars
  /\ p # "tables" => UNCHANGED tableVars
  /\ p # "memory" => UNCHANGED factVars
  /\ p # "skills" => UNCHANGED skillVars
  /\ p # "window" => UNCHANGED windowVars

DeskNext ==
  \/ part = "lease" /\ TurnNext /\ Others("lease")
  \/ part = "session" /\ SessionNext /\ Others("session")
  \/ part = "tables" /\ TablesNext /\ Others("tables")
  \/ part = "memory" /\ FactsNext /\ Others("memory")
  \/ part = "skills" /\ SkillsNext /\ Others("skills")
  \/ part = "window" /\ WindowNext /\ Others("window")

DeskSpec ==
  DeskInit /\ [][DeskNext]_<<vars, sessionVars, tableVars, factVars, skillVars, windowVars, part>>
=============================================================================
