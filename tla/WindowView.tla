----------------------------- MODULE WindowView -----------------------------
(***************************************************************************)
(* The conversation as the window shows it.  Turns append events to the    *)
(* log of the chat they were submitted in; once a frame poll_log turns     *)
(* what is new in the shown chat into bubbles; the user goes from chat to  *)
(* chat and from project to project, which resets the view and replays.    *)
(*                                                                         *)
(* An event is a kind and its place in a chat's log; texts, timings and    *)
(* trace lines are left out.  SessionLog has what becomes of the files.    *)
(***************************************************************************)
EXTENDS Integers, FiniteSets, Sequences, SequencesExt, FiniteSetsExt

CONSTANTS
  Chats,           \* chats, by the name of their file
  FolderOf,        \* chat -> its project
  FirstChat,       \* the one that is shown at first
  MaxChatEvents,   \* bound on the events of all chats
  MaxMoves,        \* bound on what the user does
  NoChat

ASSUME WindowAssumption ==
  /\ FirstChat \in Chats /\ DOMAIN FolderOf = Chats
  /\ MaxChatEvents \in Nat /\ MaxMoves \in Nat /\ NoChat \notin Chats

VARIABLES
  chatLog,     \* chat -> its events, in order; a chat with no file yet has none
  begun,       \* chats that have a file
  atWork,      \* chats with a turn under way
  shown,       \* the chat that the log follows
  folder,      \* active_project
  lastEvent,   \* events of the shown chat that are on the screen
  screen,      \* [bubbles, thought, banner, cards]
  cutShort,    \* history: a submission has come between a turn's last thoughts and the frame to show them
  moves

windowVars == <<chatLog, begun, atWork, shown, folder, lastEvent, screen, cutShort, moves>>

Kinds == {"start", "think", "text", "call", "council", "delivery", "end"}

\* The greeting is an assistant's bubble with nothing of a chat in it.
Greeting == [kind |-> "assistant", parts |-> <<>>]
Notice == [kind |-> "notice", parts |-> <<>>]
Blank == [bubbles |-> <<Greeting>>, thought |-> <<>>, banner |-> NoChat, cards |-> {}]

WindowInit ==
  /\ chatLog = [c \in Chats |-> <<>>]
  /\ begun = {FirstChat} /\ atWork = {}
  /\ shown = FirstChat /\ folder = FolderOf[FirstChat]
  /\ lastEvent = 0 /\ screen = Blank /\ cutShort = FALSE /\ moves = 0

----------------------------------------------------------------------------
(* One event on the screen *)

Bubble(kind, parts) == [kind |-> kind, parts |-> parts]
LastIs(v, kind) == v.bubbles # <<>> /\ Last(v.bubbles).kind = kind
WithLast(v, b) == [v EXCEPT !.bubbles = Append(Front(@), b)]
Pushed(v, b) == [v EXCEPT !.bubbles = Append(@, b)]

\* update_thinking_bubble shows what has been thought so far.
Thinking(v, e) ==
  LET t == Append(v.thought, e)
      b == Bubble("thinking", t)
  IN  [IF LastIs(v, "thinking") THEN WithLast(v, b) ELSE Pushed(v, b) EXCEPT !.thought = t]

\* Mutant: what was thought is kept for the next bubble.
FinalizedKeeping(v) ==
  IF v.thought = <<>> THEN v
  ELSE IF LastIs(v, "thinking") THEN WithLast(v, Bubble("thinking", v.thought))
       ELSE Pushed(v, Bubble("thinking", v.thought))

\* finalize_thinking
Finalized(v) ==
  IF v.thought = <<>> THEN v
  ELSE [IF LastIs(v, "thinking") THEN WithLast(v, Bubble("thinking", v.thought))
        ELSE Pushed(v, Bubble("thinking", v.thought)) EXCEPT !.thought = <<>>]

\* append_assistant
WithText(v, e) ==
  IF LastIs(v, "assistant") THEN WithLast(v, Bubble("assistant", Append(Last(v.bubbles).parts, e)))
  ELSE Pushed(v, Bubble("assistant", <<e>>))

\* The arms of poll_log.
OnScreen(v, e) ==
  CASE e.kind = "start"    -> [Pushed(v, Bubble("user", <<e>>)) EXCEPT !.banner = NoChat]
    [] e.kind = "think"    -> Thinking(v, e)
    [] e.kind = "text"     -> WithText(Finalized(v), e)
    [] e.kind = "call"     -> Pushed(Finalized(v), Bubble("tool", <<e>>))
    [] e.kind = "council"  -> [v EXCEPT !.cards = @ \cup {e.chat}]
    [] e.kind = "delivery" -> [v EXCEPT !.banner = e.chat]
    [] e.kind = "end"      -> Finalized(v)

\* The events es, one after the other.
Played(v, es) ==
  LET after[k \in 0 .. Len(es)] == IF k = 0 THEN v ELSE OnScreen(after[k - 1], es[k])
  IN  after[Len(es)]

\* A frame: replay_from gives the events after lastEvent, at most all there are.
Poll ==
  /\ lastEvent < Len(chatLog[shown])
  /\ screen' = Played(screen, SubSeq(chatLog[shown], lastEvent + 1, Len(chatLog[shown])))
  /\ lastEvent' = Len(chatLog[shown])
  /\ UNCHANGED <<chatLog, begun, atWork, shown, folder, cutShort, moves>>

----------------------------------------------------------------------------
(* Turns, which write to the chat they began in *)

SumOver(cs, f) == FoldSet(LAMBDA c, n : f[c] + n, 0, cs)

Emit(c, kind) ==
  /\ SumOver(Chats, [d \in Chats |-> Len(chatLog[d])]) < MaxChatEvents
  /\ chatLog' = [chatLog EXCEPT ![c] = Append(@, [chat |-> c, kind |-> kind, at |-> Len(@) + 1])]
  /\ UNCHANGED <<begun, shown, folder, lastEvent>>

\* submit: where no turn of the shown chat is at work its queue begins, and
\* what was being thought is forgotten; else the text waits in the queue.
SubmitInput(c) ==
  /\ c = shown /\ c \notin atWork
  /\ atWork' = atWork \cup {c}
  /\ screen' = [screen EXCEPT !.thought = <<>>]
  /\ cutShort' = (cutShort \/ screen.thought # <<>>)
  /\ UNCHANGED <<chatLog, begun, shown, folder, lastEvent, moves>>

BetweenTurns(c) == chatLog[c] = <<>> \/ Last(chatLog[c]).kind = "end"

\* The queue ends with a turn, or takes the next one.
TurnEmits(c, kind, more) ==
  /\ c \in atWork /\ (kind = "start" <=> BetweenTurns(c))
  /\ kind # "end" => more
  /\ atWork' = IF more THEN atWork ELSE atWork \ {c}
  /\ Emit(c, kind) /\ UNCHANGED <<screen, cutShort, moves>>

----------------------------------------------------------------------------
(* The user *)

Moves == moves < MaxMoves /\ moves' = moves + 1

\* Mutant: the position of the chat that was shown before is kept.
ResetKeepingPlace(v) == lastEvent' = lastEvent /\ screen' = v /\ cutShort' = FALSE

Reset(v) == lastEvent' = 0 /\ screen' = v /\ cutShort' = FALSE

\* A chat has a name of its own, which no file had before.
UnusedChat(c) == c \notin begun /\ chatLog[c] = <<>> /\ c \notin atWork

\* new_session: the banner and the projection of the last turn are left.
NewChat(c) ==
  /\ Moves /\ UnusedChat(c) /\ FolderOf[c] = folder
  /\ begun' = begun \cup {c} /\ shown' = c
  /\ Reset([Blank EXCEPT !.banner = screen.banner])
  /\ UNCHANGED <<chatLog, atWork, folder>>

\* Mutant: only the turns of the shown chat keep the user in the project.
BusyShown == shown \in atWork

AnyAtWork == atWork # {}

\* switch_session: into another project only where nothing is at work.
SwitchChat(c) ==
  /\ Moves /\ c \in begun
  /\ FolderOf[c] # folder => ~AnyAtWork
  /\ folder' = FolderOf[c] /\ shown' = c
  /\ Reset([Blank EXCEPT !.banner = screen.banner])
  /\ UNCHANGED <<chatLog, begun, atWork>>

\* switch_project: the log goes to the latest chat of the project or a new one.
\* The cards of councils are left too.
SwitchProject(c) ==
  /\ Moves /\ FolderOf[c] # folder /\ ~AnyAtWork /\ (c \in begun \/ UnusedChat(c))
  /\ begun' = begun \cup {c}
  /\ folder' = FolderOf[c] /\ shown' = c
  /\ Reset([Blank EXCEPT !.banner = screen.banner, !.cards = screen.cards, !.bubbles = Append(@, Notice)])
  /\ UNCHANGED <<chatLog, atWork>>

\* delete_session_entry, where the shown chat is at rest; the shown one is
\* followed by a new one.
DeleteChat(c, next) ==
  /\ Moves /\ c \in begun /\ shown \notin atWork
  /\ IF c = shown
     THEN /\ UnusedChat(next) /\ FolderOf[next] = folder
          /\ shown' = next /\ begun' = (begun \cup {next}) \ {c}
          /\ Reset([Blank EXCEPT !.banner = screen.banner])
     ELSE next = c /\ begun' = begun \ {c} /\ UNCHANGED <<shown, lastEvent, screen, cutShort>>
  /\ chatLog' = [chatLog EXCEPT ![c] = IF c \in atWork THEN @ ELSE <<>>]
  /\ UNCHANGED <<atWork, folder>>

WindowNext ==
  \/ Poll
  \/ \E c \in Chats :
       \/ SubmitInput(c) \/ NewChat(c) \/ SwitchChat(c) \/ SwitchProject(c)
       \/ \E kind \in Kinds, more \in BOOLEAN : TurnEmits(c, kind, more)
       \/ \E next \in Chats : DeleteChat(c, next)

WindowSpec == WindowInit /\ [][WindowNext]_windowVars

----------------------------------------------------------------------------
(* Properties *)

WindowTypeOK ==
  /\ begun \subseteq Chats /\ shown \in begun /\ atWork \subseteq Chats
  /\ folder \in {FolderOf[c] : c \in Chats}
  /\ lastEvent \in Nat /\ moves \in 0 .. MaxMoves
  /\ \A c \in Chats : \A i \in DOMAIN chatLog[c] :
       chatLog[c][i].kind \in Kinds /\ chatLog[c][i].at = i
  /\ screen.cards \subseteq Chats /\ screen.banner \in Chats \cup {NoChat}

Said == {"start", "think", "text", "call"}
PartsOf(bubbles) ==
  LET upto[i \in 0 .. Len(bubbles)] == IF i = 0 THEN <<>> ELSE upto[i - 1] \o bubbles[i].parts
  IN  upto[Len(bubbles)]
SaidIn(log, n) ==
  LET upto[i \in 0 .. n] == IF i = 0 THEN <<>>
                           ELSE IF log[i].kind \in Said THEN Append(upto[i - 1], log[i]) ELSE upto[i - 1]
  IN  upto[n]

\* What is on the screen is the shown chat up to lastEvent: every word of it,
\* once, in the order of the log, and nothing of a chat that was shown before,
\* whichever frames the events came in and whatever turns of others wrote.  Only
\* thoughts may lack, where a submission came before the frame to close them.
ShownIsLog ==
  ~cutShort => PartsOf(screen.bubbles) = SaidIn(chatLog[shown], lastEvent)

\* Thoughts have bubbles of their own, and once something follows them they are closed.
ThoughtsApart ==
  /\ \A i \in DOMAIN screen.bubbles : \A j \in DOMAIN screen.bubbles[i].parts :
       screen.bubbles[i].kind = "thinking" <=> screen.bubbles[i].parts[j].kind = "think"
  /\ screen.thought # <<>> => LastIs(screen, "thinking") /\ Last(screen.bubbles).parts = screen.thought

\* Turns that are at work are of the project that the tools work in.
ToolsStayInProject == \A c \in atWork : FolderOf[c] = folder

ViewSafety == WindowTypeOK /\ ShownIsLog /\ ThoughtsApart /\ ToolsStayInProject

\* A delivery, or a card of a council, is of the chat that is shown.  The code
\* keeps neither: new_session and the switches leave the banner, and
\* switch_project leaves the cards.
BannerOfShown == screen.banner \in {shown, NoChat}
CardsOfShown == screen.cards \subseteq {shown}
=============================================================================
