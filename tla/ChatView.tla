------------------------------- MODULE ChatView -------------------------------
(***************************************************************************)
(* The chat view of the web client, in one browser tab.  The router makes  *)
(* a new view for every navigation and unmounts the one before; an         *)
(* unmounted view keeps its closure, and its stream, running.  Everything  *)
(* happens on one event loop: two steps interleave where the code awaits   *)
(* the server.                                                             *)
(*                                                                         *)
(* A turn is one message sent and its answer; a screen is the set of turns *)
(* whose answer bubble is among the view's messages.                       *)
(***************************************************************************)
EXTENDS Naturals

CONSTANTS
  Turn,       \* messages the user sends
  Chat,       \* chat ids
  Existing,   \* the chats there are at the start
  Page,       \* the chat pages the user visits
  NoChat,     \* the "New chat" page: #/
  NoTurn,
  MaxViews    \* bound on the navigations to a chat page

ASSUME ViewAssumption ==
  /\ Existing \subseteq Chat
  /\ Page \subseteq Chat \cup {NoChat}
  /\ NoChat \notin Chat
  /\ NoTurn \notin Turn
  /\ MaxViews \in Nat

VARIABLES
  activeChatStreaming,  \* of the store, which every view shares
  mounted,              \* the view on the screen; 0 is a page without a chat
  view,                 \* the closure of each view made so far
  turn,                 \* each call of send or regenerate
  chats,                \* the server's chats
  stored                \* the turns whose answer the server has stored

vars == <<activeChatStreaming, mounted, view, turn, chats, stored>>
-----------------------------------------------------------------------------
View == 1..MaxViews

\* `page' is the route the view was mounted with, `chat' its current one; `stop' is
\* whether the stop button shows; `abort' the turn whose stream the button aborts.
ViewState ==
  [load : {"unused", "roster", "request", "answer", "failed", "done"},
   page : Chat \cup {NoChat}, chat : Chat \cup {NoChat},
   fetched : SUBSET Turn, messages : SUBSET Turn,
   streaming : BOOLEAN, stop : BOOLEAN, abort : Turn \cup {NoTurn}]
Unused ==
  [load |-> "unused", page |-> NoChat, chat |-> NoChat, fetched |-> {}, messages |-> {},
   streaming |-> FALSE, stop |-> FALSE, abort |-> NoTurn]

TurnState ==
  [pc : {"idle", "creating", "listing", "streaming", "done", "cut"},
   view : 0..MaxViews, chat : Chat \cup {NoChat}]
Unsent == [pc |-> "idle", view |-> 0, chat |-> NoChat]

Running(t) == turn[t].pc = "streaming"
-----------------------------------------------------------------------------
(* send and regenerate *)

\* The bubble, the flag, the button and the abort controller; then the request.
StartStream(t, v, chat) ==
  /\ turn' = [turn EXCEPT ![t] = [pc |-> "streaming", view |-> v, chat |-> chat]]
  /\ view' = [view EXCEPT ![v].messages = @ \cup {t},
                          ![v].streaming = TRUE,
                          ![v].stop = (v = mounted),
                          ![v].abort = t]

\* ensureChat answers at once when the view has a chat, and otherwise asks the server.
Begin(t) ==
  /\ mounted # 0
  /\ ~view[mounted].streaming
  /\ turn[t].pc = "idle"
  /\ IF view[mounted].chat # NoChat
       THEN StartStream(t, mounted, view[mounted].chat)
       ELSE /\ turn' = [turn EXCEPT ![t] = [Unsent EXCEPT !.pc = "creating", !.view = mounted]]
            /\ UNCHANGED view
  /\ UNCHANGED <<activeChatStreaming, mounted, chats, stored>>

Send(t) == Begin(t)

\* Its button stands at an answer, and asks the same question again.
Regenerate(t) ==
  /\ mounted # 0
  /\ view[mounted].messages # {}
  /\ Begin(t)

\* createChat returned: the view has a chat now, even one that was unmounted.
CreateReturns(t) ==
  /\ turn[t].pc = "creating"
  /\ \E chat \in Chat \ chats :
       /\ chats' = chats \cup {chat}
       /\ view' = [view EXCEPT ![turn[t].view].chat = chat]
       /\ turn' = [turn EXCEPT ![t].pc = "listing", ![t].chat = chat]
  /\ UNCHANGED <<activeChatStreaming, mounted, stored>>

ListReturns(t) ==
  /\ turn[t].pc = "listing"
  /\ StartStream(t, turn[t].view, turn[t].chat)
  /\ UNCHANGED <<activeChatStreaming, mounted, chats, stored>>

\* Either request of ensureChat fails: the text stays in the composer.
EnsureFails(t) ==
  /\ turn[t].pc \in {"creating", "listing"}
  /\ turn' = [turn EXCEPT ![t] = Unsent]
  /\ UNCHANGED <<activeChatStreaming, mounted, view, chats, stored>>

\* streamMessage returned: `done' is the server's word that it has stored the answer;
\* an error, a lost connection are "cut".
StreamEnds(t) ==
  /\ Running(t)
  /\ \E pc \in {"done", "cut"} :
       /\ pc = "done" => t \in stored
       /\ turn' = [turn EXCEPT ![t].pc = pc]
  /\ view' = [view EXCEPT ![turn[t].view].streaming = FALSE, ![turn[t].view].stop = FALSE]
  /\ activeChatStreaming' = FALSE
  /\ UNCHANGED <<mounted, chats, stored>>

\* Mutant: the button resets the view but does not abort.
StopNothing ==
  /\ mounted # 0
  /\ view[mounted].stop
  /\ view' = [view EXCEPT ![mounted].streaming = FALSE, ![mounted].stop = FALSE,
                          ![mounted].abort = NoTurn]
  /\ activeChatStreaming' = FALSE
  /\ UNCHANGED <<mounted, turn, chats, stored>>

\* The aborted call of send runs to its end before the next event is handled.
Stop ==
  /\ mounted # 0
  /\ view[mounted].stop
  /\ view' = [view EXCEPT ![mounted].streaming = FALSE, ![mounted].stop = FALSE,
                          ![mounted].abort = NoTurn]
  /\ activeChatStreaming' = FALSE
  /\ turn' = [t \in Turn |-> IF t = view[mounted].abort /\ Running(t)
                               THEN [turn[t] EXCEPT !.pc = "cut"] ELSE turn[t]]
  /\ UNCHANGED <<mounted, chats, stored>>
-----------------------------------------------------------------------------
(* mount and unmount *)

\* Mutant: unmount does not save `streaming'.
LeaveStore == activeChatStreaming

\* unmount hands `streaming' to the store ...
StreamingAfterUnmount ==
  IF mounted = 0 THEN activeChatStreaming ELSE view[mounted].streaming

\* ... and forgets the page and the route.
Unmounted ==
  [v \in View |-> IF v = mounted THEN [view[v] EXCEPT !.chat = NoChat, !.stop = FALSE]
                                 ELSE view[v]]

NavigateElsewhere ==
  /\ mounted # 0
  /\ activeChatStreaming' = StreamingAfterUnmount
  /\ view' = Unmounted
  /\ mounted' = 0
  /\ UNCHANGED <<turn, chats, stored>>

\* The new view takes `streaming' from the store; both buttons are as in its HTML.
Mount(page) ==
  /\ page \in Page /\ page \in chats \cup {NoChat}
  /\ activeChatStreaming' = StreamingAfterUnmount
  /\ \E v \in View :
       /\ view[v].load = "unused" /\ \A w \in View : view[w].load = "unused" => v <= w
       /\ mounted' = v
       /\ view' = [Unmounted EXCEPT ![v] =
                    [Unused EXCEPT !.load = "roster", !.page = page, !.chat = page,
                                   !.streaming = StreamingAfterUnmount]]
  /\ UNCHANGED <<turn, chats, stored>>

\* refreshHealthModels, and listChats where it is needed, have answered or failed.
RosterArrives(v) ==
  /\ view[v].load = "roster"
  /\ view' = [view EXCEPT
                ![v].load = IF view[v].page = NoChat THEN "done" ELSE "request",
                ![v].messages = IF view[v].page = NoChat THEN {} ELSE @]
  /\ UNCHANGED <<activeChatStreaming, mounted, turn, chats, stored>>

ServeHistory(v) ==
  /\ view[v].load = "request"
  /\ view' = [view EXCEPT ![v].load = "answer",
                          ![v].fetched = {t \in stored : turn[t].chat = view[v].page}]
  /\ UNCHANGED <<activeChatStreaming, mounted, turn, chats, stored>>

\* Mutant: all views share one list of messages.
HistoryArrivesShared(v) ==
  /\ view[v].load = "answer"
  /\ view' = [w \in View |->
                IF w = v THEN [view[v] EXCEPT !.load = "done", !.messages = view[v].fetched]
                ELSE IF w = mounted THEN [view[w] EXCEPT !.messages = view[v].fetched]
                ELSE view[w]]
  /\ UNCHANGED <<activeChatStreaming, mounted, turn, chats, stored>>

\* The messages are what was fetched, whatever was pushed to them meanwhile.
HistoryArrives(v) ==
  /\ view[v].load = "answer"
  /\ view' = [view EXCEPT ![v].load = "done", ![v].messages = view[v].fetched]
  /\ UNCHANGED <<activeChatStreaming, mounted, turn, chats, stored>>

HistoryFails(v) ==
  /\ view[v].load \in {"request", "answer"}
  /\ view' = [view EXCEPT ![v].load = "failed", ![v].messages = {}]
  /\ UNCHANGED <<activeChatStreaming, mounted, turn, chats, stored>>

\* The banner's button, where there is no message to send again.  (It also stands there
\* after a failed ensureChat, and then asks for the messages of a chat without any.)
RetryHistory(v) ==
  /\ mounted = v
  /\ view[v].load = "failed"
  /\ view[v].messages = {}
  /\ view' = [view EXCEPT ![v].load = "request"]
  /\ UNCHANGED <<activeChatStreaming, mounted, turn, chats, stored>>
-----------------------------------------------------------------------------
\* The server stores an answer, whole or partial, of a stream that runs or was cut.
ServerStores(t) ==
  /\ turn[t].pc \in {"streaming", "cut"}
  /\ t \notin stored
  /\ stored' = stored \cup {t}
  /\ UNCHANGED <<activeChatStreaming, mounted, view, turn, chats>>

Init ==
  /\ activeChatStreaming = FALSE
  /\ mounted = 0
  /\ view = [v \in View |-> Unused]
  /\ turn = [t \in Turn |-> Unsent]
  /\ chats = Existing
  /\ stored = {}

Next ==
  \/ \E t \in Turn :
       \/ Send(t) \/ Regenerate(t)
       \/ CreateReturns(t) \/ ListReturns(t) \/ EnsureFails(t)
       \/ StreamEnds(t) \/ ServerStores(t)
  \/ Stop
  \/ NavigateElsewhere
  \/ \E page \in Page : Mount(page)
  \/ \E v \in View :
       \/ RosterArrives(v)
       \/ ServeHistory(v) \/ HistoryArrives(v) \/ HistoryFails(v)
       \/ RetryHistory(v)

Spec == Init /\ [][Next]_vars
-----------------------------------------------------------------------------
(* Properties *)

TypeOK ==
  /\ activeChatStreaming \in BOOLEAN
  /\ mounted \in 0..MaxViews
  /\ view \in [View -> ViewState]
  /\ turn \in [Turn -> TurnState]
  /\ chats \subseteq Chat
  /\ stored \subseteq Turn

\* In a view opened on a chat, the stop button aborts whatever runs: a running turn of
\* the view is the only one, the view says it is streaming and its controller is there.
StopReachesTheStream ==
  \A t \in Turn : Running(t) =>
    LET v == view[turn[t].view] IN v.page # NoChat => v.streaming /\ v.abort = t

\* Such a view, while it is on the screen, shows its own chat and no other, whatever
\* answers of earlier views are still on their way.
ScreenShowsItsChat ==
  mounted # 0 /\ view[mounted].page # NoChat =>
    \A t \in view[mounted].messages : turn[t].chat = view[mounted].page

\* As long as the user has not been on the New chat page, no two streams run at once,
\* not even when the view that began one has gone.
OneStreamAtATime ==
  (\A v \in View : view[v].load # "unused" => view[v].page # NoChat) =>
    \A s, t \in Turn : Running(s) /\ Running(t) => s = t

\* A chat view that says it is streaming has a stream running, in it or in one that
\* came before it.
StreamingIsTracked ==
  mounted # 0 /\ view[mounted].streaming => \E t \in Turn : Running(t)
===============================================================================
