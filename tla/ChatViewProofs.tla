---------------------------- MODULE ChatViewProofs ----------------------------
(***************************************************************************)
(* Proofs about ChatView, for any turns, chats, pages and navigations: the *)
(* stop button reaches the stream, the screen shows its own chat, and no   *)
(* two streams run at once for a user who stays off the New chat page.     *)
(***************************************************************************)
EXTENDS ChatView, TLAPS

Begun == {"streaming", "done", "cut"}

\* Views that appear in the state have been mounted, and only a New chat page asks the
\* server for a chat; a chat page keeps its chat while it is on the screen.
ViewsAreMounted ==
  /\ mounted # 0 => view[mounted].load # "unused"
  /\ mounted # 0 /\ view[mounted].page # NoChat => view[mounted].chat = view[mounted].page
  /\ \A t \in Turn : turn[t].pc # "idle" =>
       turn[t].view \in View /\ view[turn[t].view].load # "unused"
  /\ \A t \in Turn : turn[t].pc \in {"creating", "listing"} => view[turn[t].view].page = NoChat
  /\ \A t \in Turn : turn[t].pc = "listing" => turn[t].chat \in Chat

\* What a chat page has or has been sent are turns of its chat, that have begun.
MessagesAreOfThePage ==
  /\ \A v \in View : view[v].page # NoChat =>
       \A t \in view[v].messages \cup view[v].fetched : turn[t].chat = view[v].page /\ turn[t].pc \in Begun
  /\ \A t \in stored : turn[t].pc \in Begun

\* The button of a chat page shows while the stream that it aborts runs.
StopIsLive ==
  \A v \in View : view[v].page # NoChat /\ view[v].stop =>
    view[v].abort \in Turn /\ Running(view[v].abort)

\* A view aborts none but its own streams.
AbortIsOwn ==
  \A v \in View : view[v].abort \in Turn =>
    turn[view[v].abort].view = v /\ turn[view[v].abort].pc \in Begun

OnlyChatPages == \A v \in View : view[v].load # "unused" => view[v].page # NoChat

\* What the next view will be told about streams, or the one on the screen has been.
Said == IF mounted = 0 THEN activeChatStreaming ELSE view[mounted].streaming

\* Without the New chat page there is one stream at most, and it is not forgotten.
OneStream ==
  OnlyChatPages =>
    /\ \A s, t \in Turn : Running(s) /\ Running(t) => s = t
    /\ \A t \in Turn : Running(t) => Said

ViewInv ==
  /\ TypeOK /\ ViewsAreMounted /\ MessagesAreOfThePage
  /\ StopReachesTheStream /\ StopIsLive /\ AbortIsOwn /\ OneStream

-----------------------------------------------------------------------------
\* No view is the page without a chat, and a view that was mounted is one.
LEMMA MountedView ==
  ASSUME TypeOK
  PROVE  0 \notin View /\ (mounted # 0 => mounted \in View)
BY ViewAssumption DEF TypeOK, View

LEMMA InitView == Init => ViewInv
<1> SUFFICES ASSUME Init PROVE ViewInv
  OBVIOUS
<1>1. Unused \in ViewState /\ Unsent \in TurnState
  BY ViewAssumption DEF Unused, ViewState, Unsent, TurnState
<1>2. TypeOK
  <2>1. view \in [View -> ViewState] /\ turn \in [Turn -> TurnState]
    BY <1>1 DEF Init
  <2>2. mounted \in 0..MaxViews /\ chats \subseteq Chat /\ stored \subseteq Turn
    BY ViewAssumption DEF Init
  <2>3. QED
    BY <2>1, <2>2 DEF Init, TypeOK
<1>3. ViewsAreMounted /\ MessagesAreOfThePage
  BY DEF Init, ViewsAreMounted, MessagesAreOfThePage, Unused, Unsent
<1>4. StopReachesTheStream /\ StopIsLive /\ AbortIsOwn /\ OneStream
  BY ViewAssumption DEF Init, AbortIsOwn, StopReachesTheStream, StopIsLive, OneStream, Running, Unused, Unsent
<1>5. QED
  BY <1>2, <1>3, <1>4 DEF ViewInv
-----------------------------------------------------------------------------
(* send and regenerate *)

\* A stream begins in a view on the screen that says it has none, or on a New chat page.
LEMMA StartStreamKeeps ==
  ASSUME ViewInv, NEW t \in Turn, NEW v \in View, NEW chat \in Chat,
         turn[t].pc \in {"idle", "listing"}, view[v].load # "unused",
         \/ v = mounted /\ ~view[v].streaming /\ (view[v].page # NoChat => chat = view[v].page)
         \/ view[v].page = NoChat,
         StartStream(t, v, chat), UNCHANGED <<activeChatStreaming, mounted, chats, stored>>
  PROVE  ViewInv'
<1> DEFINE new == [view[v] EXCEPT !.messages = @ \cup {t}, !.streaming = TRUE,
                                  !.stop = (v = mounted), !.abort = t]
           begun == [pc |-> "streaming", view |-> v, chat |-> chat]
<1>1. TypeOK /\ view[v] \in ViewState /\ 0 \notin View /\ (mounted # 0 => mounted \in View)
  BY MountedView DEF ViewInv, TypeOK
<1>2. view' = [view EXCEPT ![v] = new] /\ turn' = [turn EXCEPT ![t] = begun]
  BY <1>1 DEF StartStream, TypeOK
<1>3. /\ new \in ViewState /\ new.load = view[v].load /\ new.page = view[v].page
      /\ new.chat = view[v].chat /\ new.fetched = view[v].fetched
      /\ new.messages = view[v].messages \cup {t} /\ new.streaming /\ new.abort = t
  BY <1>1 DEF ViewState
<1>4. /\ begun \in TurnState /\ begun.pc = "streaming" /\ begun.view = v /\ begun.chat = chat
  BY DEF TurnState, View
<1> HIDE DEF new, begun
<1>5. /\ view'[v] = new /\ \A w \in View : w # v => view'[w] = view[w]
      /\ turn'[t] = begun /\ \A s \in Turn : s # t => turn'[s] = turn[s]
  BY <1>1, <1>2 DEF TypeOK
<1>6. TypeOK'
  BY <1>1, <1>2, <1>3, <1>4 DEF TypeOK
<1>7. ViewsAreMounted'
  <2>1. \A w \in View : view'[w].load = view[w].load /\ view'[w].page = view[w].page /\ view'[w].chat = view[w].chat
    BY <1>3, <1>5
  <2>2. QED
    BY <1>1, <1>4, <1>5, <2>1 DEF ViewInv, ViewsAreMounted
<1>8. MessagesAreOfThePage'
  <2>1. view[v].page # NoChat => chat = view[v].page
    OBVIOUS
  <2>2. /\ \A w \in View : view[w].page # NoChat => t \notin view[w].messages \cup view[w].fetched
        /\ t \notin stored
    BY DEF ViewInv, MessagesAreOfThePage, Begun
  <2>3. \A w \in View : view[w].messages \cup view[w].fetched \subseteq Turn
    BY <1>1 DEF TypeOK, ViewState
  <2>4. QED
    BY <1>1, <1>3, <1>4, <1>5, <2>1, <2>2, <2>3 DEF ViewInv, TypeOK, MessagesAreOfThePage, Begun
<1>9. \A s \in Turn : s # t /\ Running(s)' => Running(s) /\ turn'[s] = turn[s]
  BY <1>5 DEF Running
<1>10. StopReachesTheStream'
  <2>1. ASSUME NEW s \in Turn, s # t, Running(s), turn[s].view = v, view[v].page # NoChat
        PROVE  FALSE
    BY <2>1 DEF ViewInv, StopReachesTheStream
  <2>2. \A s \in Turn : Running(s) => turn[s].view \in View
    BY DEF ViewInv, ViewsAreMounted, Running
  <2>3. QED
    BY <1>3, <1>4, <1>5, <1>9, <2>1, <2>2 DEF ViewInv, StopReachesTheStream
<1>11. StopIsLive'
  BY <1>3, <1>4, <1>5 DEF ViewInv, StopIsLive, Running
<1>12. AbortIsOwn'
  <2>1. \A w \in View : view[w].abort # t
    BY DEF ViewInv, AbortIsOwn, Begun
  <2>2. QED
    BY <1>3, <1>4, <1>5, <2>1 DEF ViewInv, AbortIsOwn, Begun
<1>13. OneStream'
  <2> SUFFICES ASSUME OnlyChatPages' PROVE (\A s, u \in Turn : Running(s)' /\ Running(u)' => s = u) /\ Said'
    BY DEF OneStream
  <2>1. OnlyChatPages /\ view[v].page # NoChat
    BY <1>3, <1>5 DEF OnlyChatPages
  <2>2. \A s \in Turn : ~Running(s)
    BY <1>1, <2>1 DEF ViewInv, OneStream, Said
  <2>3. QED
    BY <1>1, <1>3, <1>5, <1>9, <2>1, <2>2 DEF Said
<1>14. QED
  BY <1>6, <1>7, <1>8, <1>10, <1>11, <1>12, <1>13 DEF ViewInv

\* A turn that has not begun, or has ended, is in nobody's way: it may become another
\* that has not begun.
LEMMA TurnOutsideKeeps ==
  ASSUME ViewInv, NEW t \in Turn, NEW new \in TurnState, turn' = [turn EXCEPT ![t] = new],
         turn[t].pc \notin Begun, new.pc \in {"idle", "creating"},
         new.pc # "idle" => new.view \in View /\ view[new.view].load # "unused" /\ view[new.view].page = NoChat,
         UNCHANGED <<activeChatStreaming, mounted, view, chats, stored>>
  PROVE  ViewInv'
<1>1. TypeOK /\ turn'[t] = new /\ \A s \in Turn : s # t => turn'[s] = turn[s]
  BY DEF ViewInv, TypeOK
<1>2. TypeOK'
  BY <1>1 DEF TypeOK
<1>3. \A s \in Turn : Running(s)' <=> Running(s) /\ s # t
  BY <1>1 DEF Running, Begun
<1>4. ViewsAreMounted'
  BY <1>1 DEF ViewInv, ViewsAreMounted, Begun
<1>5. MessagesAreOfThePage'
  <2>1. \A v \in View : view[v].messages \cup view[v].fetched \subseteq Turn
    BY <1>1 DEF TypeOK, ViewState
  <2>2. stored \subseteq Turn
    BY <1>1 DEF TypeOK
  <2>3. QED
    BY <1>1, <2>1, <2>2 DEF ViewInv, MessagesAreOfThePage
<1>6. StopReachesTheStream'
  BY <1>1, <1>3 DEF ViewInv, StopReachesTheStream
<1>7. StopIsLive'
  BY <1>1, <1>3 DEF ViewInv, StopIsLive, Running, Begun
<1>8. AbortIsOwn'
  BY <1>1 DEF ViewInv, AbortIsOwn
<1>9. OneStream'
  BY <1>3 DEF ViewInv, OneStream, OnlyChatPages, Said
<1>10. QED
  BY <1>2, <1>4, <1>5, <1>6, <1>7, <1>8, <1>9 DEF ViewInv

\* A click on Send or Regenerate.
LEMMA BeginKeeps ==
  ASSUME ViewInv, NEW t \in Turn, Begin(t)
  PROVE  ViewInv'
<1>1. /\ mounted \in View /\ view[mounted] \in ViewState /\ turn[t].pc = "idle"
      /\ view[mounted].load # "unused" /\ ~view[mounted].streaming
      /\ UNCHANGED <<activeChatStreaming, mounted, chats, stored>>
  BY MountedView DEF ViewInv, TypeOK, ViewsAreMounted, Begin
<1>2. view[mounted].page # NoChat => view[mounted].chat = view[mounted].page
  BY <1>1, MountedView DEF ViewInv, ViewsAreMounted
<1>3. CASE view[mounted].chat # NoChat
  <2>1. StartStream(t, mounted, view[mounted].chat) /\ view[mounted].chat \in Chat
    BY <1>1, <1>3 DEF Begin, ViewState
  <2>2. QED
    BY <1>1, <1>2, <2>1, StartStreamKeeps
<1>4. CASE view[mounted].chat = NoChat
  <2> DEFINE new == [Unsent EXCEPT !.pc = "creating", !.view = mounted]
  <2>1. turn' = [turn EXCEPT ![t] = new] /\ view' = view
    BY <1>4 DEF Begin
  <2>2. Unsent \in TurnState
    BY ViewAssumption DEF Unsent, TurnState
  <2>3. view[mounted].page = NoChat
    BY <1>2, <1>4
  <2>4. new \in TurnState /\ new.pc = "creating" /\ new.view = mounted
    <3>1. mounted \in 0..MaxViews
      BY DEF ViewInv, TypeOK
    <3>2. QED
      BY <2>2, <3>1 DEF new, TurnState
  <2>5. QED
    BY <1>1, <2>1, <2>3, <2>4, TurnOutsideKeeps DEF Begun
<1>5. QED
  BY <1>3, <1>4

\* The server has made the chat of a New chat page.
LEMMA CreateReturnsKeeps ==
  ASSUME ViewInv, NEW t \in Turn, CreateReturns(t)
  PROVE  ViewInv'
<1> DEFINE v == turn[t].view
<1>1. PICK chat \in Chat \ chats :
        /\ chats' = chats \cup {chat}
        /\ view' = [view EXCEPT ![turn[t].view].chat = chat]
        /\ turn' = [turn EXCEPT ![t].pc = "listing", ![t].chat = chat]
  BY DEF CreateReturns
<1>2. /\ TypeOK /\ turn[t].pc = "creating" /\ v \in View /\ view[v].load # "unused"
      /\ view[v].page = NoChat /\ turn[t] \in TurnState /\ view[v] \in ViewState
      /\ UNCHANGED <<activeChatStreaming, mounted, stored>>
  BY DEF ViewInv, TypeOK, ViewsAreMounted, CreateReturns
<1> DEFINE new == [turn[t] EXCEPT !.pc = "listing", !.chat = chat]
           told == [view[v] EXCEPT !.chat = chat]
<1>3. turn' = [turn EXCEPT ![t] = new] /\ view' = [view EXCEPT ![v] = told]
  BY <1>1, <1>2 DEF TypeOK
<1>4. new \in TurnState /\ new.pc = "listing" /\ new.view = v /\ new.chat \in Chat
  BY <1>2 DEF TurnState
<1>5. /\ told \in ViewState /\ told.load = view[v].load /\ told.page = NoChat
      /\ told.messages = view[v].messages /\ told.fetched = view[v].fetched
      /\ told.streaming = view[v].streaming /\ told.stop = view[v].stop /\ told.abort = view[v].abort
  BY <1>2 DEF ViewState
<1> HIDE DEF new, told, v
<1>6. /\ view'[v] = told /\ \A w \in View : w # v => view'[w] = view[w]
      /\ turn'[t] = new /\ \A s \in Turn : s # t => turn'[s] = turn[s]
  BY <1>2, <1>3 DEF TypeOK
<1>7. TypeOK'
  <2>1. view' \in [View -> ViewState] /\ turn' \in [Turn -> TurnState]
    BY <1>2, <1>3, <1>4, <1>5 DEF TypeOK
  <2>2. chats' \subseteq Chat
    BY <1>1, <1>2 DEF TypeOK
  <2>3. QED
    BY <1>2, <2>1, <2>2 DEF TypeOK
<1>8. \A s \in Turn : (Running(s)' <=> Running(s)) /\ (Running(s) => s # t)
  BY <1>2, <1>4, <1>6 DEF Running
<1>9. \A w \in View : /\ view'[w].load = view[w].load /\ view'[w].page = view[w].page
                      /\ view'[w].messages = view[w].messages /\ view'[w].fetched = view[w].fetched
                      /\ view'[w].streaming = view[w].streaming /\ view'[w].stop = view[w].stop
                      /\ view'[w].abort = view[w].abort
                      /\ w # v => view'[w].chat = view[w].chat
  BY <1>2, <1>5, <1>6
<1>10. ViewsAreMounted'
  BY <1>2, <1>4, <1>6, <1>9, MountedView DEF ViewInv, ViewsAreMounted
<1>11. MessagesAreOfThePage'
  <2>1. \A w \in View : view[w].messages \cup view[w].fetched \subseteq Turn
    BY <1>2 DEF TypeOK, ViewState
  <2>2. \A s \in stored : s \in Turn /\ s # t
    BY <1>2 DEF ViewInv, TypeOK, MessagesAreOfThePage, Begun
  <2>3. \A w \in View : view[w].page # NoChat => t \notin view[w].messages \cup view[w].fetched
    BY <1>2 DEF ViewInv, MessagesAreOfThePage, Begun
  <2>4. QED
    BY <1>2, <1>6, <1>9, <2>1, <2>2, <2>3 DEF ViewInv, MessagesAreOfThePage
<1>12. StopReachesTheStream'
  <2>1. \A s \in Turn : Running(s) => turn[s].view \in View
    BY DEF ViewInv, ViewsAreMounted, Running
  <2>2. QED
    BY <1>6, <1>8, <1>9, <2>1 DEF ViewInv, StopReachesTheStream
<1>13. StopIsLive'
  BY <1>8, <1>9 DEF ViewInv, StopIsLive
<1>14. AbortIsOwn'
  BY <1>2, <1>6, <1>9 DEF ViewInv, AbortIsOwn, Begun
<1>15. OneStream'
  BY <1>2, <1>8, <1>9, MountedView DEF ViewInv, OneStream, OnlyChatPages, Said
<1>16. QED
  BY <1>7, <1>10, <1>11, <1>12, <1>13, <1>14, <1>15 DEF ViewInv

\* The list has come: the stream of the New chat page begins.
LEMMA ListReturnsKeeps ==
  ASSUME ViewInv, NEW t \in Turn, ListReturns(t)
  PROVE  ViewInv'
<1>1. /\ turn[t].pc = "listing" /\ turn[t].view \in View /\ view[turn[t].view].load # "unused"
      /\ view[turn[t].view].page = NoChat /\ turn[t].chat \in Chat /\ StartStream(t, turn[t].view, turn[t].chat)
      /\ UNCHANGED <<activeChatStreaming, mounted, chats, stored>>
  BY DEF ViewInv, ViewsAreMounted, ListReturns
<1>2. QED
  BY <1>1, StartStreamKeeps

\* The text stays in the composer.
LEMMA EnsureFailsKeeps ==
  ASSUME ViewInv, NEW t \in Turn, EnsureFails(t)
  PROVE  ViewInv'
<1>1. Unsent \in TurnState /\ Unsent.pc = "idle"
  BY ViewAssumption DEF Unsent, TurnState
<1>2. QED
  BY <1>1, TurnOutsideKeeps DEF EnsureFails, Begun

\* All turns stay as they are but t, which is over if it ran.
TurnsGoOnBut(t) ==
  /\ turn' \in [Turn -> TurnState]
  /\ \A s \in Turn : /\ turn'[s].view = turn[s].view /\ turn'[s].chat = turn[s].chat
                     /\ turn'[s].pc = turn[s].pc \/ (Running(s) /\ turn'[s].pc \in Begun)
                     /\ Running(s)' <=> Running(s) /\ s # t

\* Ending a turn, if it runs.
LEMMA TurnIsOver ==
  ASSUME TypeOK, NEW t \in Turn \cup {NoTurn}, NEW pc \in {"done", "cut"},
         turn' = [s \in Turn |-> IF s = t /\ Running(s) THEN [turn[s] EXCEPT !.pc = pc] ELSE turn[s]]
  PROVE  TurnsGoOnBut(t)
<1>1. ASSUME NEW s \in Turn
      PROVE  /\ turn'[s] \in TurnState
             /\ turn'[s].view = turn[s].view /\ turn'[s].chat = turn[s].chat
             /\ turn'[s].pc = turn[s].pc \/ (Running(s) /\ turn'[s].pc \in Begun)
             /\ Running(s)' <=> Running(s) /\ s # t
  <2>1. turn[s] \in TurnState
    BY DEF TypeOK
  <2>2. CASE s = t /\ Running(s)
    <3>1. turn'[s] = [turn[s] EXCEPT !.pc = pc]
      BY <2>2
    <3>2. turn'[s] \in TurnState /\ turn'[s].pc = pc /\ turn'[s].view = turn[s].view
          /\ turn'[s].chat = turn[s].chat
      BY <2>1, <3>1 DEF TurnState
    <3>3. QED
      BY <2>2, <3>2 DEF Running, Begun
  <2>3. CASE ~(s = t /\ Running(s))
    <3>1. turn'[s] = turn[s]
      BY <2>3
    <3>2. QED
      BY <2>1, <2>3, <3>1 DEF Running
  <2>4. QED
    BY <2>2, <2>3
<1>2. turn' \in [Turn -> TurnState]
  BY <1>1
<1>3. QED
  BY <1>1, <1>2 DEF TurnsGoOnBut

\* A view stops streaming.
ViewStops(v, abort) ==
  view' = [view EXCEPT ![v].streaming = FALSE, ![v].stop = FALSE, ![v].abort = abort]

\* What the end of a stream, and the stop button, do to a view v and to at most one turn
\* t of it: on a chat page t is the one that ran.
LEMMA StreamOverKeeps ==
  ASSUME ViewInv, NEW v \in View, NEW abort \in {NoTurn, view[v].abort}, NEW t \in Turn \cup {NoTurn},
         t \in Turn => turn[t].view = v, TurnsGoOnBut(t),
         ViewStops(v, abort),
         activeChatStreaming' = FALSE, UNCHANGED <<mounted, chats, stored>>,
         view[v].page # NoChat => \A s \in Turn : Running(s) /\ turn[s].view = v => s = t,
         OnlyChatPages => \A s \in Turn : Running(s) => s = t
  PROVE  ViewInv'
<1> DEFINE over == [view[v] EXCEPT !.streaming = FALSE, !.stop = FALSE, !.abort = abort]
<1>1. TypeOK /\ view[v] \in ViewState
  BY DEF ViewInv, TypeOK
<1>2. view' = [view EXCEPT ![v] = over]
  BY <1>1 DEF TypeOK, ViewStops
<1>3. /\ over \in ViewState /\ over.load = view[v].load /\ over.page = view[v].page
      /\ over.chat = view[v].chat /\ over.messages = view[v].messages /\ over.fetched = view[v].fetched
      /\ ~over.stop /\ over.abort = abort
  BY <1>1 DEF ViewState
<1> HIDE DEF over
<1>4. view'[v] = over /\ \A w \in View : w # v => view'[w] = view[w]
  BY <1>1, <1>2 DEF TypeOK
<1>5. /\ turn' \in [Turn -> TurnState]
      /\ \A s \in Turn : /\ turn'[s].view = turn[s].view /\ turn'[s].chat = turn[s].chat
                         /\ turn'[s].pc = turn[s].pc \/ (Running(s) /\ turn'[s].pc \in Begun)
                         /\ Running(s)' <=> Running(s) /\ s # t
  BY DEF TurnsGoOnBut
<1>6. TypeOK'
  <2>1. view' \in [View -> ViewState]
    BY <1>1, <1>2, <1>3 DEF TypeOK
  <2>2. turn' \in [Turn -> TurnState]
    BY <1>5
  <2>3. activeChatStreaming' \in BOOLEAN
    OBVIOUS
  <2>4. mounted' \in 0..MaxViews /\ chats' \subseteq Chat /\ stored' \subseteq Turn
    BY <1>1 DEF TypeOK
  <2>5. QED
    BY <2>1, <2>2, <2>3, <2>4 DEF TypeOK
<1>7. \A w \in View : /\ view'[w].load = view[w].load /\ view'[w].page = view[w].page
                      /\ view'[w].chat = view[w].chat /\ view'[w].messages = view[w].messages
                      /\ view'[w].fetched = view[w].fetched
  BY <1>3, <1>4
<1>8. \A s \in Turn : Running(s) => turn[s].view \in View
  BY DEF ViewInv, ViewsAreMounted, Running
<1>9. ViewsAreMounted'
  <2>1. \A s \in Turn : /\ turn'[s].pc # "idle" => turn[s].pc # "idle"
                        /\ turn'[s].pc \in {"creating", "listing"} => turn'[s].pc = turn[s].pc
    BY <1>5 DEF Running, Begun
  <2>2. QED
    BY <1>1, <1>5, <1>7, <2>1, MountedView DEF ViewInv, ViewsAreMounted
<1>10. MessagesAreOfThePage'
  <2>1. \A w \in View : view[w].messages \cup view[w].fetched \subseteq Turn
    BY <1>1 DEF TypeOK, ViewState
  <2>2. \A s \in Turn : turn[s].pc \in Begun => turn'[s].pc \in Begun
    BY <1>5
  <2>3. stored \subseteq Turn
    BY <1>1 DEF TypeOK
  <2>4. QED
    BY <1>5, <1>7, <2>1, <2>2, <2>3 DEF ViewInv, MessagesAreOfThePage
<1>11. StopReachesTheStream'
  BY <1>3, <1>4, <1>5, <1>8 DEF ViewInv, StopReachesTheStream
<1>12. StopIsLive'
  <2> SUFFICES ASSUME NEW w \in View, view'[w].page # NoChat, view'[w].stop
               PROVE  view'[w].abort \in Turn /\ Running(view[w].abort)'
    BY DEF StopIsLive
  <2>1. w # v /\ view'[w] = view[w]
    BY <1>3, <1>4
  <2>2. view[w].abort \in Turn /\ Running(view[w].abort)
    BY <2>1 DEF ViewInv, StopIsLive
  <2>3. turn[view[w].abort].view = w
    BY <2>2 DEF ViewInv, AbortIsOwn
  <2>4. QED
    BY <1>5, <2>1, <2>2, <2>3
<1>13. AbortIsOwn'
  <2>1. \A w \in View : view'[w].abort \in Turn => view'[w].abort = view[w].abort
    BY <1>3, <1>4, ViewAssumption
  <2>2. QED
    BY <1>5, <2>1 DEF ViewInv, AbortIsOwn
<1>14. OneStream'
  BY <1>5, <1>7 DEF ViewInv, OneStream, OnlyChatPages
<1>15. QED
  BY <1>6, <1>9, <1>10, <1>11, <1>12, <1>13, <1>14 DEF ViewInv

\* A stream that ends stops its view.
LEMMA StreamEndsKeeps ==
  ASSUME ViewInv, NEW t \in Turn, StreamEnds(t)
  PROVE  ViewInv'
<1> DEFINE v == turn[t].view
<1>1. PICK pc \in {"done", "cut"} : turn' = [turn EXCEPT ![t].pc = pc]
  BY DEF StreamEnds
<1>2. /\ TypeOK /\ Running(t) /\ v \in View /\ activeChatStreaming' = FALSE
      /\ view' = [view EXCEPT ![v].streaming = FALSE, ![v].stop = FALSE]
      /\ UNCHANGED <<mounted, chats, stored>>
  BY DEF ViewInv, StreamEnds, ViewsAreMounted, Running
<1>3. TurnsGoOnBut(t)
  <2>1. turn' = [s \in Turn |-> IF s = t /\ Running(s) THEN [turn[s] EXCEPT !.pc = pc] ELSE turn[s]]
    BY <1>1, <1>2 DEF TypeOK
  <2>2. QED
    BY <1>2, <2>1, TurnIsOver
<1>4. ViewStops(v, view[v].abort)
  <2>1. view[v] \in ViewState /\ view \in [View -> ViewState]
    BY <1>2 DEF TypeOK
  <2>2. [view[v] EXCEPT !.streaming = FALSE, !.stop = FALSE]
          = [view[v] EXCEPT !.streaming = FALSE, !.stop = FALSE, !.abort = view[v].abort]
    BY <2>1 DEF ViewState
  <2>3. QED
    BY <1>2, <2>1, <2>2 DEF ViewStops
<1>5. view[v].page # NoChat => \A s \in Turn : Running(s) /\ turn[s].view = v => s = t
  BY <1>2 DEF ViewInv, StopReachesTheStream
<1>6. OnlyChatPages => \A s \in Turn : Running(s) => s = t
  BY <1>2 DEF ViewInv, OneStream
<1> HIDE DEF v
<1>7. QED
  BY <1>2, <1>3, <1>4, <1>5, <1>6, StreamOverKeeps DEF v

\* The stop button ends the stream of its view.
LEMMA StopKeeps ==
  ASSUME ViewInv, Stop
  PROVE  ViewInv'
<1> DEFINE v == mounted
           t == view[v].abort
<1>1. /\ TypeOK /\ v \in View /\ view[v].stop /\ view[v].load # "unused" /\ t \in Turn \cup {NoTurn}
      /\ activeChatStreaming' = FALSE /\ UNCHANGED <<mounted, chats, stored>>
  BY MountedView DEF ViewInv, TypeOK, ViewState, ViewsAreMounted, Stop
<1>2. TurnsGoOnBut(t)
  <2>1. turn' = [s \in Turn |-> IF s = t /\ Running(s) THEN [turn[s] EXCEPT !.pc = "cut"] ELSE turn[s]]
    BY DEF Stop
  <2>2. QED
    BY <1>1, <2>1, TurnIsOver
<1>3. ViewStops(v, NoTurn)
  BY DEF Stop, ViewStops
<1>4. t \in Turn => turn[t].view = v
  BY <1>1 DEF ViewInv, AbortIsOwn
<1>5. view[v].page # NoChat => \A s \in Turn : Running(s) /\ turn[s].view = v => s = t
  BY DEF ViewInv, StopReachesTheStream
<1>6. OnlyChatPages => \A s \in Turn : Running(s) => s = t
  <2>1. OnlyChatPages => view[v].page # NoChat
    BY <1>1 DEF OnlyChatPages
  <2>2. view[v].page # NoChat => t \in Turn /\ Running(t)
    BY <1>1 DEF ViewInv, StopIsLive
  <2>3. QED
    BY <2>1, <2>2 DEF ViewInv, OneStream
<1> HIDE DEF t
<1>7. QED
  BY <1>1, <1>2, <1>3, <1>4, <1>5, <1>6, StreamOverKeeps

\* What the server has stored has begun.
LEMMA ServerStoresKeeps ==
  ASSUME ViewInv, NEW t \in Turn, ServerStores(t)
  PROVE  ViewInv'
<1>1. /\ TypeOK /\ turn[t].pc \in Begun /\ stored' = stored \cup {t}
      /\ UNCHANGED <<activeChatStreaming, mounted, view, turn, chats>>
  BY DEF ViewInv, ServerStores, Begun
<1>2. TypeOK'
  BY <1>1 DEF TypeOK
<1>3. ViewsAreMounted' /\ MessagesAreOfThePage'
  BY <1>1 DEF ViewInv, ViewsAreMounted, MessagesAreOfThePage
<1>4. StopReachesTheStream' /\ StopIsLive' /\ AbortIsOwn' /\ OneStream'
  BY <1>1 DEF ViewInv, StopReachesTheStream, StopIsLive, AbortIsOwn, OneStream, OnlyChatPages, Said, Running
<1>5. QED
  BY <1>2, <1>3, <1>4 DEF ViewInv
-----------------------------------------------------------------------------
(* mount and unmount *)

\* A view that is unmounted keeps all but its route and its button.
LEMMA UnmountedViews ==
  ASSUME TypeOK
  PROVE  /\ Unmounted \in [View -> ViewState]
         /\ \A w \in View :
              /\ Unmounted[w].load = view[w].load /\ Unmounted[w].page = view[w].page
              /\ Unmounted[w].messages = view[w].messages /\ Unmounted[w].fetched = view[w].fetched
              /\ Unmounted[w].streaming = view[w].streaming /\ Unmounted[w].abort = view[w].abort
              /\ Unmounted[w].stop => view[w].stop
<1> DEFINE left == [view[mounted] EXCEPT !.chat = NoChat, !.stop = FALSE]
<1>1. \A w \in View : view[w] \in ViewState
  BY DEF TypeOK
<1>2. \A w \in View : Unmounted[w] = IF w = mounted THEN left ELSE view[w]
  BY DEF Unmounted
<1>3. mounted \in View =>
        /\ left \in ViewState /\ left.load = view[mounted].load /\ left.page = view[mounted].page
        /\ left.messages = view[mounted].messages /\ left.fetched = view[mounted].fetched
        /\ left.streaming = view[mounted].streaming /\ left.abort = view[mounted].abort /\ ~left.stop
  BY <1>1 DEF ViewState
<1> HIDE DEF left
<1>4. Unmounted = [w \in View |-> Unmounted[w]]
  BY DEF Unmounted
<1>5. QED
  BY <1>1, <1>2, <1>3, <1>4

\* A page without a chat takes the screen.
LEMMA NavigateElsewhereKeeps ==
  ASSUME ViewInv, NavigateElsewhere
  PROVE  ViewInv'
<1>1. /\ TypeOK /\ mounted # 0 /\ mounted \in View /\ activeChatStreaming' = view[mounted].streaming
      /\ view' = Unmounted /\ mounted' = 0 /\ UNCHANGED <<turn, chats, stored>>
  BY MountedView DEF ViewInv, NavigateElsewhere, StreamingAfterUnmount
<1>2. /\ view' \in [View -> ViewState]
      /\ \A w \in View :
           /\ view'[w].load = view[w].load /\ view'[w].page = view[w].page
           /\ view'[w].messages = view[w].messages /\ view'[w].fetched = view[w].fetched
           /\ view'[w].streaming = view[w].streaming /\ view'[w].abort = view[w].abort
           /\ view'[w].stop => view[w].stop
  BY <1>1, UnmountedViews
<1>3. view[mounted].streaming \in BOOLEAN
  BY <1>1 DEF TypeOK, ViewState
<1>4. TypeOK'
  BY <1>1, <1>2, <1>3, ViewAssumption DEF TypeOK
<1>5. ViewsAreMounted' /\ MessagesAreOfThePage'
  BY <1>1, <1>2 DEF ViewInv, ViewsAreMounted, MessagesAreOfThePage
<1>6. StopReachesTheStream'
  <2>1. \A t \in Turn : Running(t) => turn[t].view \in View
    BY DEF ViewInv, ViewsAreMounted, Running
  <2>2. QED
    BY <1>1, <1>2, <2>1 DEF ViewInv, StopReachesTheStream, Running
<1>7. StopIsLive' /\ AbortIsOwn'
  BY <1>1, <1>2 DEF ViewInv, StopIsLive, AbortIsOwn, Running
<1>8. OneStream'
  BY <1>1, <1>2 DEF ViewInv, OneStream, OnlyChatPages, Said, Running
<1>9. QED
  BY <1>4, <1>5, <1>6, <1>7, <1>8 DEF ViewInv

\* A new view takes the screen, and is told whether the one before it was streaming.
LEMMA MountKeeps ==
  ASSUME ViewInv, NEW page \in Page, Mount(page)
  PROVE  ViewInv'
<1>1. /\ TypeOK /\ activeChatStreaming' = Said /\ UNCHANGED <<turn, chats, stored>>
  BY DEF ViewInv, Mount, StreamingAfterUnmount, Said
<1> DEFINE new == [Unused EXCEPT !.load = "roster", !.page = page, !.chat = page,
                                 !.streaming = StreamingAfterUnmount]
<1>2. PICK v \in View : /\ view[v].load = "unused" /\ mounted' = v
                        /\ view' = [Unmounted EXCEPT ![v] = new]
  BY DEF Mount
<1>3. Said \in BOOLEAN
  BY <1>1, MountedView DEF TypeOK, ViewState, Said
<1>4. /\ new \in ViewState /\ new.load = "roster" /\ new.page = page /\ new.chat = page
      /\ new.messages = {} /\ new.fetched = {} /\ new.streaming = Said /\ ~new.stop
      /\ new.abort = NoTurn
  <2>1. /\ Unused \in ViewState /\ Unused.messages = {} /\ Unused.fetched = {} /\ ~Unused.stop
        /\ Unused.abort = NoTurn
    BY DEF Unused, ViewState
  <2>2. StreamingAfterUnmount = Said
    BY DEF StreamingAfterUnmount, Said
  <2>3. QED
    BY <1>3, <2>1, <2>2, ViewAssumption DEF ViewState
<1> HIDE DEF new
<1>5. /\ Unmounted \in [View -> ViewState]
      /\ \A w \in View : w # v =>
           /\ view'[w].load = view[w].load /\ view'[w].page = view[w].page
           /\ view'[w].messages = view[w].messages /\ view'[w].fetched = view[w].fetched
           /\ view'[w].streaming = view[w].streaming /\ view'[w].abort = view[w].abort
           /\ view'[w].stop => view[w].stop
      /\ view'[v] = new
  BY <1>1, <1>2, UnmountedViews
<1>6. TypeOK'
  <2>1. view' \in [View -> ViewState]
    BY <1>2, <1>4, <1>5
  <2>2. v \in 0..MaxViews
    BY ViewAssumption DEF View
  <2>3. QED
    BY <1>1, <1>2, <1>3, <2>1, <2>2 DEF TypeOK
<1>7. \A t \in Turn : turn[t].pc # "idle" => turn[t].view \in View /\ turn[t].view # v
  BY <1>2 DEF ViewInv, ViewsAreMounted
<1>8. ViewsAreMounted'
  BY <1>1, <1>2, <1>4, <1>5, <1>7 DEF ViewInv, ViewsAreMounted
<1>9. MessagesAreOfThePage'
  BY <1>1, <1>4, <1>5 DEF ViewInv, MessagesAreOfThePage
<1>10. StopReachesTheStream'
  BY <1>1, <1>5, <1>7 DEF ViewInv, StopReachesTheStream, Running
<1>11. StopIsLive' /\ AbortIsOwn'
  BY <1>1, <1>4, <1>5, ViewAssumption DEF ViewInv, StopIsLive, AbortIsOwn, Running
<1>12. OneStream'
  <2>1. OnlyChatPages' => OnlyChatPages
    BY <1>2, <1>5 DEF OnlyChatPages
  <2>2. Said' = Said
    BY <1>2, <1>4, <1>5, MountedView, <1>1 DEF Said
  <2>3. QED
    BY <1>1, <2>1, <2>2 DEF ViewInv, OneStream, Running
<1>13. QED
  BY <1>6, <1>8, <1>9, <1>10, <1>11, <1>12 DEF ViewInv

\* A mounted view goes on loading: what it shows and has been sent stays of its chat.
LEMMA LoadingKeeps ==
  ASSUME ViewInv, NEW v \in View, NEW new \in ViewState, view' = [view EXCEPT ![v] = new],
         view[v].load # "unused", new.load # "unused", new.page = view[v].page,
         new.chat = view[v].chat, new.streaming = view[v].streaming, new.stop = view[v].stop,
         new.abort = view[v].abort,
         view[v].page # NoChat => \A t \in new.messages \cup new.fetched :
           turn[t].chat = view[v].page /\ turn[t].pc \in Begun,
         UNCHANGED <<activeChatStreaming, mounted, turn, chats, stored>>
  PROVE  ViewInv'
<1>1. TypeOK /\ view'[v] = new /\ \A w \in View : w # v => view'[w] = view[w]
  BY DEF ViewInv, TypeOK
<1>2. TypeOK'
  BY <1>1 DEF TypeOK
<1>3. \A w \in View : /\ view'[w].load = "unused" <=> view[w].load = "unused"
                      /\ view'[w].page = view[w].page /\ view'[w].chat = view[w].chat
                      /\ view'[w].streaming = view[w].streaming /\ view'[w].stop = view[w].stop
                      /\ view'[w].abort = view[w].abort
  BY <1>1
<1>4. ViewsAreMounted'
  BY <1>1, <1>3, MountedView DEF ViewInv, ViewsAreMounted
<1>5. MessagesAreOfThePage'
  BY <1>1 DEF ViewInv, MessagesAreOfThePage
<1>6. StopReachesTheStream'
  <2>1. \A t \in Turn : Running(t) => turn[t].view \in View
    BY DEF ViewInv, ViewsAreMounted, Running
  <2>2. QED
    BY <1>3, <2>1 DEF ViewInv, StopReachesTheStream, Running
<1>7. StopIsLive' /\ AbortIsOwn'
  BY <1>3 DEF ViewInv, StopIsLive, AbortIsOwn, Running
<1>8. OneStream'
  BY <1>1, <1>3, MountedView DEF ViewInv, OneStream, OnlyChatPages, Said, Running
<1>9. QED
  BY <1>2, <1>4, <1>5, <1>6, <1>7, <1>8 DEF ViewInv

\* The steps of loading.
LEMMA HistoryKeeps ==
  ASSUME ViewInv, NEW v \in View,
         \/ RosterArrives(v) \/ ServeHistory(v) \/ HistoryArrives(v) \/ HistoryFails(v)
         \/ RetryHistory(v)
  PROVE  ViewInv'
<1>1. TypeOK /\ view[v] \in ViewState /\ stored \subseteq Turn
  BY DEF ViewInv, TypeOK
<1>2. view[v].page # NoChat =>
        \A t \in view[v].messages \cup view[v].fetched : turn[t].chat = view[v].page /\ turn[t].pc \in Begun
  BY DEF ViewInv, MessagesAreOfThePage
<1>3. CASE RosterArrives(v)
  <2> DEFINE new == [view[v] EXCEPT !.load = IF view[v].page = NoChat THEN "done" ELSE "request",
                                    !.messages = IF view[v].page = NoChat THEN {} ELSE @]
  <2>1. /\ view' = [view EXCEPT ![v] = new] /\ view[v].load # "unused"
        /\ UNCHANGED <<activeChatStreaming, mounted, turn, chats, stored>>
    BY <1>1, <1>3 DEF RosterArrives, TypeOK
  <2>2. /\ new \in ViewState /\ new.load # "unused" /\ new.page = view[v].page
        /\ new.chat = view[v].chat /\ new.streaming = view[v].streaming /\ new.stop = view[v].stop
        /\ new.abort = view[v].abort
        /\ new.messages \cup new.fetched \subseteq view[v].messages \cup view[v].fetched
    BY <1>1 DEF ViewState
  <2> HIDE DEF new
  <2>3. QED
    BY <1>2, <2>1, <2>2, LoadingKeeps
<1>4. CASE ServeHistory(v)
  <2> DEFINE page == {t \in stored : turn[t].chat = view[v].page}
             new == [view[v] EXCEPT !.load = "answer", !.fetched = page]
  <2>1. /\ view' = [view EXCEPT ![v] = new] /\ view[v].load # "unused"
        /\ UNCHANGED <<activeChatStreaming, mounted, turn, chats, stored>>
    BY <1>1, <1>4 DEF ServeHistory, TypeOK
  <2>2. \A t \in page : t \in Turn /\ turn[t].chat = view[v].page /\ turn[t].pc \in Begun
    BY <1>1 DEF ViewInv, MessagesAreOfThePage
  <2> HIDE DEF page
  <2>3. /\ new \in ViewState /\ new.load # "unused" /\ new.page = view[v].page
        /\ new.chat = view[v].chat /\ new.streaming = view[v].streaming /\ new.stop = view[v].stop
        /\ new.abort = view[v].abort /\ new.messages = view[v].messages /\ new.fetched = page
    BY <1>1, <2>2 DEF ViewState
  <2> HIDE DEF new
  <2>4. QED
    BY <1>2, <2>1, <2>2, <2>3, LoadingKeeps
<1>5. ASSUME NEW load \in {"request", "failed", "done"}, NEW messages \in {view[v].messages, view[v].fetched, {}},
             view[v].load # "unused",
             view' = [view EXCEPT ![v] = [view[v] EXCEPT !.load = load, !.messages = messages]],
             UNCHANGED <<activeChatStreaming, mounted, turn, chats, stored>>
      PROVE  ViewInv'
  <2> DEFINE new == [view[v] EXCEPT !.load = load, !.messages = messages]
  <2>1. /\ new \in ViewState /\ new.load # "unused" /\ new.page = view[v].page
        /\ new.chat = view[v].chat /\ new.streaming = view[v].streaming /\ new.stop = view[v].stop
        /\ new.abort = view[v].abort
        /\ new.messages \cup new.fetched \subseteq view[v].messages \cup view[v].fetched
    BY <1>1 DEF ViewState
  <2>2. view' = [view EXCEPT ![v] = new]
    BY <1>5
  <2> HIDE DEF new
  <2>3. QED
    BY <1>2, <1>5, <2>1, <2>2, LoadingKeeps
<1>6. CASE HistoryArrives(v)
  <2>1. view' = [view EXCEPT ![v] = [view[v] EXCEPT !.load = "done", !.messages = view[v].fetched]]
    BY <1>1, <1>6 DEF HistoryArrives, TypeOK
  <2>2. QED
    BY <1>5, <1>6, <2>1 DEF HistoryArrives
<1>7. CASE HistoryFails(v)
  <2>1. view' = [view EXCEPT ![v] = [view[v] EXCEPT !.load = "failed", !.messages = {}]]
    BY <1>1, <1>7 DEF HistoryFails, TypeOK
  <2>2. QED
    BY <1>5, <1>7, <2>1 DEF HistoryFails
<1>8. CASE RetryHistory(v)
  <2>1. [view[v] EXCEPT !.load = "request"] = [view[v] EXCEPT !.load = "request", !.messages = view[v].messages]
    BY <1>1 DEF ViewState
  <2>2. view' = [view EXCEPT ![v] = [view[v] EXCEPT !.load = "request", !.messages = view[v].messages]]
    BY <1>1, <1>8, <2>1 DEF RetryHistory, TypeOK
  <2>3. QED
    BY <1>5, <1>8, <2>2 DEF RetryHistory
<1>9. QED
  BY <1>3, <1>4, <1>6, <1>7, <1>8
-----------------------------------------------------------------------------
(* The theorems *)

\* Every step keeps ViewInv.
LEMMA NextView ==
  ASSUME ViewInv, [Next]_vars
  PROVE  ViewInv'
<1>1. CASE Next
  <2>1. ASSUME NEW t \in Turn,
               \/ Send(t) \/ Regenerate(t) \/ CreateReturns(t) \/ ListReturns(t) \/ EnsureFails(t)
               \/ StreamEnds(t) \/ ServerStores(t)
        PROVE  ViewInv'
    BY <2>1, BeginKeeps, CreateReturnsKeeps, ListReturnsKeeps, EnsureFailsKeeps, StreamEndsKeeps,
       ServerStoresKeeps DEF Send, Regenerate
  <2>2. QED
    BY <1>1, <2>1, StopKeeps, NavigateElsewhereKeeps, MountKeeps, HistoryKeeps DEF Next
<1>2. CASE UNCHANGED vars
  BY <1>2 DEF vars, ViewInv, TypeOK, ViewsAreMounted, MessagesAreOfThePage, StopReachesTheStream,
       StopIsLive, AbortIsOwn, OneStream, OnlyChatPages, Said, Running
<1>3. QED
  BY <1>1, <1>2

\* ViewInv is an invariant of the chat views.
THEOREM ViewInvariant == Spec => []ViewInv
<1>1. Init => ViewInv
  BY InitView
<1>2. ViewInv /\ [Next]_vars => ViewInv'
  BY NextView
<1>3. QED
  BY <1>1, <1>2, PTL DEF Spec

\* The views, their turns and the store have their types.
THEOREM TypeCorrect == Spec => []TypeOK
<1>1. ViewInv => TypeOK
  BY DEF ViewInv
<1>2. QED
  BY <1>1, ViewInvariant, PTL

\* In a view opened on a chat the stop button aborts whatever runs (send and the stop
\* button's handler of chat.ts).
THEOREM StopAlwaysReaches == Spec => []StopReachesTheStream
<1>1. ViewInv => StopReachesTheStream
  BY DEF ViewInv
<1>2. QED
  BY <1>1, ViewInvariant, PTL

\* A view opened on a chat shows that chat's messages and no other's, whatever answers
\* are late (loadHistory and the closures of chat.ts).
THEOREM ScreenAlwaysShowsItsChat == Spec => []ScreenShowsItsChat
<1>1. ASSUME ViewInv
      PROVE  ScreenShowsItsChat
  BY <1>1, MountedView DEF ViewInv, ScreenShowsItsChat, MessagesAreOfThePage
<1>2. QED
  BY <1>1, ViewInvariant, PTL

\* A user who stays off the New chat page never has two streams, not even by leaving a
\* chat whose stream goes on (unmount and mount of chat.ts, store.activeChatStreaming).
THEOREM OneStreamOnly == Spec => []OneStreamAtATime
<1>1. ViewInv => OneStreamAtATime
  BY DEF ViewInv, OneStream, OnlyChatPages, OneStreamAtATime
<1>2. QED
  BY <1>1, ViewInvariant, PTL
=============================================================================
