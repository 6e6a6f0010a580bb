--------------------------------- MODULE Shell ---------------------------------
(***************************************************************************)
(* The frame of the web client: the hash router (router.ts), the store     *)
(* (store.ts), the chat list and the navigation (app.ts), and what the     *)
(* chat view and its model picker share with them (chat.ts mount, unmount, *)
(* pickModel, ensureChat; composer.ts).  What the chat view does with      *)
(* messages and streams is ChatView.                                       *)
(*                                                                         *)
(* Every navigation makes a new view.  A view that has been left goes on   *)
(* with what it waits for: it has no page any more, but it still sets the  *)
(* store and the address.                                                  *)
(***************************************************************************)
EXTENDS Naturals, FiniteSets

CONSTANTS
  Chat,      \* chat ids
  Existing,  \* the chats there are at the start
  Pickable,  \* models that can be picked
  NoPick,    \* no override: the router decides
  NoChat,    \* no chat; the address #/
  Other,     \* the debug and the settings page
  MaxViews,  \* bound on the views at work at the same time
  MaxLists,  \* bound on the listChats requests in flight
  MaxPosts   \* bound on the setChatModel requests in flight

ASSUME ShellAssumption ==
  /\ Existing \subseteq Chat
  /\ NoPick \notin Pickable /\ NoChat \notin Chat /\ Other \notin Chat /\ Other # NoChat
  /\ MaxViews \in Nat \ {0} /\ MaxLists \in Nat /\ MaxPosts \in Nat

VARIABLES
  row,            \* server: the chats and their model_override
  chats,          \* of the store: its copy of the chat list
  activeChatId,   \* of the store
  modelOverride,  \* of the store: what is picked, and sent with the next message
  hash,           \* the address
  current,        \* the view on the screen; 0 before the first
  view,           \* the closures of the views at work
  newChat,        \* the "New chat" button: how far its request has come
  lists,          \* answers of listChats that are on their way
  posts,          \* setChatModel requests in flight
  disturbed       \* history: the user left a view that was not done, or used it before it
                  \* was, or the list that the New chat page needs has failed

shellVars == <<row, chats, activeChatId, modelOverride, hash, current, view, newChat, lists, posts, disturbed>>
-----------------------------------------------------------------------------
View == 1..MaxViews
Page == Chat \cup {NoChat, Other}
Override == Pickable \cup {NoPick}

\* A list of chats: some chats and their overrides.
Lists == UNION {[S -> Override] : S \in SUBSET Chat}
NoChats == [c \in {} |-> NoPick]

\* `page' is the route of the mount, `chat' the view's route now; `mount' and `ensure'
\* are how far these calls have come; `picked' is a history: what the user has picked on
\* this page, which a message of a new chat is to be sent with; `made' and
\* `pending' are what ensureChat holds.
ViewState ==
  [mount : {"none", "health", "list", "history", "done"}, page : Page, chat : Chat \cup {NoChat},
   ensure : {"none", "creating", "posting", "listing"}, label : Override, picked : Override,
   made : Chat \cup {NoChat}, pending : Override]
NoView == [mount |-> "none", page |-> NoChat, chat |-> NoChat, ensure |-> "none",
           label |-> NoPick, picked |-> NoPick, made |-> NoChat, pending |-> NoPick]

ViewBusy(s) == s.mount \notin {"none", "done"} \/ s.ensure # "none"
AtWork(v) == ViewBusy(view[v])
Free == {v \in View : v # current /\ view[v] = NoView /\ \A p \in posts : p.view # v}

\* What is kept of a view: nothing once it has been left and has no more to do.
Kept(v, s) == IF v = current \/ ViewBusy(s) THEN s ELSE NoView

\* A chat page can be used as soon as it is built, before its mount is done.
ChatBuilt == current # 0 /\ view[current].page # Other
ChatShown == ChatBuilt /\ view[current].mount = "done"
-----------------------------------------------------------------------------
(* The router *)

\* parseHash: the chat that an address names.
ChatOf(page) == IF page = Other THEN NoChat ELSE page

\* A chat view sets the store's chat as it is mounted, another page when it is done.
ActiveAtMount(page) == IF page = Other THEN activeChatId ELSE page

\* The mount of the new view up to its first await, and the view that was there unmounted.
Opened(page) ==
  [NoView EXCEPT !.mount = "health", !.page = page, !.label = modelOverride, !.chat = ChatOf(page)]
Left(s) == IF ViewBusy(s) THEN [s EXCEPT !.chat = NoChat, !.label = NoPick, !.picked = NoPick] ELSE NoView

Show(page) ==
  \E v \in Free :
    /\ \A w \in Free : v <= w
    /\ current' = v
    /\ view' = [w \in View |-> IF w = v THEN Opened(page)
                               ELSE IF w = current THEN Left(view[w]) ELSE view[w]]
    /\ hash' = page
    /\ activeChatId' = ActiveAtMount(page)
    /\ disturbed' = (\E w \in View : AtWork(w))

Navigate(page) ==
  /\ page \in DOMAIN chats \cup DOMAIN row \cup {NoChat, Other}
  /\ Show(page)
  /\ UNCHANGED <<row, chats, modelOverride, newChat, lists, posts>>

\* The server answers a listChats; the answer may be overtaken by a later one.
AskList == Cardinality(lists) < MaxLists /\ lists' = lists \cup {row}

\* mount has returned: onRoute, with the route the view was mounted with.  A debug page
\* that was left while it was mounting throws instead (DebugView).
Routed(v, store) ==
  \/ /\ store' = ChatOf(view[v].page)
     /\ AskList
  \/ /\ v # current /\ view[v].page = Other
     /\ UNCHANGED <<store, lists>>

ListArrives(list) ==
  /\ list \in lists
  /\ chats' = list
  /\ lists' = lists \ {list}
  /\ UNCHANGED <<row, activeChatId, modelOverride, hash, current, view, newChat, posts, disturbed>>

ListFails(list) ==
  /\ list \in lists
  /\ lists' = lists \ {list}
  /\ UNCHANGED <<row, chats, activeChatId, modelOverride, hash, current, view, newChat, posts, disturbed>>

\* The timers of refreshChatsSoon, after a stream.
RefreshSoon ==
  /\ AskList
  /\ UNCHANGED <<row, chats, activeChatId, modelOverride, hash, current, view, newChat, posts, disturbed>>
-----------------------------------------------------------------------------
(* mount of the chat view *)

OverrideIn(list, c) == IF c \in DOMAIN list THEN list[c] ELSE NoPick

\* Mutant: the picker's label is left as the page was built.
LabelKept(v, override) == view[v].label

\* A view that has been left has no label to write to.
LabelNow(v, override) == IF v = current THEN override ELSE view[v].label

\* The picker takes the chat's override from the list.
Hydrate(v, list) ==
  LET override == OverrideIn(list, view[v].page)
  IN /\ modelOverride' = override
     /\ view' = [view EXCEPT ![v].mount = "history", ![v].label = LabelNow(v, override)]

\* Mutant: the New chat page keeps what was picked for the chat before.
OverrideKept(page) == modelOverride

\* The New chat page starts without a pick.
OverrideAtMount(page) == IF page = NoChat THEN NoPick ELSE modelOverride

\* refreshHealthModels, or the requests of another page, have answered or failed: the end
\* of the mount of a page that is no chat, and of the New chat page.
HealthArrives(v) ==
  /\ view[v].mount = "health"
  /\ IF view[v].page \in {NoChat, Other}
       THEN /\ modelOverride' = OverrideAtMount(view[v].page)
            /\ view' = [view EXCEPT ![v] = Kept(v, [@ EXCEPT !.mount = "done"])]
            /\ Routed(v, activeChatId)
       ELSE /\ IF chats = NoChats
                 THEN view' = [view EXCEPT ![v].mount = "list"] /\ UNCHANGED modelOverride
                 ELSE Hydrate(v, chats)
            /\ UNCHANGED <<activeChatId, lists>>
  /\ UNCHANGED <<row, chats, hash, current, newChat, posts, disturbed>>

\* The store had no list: the view asked for one itself.
MountListArrives(v) ==
  /\ view[v].mount = "list"
  /\ \E list \in {row, NoChats} :
       /\ Hydrate(v, list)
       /\ chats' = IF chats = NoChats THEN list ELSE chats
  /\ UNCHANGED <<row, activeChatId, hash, current, newChat, lists, posts, disturbed>>

HistoryArrives(v) ==
  /\ view[v].mount = "history"
  /\ view' = [view EXCEPT ![v] = Kept(v, [@ EXCEPT !.mount = "done"])]
  /\ Routed(v, activeChatId)
  /\ UNCHANGED <<row, chats, modelOverride, hash, current, newChat, posts, disturbed>>
-----------------------------------------------------------------------------
(* The model picker *)

\* applyModelPick: the store at once, the chat's row when the request arrives.
Pick(model) ==
  /\ ChatBuilt
  /\ modelOverride' = model
  /\ disturbed' = (disturbed \/ ~ChatShown)
  /\ IF view[current].chat = NoChat
       THEN /\ view' = [view EXCEPT ![current].label = model, ![current].picked = model]
            /\ UNCHANGED posts
       ELSE /\ Cardinality(posts) < MaxPosts
            /\ posts' = posts \cup {[chat |-> view[current].chat, model |-> model, view |-> current]}
            /\ view' = [view EXCEPT ![current].picked = model]
  /\ UNCHANGED <<row, chats, activeChatId, hash, current, newChat, lists>>

\* The label shows what is picked when the request has been answered, or has failed.
PostReturns(p) ==
  /\ p \in posts
  /\ posts' = posts \ {p}
  /\ row' \in {row, [row EXCEPT ![p.chat] = p.model]}
  /\ view' = IF p.view = current /\ view[current].chat = p.chat
               THEN [view EXCEPT ![current].label = modelOverride] ELSE view
  /\ UNCHANGED <<chats, activeChatId, modelOverride, hash, current, newChat, lists, disturbed>>
-----------------------------------------------------------------------------
(* A message on the New chat page: ensureChat *)

NewRow(c) == [d \in DOMAIN row \cup {c} |-> IF d = c THEN NoPick ELSE row[d]]

\* A second click before there is a chat is in ChatView.
SendFirst ==
  /\ ChatBuilt /\ view[current].chat = NoChat /\ view[current].ensure = "none"
  /\ view' = [view EXCEPT ![current].ensure = "creating"]
  /\ disturbed' = (disturbed \/ ~ChatShown)
  /\ UNCHANGED <<row, chats, activeChatId, modelOverride, hash, current, newChat, lists, posts>>

\* A pick made before lives in the store; now it goes to the row.
CreateReturns(v) ==
  /\ view[v].ensure = "creating"
  /\ \E c \in Chat \ DOMAIN row :
       /\ row' = NewRow(c)
       /\ view' = [view EXCEPT ![v].chat = c, ![v].made = c, ![v].pending = modelOverride,
                                 ![v].ensure = IF modelOverride # NoPick THEN "posting" ELSE "listing"]
  /\ UNCHANGED <<chats, activeChatId, modelOverride, hash, current, newChat, lists, posts, disturbed>>

PendingStored(v) ==
  /\ view[v].ensure = "posting"
  /\ row' \in {row, [row EXCEPT ![view[v].made] = view[v].pending]}
  /\ view' = [view EXCEPT ![v].ensure = "listing", ![v].pending = NoPick]
  /\ UNCHANGED <<chats, activeChatId, modelOverride, hash, current, newChat, lists, posts, disturbed>>

\* Mutant: the address stays #/ until the next navigation.
KeepHash(v) == hash

\* replaceHash: no view is made for it.
HashOf(v) == view[v].made

\* The list has come: the store, the address; then the message goes out, with the model
\* of the store.
EnsureReturns(v) ==
  /\ view[v].ensure = "listing"
  /\ chats' = row
  /\ activeChatId' = view[v].made
  /\ hash' = HashOf(v)
  /\ view' = [view EXCEPT ![v] = Kept(v, [@ EXCEPT !.ensure = "none", !.made = NoChat])]
  /\ UNCHANGED <<row, modelOverride, current, newChat, lists, posts, disturbed>>

EnsureFails(v) ==
  /\ view[v].ensure \in {"creating", "listing"}
  /\ view' = [view EXCEPT ![v] = Kept(v, [@ EXCEPT !.ensure = "none", !.made = NoChat])]
  /\ disturbed' = (disturbed \/ view[v].ensure = "listing")
  /\ UNCHANGED <<row, chats, activeChatId, modelOverride, hash, current, newChat, lists, posts>>
-----------------------------------------------------------------------------
(* The "New chat" button *)

ClickNewChat ==
  /\ newChat = NoChat
  /\ \E c \in Chat \ DOMAIN row :
       /\ row' = NewRow(c)
       /\ newChat' = c
  /\ UNCHANGED <<chats, activeChatId, modelOverride, hash, current, view, lists, posts, disturbed>>

\* refreshChats has answered or failed: wherever the user is by now, the new chat opens.
OpenNewChat ==
  /\ newChat # NoChat
  /\ chats' \in {chats, row}
  /\ Show(newChat)
  /\ newChat' = NoChat
  /\ UNCHANGED <<row, modelOverride, lists, posts>>
-----------------------------------------------------------------------------
ShellInit ==
  /\ row \in [Existing -> Override]
  /\ chats \in {row, NoChats}
  /\ activeChatId = NoChat /\ modelOverride = NoPick
  /\ hash = NoChat /\ current = 0
  /\ view = [v \in View |-> NoView]
  /\ newChat = NoChat /\ lists = {} /\ posts = {} /\ disturbed = FALSE

ShellNext ==
  \/ \E page \in Page : Navigate(page)
  \/ \E list \in lists : ListArrives(list) \/ ListFails(list)
  \/ RefreshSoon
  \/ \E v \in View :
       \/ HealthArrives(v) \/ MountListArrives(v) \/ HistoryArrives(v)
       \/ CreateReturns(v) \/ PendingStored(v) \/ EnsureReturns(v) \/ EnsureFails(v)
  \/ \E model \in Override : Pick(model)
  \/ \E p \in posts : PostReturns(p)
  \/ SendFirst \/ ClickNewChat \/ OpenNewChat

ShellSpec == ShellInit /\ [][ShellNext]_shellVars
-----------------------------------------------------------------------------
(* Properties *)

ShellTypeOK ==
  /\ row \in Lists /\ chats \in Lists /\ lists \subseteq Lists
  /\ activeChatId \in Chat \cup {NoChat} /\ modelOverride \in Override
  /\ hash \in Page /\ current \in 0..MaxViews /\ view \in [View -> ViewState]
  /\ newChat \in Chat \cup {NoChat}
  /\ \A p \in posts : p.chat \in DOMAIN row /\ p.model \in Override /\ p.view \in View
  /\ disturbed \in BOOLEAN

\* Of a user who waits for each page, the address and the store's activeChatId name the chat
\* on the screen, also when it was only made while its first message was being sent.  The
\* list marks the entry of activeChatId, so it never marks another chat.
AddressNamesTheChat ==
  ~disturbed /\ ChatShown /\ view[current].ensure = "none" =>
    hash = view[current].chat /\ activeChatId = view[current].chat

\* The chat on the screen stays in the list once it is there, marked.  Not so: a list that was
\* asked for before the chat was made may come after ensureChat's own, and takes it out again.
ChatStaysListed ==
  [][~disturbed /\ ChatShown /\ activeChatId \in DOMAIN chats /\ activeChatId' = activeChatId =>
       activeChatId \in DOMAIN chats']_shellVars

\* On a chat's page the picker's label is the model the next message is sent with.  Not so
\* on the New chat page: its label is built before mount resets the override, and stays.
LabelIsSent ==
  ~disturbed /\ ChatShown /\ view[current].page # NoChat /\ posts = {} =>
    view[current].label = modelOverride

\* The picker of an opened chat is set to what is stored for the chat.
PickerShowsRow ==
  [][\A v \in View :
       ~disturbed /\ v = current /\ posts = {} /\ lists = {} /\ chats # NoChats
       /\ view[v].mount = "health" /\ view'[v].mount = "history" =>
         modelOverride' = row[view[v].page]]_shellVars

\* A message on the New chat page goes out with the model picked there, and with none
\* that was picked for another chat.
FirstMessageHasItsPick ==
  [][\A v \in View :
       ~disturbed /\ v = current /\ view[v].ensure = "listing" /\ hash' = view[v].made =>
         modelOverride = view[v].picked]_shellVars
=============================================================================
