------------------------------- MODULE DebugView -------------------------------
(***************************************************************************)
(* The debug page of the web client (debug.ts), its live connection        *)
(* (api.ts streamDebugSpans) and what the server does for it: a span that  *)
(* has ended is stored (debug/trace.py) and then put into the queue of     *)
(* every open connection (debug/bus.py).                                   *)
(*                                                                         *)
(* Every visit to the page makes a new view.  What a view that has been    *)
(* left still waits for goes on; it draws nothing, but it writes the       *)
(* address.                                                                *)
(***************************************************************************)
EXTENDS Naturals, Sequences, FiniteSets

CONSTANTS
  Trace,       \* traces
  Background,  \* those of background jobs, whose only stage is "title"
  None,        \* no trace, no chat
  Chat,        \* chats
  ChatOf,      \* the chat of a trace; None for the traces of no chat
  MaxSpans,    \* bound on the spans that end
  MaxQueue,    \* places in the queue of a connection
  MaxViews,    \* bound on the visits to the page
  MaxAsks      \* bound on the getTrace requests in flight

ASSUME DebugAssumption ==
  /\ Background \subseteq Trace
  /\ None \notin Trace \cup Chat
  /\ ChatOf \in [Trace -> Chat \cup {None}]
  /\ MaxSpans \in Nat /\ MaxQueue \in Nat \ {0} /\ MaxViews \in Nat \ {0} /\ MaxAsks \in Nat \ {0}

Span == 1..MaxSpans
View == 1..MaxViews
\* Addresses: a trace's, #/debug without one, another page's.
Address == Trace \cup {"debug", "elsewhere"}

VARIABLES
  spans,      \* server: the spans that have ended, in order
  published,  \* server: those that have been published
  hash,       \* the address bar
  view,       \* the view on the screen; 0 when another page is
  mount,      \* how far each view's mount has come
  asks,       \* getTrace requests in flight
  running,    \* views with a live connection and a telemetry timer
  conn,       \* the live connection
  queue,      \* server: its queue
  shows,      \* the closure of the view on the screen: the trace list,
  selected, span, \* the selected trace and span (0: none),
  status,     \* the summary status it has, and for which chat,
  statusAsks  \* and the chats it has asked the status of

server == <<spans, published>>
detail == <<shows, selected, span>>
summary == <<status, statusAsks>>
vars == <<spans, published, hash, view, mount, asks, running, conn, queue, shows, selected, span,
          status, statusAsks>>
-----------------------------------------------------------------------------
(* The server *)

\* Spans that could not be stored have no id.
Stored(n) == spans[n].stored
SameId(m, n) == m = n \/ (~Stored(m) /\ ~Stored(n))

Made(t) == \E n \in DOMAIN spans : spans[n].trace = t
SpansOf(t) == {n \in DOMAIN spans : spans[n].trace = t /\ Stored(n)}

\* The row is written, or writing it fails.
EndSpan(t, stored) ==
  /\ Len(spans) < MaxSpans
  /\ spans' = Append(spans, [trace |-> t, stored |-> stored])
  /\ UNCHANGED <<published, hash, view, mount, asks, running, conn, queue, detail, summary>>

\* A full queue loses its oldest span.
Put(q, n) == Append(IF Len(q) = MaxQueue THEN Tail(q) ELSE q, n)

Publish(n) ==
  /\ n \in DOMAIN spans \ published
  /\ published' = published \cup {n}
  /\ queue' = IF conn = "open" THEN Put(queue, n) ELSE queue
  /\ UNCHANGED <<spans, hash, view, mount, asks, running, conn, detail, summary>>
-----------------------------------------------------------------------------
(* Mounting and leaving *)

NoTraces == [t \in Trace |-> [listed |-> FALSE, known |-> FALSE, spans |-> {}]]
NoStatus == [chat |-> None, of |-> None]

Forget ==
  /\ shows' = NoTraces /\ selected' = None /\ span' = 0
  /\ status' = NoStatus /\ statusAsks' = {}

\* A link to the page, with or without a trace.
Open(t) ==
  \E v \in View :
    /\ view = 0 /\ mount[v].pc = "unused" /\ \A w \in View : mount[w].pc = "unused" => v <= w
    /\ view' = v
    /\ mount' = [mount EXCEPT ![v] = [pc |-> "listing", trace |-> t]]
    /\ hash' = IF t = None THEN "debug" ELSE t
    /\ UNCHANGED <<server, asks, running, conn, queue, detail, summary>>

\* unmount: the connection is cut, the timer cleared, the abort controller dropped.
Leave ==
  /\ view # 0
  /\ view' = 0
  /\ hash' = "elsewhere"
  /\ running' = running \ {view}
  /\ conn' = "off" /\ queue' = <<>>
  /\ Forget
  /\ UNCHANGED <<server, mount, asks>>

\* `before' is what the server had when it was asked.
Ask(v, t, by) == [view |-> v, trace |-> t, by |-> by, before |-> SpansOf(t)]

\* The trace a view opens on when its link names none: not a background job's, when
\* there is another.
isBackgroundOnly(t, ss) == t \in Background /\ ss # {}

Initial(list) ==
  LET turns == {t \in list : ~isBackgroundOnly(t, SpansOf(t))}
  IN IF turns # {} THEN turns ELSE list

\* Mutant: the end of a mount asks for `abort?.signal'.
GoLiveAnyway(v) ==
  /\ mount' = [mount EXCEPT ![v].pc = "done"]
  /\ running' = running \cup {v}
  /\ conn' = IF v = view THEN "connecting" ELSE conn

\* The end of mount: the live connection and the timer.  A view that has been left
\* meanwhile has no abort controller, and asking it for its signal throws.
GoLive(v) ==
  /\ mount' = [mount EXCEPT ![v].pc = "done"]
  /\ IF v = view THEN running' = running \cup {v} /\ conn' = "connecting"
                 ELSE UNCHANGED <<running, conn>>

\* listTraces and listModels have answered, or failed.
ListArrives(v) ==
  /\ mount[v].pc = "listing"
  /\ \E list \in {{}, {t \in Trace : Made(t)}} :
       LET wanted == IF mount[v].trace # None THEN {mount[v].trace} ELSE Initial(list)
       IN /\ shows' = IF v = view
                        THEN [t \in Trace |-> IF t \in list
                               THEN [listed |-> TRUE, known |-> TRUE, spans |-> SpansOf(t)]
                               ELSE NoTraces[t]]
                        ELSE shows
          /\ \/ /\ wanted = {}
                /\ GoLive(v)
                /\ UNCHANGED asks
             \/ /\ Cardinality(asks) < MaxAsks
                /\ \E t \in wanted : asks' = asks \cup {Ask(v, t, "mount")}
                /\ mount' = [mount EXCEPT ![v] = [pc |-> "selecting", trace |-> None]]
                /\ UNCHANGED <<running, conn>>
  /\ UNCHANGED <<server, hash, view, queue, selected, span, summary>>
-----------------------------------------------------------------------------
(* Selecting *)

ClickTrace(t) ==
  /\ view # 0 /\ mount[view].pc # "listing" /\ shows[t].listed
  /\ Cardinality(asks) < MaxAsks
  /\ asks' = asks \cup {Ask(view, t, "click")}
  /\ UNCHANGED <<server, hash, view, mount, running, conn, queue, detail, summary>>

First(ss) == IF ss = {} THEN {0} ELSE ss

\* The rest of selectTrace: its first span is shown, and the status of its chat asked
\* for unless the panel has it.
Select(t, entry) ==
  /\ shows' = IF entry.listed THEN [shows EXCEPT ![t] = entry] ELSE shows
  /\ selected' = IF entry.listed THEN t ELSE None
  /\ span' \in First(entry.spans)
  /\ IF entry.known /\ ChatOf[t] # None /\ ChatOf[t] # status.chat
       THEN status' = NoStatus /\ statusAsks' = statusAsks \cup {ChatOf[t]}
       ELSE UNCHANGED summary

\* What getTrace can answer: the spans as they were at some time since it was asked.
Answers(a) ==
  {[listed |-> TRUE, known |-> TRUE, spans |-> a.before \cup (SpansOf(a.trace) \cap (1..k))] :
    k \in 0..Len(spans)}

\* getTrace answers, or fails and the entry of the list does.
TraceArrives(a) ==
  /\ \E entry \in Answers(a) \cup {shows[a.trace]} :
       IF a.view = view THEN Select(a.trace, entry) ELSE UNCHANGED <<detail, summary>>
  /\ asks' = asks \ {a}
  /\ hash' = a.trace
  /\ IF a.by = "mount" THEN GoLive(a.view) ELSE UNCHANGED <<mount, running, conn>>
  /\ UNCHANGED <<server, view, queue>>

ClickSpan(n) ==
  /\ view # 0 /\ selected # None /\ n \in shows[selected].spans
  /\ span' = n
  /\ UNCHANGED <<server, hash, view, mount, asks, running, conn, queue, shows, selected, summary>>
-----------------------------------------------------------------------------
(* The summary panel *)

\* Mutant: the answer is taken to be about the trace that is selected when it comes.
StatusOfSelected(c) ==
  /\ c \in statusAsks
  /\ statusAsks' = statusAsks \ {c}
  /\ \E s \in {c, None} :
       status' = [chat |-> IF selected = None THEN c ELSE ChatOf[selected], of |-> s]
  /\ UNCHANGED <<server, hash, view, mount, asks, running, conn, queue, detail>>

StatusArrives(c) ==
  /\ c \in statusAsks
  /\ statusAsks' = statusAsks \ {c}
  /\ \E s \in {c, None} : status' = [chat |-> c, of |-> s]
  /\ UNCHANGED <<server, hash, view, mount, asks, running, conn, queue, detail>>

\* Every five seconds.
Tick ==
  /\ view \in running
  /\ selected # None /\ shows[selected].known /\ ChatOf[selected] # None
  /\ statusAsks' = statusAsks \cup {ChatOf[selected]}
  /\ UNCHANGED <<server, hash, view, mount, asks, running, conn, queue, detail, status>>
-----------------------------------------------------------------------------
(* The live connection *)

Connect ==
  /\ conn = "connecting"
  /\ conn' = "open" /\ queue' = <<>>
  /\ UNCHANGED <<server, hash, view, mount, asks, running, detail, summary>>

\* The request fails, is refused, or the stream ends: the loop waits a while.
Break ==
  /\ conn \in {"connecting", "open"}
  /\ conn' = "waiting" /\ queue' = <<>>
  /\ UNCHANGED <<server, hash, view, mount, asks, running, detail, summary>>

Retry ==
  /\ conn = "waiting"
  /\ conn' = "connecting"
  /\ UNCHANGED <<server, hash, view, mount, asks, running, queue, detail, summary>>

\* Mutant: the span is added to the waterfall, the detail pane keeps the old one.
mergeWaterfall(n) ==
  LET t == spans[n].trace
      old == {m \in shows[t].spans : SameId(m, n)}
  IN /\ shows' = [shows EXCEPT ![t].listed = TRUE, ![t].spans = (@ \ old) \cup {n}]
     /\ span' = span

\* Mutant: the span is added without looking for its id.
mergeAppended(n) ==
  LET t == spans[n].trace
  IN /\ shows' = [shows EXCEPT ![t].listed = TRUE, ![t].spans = @ \cup {n}]
     /\ span' = span

\* Mutant: the detail pane follows the trace.
mergeFollowed(n) ==
  LET t == spans[n].trace
      old == {m \in shows[t].spans : SameId(m, n)}
  IN /\ shows' = [shows EXCEPT ![t].listed = TRUE, ![t].spans = (@ \ old) \cup {n}]
     /\ span' = IF selected = t THEN n ELSE span

\* The span replaces the one with its id, on the screen too; a trace that is not in the
\* list is put there, of no chat.
mergeSpan(n) ==
  LET t == spans[n].trace
      old == {m \in shows[t].spans : SameId(m, n)}
  IN /\ shows' = [shows EXCEPT ![t].listed = TRUE, ![t].spans = (@ \ old) \cup {n}]
     /\ span' = IF selected = t /\ span \in old THEN n ELSE span

Deliver ==
  /\ queue # <<>>
  /\ mergeSpan(Head(queue))
  /\ queue' = Tail(queue)
  /\ UNCHANGED <<server, hash, view, mount, asks, running, conn, selected, summary>>
-----------------------------------------------------------------------------
Init ==
  /\ spans = <<>> /\ published = {}
  /\ hash = "elsewhere" /\ view = 0
  /\ mount = [v \in View |-> [pc |-> "unused", trace |-> None]]
  /\ asks = {} /\ running = {} /\ conn = "off" /\ queue = <<>>
  /\ shows = NoTraces /\ selected = None /\ span = 0
  /\ status = NoStatus /\ statusAsks = {}

Next ==
  \/ \E t \in Trace, stored \in BOOLEAN : EndSpan(t, stored)
  \/ \E n \in Span : Publish(n)
  \/ \E t \in Trace \cup {None} : Open(t)
  \/ Leave
  \/ \E v \in View : ListArrives(v)
  \/ \E t \in Trace : ClickTrace(t)
  \/ \E a \in asks : TraceArrives(a)
  \/ \E n \in Span : ClickSpan(n)
  \/ \E c \in Chat : StatusArrives(c)
  \/ Tick \/ Connect \/ Break \/ Retry \/ Deliver

Spec == Init /\ [][Next]_vars

-----------------------------------------------------------------------------
(* Properties *)

TypeOK ==
  /\ spans \in Seq([trace : Trace, stored : BOOLEAN]) /\ Len(spans) <= MaxSpans
  /\ published \subseteq DOMAIN spans
  /\ hash \in Address /\ view \in 0..MaxViews
  /\ mount \in [View -> [pc : {"unused", "listing", "selecting", "done"}, trace : Trace \cup {None}]]
  /\ \A a \in asks : a \in [view : View, trace : Trace, by : {"mount", "click"},
                            before : SUBSET Span]
  /\ running \subseteq View
  /\ conn \in {"off", "connecting", "open", "waiting"}
  /\ queue \in Seq(Span) /\ Len(queue) <= MaxQueue
  /\ shows \in [Trace -> [listed : BOOLEAN, known : BOOLEAN, spans : SUBSET Span]]
  /\ selected \in Trace \cup {None} /\ span \in 0..MaxSpans
  /\ status \in [chat : Chat \cup {None}, of : Chat \cup {None}]
  /\ statusAsks \subseteq Chat

\* The span in the detail pane is one of the waterfall's, however answers and live spans
\* interleave, and the waterfall is one of the list's traces.
DetailIsInWaterfall ==
  /\ span # 0 => selected # None /\ span \in shows[selected].spans
  /\ selected # None => shows[selected].listed

\* A waterfall only has spans of its trace, and each id once.  (The spans that could not
\* be stored share the id null: of two of them in one trace the page shows the later.)
WaterfallIsOfItsTrace ==
  \A t \in Trace : \A m, n \in shows[t].spans :
    m \in DOMAIN spans /\ spans[m].trace = t /\ (SameId(m, n) => m = n)

\* An address of the debug page is in the address bar only while that page is on the
\* screen.
AddressIsOfThePage == hash # "elsewhere" => view # 0

\* The panel under a trace is the status of its chat, or says there is none.
SummaryIsOfItsChat == status.of \in {status.chat, None}

\* List, waterfall, detail pane and panel agree with one another.
PanesAgree == DetailIsInWaterfall /\ WaterfallIsOfItsTrace /\ SummaryIsOfItsChat

\* No connection and no timer outlives its view, not even one that was left while it was
\* still mounting.
NothingRunsUnseen == running \subseteq {view} /\ (conn # "off" => view \in running)

\* A live span never takes the one that is being read away, when that one is stored.
ReaderIsLeftAlone ==
  [][selected' = selected /\ shows' # shows /\ asks' = asks /\ span # 0 /\ Stored(span) => span' = span]_vars

=============================================================================
