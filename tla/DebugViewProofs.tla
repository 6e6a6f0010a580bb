---------------------------- MODULE DebugViewProofs ----------------------------
(***************************************************************************)
(* Proofs about DebugView, for any traces, spans, visits and requests: the *)
(* panes of the page agree, nothing runs for a page that was left, and a   *)
(* live span leaves the reader's alone.  Then about what the panel draws,  *)
(* and about the reader of a stream, for streams of any length.            *)
(***************************************************************************)
EXTENDS MCDebugView, SequenceTheorems, FiniteSetTheorems, TLAPS

\* What travels is true of the server: an answer was a part of the trace when it was
\* asked for, and a span that is delivered has ended.
InFlightIsTrue ==
  /\ \A a \in asks : a.before \subseteq SpansOf(a.trace) /\ mount[a.view].pc \notin {"unused", "listing"}
  /\ \A i \in DOMAIN queue : queue[i] \in DOMAIN spans

\* A page shows nothing before its list has come, and no page shows nothing.
NothingBeforeTheList ==
  /\ view # 0 => mount[view].pc # "unused"
  /\ view = 0 \/ mount[view].pc = "listing" => selected = None /\ span = 0
  /\ \A t \in Trace : ~shows[t].listed => shows[t].spans = {}

DebugInv ==
  /\ TypeOK /\ InFlightIsTrue /\ NothingBeforeTheList
  /\ PanesAgree /\ NothingRunsUnseen

-----------------------------------------------------------------------------
\* The spans of a trace are spans, that were stored, each with an id of its own.
LEMMA SpansOfTrace ==
  ASSUME TypeOK, NEW t \in Trace
  PROVE  /\ SpansOf(t) \subseteq Span
         /\ \A n \in SpansOf(t) : n \in DOMAIN spans /\ spans[n].trace = t /\ Stored(n)
<1>1. DOMAIN spans = 1..Len(spans) /\ Len(spans) \in Nat /\ Len(spans) <= MaxSpans
  BY DebugAssumption DEF TypeOK
<1>2. QED
  BY <1>1, DebugAssumption DEF SpansOf, Span

\* Initially the page shows nothing.
LEMMA InitDebug == Init => DebugInv
<1> SUFFICES ASSUME Init PROVE DebugInv
  OBVIOUS
<1> USE DebugAssumption DEF Init
<1>1. NoTraces \in [Trace -> [listed : BOOLEAN, known : BOOLEAN, spans : SUBSET Span]]
  BY DEF NoTraces
<1>2. spans \in Seq([trace : Trace, stored : BOOLEAN]) /\ Len(spans) = 0 /\ queue \in Seq(Span)
      /\ Len(queue) = 0 /\ DOMAIN queue = {}
  OBVIOUS
<1>3. TypeOK
  BY <1>1, <1>2 DEF TypeOK, View, Address, NoStatus
<1>4. InFlightIsTrue /\ NothingBeforeTheList
  BY <1>2 DEF InFlightIsTrue, NothingBeforeTheList, NoTraces
<1>5. PanesAgree /\ NothingRunsUnseen
  BY DEF PanesAgree, DetailIsInWaterfall, WaterfallIsOfItsTrace, SummaryIsOfItsChat,
         NothingRunsUnseen, NoTraces, NoStatus
<1>6. QED
  BY <1>3, <1>4, <1>5 DEF DebugInv
-----------------------------------------------------------------------------
(* The server *)

\* A span that ends takes nothing from what was true of the earlier ones.
LEMMA EndSpanKeeps ==
  ASSUME DebugInv, NEW t \in Trace, NEW stored \in BOOLEAN, EndSpan(t, stored)
  PROVE  DebugInv'
<1> USE DebugAssumption
<1>1. /\ TypeOK /\ spans \in Seq([trace : Trace, stored : BOOLEAN])
      /\ Len(spans) < MaxSpans /\ spans' = Append(spans, [trace |-> t, stored |-> stored])
      /\ UNCHANGED <<published, hash, view, mount, asks, running, conn, queue, shows, selected,
                     span, status, statusAsks>>
  BY DEF DebugInv, TypeOK, EndSpan, detail, summary
<1>2. /\ spans' \in Seq([trace : Trace, stored : BOOLEAN]) /\ Len(spans') <= MaxSpans
      /\ DOMAIN spans \subseteq DOMAIN spans' /\ \A n \in DOMAIN spans : spans'[n] = spans[n]
  BY <1>1
<1>3. TypeOK'
  BY <1>1, <1>2 DEF TypeOK
<1>4. \A u \in Trace : SpansOf(u) \subseteq SpansOf(u)'
  BY <1>2 DEF SpansOf, Stored
<1>5. \A m, n \in DOMAIN spans : SameId(m, n)' <=> SameId(m, n)
  BY <1>2 DEF SameId, Stored
<1>6. InFlightIsTrue' /\ NothingBeforeTheList'
  <2>1. \A a \in asks : a.trace \in Trace
    BY <1>1 DEF TypeOK
  <2>2. QED
    BY <1>1, <1>2, <1>4, <2>1 DEF DebugInv, InFlightIsTrue, NothingBeforeTheList
<1>7. PanesAgree' /\ NothingRunsUnseen'
  BY <1>1, <1>2, <1>5 DEF DebugInv, PanesAgree, DetailIsInWaterfall, WaterfallIsOfItsTrace,
       SummaryIsOfItsChat, NothingRunsUnseen
<1>8. QED
  BY <1>3, <1>6, <1>7 DEF DebugInv

\* A queue that is put into keeps its length, and holds what it held or the new span.
LEMMA PutFits ==
  ASSUME DebugAssumption, NEW S, NEW q \in Seq(S), Len(q) <= MaxQueue, NEW n \in S
  PROVE  /\ Put(q, n) \in Seq(S) /\ Len(Put(q, n)) <= MaxQueue
         /\ \A i \in DOMAIN Put(q, n) : Put(q, n)[i] = n \/ \E j \in DOMAIN q : Put(q, n)[i] = q[j]
<1>1. MaxQueue \in Nat \ {0}
  BY DEF DebugAssumption
<1>2. CASE Len(q) = MaxQueue
  <2>1. q # <<>> /\ Put(q, n) = Append(Tail(q), n)
    BY <1>1, <1>2 DEF Put
  <2>2. Tail(q) \in Seq(S) /\ Len(Tail(q)) = Len(q) - 1 /\ \A i \in 1..Len(Tail(q)) : Tail(q)[i] = q[i + 1]
    BY <2>1
  <2>3. QED
    BY <1>1, <1>2, <2>1, <2>2
<1>3. CASE Len(q) # MaxQueue
  BY <1>1, <1>3 DEF Put
<1>4. QED
  BY <1>2, <1>3

\* A span that is published goes into the queue of an open connection.
LEMMA PublishKeeps ==
  ASSUME DebugInv, NEW n \in Span, Publish(n)
  PROVE  DebugInv'
<1> USE DebugAssumption
<1>1. /\ TypeOK /\ n \in DOMAIN spans /\ published' = published \cup {n}
      /\ UNCHANGED <<spans, hash, view, mount, asks, running, conn, shows, selected, span, status,
                     statusAsks>>
  BY DEF DebugInv, Publish, detail, summary
<1>2. /\ queue' \in Seq(Span) /\ Len(queue') <= MaxQueue
      /\ \A i \in DOMAIN queue' : queue'[i] \in DOMAIN spans
  <2>1. queue \in Seq(Span) /\ Len(queue) <= MaxQueue /\ \A i \in DOMAIN queue : queue[i] \in DOMAIN spans
    BY <1>1 DEF DebugInv, TypeOK, InFlightIsTrue
  <2>2. CASE conn = "open"
    <3>1. queue' = Put(queue, n)
      BY <2>2 DEF Publish
    <3>2. /\ Put(queue, n) \in Seq(Span) /\ Len(Put(queue, n)) <= MaxQueue
          /\ \A i \in DOMAIN Put(queue, n) :
               Put(queue, n)[i] = n \/ \E j \in DOMAIN queue : Put(queue, n)[i] = queue[j]
      BY <2>1, PutFits
    <3>3. QED
      BY <1>1, <2>1, <3>1, <3>2
  <2>3. CASE conn # "open"
    BY <2>1, <2>3 DEF Publish
  <2>4. QED
    BY <2>2, <2>3
<1>3. TypeOK'
  BY <1>1, <1>2 DEF TypeOK
<1>4. InFlightIsTrue' /\ NothingBeforeTheList'
  BY <1>1, <1>2 DEF DebugInv, InFlightIsTrue, NothingBeforeTheList, SpansOf, Stored
<1>5. PanesAgree' /\ NothingRunsUnseen'
  BY <1>1 DEF DebugInv, PanesAgree, DetailIsInWaterfall, WaterfallIsOfItsTrace,
       SummaryIsOfItsChat, NothingRunsUnseen, SameId, Stored
<1>6. QED
  BY <1>3, <1>4, <1>5 DEF DebugInv
-----------------------------------------------------------------------------
(* Mounting and leaving *)

\* A page that is opened finds nothing running: the one before it was left.
LEMMA OpenKeeps ==
  ASSUME DebugInv, NEW t \in Trace \cup {None}, Open(t)
  PROVE  DebugInv'
<1> USE DebugAssumption
<1>1. PICK v \in View :
        /\ view = 0 /\ mount[v].pc = "unused" /\ view' = v
        /\ mount' = [mount EXCEPT ![v] = [pc |-> "listing", trace |-> t]]
        /\ hash' = IF t = None THEN "debug" ELSE t
        /\ UNCHANGED <<spans, published, asks, running, conn, queue, shows, selected, span, status,
                       statusAsks>>
  BY DEF Open, server, detail, summary
<1>2. TypeOK /\ 0 \notin View /\ View \subseteq 0..MaxViews
  BY DEF DebugInv, View
<1>3. mount' \in [View -> [pc : {"unused", "listing", "selecting", "done"}, trace : Trace \cup {None}]]
      /\ mount'[v].pc = "listing" /\ \A w \in View : w # v => mount'[w] = mount[w]
  BY <1>1, <1>2 DEF TypeOK
<1>4. TypeOK'
  BY <1>1, <1>2, <1>3 DEF TypeOK, Address
<1>5. running = {} /\ conn = "off"
  BY <1>1, <1>2 DEF DebugInv, NothingRunsUnseen, TypeOK
<1>6. InFlightIsTrue'
  <2>1. \A a \in asks : a.view \in View /\ a.view # v
    BY <1>1, <1>2 DEF TypeOK, DebugInv, InFlightIsTrue
  <2>2. QED
    BY <1>1, <1>3, <2>1 DEF DebugInv, InFlightIsTrue, SpansOf, Stored
<1>7. NothingBeforeTheList'
  BY <1>1, <1>2, <1>3 DEF DebugInv, NothingBeforeTheList
<1>8. PanesAgree' /\ NothingRunsUnseen'
  BY <1>1, <1>5 DEF DebugInv, PanesAgree, DetailIsInWaterfall, WaterfallIsOfItsTrace,
       SummaryIsOfItsChat, NothingRunsUnseen, SameId, Stored
<1>9. QED
  BY <1>4, <1>6, <1>7, <1>8 DEF DebugInv

\* Leaving cuts the connection and forgets what was shown.
LEMMA LeaveKeeps ==
  ASSUME DebugInv, Leave
  PROVE  DebugInv'
<1> USE DebugAssumption
<1>1. /\ TypeOK /\ view' = 0 /\ hash' = "elsewhere" /\ running' = running \ {view} /\ conn' = "off"
      /\ queue' = <<>> /\ shows' = NoTraces /\ selected' = None /\ span' = 0 /\ status' = NoStatus
      /\ statusAsks' = {} /\ UNCHANGED <<spans, published, mount, asks>>
  BY DEF DebugInv, Leave, Forget, server
<1>2. running' = {}
  BY <1>1 DEF DebugInv, NothingRunsUnseen
<1>3. queue' \in Seq(Span) /\ Len(queue') = 0 /\ DOMAIN queue' = {}
  BY <1>1
<1>4. shows' \in [Trace -> [listed : BOOLEAN, known : BOOLEAN, spans : SUBSET Span]]
      /\ \A t \in Trace : shows'[t].spans = {}
  BY <1>1 DEF NoTraces
<1>5. TypeOK'
  BY <1>1, <1>2, <1>3, <1>4 DEF TypeOK, Address, NoStatus
<1>6. InFlightIsTrue' /\ NothingBeforeTheList'
  BY <1>1, <1>3, <1>4 DEF DebugInv, InFlightIsTrue, NothingBeforeTheList, SpansOf, Stored
<1>7. PanesAgree' /\ NothingRunsUnseen'
  BY <1>1, <1>2, <1>4 DEF PanesAgree, DetailIsInWaterfall, WaterfallIsOfItsTrace,
       SummaryIsOfItsChat, NothingRunsUnseen, NoStatus
<1>8. QED
  BY <1>5, <1>6, <1>7 DEF DebugInv

\* The end of a mount starts the connection and the timer for the page on the screen only.
LEMMA GoesLive ==
  ASSUME DebugInv, NEW v \in View, GoLive(v), view' = view
  PROVE  /\ mount' \in [View -> [pc : {"unused", "listing", "selecting", "done"},
                                 trace : Trace \cup {None}]]
         /\ mount'[v].pc = "done" /\ \A w \in View : w # v => mount'[w] = mount[w]
         /\ running' \subseteq View /\ conn' \in {"off", "connecting", "open", "waiting"}
         /\ NothingRunsUnseen'
<1>1. mount' = [mount EXCEPT ![v].pc = "done"] /\ TypeOK /\ NothingRunsUnseen
  BY DEF DebugInv, GoLive
<1>2. mount'[v] = [mount[v] EXCEPT !.pc = "done"] /\ \A w \in View : w # v => mount'[w] = mount[w]
  BY <1>1 DEF TypeOK
<1>3. mount' \in [View -> [pc : {"unused", "listing", "selecting", "done"}, trace : Trace \cup {None}]]
  BY <1>1 DEF TypeOK
<1>4. mount'[v].pc = "done"
  BY <1>1, <1>2 DEF TypeOK
<1>5. running' \subseteq View /\ conn' \in {"off", "connecting", "open", "waiting"} /\ NothingRunsUnseen'
  BY <1>1 DEF TypeOK, NothingRunsUnseen, GoLive
<1>6. QED
  BY <1>2, <1>3, <1>4, <1>5

\* What a request that is being sent asks for.
LEMMA AskIsTrue ==
  ASSUME TypeOK, NEW v \in View, NEW t \in Trace, NEW by \in {"mount", "click"}
  PROVE  /\ Ask(v, t, by) \in [view : View, trace : Trace, by : {"mount", "click"}, before : SUBSET Span]
         /\ Ask(v, t, by).view = v /\ Ask(v, t, by).trace = t
         /\ Ask(v, t, by).before = SpansOf(t)
BY SpansOfTrace DEF Ask

\* The list has come: the page shows it and asks for a trace of it, or goes live.
LEMMA ListArrivesKeeps ==
  ASSUME DebugInv, NEW v \in View, ListArrives(v)
  PROVE  DebugInv'
<1> USE DebugAssumption
<1>1. PICK list \in {{}, {t \in Trace : Made(t)}} :
       LET wanted == IF mount[v].trace # None THEN {mount[v].trace} ELSE Initial(list)
       IN /\ shows' = IF v = view
                        THEN [t \in Trace |-> IF t \in list
                               THEN [listed |-> TRUE, known |-> TRUE, spans |-> SpansOf(t)]
                               ELSE NoTraces[t]]
                        ELSE shows
          /\ \/ /\ wanted = {}
                /\ GoLive(v)
                /\ UNCHANGED asks
             \/ /\ Cardinality(asks) < MaxAsks
                /\ \E t \in wanted : asks' = asks \cup {Ask(v, t, "mount")}
                /\ mount' = [mount EXCEPT ![v] = [pc |-> "selecting", trace |-> None]]
                /\ UNCHANGED <<running, conn>>
  BY DEF ListArrives
<1> DEFINE wanted == IF mount[v].trace # None THEN {mount[v].trace} ELSE Initial(list)
<1>2. /\ TypeOK /\ mount[v].pc = "listing" /\ mount[v].trace \in Trace \cup {None}
      /\ UNCHANGED <<spans, published, hash, view, queue, selected, span, status, statusAsks>>
  BY DEF DebugInv, ListArrives, TypeOK, server, summary
<1>3. v = view => selected = None /\ span = 0
  BY <1>2 DEF DebugInv, NothingBeforeTheList
<1>4. wanted \subseteq Trace
  BY <1>2 DEF Initial
<1>5. /\ mount' \in [View -> [pc : {"unused", "listing", "selecting", "done"}, trace : Trace \cup {None}]]
      /\ mount'[v].pc \in {"selecting", "done"} /\ \A w \in View : w # v => mount'[w] = mount[w]
      /\ running' \subseteq View /\ conn' \in {"off", "connecting", "open", "waiting"}
      /\ NothingRunsUnseen'
      /\ asks' = asks \/ \E t \in Trace : asks' = asks \cup {Ask(v, t, "mount")}
  <2>1. CASE GoLive(v) /\ UNCHANGED asks
    BY <1>2, <2>1, GoesLive
  <2>2. CASE /\ \E t \in wanted : asks' = asks \cup {Ask(v, t, "mount")}
             /\ mount' = [mount EXCEPT ![v] = [pc |-> "selecting", trace |-> None]]
             /\ UNCHANGED <<running, conn>>
    BY <1>2, <1>4, <2>2 DEF DebugInv, TypeOK, NothingRunsUnseen
  <2>3. QED
    BY <1>1, <2>1, <2>2
<1>6. shows' \in [Trace -> [listed : BOOLEAN, known : BOOLEAN, spans : SUBSET Span]]
      /\ \A t \in Trace : \/ shows'[t] = shows[t] /\ v # view
                          \/ shows'[t].listed /\ shows'[t].spans = SpansOf(t)
                          \/ shows'[t].spans = {}
  <2>1. CASE v = view
    BY <1>1, <1>2, <2>1, SpansOfTrace DEF NoTraces
  <2>2. CASE v # view
    BY <1>1, <1>2, <2>2 DEF TypeOK
  <2>3. QED
    BY <2>1, <2>2
<1>7. \A a \in asks' : /\ a \in [view : View, trace : Trace, by : {"mount", "click"}, before : SUBSET Span]
                       /\ a.before \subseteq SpansOf(a.trace)
                       /\ mount'[a.view].pc \notin {"unused", "listing"}
  <2>1. \A a \in asks : /\ a \in [view : View, trace : Trace, by : {"mount", "click"}, before : SUBSET Span]
                        /\ a.before \subseteq SpansOf(a.trace)
                        /\ mount'[a.view].pc \notin {"unused", "listing"}
    BY <1>2, <1>5 DEF DebugInv, TypeOK, InFlightIsTrue
  <2>2. CASE asks' = asks
    BY <2>1, <2>2
  <2>3. ASSUME NEW t \in Trace, asks' = asks \cup {Ask(v, t, "mount")}
        PROVE  <1>7
    BY <1>2, <1>5, <2>1, <2>3, AskIsTrue
  <2>4. QED
    BY <1>5, <2>2, <2>3
<1>8. TypeOK'
  BY <1>2, <1>5, <1>6, <1>7 DEF TypeOK
<1>9. InFlightIsTrue'
  BY <1>2, <1>7 DEF DebugInv, InFlightIsTrue, SpansOf, Stored
<1>10. NothingBeforeTheList'
  <2>1. /\ view # 0 => view \in View /\ mount[view].pc # "unused"
        /\ view = 0 \/ mount[view].pc = "listing" => selected = None /\ span = 0
        /\ \A t \in Trace : ~shows[t].listed => shows[t].spans = {}
    BY <1>2 DEF DebugInv, NothingBeforeTheList, TypeOK, View
  <2>2. \A t \in Trace : ~shows'[t].listed => shows'[t].spans = {}
    BY <1>6, <2>1
  <2>3. /\ view # 0 => mount'[view].pc # "unused"
        /\ view = 0 \/ mount'[view].pc = "listing" => selected = None /\ span = 0
    BY <1>3, <1>5, <2>1
  <2>4. QED
    BY <1>2, <2>2, <2>3 DEF NothingBeforeTheList
<1>11. PanesAgree'
  <2>1. DetailIsInWaterfall'
    <3>1. CASE v = view
      BY <1>2, <1>3, <3>1 DEF DetailIsInWaterfall
    <3>2. CASE v # view
      BY <1>1, <1>2, <3>2 DEF DebugInv, PanesAgree, DetailIsInWaterfall
    <3>3. QED
      BY <3>1, <3>2
  <2>2. WaterfallIsOfItsTrace'
    BY <1>2, <1>6, SpansOfTrace DEF DebugInv, PanesAgree, WaterfallIsOfItsTrace, SameId, Stored
  <2>3. QED
    BY <1>2, <2>1, <2>2 DEF DebugInv, PanesAgree, SummaryIsOfItsChat
<1>12. QED
  BY <1>5, <1>8, <1>9, <1>10, <1>11 DEF DebugInv
-----------------------------------------------------------------------------
(* Selecting *)

\* A trace that is clicked is asked for; nothing else changes.
LEMMA ClickTraceKeeps ==
  ASSUME DebugInv, NEW t \in Trace, ClickTrace(t)
  PROVE  DebugInv'
<1> USE DebugAssumption
<1>1. /\ TypeOK /\ view \in View /\ mount[view].pc \notin {"unused", "listing"}
      /\ asks' = asks \cup {Ask(view, t, "click")}
      /\ UNCHANGED <<spans, published, hash, view, mount, running, conn, queue, shows, selected, span,
                     status, statusAsks>>
  BY DEF DebugInv, TypeOK, NothingBeforeTheList, View, ClickTrace, server, detail, summary
<1>2. \A a \in asks' : /\ a \in [view : View, trace : Trace, by : {"mount", "click"}, before : SUBSET Span]
                       /\ a.before \subseteq SpansOf(a.trace)
                       /\ mount[a.view].pc \notin {"unused", "listing"}
  BY <1>1, AskIsTrue DEF DebugInv, TypeOK, InFlightIsTrue
<1>3. TypeOK'
  BY <1>1, <1>2 DEF TypeOK
<1>4. InFlightIsTrue' /\ NothingBeforeTheList'
  BY <1>1, <1>2 DEF DebugInv, InFlightIsTrue, NothingBeforeTheList, SpansOf, Stored
<1>5. PanesAgree' /\ NothingRunsUnseen'
  BY <1>1 DEF DebugInv, PanesAgree, DetailIsInWaterfall, WaterfallIsOfItsTrace,
       SummaryIsOfItsChat, NothingRunsUnseen, SameId, Stored
<1>6. QED
  BY <1>3, <1>4, <1>5 DEF DebugInv

\* The answer to a click or to the end of a mount is shown, unless its page was left.
LEMMA TraceArrivesKeeps ==
  ASSUME DebugInv, NEW a \in asks, TraceArrives(a)
  PROVE  DebugInv'
<1> USE DebugAssumption
<1>1. PICK entry \in Answers(a) \cup {shows[a.trace]} :
        IF a.view = view THEN Select(a.trace, entry) ELSE UNCHANGED <<detail, summary>>
  BY DEF TraceArrives
<1>2. /\ TypeOK /\ a.view \in View /\ a.trace \in Trace /\ a.before \subseteq SpansOf(a.trace)
      /\ asks' = asks \ {a} /\ hash' = a.trace
      /\ UNCHANGED <<spans, published, view, queue>>
  BY DEF DebugInv, TypeOK, InFlightIsTrue, TraceArrives, server
<1>3. mount[a.view].pc \notin {"unused", "listing"}
  BY DEF DebugInv, InFlightIsTrue
<1>4. /\ mount' \in [View -> [pc : {"unused", "listing", "selecting", "done"}, trace : Trace \cup {None}]]
      /\ \A w \in View : mount[w].pc \notin {"unused", "listing"} => mount'[w].pc \notin {"unused", "listing"}
      /\ \A w \in View : mount'[w].pc = "listing" => mount[w].pc = "listing"
      /\ running' \subseteq View /\ conn' \in {"off", "connecting", "open", "waiting"}
      /\ NothingRunsUnseen'
  <2>1. CASE a.by = "mount"
    <3>1. GoLive(a.view)
      BY <2>1 DEF TraceArrives
    <3>2. QED
      BY <1>2, <1>3, <3>1, GoesLive
  <2>2. CASE a.by # "mount"
    <3>1. UNCHANGED <<mount, running, conn, view>>
      BY <2>2 DEF TraceArrives
    <3>2. QED
      BY <1>2, <3>1 DEF DebugInv, TypeOK, NothingRunsUnseen
  <2>3. QED
    BY <2>1, <2>2
<1>5. /\ entry \in [listed : BOOLEAN, known : BOOLEAN, spans : SUBSET Span]
      /\ ~entry.listed => entry.spans = {}
      /\ \A m, n \in entry.spans : m \in DOMAIN spans /\ spans[m].trace = a.trace /\ (SameId(m, n) => m = n)
  <2>1. CASE entry \in Answers(a)
    <3>1. entry.listed /\ entry.spans \subseteq SpansOf(a.trace)
          /\ entry = [listed |-> TRUE, known |-> TRUE, spans |-> entry.spans]
      BY <1>2, <2>1 DEF Answers
    <3>2. \A n \in entry.spans : n \in Span /\ n \in DOMAIN spans /\ spans[n].trace = a.trace /\ Stored(n)
      BY <1>2, <3>1, SpansOfTrace
    <3>3. entry \in [listed : BOOLEAN, known : BOOLEAN, spans : SUBSET Span]
      <4> DEFINE ss == entry.spans
      <4>1. entry = [listed |-> TRUE, known |-> TRUE, spans |-> ss] /\ ss \in SUBSET Span
        BY <3>1, <3>2
      <4> HIDE DEF ss
      <4>2. QED
        BY <4>1
    <3>4. QED
      BY <3>1, <3>2, <3>3 DEF SameId
  <2>2. CASE entry = shows[a.trace]
    BY <1>2, <2>2 DEF DebugInv, TypeOK, NothingBeforeTheList, PanesAgree, WaterfallIsOfItsTrace
  <2>3. QED
    BY <2>1, <2>2
<1>6. CASE a.view # view
  <2>1. UNCHANGED <<shows, selected, span, status, statusAsks>>
    BY <1>1, <1>6 DEF detail, summary
  <2>2. TypeOK'
    BY <1>2, <1>4, <2>1 DEF TypeOK, Address
  <2>3. InFlightIsTrue'
    BY <1>2, <1>4 DEF DebugInv, TypeOK, InFlightIsTrue, SpansOf, Stored
  <2>4. NothingBeforeTheList'
    <3>1. view # 0 => view \in View
      BY <1>2 DEF TypeOK, View
    <3>2. view # 0 => mount'[view] = mount[view]
      BY <1>2, <1>6, <3>1 DEF TraceArrives, GoLive, TypeOK
    <3>3. QED
      BY <1>2, <2>1, <3>2 DEF DebugInv, NothingBeforeTheList
  <2>5. PanesAgree'
    BY <1>2, <2>1 DEF DebugInv, PanesAgree, DetailIsInWaterfall, WaterfallIsOfItsTrace,
         SummaryIsOfItsChat, SameId, Stored
  <2>6. QED
    BY <1>4, <2>2, <2>3, <2>4, <2>5 DEF DebugInv
<1>7. CASE a.view = view
  <2>1. /\ shows' = IF entry.listed THEN [shows EXCEPT ![a.trace] = entry] ELSE shows
        /\ selected' = IF entry.listed THEN a.trace ELSE None
        /\ span' \in First(entry.spans)
        /\ status' \in {status, NoStatus}
        /\ statusAsks' = statusAsks
             \/ (ChatOf[a.trace] # None /\ statusAsks' = statusAsks \cup {ChatOf[a.trace]})
    BY <1>1, <1>7 DEF Select, summary
  <2>2. /\ shows' \in [Trace -> [listed : BOOLEAN, known : BOOLEAN, spans : SUBSET Span]]
        /\ \A t \in Trace : shows'[t] = shows[t] \/ (t = a.trace /\ shows'[t] = entry)
        /\ entry.listed => shows'[a.trace] = entry
    BY <1>2, <1>5, <2>1 DEF TypeOK
  <2>3. /\ selected' \in Trace \cup {None} /\ span' \in 0..MaxSpans
        /\ span' # 0 => span' \in entry.spans /\ entry.listed
    BY <1>2, <1>5, <2>1 DEF First, Span
  <2>4. /\ status' \in [chat : Chat \cup {None}, of : Chat \cup {None}] /\ statusAsks' \subseteq Chat
        /\ SummaryIsOfItsChat'
    BY <1>2, <2>1 DEF DebugInv, TypeOK, PanesAgree, SummaryIsOfItsChat, NoStatus
  <2>5. TypeOK'
    BY <1>2, <1>4, <2>2, <2>3, <2>4 DEF TypeOK, Address
  <2>6. InFlightIsTrue'
    BY <1>2, <1>4 DEF DebugInv, TypeOK, InFlightIsTrue, SpansOf, Stored
  <2>7. NothingBeforeTheList'
    <3>1. view # 0 /\ mount'[view].pc \notin {"unused", "listing"}
      BY <1>2, <1>3, <1>4, <1>7 DEF View
    <3>2. \A t \in Trace : ~shows'[t].listed => shows'[t].spans = {}
      BY <1>5, <2>2 DEF DebugInv, NothingBeforeTheList
    <3>3. QED
      BY <1>2, <3>1, <3>2 DEF NothingBeforeTheList
  <2>8. DetailIsInWaterfall'
    BY <1>2, <1>5, <2>1, <2>2, <2>3 DEF DetailIsInWaterfall
  <2>9. WaterfallIsOfItsTrace'
    BY <1>2, <1>5, <2>2 DEF DebugInv, PanesAgree, WaterfallIsOfItsTrace, SameId, Stored
  <2>10. QED
    BY <1>4, <2>4, <2>5, <2>6, <2>7, <2>8, <2>9 DEF DebugInv, PanesAgree
<1>8. QED
  BY <1>6, <1>7

\* A span of the waterfall that is clicked is shown.
LEMMA ClickSpanKeeps ==
  ASSUME DebugInv, NEW n \in Span, ClickSpan(n)
  PROVE  DebugInv'
<1> USE DebugAssumption
<1>1. /\ TypeOK /\ view # 0 /\ selected # None /\ n \in shows[selected].spans /\ span' = n
      /\ UNCHANGED <<spans, published, hash, view, mount, asks, running, conn, queue, shows, selected,
                     status, statusAsks>>
  BY DEF DebugInv, ClickSpan, server, summary
<1>2. TypeOK'
  BY <1>1 DEF TypeOK, Span
<1>3. InFlightIsTrue' /\ NothingBeforeTheList'
  BY <1>1 DEF DebugInv, InFlightIsTrue, NothingBeforeTheList, SpansOf, Stored
<1>4. PanesAgree' /\ NothingRunsUnseen'
  BY <1>1 DEF DebugInv, PanesAgree, DetailIsInWaterfall, WaterfallIsOfItsTrace,
       SummaryIsOfItsChat, NothingRunsUnseen, SameId, Stored
<1>5. QED
  BY <1>2, <1>3, <1>4 DEF DebugInv
-----------------------------------------------------------------------------
(* The summary panel *)

\* An answer about a chat is shown as one about that chat.
LEMMA StatusArrivesKeeps ==
  ASSUME DebugInv, NEW c \in Chat, StatusArrives(c)
  PROVE  DebugInv'
<1> USE DebugAssumption
<1>1. /\ TypeOK /\ statusAsks' = statusAsks \ {c}
      /\ \E s \in {c, None} : status' = [chat |-> c, of |-> s]
      /\ UNCHANGED <<spans, published, hash, view, mount, asks, running, conn, queue, shows, selected,
                     span>>
  BY DEF DebugInv, StatusArrives, server, detail
<1>2. status' \in [chat : Chat \cup {None}, of : Chat \cup {None}] /\ SummaryIsOfItsChat'
  BY <1>1 DEF SummaryIsOfItsChat
<1>3. TypeOK'
  BY <1>1, <1>2 DEF TypeOK
<1>4. InFlightIsTrue' /\ NothingBeforeTheList'
  BY <1>1 DEF DebugInv, InFlightIsTrue, NothingBeforeTheList, SpansOf, Stored
<1>5. PanesAgree' /\ NothingRunsUnseen'
  BY <1>1, <1>2 DEF DebugInv, PanesAgree, DetailIsInWaterfall, WaterfallIsOfItsTrace,
       NothingRunsUnseen, SameId, Stored
<1>6. QED
  BY <1>3, <1>4, <1>5 DEF DebugInv

\* What the timer asks is the status of a chat.
LEMMA TickKeeps ==
  ASSUME DebugInv, Tick
  PROVE  DebugInv'
<1> USE DebugAssumption
<1>1. /\ TypeOK /\ selected # None /\ ChatOf[selected] # None
      /\ statusAsks' = statusAsks \cup {ChatOf[selected]}
      /\ UNCHANGED <<spans, published, hash, view, mount, asks, running, conn, queue, shows, selected,
                     span, status>>
  BY DEF DebugInv, Tick, server, detail
<1>2. statusAsks' \subseteq Chat
  BY <1>1 DEF TypeOK
<1>3. TypeOK'
  BY <1>1, <1>2 DEF TypeOK
<1>4. InFlightIsTrue' /\ NothingBeforeTheList'
  BY <1>1 DEF DebugInv, InFlightIsTrue, NothingBeforeTheList, SpansOf, Stored
<1>5. PanesAgree' /\ NothingRunsUnseen'
  BY <1>1 DEF DebugInv, PanesAgree, DetailIsInWaterfall, WaterfallIsOfItsTrace,
       SummaryIsOfItsChat, NothingRunsUnseen, SameId, Stored
<1>6. QED
  BY <1>3, <1>4, <1>5 DEF DebugInv
-----------------------------------------------------------------------------
(* The live connection *)

\* A connection that comes or goes starts with an empty queue, and comes only to a page
\* that runs one.
LEMMA ConnectionKeeps ==
  ASSUME DebugInv, Connect \/ Break \/ Retry
  PROVE  DebugInv'
<1> USE DebugAssumption
<1>1. /\ TypeOK /\ conn # "off" /\ conn' \in {"open", "waiting", "connecting"}
      /\ queue' = <<>> \/ queue' = queue
      /\ UNCHANGED <<spans, published, hash, view, mount, asks, running, shows, selected, span, status,
                     statusAsks>>
  BY DEF DebugInv, Connect, Break, Retry, server, detail, summary
<1>2. queue' \in Seq(Span) /\ Len(queue') <= MaxQueue /\ \A i \in DOMAIN queue' : queue'[i] \in DOMAIN spans
  <2>1. CASE queue' = <<>>
    <3>1. queue' \in Seq(Span) /\ Len(queue') = 0 /\ DOMAIN queue' = {}
      BY <2>1
    <3>2. QED
      BY <3>1
  <2>2. CASE queue' = queue
    BY <2>2 DEF DebugInv, TypeOK, InFlightIsTrue
  <2>3. QED
    BY <1>1, <2>1, <2>2
<1>3. TypeOK'
  BY <1>1, <1>2 DEF TypeOK
<1>4. InFlightIsTrue' /\ NothingBeforeTheList'
  BY <1>1, <1>2 DEF DebugInv, InFlightIsTrue, NothingBeforeTheList, SpansOf, Stored
<1>5. PanesAgree' /\ NothingRunsUnseen'
  BY <1>1 DEF DebugInv, PanesAgree, DetailIsInWaterfall, WaterfallIsOfItsTrace,
       SummaryIsOfItsChat, NothingRunsUnseen, SameId, Stored
<1>6. QED
  BY <1>3, <1>4, <1>5 DEF DebugInv

\* What mergeSpan makes of the waterfall of the span's trace.
LEMMA MergedSpan ==
  ASSUME TypeOK, NEW n \in Span, n \in DOMAIN spans, mergeSpan(n)
  PROVE  LET t == spans[n].trace
             old == {m \in shows[t].spans : SameId(m, n)}
         IN /\ t \in Trace
            /\ shows' \in [Trace -> [listed : BOOLEAN, known : BOOLEAN, spans : SUBSET Span]]
            /\ shows'[t].listed /\ shows'[t].spans = (shows[t].spans \ old) \cup {n}
            /\ \A u \in Trace : u # t => shows'[u] = shows[u]
            /\ span' = IF selected = t /\ span \in old THEN n ELSE span
<1> DEFINE t == spans[n].trace
           old == {m \in shows[t].spans : SameId(m, n)}
           merged == (shows[t].spans \ old) \cup {n}
           listed == [shows EXCEPT ![t].listed = TRUE]
<1>1. t \in Trace
  <2>1. spans \in Seq([trace : Trace, stored : BOOLEAN])
    BY DEF TypeOK
  <2>2. n \in 1..Len(spans)
    BY <2>1
  <2>3. spans[n] \in [trace : Trace, stored : BOOLEAN]
    BY <2>1, <2>2, ElementOfSeq
  <2>4. QED
    BY <2>3
<1>2. /\ shows' = [listed EXCEPT ![t].spans = (@ \ old) \cup {n}]
      /\ span' = IF selected = t /\ span \in old THEN n ELSE span
  BY DEF mergeSpan
<1>3. shows \in [Trace -> [listed : BOOLEAN, known : BOOLEAN, spans : SUBSET Span]]
  BY DEF TypeOK
<1> HIDE DEF t, old
<1>4. merged \in SUBSET Span
  BY <1>1, <1>3
<1>5. /\ listed \in [Trace -> [listed : BOOLEAN, known : BOOLEAN, spans : SUBSET Span]]
      /\ listed[t].listed /\ listed[t].spans = shows[t].spans
      /\ \A u \in Trace : u # t => listed[u] = shows[u]
  BY <1>1, <1>3
<1> HIDE DEF listed
<1>6. shows' = [listed EXCEPT ![t].spans = merged]
  BY <1>1, <1>2, <1>5
<1> HIDE DEF merged
<1>7. /\ shows' \in [Trace -> [listed : BOOLEAN, known : BOOLEAN, spans : SUBSET Span]]
      /\ shows'[t].listed /\ shows'[t].spans = merged
      /\ \A u \in Trace : u # t => shows'[u] = shows[u]
  BY <1>1, <1>4, <1>5, <1>6
<1>8. QED
  BY <1>1, <1>2, <1>7 DEF t, old, merged

\* A live span joins the waterfall of its trace in place of the one with its id.
LEMMA DeliverKeeps ==
  ASSUME DebugInv, Deliver
  PROVE  DebugInv'
<1> USE DebugAssumption
<1> DEFINE n == Head(queue)
           t == spans[n].trace
           old == {m \in shows[t].spans : SameId(m, n)}
<1>1. /\ TypeOK /\ queue # <<>> /\ mergeSpan(n) /\ queue' = Tail(queue)
      /\ UNCHANGED <<spans, published, hash, view, mount, asks, running, conn, selected, status,
                     statusAsks>>
  BY DEF DebugInv, Deliver, server, summary
<1>2. /\ queue \in Seq(Span) /\ Len(queue) <= MaxQueue /\ MaxQueue \in Nat
      /\ \A i \in DOMAIN queue : queue[i] \in DOMAIN spans
  BY DEF DebugInv, TypeOK, InFlightIsTrue
<1>3. n \in Span /\ n \in DOMAIN spans
  <2>1. Len(queue) \in Nat \ {0} /\ n = queue[1] /\ 1 \in DOMAIN queue
    BY <1>1, <1>2
  <2>2. QED
    BY <1>2, <2>1
<1>4. /\ queue' \in Seq(Span) /\ Len(queue') <= MaxQueue
      /\ \A i \in DOMAIN queue' : queue'[i] \in DOMAIN spans
  <2>1. queue' \in Seq(Span) /\ Len(queue') = Len(queue) - 1
        /\ \A i \in 1..Len(queue') : queue'[i] = queue[i + 1]
    BY <1>1, <1>2
  <2>2. QED
    BY <1>2, <2>1
<1>5. /\ t \in Trace
      /\ shows' \in [Trace -> [listed : BOOLEAN, known : BOOLEAN, spans : SUBSET Span]]
      /\ shows'[t].listed /\ shows'[t].spans = (shows[t].spans \ old) \cup {n}
      /\ \A u \in Trace : u # t => shows'[u] = shows[u]
      /\ span' = IF selected = t /\ span \in old THEN n ELSE span
  BY <1>1, <1>3, MergedSpan
<1> HIDE DEF n, old
<1>6. span' \in 0..MaxSpans
  BY <1>1, <1>3, <1>5 DEF TypeOK, Span
<1>7. TypeOK'
  BY <1>1, <1>4, <1>5, <1>6 DEF TypeOK
<1>8. InFlightIsTrue'
  BY <1>1, <1>4 DEF DebugInv, InFlightIsTrue, SpansOf, Stored
<1>9. NothingBeforeTheList'
  <2>1. selected = None => span' = span
    BY <1>5
  <2>2. \A u \in Trace : ~shows'[u].listed => u # t
    BY <1>5
  <2>3. QED
    BY <1>1, <1>5, <2>1, <2>2 DEF DebugInv, NothingBeforeTheList
<1>10. PanesAgree'
  <2>1. DetailIsInWaterfall'
    <3>1. CASE selected = t
      BY <1>1, <1>5, <3>1 DEF DebugInv, PanesAgree, DetailIsInWaterfall
    <3>2. CASE selected # t
      BY <1>1, <1>5, <3>2 DEF DebugInv, PanesAgree, DetailIsInWaterfall, TypeOK
    <3>3. QED
      BY <3>1, <3>2
  <2>2. WaterfallIsOfItsTrace'
    <3>1. \A u \in Trace : \A m, k \in shows[u].spans :
            m \in DOMAIN spans /\ spans[m].trace = u /\ (SameId(m, k) => m = k)
      BY DEF DebugInv, PanesAgree, WaterfallIsOfItsTrace
    <3>2. \A m \in shows[t].spans \ old : ~SameId(m, n) /\ ~SameId(n, m)
      BY DEF old, SameId
    <3>3. \A u \in Trace : \A m, k \in shows'[u].spans :
            m \in DOMAIN spans /\ spans[m].trace = u /\ (SameId(m, k) => m = k)
      <4>1. ASSUME NEW u \in Trace, u # t
            PROVE  \A m, k \in shows'[u].spans :
                     m \in DOMAIN spans /\ spans[m].trace = u /\ (SameId(m, k) => m = k)
        BY <1>5, <3>1, <4>1
      <4>2. \A m, k \in shows'[t].spans :
              m \in DOMAIN spans /\ spans[m].trace = t /\ (SameId(m, k) => m = k)
        BY <1>3, <1>5, <3>1, <3>2
      <4>3. QED
        BY <4>1, <4>2
    <3>4. QED
      BY <1>1, <3>3 DEF WaterfallIsOfItsTrace, SameId, Stored
  <2>3. QED
    BY <1>1, <2>1, <2>2 DEF DebugInv, PanesAgree, SummaryIsOfItsChat
<1>11. NothingRunsUnseen'
  BY <1>1 DEF DebugInv, NothingRunsUnseen
<1>12. QED
  BY <1>7, <1>8, <1>9, <1>10, <1>11 DEF DebugInv
-----------------------------------------------------------------------------
(* The theorems *)

\* Every step keeps DebugInv.
LEMMA NextDebug ==
  ASSUME DebugInv, [Next]_vars
  PROVE  DebugInv'
<1>1. CASE Next
  BY <1>1, EndSpanKeeps, PublishKeeps, OpenKeeps, LeaveKeeps, ListArrivesKeeps, ClickTraceKeeps,
     TraceArrivesKeeps, ClickSpanKeeps, StatusArrivesKeeps, TickKeeps, ConnectionKeeps, DeliverKeeps
     DEF Next
<1>2. CASE UNCHANGED vars
  BY <1>2 DEF vars, DebugInv, TypeOK, InFlightIsTrue, NothingBeforeTheList, PanesAgree,
       DetailIsInWaterfall, WaterfallIsOfItsTrace, SummaryIsOfItsChat, NothingRunsUnseen, SpansOf,
       SameId, Stored
<1>3. QED
  BY <1>1, <1>2

\* DebugInv is an invariant of the debug page.
THEOREM DebugInvariant == Spec => []DebugInv
<1>1. Init => DebugInv
  BY InitDebug
<1>2. DebugInv /\ [Next]_vars => DebugInv'
  BY NextDebug
<1>3. QED
  BY <1>1, <1>2, PTL DEF Spec

\* The variables of the debug page, its connection and its server have their types: no
\* queue outgrows its places and every span shown is one.
THEOREM TypeCorrect == Spec => []TypeOK
<1>1. DebugInv => TypeOK
  BY DEF DebugInv
<1>2. QED
  BY <1>1, DebugInvariant, PTL

\* List, waterfall, detail pane and panel agree, however live spans, answers and clicks
\* interleave (mergeSpan, selectTrace and fetchSummaryStatus of debug.ts).
THEOREM PanesAlwaysAgree == Spec => []PanesAgree
<1>1. DebugInv => PanesAgree
  BY DEF DebugInv
<1>2. QED
  BY <1>1, DebugInvariant, PTL

\* No connection and no timer outlives its page, however late the mount of a page that
\* was left goes on (mount and unmount of debug.ts).
THEOREM NothingEverRunsUnseen == Spec => []NothingRunsUnseen
<1>1. DebugInv => NothingRunsUnseen
  BY DEF DebugInv
<1>2. QED
  BY <1>1, DebugInvariant, PTL

\* A live span that replaces another in its trace is that span: only the ones that could
\* not be stored share an id, so the reader of a stored one keeps it (mergeSpan of
\* debug.ts).
THEOREM ReaderIsAlwaysLeftAlone == Spec => ReaderIsLeftAlone
<1> DEFINE Left == selected' = selected /\ shows' # shows /\ asks' = asks /\ span # 0 /\ Stored(span)
                     => span' = span
<1>1. ASSUME DebugInv, [Next]_vars
      PROVE  [Left]_vars
  <2> SUFFICES ASSUME selected' = selected, shows' # shows, asks' = asks, span # 0, Stored(span)
               PROVE  span' = span
    OBVIOUS
  <2>1. selected # None
    BY <1>1 DEF DebugInv, PanesAgree, DetailIsInWaterfall
  <2>2. CASE Leave
    BY <2>1, <2>2 DEF Leave, Forget
  <2>3. ASSUME NEW v \in View, ListArrives(v)
        PROVE  span' = span
    BY <2>3 DEF ListArrives
  <2>4. ASSUME NEW a \in asks, TraceArrives(a)
        PROVE  span' = span
    BY <2>4 DEF TraceArrives
  <2>5. CASE Deliver
    BY <2>5 DEF Deliver, mergeSpan, SameId
  <2>6. CASE UNCHANGED shows
    BY <2>6
  <2>7. QED
    BY <1>1, <2>2, <2>3, <2>4, <2>5, <2>6
       DEF Next, vars, EndSpan, Publish, Open, ClickTrace, ClickSpan, StatusArrives, Tick, Connect,
           Break, Retry, detail
<1>2. QED
  BY <1>1, DebugInvariant, PTL DEF Spec, ReaderIsLeftAlone
-----------------------------------------------------------------------------
\* A rounded-down quotient reaches 100 exactly when the dividend reaches a hundred
\* divisors.
LEMMA DivAtLeast ==
  ASSUME NEW a \in Nat, NEW b \in Nat \ {0}
  PROVE  a \div b \in Nat /\ (a \div b >= 100 <=> a >= 100 * b)
<1> DEFINE q == a \div b
           r == a % b
<1>1. q \in Nat /\ r \in 0..(b - 1) /\ a = b * q + r
  OBVIOUS
<1> HIDE DEF q, r
<1>2. ASSUME q >= 100 PROVE b * q >= 100 * b
  BY <1>1, <1>2
<1>3. ASSUME q <= 99 PROVE b * q <= 99 * b
  BY <1>1, <1>3
<1>4. q >= 100 <=> a >= 100 * b
  <2>1. b * q \in Nat
    BY <1>1
  <2>2. 100 * b = 99 * b + b
    OBVIOUS
  <2> QED
    BY <1>1, <1>2, <1>3, <2>1, <2>2
<1> QED
  BY <1>1, <1>4 DEF q

\* The width of the bar: a percentage that is 100 from 99.5 percent of the threshold on,
\* for Math.round takes a half upwards.
LEMMA PercentIs ==
  ASSUME NEW x \in Nat, NEW k \in Nat \ {0}
  PROVE  LET p == Min({100, (200 * x + k) \div (2 * k)})
         IN p \in 0..100 /\ (p = 100 <=> 200 * x >= 199 * k)
<1> DEFINE q == (200 * x + k) \div (2 * k)
           S == {100, q}
<1>1. q \in Nat /\ (q >= 100 <=> 200 * x >= 199 * k)
  <2>1. 200 * x + k \in Nat /\ 2 * k \in Nat \ {0}
    OBVIOUS
  <2>2. q \in Nat /\ (q >= 100 <=> 200 * x + k >= 100 * (2 * k))
    BY <2>1, DivAtLeast
  <2> HIDE DEF q
  <2> QED
    BY <2>2
<1> HIDE DEF q
<1>2. \E m \in S : \A n \in S : m <= n
  BY <1>1
<1>3. Min(S) \in S /\ \A n \in S : Min(S) <= n
  BY <1>2 DEF Min
<1> QED
  BY <1>1, <1>3 DEF q

\* The smallest of the known context sizes.
LEMMA SmallestContext ==
  ASSUME NEW ctxs \in KnownContexts, ctxs # {}
  PROVE  Min(ctxs) \in Nat
<1>1. ctxs \subseteq Nat /\ IsFiniteSet(ctxs) /\ Cardinality(ctxs) \in 0..2
  BY PanelAssumption, FS_Subset DEF KnownContexts
<1>2. PICK c \in ctxs : TRUE
  OBVIOUS
<1>3. \E d \in ctxs : ctxs = {c, d}
  <2>1. IsFiniteSet(ctxs \ {c}) /\ Cardinality(ctxs \ {c}) \in 0..1
    <3>1. IsFiniteSet(ctxs \ {c}) /\ Cardinality(ctxs \ {c}) = Cardinality(ctxs) - 1
      BY <1>1, <1>2, FS_RemoveElement
    <3>2. Cardinality(ctxs) # 0
      BY <1>1, FS_EmptySet
    <3> QED
      BY <1>1, <3>1, <3>2
  <2>2. CASE ctxs \ {c} = {}
    BY <1>2, <2>2
  <2>3. CASE ctxs \ {c} # {}
    <3>1. PICK d \in ctxs \ {c} : TRUE
      BY <2>3
    <3>2. IsFiniteSet((ctxs \ {c}) \ {d}) /\ Cardinality((ctxs \ {c}) \ {d}) = 0
      <4>1. /\ IsFiniteSet((ctxs \ {c}) \ {d})
            /\ Cardinality((ctxs \ {c}) \ {d}) = Cardinality(ctxs \ {c}) - 1
        BY <2>1, <3>1, FS_RemoveElement
      <4>2. Cardinality((ctxs \ {c}) \ {d}) \in Nat
        BY <4>1, FS_CardinalityType
      <4> QED
        BY <2>1, <4>1, <4>2
    <3>3. (ctxs \ {c}) \ {d} = {}
      BY <3>2, FS_EmptySet
    <3> QED
      BY <1>2, <3>1, <3>3
  <2> QED
    BY <2>2, <2>3
<1>4. \E m \in ctxs : \A n \in ctxs : m <= n
  BY <1>1, <1>2, <1>3
<1>5. Min(ctxs) \in ctxs
  BY <1>4 DEF Min
<1> QED
  BY <1>1, <1>5

\* The threshold of a prompt whose usage is known, and what is due at it.
LEMMA TokensTrigger ==
  ASSUME NEW n \in 0..MaxTokens, NEW ctxs \in KnownContexts, NEW turns \in Nat
  PROVE  LET s == trigger_state(n, ctxs, turns)
         IN /\ s.source # "turn_count_fallback" /\ s.tokens = n /\ s.threshold \in Nat
            /\ s.will_trigger = (s.threshold > 0 /\ n * Den >= s.threshold)
<1> DEFINE k == IF ctxs # {} THEN Min(ctxs) * Num ELSE Flat * Den
           from == IF ctxs # {} THEN "token_ctx_fraction" ELSE "token_flat_fallback"
           s == trigger_state(n, ctxs, turns)
<1>1. k \in Nat
  <2>1. Num \in Nat /\ Flat \in Nat /\ Den \in Nat
    BY PanelAssumption
  <2>2. CASE ctxs = {}
    BY <2>1, <2>2
  <2>3. CASE ctxs # {}
    <3>1. Min(ctxs) \in Nat
      BY <2>3, SmallestContext
    <3> QED
      BY <2>1, <2>3, <3>1
  <2> QED
    BY <2>2, <2>3
<1>2. n # NoTokens
  BY DEF NoTokens
<1>3. from # "turn_count_fallback"
  OBVIOUS
<1> DEFINE due == k > 0 /\ n * Den >= k
<1>4. s = [source |-> from, tokens |-> n, threshold |-> k, will_trigger |-> due]
  BY <1>2, Zenon DEF trigger_state
<1> HIDE DEF k, from, s, due
<1>5. s.source = from /\ s.tokens = n /\ s.threshold = k /\ s.will_trigger = due
  BY <1>4
<1> QED
  BY <1>1, <1>3, <1>5, Zenon DEF due, s

\* For any chat, any threshold and any divisor: the server submits a summary beside a badge
\* and never while another is in flight, a summary that is due fills the bar, and the bar is
\* full without one only in the last half percent.
LEMMA BarsAreRight ==
  ASSUME NEW c \in Chats
  PROVE  BarIsFullWhenDue(c)
<1> DEFINE s == TriggerOf(c)
           p == Shown(c)
           counted == s.source # "turn_count_fallback"
<1>1. /\ c.tokens \in {NoTokens} \cup 0..MaxTokens /\ c.ctxs \in KnownContexts
      /\ c.turns \in Nat /\ c.in_flight \in BOOLEAN /\ c.queue \in BOOLEAN
      /\ c.tokens # NoTokens => c.turns > 0
  <2>1. 0..MaxTurns \subseteq Nat
    BY PanelAssumption
  <2> QED
    BY <2>1 DEF Chats
<1>2. /\ p.due = s.will_trigger /\ p.width = Percent(s.tokens, s.threshold)
      /\ p.running = (counted /\ c.in_flight) /\ (p.bar # "none" => counted)
  <2> HIDE DEF s
  <2> QED
    BY Zenon DEF Shown, summaryStatus, s
<1>3. Enqueues(c) = (c.turns > 0 /\ s.will_trigger /\ ~c.in_flight /\ c.queue)
  BY Zenon DEF Enqueues
<1> HIDE DEF s, p
<1>4. Enqueues(c) => p.due /\ ~p.running
  BY <1>2, <1>3, Zenon
<1>5. ASSUME p.bar # "none"
      PROVE  /\ p.due /\ ~p.running /\ c.queue => Enqueues(c)
             /\ p.due => p.width = 100
             /\ p.width = 100 /\ ~p.due => 200 * c.tokens * Den >= 199 * s.threshold
  <2>1. c.tokens \in 0..MaxTokens /\ c.turns > 0
    <3>1. CASE c.tokens = NoTokens
      <4>1. ~counted
        BY <3>1, Zenon DEF trigger_state, TriggerOf, s
      <4> QED
        BY <1>2, <1>5, <4>1, Zenon
    <3> QED
      BY <1>1, <3>1
  <2> DEFINE n == c.tokens
             k == s.threshold
  <2>2. s.tokens = n /\ k \in Nat /\ s.will_trigger = (k > 0 /\ n * Den >= k)
    BY <1>1, <2>1, TokensTrigger, Zenon DEF TriggerOf, s
  <2>3. p.due /\ ~p.running /\ c.queue => Enqueues(c)
    BY <1>2, <1>3, <1>5, <2>1, Zenon
  <2> HIDE DEF n, k
  <2>4. n \in Nat /\ Den \in Nat /\ n * Den \in Nat /\ 200 * n * Den = 200 * (n * Den)
    <3>1. n \in Nat /\ Den \in Nat
      BY <2>1, PanelAssumption DEF n
    <3> QED
      BY <3>1
  <2>5. p.width = Percent(n, k)
    BY <1>2, <2>2, Zenon DEF k
  <2>6. CASE k = 0
    <3>1. p.width # 100
      BY <2>5, <2>6 DEF Percent
    <3>2. ~p.due
      <4>1. ~(k > 0 /\ n * Den >= k)
        BY <2>6
      <4> QED
        BY <1>2, <2>2, <4>1, Zenon
    <3> QED
      BY <2>3, <3>1, <3>2, Zenon
  <2>7. CASE k # 0
    <3>1. k \in Nat \ {0}
      BY <2>2, <2>7
    <3>2. p.width = 100 <=> 200 * (n * Den) >= 199 * k
      <4> DEFINE x == n * Den
      <4>1. p.width = Min({100, (200 * x + k) \div (2 * k)})
        BY <2>4, <2>5, <3>1 DEF Percent
      <4>2. x \in Nat
        BY <2>4
      <4> DEFINE w == Min({100, (200 * x + k) \div (2 * k)})
      <4> HIDE DEF x
      <4>3. w = 100 <=> 200 * x >= 199 * k
        BY <3>1, <4>2, PercentIs, Zenon
      <4>4. p.width = w
        BY <4>1
      <4> HIDE DEF w
      <4> QED
        BY <4>3, <4>4 DEF x
    <3>3. p.due => 200 * (n * Den) >= 199 * k
      <4>1. n * Den >= k => 200 * (n * Den) >= 199 * k
        BY <2>4, <3>1
      <4> QED
        BY <1>2, <2>2, <4>1, Zenon
    <3>4. p.width = 100 /\ ~p.due => 200 * n * Den >= 199 * k
      BY <2>4, <3>2
    <3> QED
      BY <2>3, <3>2, <3>3, <3>4, Zenon DEF n, k
  <2> QED
    BY <2>6, <2>7
<1> QED
  BY <1>4, <1>5, Zenon DEF BarIsFullWhenDue, s, p

\* Debug view (summaryStatus, trigger_state, maybe_enqueue_summary): for every chat, with
\* sizes known or not and a summary in flight or not, the page never says that a summary is
\* due beside a bar that is not full, nor fills the bar of a chat far from its threshold; of
\* the chats with a bar the server submits a summary for those marked due and not running.
THEOREM DueBarIsAlwaysFull == MCSpec => []DueBarIsFull
<1> DEFINE Given == input \in Inputs \cup {NoInput}
<1>1. MCInit => Given
  BY DEF MCInit
<1>2. Given /\ [MCNext]_mcVars => Given'
  BY DEF MCNext, mcVars
<1>3. Given => DueBarIsFull
  <2> SUFFICES ASSUME Given, input.of = "chat"
               PROVE  BarIsFullWhenDue(input.chat)
    BY DEF DueBarIsFull
  <2>1. input \in [of : {"chat"}, chat : Chats]
    BY DEF Inputs, NoInput
  <2> QED
    BY <2>1, BarsAreRight
<1> QED
  BY <1>1, <1>2, <1>3, PTL DEF MCSpec
-----------------------------------------------------------------------------
(* The reader of a stream *)

\* How far the reader is: h blocks are handled, and the buffer has what came after them.
At(h) ==
  /\ arrived = 2 * h + Len(buf)
  /\ \A k \in 1..Len(buf) : buf[k] = 2 * h + k
  /\ reading # "handling" => Len(buf) <= 1
  /\ \A k \in DOMAIN handled : \E i \in 1..h : handled[k] = {i}
  /\ \A j, k \in DOMAIN handled : j < k => \A a \in handled[j], b \in handled[k] : a < b
  /\ Told = Data(1..h)
  /\ terminal = "none" => \A i \in 1..h : blocks[i] \notin Terminal
  /\ terminal # "none" => \E i \in 1..h : blocks[i] = terminal

\* What the reader has returned is what it knows, and who must be told is told.
Outcome ==
  /\ reading \in Terminal => reading = terminal
  /\ lost => terminal = "none" /\ reading = "lost"
  /\ requireTerminal /\ reading = "lost" => lost

ReaderInv == ReaderTypeOK /\ Outcome /\ \E h \in 0..Len(blocks) : At(h)

\* Streams are sequences of blocks.
LEMMA StreamIs ==
  ASSUME NEW s \in Streams
  PROVE  s \in Seq(Block) /\ Len(s) \in Nat /\ DOMAIN s = 1..Len(s)
<1>1. PICK n \in 0..MaxBlocks : s \in [1..n -> Block]
  BY DEF Streams, SeqOf
<1>2. s \in Seq(Block)
  BY <1>1, ReaderAssumption, SeqDef
<1> QED
  BY <1>2, LenProperties

\* The invariant says what is checked.
LEMMA InvIsEnough == ReaderInv => StreamIsReadWhole
<1> SUFFICES ASSUME ReaderInv PROVE StreamIsReadWhole
  OBVIOUS
<1>1. PICK h \in 0..Len(blocks) : At(h)
  BY DEF ReaderInv
<1>2. Len(blocks) \in Nat /\ DOMAIN blocks = 1..Len(blocks) /\ Len(buf) \in Nat
      /\ arrived \in Nat /\ h \in Nat
  BY StreamIs DEF ReaderInv, ReaderTypeOK
<1>3. 1..h \subseteq Whole
  BY <1>1, <1>2 DEF Whole, At
<1>4. reading # "handling" => Whole = 1..h
  BY <1>1, <1>2, <1>3 DEF Whole, At
<1>5. ChunksDoNotMatter
  BY <1>1, <1>3, <1>4 DEF ChunksDoNotMatter, At
<1>6. reading \in Returned => reading # "handling"
  BY DEF Returned, Terminal
<1>7. LostIsTold
  <2>1. reading \in Terminal => \E i \in Whole : blocks[i] = reading
    BY <1>1, <1>3 DEF ReaderInv, Outcome, At, Terminal
  <2>2. requireTerminal => (lost <=> reading = "lost")
    BY DEF ReaderInv, Outcome
  <2>3. lost => \A i \in Whole : blocks[i] \notin Terminal
    BY <1>1, <1>4 DEF ReaderInv, Outcome, At
  <2> QED
    BY <2>1, <2>2, <2>3 DEF LostIsTold
<1>8. DoneIsWhole
  <2> SUFFICES ASSUME Golden, reading \in Terminal PROVE Told = Data(DOMAIN blocks)
    BY DEF DoneIsWhole
  <2>1. PICK i \in 1..h : blocks[i] \in Terminal
    BY <1>1 DEF ReaderInv, Outcome, At, Terminal
  <2>2. Data((i + 1)..Len(blocks)) = {}
    BY <1>2, <2>1 DEF Golden
  <2>3. Data(1..h) = Data(DOMAIN blocks)
    BY <1>2, <2>1, <2>2 DEF Data
  <2> QED
    BY <1>1, <2>3 DEF At
<1> QED
  BY <1>5, <1>7, <1>8 DEF StreamIsReadWhole

\* Nothing has been read when a response comes.
LEMMA InitReads == ReaderInit => ReaderInv
<1> SUFFICES ASSUME ReaderInit PROVE ReaderInv
  OBVIOUS
<1>1. <<>> \in Streams
  BY ReaderAssumption DEF Streams, SeqOf
<1>2. ReaderTypeOK
  <2>1. Len(blocks) = 0 /\ <<>> \in Seq(1..0) /\ <<>> \in Seq(SUBSET DOMAIN blocks)
    BY DEF ReaderInit
  <2>2. blocks \in Streams
    BY <1>1 DEF ReaderInit
  <2>3. arrived \in 0..2 * Len(blocks) /\ buf \in Seq(1..arrived) /\ handled \in Seq(SUBSET DOMAIN blocks)
    BY <2>1 DEF ReaderInit
  <2>4. terminal \in Terminal \cup {"none"} /\ reading \in Stage
    BY DEF ReaderInit, Stage
  <2> QED
    BY <2>2, <2>3, <2>4 DEF ReaderInit, ReaderTypeOK
<1>3. At(0)
  BY DEF ReaderInit, At, Told, Data
<1> QED
  BY <1>2, <1>3 DEF ReaderInit, ReaderInv, Outcome, Terminal, Returned

\* A response starts a read, and so does one that cannot be read.
LEMMA StartReads ==
  ASSUME NEW stream \in Streams, NEW required \in BOOLEAN, Start(stream, required),
         \/ lost' = FALSE /\ reading' = "checking"
         \/ lost' = TRUE /\ reading' = "lost"
  PROVE  ReaderInv'
<1>1. Len(blocks') \in Nat
  BY StreamIs DEF Start
<1>2. ReaderTypeOK'
  <2>1. 0 \in 0..2 * Len(blocks') /\ <<>> \in Seq(1..0) /\ <<>> \in Seq(SUBSET DOMAIN blocks')
    BY <1>1
  <2>2. lost' \in BOOLEAN /\ reading' \in Stage
    BY DEF Stage, Returned
  <2> QED
    BY <2>1, <2>2 DEF Start, ReaderTypeOK
<1>3. At(0)'
  BY DEF Start, At, Told, Data
<1>4. Outcome'
  BY DEF Start, Outcome, Terminal
<1> QED
  BY <1>1, <1>2, <1>3, <1>4 DEF ReaderInv

\* A sequence whose elements are of a set is one of that set.
LEMMA ElementsOf ==
  ASSUME NEW S, NEW T, NEW s \in Seq(S), \A k \in 1..Len(s) : s[k] \in T
  PROVE  s \in Seq(T)
<1>1. s \in [1..Len(s) -> T] /\ Len(s) \in Nat
  BY LenProperties
<1> QED
  BY <1>1, SeqDef

\* A chunk is put after what is there.
LEMMA ArrivesReads ==
  ASSUME ReaderInv, NEW n \in 1..2 * MaxBlocks, Arrives(n)
  PROVE  ReaderInv'
<1>1. PICK h \in 0..Len(blocks) : At(h)
  BY DEF ReaderInv
<1>2. /\ Len(blocks) \in Nat /\ arrived \in Nat /\ h \in Nat /\ n \in Nat
      /\ buf \in Seq(1..arrived) /\ Len(buf) \in Nat
  BY StreamIs, ReaderAssumption DEF ReaderInv, ReaderTypeOK
<1> DEFINE chunk == [k \in 1..n |-> arrived + k]
<1>3. chunk \in Seq(Nat) /\ Len(chunk) = n
  <2>1. chunk \in [1..n -> Nat]
    BY <1>2
  <2> QED
    BY <1>2, <2>1, SeqDef, LenProperties
<1>4. \A k \in 1..n : chunk[k] = arrived + k
  OBVIOUS
<1>5. buf \in Seq(Nat)
  BY <1>2
<1> HIDE DEF chunk
<1> DEFINE old == Len(buf)
<1>13. arrived = 2 * h + old /\ \A k \in 1..old : buf[k] = 2 * h + k
  BY <1>1 DEF At
<1>6. /\ buf' \in Seq(Nat) /\ Len(buf') = Len(buf) + n /\ arrived' = arrived + n
      /\ \A k \in 1..Len(buf') :
           buf'[k] = IF k <= Len(buf) THEN buf[k] ELSE chunk[k - Len(buf)]
  BY <1>2, <1>3, <1>5 DEF Arrives, chunk
<1>7. \A k \in 1..Len(buf') : buf'[k] = 2 * h + k
  <2> TAKE k \in 1..Len(buf')
  <2>1. old \in Nat /\ k \in Nat \ {0} /\ k <= old + n
    BY <1>2, <1>6
  <2>2. CASE k <= old
    <3>1. buf'[k] = buf[k] /\ k \in 1..old
      BY <1>6, <2>1, <2>2
    <3> QED
      BY <1>13, <3>1
  <2>3. CASE ~(k <= old)
    <3> HIDE DEF old
    <3>1. k - old \in 1..n /\ arrived + (k - old) = 2 * h + k
      BY <1>2, <1>13, <2>1, <2>3
    <3>2. buf'[k] = chunk[k - old]
      BY <1>6, <2>3 DEF old
    <3> QED
      BY <1>4, <3>1, <3>2
  <2> QED
    BY <2>2, <2>3
<1>8. arrived' = 2 * h + Len(buf') /\ arrived' \in 0..2 * Len(blocks)
  BY <1>1, <1>2, <1>6 DEF At, Arrives
<1>9. buf' \in Seq(1..arrived')
  <2>1. Len(buf') \in Nat
    BY <1>6, LenProperties
  <2>2. \A k \in 1..Len(buf') : 2 * h + k \in 1..arrived'
    BY <1>2, <1>8, <2>1
  <2>3. \A k \in 1..Len(buf') : buf'[k] \in 1..arrived'
    BY <1>7, <2>2
  <2>4. \A S, T : \A s \in Seq(S) : (\A k \in 1..Len(s) : s[k] \in T) => s \in Seq(T)
    BY ElementsOf
  <2>5. buf' \in Seq(Nat)
    BY <1>6
  <2> QED
    BY <2>3, <2>4, <2>5
<1>10. ReaderTypeOK'
  BY <1>8, <1>9 DEF Arrives, ReaderInv, ReaderTypeOK, response, Stage
<1>11. At(h)'
  BY <1>1, <1>7, <1>8 DEF At, Arrives, response, Told, Data
<1>12. Outcome'
  BY DEF ReaderInv, Outcome, Arrives, response, Terminal
<1> QED
  BY <1>10, <1>11, <1>12 DEF ReaderInv, Arrives, response

\* The first empty line of the buffer ends the next block, and no other.
LEMMA NextBlock ==
  ASSUME ReaderInv, NEW h \in 0..Len(blocks), At(h), NEW sep \in DOMAIN buf,
         IsEmptyLine(buf[sep]), \A k \in 1..(sep - 1) : ~IsEmptyLine(buf[k])
  PROVE  /\ sep = 2 /\ Len(buf) >= 2 /\ h + 1 <= Len(blocks)
         /\ parseBlock(SubSeq(buf, 1, sep - 1)) = Data({h + 1})
<1>1. /\ Len(blocks) \in Nat /\ DOMAIN blocks = 1..Len(blocks) /\ arrived \in Nat /\ h \in Nat
      /\ buf \in Seq(Nat) /\ Len(buf) \in Nat /\ sep \in 1..Len(buf)
      /\ arrived <= 2 * Len(blocks)
  BY StreamIs, LenProperties DEF ReaderInv, ReaderTypeOK
<1>2. \A k \in 1..Len(buf) : buf[k] = 2 * h + k
  BY DEF At
<1>3. ~IsEmptyLine(2 * h + 1) /\ IsEmptyLine(2 * h + 2)
  BY <1>1 DEF IsEmptyLine
<1>4. sep # 1
  BY <1>1, <1>2, <1>3
<1>5. ~(sep > 2)
  <2> SUFFICES ASSUME sep > 2 PROVE FALSE
    OBVIOUS
  <2>1. 2 \in 1..(sep - 1) /\ 2 \in 1..Len(buf)
    BY <1>1
  <2>2. buf[2] = 2 * h + 2
    BY <1>2, <2>1
  <2> QED
    BY <1>3, <2>1, <2>2
<1>6. sep = 2 /\ Len(buf) >= 2
  BY <1>1, <1>4, <1>5
<1>7. h + 1 <= Len(blocks)
  BY <1>1, <1>6 DEF At
<1> DEFINE lines == SubSeq(buf, 1, sep - 1)
<1>8. Len(lines) = 1 /\ lines[1] = 2 * h + 1
  BY <1>1, <1>2, <1>6
<1> HIDE DEF lines
<1>9. \A i \in DOMAIN blocks : Contains(lines, LinesOf(i)) <=> i = h + 1
  <2> TAKE i \in DOMAIN blocks
  <2>1. Contains(lines, LinesOf(i)) <=> 2 * h + 1 = LinesOf(i)
    <3>1. \A k : k \in 1..Len(lines) <=> k = 1
      BY <1>8
    <3> QED
      BY <1>8, <3>1 DEF Contains
  <2>2. i \in Nat
    BY <1>1
  <2>3. LinesOf(i) = 2 * i - 1
    BY DEF LinesOf
  <2>4. h \in Nat
    BY <1>1
  <2>5. 2 * h + 1 = 2 * i - 1 <=> i = h + 1
    BY <2>2, <2>4
  <2> QED
    BY <2>1, <2>3, <2>5
<1>10. parseBlock(lines) = Data({h + 1})
  BY <1>1, <1>7, <1>9 DEF parseBlock, Data
<1> QED
  BY <1>6, <1>7, <1>10 DEF lines

\* A block is handled after those before it.
LEMMA HandleReads ==
  ASSUME ReaderInv, HandleBlock
  PROVE  ReaderInv'
<1>1. PICK h \in 0..Len(blocks) : At(h)
  BY DEF ReaderInv
<1>2. PICK sep \in DOMAIN buf :
        /\ IsEmptyLine(buf[sep]) /\ \A k \in 1..(sep - 1) : ~IsEmptyLine(buf[k])
        /\ LET parsed == parseBlock(SubSeq(buf, 1, sep - 1))
               ends == {blocks[i] : i \in parsed} \cap Terminal
           IN /\ handled' = IF parsed = {} THEN handled ELSE Append(handled, parsed)
              /\ terminal' \in IF ends = {} THEN {terminal} ELSE ends
        /\ buf' = SubSeq(buf, sep + 1, Len(buf))
  BY DEF HandleBlock
<1>3. /\ sep = 2 /\ Len(buf) >= 2 /\ h + 1 <= Len(blocks)
      /\ parseBlock(SubSeq(buf, 1, sep - 1)) = Data({h + 1})
  BY <1>1, <1>2, NextBlock
<1>4. /\ Len(blocks) \in Nat /\ DOMAIN blocks = 1..Len(blocks) /\ arrived \in Nat /\ h \in Nat
      /\ buf \in Seq(1..arrived) /\ Len(buf) \in Nat /\ handled \in Seq(SUBSET DOMAIN blocks)
      /\ \A k \in 1..Len(buf) : buf[k] = 2 * h + k
      /\ arrived = 2 * h + Len(buf)
      /\ blocks \in Seq(Block)
  BY <1>1, StreamIs, LenProperties DEF ReaderInv, ReaderTypeOK, At
<1>5. UNCHANGED <<blocks, requireTerminal, arrived, aborted, lost, reading>>
      /\ reading = "handling"
  BY DEF HandleBlock, response
<1>6. /\ buf' \in Seq(1..arrived) /\ Len(buf') = Len(buf) - 2
      /\ \A k \in 1..Len(buf') : buf'[k] = 2 * (h + 1) + k
  <2>1. buf' = SubSeq(buf, 3, Len(buf))
    BY <1>2, <1>3
  <2>2. /\ buf' \in Seq(1..arrived) /\ Len(buf') = Len(buf) - 2
        /\ \A k \in 1..Len(buf') : buf'[k] = buf[3 + k - 1]
    <3>1. \A k \in 3..Len(buf) : buf[k] \in 1..arrived
      BY <1>4
    <3>2. CASE Len(buf) = 2
      BY <2>1, <3>2
    <3>3. CASE Len(buf) >= 3
      <4>1. Len(buf) \in Int /\ 3 \in Int
        BY <1>4
      <4>2. /\ SubSeq(buf, 3, Len(buf)) \in Seq(1..arrived)
            /\ Len(SubSeq(buf, 3, Len(buf))) = Len(buf) - 3 + 1
            /\ \A k \in 1..(Len(buf) - 3 + 1) : SubSeq(buf, 3, Len(buf))[k] = buf[3 + k - 1]
        BY <3>1, <3>3, <4>1, SubSeqProperties
      <4>3. Len(buf) - 3 + 1 = Len(buf) - 2
        BY <4>1
      <4> QED
        BY <2>1, <4>2, <4>3
    <3>4. Len(buf) = 2 \/ Len(buf) >= 3
      <4>1. Len(buf) \in Nat /\ Len(buf) >= 2
        BY <1>3, <1>4
      <4>2. \A n \in Nat : n >= 2 => n = 2 \/ n >= 3
        OBVIOUS
      <4> QED
        BY <4>1, <4>2
    <3> QED
      BY <3>2, <3>3, <3>4
  <2>3. \A k \in 1..Len(buf') : buf[3 + k - 1] = 2 * (h + 1) + k
    <3> TAKE k \in 1..Len(buf')
    <3>1. k \in Nat \ {0} /\ 3 + k - 1 \in 1..Len(buf)
      BY <1>3, <1>4, <2>2
    <3> QED
      BY <1>4, <3>1
  <2> QED
    BY <2>2, <2>3
<1>7. 1..(h + 1) = 1..h \cup {h + 1} /\ \A i \in 1..h : i < h + 1
  BY <1>4
<1>8. Data(1..(h + 1)) = Data(1..h) \cup Data({h + 1})
  BY <1>7 DEF Data
<1>9. /\ \A k \in DOMAIN handled : \E i \in 1..h : handled[k] = {i}
      /\ \A j, k \in DOMAIN handled : j < k => \A a \in handled[j], b \in handled[k] : a < b
      /\ Told = Data(1..h)
      /\ terminal = "none" => \A i \in 1..h : blocks[i] \notin Terminal
      /\ terminal # "none" => \E i \in 1..h : blocks[i] = terminal
  BY <1>1 DEF At
<1>10. CASE blocks[h + 1] = "comment"
  <2>1. Data({h + 1}) = {}
    BY <1>10 DEF Data
  <2>2. handled' = handled /\ terminal' = terminal
    BY <1>2, <1>3, <2>1
  <2>3. At(h + 1)'
    <3>1. Told' = Data(1..(h + 1))'
      BY <1>5, <1>8, <1>9, <2>1, <2>2 DEF Told, Data
    <3>2. \A i \in 1..(h + 1) : blocks[i] \in Terminal => i \in 1..h
      BY <1>7, <1>10 DEF Terminal
    <3>3. arrived' = 2 * (h + 1) + Len(buf')
      BY <1>4, <1>5, <1>6
    <3> QED
      BY <1>5, <1>6, <1>7, <1>9, <2>2, <3>1, <3>2, <3>3 DEF At
  <2>4. ReaderTypeOK'
    BY <1>5, <1>6, <2>2 DEF ReaderInv, ReaderTypeOK
  <2>5. Outcome'
    BY <1>5, <2>2 DEF ReaderInv, Outcome
  <2> QED
    BY <1>3, <1>4, <1>5, <2>3, <2>4, <2>5 DEF ReaderInv
<1>11. CASE blocks[h + 1] # "comment"
  <2>1. Data({h + 1}) = {h + 1}
    BY <1>11 DEF Data
  <2>2. handled' = Append(handled, {h + 1})
    BY <1>2, <1>3, <2>1
  <2>3. terminal' = IF blocks[h + 1] \in Terminal THEN blocks[h + 1] ELSE terminal
    BY <1>2, <1>3, <2>1
  <2>4. /\ handled' \in Seq(SUBSET DOMAIN blocks)
        /\ Len(handled') = Len(handled) + 1 /\ Len(handled) \in Nat
        /\ DOMAIN handled' = DOMAIN handled \cup {Len(handled) + 1}
        /\ \A k \in DOMAIN handled : handled'[k] = handled[k] /\ k < Len(handled) + 1
        /\ handled'[Len(handled) + 1] = {h + 1}
    <3>1. {h + 1} \in SUBSET DOMAIN blocks
      BY <1>3, <1>4
    <3> QED
      BY <1>4, <2>2, <3>1
  <2>5. At(h + 1)'
    <3>1. Told' = Data(1..(h + 1))'
      <4>1. Told' = Told \cup {h + 1}
        BY <2>4 DEF Told
      <4>2. Data(1..(h + 1))' = Data(1..(h + 1))
        BY <1>5 DEF Data
      <4> QED
        BY <1>8, <1>9, <2>1, <4>1, <4>2
    <3>2. \A k \in DOMAIN handled' : \E i \in 1..(h + 1) : handled'[k] = {i}
      BY <1>7, <1>9, <2>4
    <3>3. \A j, k \in DOMAIN handled' : j < k =>
            \A a \in handled'[j], b \in handled'[k] : a < b
      <4> SUFFICES ASSUME NEW j \in DOMAIN handled', NEW k \in DOMAIN handled', j < k
                   PROVE  \A a \in handled'[j], b \in handled'[k] : a < b
        OBVIOUS
      <4>1. j \in DOMAIN handled
        BY <1>4, <2>4
      <4>2. CASE k \in DOMAIN handled
        BY <1>9, <2>4, <4>1, <4>2
      <4>3. CASE k = Len(handled) + 1
        BY <1>7, <1>9, <2>4, <4>1, <4>3
      <4> QED
        BY <2>4, <4>2, <4>3
    <3>4. terminal' = "none" => \A i \in 1..(h + 1) : blocks[i] \notin Terminal
      BY <1>7, <1>9, <2>3 DEF Terminal
    <3>5. terminal' # "none" => \E i \in 1..(h + 1) : blocks[i] = terminal'
      BY <1>7, <1>9, <2>3
    <3>6. arrived' = 2 * (h + 1) + Len(buf')
      BY <1>4, <1>5, <1>6
    <3> QED
      BY <1>5, <1>6, <3>1, <3>2, <3>3, <3>4, <3>5, <3>6 DEF At
  <2>6. ReaderTypeOK'
    BY <1>5, <1>6, <2>3, <2>4 DEF ReaderInv, ReaderTypeOK
  <2>7. Outcome'
    BY <1>5 DEF ReaderInv, Outcome, Terminal
  <2> QED
    BY <1>3, <1>4, <1>5, <2>5, <2>6, <2>7 DEF ReaderInv
<1> QED
  BY <1>10, <1>11

\* The other steps move the reader on, or end the read.
LEMMA OtherReads ==
  ASSUME ReaderInv, Abort \/ Check \/ NoBlock \/ Ends \/ Fails \/ UNCHANGED readerVars
  PROVE  ReaderInv'
<1>1. PICK h \in 0..Len(blocks) : At(h)
  BY DEF ReaderInv
<1>2. UNCHANGED <<response, read>>
  BY DEF Abort, Check, NoBlock, Ends, Fails, readerVars, response, read
<1>3. Told' = Told /\ Data(1..h)' = Data(1..h)
  BY <1>2 DEF Told, Data, response, read
<1>4. reading' # "handling" => Len(buf) <= 1
  <2>1. CASE NoBlock
    <3>1. buf \in Seq(1..arrived) /\ Len(buf) \in Nat /\ h \in Nat /\ DOMAIN buf = 1..Len(buf)
      BY LenProperties, StreamIs DEF ReaderInv, ReaderTypeOK
    <3>2. Len(buf) >= 2 => buf[2] = 2 * h + 2 /\ IsEmptyLine(2 * h + 2)
      BY <1>1, <3>1 DEF At, IsEmptyLine
    <3> QED
      BY <2>1, <3>1, <3>2 DEF NoBlock
  <2>2. CASE ~NoBlock
    BY <1>1, <2>2 DEF Abort, Check, Ends, Fails, readerVars, At
  <2> QED
    BY <2>1, <2>2
<1>5. At(h)'
  BY <1>1, <1>2, <1>3, <1>4 DEF At, response, read
<1>6. ReaderTypeOK'
  BY <1>2
     DEF Abort, Check, NoBlock, Ends, Fails, Return, readerVars, response, read, ReaderInv,
         ReaderTypeOK, Stage, Returned, Terminal
<1>7. Outcome'
  BY <1>2
     DEF Abort, Check, NoBlock, Ends, Fails, Return, Idle, readerVars, response, read, ReaderInv,
         ReaderTypeOK, Outcome, Returned, Terminal
<1> QED
  BY <1>2, <1>5, <1>6, <1>7 DEF ReaderInv, response

\* Every step of the reader keeps the invariant.
LEMMA NextReads ==
  ASSUME ReaderInv, [ReaderNext]_readerVars
  PROVE  ReaderInv'
<1>1. CASE \E stream \in Streams, required \in BOOLEAN : Respond(stream, required)
  BY <1>1, StartReads DEF Respond
<1>2. CASE \E required \in BOOLEAN : NotOk(required)
  <2>1. <<>> \in Streams
    BY ReaderAssumption DEF Streams, SeqOf
  <2> QED
    BY <1>2, <2>1, StartReads DEF NotOk
<1>3. CASE \E n \in 1..2 * MaxBlocks : Arrives(n)
  BY <1>3, ArrivesReads
<1>4. CASE HandleBlock
  BY <1>4, HandleReads
<1>5. CASE Abort \/ Check \/ NoBlock \/ Ends \/ Fails \/ UNCHANGED readerVars
  BY <1>5, OtherReads
<1> QED
  BY <1>1, <1>2, <1>3, <1>4, <1>5 DEF ReaderNext

\* readSseStream: what is handled, what is buffered and what has come always add up.
THEOREM ReaderInvariant == ReaderSpec => []ReaderInv
<1> QED
  BY InitReads, NextReads, PTL DEF ReaderSpec

\* readSseStream: the buffer never has what has not come, whatever is read.
THEOREM ReaderTypeCorrect == ReaderSpec => []ReaderTypeOK
<1>1. ReaderInv => ReaderTypeOK
  BY DEF ReaderInv
<1> QED
  BY <1>1, ReaderInvariant, PTL

\* readSseStream: however the network cuts the stream, and wherever it breaks, every block
\* that came whole is handled once and in order, the user is told of a lost connection
\* exactly when it is lost, and a stream that is done is not missing anything.
THEOREM StreamAlwaysReadWhole == ReaderSpec => []StreamIsReadWhole
<1> QED
  BY InvIsEnough, ReaderInvariant, PTL
=============================================================================
