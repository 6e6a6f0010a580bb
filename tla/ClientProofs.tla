----------------------------- MODULE ClientProofs -----------------------------
(***************************************************************************)
(* Proofs about two parts of the web client.  SettingsView, for any rows,  *)
(* values, classes and panels: the server only gets what was in the page   *)
(* at a click, and a row that is not marked is what the server has, for a  *)
(* user who waits for each request.  Shell, for any chats and any number   *)
(* of visits: the address bar, the list and the message that opens a chat  *)
(* are right for a user who lets each page come up.                        *)
(***************************************************************************)
EXTENDS MCSettingsView, Shell, SequenceTheorems, FiniteSetTheorems, TLAPS

-----------------------------------------------------------------------------
(* The settings page *)

\* The rows an apply still has to send are as they were when it was clicked.
SentWasClicked ==
  \A p \in Panel : panel[p].pc = "putting" =>
    \A m \in panel[p].todo : <<m, panel[p].sent.models[m]>> \in clicked

\* The panel that was drawn last is on the page, and only a page that has loaded has
\* panels; each kind has its own requests.
PanelsArePlaced ==
  /\ shown # 0 => panel[shown].here
  /\ host.load = "ready" => shown # 0
  /\ \A p \in Panel : panel[p].here => host.load = "ready"

Applying(p) == panel[p].pc \in {"putting", "posting"}

\* What the server has while the rows of the table are sent one by one.
Sending(p) ==
  /\ panel[p].sent.models = panel[p].drafts
  /\ panel[p].pc = "posting" => panel[p].todo = {}
  /\ \A m \in Model :
       stored.models[m] = IF m \in panel[p].todo THEN panel[p].baseline[m] ELSE panel[p].drafts[m]

\* While the user has waited for each request and none has failed: at most the panel on
\* the page is at work, and what view and panel take for the server's is the server's,
\* but for the rows an apply has sent.
WaitingUser ==
  /\ \A p \in Panel : Busy(p) => p = shown
  /\ host.load = "served" => host.fetched = stored
  /\ shown # 0 /\ panel[shown].kind = "models" => panel[shown].baseline = host.baseline
  /\ host.load = "ready" /\ ~Applying(shown) => host.baseline = stored.models
  /\ shown # 0 /\ Applying(shown) => panel[shown].kind = "models" /\ Sending(shown)

SettingsInv == TypeOK /\ SentWasClicked /\ PanelsArePlaced /\ (~hasty => WaitingUser)

-----------------------------------------------------------------------------
(* Types *)

\* There are settings to start from.
LEMMA SettingsExist == AnySettings \in Settings
<1>1. PICK v \in Value, r \in Rules : TRUE
  BY SettingsAssumption
<1>2. [m \in Model |-> v] \in Placement /\ [i \in Intent |-> NoAlias] \in [Intent -> Alias \cup {NoAlias}]
  BY DEF Placement
<1>3. [rules |-> r, intents |-> [i \in Intent |-> NoAlias]] \in Routing
  BY <1>2 DEF Routing
<1>4. [models |-> [m \in Model |-> v],
       routing |-> [rules |-> r, intents |-> [i \in Intent |-> NoAlias]]] \in Settings
  BY <1>2, <1>3 DEF Settings
<1>5. QED
  BY <1>4 DEF AnySettings

\* What a forgotten panel is, and a new view.
LEMMA NothingTyped ==
  /\ NoPanel \in PanelState /\ NoPanel.pc = "idle" /\ ~NoPanel.here /\ NoPanel.kind = "none"
  /\ Fresh \in Host /\ Fresh.load = "loading"
<1>1. AnySettings.models \in Placement /\ AnySettings.routing \in Routing
  BY SettingsExist DEF Settings
<1>2. QED
  BY <1>1, SettingsExist DEF NoPanel, PanelState, Fresh, Host

\* Forgetting only forgets panels that are at rest and not on the page.
LEMMA AliveKeeps ==
  ASSUME NEW ps \in [Panel -> PanelState], NEW seen
  PROVE  /\ Alive(ps, seen) \in [Panel -> PanelState]
         /\ \A p \in Panel : Alive(ps, seen)[p] = IF ps[p].pc # "idle" \/ p = seen THEN ps[p] ELSE NoPanel
BY NothingTyped DEF Alive

\* A panel that is made.
LEMMA NewPanelTyped ==
  ASSUME NEW h \in Host
  PROVE  /\ NewPanel(h) \in PanelState /\ NewPanel(h).pc = "idle" /\ NewPanel(h).here
         /\ NewPanel(h).kind = h.tab /\ (h.tab = "models" => NewPanel(h).baseline = h.baseline)
BY NothingTyped DEF NewPanel, PanelState, Host

\* A render forgets what is at rest and draws a new panel.
LEMMA Rendered ==
  ASSUME TypeOK, NEW h \in Host, Render(h)
  PROVE  /\ host' = h /\ shown' \in Panel /\ panel' \in [Panel -> PanelState]
         /\ panel'[shown'] = NewPanel(h)
         /\ \A p \in Panel : p # shown' => panel'[p] = IF Busy(p) THEN panel[p] ELSE NoPanel
<1> DEFINE ps == Alive(panel, 0)
           free == {p \in Panel : ps[p].kind = "none"}
           new == CHOOSE p \in free : TRUE
<1>1. free # {} /\ host' = h /\ panel' = [ps EXCEPT ![new] = NewPanel(h)] /\ shown' = new
  BY DEF Render
<1>2. /\ ps \in [Panel -> PanelState]
      /\ \A p \in Panel : ps[p] = IF Busy(p) THEN panel[p] ELSE NoPanel
  BY AliveKeeps, SettingsAssumption DEF TypeOK, Busy, Panel
<1>3. new \in Panel
  BY <1>1
<1> HIDE DEF ps, free, new
<1>4. QED
  BY <1>1, <1>2, <1>3, NewPanelTyped

\* The end of a request puts its panel to rest and on the page, if that is still there.
LEMMA Finished ==
  ASSUME TypeOK, NEW p \in Panel, NEW settled \in PanelState, Finish(p, settled)
  PROVE  /\ panel' \in [Panel -> PanelState]
         /\ shown' = (IF panel[p].here THEN p ELSE shown)
         /\ \A q \in Panel : q # p =>
              panel'[q] = IF Busy(q) \/ q = shown' THEN panel[q] ELSE NoPanel
         /\ panel'[p] = IF p = shown'
              THEN [settled EXCEPT !.pc = "idle", !.todo = {}, !.sent = AnySettings] ELSE NoPanel
<1> DEFINE seen == IF panel[p].here THEN p ELSE shown
           idle == [settled EXCEPT !.pc = "idle", !.todo = {}, !.sent = AnySettings]
           ps == [panel EXCEPT ![p] = idle]
<1>1. shown' = seen /\ panel' = Alive(ps, seen)
  BY DEF Finish
<1>2. idle \in PanelState /\ idle.pc = "idle"
  BY SettingsExist DEF PanelState
<1> HIDE DEF idle
<1>3. ps \in [Panel -> PanelState] /\ ps[p] = idle /\ \A q \in Panel : q # p => ps[q] = panel[q]
  BY <1>2 DEF TypeOK
<1>4. /\ panel' \in [Panel -> PanelState]
      /\ \A q \in Panel : panel'[q] = IF ps[q].pc # "idle" \/ q = shown' THEN ps[q] ELSE NoPanel
  <2> HIDE DEF ps, seen
  <2>1. QED
    BY <1>1, <1>3, AliveKeeps
<1>5. QED
  BY <1>1, <1>2, <1>3, <1>4 DEF Busy, idle
-----------------------------------------------------------------------------
(* The view *)

LEMMA InitSettings == Init => SettingsInv
<1> SUFFICES ASSUME Init PROVE SettingsInv
  OBVIOUS
<1>1. TypeOK
  <2>1. host \in Host /\ panel \in [Panel -> PanelState] /\ shown \in 0..MaxPanels
    BY NothingTyped, SettingsAssumption DEF Init
  <2>2. clicked \in SUBSET (Model \X Value)
    <3> DEFINE rows == Model \X Value
    <3> HIDE DEF rows
    <3>1. clicked \in SUBSET rows
      BY DEF Init
    <3>2. QED
      BY <3>1 DEF rows
  <2>3. QED
    BY <2>1, <2>2 DEF Init, TypeOK
<1>2. SentWasClicked /\ PanelsArePlaced /\ WaitingUser
  BY NothingTyped DEF Init, SentWasClicked, PanelsArePlaced, WaitingUser, Busy
<1>3. QED
  BY <1>1, <1>2 DEF SettingsInv

\* Nobody is at work on a page that has not loaded, while the user waits.
LEMMA NobodyBeforeReady ==
  ASSUME SettingsInv, host.load # "ready"
  PROVE  shown = 0 /\ (~hasty => \A p \in Panel : ~Busy(p))
<1>1. shown = 0
  BY SettingsAssumption DEF SettingsInv, TypeOK, PanelsArePlaced, Panel
<1>2. QED
  BY <1>1, SettingsAssumption DEF SettingsInv, WaitingUser, Panel

\* The settings are read.
LEMMA ServeKeeps ==
  ASSUME SettingsInv, ServeSettings
  PROVE  SettingsInv'
<1>1. /\ TypeOK /\ host.load = "loading" /\ host' = [host EXCEPT !.load = "served", !.fetched = stored]
      /\ UNCHANGED <<stored, panel, shown, clicked, hasty>>
  BY DEF SettingsInv, ServeSettings
<1>2. host' \in Host /\ host'.load = "served" /\ host'.fetched = stored
  BY <1>1 DEF TypeOK, Host
<1>3. TypeOK'
  BY <1>1, <1>2 DEF TypeOK
<1>4. SentWasClicked' /\ PanelsArePlaced'
  BY <1>1, <1>2 DEF SettingsInv, SentWasClicked, PanelsArePlaced
<1>5. shown = 0 /\ (~hasty => \A p \in Panel : ~Busy(p))
  BY <1>1, NobodyBeforeReady
<1>6. ~hasty' => WaitingUser'
  BY <1>1, <1>2, <1>5 DEF WaitingUser, Busy
<1>7. QED
  BY <1>3, <1>4, <1>6 DEF SettingsInv

\* They have not come.
LEMMA FailKeeps ==
  ASSUME SettingsInv, SettingsFail
  PROVE  SettingsInv'
<1>1. /\ TypeOK /\ host.load # "ready" /\ host' = [host EXCEPT !.load = "error", !.fetched = AnySettings]
      /\ UNCHANGED <<stored, panel, shown, clicked, hasty>>
  BY DEF SettingsInv, SettingsFail
<1>2. host' \in Host /\ host'.load = "error"
  BY <1>1, SettingsExist DEF TypeOK, Host
<1>3. TypeOK'
  BY <1>1, <1>2 DEF TypeOK
<1>4. SentWasClicked' /\ PanelsArePlaced'
  BY <1>1, <1>2 DEF SettingsInv, SentWasClicked, PanelsArePlaced
<1>5. shown = 0 /\ (~hasty => \A p \in Panel : ~Busy(p))
  BY <1>1, NobodyBeforeReady
<1>6. ~hasty' => WaitingUser'
  BY <1>1, <1>2, <1>5 DEF WaitingUser, Busy
<1>7. QED
  BY <1>3, <1>4, <1>6 DEF SettingsInv

\* A render of a page whose baseline is the server's.
LEMMA RenderKeeps ==
  ASSUME SettingsInv, NEW h \in Host, h.load = "ready", Render(h), UNCHANGED <<stored, clicked>>,
         hasty' \in BOOLEAN,
         ~hasty' => h.baseline = stored.models /\ \A p \in Panel : ~Busy(p)
  PROVE  SettingsInv'
<1>1. /\ host' = h /\ shown' \in Panel /\ panel' \in [Panel -> PanelState]
      /\ panel'[shown'] = NewPanel(h)
      /\ \A p \in Panel : p # shown' => panel'[p] = IF Busy(p) THEN panel[p] ELSE NoPanel
  BY Rendered DEF SettingsInv
<1>2. /\ panel'[shown'].pc = "idle" /\ panel'[shown'].here /\ panel'[shown'].kind = h.tab
      /\ h.tab = "models" => panel'[shown'].baseline = h.baseline
  BY <1>1, NewPanelTyped
<1>3. TypeOK'
  BY <1>1, SettingsAssumption DEF SettingsInv, TypeOK, Panel
<1>4. SentWasClicked'
  BY <1>1, <1>2, NothingTyped DEF SettingsInv, SentWasClicked
<1>5. PanelsArePlaced'
  BY <1>1, <1>2, SettingsAssumption DEF PanelsArePlaced, Panel
<1>6. ~hasty' => WaitingUser'
  <2>1. ASSUME ~hasty' PROVE \A p \in Panel : p # shown' => panel'[p].pc = "idle"
    BY <1>1, <2>1, NothingTyped
  <2>2. QED
    BY <1>1, <1>2, <2>1 DEF WaitingUser, Busy, Applying
<1>7. QED
  BY <1>3, <1>4, <1>5, <1>6 DEF SettingsInv

\* The page loads with what the server had when it was asked.
LEMMA ArriveKeeps ==
  ASSUME SettingsInv, SettingsArrive
  PROVE  SettingsInv'
<1> DEFINE h == [host EXCEPT !.load = "ready", !.baseline = host.fetched.models,
                             !.drafts = host.fetched.models, !.routing = host.fetched.routing,
                             !.fetched = AnySettings]
<1>1. host.load = "served" /\ Render(h) /\ UNCHANGED <<stored, clicked, hasty>> /\ host \in Host
  BY DEF SettingsInv, TypeOK, SettingsArrive
<1>2. h \in Host /\ h.load = "ready" /\ h.baseline = host.fetched.models
  BY <1>1, SettingsExist DEF Host, Settings
<1>3. ~hasty => host.fetched = stored /\ \A p \in Panel : ~Busy(p)
  BY <1>1, NobodyBeforeReady DEF SettingsInv, WaitingUser
<1> HIDE DEF h
<1>4. QED
  BY <1>1, <1>2, <1>3, RenderKeeps DEF SettingsInv, TypeOK

\* A tab is drawn from what the view keeps.
LEMMA ClickTabKeeps ==
  ASSUME SettingsInv, NEW tab \in {"models", "routing"}, ClickTab(tab)
  PROVE  SettingsInv'
<1> DEFINE h == [host EXCEPT !.tab = tab]
<1>1. /\ host.load = "ready" /\ Render(h) /\ hasty' = (hasty \/ InFlight) /\ UNCHANGED <<stored, clicked>>
      /\ host \in Host /\ hasty \in BOOLEAN
  BY DEF SettingsInv, TypeOK, ClickTab
<1>2. h \in Host /\ h.load = "ready" /\ h.baseline = host.baseline
  BY <1>1 DEF Host
<1>3. ~hasty' => host.baseline = stored.models /\ \A p \in Panel : ~Busy(p)
  <2>1. ASSUME ~hasty'
        PROVE  ~hasty /\ \A p \in Panel : ~Busy(p)
    BY <1>1, <2>1 DEF InFlight
  <2>2. shown \in Panel
    BY <1>1, SettingsAssumption DEF SettingsInv, TypeOK, PanelsArePlaced, Panel
  <2>3. QED
    BY <1>1, <2>1, <2>2 DEF SettingsInv, WaitingUser, Applying, Busy
<1> HIDE DEF h
<1>4. QED
  BY <1>1, <1>2, <1>3, RenderKeeps DEF InFlight

\* A page that is left takes with it what is at rest.
LEMMA LeaveKeeps ==
  ASSUME SettingsInv, Leave
  PROVE  SettingsInv'
<1> DEFINE ps == Alive(panel, 0)
<1>1. /\ TypeOK /\ host' = Fresh /\ panel' = [p \in Panel |-> [ps[p] EXCEPT !.here = FALSE]]
      /\ shown' = 0 /\ hasty' = InFlight /\ UNCHANGED <<stored, clicked>>
  BY DEF SettingsInv, Leave
<1>2. /\ ps \in [Panel -> PanelState]
      /\ \A p \in Panel : ps[p] = IF Busy(p) THEN panel[p] ELSE NoPanel
  BY <1>1, AliveKeeps, SettingsAssumption DEF TypeOK, Busy, Panel
<1> HIDE DEF ps
<1>3. /\ panel' \in [Panel -> PanelState]
      /\ \A p \in Panel : /\ ~panel'[p].here /\ panel'[p].pc = ps[p].pc
                          /\ panel'[p].todo = ps[p].todo /\ panel'[p].sent = ps[p].sent
  BY <1>1, <1>2 DEF PanelState
<1>4. TypeOK'
  BY <1>1, <1>3, NothingTyped, SettingsAssumption DEF TypeOK, InFlight
<1>5. SentWasClicked'
  BY <1>1, <1>2, <1>3, NothingTyped DEF SettingsInv, SentWasClicked
<1>6. PanelsArePlaced'
  BY <1>1, <1>3, NothingTyped DEF PanelsArePlaced
<1>7. ~hasty' => WaitingUser'
  <2>1. ASSUME ~hasty' PROVE \A p \in Panel : panel'[p].pc = "idle"
    BY <1>1, <1>2, <1>3, <2>1, NothingTyped DEF InFlight
  <2>2. QED
    BY <1>1, <2>1, NothingTyped DEF WaitingUser, Busy
<1>8. QED
  BY <1>4, <1>5, <1>6, <1>7 DEF SettingsInv
-----------------------------------------------------------------------------
(* The models panel *)

\* The panel on the screen is one, and is on the page.
LEMMA ShownPanel ==
  ASSUME SettingsInv, NEW kind, Shows(kind)
  PROVE  /\ shown \in Panel /\ panel[shown] \in PanelState /\ panel[shown].kind = kind
         /\ panel[shown].here /\ host \in Host /\ host.load = "ready"
BY SettingsAssumption DEF SettingsInv, TypeOK, Shows, PanelsArePlaced, Panel

\* An edit takes no row of an apply that is on its way along.
LEMMA EditRowKeeps ==
  ASSUME SettingsInv, NEW m \in Model, NEW v \in Value, EditRow(m, v)
  PROVE  SettingsInv'
<1> DEFINE drafts == [panel[shown].drafts EXCEPT ![m] = v]
<1>1. /\ TypeOK /\ Shows("models") /\ host' = [host EXCEPT !.drafts = drafts]
      /\ panel' = [panel EXCEPT ![shown].drafts = drafts] /\ hasty' = (hasty \/ InFlight)
      /\ UNCHANGED <<stored, shown, clicked>>
  BY DEF SettingsInv, EditRow
<1>2. /\ shown \in Panel /\ panel[shown] \in PanelState /\ host \in Host
  BY <1>1, ShownPanel
<1>3. drafts \in Placement
  BY <1>2 DEF PanelState, Placement
<1> HIDE DEF drafts
<1>4. /\ host' \in Host /\ host'.load = host.load /\ host'.baseline = host.baseline
      /\ host'.fetched = host.fetched
  BY <1>1, <1>2, <1>3 DEF Host
<1>5. /\ panel' \in [Panel -> PanelState]
      /\ \A p \in Panel : /\ panel'[p].pc = panel[p].pc /\ panel'[p].here = panel[p].here
                          /\ panel'[p].kind = panel[p].kind /\ panel'[p].todo = panel[p].todo
                          /\ panel'[p].sent = panel[p].sent /\ panel'[p].baseline = panel[p].baseline
  BY <1>1, <1>2, <1>3 DEF TypeOK, PanelState
<1>6. TypeOK'
  BY <1>1, <1>4, <1>5 DEF TypeOK, InFlight
<1>7. SentWasClicked' /\ PanelsArePlaced'
  BY <1>1, <1>2, <1>4, <1>5 DEF SettingsInv, SentWasClicked, PanelsArePlaced
<1>8. ~hasty' => WaitingUser'
  <2> SUFFICES ASSUME ~hasty' PROVE WaitingUser'
    OBVIOUS
  <2>1. ~hasty /\ \A p \in Panel : panel[p].pc = "idle"
    BY <1>1 DEF InFlight, Busy
  <2>2. QED
    BY <1>1, <1>2, <1>4, <1>5, <2>1 DEF SettingsInv, WaitingUser, Busy, Applying
<1>9. QED
  BY <1>6, <1>7, <1>8 DEF SettingsInv

\* Apply takes along what is in the page, and that is what was clicked.
LEMMA ApplyKeeps ==
  ASSUME SettingsInv, Apply
  PROVE  SettingsInv'
<1> DEFINE old == panel[shown]
           new == [old EXCEPT !.pc = "putting", !.todo = Dirty(shown), !.sent.models = old.drafts]
           rows == {<<m, old.drafts[m]>> : m \in Dirty(shown)}
<1>1. /\ TypeOK /\ Shows("models") /\ old.pc = "idle"
      /\ clicked' = clicked \cup rows /\ hasty' = (hasty \/ InFlight)
      /\ UNCHANGED <<stored, host, shown>>
  BY DEF SettingsInv, Apply, Busy
<1>2. shown \in Panel /\ old \in PanelState /\ old.kind = "models" /\ host.load = "ready"
  BY <1>1, ShownPanel
<1>3. panel' = [panel EXCEPT ![shown] = new]
  BY <1>2 DEF Apply, SettingsInv, TypeOK
<1>4. Dirty(shown) \subseteq Model /\ \A m \in Model : m \in Dirty(shown) <=> old.drafts[m] # old.baseline[m]
  BY DEF Dirty
<1>5. /\ new \in PanelState /\ new.pc = "putting" /\ new.todo = Dirty(shown) /\ new.here = old.here
      /\ new.kind = old.kind /\ new.sent.models = old.drafts /\ new.drafts = old.drafts
      /\ new.baseline = old.baseline
  BY <1>2, <1>4 DEF PanelState, Settings
<1>6. rows \subseteq Model \X Value
  BY <1>2, <1>4 DEF PanelState, Placement
<1> HIDE DEF new
<1>7. panel'[shown] = new /\ \A p \in Panel : p # shown => panel'[p] = panel[p]
  BY <1>1, <1>2, <1>3 DEF TypeOK
<1>8. TypeOK'
  BY <1>1, <1>3, <1>5, <1>6 DEF TypeOK, InFlight
<1>9. SentWasClicked'
  BY <1>1, <1>5, <1>7 DEF SettingsInv, SentWasClicked
<1>10. PanelsArePlaced'
  BY <1>1, <1>2, <1>5, <1>7 DEF SettingsInv, PanelsArePlaced
<1>11. ~hasty' => WaitingUser'
  <2> SUFFICES ASSUME ~hasty' PROVE WaitingUser'
    OBVIOUS
  <2>1. ~hasty /\ \A p \in Panel : panel[p].pc = "idle"
    BY <1>1 DEF InFlight, Busy
  <2>2. old.baseline = host.baseline /\ host.baseline = stored.models
    BY <1>1, <1>2, <2>1, SettingsAssumption DEF SettingsInv, WaitingUser, Applying, PanelsArePlaced
  <2>3. Sending(shown)'
    BY <1>1, <1>4, <1>5, <1>7, <2>2 DEF Sending
  <2>4. QED
    BY <1>1, <1>2, <1>5, <1>7, <2>1, <2>2, <2>3 DEF WaitingUser, Busy, Applying
<1>12. QED
  BY <1>8, <1>9, <1>10, <1>11 DEF SettingsInv

\* The row whose turn it is is written as it was clicked.
LEMMA UpdatedRow ==
  ASSUME TypeOK, NEW p \in Panel, UpdateModel(p)
  PROVE  \E m \in Model : /\ NextRow(p, m) /\ stored' \in Settings
                          /\ stored'.models[m] = panel[p].sent.models[m]
                          /\ \A k \in Model : k # m => stored'.models[k] = stored.models[k]
<1>1. PICK m \in Model : NextRow(p, m) /\ stored' = [stored EXCEPT !.models[m] = RowToSend(p, m)]
  BY DEF UpdateModel
<1>2. panel[p].sent.models \in Placement /\ stored \in Settings
  BY DEF TypeOK, PanelState, Settings
<1>3. panel[p].sent.models[m] \in Value
  BY <1>2 DEF Placement
<1>4. stored.models \in [Model -> Value]
  BY <1>2 DEF Settings, Placement
<1> DEFINE models == [stored.models EXCEPT ![m] = panel[p].sent.models[m]]
<1>5. stored' = [stored EXCEPT !.models = models]
  BY <1>1, <1>2 DEF RowToSend, Settings
<1>6. /\ models \in [Model -> Value] /\ models[m] = panel[p].sent.models[m]
      /\ \A k \in Model : k # m => models[k] = stored.models[k]
  BY <1>3, <1>4
<1> HIDE DEF models
<1>7. stored' \in Settings /\ stored'.models = models
  BY <1>2, <1>5, <1>6 DEF Settings, Placement
<1>8. QED
  BY <1>1, <1>6, <1>7

\* A row is sent.
LEMMA PutModelKeeps ==
  ASSUME SettingsInv, NEW p \in Panel, PutModel(p)
  PROVE  SettingsInv'
<1> DEFINE rest == {m \in panel[p].todo : ~NextRow(p, m)}
           new == [panel[p] EXCEPT !.todo = rest, !.pc = IF rest = {} THEN "posting" ELSE "putting"]
<1>1. /\ TypeOK /\ UpdateModel(p) /\ UNCHANGED <<host, shown, clicked, hasty>>
      /\ panel[p] \in PanelState
  BY DEF SettingsInv, TypeOK, PutModel
<1>2. panel' = [panel EXCEPT ![p] = new]
  BY <1>1 DEF PutModel, TypeOK
<1>3. PICK m \in Model : /\ NextRow(p, m) /\ stored' \in Settings
                         /\ stored'.models[m] = panel[p].sent.models[m]
                         /\ \A k \in Model : k # m => stored'.models[k] = stored.models[k]
  BY <1>1, UpdatedRow
<1>4. panel[p].pc = "putting" /\ m \in panel[p].todo /\ panel[p].todo \subseteq Model
  BY <1>1, <1>3 DEF NextRow, PanelState
<1>5. rest \subseteq panel[p].todo /\ \A k \in panel[p].todo : k \in rest <=> k # m
  <2>1. \A k \in panel[p].todo : k \in Nat
    BY <1>4, SettingsAssumption DEF Model
  <2>2. \A k \in panel[p].todo : NextRow(p, k) <=> k = m
    BY <1>3, <1>4, <2>1 DEF NextRow
  <2>3. QED
    BY <2>2
<1>6. /\ new \in PanelState /\ new.todo = rest /\ new.pc \in {"putting", "posting"}
      /\ new.pc = "posting" => rest = {}
      /\ new.here = panel[p].here /\ new.kind = panel[p].kind /\ new.sent = panel[p].sent
      /\ new.drafts = panel[p].drafts /\ new.baseline = panel[p].baseline
  <2> HIDE DEF rest
  <2>1. rest \in SUBSET Model
    BY <1>4, <1>5
  <2>2. QED
    BY <1>1, <2>1 DEF PanelState
<1> HIDE DEF new, rest
<1>7. panel'[p] = new /\ \A q \in Panel : q # p => panel'[q] = panel[q]
  BY <1>1, <1>2 DEF TypeOK
<1>8. TypeOK'
  BY <1>1, <1>2, <1>3, <1>6 DEF TypeOK
<1>9. SentWasClicked'
  BY <1>1, <1>4, <1>5, <1>6, <1>7 DEF SettingsInv, SentWasClicked
<1>10. PanelsArePlaced'
  <2>1. \A q \in Panel : panel'[q].here = panel[q].here
    BY <1>6, <1>7
  <2>2. shown # 0 => shown \in Panel
    BY <1>1, SettingsAssumption DEF TypeOK, Panel
  <2>3. QED
    BY <1>1, <2>1, <2>2 DEF SettingsInv, PanelsArePlaced
<1>11. ~hasty' => WaitingUser'
  <2> SUFFICES ASSUME ~hasty PROVE WaitingUser'
    BY <1>1
  <2>1. WaitingUser /\ p = shown /\ shown # 0 /\ PanelsArePlaced
    BY <1>4, SettingsAssumption DEF SettingsInv, WaitingUser, Busy, Panel
  <2>2. panel[p].kind = "models" /\ Sending(p)
    BY <1>4, <2>1 DEF WaitingUser, Applying
  <2>3. Sending(p)'
    <3>1. \A k \in Model :
            stored'.models[k] = IF k \in rest THEN panel[p].baseline[k] ELSE panel[p].drafts[k]
      BY <1>3, <1>4, <1>5, <2>2 DEF Sending
    <3>2. QED
      BY <1>6, <1>7, <2>2, <3>1 DEF Sending
  <2>4. host.load = "ready"
    BY <2>1 DEF PanelsArePlaced
  <2>5. QED
    BY <1>1, <1>6, <1>7, <2>1, <2>2, <2>3, <2>4 DEF WaitingUser, Busy, Applying
<1>12. QED
  BY <1>8, <1>9, <1>10, <1>11 DEF SettingsInv

\* What a finished request leaves of the types, the rows on their way and the page.
LEMMA FinishKeeps ==
  ASSUME SettingsInv, NEW p \in Panel, NEW settled \in PanelState, settled.here = panel[p].here,
         Finish(p, settled), stored' \in Settings, host' \in Host, host'.load = host.load,
         clicked' = clicked, hasty' \in BOOLEAN
  PROVE  TypeOK' /\ SentWasClicked' /\ PanelsArePlaced'
<1>1. TypeOK /\ SentWasClicked /\ PanelsArePlaced
  BY DEF SettingsInv
<1>2. /\ panel' \in [Panel -> PanelState]
      /\ shown' = (IF panel[p].here THEN p ELSE shown)
      /\ \A q \in Panel : q # p => panel'[q] = IF Busy(q) \/ q = shown' THEN panel[q] ELSE NoPanel
      /\ panel'[p] = IF p = shown'
           THEN [settled EXCEPT !.pc = "idle", !.todo = {}, !.sent = AnySettings] ELSE NoPanel
  BY <1>1, Finished
<1>3. panel'[p].pc = "idle" /\ (panel'[p].here => panel[p].here) /\ (p = shown' => panel'[p].here = panel[p].here)
  BY <1>2, NothingTyped DEF PanelState
<1>4. TypeOK'
  BY <1>1, <1>2, SettingsAssumption DEF TypeOK, Panel
<1>5. SentWasClicked'
  BY <1>1, <1>2, <1>3, NothingTyped DEF SentWasClicked
<1>6. PanelsArePlaced'
  <2>1. \A q \in Panel : panel'[q].here => panel[q].here
    BY <1>2, <1>3, NothingTyped
  <2>2. shown' # 0 => shown' \in Panel /\ panel'[shown'].here
    <3>1. CASE panel[p].here
      BY <1>2, <1>3, <3>1
    <3>2. CASE ~panel[p].here
      <4>1. shown' = shown /\ (shown # 0 => shown \in Panel /\ panel[shown].here)
        BY <1>1, <1>2, <3>2, SettingsAssumption DEF PanelsArePlaced, TypeOK, Panel
      <4>2. shown # 0 => shown # p /\ panel'[shown] = panel[shown]
        BY <1>2, <3>2, <4>1
      <4>3. QED
        BY <4>1, <4>2
    <3>3. QED
      BY <3>1, <3>2
  <2>3. host.load = "ready" => shown' # 0
    BY <1>1, <1>2, SettingsAssumption DEF PanelsArePlaced, Panel
  <2>4. QED
    BY <1>1, <2>1, <2>2, <2>3 DEF PanelsArePlaced
<1>7. QED
  BY <1>4, <1>5, <1>6

\* A request that fails makes no promise to a user who waited.
LEMMA FailedRequestKeeps ==
  ASSUME SettingsInv, NEW p \in Panel, ApplyFails(p) \/ SaveFails(p)
  PROVE  SettingsInv'
<1>1. /\ TypeOK /\ panel[p] \in PanelState /\ Finish(p, panel[p]) /\ hasty' = TRUE
      /\ UNCHANGED <<host, clicked>>
  BY DEF SettingsInv, TypeOK, ApplyFails, SaveFails
<1>2. stored' \in Settings
  <2>1. CASE UNCHANGED stored
    BY <1>1, <2>1 DEF TypeOK
  <2>2. CASE UpdateModel(p)
    BY <1>1, <2>2, UpdatedRow
  <2>3. CASE UpdateRouting(panel[p].sent.routing)
    BY <1>1, <2>3 DEF UpdateRouting, TypeOK, PanelState, Settings, Routing, Merged
  <2>4. QED
    BY <2>1, <2>2, <2>3 DEF ApplyFails, SaveFails
<1>3. TypeOK' /\ SentWasClicked' /\ PanelsArePlaced'
  BY <1>1, <1>2, FinishKeeps DEF TypeOK
<1>4. QED
  BY <1>1, <1>3 DEF SettingsInv

\* All rows have been sent: the drafts are what the server has.
LEMMA ApplyDoneKeeps ==
  ASSUME SettingsInv, NEW p \in Panel, ApplyDone(p)
  PROVE  SettingsInv'
<1> DEFINE settled == [panel[p] EXCEPT !.baseline = panel[p].drafts]
<1>1. /\ TypeOK /\ panel[p].pc = "posting" /\ Finish(p, settled)
      /\ host' = IF panel[p].here
               THEN [host EXCEPT !.baseline = panel[p].drafts, !.drafts = panel[p].drafts]
               ELSE host
      /\ UNCHANGED <<stored, clicked, hasty>> /\ panel[p] \in PanelState
  BY DEF SettingsInv, TypeOK, ApplyDone
<1>2. /\ settled \in PanelState /\ settled.here = panel[p].here /\ settled.kind = panel[p].kind
      /\ settled.baseline = panel[p].drafts
  BY <1>1 DEF PanelState
<1>3. /\ host' \in Host /\ host'.load = host.load /\ host'.fetched = host.fetched
      /\ panel[p].here => host'.baseline = panel[p].drafts
  BY <1>1 DEF TypeOK, Host, PanelState
<1> HIDE DEF settled
<1>4. TypeOK' /\ SentWasClicked' /\ PanelsArePlaced'
  BY <1>1, <1>2, <1>3, FinishKeeps DEF TypeOK
<1>5. ~hasty' => WaitingUser'
  <2> SUFFICES ASSUME ~hasty PROVE WaitingUser'
    BY <1>1
  <2>1. /\ WaitingUser /\ p = shown /\ shown # 0 /\ panel[p].here /\ host.load = "ready"
        /\ \A q \in Panel : q # p => ~Busy(q)
    BY <1>1, SettingsAssumption DEF SettingsInv, WaitingUser, Busy, Panel, PanelsArePlaced
  <2>2. panel[p].drafts = stored.models
    <3>1. \A m \in Model : stored.models[m] = panel[p].drafts[m]
      BY <1>1, <2>1 DEF WaitingUser, Applying, Sending
    <3>2. stored.models \in [Model -> Value] /\ panel[p].drafts \in [Model -> Value]
      BY <1>1 DEF TypeOK, Settings, PanelState, Placement
    <3>3. QED
      BY <3>1, <3>2
  <2>3. /\ shown' = p
        /\ \A q \in Panel : q # p => panel'[q] = NoPanel
        /\ panel'[p] = [settled EXCEPT !.pc = "idle", !.todo = {}, !.sent = AnySettings]
    <3>1. /\ shown' = (IF panel[p].here THEN p ELSE shown)
          /\ \A q \in Panel : q # p =>
               panel'[q] = IF Busy(q) \/ q = shown' THEN panel[q] ELSE NoPanel
          /\ panel'[p] = IF p = shown'
               THEN [settled EXCEPT !.pc = "idle", !.todo = {}, !.sent = AnySettings] ELSE NoPanel
      BY <1>1, <1>2, Finished
    <3>2. QED
      BY <2>1, <3>1
  <2>4. panel'[p].pc = "idle" /\ panel'[p].kind = panel[p].kind /\ panel'[p].baseline = panel[p].drafts
    BY <1>2, <2>3 DEF PanelState
  <2>5. \A q \in Panel : panel'[q].pc = "idle"
    BY <2>3, <2>4, NothingTyped
  <2>6. QED
    BY <1>1, <1>3, <2>1, <2>2, <2>3, <2>4, <2>5 DEF WaitingUser, Busy, Applying
<1>6. QED
  BY <1>4, <1>5 DEF SettingsInv
-----------------------------------------------------------------------------
(* The routing panel *)

\* An edit of the routing touches no row.
LEMMA EditRoutingKeeps ==
  ASSUME SettingsInv, NEW routing \in Routing, EditRouting(routing)
  PROVE  SettingsInv'
<1>1. /\ TypeOK /\ Shows("routing") /\ host' = [host EXCEPT !.routing = routing]
      /\ panel' = [panel EXCEPT ![shown].routing = routing] /\ hasty' = (hasty \/ InFlight)
      /\ UNCHANGED <<stored, shown, clicked>>
  BY DEF SettingsInv, EditRouting
<1>2. /\ shown \in Panel /\ panel[shown] \in PanelState /\ host \in Host
  BY <1>1, ShownPanel
<1>3. /\ host' \in Host /\ host'.load = host.load /\ host'.baseline = host.baseline
      /\ host'.fetched = host.fetched
  BY <1>1, <1>2 DEF Host
<1>4. /\ panel' \in [Panel -> PanelState]
      /\ \A p \in Panel : /\ panel'[p].pc = panel[p].pc /\ panel'[p].here = panel[p].here
                          /\ panel'[p].kind = panel[p].kind /\ panel'[p].todo = panel[p].todo
                          /\ panel'[p].sent = panel[p].sent /\ panel'[p].baseline = panel[p].baseline
  BY <1>1, <1>2 DEF TypeOK, PanelState
<1>5. TypeOK'
  BY <1>1, <1>3, <1>4 DEF TypeOK, InFlight
<1>6. SentWasClicked' /\ PanelsArePlaced'
  BY <1>1, <1>2, <1>3, <1>4 DEF SettingsInv, SentWasClicked, PanelsArePlaced
<1>7. ~hasty' => WaitingUser'
  <2> SUFFICES ASSUME ~hasty' PROVE WaitingUser'
    OBVIOUS
  <2>1. ~hasty /\ \A p \in Panel : panel[p].pc = "idle"
    BY <1>1 DEF InFlight, Busy
  <2>2. QED
    BY <1>1, <1>2, <1>3, <1>4, <2>1 DEF SettingsInv, WaitingUser, Busy, Applying
<1>8. QED
  BY <1>5, <1>6, <1>7 DEF SettingsInv

\* A save takes along what is in the page.
LEMMA SaveKeeps ==
  ASSUME SettingsInv, Save
  PROVE  SettingsInv'
<1> DEFINE old == panel[shown]
           new == [old EXCEPT !.pc = "saving", !.sent.routing = old.routing]
<1>1. /\ TypeOK /\ Shows("routing") /\ old.pc = "idle" /\ hasty' = (hasty \/ InFlight)
      /\ UNCHANGED <<stored, host, shown, clicked>>
  BY DEF SettingsInv, Save, Busy
<1>2. shown \in Panel /\ old \in PanelState /\ host.load = "ready"
  BY <1>1, ShownPanel
<1>3. panel' = [panel EXCEPT ![shown] = new]
  BY <1>2 DEF Save, SettingsInv, TypeOK
<1>4. /\ new \in PanelState /\ new.pc = "saving" /\ new.here = old.here /\ new.kind = old.kind
      /\ new.baseline = old.baseline
  BY <1>2 DEF PanelState, Settings
<1> HIDE DEF new
<1>5. panel'[shown] = new /\ \A p \in Panel : p # shown => panel'[p] = panel[p]
  BY <1>1, <1>2, <1>3 DEF TypeOK
<1>6. TypeOK'
  BY <1>1, <1>3, <1>4 DEF TypeOK, InFlight
<1>7. SentWasClicked' /\ PanelsArePlaced'
  BY <1>1, <1>2, <1>4, <1>5 DEF SettingsInv, SentWasClicked, PanelsArePlaced
<1>8. ~hasty' => WaitingUser'
  <2> SUFFICES ASSUME ~hasty' PROVE WaitingUser'
    OBVIOUS
  <2>1. ~hasty /\ \A p \in Panel : panel[p].pc = "idle"
    BY <1>1 DEF InFlight, Busy
  <2>2. QED
    BY <1>1, <1>2, <1>4, <1>5, <2>1 DEF SettingsInv, WaitingUser, Busy, Applying
<1>9. QED
  BY <1>6, <1>7, <1>8 DEF SettingsInv

\* The overlay takes the rules and the intents, and keeps the rows.
LEMMA PutRoutingKeeps ==
  ASSUME SettingsInv, NEW p \in Panel, PutRouting(p)
  PROVE  SettingsInv'
<1>1. /\ TypeOK /\ panel[p].pc = "saving" /\ UpdateRouting(panel[p].sent.routing)
      /\ Finish(p, panel[p]) /\ UNCHANGED <<host, clicked, hasty>> /\ panel[p] \in PanelState
  BY DEF SettingsInv, TypeOK, PutRouting
<1>2. stored' \in Settings /\ stored'.models = stored.models
  BY <1>1 DEF UpdateRouting, TypeOK, PanelState, Settings, Routing, Merged
<1>3. TypeOK' /\ SentWasClicked' /\ PanelsArePlaced'
  BY <1>1, <1>2, FinishKeeps DEF TypeOK
<1>4. ~hasty' => WaitingUser'
  <2> SUFFICES ASSUME ~hasty PROVE WaitingUser'
    BY <1>1
  <2>1. /\ WaitingUser /\ p = shown /\ shown # 0 /\ panel[p].here /\ host.load = "ready"
        /\ \A q \in Panel : q # p => ~Busy(q)
    BY <1>1, SettingsAssumption DEF SettingsInv, WaitingUser, Busy, Panel, PanelsArePlaced
  <2>2. /\ shown' = p
        /\ \A q \in Panel : q # p => panel'[q] = NoPanel
        /\ panel'[p] = [panel[p] EXCEPT !.pc = "idle", !.todo = {}, !.sent = AnySettings]
    BY <1>1, <2>1, Finished
  <2>3. panel'[p].pc = "idle" /\ panel'[p].kind = panel[p].kind /\ panel'[p].baseline = panel[p].baseline
    BY <1>1, <2>2 DEF PanelState
  <2>4. \A q \in Panel : panel'[q].pc = "idle"
    BY <2>2, <2>3, NothingTyped
  <2>5. QED
    BY <1>1, <1>2, <2>1, <2>2, <2>3, <2>4 DEF WaitingUser, Busy, Applying
<1>5. QED
  BY <1>3, <1>4 DEF SettingsInv
-----------------------------------------------------------------------------
(* The theorems *)

\* Every step keeps SettingsInv.
LEMMA NextSettings ==
  ASSUME SettingsInv, [Next]_vars
  PROVE  SettingsInv'
<1>1. ASSUME NEW rules \in Rules, EditRules(rules)
      PROVE  SettingsInv'
  <2>1. shown \in Panel /\ panel[shown] \in PanelState
    BY <1>1, ShownPanel DEF EditRules, EditRouting
  <2>2. [panel[shown].routing EXCEPT !.rules = rules] \in Routing
    BY <2>1 DEF PanelState, Routing
  <2>3. QED
    BY <1>1, <2>2, EditRoutingKeeps DEF EditRules
<1>2. ASSUME NEW i \in Intent, NEW alias \in Alias \cup {NoAlias}, EditIntent(i, alias)
      PROVE  SettingsInv'
  <2>1. shown \in Panel /\ panel[shown] \in PanelState
    BY <1>2, ShownPanel DEF EditIntent, EditRouting
  <2>2. [panel[shown].routing EXCEPT !.intents[i] = alias] \in Routing
    BY <2>1 DEF PanelState, Routing
  <2>3. QED
    BY <1>2, <2>2, EditRoutingKeeps DEF EditIntent
<1>3. ASSUME NEW p \in Panel, Answer(p)
      PROVE  SettingsInv'
  BY <1>3, PutModelKeeps, ApplyDoneKeeps, FailedRequestKeeps, PutRoutingKeeps DEF Answer
<1>4. CASE Next
  BY <1>1, <1>2, <1>3, <1>4, ServeKeeps, ArriveKeeps, FailKeeps, ClickTabKeeps, LeaveKeeps,
     EditRowKeeps, ApplyKeeps, SaveKeeps DEF Next
<1>5. CASE UNCHANGED vars
  BY <1>5 DEF vars, SettingsInv, TypeOK, SentWasClicked, PanelsArePlaced, WaitingUser, Busy, Applying,
       Sending
<1>6. QED
  BY <1>4, <1>5

\* SettingsInv is an invariant of the settings page.
THEOREM SettingsInvariant == Spec => []SettingsInv
<1>1. Init => SettingsInv
  BY InitSettings
<1>2. SettingsInv /\ [Next]_vars => SettingsInv'
  BY NextSettings
<1>3. QED
  BY <1>1, <1>2, PTL DEF Spec

\* The variables of the page, its panels and the server's overlay have their types.
THEOREM TypeCorrect == Spec => []TypeOK
<1>1. SettingsInv => TypeOK
  BY DEF SettingsInv
<1>2. QED
  BY <1>1, SettingsInvariant, PTL

\* A row that is not marked is what the server has, for a user who waits for each request
\* while none has failed (refreshDirty and onApply of settings_models.ts).
THEOREM CleanRowsAreStored == Spec => []CleanMeansStored
<1>1. ASSUME SettingsInv
      PROVE  CleanMeansStored
  <2> SUFFICES ASSUME ~hasty, Shows("models"), ~Busy(shown),
                      NEW m \in Model \ Dirty(shown)
               PROVE  panel[shown].drafts[m] = stored.models[m]
    BY DEF CleanMeansStored
  <2>1. shown \in Panel /\ panel[shown].kind = "models" /\ host.load = "ready" /\ shown # 0
    BY <1>1, ShownPanel DEF Shows
  <2>2. panel[shown].baseline = host.baseline /\ host.baseline = stored.models
    BY <1>1, <2>1 DEF SettingsInv, WaitingUser, Applying, Busy
  <2>3. panel[shown].drafts[m] = panel[shown].baseline[m]
    BY DEF Dirty
  <2>4. QED
    BY <2>2, <2>3
<1>2. QED
  BY <1>1, SettingsInvariant, PTL

\* "Edits stay draft until Apply.": the server's rows only change to what stood in the
\* page when Apply was clicked, whatever is edited, left or refused meanwhile (onApply of
\* settings_models.ts).
THEOREM OnlyClicksAreStored == Spec => OnlyClickedIsStored
<1> DEFINE Only == \A m \in Model : stored'.models[m] # stored.models[m] =>
                     <<m, stored'.models[m]>> \in clicked
<1>1. ASSUME SettingsInv, [Next]_vars
      PROVE  [Only]_stored
  <2> SUFFICES ASSUME stored' # stored PROVE Only
    OBVIOUS
  <2>1. ASSUME NEW p \in Panel, UpdateModel(p)
        PROVE  Only
    <3>1. PICK m \in Model : /\ NextRow(p, m) /\ stored' \in Settings
                             /\ stored'.models[m] = panel[p].sent.models[m]
                             /\ \A k \in Model : k # m => stored'.models[k] = stored.models[k]
      BY <1>1, <2>1, UpdatedRow DEF SettingsInv
    <3>2. <<m, panel[p].sent.models[m]>> \in clicked
      BY <1>1, <3>1 DEF SettingsInv, SentWasClicked, NextRow
    <3>3. QED
      BY <3>1, <3>2
  <2>2. ASSUME NEW routing, UpdateRouting(routing)
        PROVE  Only
    <3>1. stored \in Settings
      BY <1>1 DEF SettingsInv, TypeOK
    <3>2. stored'.models = stored.models
      BY <2>2, <3>1 DEF UpdateRouting, Settings
    <3>3. QED
      BY <3>2
  <2>3. CASE \E p \in Panel : Answer(p)
    BY <2>1, <2>2, <2>3 DEF Answer, PutModel, ApplyDone, ApplyFails, PutRouting, SaveFails
  <2>4. CASE ~\E p \in Panel : Answer(p)
    BY <1>1, <2>4 DEF Next, vars, ServeSettings, SettingsArrive, SettingsFail, ClickTab, Leave, EditRow,
         Apply, EditRules, EditIntent, EditRouting, Save
  <2>5. QED
    BY <2>3, <2>4
<1>2. QED
  BY <1>1, SettingsInvariant, PTL DEF Spec, OnlyClickedIsStored

-----------------------------------------------------------------------------
(* The fields of a row *)

\* An inventory is a sequence of distinct devices.
LEMMA InventoryIs ==
  ASSUME NEW inv \in Inventories
  PROVE  /\ Len(inv) \in Nat /\ inv \in [1..Len(inv) -> 0..MaxGpu] /\ inv \in Seq(0..MaxGpu)
         /\ \A i, j \in 1..Len(inv) : inv[i] = inv[j] => i = j
<1>1. PICK n \in 0..(MaxGpu + 1) : inv \in [1..n -> 0..MaxGpu]
  BY DEF Inventories, SeqOf
<1>2. n \in Nat
  BY FieldsAssumption
<1>3. inv \in Seq(0..MaxGpu)
  BY <1>1, <1>2, SeqDef
<1>4. Len(inv) = n
  BY <1>1, <1>2, <1>3, LenProperties
<1>5. \A i, j \in 1..n : inv[i] = inv[j] => i = j
  BY <1>1 DEF Inventories, IsInjective
<1> QED
  BY <1>1, <1>2, <1>3, <1>4, <1>5

\* Each position of the ordered list is taken by one device: the number of smaller devices
\* counts the devices of a finite set off.
LEMMA InOrder ==
  ASSUME NEW D \in SUBSET Nat, NEW k \in Nat, IsFiniteSet(D), Cardinality(D) = k
  PROVE  \A i \in 1..k : \E n \in D : Cardinality({m \in D : m < n}) = i - 1
<1> DEFINE below(n) == {m \in D : m < n}
           place == [n \in D |-> Cardinality(below(n)) + 1]
<1>1. \A n \in D : IsFiniteSet(below(n)) /\ Cardinality(below(n)) \in 0..(k - 1)
  <2> TAKE n \in D
  <2>1. IsFiniteSet(D \ {n}) /\ Cardinality(D \ {n}) = k - 1
    BY FS_RemoveElement
  <2>2. below(n) \subseteq D \ {n}
    OBVIOUS
  <2>3. IsFiniteSet(below(n)) /\ Cardinality(below(n)) <= k - 1
    BY <2>1, <2>2, FS_Subset
  <2>4. Cardinality(below(n)) \in Nat
    BY <2>3, FS_CardinalityType
  <2> QED
    BY <2>3, <2>4
<1>2. \A a, b \in D : a < b => Cardinality(below(a)) < Cardinality(below(b))
  <2> SUFFICES ASSUME NEW a \in D, NEW b \in D, a < b
               PROVE  Cardinality(below(a)) < Cardinality(below(b))
    OBVIOUS
  <2>1. Cardinality(below(a) \cup {a}) = Cardinality(below(a)) + 1
    BY <1>1, FS_AddElement
  <2>2. below(a) \cup {a} \subseteq below(b)
    <3>1. a \in Nat /\ b \in Nat /\ \A m \in D : m \in Nat
      OBVIOUS
    <3>2. \A m \in D : m < a => m < b
      BY <3>1
    <3> QED
      BY <3>2
  <2>3. Cardinality(below(a) \cup {a}) <= Cardinality(below(b))
    BY <1>1, <2>2, FS_Subset
  <2> QED
    BY <1>1, <2>1, <2>3
<1>3. place \in Injection(D, 1..k)
  <2>1. place \in [D -> 1..k]
    BY <1>1
  <2>2. \A a, b \in D : place[a] = place[b] => a = b
    <3> TAKE a, b \in D
    <3> HAVE place[a] = place[b]
    <3>1. Cardinality(below(a)) = Cardinality(below(b))
      BY <1>1
    <3>2. ~(a < b) /\ ~(b < a)
      BY <1>1, <1>2, <3>1
    <3> QED
      BY <3>2
  <2> QED
    BY <2>1, <2>2 DEF Injection, IsInjective
<1>4. IsFiniteSet(1..k) /\ Cardinality(1..k) = k
  BY FS_Interval
<1>5. place \in Surjection(D, 1..k)
  BY <1>3, <1>4, FS_Injection
<1>6. \A i \in 1..k : \E n \in D : place[n] = i
  BY <1>5 DEF Surjection
<1>7. \A n \in D, i \in 1..k : place[n] = i => Cardinality(below(n)) = i - 1
  BY <1>1
<1> HIDE DEF place
<1> QED
  BY <1>6, <1>7

\* The devices in order: each is there, once.
LEMMA ByIndexIs ==
  ASSUME NEW inv \in Inventories
  PROVE  /\ byIndex(inv) \in [1..Len(inv) -> 0..MaxGpu]
         /\ \A i, j \in 1..Len(inv) : byIndex(inv)[i] = byIndex(inv)[j] => i = j
<1> DEFINE D == Range(inv)
           k == Len(inv)
           at(i) == CHOOSE n \in D : Cardinality({m \in D : m < n}) = i - 1
<1>1. k \in Nat /\ inv \in [1..k -> 0..MaxGpu] /\ \A i, j \in 1..k : inv[i] = inv[j] => i = j
  BY InventoryIs
<1>2. D \subseteq 0..MaxGpu /\ D \in SUBSET Nat
  BY <1>1, FieldsAssumption DEF Range
<1>3. inv \in Surjection(1..k, D) /\ inv \in Injection(1..k, D)
  BY <1>1 DEF Range, Surjection, Injection, IsInjective
<1>4. IsFiniteSet(D) /\ Cardinality(D) = k
  <2> HIDE DEF k, D
  <2>1. IsFiniteSet(1..k) /\ Cardinality(1..k) = k
    BY <1>1, FS_Interval
  <2> QED
    BY <1>3, <2>1, FS_Surjection
<1>5. byIndex(inv) = [i \in 1..k |-> at(i)]
  BY DEF byIndex
<1> HIDE DEF D, k
<1>6. \A i \in 1..k : at(i) \in D /\ Cardinality({m \in D : m < at(i)}) = i - 1
  BY <1>1, <1>2, <1>4, InOrder
<1>7. \A i, j \in 1..k : at(i) = at(j) => i = j
  <2> TAKE i, j \in 1..k
  <2> HAVE at(i) = at(j)
  <2>1. i - 1 = j - 1
    BY <1>6
  <2> QED
    BY <1>1, <2>1
<1> HIDE DEF at
<1> QED
  BY <1>2, <1>5, <1>6, <1>7 DEF k

\* What a device field is read as, and what is shown for it.
LEMMA GpuIs ==
  ASSUME NEW raw \in Raw
  PROVE  asGpu(raw) = Cpu \/ \E n \in 0..MaxGpu : asGpu(raw) = Num(n)
BY FieldsAssumption DEF Raw, asGpu, Number, Num, Digits, Word, NaN, Cpu

\* An option that is a device or the cpu is read as what it shows.
LEMMA OptionReadsBack ==
  /\ gpuValue(parseGpu(Cpu)) = Cpu
  /\ \A n \in 0..MaxGpu : gpuValue(parseGpu(Digits(n))) = Digits(n) /\ Digits(n) # Cpu
BY FieldsAssumption DEF gpuValue, parseGpu, Number, Num, Digits, Word, NaN, Cpu

\* Whatever the row has and whatever devices there are, in any order, the field shows the
\* row's device once, and to choose an option is to have it.
LEMMA DeviceAlwaysOffered ==
  ASSUME NEW raw \in Raw, NEW inv \in Inventories
  PROVE  DeviceIsOffered(raw, inv)
<1> DEFINE g == asGpu(raw)
           cur == gpuValue(g)
           k == Len(inv)
           devices == [i \in 1..k |-> Digits(byIndex(inv)[i])]
           offered == devices \o <<Cpu>>
           options == deviceOptions(inv, g)
           V == {Cpu} \cup {Digits(n) : n \in 0..MaxGpu}
<1>1. k \in Nat
  BY InventoryIs
<1>2. cur \in V
  BY GpuIs DEF gpuValue, Num, Cpu, Word, Digits
<1>3. \A v \in V : gpuValue(parseGpu(v)) = v
  BY OptionReadsBack
<1>4. devices \in Seq(V) /\ Len(devices) = k
  <2>1. devices \in [1..k -> V]
    BY ByIndexIs
  <2> QED
    BY <1>1, <2>1, SeqDef, LenProperties
<1>5. \A i, j \in 1..k : devices[i] = devices[j] => i = j
  BY ByIndexIs DEF Digits
<1>6. \A i \in 1..k : devices[i] # Cpu
  BY OptionReadsBack, ByIndexIs
<1> HIDE DEF devices, V
<1>7. /\ offered \in Seq(V) /\ Len(offered) = k + 1
      /\ \A i \in 1..k : offered[i] = devices[i]
      /\ offered[k + 1] = Cpu
  <2>1. Cpu \in V
    BY DEF V
  <2> QED
    BY <1>1, <1>4, <2>1
<1>8. \A i, j \in 1..(k + 1) : offered[i] = offered[j] => i = j
  BY <1>1, <1>5, <1>6, <1>7
<1>9. options = (IF Contains(offered, cur) THEN <<>> ELSE <<cur>>) \o offered
  BY DEF deviceOptions, devices
<1> HIDE DEF offered, options, cur, g, k
<1>10. /\ options \in Seq(V)
       /\ \E i \in 1..Len(options) : options[i] = cur
       /\ \A i, j \in 1..Len(options) : options[i] = cur /\ options[j] = cur => i = j
  <2>1. CASE Contains(offered, cur)
    <3>1. options = offered
      BY <1>7, <1>9, <2>1
    <3> QED
      BY <1>7, <1>8, <2>1, <3>1 DEF Contains
  <2>2. CASE ~Contains(offered, cur)
    <3>1. options = <<cur>> \o offered
      BY <1>9, <2>2
    <3>2. /\ options \in Seq(V) /\ Len(options) = Len(offered) + 1
          /\ options[1] = cur
          /\ \A i \in 2..Len(options) : options[i] = offered[i - 1]
      BY <1>2, <1>7, <3>1
    <3>3. \A i \in 2..Len(options) : options[i] # cur
      BY <1>1, <1>7, <2>2, <3>2 DEF Contains
    <3> QED
      BY <1>1, <1>7, <3>2, <3>3
  <2> QED
    BY <2>1, <2>2
<1>11. Cardinality({i \in 1..Len(options) : options[i] = cur}) = 1
  <2>1. PICK i \in 1..Len(options) : {j \in 1..Len(options) : options[j] = cur} = {i}
    BY <1>10
  <2> QED
    BY <2>1, FS_Singleton
<1>12. \A i \in 1..Len(options) : gpuValue(parseGpu(options[i])) = options[i]
  BY <1>3, <1>10
<1> QED
  BY <1>11, <1>12 DEF DeviceIsOffered, options, cur, g

\* Any time to live goes through the page and back as it was.
LEMMA TtlAlwaysSurvives ==
  ASSUME NEW ttl \in StoredTtl
  PROVE  TtlSurvives(ttl)
BY FieldsAssumption
   DEF StoredTtl, TtlSurvives, enterTtl, showTtl, readTtl, Number, Num, Digits, Word, NaN

\* No entry but a blank one takes a model's time to live away.
LEMMA OnlyBlankIsNoTtl ==
  ASSUME NEW text \in Field
  PROVE  BlankIsNoTtl(text)
BY FieldsAssumption DEF Field, BlankIsNoTtl, enterTtl, Number, Num, Digits, Word, NaN

\* Settings view (settings.ts, settings_models.ts): a row that the user only looks at is not
\* changed by the page, whatever devices, times to live and entries there are.
THEOREM FieldsAlwaysKeepTheirValues == MCFairSpec => []FieldsKeepTheirValues
<1> DEFINE Given == field \in Fields \cup {NoField}
<1>1. MCInit => Given
  BY DEF MCInit
<1>2. Given /\ [MCNext]_<<vars, field>> => Given'
  BY DEF MCNext
<1>3. Given => FieldsKeepTheirValues
  <2> SUFFICES ASSUME Given PROVE FieldsKeepTheirValues
    OBVIOUS
  <2>1. CASE field \in [of : {"device"}, raw : Raw, inventory : Inventories]
    BY <2>1, DeviceAlwaysOffered DEF FieldsKeepTheirValues
  <2>2. CASE field \in [of : {"ttl"}, ttl : StoredTtl]
    BY <2>2, TtlAlwaysSurvives DEF FieldsKeepTheirValues
  <2>3. CASE field \in [of : {"entry"}, text : Field]
    BY <2>3, OnlyBlankIsNoTtl DEF FieldsKeepTheirValues
  <2>4. CASE field = NoField
    BY <2>4 DEF FieldsKeepTheirValues, NoField
  <2> QED
    BY <2>1, <2>2, <2>3, <2>4 DEF Fields
<1> QED
  BY <1>1, <1>2, <1>3, PTL DEF MCFairSpec

-----------------------------------------------------------------------------
(* The shell: pages, the chat list, and the chat a message opens *)

(* What there is to know of a view whose chats are those of the rows r. *)
KnownView(s, r) ==
  /\ s \in ViewState
  /\ s.chat \in DOMAIN r \cup {NoChat}
  /\ s.page \in DOMAIN r \cup {NoChat, Other}
  /\ s.ensure \in {"posting", "listing"} => s.made \in DOMAIN r

(* Chats are never deleted: whatever is remembered of one, its row is there. *)
KnownChats ==
  /\ DOMAIN chats \subseteq DOMAIN row
  /\ \A list \in lists : DOMAIN list \subseteq DOMAIN row
  /\ newChat \in DOMAIN row \cup {NoChat}
  /\ \A v \in View : KnownView(view[v], row)

(* ShellTypeOK, with what it rests on. *)
ShellTypes == ShellTypeOK /\ KnownChats

(* A list of chats has an override for each of some chats. *)
LEMMA ListIs ==
  ASSUME NEW list
  PROVE  list \in Lists <=> DOMAIN list \subseteq Chat /\ list \in [DOMAIN list -> Override]
BY DEF Lists

(* And every such function is a list. *)
LEMMA SomeList ==
  ASSUME NEW S, S \subseteq Chat, NEW list \in [S -> Override]
  PROVE  list \in Lists /\ DOMAIN list = S
BY DEF Lists

(* The view of no visit knows of no chat. *)
LEMMA NoViewKnown ==
  ASSUME NEW r
  PROVE  KnownView(NoView, r)
BY DEF KnownView, NoView, ViewState, Override, Page

(* Rows that are added take no view's chat away. *)
LEMMA KnownLater ==
  ASSUME NEW r, NEW s, KnownView(s, r), NEW q, DOMAIN r \subseteq DOMAIN q
  PROVE  KnownView(s, q)
BY DEF KnownView

(* A view that is left is kept as it is, or forgotten. *)
LEMMA KeptKnown ==
  ASSUME NEW r, NEW s, KnownView(s, r), NEW v
  PROVE  KnownView(Kept(v, s), r)
BY NoViewKnown DEF Kept

(* One view changes. *)
LEMMA OneView ==
  ASSUME ShellTypes, NEW v \in View, NEW s, KnownView(s, row), view' = [view EXCEPT ![v] = s]
  PROVE  view' \in [View -> ViewState] /\ \A w \in View : KnownView(view'[w], row)
BY DEF ShellTypes, ShellTypeOK, KnownChats, KnownView

(* A row is added, or an override is stored in one. *)
LEMMA NewRowIs ==
  ASSUME row \in Lists, NEW c \in Chat
  PROVE  NewRow(c) \in Lists /\ DOMAIN NewRow(c) = DOMAIN row \cup {c}
<1>1. NewRow(c) \in [DOMAIN row \cup {c} -> Override]
  BY ListIs DEF NewRow, Override
<1> QED
  BY <1>1, SomeList, ListIs

(* An override is stored in a row, if that is there: the list has the same chats. *)
LEMMA StoredIs ==
  ASSUME row \in Lists, NEW c, NEW model \in Override,
         row' \in {row, [row EXCEPT ![c] = model]}
  PROVE  row' \in Lists /\ DOMAIN row' = DOMAIN row
<1>1. row' \in [DOMAIN row -> Override]
  BY ListIs
<1> QED
  BY <1>1, SomeList, ListIs

(* The list before any has come. *)
LEMMA EmptyList == NoChats \in Lists /\ DOMAIN NoChats = {}
<1>1. NoChats \in [{} -> Override]
  BY DEF NoChats
<1> QED
  BY <1>1, SomeList

(* A page is shown that the client knows of. *)
LEMMA LeftKnown ==
  ASSUME NEW r, NEW s, KnownView(s, r)
  PROVE  KnownView(Left(s), r)
<1> DEFINE t == [s EXCEPT !.chat = NoChat, !.label = NoPick, !.picked = NoPick]
<1>1. t \in ViewState
  <2>1. s \in ViewState /\ NoPick \in Override
    BY DEF KnownView, Override
  <2> QED
    BY <2>1 DEF ViewState
<1>2. t.chat = NoChat /\ t.page = s.page /\ t.ensure = s.ensure /\ t.made = s.made
  BY DEF KnownView, ViewState
<1>3. KnownView(t, r)
  BY <1>1, <1>2 DEF KnownView
<1> QED
  BY <1>3, NoViewKnown, Zenon DEF Left

(* A page that is shown opens a view of its own and leaves the one before. *)
LEMMA ShowTypes ==
  ASSUME ShellTypes, NEW page, page \in DOMAIN row \cup {NoChat, Other}, Show(page)
  PROVE  /\ current' \in View /\ hash' \in Page
         /\ activeChatId' \in Chat \cup {NoChat} /\ disturbed' \in BOOLEAN
         /\ view' \in [View -> ViewState] /\ \A w \in View : KnownView(view'[w], row)
<1>1. DOMAIN row \subseteq Chat
  BY ListIs DEF ShellTypes, ShellTypeOK
<1>2. PICK v \in Free :
        /\ current' = v
        /\ view' = [w \in View |-> IF w = v THEN Opened(page)
                                   ELSE IF w = current THEN Left(view[w]) ELSE view[w]]
        /\ hash' = page
        /\ activeChatId' = ActiveAtMount(page)
        /\ disturbed' = (\E w \in View : AtWork(w))
  BY DEF Show
<1>3. v \in View
  BY <1>2 DEF Free
<1>4. KnownView(Opened(page), row)
  BY <1>1 DEF Opened, KnownView, NoView, ViewState, Page, Override, ChatOf, ShellTypes, ShellTypeOK
<1>5. \A w \in View : KnownView(view'[w], row)
  BY <1>2, <1>4, LeftKnown DEF ShellTypes, KnownChats
<1>6. view' \in [View -> ViewState]
  BY <1>2, <1>5 DEF KnownView
<1>7. activeChatId' \in Chat \cup {NoChat}
  BY <1>1, <1>2 DEF ActiveAtMount, ShellTypes, ShellTypeOK
<1> QED
  BY <1>1, <1>2, <1>3, <1>5, <1>6, <1>7 DEF Page

(* The user, or the address bar, goes to another page. *)
LEMMA NavigateTypes ==
  ASSUME ShellTypes, NEW page \in Page, Navigate(page)
  PROVE  ShellTypes'
<1>1. page \in DOMAIN row \cup {NoChat, Other}
  BY DEF Navigate, ShellTypes, KnownChats
<1> QED
  BY <1>1, ShowTypes DEF Navigate, ShellTypes, ShellTypeOK, KnownChats, View

(* The chat that the New chat button made opens. *)
LEMMA OpenNewChatTypes ==
  ASSUME ShellTypes, OpenNewChat
  PROVE  ShellTypes'
<1>1. newChat \in DOMAIN row
  BY DEF OpenNewChat, ShellTypes, KnownChats
<1> QED
  BY <1>1, ShowTypes DEF OpenNewChat, ShellTypes, ShellTypeOK, KnownChats, View

(* An answer of listChats comes, or fails, or another is asked for. *)
LEMMA ListTypes ==
  ASSUME ShellTypes, RefreshSoon \/ \E list \in lists : ListArrives(list) \/ ListFails(list)
  PROVE  ShellTypes'
BY DEF RefreshSoon, AskList, ListArrives, ListFails, ShellTypes, ShellTypeOK, KnownChats

(* What follows a mount: the store gets its chat, and the list is asked for. *)
LEMMA RoutedTypes ==
  ASSUME ShellTypes, NEW v \in View, Routed(v, activeChatId)
  PROVE  /\ activeChatId' \in Chat \cup {NoChat}
         /\ lists' \subseteq Lists /\ \A list \in lists' : DOMAIN list \subseteq DOMAIN row
<1>1. view[v].page \in Chat \cup {NoChat, Other}
  BY DEF ShellTypes, ShellTypeOK, ViewState, Page
<1> QED
  BY <1>1 DEF Routed, AskList, ChatOf, ShellTypes, ShellTypeOK, KnownChats

(* The override of a chat, and its label, are taken from a list. *)
LEMMA HydrateTypes ==
  ASSUME ShellTypes, NEW v \in View, NEW list \in Lists, Hydrate(v, list)
  PROVE  /\ modelOverride' \in Override
         /\ view' \in [View -> ViewState] /\ \A w \in View : KnownView(view'[w], row)
<1>1. OverrideIn(list, view[v].page) \in Override
  BY ListIs DEF OverrideIn, Override
<1> DEFINE s == [view[v] EXCEPT !.mount = "history",
                                !.label = LabelNow(v, OverrideIn(list, view[v].page))]
<1>2. KnownView(view[v], row)
  BY DEF ShellTypes, KnownChats
<1>3. KnownView(s, row)
  BY <1>1, <1>2 DEF KnownView, ViewState, LabelNow
<1>4. view' = [view EXCEPT ![v] = s]
  BY DEF Hydrate, ShellTypes, ShellTypeOK
<1> QED
  BY <1>1, <1>3, <1>4, OneView DEF Hydrate

(* A mount is done. *)
LEMMA DoneTypes ==
  ASSUME ShellTypes, NEW v \in View,
         view' = [view EXCEPT ![v] = Kept(v, [@ EXCEPT !.mount = "done"])]
  PROVE  view' \in [View -> ViewState] /\ \A w \in View : KnownView(view'[w], row)
<1>1. KnownView([view[v] EXCEPT !.mount = "done"], row)
  BY DEF KnownView, ViewState, ShellTypes, KnownChats
<1>2. KnownView(Kept(v, [view[v] EXCEPT !.mount = "done"]), row)
  BY <1>1, KeptKnown
<1> QED
  BY <1>2, OneView DEF ShellTypes, ShellTypeOK

(* The health check of a mount returns. *)
LEMMA HealthTypes ==
  ASSUME ShellTypes, NEW v \in View, HealthArrives(v)
  PROVE  ShellTypes'
<1>1. UNCHANGED <<row, chats, hash, current, newChat, posts, disturbed>>
  BY DEF HealthArrives
<1>2. CASE view[v].page \in {NoChat, Other}
  <2>1. modelOverride' \in Override
    BY <1>2 DEF HealthArrives, OverrideAtMount, Override, ShellTypes, ShellTypeOK
  <2>2. view' \in [View -> ViewState] /\ \A w \in View : KnownView(view'[w], row)
    BY <1>2, DoneTypes DEF HealthArrives
  <2>3. Routed(v, activeChatId)
    BY <1>2 DEF HealthArrives
  <2> QED
    BY <1>1, <2>1, <2>2, <2>3, RoutedTypes DEF ShellTypes, ShellTypeOK, KnownChats
<1>3. CASE view[v].page \notin {NoChat, Other} /\ chats = NoChats
  <2>1. KnownView([view[v] EXCEPT !.mount = "list"], row)
    BY DEF KnownView, ViewState, ShellTypes, KnownChats
  <2>2. view' \in [View -> ViewState] /\ \A w \in View : KnownView(view'[w], row)
    BY <1>3, <2>1, OneView DEF HealthArrives, ShellTypes, ShellTypeOK
  <2> QED
    BY <1>1, <1>3, <2>2 DEF HealthArrives, ShellTypes, ShellTypeOK, KnownChats
<1>4. CASE view[v].page \notin {NoChat, Other} /\ chats # NoChats
  <2>1. chats \in Lists
    BY DEF ShellTypes, ShellTypeOK
  <2>2. Hydrate(v, chats)
    BY <1>4 DEF HealthArrives
  <2>3. /\ modelOverride' \in Override
        /\ view' \in [View -> ViewState] /\ \A w \in View : KnownView(view'[w], row)
    BY <2>1, <2>2, HydrateTypes
  <2> QED
    BY <1>1, <1>4, <2>3 DEF HealthArrives, ShellTypes, ShellTypeOK, KnownChats
<1> QED
  BY <1>2, <1>3, <1>4

(* The list a mount waits for comes. *)
LEMMA MountListTypes ==
  ASSUME ShellTypes, NEW v \in View, MountListArrives(v)
  PROVE  ShellTypes'
<1>1. PICK list \in {row, NoChats} :
        Hydrate(v, list) /\ chats' = IF chats = NoChats THEN list ELSE chats
  BY DEF MountListArrives
<1>2. list \in Lists /\ DOMAIN list \subseteq DOMAIN row
  BY EmptyList DEF ShellTypes, ShellTypeOK
<1> QED
  BY <1>1, <1>2, HydrateTypes DEF MountListArrives, ShellTypes, ShellTypeOK, KnownChats

(* The history of the chat comes, and its mount is done. *)
LEMMA HistoryTypes ==
  ASSUME ShellTypes, NEW v \in View, HistoryArrives(v)
  PROVE  ShellTypes'
BY DoneTypes, RoutedTypes DEF HistoryArrives, ShellTypes, ShellTypeOK, KnownChats

(* A model is picked. *)
LEMMA PickTypes ==
  ASSUME ShellTypes, NEW model \in Override, Pick(model)
  PROVE  ShellTypes'
<1>1. current \in View
  BY DEF Pick, ChatBuilt, ShellTypes, ShellTypeOK, View
<1>2. KnownView(view[current], row)
  BY <1>1 DEF ShellTypes, KnownChats
<1>3. /\ KnownView([view[current] EXCEPT !.label = model, !.picked = model], row)
      /\ KnownView([view[current] EXCEPT !.picked = model], row)
  BY <1>2 DEF KnownView, ViewState
<1>4. \/ view' = [view EXCEPT ![current] = [view[current] EXCEPT !.label = model, !.picked = model]]
      \/ view' = [view EXCEPT ![current] = [view[current] EXCEPT !.picked = model]]
  BY <1>1 DEF Pick, ShellTypes, ShellTypeOK
<1>5. view' \in [View -> ViewState] /\ \A w \in View : KnownView(view'[w], row)
  BY <1>1, <1>3, <1>4, OneView
<1>6. \A p \in posts' : p.chat \in DOMAIN row /\ p.model \in Override /\ p.view \in View
  BY <1>1, <1>2 DEF Pick, KnownView, ShellTypes, ShellTypeOK
<1> QED
  BY <1>5, <1>6 DEF Pick, ShellTypes, ShellTypeOK, KnownChats

(* The request that stores a pick is answered. *)
LEMMA PostReturnsTypes ==
  ASSUME ShellTypes, NEW p \in posts, PostReturns(p)
  PROVE  ShellTypes'
<1>1. row' \in Lists /\ DOMAIN row' = DOMAIN row
  BY StoredIs DEF PostReturns, ShellTypes, ShellTypeOK
<1>2. view' \in [View -> ViewState] /\ \A w \in View : KnownView(view'[w], row)
  <2>1. CASE p.view = current /\ view[current].chat = p.chat
    <3>1. current \in View
      BY <2>1 DEF ShellTypes, ShellTypeOK
    <3>2. KnownView([view[current] EXCEPT !.label = modelOverride], row)
      BY <3>1 DEF KnownView, ViewState, ShellTypes, ShellTypeOK, KnownChats
    <3>3. view' = [view EXCEPT ![current] = [view[current] EXCEPT !.label = modelOverride]]
      BY <2>1, <3>1 DEF PostReturns, ShellTypes, ShellTypeOK
    <3> QED
      BY <3>1, <3>2, <3>3, OneView
  <2>2. CASE ~ (p.view = current /\ view[current].chat = p.chat)
    BY <2>2 DEF PostReturns, ShellTypes, ShellTypeOK, KnownChats
  <2> QED
    BY <2>1, <2>2
<1>3. \A w \in View : KnownView(view'[w], row')
  BY <1>1, <1>2, KnownLater
<1> QED
  BY <1>1, <1>2, <1>3 DEF PostReturns, ShellTypes, ShellTypeOK, KnownChats

(* The first message of a chat is sent: the chat is asked for. *)
LEMMA SendFirstTypes ==
  ASSUME ShellTypes, SendFirst
  PROVE  ShellTypes'
<1>1. current \in View
  BY DEF SendFirst, ChatBuilt, ShellTypes, ShellTypeOK, View
<1>2. KnownView(view[current], row)
  BY <1>1 DEF ShellTypes, KnownChats
<1>3. KnownView([view[current] EXCEPT !.ensure = "creating"], row)
  BY <1>2 DEF KnownView, ViewState
<1>4. view' = [view EXCEPT ![current] = [view[current] EXCEPT !.ensure = "creating"]]
  BY <1>1 DEF SendFirst, ShellTypes, ShellTypeOK
<1>5. view' \in [View -> ViewState] /\ \A w \in View : KnownView(view'[w], row)
  BY <1>1, <1>3, <1>4, OneView
<1> QED
  BY <1>5 DEF SendFirst, ShellTypes, ShellTypeOK, KnownChats

(* The chat is made. *)
LEMMA CreateTypes ==
  ASSUME ShellTypes, NEW v \in View, CreateReturns(v)
  PROVE  ShellTypes'
<1> DEFINE stage == IF modelOverride # NoPick THEN "posting" ELSE "listing"
           made(c) == [view[v] EXCEPT !.chat = c, !.made = c, !.pending = modelOverride,
                                      !.ensure = stage]
<1>0. PICK c \in Chat \ DOMAIN row :
        /\ row' = NewRow(c)
        /\ view' = [view EXCEPT ![v].chat = c, ![v].made = c, ![v].pending = modelOverride,
                                ![v].ensure = stage]
  BY Zenon DEF CreateReturns
<1>1. view' = [view EXCEPT ![v] = made(c)]
  <2> HIDE DEF stage
  <2> QED
    BY <1>0 DEF ShellTypes, ShellTypeOK
<1>2. row' \in Lists /\ DOMAIN row' = DOMAIN row \cup {c}
  BY <1>0, NewRowIs DEF ShellTypes, ShellTypeOK
<1>3. KnownView(view[v], row)
  BY DEF ShellTypes, KnownChats
<1>4. KnownView(made(c), row')
  BY <1>2, <1>3 DEF KnownView, ViewState, ShellTypes, ShellTypeOK
<1>5. \A w \in View : KnownView(view[w], row')
  BY <1>2, KnownLater DEF ShellTypes, KnownChats
<1>6. view' \in [View -> ViewState] /\ \A w \in View : KnownView(view'[w], row')
  BY <1>1, <1>4, <1>5 DEF KnownView, ShellTypes, ShellTypeOK
<1> QED
  BY <1>2, <1>6 DEF CreateReturns, ShellTypes, ShellTypeOK, KnownChats

(* The pick that was waiting for the chat is stored. *)
LEMMA PendingTypes ==
  ASSUME ShellTypes, NEW v \in View, PendingStored(v)
  PROVE  ShellTypes'
<1>1. KnownView(view[v], row)
  BY DEF ShellTypes, KnownChats
<1>2. row' \in Lists /\ DOMAIN row' = DOMAIN row
  BY <1>1, StoredIs DEF PendingStored, KnownView, ViewState, ShellTypes, ShellTypeOK
<1>3. KnownView([view[v] EXCEPT !.ensure = "listing", !.pending = NoPick], row)
  <2>1. NoPick \in Override /\ view[v].made \in DOMAIN row
    BY <1>1 DEF PendingStored, KnownView, Override
  <2> QED
    BY <1>1, <2>1 DEF KnownView, ViewState
<1>4. view' = [view EXCEPT ![v] = [view[v] EXCEPT !.ensure = "listing", !.pending = NoPick]]
  <2>1. view' = [view EXCEPT ![v].ensure = "listing", ![v].pending = NoPick]
    BY DEF PendingStored
  <2> QED
    BY <2>1 DEF ShellTypes, ShellTypeOK
<1>5. view' \in [View -> ViewState] /\ \A w \in View : KnownView(view'[w], row)
  BY <1>3, <1>4, OneView
<1>6. \A w \in View : KnownView(view'[w], row')
  BY <1>2, <1>5, KnownLater
<1> QED
  BY <1>2, <1>5, <1>6 DEF PendingStored, ShellTypes, ShellTypeOK, KnownChats

(* ensureChat ends. *)
LEMMA EnsureEndsTypes ==
  ASSUME ShellTypes, NEW v \in View,
         view' = [view EXCEPT ![v] = Kept(v, [@ EXCEPT !.ensure = "none", !.made = NoChat])]
  PROVE  view' \in [View -> ViewState] /\ \A w \in View : KnownView(view'[w], row)
<1>1. KnownView([view[v] EXCEPT !.ensure = "none", !.made = NoChat], row)
  BY DEF KnownView, ViewState, ShellTypes, KnownChats
<1>2. KnownView(Kept(v, [view[v] EXCEPT !.ensure = "none", !.made = NoChat]), row)
  BY <1>1, KeptKnown
<1> QED
  BY <1>2, OneView DEF ShellTypes, ShellTypeOK

(* It ends with a chat, whose address is set. *)
LEMMA EnsureReturnsTypes ==
  ASSUME ShellTypes, NEW v \in View, EnsureReturns(v)
  PROVE  ShellTypes'
<1>1. view[v].made \in DOMAIN row /\ view[v].made \in Chat \cup {NoChat}
  BY DEF EnsureReturns, KnownView, ViewState, ShellTypes, KnownChats
<1>2. view' \in [View -> ViewState] /\ \A w \in View : KnownView(view'[w], row)
  BY EnsureEndsTypes DEF EnsureReturns
<1> QED
  BY <1>1, <1>2 DEF EnsureReturns, HashOf, Page, ShellTypes, ShellTypeOK, KnownChats

(* It fails, and the page stays without a chat. *)
LEMMA EnsureFailsTypes ==
  ASSUME ShellTypes, NEW v \in View, EnsureFails(v)
  PROVE  ShellTypes'
<1>1. view' \in [View -> ViewState] /\ \A w \in View : KnownView(view'[w], row)
  BY EnsureEndsTypes DEF EnsureFails
<1> QED
  BY <1>1 DEF EnsureFails, ShellTypes, ShellTypeOK, KnownChats

(* New chat is clicked, and a chat is made. *)
LEMMA ClickTypes ==
  ASSUME ShellTypes, ClickNewChat
  PROVE  ShellTypes'
<1>1. PICK c \in Chat \ DOMAIN row : row' = NewRow(c) /\ newChat' = c
  BY DEF ClickNewChat
<1>2. row' \in Lists /\ DOMAIN row' = DOMAIN row \cup {c}
  BY <1>1, NewRowIs DEF ShellTypes, ShellTypeOK
<1>3. \A w \in View : KnownView(view[w], row')
  BY <1>2, KnownLater DEF ShellTypes, KnownChats
<1> QED
  BY <1>1, <1>2, <1>3 DEF ClickNewChat, ShellTypes, ShellTypeOK, KnownChats

(* The shell's state has its types, and every chat a view, a list or the store names is a *)
(* row of the server.                                                                     *)
THEOREM ShellTypesInvariant == ShellSpec => []ShellTypes
<1>1. ShellInit => ShellTypes
  <2> SUFFICES ASSUME ShellInit PROVE ShellTypes
    OBVIOUS
  <2>1. row \in Lists
    BY SomeList, ShellAssumption DEF ShellInit
  <2>2. chats \in Lists /\ DOMAIN chats \subseteq DOMAIN row
    BY <2>1, EmptyList DEF ShellInit
  <2>3. \A v \in View : KnownView(view[v], row)
    BY NoViewKnown DEF ShellInit
  <2>4. view \in [View -> ViewState]
    BY <2>3 DEF ShellInit, KnownView
  <2>5. KnownChats
    BY <2>2, <2>3 DEF ShellInit, KnownChats
  <2>6. NoPick \in Override /\ NoChat \in Page /\ 0 \in 0..MaxViews
    BY ShellAssumption DEF Override, Page
  <2> QED
    BY <2>1, <2>2, <2>4, <2>5, <2>6 DEF ShellInit, ShellTypes, ShellTypeOK
<1>2. ShellTypes /\ [ShellNext]_shellVars => ShellTypes'
  <2> SUFFICES ASSUME ShellTypes, [ShellNext]_shellVars PROVE ShellTypes'
    OBVIOUS
  <2>1. CASE \E v \in View :
          \/ HealthArrives(v) \/ MountListArrives(v) \/ HistoryArrives(v)
          \/ CreateReturns(v) \/ PendingStored(v) \/ EnsureReturns(v) \/ EnsureFails(v)
    BY <2>1, HealthTypes, MountListTypes, HistoryTypes, CreateTypes, PendingTypes,
       EnsureReturnsTypes, EnsureFailsTypes
  <2>2. CASE RefreshSoon \/ \E list \in lists : ListArrives(list) \/ ListFails(list)
    BY <2>2, ListTypes
  <2>3. CASE SendFirst \/ ClickNewChat \/ OpenNewChat
    BY <2>3, SendFirstTypes, ClickTypes, OpenNewChatTypes
  <2>4. CASE \E page \in Page : Navigate(page)
    BY <2>4, NavigateTypes
  <2>5. CASE \E model \in Override : Pick(model)
    BY <2>5, PickTypes
  <2>6. CASE \E p \in posts : PostReturns(p)
    BY <2>6, PostReturnsTypes
  <2>7. CASE UNCHANGED shellVars
    BY <2>7 DEF shellVars, ShellTypes, ShellTypeOK, KnownChats
  <2> QED
    BY <2>1, <2>2, <2>3, <2>4, <2>5, <2>6, <2>7 DEF ShellNext
<1> QED
  BY <1>1, <1>2, PTL DEF ShellSpec
-----------------------------------------------------------------------------
(* While the user waits for each page, only the view on the screen works. *)
NobodyElseWorks == \A w \in View : AtWork(w) => w = current

(* Until its mount is done a view is on its page's chat; a chat is only made on the New *)
(* chat page, after that.                                                               *)
ChatOfPage ==
  LET s == view[current]
  IN /\ s.page \in Chat => s.chat = s.page
     /\ s.ensure # "none" => s.page = NoChat /\ s.mount = "done"
     /\ s.mount # "done" => s.chat = ChatOf(s.page) /\ s.picked = NoPick
     /\ s.mount \in {"list", "history"} => s.page \in Chat

(* The address and the store's chat stay behind only while the chat is being made. *)
AddressFollows ==
  LET s == view[current]
  IN s.page # Other =>
       /\ s.ensure = "none" => hash = s.chat /\ activeChatId = s.chat
       /\ s.ensure = "creating" => s.chat = NoChat /\ hash = NoChat /\ activeChatId = NoChat
       /\ s.ensure \in {"posting", "listing"} => s.made = s.chat

(* The label stays behind only while a pick of this view is being posted. *)
LabelFollows ==
  LET s == view[current]
  IN s.page \in Chat =>
       \/ s.label = modelOverride
       \/ \E p \in posts : p.view = current /\ p.chat = s.chat

(* What is picked on the New chat page, and nothing else, is the store's override. *)
PickFollows ==
  view[current].page = NoChat /\ view[current].mount = "done" =>
    modelOverride = view[current].picked

(* What is on the screen is in order. *)
Settled == ChatOfPage /\ AddressFollows /\ LabelFollows /\ PickFollows

(* A user who waits for each page. *)
Patient == ~disturbed => NobodyElseWorks /\ (current # 0 => Settled)

(* A page that was just opened, of a user who waited, is settled. *)
LEMMA ShowSettles ==
  ASSUME ShellTypes, NEW page, page \in DOMAIN row \cup {NoChat, Other}, Show(page),
         modelOverride' = modelOverride
  PROVE  Patient'
<1> SUFFICES ASSUME ~disturbed' PROVE NobodyElseWorks' /\ Settled'
  BY DEF Patient
<1>1. PICK v \in Free :
        /\ current' = v
        /\ view' = [w \in View |-> IF w = v THEN Opened(page)
                                   ELSE IF w = current THEN Left(view[w]) ELSE view[w]]
        /\ hash' = page
        /\ activeChatId' = ActiveAtMount(page)
        /\ disturbed' = (\E w \in View : AtWork(w))
  BY DEF Show
<1>2. v \in View
  BY <1>1 DEF Free
<1>3. NobodyElseWorks'
  <2> SUFFICES ASSUME NEW w \in View, w # v PROVE ~ViewBusy(view'[w])
    BY <1>1, <1>2 DEF NobodyElseWorks, AtWork
  <2>1. ~ViewBusy(view[w])
    BY <1>1 DEF AtWork
  <2>2. view'[w] \in {view[w], NoView}
    BY <1>1, <2>1 DEF Left
  <2> QED
    BY <2>1, <2>2 DEF ViewBusy, NoView
<1>4. view'[current'] = Opened(page)
  BY <1>1, <1>2
<1> DEFINE s == Opened(page)
<1>5. /\ s.mount = "health" /\ s.page = page /\ s.chat = ChatOf(page) /\ s.ensure = "none"
      /\ s.label = modelOverride /\ s.picked = NoPick
  BY DEF Opened, NoView
<1>6. page # Other => ChatOf(page) = page /\ activeChatId' = page
  BY <1>1 DEF ChatOf, ActiveAtMount
<1> HIDE DEF s
<1>7. view'[current'] = s
  BY <1>4 DEF s
<1>8. ChatOfPage'
  BY <1>5, <1>6, <1>7, ShellAssumption DEF ChatOfPage
<1>9. AddressFollows'
  BY <1>1, <1>5, <1>6, <1>7 DEF AddressFollows
<1>10. LabelFollows' /\ PickFollows'
  BY <1>5, <1>7 DEF LabelFollows, PickFollows
<1> QED
  BY <1>3, <1>8, <1>9, <1>10 DEF Settled

(* Nothing but the view on the screen has changed. *)
LEMMA OnlyMine ==
  ASSUME NobodyElseWorks, current' = current,
         \A w \in View : w # current => view'[w] = view[w]
  PROVE  NobodyElseWorks'
BY DEF NobodyElseWorks, AtWork

(* The health check of the view on the screen returns. *)
LEMMA HealthSettles ==
  ASSUME ShellTypes, NEW v \in View, HealthArrives(v), ~disturbed, NobodyElseWorks,
         current # 0 => Settled
  PROVE  NobodyElseWorks' /\ Settled'
<1>1. v = current /\ view[v].mount = "health" /\ current # 0 /\ current' = current
      /\ hash' = hash /\ posts' = posts
  BY DEF HealthArrives, NobodyElseWorks, AtWork, ViewBusy, View
<1>2. view[v] \in ViewState /\ view[v].page \in Chat \cup {NoChat, Other}
      /\ view[v].ensure = "none" /\ view[v].chat = ChatOf(view[v].page)
      /\ view[v].picked = NoPick
      /\ (view[v].page # Other => view[v].chat = view[v].page /\ hash = view[v].chat
                                  /\ activeChatId = view[v].chat)
  BY <1>1 DEF Settled, ChatOfPage, AddressFollows, ChatOf, ShellTypes, ShellTypeOK, ViewState, Page
<1>3. CASE view[v].page \in {NoChat, Other}
  <2> DEFINE s == [view[v] EXCEPT !.mount = "done"]
  <2>1. view' = [view EXCEPT ![v] = s]
    BY <1>1, <1>3 DEF HealthArrives, Kept
  <2>2. view'[v] = s /\ \A w \in View : w # v => view'[w] = view[w]
    BY <2>1 DEF ShellTypes, ShellTypeOK
  <2>3. /\ s.mount = "done" /\ s.page = view[v].page /\ s.chat = view[v].chat
        /\ s.ensure = "none" /\ s.picked = NoPick
    BY <1>2 DEF ViewState
  <2>4. activeChatId' = ChatOf(view[v].page)
    BY <1>1, <1>3 DEF HealthArrives, Routed
  <2>5. view[v].page = NoChat => modelOverride' = NoPick
    BY <1>3 DEF HealthArrives, OverrideAtMount
  <2> HIDE DEF s
  <2>6. NobodyElseWorks'
    BY <1>1, <2>2, OnlyMine
  <2>7. view'[current'] = s
    BY <1>1, <2>2
  <2>8. view[v].page \notin Chat
    BY <1>3, ShellAssumption
  <2> QED
    BY <1>1, <1>2, <1>3, <2>3, <2>4, <2>5, <2>6, <2>7, <2>8
       DEF Settled, ChatOfPage, AddressFollows, LabelFollows, PickFollows, ChatOf
<1>4. CASE view[v].page \notin {NoChat, Other} /\ chats = NoChats
  <2> DEFINE s == [view[v] EXCEPT !.mount = "list"]
  <2>1. view' = [view EXCEPT ![v] = s] /\ UNCHANGED <<modelOverride, activeChatId>>
    BY <1>4 DEF HealthArrives, ShellTypes, ShellTypeOK
  <2>2. view'[v] = s /\ \A w \in View : w # v => view'[w] = view[w]
    BY <2>1 DEF ShellTypes, ShellTypeOK
  <2>3. /\ s.mount = "list" /\ s.page = view[v].page /\ s.chat = view[v].chat
        /\ s.ensure = "none" /\ s.picked = NoPick /\ s.label = view[v].label
    BY <1>2 DEF ViewState
  <2> HIDE DEF s
  <2>4. NobodyElseWorks'
    BY <1>1, <2>2, OnlyMine
  <2>5. view'[current'] = s
    BY <1>1, <2>2
  <2>6. LabelFollows'
    BY <1>1, <2>1, <2>3, <2>5 DEF Settled, LabelFollows
  <2> QED
    BY <1>1, <1>2, <1>4, <2>1, <2>3, <2>4, <2>5, <2>6
       DEF Settled, ChatOfPage, AddressFollows, PickFollows, ChatOf
<1>5. CASE view[v].page \notin {NoChat, Other} /\ chats # NoChats
  <2> DEFINE s == [view[v] EXCEPT !.mount = "history", !.label = modelOverride']
  <2>1. view' = [view EXCEPT ![v] = s] /\ UNCHANGED activeChatId
    BY <1>1, <1>5 DEF HealthArrives, Hydrate, LabelNow, ShellTypes, ShellTypeOK
  <2>2. view'[v] = s /\ \A w \in View : w # v => view'[w] = view[w]
    BY <2>1 DEF ShellTypes, ShellTypeOK
  <2>3. /\ s.mount = "history" /\ s.page = view[v].page /\ s.chat = view[v].chat
        /\ s.ensure = "none" /\ s.picked = NoPick /\ s.label = modelOverride'
    BY <1>2 DEF ViewState
  <2> HIDE DEF s
  <2>4. NobodyElseWorks'
    BY <1>1, <2>2, OnlyMine
  <2>5. view'[current'] = s
    BY <1>1, <2>2
  <2> QED
    BY <1>1, <1>2, <1>5, <2>1, <2>3, <2>4, <2>5
       DEF Settled, ChatOfPage, AddressFollows, LabelFollows, PickFollows, ChatOf
<1> QED
  BY <1>3, <1>4, <1>5

(* Its list comes, and with it the override of its chat. *)
LEMMA MountListSettles ==
  ASSUME ShellTypes, NEW v \in View, MountListArrives(v), ~disturbed, NobodyElseWorks,
         current # 0 => Settled
  PROVE  NobodyElseWorks' /\ Settled'
<1>1. v = current /\ view[v].mount = "list" /\ current # 0 /\ current' = current
      /\ hash' = hash /\ posts' = posts /\ activeChatId' = activeChatId
  BY DEF MountListArrives, NobodyElseWorks, AtWork, ViewBusy, View
<1>2. view[v] \in ViewState /\ view[v].page \in Chat /\ view[v].page \notin {NoChat, Other}
      /\ view[v].ensure = "none" /\ view[v].picked = NoPick
      /\ view[v].chat = view[v].page /\ view[v].chat = ChatOf(view[v].page)
      /\ hash = view[v].chat /\ activeChatId = view[v].chat
  BY <1>1, ShellAssumption
     DEF Settled, ChatOfPage, AddressFollows, ShellTypes, ShellTypeOK, ViewState, Page
<1> DEFINE s == [view[v] EXCEPT !.mount = "history", !.label = modelOverride']
<1>3. view' = [view EXCEPT ![v] = s]
  BY <1>1 DEF MountListArrives, Hydrate, LabelNow, ShellTypes, ShellTypeOK
<1>4. view'[v] = s /\ \A w \in View : w # v => view'[w] = view[w]
  BY <1>3 DEF ShellTypes, ShellTypeOK
<1>5. /\ s.mount = "history" /\ s.page = view[v].page /\ s.chat = view[v].chat
      /\ s.ensure = "none" /\ s.picked = NoPick /\ s.label = modelOverride'
  BY <1>2 DEF ViewState
<1> HIDE DEF s
<1>6. NobodyElseWorks'
  BY <1>1, <1>4, OnlyMine
<1>7. view'[current'] = s
  BY <1>1, <1>4
<1> QED
  BY <1>1, <1>2, <1>5, <1>6, <1>7
     DEF Settled, ChatOfPage, AddressFollows, LabelFollows, PickFollows

(* Its history comes: the label and the store agree. *)
LEMMA HistorySettles ==
  ASSUME ShellTypes, NEW v \in View, HistoryArrives(v), ~disturbed, NobodyElseWorks,
         current # 0 => Settled
  PROVE  NobodyElseWorks' /\ Settled'
<1>1. v = current /\ view[v].mount = "history" /\ current # 0 /\ current' = current
      /\ hash' = hash /\ posts' = posts /\ modelOverride' = modelOverride
  BY DEF HistoryArrives, NobodyElseWorks, AtWork, ViewBusy, View
<1>2. view[v] \in ViewState /\ view[v].page \in Chat /\ view[v].page \notin {NoChat, Other}
      /\ view[v].ensure = "none"
      /\ view[v].chat = view[v].page /\ view[v].chat = ChatOf(view[v].page)
      /\ hash = view[v].chat
  BY <1>1, ShellAssumption
     DEF Settled, ChatOfPage, AddressFollows, ShellTypes, ShellTypeOK, ViewState, Page
<1> DEFINE s == [view[v] EXCEPT !.mount = "done"]
<1>3. view' = [view EXCEPT ![v] = s]
  BY <1>1 DEF HistoryArrives, Kept
<1>4. view'[v] = s /\ \A w \in View : w # v => view'[w] = view[w]
  BY <1>3 DEF ShellTypes, ShellTypeOK
<1>5. /\ s.mount = "done" /\ s.page = view[v].page /\ s.chat = view[v].chat
      /\ s.ensure = "none" /\ s.label = view[v].label
  BY <1>2 DEF ViewState
<1>6. activeChatId' = view[v].chat
  BY <1>1, <1>2 DEF HistoryArrives, Routed
<1> HIDE DEF s
<1>7. NobodyElseWorks'
  BY <1>1, <1>4, OnlyMine
<1>8. view'[current'] = s
  BY <1>1, <1>4
<1>9. LabelFollows'
  BY <1>1, <1>5, <1>8 DEF Settled, LabelFollows
<1> QED
  BY <1>1, <1>2, <1>5, <1>6, <1>7, <1>8, <1>9
     DEF Settled, ChatOfPage, AddressFollows, PickFollows

(* A pick for a chat is posted, so its label may wait. *)
LEMMA PickSettles ==
  ASSUME ShellTypes, NEW model \in Override, Pick(model), ~disturbed', NobodyElseWorks,
         current # 0 => Settled
  PROVE  NobodyElseWorks' /\ Settled'
<1>0. ChatShown
  BY Zenon DEF Pick
<1>1. /\ current \in View /\ current # 0 /\ view[current].page # Other
      /\ view[current].mount = "done" /\ current' = current
      /\ hash' = hash /\ activeChatId' = activeChatId /\ modelOverride' = model
  BY <1>0 DEF Pick, ChatShown, ChatBuilt, View, ShellTypes, ShellTypeOK
<1>2. view[current] \in ViewState /\ view[current].page \in Chat \cup {NoChat}
  BY <1>1 DEF ShellTypes, ShellTypeOK, ViewState, Page
<1>3. CASE view[current].chat = NoChat
  <2> DEFINE s == [view[current] EXCEPT !.label = model, !.picked = model]
  <2>1. view' = [view EXCEPT ![current] = s]
    BY <1>1, <1>3 DEF Pick, ShellTypes, ShellTypeOK
  <2>2. view'[current] = s /\ \A w \in View : w # current => view'[w] = view[w]
    BY <1>1, <2>1 DEF ShellTypes, ShellTypeOK
  <2>3. /\ s.mount = "done" /\ s.page = view[current].page /\ s.chat = view[current].chat
        /\ s.ensure = view[current].ensure /\ s.made = view[current].made
        /\ s.picked = model /\ s.label = model
    BY <1>1, <1>2 DEF ViewState
  <2> HIDE DEF s
  <2>4. view'[current'] = s
    BY <1>1, <2>2
  <2>5. NobodyElseWorks'
    BY <1>1, <2>2, OnlyMine
  <2>6. ChatOfPage' /\ AddressFollows'
    BY <1>1, <2>3, <2>4 DEF Settled, ChatOfPage, AddressFollows
  <2> QED
    BY <1>1, <2>3, <2>4, <2>5, <2>6 DEF Settled, LabelFollows, PickFollows
<1>4. CASE view[current].chat # NoChat
  <2> DEFINE s == [view[current] EXCEPT !.picked = model]
             post == [chat |-> view[current].chat, model |-> model, view |-> current]
  <2>1. view' = [view EXCEPT ![current] = s] /\ post \in posts'
    BY <1>1, <1>4 DEF Pick, ShellTypes, ShellTypeOK
  <2>2. view'[current] = s /\ \A w \in View : w # current => view'[w] = view[w]
    BY <1>1, <2>1 DEF ShellTypes, ShellTypeOK
  <2>3. /\ s.mount = "done" /\ s.page = view[current].page /\ s.chat = view[current].chat
        /\ s.ensure = view[current].ensure /\ s.made = view[current].made
        /\ s.picked = model
    BY <1>1, <1>2 DEF ViewState
  <2> HIDE DEF s
  <2>4. view'[current'] = s
    BY <1>1, <2>2
  <2>5. NobodyElseWorks'
    BY <1>1, <2>2, OnlyMine
  <2>6. ChatOfPage' /\ AddressFollows'
    BY <1>1, <2>3, <2>4 DEF Settled, ChatOfPage, AddressFollows
  <2>7. LabelFollows'
    BY <1>1, <2>1, <2>3, <2>4 DEF LabelFollows
  <2> QED
    BY <1>1, <2>3, <2>4, <2>5, <2>6, <2>7 DEF Settled, PickFollows
<1> QED
  BY <1>3, <1>4

(* The answer of a post of this view for its chat brings the label back. *)
LEMMA PostReturnsSettles ==
  ASSUME ShellTypes, NEW p \in posts, PostReturns(p), ~disturbed, NobodyElseWorks,
         current # 0 => Settled
  PROVE  NobodyElseWorks' /\ (current' # 0 => Settled')
<1>1. /\ current' = current /\ hash' = hash /\ activeChatId' = activeChatId
      /\ modelOverride' = modelOverride /\ posts' = posts \ {p}
  BY DEF PostReturns
<1>2. CASE p.view = current /\ view[current].chat = p.chat
  <2>1. current \in View /\ current # 0
    BY <1>2 DEF ShellTypes, ShellTypeOK, View
  <2>2. view[current] \in ViewState
    BY <2>1 DEF ShellTypes, ShellTypeOK
  <2> DEFINE s == [view[current] EXCEPT !.label = modelOverride]
  <2>3. view' = [view EXCEPT ![current] = s]
    BY <1>2, <2>1 DEF PostReturns, ShellTypes, ShellTypeOK
  <2>4. view'[current] = s /\ \A w \in View : w # current => view'[w] = view[w]
    BY <2>1, <2>3 DEF ShellTypes, ShellTypeOK
  <2>5. /\ s.mount = view[current].mount /\ s.page = view[current].page
        /\ s.chat = view[current].chat /\ s.ensure = view[current].ensure
        /\ s.made = view[current].made /\ s.picked = view[current].picked
        /\ s.label = modelOverride
    BY <2>2 DEF ViewState
  <2> HIDE DEF s
  <2>6. view'[current'] = s
    BY <1>1, <2>4
  <2>7. NobodyElseWorks'
    BY <1>1, <2>4, OnlyMine
  <2> QED
    BY <1>1, <2>1, <2>5, <2>6, <2>7
       DEF Settled, ChatOfPage, AddressFollows, LabelFollows, PickFollows
<1>3. CASE ~ (p.view = current /\ view[current].chat = p.chat)
  <2>1. view' = view
    BY <1>3 DEF PostReturns
  <2>2. NobodyElseWorks'
    BY <1>1, <2>1, OnlyMine
  <2>3. current # 0 => LabelFollows'
    BY <1>1, <1>3, <2>1 DEF Settled, LabelFollows
  <2> QED
    BY <1>1, <2>1, <2>2, <2>3 DEF Settled, ChatOfPage, AddressFollows, PickFollows
<1> QED
  BY <1>2, <1>3

(* Its first message is sent, before which nothing else is on its way. *)
LEMMA SendFirstSettles ==
  ASSUME ShellTypes, SendFirst, ~disturbed', NobodyElseWorks, current # 0 => Settled
  PROVE  NobodyElseWorks' /\ Settled'
<1>0. ChatShown
  BY Zenon DEF SendFirst
<1>1. /\ current \in View /\ current # 0 /\ view[current].page # Other
      /\ view[current].chat = NoChat /\ view[current].ensure = "none"
      /\ view[current].mount = "done" /\ current' = current
      /\ hash' = hash /\ activeChatId' = activeChatId /\ modelOverride' = modelOverride
      /\ posts' = posts
  BY <1>0 DEF SendFirst, ChatShown, ChatBuilt, View, ShellTypes, ShellTypeOK
<1>2. view[current] \in ViewState /\ view[current].page \in Chat \cup {NoChat}
  BY <1>1 DEF ShellTypes, ShellTypeOK, ViewState, Page
<1>3. view[current].page = NoChat /\ hash = NoChat /\ activeChatId = NoChat
  BY <1>1, <1>2, ShellAssumption DEF Settled, ChatOfPage, AddressFollows
<1> DEFINE s == [view[current] EXCEPT !.ensure = "creating"]
<1>4. view' = [view EXCEPT ![current] = s]
  BY <1>1 DEF SendFirst, ShellTypes, ShellTypeOK
<1>5. view'[current] = s /\ \A w \in View : w # current => view'[w] = view[w]
  BY <1>1, <1>4 DEF ShellTypes, ShellTypeOK
<1>6. /\ s.mount = "done" /\ s.page = NoChat /\ s.chat = NoChat
      /\ s.ensure = "creating" /\ s.picked = view[current].picked
  BY <1>1, <1>2, <1>3 DEF ViewState
<1> HIDE DEF s
<1>7. view'[current'] = s
  BY <1>1, <1>5
<1>8. NobodyElseWorks'
  BY <1>1, <1>5, OnlyMine
<1> QED
  BY <1>1, <1>3, <1>6, <1>7, <1>8, ShellAssumption
     DEF Settled, ChatOfPage, AddressFollows, LabelFollows, PickFollows

(* Its chat is made. *)
LEMMA CreateSettles ==
  ASSUME ShellTypes, NEW v \in View, CreateReturns(v), ~disturbed, NobodyElseWorks,
         current # 0 => Settled
  PROVE  NobodyElseWorks' /\ Settled'
<1>1. /\ v = current /\ current # 0 /\ current' = current /\ view[v].ensure = "creating"
      /\ hash' = hash /\ activeChatId' = activeChatId /\ modelOverride' = modelOverride
  BY DEF CreateReturns, NobodyElseWorks, AtWork, ViewBusy, View
<1>2. view[v] \in ViewState /\ view[v].page = NoChat /\ view[v].mount = "done"
  BY <1>1 DEF Settled, ChatOfPage, ShellTypes, ShellTypeOK
<1> DEFINE stage == IF modelOverride # NoPick THEN "posting" ELSE "listing"
<1>3. PICK c \in Chat \ DOMAIN row :
        view' = [view EXCEPT ![v].chat = c, ![v].made = c, ![v].pending = modelOverride,
                             ![v].ensure = stage]
  BY Zenon DEF CreateReturns
<1>4. stage \in {"posting", "listing"}
  OBVIOUS
<1> HIDE DEF stage
<1> DEFINE s == [view[v] EXCEPT !.chat = c, !.made = c, !.pending = modelOverride,
                                !.ensure = stage]
<1>5. view' = [view EXCEPT ![v] = s]
  BY <1>3 DEF ShellTypes, ShellTypeOK
<1>6. view'[v] = s /\ \A w \in View : w # v => view'[w] = view[w]
  BY <1>5 DEF ShellTypes, ShellTypeOK
<1>7. /\ s.mount = "done" /\ s.page = NoChat /\ s.chat = c /\ s.made = c
      /\ s.ensure = stage /\ s.picked = view[v].picked
  BY <1>2 DEF ViewState
<1> HIDE DEF s
<1>8. view'[current'] = s
  BY <1>1, <1>6
<1>9. NobodyElseWorks'
  BY <1>1, <1>6, OnlyMine
<1> QED
  BY <1>1, <1>2, <1>4, <1>7, <1>8, <1>9, ShellAssumption
     DEF Settled, ChatOfPage, AddressFollows, LabelFollows, PickFollows

(* The pick of its New chat page is stored in the chat. *)
LEMMA PendingSettles ==
  ASSUME ShellTypes, NEW v \in View, PendingStored(v), ~disturbed, NobodyElseWorks,
         current # 0 => Settled
  PROVE  NobodyElseWorks' /\ Settled'
<1>1. /\ v = current /\ current # 0 /\ current' = current /\ view[v].ensure = "posting"
      /\ hash' = hash /\ activeChatId' = activeChatId /\ modelOverride' = modelOverride
  BY DEF PendingStored, NobodyElseWorks, AtWork, ViewBusy, View
<1>2. /\ view[v] \in ViewState /\ view[v].page = NoChat /\ view[v].mount = "done"
      /\ view[v].made = view[v].chat
  BY <1>1, ShellAssumption DEF Settled, ChatOfPage, AddressFollows, ShellTypes, ShellTypeOK
<1> DEFINE s == [view[v] EXCEPT !.ensure = "listing", !.pending = NoPick]
<1>3. view' = [view EXCEPT ![v] = s]
  BY DEF PendingStored, ShellTypes, ShellTypeOK
<1>4. view'[v] = s /\ \A w \in View : w # v => view'[w] = view[w]
  BY <1>3 DEF ShellTypes, ShellTypeOK
<1>5. /\ s.mount = "done" /\ s.page = NoChat /\ s.chat = view[v].chat
      /\ s.made = view[v].made /\ s.ensure = "listing" /\ s.picked = view[v].picked
  BY <1>2 DEF ViewState
<1> HIDE DEF s
<1>6. view'[current'] = s
  BY <1>1, <1>4
<1>7. NobodyElseWorks'
  BY <1>1, <1>4, OnlyMine
<1> QED
  BY <1>1, <1>2, <1>5, <1>6, <1>7, ShellAssumption
     DEF Settled, ChatOfPage, AddressFollows, LabelFollows, PickFollows

(* ensureChat ends: with a chat, whose address is set, or with none yet. *)
LEMMA EnsureSettles ==
  ASSUME ShellTypes, NEW v \in View, EnsureReturns(v) \/ EnsureFails(v), ~disturbed',
         NobodyElseWorks, current # 0 => Settled
  PROVE  NobodyElseWorks' /\ Settled'
<1>0. /\ EnsureReturns(v) => disturbed' = disturbed
      /\ EnsureFails(v) => disturbed' = (disturbed \/ view[v].ensure = "listing")
  BY DEF EnsureReturns, EnsureFails
<1>1. ~disturbed /\ view[v].ensure \in {"creating", "listing"}
  <2>1. ~disturbed
    BY <1>0, Zenon
  <2> QED
    BY <2>1 DEF EnsureReturns, EnsureFails
<1>2. /\ v = current /\ current # 0 /\ current' = current /\ modelOverride' = modelOverride
  BY <1>1 DEF EnsureReturns, EnsureFails, NobodyElseWorks, AtWork, ViewBusy, View
<1>3. view[v] \in ViewState /\ view[v].page = NoChat /\ view[v].mount = "done"
  BY <1>1, <1>2 DEF Settled, ChatOfPage, ShellTypes, ShellTypeOK
<1> DEFINE s == [view[v] EXCEPT !.ensure = "none", !.made = NoChat]
<1>4. view' = [view EXCEPT ![v] = s]
  BY <1>2 DEF EnsureReturns, EnsureFails, Kept, ShellTypes, ShellTypeOK
<1>5. view'[v] = s /\ \A w \in View : w # v => view'[w] = view[w]
  BY <1>4 DEF ShellTypes, ShellTypeOK
<1>6. /\ s.mount = "done" /\ s.page = NoChat /\ s.chat = view[v].chat
      /\ s.ensure = "none" /\ s.picked = view[v].picked
  BY <1>3 DEF ViewState
<1> HIDE DEF s
<1>7. view'[current'] = s
  BY <1>2, <1>5
<1>8. NobodyElseWorks'
  BY <1>2, <1>5, OnlyMine
<1>9. hash' = view[v].chat /\ activeChatId' = view[v].chat
  <2>1. CASE EnsureReturns(v)
    BY <1>2, <1>3, <2>1, ShellAssumption
       DEF EnsureReturns, HashOf, Settled, AddressFollows
  <2>2. CASE EnsureFails(v)
    BY <1>1, <1>2, <1>3, <2>2, ShellAssumption DEF EnsureFails, Settled, AddressFollows
  <2> QED
    BY <2>1, <2>2
<1> QED
  BY <1>2, <1>3, <1>6, <1>7, <1>8, <1>9, ShellAssumption
     DEF Settled, ChatOfPage, AddressFollows, LabelFollows, PickFollows

(* Steps that neither a view nor what it shows notices. *)
LEMMA ElsewhereSettles ==
  ASSUME Patient,
         UNCHANGED <<activeChatId, modelOverride, hash, current, view, posts, disturbed>>
  PROVE  Patient'
BY DEF Patient, NobodyElseWorks, AtWork, Settled, ChatOfPage, AddressFollows, LabelFollows,
       PickFollows

(* Every step of the shell keeps what a patient user sees. *)
LEMMA NextSettles ==
  ASSUME ShellTypes, Patient, [ShellNext]_shellVars
  PROVE  Patient'
<1>1. CASE \E page \in Page : Navigate(page)
  <2>1. PICK page \in Page : Navigate(page)
    BY <1>1
  <2>2. page \in DOMAIN row \cup {NoChat, Other} /\ Show(page) /\ modelOverride' = modelOverride
    BY <2>1 DEF Navigate, ShellTypes, KnownChats
  <2> QED
    BY <2>2, ShowSettles
<1>2. CASE OpenNewChat
  <2>1. newChat \in DOMAIN row /\ Show(newChat) /\ modelOverride' = modelOverride
    BY <1>2 DEF OpenNewChat, ShellTypes, KnownChats
  <2> QED
    BY <2>1, ShowSettles
<1>3. CASE \/ RefreshSoon \/ ClickNewChat \/ UNCHANGED shellVars
           \/ \E list \in lists : ListArrives(list) \/ ListFails(list)
  BY <1>3, ElsewhereSettles DEF RefreshSoon, ClickNewChat, ListArrives, ListFails, shellVars
<1>4. CASE \E v \in View :
          \/ HealthArrives(v) \/ MountListArrives(v) \/ HistoryArrives(v)
          \/ CreateReturns(v) \/ PendingStored(v)
  <2>1. disturbed' = disturbed
    BY <1>4 DEF HealthArrives, MountListArrives, HistoryArrives, CreateReturns, PendingStored
  <2> QED
    BY <1>4, <2>1, HealthSettles, MountListSettles, HistorySettles, CreateSettles, PendingSettles
       DEF Patient
<1>5. CASE \E v \in View : EnsureReturns(v) \/ EnsureFails(v)
  <2>1. disturbed => disturbed'
    BY <1>5 DEF EnsureReturns, EnsureFails
  <2> QED
    BY <1>5, <2>1, EnsureSettles DEF Patient
<1>6. CASE SendFirst \/ \E model \in Override : Pick(model)
  <2>1. disturbed => disturbed'
    BY <1>6 DEF SendFirst, Pick
  <2> QED
    BY <1>6, <2>1, SendFirstSettles, PickSettles DEF Patient
<1>7. CASE \E p \in posts : PostReturns(p)
  <2>1. disturbed' = disturbed
    BY <1>7 DEF PostReturns
  <2> QED
    BY <1>7, <2>1, PostReturnsSettles DEF Patient
<1> QED
  BY <1>1, <1>2, <1>3, <1>4, <1>5, <1>6, <1>7 DEF ShellNext

(* The inductive invariant of the shell: while the user waits for each page, only the view *)
(* on the screen works, and the address, the label and the pick follow its chat.           *)
THEOREM PatientInvariant == ShellSpec => [](ShellTypes /\ Patient)
<1>1. ShellInit => Patient
  BY DEF ShellInit, Patient, NobodyElseWorks, AtWork, ViewBusy, NoView
<1>2. ShellTypes /\ Patient /\ [ShellNext]_shellVars => Patient'
  BY NextSettles
<1> QED
  BY <1>1, <1>2, ShellTypesInvariant, PTL DEF ShellSpec

(* Of a user who waits for each page, the address and the store's activeChatId, by which  *)
(* the list marks an entry, name the chat on the screen, for any chats and any number of  *)
(* visits.  Whether the list has an entry for the chat is not said: it may be taken out,  *)
(* see ChatStaysListed.                                                                   *)
THEOREM AddressIsRight == ShellSpec => []AddressNamesTheChat
<1>1. ShellTypes /\ Patient => AddressNamesTheChat
  BY DEF Patient, Settled, AddressFollows, AddressNamesTheChat, ChatShown, ChatBuilt
<1> QED
  BY <1>1, PatientInvariant, PTL

(* On a chat's page the picker's label is the model the next message is sent with. *)
THEOREM LabelIsRight == ShellSpec => []LabelIsSent
<1>1. ShellTypes /\ Patient => LabelIsSent
  <2> SUFFICES ASSUME ShellTypes, Patient, ~disturbed, ChatShown, view[current].page # NoChat,
                      posts = {}
               PROVE  view[current].label = modelOverride
    BY DEF LabelIsSent
  <2>1. current \in View /\ current # 0 /\ view[current].page # Other
    BY DEF ChatShown, ChatBuilt, View, ShellTypes, ShellTypeOK
  <2>2. view[current].page \in Chat
    BY <2>1 DEF ShellTypes, ShellTypeOK, ViewState, Page
  <2> QED
    BY <2>1, <2>2 DEF Patient, Settled, LabelFollows
<1> QED
  BY <1>1, PatientInvariant, PTL

(* The first message of a chat goes out with the model picked on its New chat page. *)
THEOREM FirstMessageIsRight == ShellSpec => FirstMessageHasItsPick
<1> DEFINE Sent == \A v \in View :
             ~disturbed /\ v = current /\ view[v].ensure = "listing" /\ hash' = view[v].made =>
               modelOverride = view[v].picked
<1>1. ShellTypes /\ Patient => Sent
  BY DEF Patient, Settled, ChatOfPage, PickFollows, View
<1>2. ShellSpec => [][Sent]_shellVars
  BY <1>1, PatientInvariant, PTL
<1> QED
  BY <1>2 DEF FirstMessageHasItsPick
===============================================================================
