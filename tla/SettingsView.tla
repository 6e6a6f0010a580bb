----------------------------- MODULE SettingsView -----------------------------
(***************************************************************************)
(* The settings page of the web client: the view (settings.ts), the panels *)
(* of its two tabs (settings_models.ts, settings_routing.ts) and the       *)
(* server's overlay they write to (settings/store.py).  Every click on a   *)
(* tab makes a new panel on the same element; an earlier panel whose       *)
(* requests are on their way goes on, and draws itself when they are done. *)
(*                                                                         *)
(* A row of the models table is its number; what can be edited in it       *)
(* (device, residency, TTL) is one value.  All keyword rules are one value *)
(* too; the intents map is a function.                                     *)
(***************************************************************************)
EXTENDS Naturals

CONSTANTS
  NModels,    \* rows of the models table
  Value,      \* contents of a row
  Rules,      \* contents of the list of keyword rules
  Intent,     \* classes of the intents map
  Alias,      \* model aliases offered for a class
  NoAlias,    \* a class without one
  MaxPanels   \* bound on the panels alive at a time: the one that is seen, and those at work

ASSUME SettingsAssumption ==
  /\ NModels \in Nat \ {0} /\ MaxPanels \in Nat \ {0}
  /\ Value # {} /\ Rules # {} /\ NoAlias \notin Alias

Model == 1..NModels
Panel == 1..MaxPanels
Placement == [Model -> Value]
Routing == [rules : Rules, intents : [Intent -> Alias \cup {NoAlias}]]

VARIABLES
  stored,   \* the effective settings of the server
  host,     \* the closure of createSettingsView
  panel,    \* the panels of the visit
  shown,    \* the panel that was drawn last; 0 before the first
  clicked,  \* history: the rows the user has pressed Apply for, and their values
  hasty     \* history: in this visit the user did something else while a request was on
            \* its way, or a request failed

vars == <<stored, host, panel, shown, clicked, hasty>>
-----------------------------------------------------------------------------
Settings == [models : Placement, routing : Routing]

\* `fetched' is the answer of getSettings on its way.
Host ==
  [load : {"loading", "served", "ready", "error"},
   tab : {"models", "routing"}, baseline : Placement, drafts : Placement,
   routing : Routing, fetched : Settings]

\* `here' says whether it is on the page, not on one that has been left; `sent' is what
\* an apply or a save took along when it was clicked, `todo' the rows it still has to
\* send.
PanelState ==
  [kind : {"none", "models", "routing"}, here : BOOLEAN, pc : {"idle", "putting", "posting", "saving"},
   baseline : Placement, drafts : Placement, routing : Routing,
   todo : SUBSET Model, sent : Settings]

Busy(p) == panel[p].pc # "idle"
InFlight == \E p \in Panel : Busy(p)

Dirty(p) == {m \in Model : panel[p].drafts[m] # panel[p].baseline[m]}

AnySettings == CHOOSE s \in Settings : TRUE

NoPanel ==
  [kind |-> "none", here |-> FALSE, pc |-> "idle", baseline |-> AnySettings.models,
   drafts |-> AnySettings.models, routing |-> AnySettings.routing, todo |-> {},
   sent |-> AnySettings]
-----------------------------------------------------------------------------
(* The view *)

Fresh ==
  [load |-> "loading", tab |-> "models", baseline |-> AnySettings.models,
   drafts |-> AnySettings.models, routing |-> AnySettings.routing, fetched |-> AnySettings]

\* The panels something still refers to: the one on the page, and those that wait for
\* an answer.  Any other is forgotten.
Alive(ps, seen) == [p \in Panel |-> IF ps[p].pc # "idle" \/ p = seen THEN ps[p] ELSE NoPanel]

\* Mutant: the panel takes what the page shows for what the server has.
DraftPanel(h) ==
  LET made == [NoPanel EXCEPT !.kind = h.tab, !.here = TRUE]
  IN IF h.tab = "models" THEN [made EXCEPT !.baseline = h.drafts, !.drafts = h.drafts]
                         ELSE [made EXCEPT !.routing = h.routing]

\* mountModelsPanel or mountRoutingPanel with the view's present state.
NewPanel(h) ==
  LET made == [NoPanel EXCEPT !.kind = h.tab, !.here = TRUE]
  IN IF h.tab = "models" THEN [made EXCEPT !.baseline = h.baseline, !.drafts = h.drafts]
                         ELSE [made EXCEPT !.routing = h.routing]

\* The view's render: a new panel on the page.
Render(h) ==
  LET ps == Alive(panel, 0)
      free == {p \in Panel : ps[p].kind = "none"}
      new == CHOOSE p \in free : TRUE
  IN /\ free # {}
     /\ host' = h
     /\ panel' = [ps EXCEPT ![new] = NewPanel(h)]
     /\ shown' = new

ServeSettings ==
  /\ host.load = "loading"
  /\ host' = [host EXCEPT !.load = "served", !.fetched = stored]
  /\ UNCHANGED <<stored, panel, shown, clicked, hasty>>

\* All four requests have answered; the other three have values to fall back on.
SettingsArrive ==
  /\ host.load = "served"
  /\ LET h == [host EXCEPT !.load = "ready", !.baseline = host.fetched.models,
                           !.drafts = host.fetched.models, !.routing = host.fetched.routing,
                           !.fetched = AnySettings]
     IN Render(h)
  /\ UNCHANGED <<stored, clicked, hasty>>

\* The page says so and offers nothing but another visit.
SettingsFail ==
  /\ host.load \in {"loading", "served"}
  /\ host' = [host EXCEPT !.load = "error", !.fetched = AnySettings]
  /\ UNCHANGED <<stored, panel, shown, clicked, hasty>>

ClickTab(tab) ==
  /\ host.load = "ready"
  /\ LET h == [host EXCEPT !.tab = tab]
     IN Render(h)
  /\ hasty' = (hasty \/ InFlight)
  /\ UNCHANGED <<stored, clicked>>

\* Another page and back: a new view.  A panel of the old one whose requests are on
\* their way goes on, out of sight.
Leave ==
  /\ host' = Fresh
  /\ panel' = [p \in Panel |-> [Alive(panel, 0)[p] EXCEPT !.here = FALSE]]
  /\ shown' = 0
  /\ hasty' = InFlight
  /\ UNCHANGED <<stored, clicked>>

\* The finally block of a panel's request: the button is back and the panel draws
\* itself, on the page or on an element that is not there any more.
Finish(p, settled) ==
  LET seen == IF panel[p].here THEN p ELSE shown
      idle == [settled EXCEPT !.pc = "idle", !.todo = {}, !.sent = AnySettings]
  IN /\ shown' = seen
     /\ panel' = Alive([panel EXCEPT ![p] = idle], seen)
-----------------------------------------------------------------------------
(* The models panel *)

Shows(kind) == host.load = "ready" /\ shown # 0 /\ panel[shown].kind = kind

\* The device, resident and TTL fields: panel and view keep the same drafts.
EditRow(m, v) ==
  /\ Shows("models")
  /\ LET drafts == [panel[shown].drafts EXCEPT ![m] = v]
     IN /\ host' = [host EXCEPT !.drafts = drafts]
        /\ panel' = [panel EXCEPT ![shown].drafts = drafts]
  /\ hasty' = (hasty \/ InFlight)
  /\ UNCHANGED <<stored, shown, clicked>>

Apply ==
  /\ Shows("models")
  /\ ~Busy(shown)
  /\ Dirty(shown) # {}
  /\ panel' = [panel EXCEPT ![shown].pc = "putting", ![shown].todo = Dirty(shown),
                            ![shown].sent.models = panel[shown].drafts]
  /\ clicked' = clicked \cup {<<m, panel[shown].drafts[m]>> : m \in Dirty(shown)}
  /\ hasty' = (hasty \/ InFlight)
  /\ UNCHANGED <<stored, host, shown>>

\* The row whose turn it is: they are sent in the order of the table.
NextRow(p, m) == panel[p].pc = "putting" /\ m \in panel[p].todo /\ \A k \in panel[p].todo : m <= k

\* Mutant: the row is read again when its turn comes.
RowNow(p, m) == panel[p].drafts[m]

\* The row as it was when Apply was clicked.
RowToSend(p, m) == panel[p].sent.models[m]

\* update_model patches one row of the overlay.
UpdateModel(p) ==
  \E m \in Model : NextRow(p, m) /\ stored' = [stored EXCEPT !.models[m] = RowToSend(p, m)]

PutModel(p) ==
  /\ UpdateModel(p)
  /\ LET rest == {m \in panel[p].todo : ~NextRow(p, m)}
     IN panel' = [panel EXCEPT ![p].todo = rest,
                               ![p].pc = IF rest = {} THEN "posting" ELSE "putting"]
  /\ UNCHANGED <<host, shown, clicked, hasty>>

\* The apply (GpuApply) has answered; the configuration text has come too, or has not
\* and the old one stays.  The drafts are the baseline now, the
\* view's too, and the panel is drawn.
ApplyDone(p) ==
  /\ panel[p].pc = "posting"
  /\ Finish(p, [panel[p] EXCEPT !.baseline = panel[p].drafts])
  /\ host' = IF panel[p].here
               THEN [host EXCEPT !.baseline = panel[p].drafts, !.drafts = panel[p].drafts]
               ELSE host
  /\ UNCHANGED <<stored, clicked, hasty>>

\* Mutant: `applying' is reset where the apply succeeds, not in a finally.
ApplyFailsForGood(p) ==
  /\ panel[p].pc \in {"putting", "posting"}
  /\ panel' = [panel EXCEPT ![p].pc = "failed"]
  /\ hasty' = TRUE
  /\ UNCHANGED <<stored, host, shown, clicked>>

\* A PUT is refused, or only its answer is lost; or the apply answers with an error.
\* The rows stay dirty.
ApplyFails(p) ==
  /\ panel[p].pc \in {"putting", "posting"}
  /\ UNCHANGED stored \/ UpdateModel(p)
  /\ Finish(p, panel[p])
  /\ hasty' = TRUE
  /\ UNCHANGED <<host, clicked>>
-----------------------------------------------------------------------------
(* The routing panel *)

\* Each handler changes the draft and hands the view a copy.
EditRouting(routing) ==
  /\ Shows("routing")
  /\ panel' = [panel EXCEPT ![shown].routing = routing]
  /\ host' = [host EXCEPT !.routing = routing]
  /\ hasty' = (hasty \/ InFlight)
  /\ UNCHANGED <<stored, shown, clicked>>

EditRules(rules) == EditRouting([panel[shown].routing EXCEPT !.rules = rules])

\* The empty option takes the class out of the map.
EditIntent(i, alias) == EditRouting([panel[shown].routing EXCEPT !.intents[i] = alias])

Save ==
  /\ Shows("routing")
  /\ ~Busy(shown)
  /\ panel' = [panel EXCEPT ![shown].pc = "saving", ![shown].sent.routing = panel[shown].routing]
  /\ hasty' = (hasty \/ InFlight)
  /\ UNCHANGED <<stored, host, shown, clicked>>

\* update_routing replaces the rules and merges the intents: a class that is not in
\* the request keeps its alias.
Merged(old, new) == [i \in Intent |-> IF new[i] = NoAlias THEN old[i] ELSE new[i]]

UpdateRouting(routing) ==
  stored' = [stored EXCEPT !.routing.rules = routing.rules,
                           !.routing.intents = Merged(@, routing.intents)]

PutRouting(p) ==
  /\ panel[p].pc = "saving"
  /\ UpdateRouting(panel[p].sent.routing)
  /\ Finish(p, panel[p])
  /\ UNCHANGED <<host, clicked, hasty>>

SaveFails(p) ==
  /\ panel[p].pc = "saving"
  /\ \/ UNCHANGED stored
     \/ UpdateRouting(panel[p].sent.routing)
  /\ Finish(p, panel[p])
  /\ hasty' = TRUE
  /\ UNCHANGED <<host, clicked>>
-----------------------------------------------------------------------------
Init ==
  /\ stored \in Settings
  /\ host = Fresh
  /\ panel = [p \in Panel |-> NoPanel]
  /\ shown = 0
  /\ clicked = {}
  /\ hasty = FALSE

\* What the server does about the requests of a panel.
Answer(p) ==
  \/ PutModel(p) \/ ApplyDone(p) \/ ApplyFails(p)
  \/ PutRouting(p) \/ SaveFails(p)

Next ==
  \/ ServeSettings \/ SettingsArrive \/ SettingsFail
  \/ \E tab \in {"models", "routing"} : ClickTab(tab)
  \/ Leave
  \/ \E m \in Model, v \in Value : EditRow(m, v)
  \/ Apply
  \/ \E rules \in Rules : EditRules(rules)
  \/ \E i \in Intent, alias \in Alias \cup {NoAlias} : EditIntent(i, alias)
  \/ Save
  \/ \E p \in Panel : Answer(p)

Spec == Init /\ [][Next]_vars

\* Every request of a panel is answered or fails.
Fairness == \A p \in Panel : WF_vars(Answer(p))

FairSpec == Spec /\ Fairness
-----------------------------------------------------------------------------
(* Properties *)

TypeOK ==
  /\ stored \in Settings
  /\ host \in Host
  /\ panel \in [Panel -> PanelState]
  /\ shown \in 0..MaxPanels
  /\ clicked \in SUBSET (Model \X Value)
  /\ hasty \in BOOLEAN

\* "Edits stay draft until Apply": whatever else the user does meanwhile, and whichever
\* requests fail, the server only ever gets what stood in the page when a button was
\* clicked.
OnlyClickedIsStored ==
  [][\A m \in Model : stored'.models[m] # stored.models[m] =>
       <<m, stored'.models[m]>> \in clicked]_stored

\* A row that is not marked is what the server has, for a user who waits for each
\* request, while none has failed.
CleanMeansStored ==
  ~hasty /\ Shows("models") /\ ~Busy(shown) =>
    \A m \in Model \ Dirty(shown) : panel[shown].drafts[m] = stored.models[m]

\* The same for every user: what the buttons of the page suggest.
CleanMeansStoredAlways ==
  Shows("models") /\ ~InFlight =>
    \A m \in Model \ Dirty(shown) : panel[shown].drafts[m] = stored.models[m]

\* A button that says "Applying..." or "Saving..." comes back.
ButtonsComeBack == \A p \in Panel : Busy(p) ~> ~Busy(p)
=============================================================================
