--------------------------------- MODULE GpuSlot ---------------------------------
(***************************************************************************)
(* GPU0, which holds one server at a time: chat turns that swap a server   *)
(* in, their report of it (turn.py), and the loop that brings the default  *)
(* model back when the slot has been idle (gpu/rewarm.py), from its start  *)
(* to its stop in the application's lifespan.  llama-swap, which does the  *)
(* swapping, is external: it stops a server only when none of its requests *)
(* is being answered, or when it reloads its configuration.                *)
(*                                                                         *)
(* Time is counted in minutes, the period of the loop.                     *)
(***************************************************************************)
EXTENDS SwapGen

CONSTANTS
  Models,     \* the configuration: a list of models; not changed at run time
  Default,    \* defaults.chat_model
  Turn,       \* slots of chat turns
  Threshold,  \* gpu.rewarm_default_after_min
  None        \* no server, no time

ASSUME SlotAssumption ==
  /\ Models \in Seq(ModelEntry) /\ Default \in EnabledIn(Models)
  /\ Threshold \in Nat /\ None \notin Nat /\ MaxModels \in Nat

VARIABLES
  slot,      \* llama-swap: the server on GPU0
  turn,      \* chat turns
  pending,   \* _rewarm_pending_at: its age in minutes
  loop,      \* the task of _rewarm_loop
  slept,     \* its sleep is over
  same,      \* pending is still what the loop has read
  reported   \* history: the server on GPU0 has been reported since it was loaded

slotVars == <<slot, turn, pending, loop, slept, same, reported>>
-----------------------------------------------------------------------------
Server == {server_identity(Models, m) : m \in select_entries(Models)}
DefaultServer == server_identity(Models, Default)

\* The server that answers a turn on model m.
ServerOf(m) == server_identity(Models, canonical_swap_name(Models, m))

\* `waiting' for its server, `loaded' when that has the request, then `answering'.
TurnState == [pc : {"idle", "waiting", "loaded", "answering"}, model : DOMAIN Models,
              first_token_delayed : BOOLEAN, rewarm_reported : BOOLEAN]
NoTurn == [pc |-> "idle", model |-> Default, first_token_delayed |-> FALSE, rewarm_reported |-> FALSE]

InAnswer(t) == turn[t].pc \in {"loaded", "answering"}

\* GPU0 has no request but of server s.
OnlyAnswers(s) ==
  /\ \A t \in Turn : InAnswer(t) /\ ServerOf(turn[t].model)[2] = Gpu0 => ServerOf(turn[t].model) = s
  /\ loop = "served" => DefaultServer = s

Swap(s) ==
  /\ slot' = s
  /\ reported' = (reported /\ slot = s)
-----------------------------------------------------------------------------
(* Chat turns *)

Ask(t, m) ==
  /\ turn[t].pc = "idle"
  /\ loop # "stopped"
  /\ turn' = [turn EXCEPT ![t] = [NoTurn EXCEPT !.pc = "waiting", !.model = m]]
  /\ UNCHANGED <<slot, pending, loop, slept, same, reported>>

\* llama-swap gives the request to its server, which on GPU0 may mean a swap.
Load(t) ==
  /\ turn[t].pc = "waiting"
  /\ LET s == ServerOf(turn[t].model)
     IN IF s[2] = Gpu0 THEN OnlyAnswers(s) /\ Swap(s) ELSE UNCHANGED <<slot, reported>>
  /\ turn' = [turn EXCEPT ![t].pc = "loaded"]
  /\ UNCHANGED <<pending, loop, slept, same>>

\* stream_with_loading's one warning.
Delayed(t) ==
  /\ turn[t].pc \in {"waiting", "loaded"}
  /\ ~turn[t].first_token_delayed
  /\ turn' = [turn EXCEPT ![t].first_token_delayed = TRUE]
  /\ UNCHANGED <<slot, pending, loop, slept, same, reported>>

\* Whether a response of model m took GPU0 from the default's server.
DistinctGpu0(m) ==
  Models[m].enabled /\ Models[m].gpu = Gpu0 /\ server_identity(Models, m) # DefaultServer

mark_gpu0_activity(m) ==
  IF DistinctGpu0(m)
    THEN /\ pending' = 0 /\ same' = FALSE
         /\ reported' = (slot = ServerOf(m))
    ELSE UNCHANGED <<pending, same, reported>>

\* A delta; the first one of substance reports the activity, unless the first of all was
\* slow.
Delta(t) ==
  /\ InAnswer(t)
  /\ \E substantive \in BOOLEAN :
       IF substantive /\ ~turn[t].first_token_delayed /\ ~turn[t].rewarm_reported
         THEN /\ turn' = [turn EXCEPT ![t].pc = "answering", ![t].rewarm_reported = TRUE]
              /\ mark_gpu0_activity(turn[t].model)
         ELSE /\ turn[t].pc = "loaded"
              /\ turn' = [turn EXCEPT ![t].pc = "answering"]
              /\ UNCHANGED <<pending, same, reported>>
  /\ UNCHANGED <<slot, loop, slept>>

\* The answer ends, fails, or is cancelled.
End(t) ==
  /\ turn[t].pc # "idle"
  /\ turn' = [turn EXCEPT ![t] = NoTurn]
  /\ UNCHANGED <<slot, pending, loop, slept, same, reported>>
-----------------------------------------------------------------------------
(* The loop *)

Minute ==
  /\ \/ pending # None /\ pending < Threshold
     \/ loop = "sleep" /\ ~slept
  /\ pending' = IF pending = None \/ pending = Threshold THEN pending ELSE pending + 1
  /\ slept' = (loop = "sleep")
  /\ UNCHANGED <<slot, turn, loop, same, reported>>

Poll ==
  /\ loop = "sleep" /\ slept
  /\ slept' = FALSE
  /\ IF pending # None /\ pending >= Threshold
       THEN loop' = "ping" /\ same' = TRUE
       ELSE UNCHANGED <<loop, same>>
  /\ UNCHANGED <<slot, turn, pending, reported>>

\* llama-swap knows the default model by its own name only.
PingLoads ==
  /\ loop = "ping"
  /\ Default \in select_entries(Models)
  /\ IF DefaultServer[2] = Gpu0 THEN OnlyAnswers(DefaultServer) /\ Swap(DefaultServer)
                                ELSE UNCHANGED <<slot, reported>>
  /\ loop' = "served"
  /\ UNCHANGED <<turn, pending, slept, same>>

PingAnswered ==
  /\ loop = "served"
  /\ loop' = "answered"
  /\ UNCHANGED <<slot, turn, pending, slept, same, reported>>

\* Mutant: the activity is forgotten whenever a ping has been answered.
ForgetAlways ==
  /\ loop = "answered"
  /\ loop' = "sleep" /\ slept' = FALSE
  /\ pending' = None
  /\ UNCHANGED <<slot, turn, same, reported>>

\* Activity that came while the ping ran is kept.
PingReturns ==
  /\ loop = "answered"
  /\ loop' = "sleep" /\ slept' = FALSE
  /\ pending' = IF same THEN None ELSE pending
  /\ UNCHANGED <<slot, turn, same, reported>>

\* Mutant: a failed ping ends the task.
PingKillsLoop ==
  /\ loop \in {"ping", "served", "answered", "cut"}
  /\ loop' = "dead"
  /\ UNCHANGED <<slot, turn, pending, slept, same, reported>>

PingFails ==
  /\ loop \in {"ping", "served", "answered", "cut"}
  /\ loop' = "sleep" /\ slept' = FALSE
  /\ UNCHANGED <<slot, turn, pending, same, reported>>
-----------------------------------------------------------------------------
(* The lifespan, and llama-swap's own changes *)

\* The server has finished or cut every response before the lifespan ends; stop_rewarm
\* cancels the loop, wherever it is, and awaits it.
Stop ==
  /\ loop # "stopped"
  /\ turn' = [t \in Turn |-> NoTurn]
  /\ loop' = "stopped" /\ slept' = FALSE
  /\ pending' = None /\ same' = FALSE
  /\ reported' = FALSE
  /\ UNCHANGED slot

Start ==
  /\ loop = "stopped"
  /\ loop' = "sleep"
  /\ UNCHANGED <<slot, turn, pending, slept, same, reported>>

\* A server that nobody asks is stopped, its time to live being over.
Unload ==
  /\ slot # None /\ OnlyAnswers(None)
  /\ Swap(None)
  /\ UNCHANGED <<turn, pending, loop, slept, same>>

\* llama-swap stops every server, having read another configuration: what they answered
\* is cut.
ServersStop ==
  /\ slot # None
  /\ Swap(None)
  /\ turn' = [t \in Turn |-> IF InAnswer(t) THEN NoTurn ELSE turn[t]]
  /\ loop' = IF loop = "served" THEN "cut" ELSE loop
  /\ UNCHANGED <<pending, slept, same>>

SlotInit ==
  /\ slot = None
  /\ turn = [t \in Turn |-> NoTurn]
  /\ pending = None
  /\ loop = "stopped" /\ slept = FALSE /\ same = FALSE
  /\ reported = FALSE

SlotNext ==
  \/ \E t \in Turn :
       \/ \E m \in EnabledIn(Models) : Ask(t, m)
       \/ Load(t) \/ Delayed(t) \/ Delta(t) \/ End(t)
  \/ Minute \/ Poll \/ PingLoads \/ PingAnswered \/ PingReturns \/ PingFails
  \/ Stop \/ Start \/ Unload \/ ServersStop

SlotSpec == SlotInit /\ [][SlotNext]_slotVars

\* Time passes, the event loop runs the task, and a ping is answered or fails, having a
\* timeout.
SlotFairness == WF_slotVars(Minute) /\ WF_slotVars(Poll) /\ WF_slotVars(PingReturns \/ PingFails)

SlotFairSpec == SlotSpec /\ SlotFairness
-----------------------------------------------------------------------------
(* Properties *)

SlotTypeOK ==
  /\ slot \in Server \cup {None}
  /\ turn \in [Turn -> TurnState]
  /\ pending \in 0..Threshold \cup {None}
  /\ loop \in {"stopped", "sleep", "ping", "served", "answered", "cut"}
  /\ slept \in BOOLEAN /\ same \in BOOLEAN /\ reported \in BOOLEAN

\* A swap that was reported is not forgotten: while that server is on GPU0 the loop has
\* its activity to act on, whatever pings return late.
SwapIsRemembered == reported => pending # None

\* Activity that is not followed by more leads to a ping, time and again if pings fail,
\* unless the application stops.
PingComes ==
  pending # None ~> \/ loop \in {"ping", "stopped"} \/ pending = None
                    \/ \E t \in Turn : turn[t].pc # "idle"

\* "If the slot has served a non-default model and been idle": a ping never goes out
\* while one of the slot's servers still answers.
PingsWhenIdle ==
  [][loop # "ping" /\ loop' = "ping" =>
       \A t \in Turn : turn[t].pc # "answering" \/ ServerOf(turn[t].model)[2] # Gpu0]_slotVars

\* The same sentence's other half: another server than the default's does not stay on
\* GPU0 unknown to the loop.
EverySwapIsRemembered ==
  slot \notin {None, DefaultServer} /\ loop = "sleep" /\ (\A t \in Turn : turn[t].pc = "idle")
    => pending # None
===============================================================================
