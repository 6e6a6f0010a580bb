--------------------------- MODULE BackgroundQueue ---------------------------
(***************************************************************************)
(* The background queue of the chat application and the per-chat in-flight *)
(* marker of its summary jobs: each submitted job is an asyncio task of    *)
(* its own, attempted at most twice, and the lifespan's shutdown drains    *)
(* the queue for a bounded time before it cancels what is left.            *)
(*                                                                         *)
(* A step is what the event loop runs between two suspensions.  What one   *)
(* attempt of a summary does is RollingSummary's; here it succeeds, fails  *)
(* or is cancelled.  Title jobs take the same path without a marker.       *)
(***************************************************************************)
EXTENDS Naturals, FiniteSets

CONSTANTS
  Chat,   \* chats
  Task    \* slots for tasks alive at the same time (the code has no limit)

VARIABLES
  inFlight,   \* summaries._in_flight
  task,       \* BackgroundQueue._tasks: what each of them runs
  phase       \* background.stop: _stopping, and how far the shutdown has come

vars == <<inFlight, task, phase>>
-----------------------------------------------------------------------------
Kind == {"summary", "title"}
Free == [pc |-> "free"]
Live == [pc : {"created", "running"}, kind : Kind, chat : Chat, attempt : {1, 2}]
IsLive(t) == task[t].pc # "free"
Works(c) == {t \in Task : IsLive(t) /\ task[t].kind = "summary" /\ task[t].chat = c}

NewTask(kind, c) == [pc |-> "created", kind |-> kind, chat |-> c, attempt |-> 1]

\* Mutant: only a second attempt takes the marker away.
DiscardLate(t) ==
  IF task[t].kind = "summary" /\ task[t].attempt = 2 THEN inFlight \ {task[t].chat} ELSE inFlight

\* run_summary_guarded's finally: the chat's marker goes, whoever set it.
Discard(t) ==
  IF task[t].kind = "summary" THEN inFlight \ {task[t].chat} ELSE inFlight

\* Mutant: _stopping is not looked at.
SubmitAlways(kind, c) ==
  \E t \in Task : ~IsLive(t) /\ task' = [task EXCEPT ![t] = NewTask(kind, c)]

\* queue.submit: ignored, with a warning, once the queue is stopping.
Submit(kind, c) ==
  IF phase = "up"
    THEN \E t \in Task : /\ ~IsLive(t)
                         /\ task' = [task EXCEPT ![t] = NewTask(kind, c)]
    ELSE UNCHANGED task

\* _submit_summary, reached from on_turn_complete and from a turn that refused
\* to send an oversized prompt: the check and the mark are one step.
SubmitSummary(c) ==
  /\ phase # "stopped"
  /\ c \notin inFlight
  /\ inFlight' = inFlight \cup {c}
  /\ Submit("summary", c)
  /\ UNCHANGED phase

SubmitTitle(c) ==
  /\ phase = "up"
  /\ Submit("title", c)
  /\ UNCHANGED <<inFlight, phase>>

\* The event loop gives a created task its first step.
Start(t) ==
  /\ phase \in {"up", "draining"}
  /\ task[t].pc = "created"
  /\ task' = [task EXCEPT ![t].pc = "running"]
  /\ UNCHANGED <<inFlight, phase>>

Succeed(t) ==
  /\ phase \in {"up", "draining"}
  /\ task[t].pc = "running"
  /\ task' = [task EXCEPT ![t] = Free]
  /\ inFlight' = Discard(t)
  /\ UNCHANGED phase

\* One retry, begun in the same step in which the first attempt ended.
Fail(t) ==
  /\ phase \in {"up", "draining"}
  /\ task[t].pc = "running"
  /\ task' = [task EXCEPT ![t] = IF @.attempt = 1 THEN [@ EXCEPT !.attempt = 2] ELSE Free]
  /\ inFlight' = Discard(t)
  /\ UNCHANGED phase

\* queue.stop: nothing new is accepted and every task is awaited ...
BeginStop ==
  /\ phase = "up"
  /\ phase' = "draining"
  /\ UNCHANGED <<inFlight, task>>

\* ... for _STOP_DRAIN_TIMEOUT_S; then wait_for cancels the gather, which
\* cancels every task, and still waits for them to end.
DrainTimeout ==
  /\ phase = "draining"
  /\ \E t \in Task : IsLive(t)
  /\ phase' = "cancelling"
  /\ UNCHANGED <<inFlight, task>>

\* Mutant: a cancellation is taken for a failure, and retried.
CancelRetries(t) ==
  /\ phase = "cancelling"
  /\ task[t].pc = "running"
  /\ task' = [task EXCEPT ![t].attempt = 2]
  /\ UNCHANGED <<inFlight, phase>>

\* A task that never started never entered the guard.
CancelTask(t) ==
  /\ phase = "cancelling"
  /\ IsLive(t)
  /\ inFlight' = IF task[t].pc = "running" THEN Discard(t) ELSE inFlight
  /\ task' = [task EXCEPT ![t] = Free]
  /\ UNCHANGED phase

\* Mutant: queue.cancel() alone, which does not await what it cancels.
ReturnAtOnce ==
  /\ phase \in {"draining", "cancelling"}
  /\ phase' = "stopped"
  /\ UNCHANGED <<inFlight, task>>

\* stop returns; the lifespan goes on to close the model clients and the database.
StopReturns ==
  /\ phase \in {"draining", "cancelling"}
  /\ \A t \in Task : ~IsLive(t)
  /\ phase' = "stopped"
  /\ UNCHANGED <<inFlight, task>>

\* A crash, or the end of the process, and the next start.
Restart ==
  /\ phase' = "up"
  /\ task' = [t \in Task |-> Free]
  /\ inFlight' = {}

Init ==
  /\ inFlight = {}
  /\ task = [t \in Task |-> Free]
  /\ phase = "up"

TaskStep(t) == Start(t) \/ Succeed(t) \/ Fail(t) \/ CancelTask(t)

Next ==
  \/ \E c \in Chat : SubmitSummary(c) \/ SubmitTitle(c)
  \/ \E t \in Task : TaskStep(t)
  \/ BeginStop
  \/ DrainTimeout
  \/ StopReturns
  \/ Restart

\* The event loop runs every task it has; every attempt ends because the model
\* call under it has a timeout; stop's own timeout fires, if the drain lasts.
Fairness ==
  /\ \A t \in Task : WF_vars(TaskStep(t))
  /\ WF_vars(DrainTimeout)
  /\ WF_vars(StopReturns)

Spec == Init /\ [][Next]_vars
FairSpec == Spec /\ Fairness
-----------------------------------------------------------------------------
(* Properties *)

TypeOK ==
  /\ inFlight \subseteq Chat
  /\ task \in [Task -> Live \cup {Free}]
  /\ phase \in {"up", "draining", "cancelling", "stopped"}

\* A marker never outlives its job: while the queue accepts work, a chat that is
\* marked has a live summary job, whatever failures, retries and overlapping jobs
\* have done to the set meanwhile.  Otherwise the chat is never summarised again.
MarkedChatHasTask == phase = "up" => \A c \in inFlight : Works(c) # {}

\* Its inductive strengthening: that job is on its first attempt, which takes the
\* marker away however it ends.
MarkerInv ==
  phase = "up" => \A c \in inFlight : \E t \in Works(c) : task[t].attempt = 1

\* When background.stop has returned, and the clients and the connection are
\* closed next, no job is left that could use them.
QuietWhenStopped == phase = "stopped" => \A t \in Task : ~IsLive(t)

\* A stopping queue takes no more work, and a job once cancelled is not retried:
\* from then on every task's work only shrinks.
Remaining(t) ==
  IF ~IsLive(t) THEN 0 ELSE IF task[t].pc = "created" THEN 3 ELSE 3 - task[t].attempt
NoNewWorkWhileStopping ==
  [][phase # "up" /\ phase' # "up" => \A t \in Task : Remaining(t)' <= Remaining(t)]_vars

\* The marker of a chat is taken away again: no failure, retry or overlap of jobs
\* keeps a chat from its next summary for ever.
MarkerIsReleased ==
  \A c \in Chat : c \in inFlight ~> (c \notin inFlight \/ phase # "up")

\* Shutdown ends (unless the process dies first and comes back).
StopEnds == phase = "draining" ~> phase \in {"stopped", "up"}

\* What the manual test plan states for the guard: no more than one summary job
\* of a chat is in flight.
SingleFlight == \A c \in Chat : Cardinality(Works(c)) <= 1
==============================================================================
