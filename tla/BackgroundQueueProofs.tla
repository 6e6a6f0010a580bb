------------------------ MODULE BackgroundQueueProofs ------------------------
(***************************************************************************)
(* Proofs about BackgroundQueue, for any number of chats and tasks: a      *)
(* marked chat always has the job that takes its mark away, shutdown       *)
(* leaves no job behind, and a stopping queue's work only shrinks.         *)
(***************************************************************************)
EXTENDS BackgroundQueue, TLAPS

QueueInv == TypeOK /\ MarkerInv /\ QuietWhenStopped

\* What submit, and one task's step, do to the tasks.
LEMMA TaskTyped ==
  ASSUME TypeOK, NEW t \in Task, NEW b \in Live \cup {Free}, task' = [task EXCEPT ![t] = b]
  PROVE  /\ task' \in [Task -> Live \cup {Free}]
         /\ \A u \in Task : task'[u] = IF u = t THEN b ELSE task[u]
BY DEF TypeOK

\* A live task has all the fields of a record of Live.
LEMMA LiveTyped ==
  ASSUME TypeOK, NEW t \in Task, IsLive(t)
  PROVE  task[t] \in Live
BY DEF TypeOK, IsLive, Free

\* QueueInv holds of every reachable state: its three parts, action by action.
LEMMA QueueStep ==
  ASSUME QueueInv, [Next]_vars
  PROVE  QueueInv'
<1> USE DEF QueueInv
<1>1. CASE UNCHANGED vars
  BY <1>1 DEF vars, TypeOK, MarkerInv, QuietWhenStopped, Works, IsLive
<1>2. ASSUME NEW c \in Chat, SubmitSummary(c) PROVE QueueInv'
  <2>1. CASE phase = "up"
    <3> DEFINE b == NewTask("summary", c)
    <3>1. PICK t \in Task : ~IsLive(t) /\ task' = [task EXCEPT ![t] = b]
      BY <1>2, <2>1 DEF SubmitSummary, Submit
    <3>2. b \in Live /\ b.pc # "free" /\ b.kind = "summary" /\ b.chat = c /\ b.attempt = 1
      BY DEF NewTask, Live, Kind
    <3> HIDE DEF b
    <3>3. /\ task' \in [Task -> Live \cup {Free}]
          /\ \A u \in Task : task'[u] = IF u = t THEN b ELSE task[u]
      BY <3>1, <3>2, TaskTyped
    <3>4. TypeOK'
      BY <1>2, <3>3 DEF SubmitSummary, TypeOK
    <3>5. MarkerInv'
      <4>1. inFlight' = inFlight \cup {c}
        BY <1>2 DEF SubmitSummary
      <4>2. t \in Works(c)' /\ task'[t].attempt = 1
        BY <3>2, <3>3 DEF Works, IsLive
      <4>3. ASSUME NEW d \in inFlight
            PROVE  \E u \in Works(d)' : task'[u].attempt = 1
        <5>1. PICK u \in Works(d) : task[u].attempt = 1
          BY <2>1 DEF MarkerInv
        <5>2. u # t
          BY <3>1, <5>1 DEF Works
        <5>3. QED
          BY <3>3, <5>1, <5>2 DEF Works, IsLive
      <4>4. QED
        BY <4>1, <4>2, <4>3 DEF MarkerInv
    <3>6. QuietWhenStopped'
      BY <1>2, <2>1 DEF SubmitSummary, QuietWhenStopped
    <3>7. QED
      BY <3>4, <3>5, <3>6
  <2>2. CASE phase # "up"
    BY <1>2, <2>2 DEF SubmitSummary, Submit, TypeOK, MarkerInv, QuietWhenStopped
  <2>3. QED
    BY <2>1, <2>2
<1>3. ASSUME NEW c \in Chat, SubmitTitle(c) PROVE QueueInv'
  <2> DEFINE b == NewTask("title", c)
  <2>1. PICK t \in Task : ~IsLive(t) /\ task' = [task EXCEPT ![t] = b]
    BY <1>3 DEF SubmitTitle, Submit
  <2>2. b \in Live
    BY DEF NewTask, Live, Kind
  <2> HIDE DEF b
  <2>3. /\ task' \in [Task -> Live \cup {Free}]
        /\ \A u \in Task : task'[u] = IF u = t THEN b ELSE task[u]
    BY <2>1, <2>2, TaskTyped
  <2>4. TypeOK' /\ QuietWhenStopped'
    BY <1>3, <2>3 DEF SubmitTitle, TypeOK, QuietWhenStopped
  <2>5. MarkerInv'
    BY <1>3, <2>1, <2>3 DEF SubmitTitle, MarkerInv, Works, IsLive
  <2>6. QED
    BY <2>4, <2>5
<1>4. ASSUME NEW t \in Task, TaskStep(t) PROVE QueueInv'
  <2>1. PICK b \in Live \cup {Free} : task' = [task EXCEPT ![t] = b]
    <3>1. CASE Start(t)
      <4>1. task[t] \in Live
        BY <3>1, LiveTyped DEF Start, IsLive
      <4>2. [task[t] EXCEPT !.pc = "running"] \in Live
        BY <4>1 DEF Live
      <4>3. QED
        BY <3>1, <4>2 DEF Start
    <3>2. CASE Succeed(t)
      BY <3>2 DEF Succeed
    <3>3. CASE Fail(t)
      <4>1. task[t] \in Live
        BY <3>3, LiveTyped DEF Fail, IsLive
      <4>2. [task[t] EXCEPT !.attempt = 2] \in Live
        BY <4>1 DEF Live
      <4>3. QED
        BY <3>3, <4>2 DEF Fail
    <3>4. CASE CancelTask(t)
      BY <3>4 DEF CancelTask
    <3>5. QED
      BY <1>4, <3>1, <3>2, <3>3, <3>4 DEF TaskStep
  <2>2. /\ task' \in [Task -> Live \cup {Free}]
        /\ \A u \in Task : task'[u] = IF u = t THEN b ELSE task[u]
    BY <2>1, TaskTyped
  <2>3. IsLive(t) /\ inFlight' \subseteq inFlight /\ phase' = phase /\ phase \in {"up", "draining", "cancelling"}
    BY <1>4 DEF TaskStep, Start, Succeed, Fail, CancelTask, Discard, IsLive
  <2>4. TypeOK' /\ QuietWhenStopped'
    BY <2>2, <2>3 DEF TypeOK, QuietWhenStopped
  <2>5. MarkerInv'
    <3>1. SUFFICES ASSUME phase = "up", NEW c \in inFlight'
                   PROVE  \E u \in Works(c)' : task'[u].attempt = 1
      BY <2>3 DEF MarkerInv
    <3>2. PICK u \in Works(c) : task[u].attempt = 1
      BY <2>3, <3>1 DEF MarkerInv
    <3>3. CASE u # t
      BY <2>2, <3>2, <3>3 DEF Works, IsLive
    <3>4. CASE u = t
      <4>1. task[t].kind = "summary" /\ task[t].chat = c
        BY <3>2, <3>4 DEF Works
      <4>2. Start(t)
        BY <1>4, <3>1, <4>1 DEF TaskStep, Succeed, Fail, CancelTask, Discard
      <4>3. task[t] \in Live
        BY <2>3, LiveTyped
      <4>4. /\ task'[t].pc = "running" /\ task'[t].kind = "summary"
            /\ task'[t].chat = c /\ task'[t].attempt = 1
        BY <3>2, <3>4, <4>1, <4>2, <4>3 DEF Start, TypeOK, Live
      <4>5. QED
        BY <4>4 DEF Works, IsLive
    <3>5. QED
      BY <3>3, <3>4
  <2>6. QED
    BY <2>4, <2>5
<1>5. CASE BeginStop
  BY <1>5 DEF BeginStop, TypeOK, MarkerInv, QuietWhenStopped
<1>6. CASE DrainTimeout
  BY <1>6 DEF DrainTimeout, TypeOK, MarkerInv, QuietWhenStopped
<1>7. CASE StopReturns
  BY <1>7 DEF StopReturns, TypeOK, MarkerInv, QuietWhenStopped, IsLive
<1>8. CASE Restart
  BY <1>8 DEF Restart, TypeOK, MarkerInv, QuietWhenStopped
<1>9. QED
  BY <1>1, <1>2, <1>3, <1>4, <1>5, <1>6, <1>7, <1>8 DEF Next

\* The inductive invariant of the queue and its markers.
THEOREM QueueInvariant == Spec => []QueueInv
<1>1. Init => QueueInv
  BY DEF Init, QueueInv, TypeOK, MarkerInv, QuietWhenStopped
<1>2. QED
  BY <1>1, QueueStep, PTL DEF Spec

\* The tasks, the markers and the queue's phase have their types.
THEOREM TypeCorrect == Spec => []TypeOK
<1>1. QueueInv => TypeOK
  BY DEF QueueInv
<1>2. QED
  BY <1>1, QueueInvariant, PTL

\* A chat that is marked while the queue accepts work has a live summary job.
THEOREM MarkersHaveTasks == Spec => []MarkedChatHasTask
<1>1. QueueInv => MarkedChatHasTask
  BY DEF QueueInv, MarkerInv, MarkedChatHasTask
<1>2. QED
  BY <1>1, QueueInvariant, PTL

\* background.stop returns only when every job has ended.
THEOREM StopLeavesNothing == Spec => []QuietWhenStopped
<1>1. QueueInv => QuietWhenStopped
  BY DEF QueueInv
<1>2. QED
  BY <1>1, QueueInvariant, PTL

\* Once stopping, no step of any kind adds work or starts a cancelled job again.
THEOREM StoppingShrinks == Spec => NoNewWorkWhileStopping
<1> DEFINE A == phase # "up" /\ phase' # "up" => \A t \in Task : Remaining(t)' <= Remaining(t)
<1>1. QueueInv /\ [Next]_vars => [A]_vars
  <2> SUFFICES ASSUME QueueInv, Next, phase # "up", phase' # "up", NEW t \in Task
               PROVE  Remaining(t)' <= Remaining(t)
    OBVIOUS
  <2>1. TypeOK
    BY DEF QueueInv
  <2>2. task[t] = Free \/ task[t] \in Live
    BY <2>1 DEF TypeOK
  <2>3. Remaining(t) \in 0..3
    BY <2>2 DEF Remaining, IsLive, Free, Live
  <2>4. CASE task'[t] = task[t]
    BY <2>3, <2>4 DEF Remaining, IsLive
  <2>5. CASE task'[t] = Free
    BY <2>3, <2>5 DEF Remaining, IsLive, Free
  <2>6. CASE Start(t)
    <3>1. task[t] \in Live /\ task[t].pc = "created"
      BY <2>1, <2>6, LiveTyped DEF Start, IsLive
    <3>2. task'[t].pc = "running" /\ task'[t].attempt = task[t].attempt
      BY <2>1, <2>6, <3>1 DEF Start, TypeOK, Live
    <3>3. Remaining(t) = 3 /\ Remaining(t)' = 3 - task[t].attempt /\ task[t].attempt \in {1, 2}
      BY <3>1, <3>2 DEF Remaining, IsLive, Live
    <3>4. QED
      BY <3>3
  <2>7. CASE Fail(t)
    <3>1. task[t] \in Live /\ task[t].pc = "running"
      BY <2>1, <2>7, LiveTyped DEF Fail, IsLive
    <3>2. CASE task[t].attempt = 1
      <4>1. task'[t].pc = "running" /\ task'[t].attempt = 2
        BY <2>1, <2>7, <3>1, <3>2 DEF Fail, TypeOK, Live
      <4>2. Remaining(t) = 2 /\ Remaining(t)' = 1
        BY <3>1, <3>2, <4>1 DEF Remaining, IsLive
      <4>3. QED
        BY <4>2
    <3>3. CASE task[t].attempt # 1
      BY <2>1, <2>5, <2>7, <3>3 DEF Fail, TypeOK
    <3>4. QED
      BY <3>2, <3>3
  <2>8. QED
    BY <2>1, <2>4, <2>5, <2>6, <2>7
       DEF Next, SubmitSummary, Submit, SubmitTitle, TaskStep, Start, Succeed, Fail, CancelTask,
           BeginStop, DrainTimeout, StopReturns, Restart, TypeOK
<1>2. QED
  BY <1>1, QueueInvariant, PTL DEF Spec, NoNewWorkWhileStopping
==============================================================================
