---------------------------- MODULE ChatTurnProofs ----------------------------
(***************************************************************************)
(* Proofs about ChatTurn, for any number of turns and tokens: the types,   *)
(* that every stream implements the golden rule of TerminalStream, and     *)
(* what is stored when a turn says `done' or ends, and that it is what was *)
(* shown.                                                                  *)
(***************************************************************************)
EXTENDS ChatTurn, SequenceTheorems, FiniteSetTheorems, TLAPS

\* Where a terminal event may already have been sent.
Late == {"errhook", "finally", "closing", "ended"}

\* The strengthening of the golden rule: before the except clauses' hook and the
\* finally blocks no terminal event was sent, and a client that left had come.
StreamInv ==
  /\ TypeOK
  /\ \A t \in Turn : /\ turn[t].pc \notin Late => ~TerminalSent(t)
                     /\ turn[t].pc = "idle" => turn[t].here

-----------------------------------------------------------------------------
(* Types *)

\* The rows a turn inserts are rows, and inserting one leaves a history.
LEMMA RowsTyped ==
  ASSUME TypeOK, NEW t \in Turn
  PROVE  /\ Insert(UserRow(t)) \/ InsertRaises(UserRow(t)) => rows' \in Seq(Row)
         /\ Insert(AnswerRow(t)) \/ InsertRaises(AnswerRow(t)) => rows' \in Seq(Row)
<1>1. rows \in Seq(Row) /\ turn[t].content \in Nat /\ clock \in Nat
  BY TurnAssumption DEF TypeOK, TurnState
<1>2. UserRow(t) \in Row /\ AnswerRow(t) \in Row
  BY <1>1 DEF UserRow, AnswerRow, Row
<1>3. QED
  BY <1>1, <1>2 DEF Insert, InsertRaises

\* A yield appends at most the one event.
LEMMA YieldTyped ==
  ASSUME TypeOK, NEW t \in Turn, NEW e \in Event, Yield(t, e)
  PROVE  /\ sent' \in [Turn -> Seq(Event)]
         /\ \A u \in Turn : sent'[u] = IF u = t /\ turn[t].here THEN Append(sent[u], e) ELSE sent[u]
BY DEF TypeOK, Yield

\* What a step of one turn does to its variables, and to those of the others.
Moves(t) ==
  /\ turn'[t] \in TurnState
  /\ turn' = [turn EXCEPT ![t] = turn'[t]]

\* A step of a turn that has begun: its client stays as it is, it never goes back
\* from the end, and closes only after a terminal event if the client listens.
LEMMA TurnStepMoves ==
  ASSUME TypeOK, NEW t \in Turn, TurnStep(t)
  PROVE  /\ Moves(t)
         /\ Active(t)
         /\ turn'[t].here = turn[t].here
         /\ turn'[t].pc # "idle"
         /\ turn[t].pc \in Late => turn'[t].pc \in Late
         /\ turn'[t].pc = "ended" /\ turn[t].here => TerminalSent(t)
<1> DEFINE Goal == /\ Moves(t)
                   /\ Active(t)
                   /\ turn'[t].here = turn[t].here
                   /\ turn'[t].pc # "idle"
                   /\ turn[t].pc \in Late => turn'[t].pc \in Late
                   /\ turn'[t].pc = "ended" /\ turn[t].here => TerminalSent(t)
<1>1. turn \in [Turn -> TurnState] /\ turn[t] \in TurnState
  BY DEF TypeOK
<1> USE <1>1 DEF Moves, Active, Late, TurnState, PC, Goto, Raise, RaiseFromDatabase
<1>2. CASE LookUp(t) \/ Route(t) \/ PersistUser(t)
  BY <1>2 DEF LookUp, Route, PersistUser
<1>3. CASE RequestCompletion(t) \/ Refuse(t)
  BY <1>3 DEF RequestCompletion, Refuse
<1>11. CASE Loading(t)
  BY <1>11 DEF Loading
<1>4. CASE Delta(t)
  BY <1>4 DEF Delta
<1>5. CASE EndOfAnswer(t) \/ ModelFails(t) \/ PersistAnswer(t)
  BY <1>5 DEF EndOfAnswer, ModelFails, PersistAnswer
<1>6. CASE TouchChat(t) \/ TurnComplete(t) \/ YieldDone(t)
  BY <1>6 DEF TouchChat, TurnComplete, YieldDone
<1>7. CASE YieldError(t) \/ TurnCompleteAfterError(t)
  BY <1>7 DEF YieldError, TurnCompleteAfterError
<1>8. CASE PersistPartial(t)
  BY <1>8 DEF PersistPartial
<1>9. CASE Fallback(t) \/ CloseStream(t)
  BY <1>9 DEF Fallback, CloseStream
<1>10. QED
  BY <1>2, <1>3, <1>4, <1>5, <1>6, <1>7, <1>8, <1>9, <1>11 DEF TurnStep

\* What a step of a turn sends: nothing, or one event of a turn that has not sent a
\* terminal one; after a terminal event the turn is late, and never at its end.
LEMMA TurnStepSends ==
  ASSUME StreamInv, NEW t \in Turn, TurnStep(t)
  PROVE  /\ rows' \in Seq(Row)
         /\ \/ sent' = sent
            \/ \E e \in Event : /\ Yield(t, e)
                                /\ ~TerminalSent(t)
                                /\ turn'[t].pc # "ended"
                                /\ e \in Terminal => turn'[t].pc \in Late
<1> DEFINE Sends(e) == /\ Yield(t, e)
                       /\ ~TerminalSent(t)
                       /\ turn'[t].pc # "ended"
                       /\ e \in Terminal => turn'[t].pc \in Late
<1>1. turn \in [Turn -> TurnState] /\ turn[t] \in TurnState /\ rows \in Seq(Row)
  BY DEF StreamInv, TypeOK
<1>2. turn[t].pc \notin Late => ~TerminalSent(t)
  BY DEF StreamInv
<1>3. {"token", "model_loading", "done", "error"} \subseteq Event /\ "token" \notin Terminal /\ "model_loading" \notin Terminal
  BY DEF Event, Terminal
<1>4. CASE LookUp(t)
  <2>1. sent' = sent \/ Sends("error")
    BY <1>1, <1>2, <1>4 DEF LookUp, Goto, TurnState, Late
  <2>2. QED
    BY <1>1, <1>3, <1>4, <2>1 DEF LookUp
<1>5. CASE Refuse(t) \/ YieldError(t)
  <2>1. Sends("error")
    BY <1>1, <1>2, <1>5 DEF Refuse, YieldError, Goto, TurnState, Late
  <2>2. QED
    BY <1>1, <1>3, <1>5, <2>1 DEF Refuse, YieldError
<1>6. CASE YieldDone(t)
  <2>1. Sends("done")
    BY <1>1, <1>2, <1>6 DEF YieldDone, Goto, TurnState, Late
  <2>2. QED
    BY <1>1, <1>3, <1>6, <2>1 DEF YieldDone
<1>7. CASE Loading(t)
  <2>1. sent' = sent \/ Sends("model_loading")
    BY <1>1, <1>2, <1>3, <1>7 DEF Loading, TurnState, Late
  <2>2. QED
    BY <1>1, <1>3, <1>7, <2>1 DEF Loading
<1>8. CASE Delta(t)
  <2>1. sent' = sent \/ Sends("token")
    BY <1>1, <1>2, <1>3, <1>8 DEF Delta, Goto, TurnState, Late
  <2>2. QED
    BY <1>1, <1>3, <1>8, <2>1 DEF Delta
<1>9. CASE Fallback(t)
  <2>1. Sends("error")
    BY <1>1, <1>2, <1>9 DEF Fallback, TurnState, Late
  <2>2. QED
    BY <1>1, <1>3, <1>9, <2>1 DEF Fallback
<1>10. CASE PersistUser(t) \/ PersistAnswer(t) \/ PersistPartial(t)
  BY <1>1, <1>10, RowsTyped DEF PersistUser, PersistAnswer, PersistPartial, StreamInv
<1>11. CASE \/ Route(t) \/ RequestCompletion(t) \/ EndOfAnswer(t) \/ ModelFails(t)
            \/ TouchChat(t) \/ TurnComplete(t) \/ TurnCompleteAfterError(t) \/ CloseStream(t)
  BY <1>1, <1>11 DEF Route, RequestCompletion, EndOfAnswer, ModelFails, TouchChat,
                     TurnComplete, TurnCompleteAfterError, CloseStream
<1>12. QED
  BY <1>4, <1>5, <1>6, <1>7, <1>8, <1>9, <1>10, <1>11 DEF TurnStep

-----------------------------------------------------------------------------
(* Preservation *)

\* A step that moves one turn and leaves what was sent on the other streams.
LEMMA OneTurnInv ==
  ASSUME StreamInv, NEW t \in Turn, Moves(t), rows' \in Seq(Row), UNCHANGED timeVars,
         sent' \in [Turn -> Seq(Event)],
         \A u \in Turn \ {t} : sent'[u] = sent[u],
         turn'[t].pc \notin Late => ~TerminalSent(t)',
         turn'[t].pc = "idle" => turn'[t].here
  PROVE  StreamInv'
<1>1. turn \in [Turn -> TurnState]
  BY DEF StreamInv, TypeOK
<1>2. turn' \in [Turn -> TurnState] /\ \A u \in Turn \ {t} : turn'[u] = turn[u]
  BY <1>1 DEF Moves
<1>3. TypeOK'
  BY <1>2 DEF StreamInv, TypeOK, timeVars
<1>4. ASSUME NEW u \in Turn
      PROVE  /\ turn'[u].pc \notin Late => ~TerminalSent(u)'
             /\ turn'[u].pc = "idle" => turn'[u].here
  <2>1. CASE u = t
    BY <2>1
  <2>2. CASE u # t
    BY <1>2, <2>2 DEF StreamInv, TerminalSent
  <2>3. QED
    BY <2>1, <2>2
<1>5. QED
  BY <1>3, <1>4 DEF StreamInv

\* Appending an event that is not terminal sends no terminal event.
LEMMA AppendTerminal ==
  ASSUME NEW s \in Seq(Event), NEW e \in Event, e \notin Terminal,
         \A i \in DOMAIN s : s[i] \notin Terminal
  PROVE  \A i \in DOMAIN Append(s, e) : Append(s, e)[i] \notin Terminal
OBVIOUS

\* StreamInv is inductive.
LEMMA StreamStep ==
  ASSUME StreamInv, [Next]_vars
  PROVE  StreamInv'
<1>1. TypeOK /\ turn \in [Turn -> TurnState] /\ sent \in [Turn -> Seq(Event)] /\ rows \in Seq(Row)
  BY DEF StreamInv, TypeOK
<1>2. CASE UNCHANGED vars
  BY <1>2 DEF vars, StreamInv, TypeOK, TerminalSent
<1>3. ASSUME NEW t \in Turn, TurnStep(t), UNCHANGED timeVars PROVE StreamInv'
  <2>1. /\ Moves(t)
        /\ turn'[t].pc # "idle"
        /\ turn[t].pc \in Late => turn'[t].pc \in Late
    BY <1>1, <1>3, TurnStepMoves
  <2>2. rows' \in Seq(Row)
    BY <1>3, TurnStepSends
  <2>3. CASE sent' = sent
    <3>1. turn'[t].pc \notin Late => ~TerminalSent(t)'
      BY <2>1, <2>3 DEF StreamInv, TerminalSent
    <3>2. QED
      BY <1>1, <1>3, <2>1, <2>2, <2>3, <3>1, OneTurnInv
  <2>4. CASE sent' # sent
    <3>1. PICK e \in Event : Yield(t, e) /\ ~TerminalSent(t) /\ (e \in Terminal => turn'[t].pc \in Late)
      BY <1>3, <2>4, TurnStepSends
    <3>2. /\ sent' \in [Turn -> Seq(Event)]
          /\ \A u \in Turn : sent'[u] = IF u = t /\ turn[t].here THEN Append(sent[u], e) ELSE sent[u]
      BY <1>1, <3>1, YieldTyped
    <3>3. ASSUME turn'[t].pc \notin Late PROVE ~TerminalSent(t)'
      <4>1. e \notin Terminal
        BY <3>1, <3>3
      <4>2. sent[t] \in Seq(Event) /\ \A i \in DOMAIN sent[t] : sent[t][i] \notin Terminal
        BY <1>1, <3>1 DEF TerminalSent
      <4>3. \A i \in DOMAIN sent'[t] : sent'[t][i] \notin Terminal
        BY <3>2, <4>1, <4>2, AppendTerminal
      <4>4. QED
        BY <4>3 DEF TerminalSent
    <3>4. QED
      BY <1>3, <2>1, <2>2, <3>2, <3>3, OneTurnInv
  <2>5. QED
    BY <2>3, <2>4
<1>4. ASSUME NEW t \in Turn, Accept(t), UNCHANGED timeVars PROVE StreamInv'
  <2>1. Moves(t) /\ turn'[t].pc = "open"
    BY <1>1, <1>4 DEF Accept, Goto, Moves, TurnState, PC
  <2>2. ~TerminalSent(t)'
    BY <1>4 DEF Accept, StreamInv, Late, TerminalSent
  <2>3. QED
    BY <1>1, <1>4, <2>1, <2>2, OneTurnInv DEF Accept
<1>5. ASSUME NEW t \in Turn, Disconnect(t), UNCHANGED timeVars PROVE StreamInv'
  <2>1. PICK pc \in {"finally", "closing"} :
          turn' = [turn EXCEPT ![t].here = FALSE, ![t].pc = pc]
    BY <1>5 DEF Disconnect
  <2>2. Moves(t) /\ turn'[t].pc \in {"finally", "closing"}
    BY <1>1, <2>1 DEF Moves, TurnState, PC
  <2>3. rows' \in Seq(Row)
    BY <1>1, <1>5, RowsTyped DEF Disconnect
  <2>4. QED
    BY <1>1, <1>5, <2>2, <2>3, OneTurnInv DEF Disconnect, Late
<1>6. CASE Crash /\ UNCHANGED timeVars
  <2>1. turn' \in [Turn -> TurnState]
    BY <1>1, <1>6 DEF Crash, TurnState, PC
  <2>2. ASSUME NEW u \in Turn
        PROVE  /\ turn'[u].pc \notin Late => ~TerminalSent(u)'
               /\ turn'[u].pc = "idle" => turn'[u].here
    <3>1. turn[u] \in TurnState
      BY <1>1
    <3>2. CASE Active(u)
      BY <1>1, <1>6, <3>1, <3>2 DEF Crash, TurnState, Late
    <3>3. CASE ~Active(u)
      BY <1>6, <3>3 DEF Crash, StreamInv, TerminalSent
    <3>4. QED
      BY <3>2, <3>3
  <2>3. QED
    BY <1>1, <1>6, <2>1, <2>2 DEF Crash, StreamInv, TypeOK, timeVars
<1>7. CASE SetClock
  BY <1>1, <1>7 DEF SetClock, StreamInv, TypeOK, TerminalSent
<1>8. QED
  BY <1>2, <1>3, <1>4, <1>5, <1>6, <1>7 DEF Next

\* The inductive invariant of the streams.
THEOREM StreamInvariant == Spec => []StreamInv
<1>1. Init => StreamInv
  BY DEF Init, StreamInv, TypeOK, NewTurn, TurnState, PC, Late, TerminalSent
<1>2. QED
  BY <1>1, StreamStep, PTL DEF Spec

\* Every variable keeps its type.
THEOREM TypeCorrect == Spec => []TypeOK
<1>1. StreamInv => TypeOK
  BY DEF StreamInv
<1>2. QED
  BY <1>1, StreamInvariant, PTL
-----------------------------------------------------------------------------
(* Refinement *)

Stages == [t \in Turn |-> Stage(t)]

\* A step of a turn that has begun is a step of its stream, or none.
LEMMA TurnStepRefines ==
  ASSUME StreamInv, NEW t \in Turn, TurnStep(t)
  PROVE  Golden!Next \/ (Stages' = Stages /\ sent' = sent)
<1>1. TypeOK /\ turn \in [Turn -> TurnState] /\ sent \in [Turn -> Seq(Event)]
  BY DEF StreamInv, TypeOK
<1>2. /\ Moves(t) /\ Active(t) /\ turn'[t].here = turn[t].here /\ turn'[t].pc # "idle"
      /\ turn'[t].pc = "ended" /\ turn[t].here => TerminalSent(t)
  BY <1>1, TurnStepMoves
<1>3. \A u \in Turn \ {t} : turn'[u] = turn[u]
  BY <1>1, <1>2 DEF Moves
<1>4. \A u \in Turn \ {t} : Stage(u)' = Stage(u)
  BY <1>3 DEF Stage
<1>5. Stage(t) = IF turn[t].here THEN "open" ELSE "left"
  BY <1>2 DEF Stage, Active
<1>6. CASE turn'[t].pc # "ended"
  <2>1. Stage(t)' = Stage(t)
    BY <1>2, <1>5, <1>6 DEF Stage
  <2>2. Stages' = Stages
    BY <1>4, <2>1 DEF Stages
  <2>3. CASE sent' = sent
    BY <2>2, <2>3
  <2>4. CASE sent' # sent
    <3>1. PICK e \in Event : Yield(t, e) /\ ~TerminalSent(t)
      BY <2>4, TurnStepSends
    <3>2. turn[t].here
      BY <1>1, <2>4, <3>1 DEF Yield
    <3>3. sent' = [sent EXCEPT ![t] = Append(@, e)]
      BY <3>1, <3>2 DEF Yield
    <3>4. e \in Golden!Event /\ ~Golden!HasTerminal(sent[t])
      BY <3>1 DEF Event, Terminal, TerminalSent, Golden!Event, Golden!Terminal, Golden!HasTerminal
    <3>5. Stages[t] = "open"
      BY <1>5, <3>2 DEF Stages
    <3>6. Golden!Send(t)
      BY <2>2, <3>3, <3>4, <3>5 DEF Golden!Send, Stages
    <3>7. QED
      BY <3>6 DEF Golden!Next
  <2>5. QED
    BY <2>3, <2>4
<1>7. CASE turn'[t].pc = "ended"
  <2>1. sent' = sent
    BY <1>7, TurnStepSends
  <2>2. CASE turn[t].here
    <3>1. Golden!HasTerminal(sent[t]) /\ Stages[t] = "open"
      BY <1>2, <1>5, <1>7, <2>2 DEF TerminalSent, Terminal, Golden!Terminal, Golden!HasTerminal, Stages
    <3>2. Stage(t)' = "closed"
      BY <1>2, <1>7, <2>2 DEF Stage
    <3>3. Stages' = [Stages EXCEPT ![t] = "closed"]
      BY <1>4, <3>2 DEF Stages
    <3>4. Golden!Close(t)
      BY <2>1, <3>1, <3>3 DEF Golden!Close, Stages
    <3>5. QED
      BY <3>4 DEF Golden!Next
  <2>3. CASE ~turn[t].here
    <3>1. Stage(t)' = Stage(t)
      BY <1>2, <1>5, <1>7, <2>3 DEF Stage
    <3>2. QED
      BY <1>4, <2>1, <3>1 DEF Stages
  <2>4. QED
    BY <2>2, <2>3
<1>8. QED
  BY <1>6, <1>7

\* Every step is a step of the abstract streams, or changes none.
LEMMA StepRefines ==
  ASSUME StreamInv, [Next]_vars
  PROVE  Golden!Next \/ (Stages' = Stages /\ sent' = sent)
<1>1. TypeOK /\ turn \in [Turn -> TurnState] /\ sent \in [Turn -> Seq(Event)]
  BY DEF StreamInv, TypeOK
<1>2. CASE UNCHANGED vars
  BY <1>2 DEF vars, Stages, Stage
<1>3. ASSUME NEW t \in Turn, TurnStep(t) PROVE Golden!Next \/ (Stages' = Stages /\ sent' = sent)
  BY <1>3, TurnStepRefines
<1>4. ASSUME NEW t \in Turn, Accept(t)
      PROVE  Golden!Next
  <2>1. turn[t].here /\ Stages[t] = "new"
    BY <1>4 DEF Accept, StreamInv, Stages, Stage
  <2>2. turn'[t].pc = "open" /\ turn'[t].here /\ \A u \in Turn \ {t} : turn'[u] = turn[u]
    BY <1>1, <1>4, <2>1 DEF Accept, Goto, TurnState
  <2>3. Stages' = [Stages EXCEPT ![t] = "open"]
    BY <2>2 DEF Stages, Stage
  <2>4. Golden!Open(t)
    BY <1>4, <2>1, <2>3 DEF Golden!Open, Accept, Stages
  <2>5. QED
    BY <2>4 DEF Golden!Next
<1>5. ASSUME NEW gone \in SUBSET Turn, sent' = sent,
             \A u \in gone : turn[u].pc \notin {"idle", "ended"} /\ turn[u].here,
             \A u \in gone : ~turn'[u].here /\ turn'[u].pc # "idle",
             \A u \in Turn \ gone : Stage(u)' = Stage(u)
      PROVE  Golden!Next
  <2>1. \A u \in gone : Stages[u] = "open"
    BY <1>5 DEF Stages, Stage
  <2>2. Stages' = [u \in Turn |-> IF u \in gone THEN "left" ELSE Stages[u]]
    BY <1>5 DEF Stages, Stage
  <2>3. Golden!Leave
    BY <1>5, <2>1, <2>2 DEF Golden!Leave, Stages
  <2>4. QED
    BY <2>3 DEF Golden!Next
<1>6. ASSUME NEW t \in Turn, Disconnect(t) PROVE Golden!Next
  <2>1. /\ turn[t].pc \notin {"idle", "ended"} /\ turn[t].here /\ sent' = sent
        /\ ~turn'[t].here /\ turn'[t].pc # "idle"
        /\ \A u \in Turn \ {t} : turn'[u] = turn[u]
    BY <1>1, <1>6 DEF Disconnect, Active, TurnState
  <2>2. \A u \in Turn \ {t} : Stage(u)' = Stage(u)
    BY <2>1 DEF Stage
  <2>3. QED
    BY <1>5, <2>1, <2>2
<1>7. CASE Crash
  <2> DEFINE gone == {u \in Turn : Active(u) /\ turn[u].here}
  <2>1. \A u \in Turn : turn[u] \in TurnState
    BY <1>1
  <2>2. \A u \in Turn : turn'[u] = IF Active(u) THEN [turn[u] EXCEPT !.pc = "ended", !.here = FALSE]
                                               ELSE turn[u]
    BY <1>7 DEF Crash
  <2>3. \A u \in gone : turn[u].pc \notin {"idle", "ended"} /\ turn[u].here
    BY DEF Active
  <2>4. \A u \in gone : ~turn'[u].here /\ turn'[u].pc # "idle"
    <3>1. SUFFICES ASSUME NEW u \in gone PROVE ~turn'[u].here /\ turn'[u].pc # "idle"
      OBVIOUS
    <3>2. turn'[u] = [turn[u] EXCEPT !.pc = "ended", !.here = FALSE] /\ turn[u] \in TurnState
      BY <2>1, <2>2
    <3>3. QED
      BY <3>2 DEF TurnState
  <2>5. \A u \in Turn \ gone : Stage(u)' = Stage(u)
    BY <2>1, <2>2 DEF TurnState, Active, Stage
  <2>6. sent' = sent
    BY <1>7 DEF Crash
  <2>7. QED
    BY <1>5, <2>3, <2>4, <2>5, <2>6
<1>8. CASE SetClock
  BY <1>8 DEF SetClock, Stages, Stage
<1>9. QED
  BY <1>2, <1>3, <1>4, <1>6, <1>7, <1>8 DEF Next

\* Every stream of answers obeys the golden rule: the turns implement TerminalStream.
THEOREM GoldenRuleHolds == Spec => GoldenRule
<1>1. Init => Golden!Init
  BY DEF Init, Golden!Init, Stage, NewTurn
<1>2. StreamInv /\ [Next]_vars => [Golden!Next]_<<sent, Stages>>
  BY StepRefines
<1>3. QED
  BY <1>1, <1>2, StreamInvariant, PTL DEF Spec, GoldenRule, Golden!Spec, Stages
-----------------------------------------------------------------------------
(* What is kept *)

\* The question is in the chat, and unless the clock was set back no stamp to come is
\* earlier than its own; so is the whole answer, stamped no earlier; or no answer is.
HasUser(t) == \E i \in DOMAIN rows : IsQuestion(i, t) /\ (t \notin setBack => rows[i].at <= clock)
Kept(t) ==
  \E i, j \in DOMAIN rows :
    /\ i < j /\ IsQuestion(i, t) /\ IsAnswer(j, t)
    /\ t \notin setBack => rows[i].at <= rows[j].at
NoAnswer(t) == \A i \in DOMAIN rows : ~(rows[i].turn = t /\ rows[i].role = "assistant")
DoneSent(t) == \E i \in DOMAIN sent[t] : sent[t][i] = "done"

\* Where the question has been written, and where the answer has.
Asked == {"read", "refuse", "first", "stream", "insert", "touch", "hook", "done"}
Answered == {"touch", "hook", "done"}

\* What is written comes before what is said of it.
PersistInv(t) ==
  /\ turn[t].pc \in Asked => HasUser(t)
  /\ turn[t].pc \in Answered \/ DoneSent(t) => Kept(t)

\* on_turn_complete was called where the code says, or there is nothing to tell of.
HookInv(t) ==
  /\ turn[t].hooks <= 1
  /\ turn[t].pc \notin {"done", "finally", "closing", "ended"} => turn[t].hooks = 0
  /\ turn[t].pc = "done" => turn[t].hooks = 1
  /\ turn[t].pc \in {"idle", "open", "route", "user", "read", "refuse"} =>
       turn[t].content = 0 /\ NoAnswer(t)
  /\ turn[t].pc \in {"finally", "closing", "ended"} /\ turn[t].here =>
       turn[t].hooks = 1 \/ (turn[t].content = 0 /\ NoAnswer(t))

\* The strengthening of DoneIsPersisted and TurnCompletesOnce.
KeptInv == StreamInv /\ \A t \in Turn : PersistInv(t) /\ HookInv(t)

\* The history grows at its end, by a row of turn t.
Grows(t) == rows' = rows \/ \E row \in Row : row.turn = t /\ rows' = Append(rows, row)

\* An insert by turn t lengthens the history by its row; only AnswerRow is an answer.
LEMMA InsertGrows ==
  ASSUME TypeOK, NEW t \in Turn, UNCHANGED timeVars
  PROVE  /\ Insert(UserRow(t)) => Grows(t) /\ HasUser(t)'
         /\ InsertRaises(UserRow(t)) => Grows(t)
         /\ Insert(UserRow(t)) \/ InsertRaises(UserRow(t)) => (NoAnswer(t) => NoAnswer(t)')
         /\ Insert(AnswerRow(t)) \/ InsertRaises(AnswerRow(t)) => Grows(t)
         /\ rows' = rows => Grows(t) /\ (NoAnswer(t) => NoAnswer(t)')
<1>1. rows \in Seq(Row) /\ turn[t].content \in Nat /\ clock \in Nat
  BY TurnAssumption DEF TypeOK, TurnState
<1>2. UserRow(t) \in Row /\ AnswerRow(t) \in Row /\ UserRow(t).turn = t /\ AnswerRow(t).turn = t
  BY <1>1 DEF UserRow, AnswerRow, Row
<1>3. ASSUME rows' = Append(rows, UserRow(t)) PROVE HasUser(t)'
  <2>1. Len(rows) + 1 \in DOMAIN rows' /\ rows'[Len(rows) + 1] = UserRow(t)
    BY <1>1, <1>2, <1>3
  <2>2. QED
    BY <1>1, <2>1 DEF HasUser, IsQuestion, UserRow, timeVars
<1>4. ASSUME rows' = Append(rows, UserRow(t)), NoAnswer(t) PROVE NoAnswer(t)'
  <2>1. ASSUME NEW i \in DOMAIN rows' PROVE ~(rows'[i].turn = t /\ rows'[i].role = "assistant")
    <3>1. CASE i \in DOMAIN rows
      BY <1>1, <1>2, <1>4, <3>1 DEF NoAnswer
    <3>2. CASE i \notin DOMAIN rows
      <4>1. rows'[i] = UserRow(t)
        BY <1>1, <1>2, <1>4, <2>1, <3>2
      <4>2. QED
        BY <4>1 DEF UserRow
    <3>3. QED
      BY <3>1, <3>2
  <2>2. QED
    BY <2>1 DEF NoAnswer
<1>5. QED
  BY <1>2, <1>3, <1>4 DEF Insert, InsertRaises, Grows, NoAnswer

\* What was in the history stays there, and is nobody else's.
LEMMA RowsStay ==
  ASSUME TypeOK, NEW t \in Turn, Grows(t), UNCHANGED timeVars, NEW u \in Turn
  PROVE  /\ HasUser(u) => HasUser(u)'
         /\ Kept(u) /\ turn'[u].content = turn[u].content => Kept(u)'
         /\ u # t /\ NoAnswer(u) => NoAnswer(u)'
<1>1. rows \in Seq(Row)
  BY DEF TypeOK
<1>2. CASE rows' = rows
  BY <1>2 DEF HasUser, Kept, NoAnswer, IsQuestion, IsAnswer, timeVars
<1>3. CASE \E row \in Row : row.turn = t /\ rows' = Append(rows, row)
  <2>1. PICK row \in Row : row.turn = t /\ rows' = Append(rows, row)
    BY <1>3
  <2>2. \A i \in DOMAIN rows : i \in DOMAIN rows' /\ rows'[i] = rows[i]
    BY <1>1, <2>1
  <2>3. \A i \in DOMAIN rows' : i \in DOMAIN rows \/ rows'[i] = row
    BY <1>1, <2>1
  <2>4. HasUser(u) => HasUser(u)'
    BY <2>2 DEF HasUser, IsQuestion, timeVars
  <2>5. Kept(u) /\ turn'[u].content = turn[u].content => Kept(u)'
    BY <2>2 DEF Kept, IsQuestion, IsAnswer, timeVars
  <2>6. u # t /\ NoAnswer(u) => NoAnswer(u)'
    BY <2>1, <2>2, <2>3 DEF NoAnswer
  <2>7. QED
    BY <2>4, <2>5, <2>6
<1>4. QED
  BY <1>2, <1>3 DEF Grows

\* An answer written after its question.
LEMMA AnswerKept ==
  ASSUME TypeOK, NEW t \in Turn, HasUser(t), Insert(AnswerRow(t)), UNCHANGED timeVars,
         turn'[t].content = turn[t].content
  PROVE  Kept(t)'
<1>1. rows \in Seq(Row) /\ turn[t].content \in Nat /\ clock \in Nat
  BY TurnAssumption DEF TypeOK, TurnState
<1>2. AnswerRow(t) \in Row
  BY <1>1 DEF AnswerRow, Row
<1>3. PICK i \in DOMAIN rows : IsQuestion(i, t) /\ (t \notin setBack => rows[i].at <= clock)
  BY DEF HasUser
<1>4. PICK n \in Nat : n = Len(rows) + 1
  BY <1>1
<1>5. /\ i \in DOMAIN rows' /\ rows'[i] = rows[i] /\ i < n
      /\ n \in DOMAIN rows' /\ rows'[n] = AnswerRow(t)
  BY <1>1, <1>2, <1>4 DEF Insert
<1>6. IsQuestion(i, t)' /\ IsAnswer(n, t)'
  BY <1>3, <1>5 DEF IsQuestion, IsAnswer, AnswerRow
<1>7. t \notin setBack' => rows'[i].at <= rows'[n].at
  BY <1>3, <1>5 DEF AnswerRow, timeVars
<1>8. QED
  BY <1>5, <1>6, <1>7 DEF Kept

\* Only the event done is done.
LEMMA OtherEvents ==
  ASSUME TypeOK, NEW t \in Turn, NEW e \in Event, e # "done", Yield(t, e)
  PROVE  DoneSent(t)' => DoneSent(t)
<1>1. sent[t] \in Seq(Event)
  BY DEF TypeOK
<1>2. sent'[t] = IF turn[t].here THEN Append(sent[t], e) ELSE sent[t]
  BY YieldTyped
<1>3. QED
  BY <1>1, <1>2 DEF DoneSent

\* What was told done was late already.
LEMMA DoneIsLate ==
  ASSUME StreamInv, NEW t \in Turn, DoneSent(t)
  PROVE  turn[t].pc \in Late
BY DEF StreamInv, TerminalSent, Terminal, DoneSent

\* A step of turn t keeps the invariant of t.
LEMMA TurnKeeps ==
  ASSUME StreamInv, NEW t \in Turn, PersistInv(t), HookInv(t),
         Accept(t) \/ TurnStep(t) \/ Disconnect(t), UNCHANGED timeVars
  PROVE  PersistInv(t)' /\ HookInv(t)' /\ Grows(t)
<1>1. TypeOK /\ turn \in [Turn -> TurnState] /\ turn[t] \in TurnState
  BY DEF StreamInv, TypeOK
<1>2. /\ rows' = rows => Grows(t) /\ (NoAnswer(t) => NoAnswer(t)')
      /\ Insert(UserRow(t)) => Grows(t) /\ HasUser(t)'
      /\ InsertRaises(UserRow(t)) => Grows(t)
      /\ Insert(UserRow(t)) \/ InsertRaises(UserRow(t)) => (NoAnswer(t) => NoAnswer(t)')
      /\ Insert(AnswerRow(t)) \/ InsertRaises(AnswerRow(t)) => Grows(t)
  BY <1>1, InsertGrows
<1>3. Grows(t) => /\ HasUser(t) => HasUser(t)'
                  /\ Kept(t) /\ turn'[t].content = turn[t].content => Kept(t)'
  BY <1>1, RowsStay
<1>4. sent' = sent => (DoneSent(t)' => DoneSent(t))
  BY DEF DoneSent
<1>5. DoneSent(t) => turn[t].pc \in Late
  BY DoneIsLate
<1>6. \A e \in {"token", "model_loading", "error"} : Yield(t, e) => (DoneSent(t)' => DoneSent(t))
  BY <1>1, OtherEvents DEF Event, Terminal
<1>7. Insert(AnswerRow(t)) /\ HasUser(t) /\ turn'[t].content = turn[t].content => Kept(t)'
  BY <1>1, AnswerKept
<1> USE <1>1, <1>2, <1>3, <1>4, <1>5, <1>6 DEF PersistInv, HookInv, Goto, Raise, RaiseFromDatabase,
        TurnState, Late, Asked, Answered
<1>8. CASE Accept(t)
  BY <1>8 DEF Accept
<1>9. CASE LookUp(t)
  BY <1>9 DEF LookUp
<1>10. CASE Route(t)
  BY <1>10 DEF Route
<1>11. CASE PersistUser(t)
  BY <1>11 DEF PersistUser
<1>12. CASE RequestCompletion(t)
  BY <1>12 DEF RequestCompletion
<1>13. CASE Refuse(t)
  BY <1>13 DEF Refuse
<1>14. CASE Loading(t)
  BY <1>14 DEF Loading
<1>15. CASE Delta(t)
  BY <1>15 DEF Delta
<1>16. CASE EndOfAnswer(t) \/ ModelFails(t)
  BY <1>16 DEF EndOfAnswer, ModelFails
<1>17. CASE PersistAnswer(t)
  BY <1>7, <1>17 DEF PersistAnswer
<1>18. CASE TouchChat(t)
  BY <1>18 DEF TouchChat
<1>19. CASE TurnComplete(t)
  BY <1>19 DEF TurnComplete
<1>20. CASE YieldDone(t)
  BY <1>20 DEF YieldDone
<1>21. CASE YieldError(t) \/ TurnCompleteAfterError(t)
  BY <1>21 DEF YieldError, TurnCompleteAfterError
<1>22. CASE PersistPartial(t)
  BY <1>22 DEF PersistPartial
<1>23. CASE Fallback(t) \/ CloseStream(t)
  BY <1>23 DEF Fallback, CloseStream
<1>24. CASE Disconnect(t)
  <2>1. /\ turn'[t].here = FALSE /\ turn'[t].content = turn[t].content
        /\ turn'[t].hooks = turn[t].hooks
        /\ turn'[t].pc \in {"finally", "closing"}
        /\ sent' = sent
        /\ turn[t].pc \notin {"idle", "ended"}
    BY <1>24 DEF Disconnect, Active
  <2>2. Grows(t)
    <3>1. CASE turn[t].pc = "user"
      BY <1>24, <3>1 DEF Disconnect
    <3>2. CASE turn[t].pc = "insert"
      BY <1>24, <3>2 DEF Disconnect
    <3>3. CASE turn[t].pc \notin {"user", "insert"}
      BY <1>24, <3>3 DEF Disconnect
    <3>4. QED
      BY <3>1, <3>2, <3>3
  <2>3. QED
    BY <2>1, <2>2
<1>25. QED
  BY <1>8, <1>9, <1>10, <1>11, <1>12, <1>13, <1>14, <1>15, <1>16, <1>17, <1>18, <1>19,
     <1>20, <1>21, <1>22, <1>23, <1>24 DEF TurnStep

\* A step of turn t leaves the others' variables alone.
LEMMA OthersStay ==
  ASSUME StreamInv, NEW t \in Turn, Accept(t) \/ TurnStep(t) \/ Disconnect(t), NEW u \in Turn \ {t}
  PROVE  turn'[u] = turn[u] /\ sent'[u] = sent[u]
<1>0. TypeOK /\ turn \in [Turn -> TurnState] /\ sent \in [Turn -> Seq(Event)]
  BY DEF StreamInv, TypeOK
<1>1. CASE TurnStep(t)
  <2>1. turn'[u] = turn[u]
    BY <1>0, <1>1, TurnStepMoves DEF Moves
  <2>2. sent' = sent \/ \E e \in Event : Yield(t, e)
    BY <1>1, TurnStepSends
  <2> QED
    BY <1>0, <2>1, <2>2, YieldTyped
<1>2. CASE Accept(t)
  BY <1>0, <1>2 DEF Accept, Goto
<1>3. CASE Disconnect(t)
  BY <1>0, <1>3 DEF Disconnect
<1> QED
  BY <1>1, <1>2, <1>3

\* A turn that asked either knows that the clock was set back, or sees it go on.
LEMMA ClockKeeps ==
  ASSUME TypeOK, NEW u \in Turn, SetClock, turn[u].pc \in Asked, HasUser(u)
  PROVE  HasUser(u)'
<1>1. rows \in Seq(Row) /\ clock \in Nat /\ clock' \in Nat
  BY TurnAssumption DEF TypeOK, SetClock
<1>2. PICK i \in DOMAIN rows : IsQuestion(i, u) /\ (u \notin setBack => rows[i].at <= clock)
  BY DEF HasUser
<1>3. rows' = rows /\ rows[i] \in Row /\ rows[i].at \in Nat
  <2>1. rows[i] \in Row
    BY <1>1
  <2> QED
    BY <2>1 DEF SetClock, Row
<1>4. u \notin setBack' => u \notin setBack /\ clock <= clock'
  <2>1. Active(u)
    BY DEF Active, Asked
  <2> QED
    BY <1>1, <2>1 DEF SetClock
<1>5. u \notin setBack' => rows'[i].at <= clock'
  BY <1>1, <1>2, <1>3, <1>4
<1> QED
  BY <1>2, <1>3, <1>5 DEF HasUser, IsQuestion

\* KeptInv is inductive.
LEMMA KeptStep ==
  ASSUME KeptInv, [Next]_vars
  PROVE  KeptInv'
<1>1. StreamInv' /\ StreamInv
  BY StreamStep DEF KeptInv
<1>2. TypeOK /\ turn \in [Turn -> TurnState] /\ sent \in [Turn -> Seq(Event)]
  BY <1>1 DEF StreamInv, TypeOK
<1>3. CASE UNCHANGED vars
  BY <1>1, <1>3 DEF vars, KeptInv, PersistInv, HookInv, HasUser, Kept, NoAnswer, DoneSent, IsQuestion, IsAnswer
<1>4. ASSUME NEW t \in Turn, Accept(t) \/ TurnStep(t) \/ Disconnect(t), UNCHANGED timeVars
      PROVE  KeptInv'
  <2>1. PersistInv(t)' /\ HookInv(t)' /\ Grows(t)
    BY <1>1, <1>4, TurnKeeps DEF KeptInv
  <2>2. \A u \in Turn \ {t} : turn'[u] = turn[u] /\ sent'[u] = sent[u]
    BY <1>1, <1>4, OthersStay
  <2>3. ASSUME NEW u \in Turn \ {t} PROVE PersistInv(u)' /\ HookInv(u)'
    <3>1. turn'[u] = turn[u] /\ sent'[u] = sent[u] /\ PersistInv(u) /\ HookInv(u)
      BY <2>2 DEF KeptInv
    <3>2. /\ HasUser(u) => HasUser(u)'
          /\ Kept(u) => Kept(u)'
          /\ NoAnswer(u) => NoAnswer(u)'
      BY <1>2, <1>4, <2>1, <3>1, RowsStay
    <3>3. DoneSent(u)' => DoneSent(u)
      BY <3>1 DEF DoneSent
    <3>4. QED
      BY <3>1, <3>2, <3>3 DEF PersistInv, HookInv
  <2>4. QED
    BY <1>1, <2>1, <2>3 DEF KeptInv
<1>5. CASE Crash /\ UNCHANGED timeVars
  <2>1. ASSUME NEW u \in Turn PROVE PersistInv(u)' /\ HookInv(u)'
    <3>1. turn[u] \in TurnState /\ PersistInv(u) /\ HookInv(u)
      BY <1>2 DEF KeptInv
    <3>2. turn'[u] = IF Active(u) THEN [turn[u] EXCEPT !.pc = "ended", !.here = FALSE] ELSE turn[u]
      BY <1>5 DEF Crash
    <3>3. turn'[u].content = turn[u].content /\ turn'[u].hooks = turn[u].hooks
      BY <3>1, <3>2 DEF TurnState
    <3>4. \/ turn'[u].pc = turn[u].pc /\ turn'[u].here = turn[u].here
          \/ turn'[u].pc = "ended" /\ ~turn'[u].here
      <4>1. CASE Active(u)
        BY <3>1, <3>2, <4>1 DEF TurnState
      <4>2. CASE ~Active(u)
        BY <3>2, <4>2
      <4>3. QED
        BY <4>1, <4>2
    <3>5. /\ HasUser(u) => HasUser(u)'
          /\ Kept(u) => Kept(u)'
          /\ NoAnswer(u) => NoAnswer(u)'
          /\ DoneSent(u)' => DoneSent(u)
      BY <1>5, <3>3 DEF Crash, HasUser, Kept, NoAnswer, DoneSent, IsQuestion, IsAnswer, timeVars
    <3>6. QED
      BY <3>1, <3>3, <3>4, <3>5 DEF PersistInv, HookInv, Asked, Answered
  <2>2. QED
    BY <1>1, <2>1 DEF KeptInv
<1>6. CASE SetClock
  <2>1. ASSUME NEW u \in Turn PROVE PersistInv(u)' /\ HookInv(u)'
    <3>1. /\ turn' = turn /\ rows' = rows /\ sent' = sent /\ PersistInv(u) /\ HookInv(u)
          /\ setBack \subseteq setBack'
      BY <1>6 DEF SetClock, KeptInv
    <3>2. (DoneSent(u)' <=> DoneSent(u)) /\ (NoAnswer(u)' <=> NoAnswer(u))
      BY <3>1 DEF DoneSent, NoAnswer
    <3>3. Kept(u) => Kept(u)'
      BY <3>1 DEF Kept, IsQuestion, IsAnswer
    <3>4. turn[u].pc \in Asked /\ HasUser(u) => HasUser(u)'
      BY <1>2, <1>6, <3>1, ClockKeeps
    <3> QED
      BY <3>1, <3>2, <3>3, <3>4 DEF PersistInv, HookInv
  <2> QED
    BY <1>1, <2>1 DEF KeptInv
<1> QED
  BY <1>3, <1>4, <1>5, <1>6 DEF Next

\* KeptInv is an invariant.
THEOREM KeptInvariant == Spec => []KeptInv
<1>1. Init => KeptInv
  <2>1. Init => StreamInv
    BY DEF Init, StreamInv, TypeOK, NewTurn, TurnState, PC, Late, TerminalSent
  <2>2. Init => \A t \in Turn : PersistInv(t) /\ HookInv(t)
    BY DEF Init, NewTurn, PersistInv, HookInv, NoAnswer, DoneSent, Asked, Answered
  <2>3. QED
    BY <2>1, <2>2 DEF KeptInv
<1>2. QED
  BY <1>1, KeptStep, PTL DEF Spec

\* A client told `done' finds its question and the whole answer, and list_messages has the
\* answer after the question unless the clock was set back while the turn ran: execute_turn
\* inserts the two in this order and yields afterwards, and a later insert moves neither.
THEOREM DoneMeansStored == Spec => []DoneIsPersisted
<1>1. KeptInv => DoneIsPersisted
  <2> SUFFICES ASSUME KeptInv, NEW t \in Turn, DoneSent(t)
               PROVE  \E i, j \in DOMAIN rows : /\ IsQuestion(i, t) /\ IsAnswer(j, t)
                                                /\ t \notin setBack => Before(i, j)
    BY DEF DoneIsPersisted, DoneSent
  <2>1. rows \in Seq(Row)
    BY DEF KeptInv, StreamInv, TypeOK
  <2>2. PICK q, a \in DOMAIN rows : /\ q < a /\ IsQuestion(q, t) /\ IsAnswer(a, t)
                                    /\ t \notin setBack => rows[q].at <= rows[a].at
    BY DEF KeptInv, PersistInv, Kept
  <2>3. rows[q] \in Row /\ rows[a] \in Row
    BY <2>1
  <2>4. rows[q].at \in Nat /\ rows[a].at \in Nat
    BY <2>3 DEF Row
  <2>5. \A x, y \in Nat : x <= y => x < y \/ x = y
    OBVIOUS
  <2>6. t \notin setBack => rows[q].at < rows[a].at \/ rows[q].at = rows[a].at
    BY <2>2, <2>4, <2>5
  <2>7. t \notin setBack => Before(q, a)
    BY <2>2, <2>6 DEF Before
  <2> QED
    BY <2>2, <2>7, Zenon
<1>2. QED
  BY <1>1, KeptInvariant, PTL

\* on_turn_complete is called at most once, and just once if the client stayed and there
\* is something to tell of (the except clauses and the end of execute_turn).
THEOREM JobsHearOnce == Spec => []TurnCompletesOnce
<1>1. KeptInv => TurnCompletesOnce
  <2>1. SUFFICES ASSUME KeptInv, NEW t \in Turn
        PROVE  /\ turn[t].hooks <= 1
               /\ /\ turn[t].pc = "ended" /\ turn[t].here
                  /\ Answers(t) # {} \/ turn[t].content > 0
                  => turn[t].hooks = 1
    BY DEF TurnCompletesOnce
  <2>2. HookInv(t) /\ turn[t].content \in Nat
    BY <2>1 DEF KeptInv, StreamInv, TypeOK, TurnState
  <2>3. NoAnswer(t) => Answers(t) = {}
    BY DEF NoAnswer, Answers
  <2>4. QED
    BY <2>2, <2>3 DEF HookInv
<1>2. QED
  BY <1>1, KeptInvariant, PTL
-----------------------------------------------------------------------------
(* What the client saw *)

\* The tokens the client was sent, and the one answer that has the turn's whole content.
Tokens(t) == {i \in DOMAIN sent[t] : sent[t][i] = "token"}
OneAnswer(t) == \E i \in Answers(t) : Answers(t) = {i} /\ rows[i].text = turn[t].content

\* What the client was shown, while it stays, and what is kept of it as long as the turn's
\* database calls work.
ShownInv(t) ==
  turn[t].here =>
    /\ IsFiniteSet(Tokens(t)) /\ Cardinality(Tokens(t)) = turn[t].content
    /\ ~turn[t].broken =>
         /\ turn[t].persisted => turn[t].pc \in {"hook", "done", "finally", "closing", "ended"}
         /\ turn[t].pc \in {"hook", "done"} => turn[t].persisted
         /\ turn[t].pc = "errhook" => ~DoneSent(t)
         /\ turn[t].pc = "finally" => (turn[t].persisted <=> DoneSent(t))
         /\ turn[t].pc \notin {"touch", "hook", "done", "finally", "closing", "ended"}
              => NoAnswer(t)
         /\ turn[t].pc = "finally" => IF turn[t].persisted THEN OneAnswer(t) ELSE NoAnswer(t)
         /\ turn[t].pc \in Answered => OneAnswer(t)
         /\ turn[t].pc \in {"closing", "ended"} =>
              IF turn[t].content > 0 \/ DoneSent(t) THEN OneAnswer(t) ELSE NoAnswer(t)

\* An event is counted if it is a token, and told if the client is there.
LEMMA Counted ==
  ASSUME TypeOK, NEW t \in Turn, turn[t].here, NEW e \in Event, Yield(t, e),
         IsFiniteSet(Tokens(t)), Cardinality(Tokens(t)) = turn[t].content
  PROVE  /\ IsFiniteSet(Tokens(t)') /\ Cardinality(Tokens(t)') =
              IF e = "token" THEN turn[t].content + 1 ELSE turn[t].content
         /\ DoneSent(t)' <=> DoneSent(t) \/ e = "done"
<1>1. sent[t] \in Seq(Event) /\ sent'[t] = Append(sent[t], e)
  BY YieldTyped DEF TypeOK
<1>2. /\ DOMAIN sent'[t] = DOMAIN sent[t] \cup {Len(sent[t]) + 1}
      /\ \A i \in DOMAIN sent[t] : sent'[t][i] = sent[t][i]
      /\ sent'[t][Len(sent[t]) + 1] = e /\ Len(sent[t]) + 1 \notin DOMAIN sent[t]
  BY <1>1
<1>3. Tokens(t)' = IF e = "token" THEN Tokens(t) \cup {Len(sent[t]) + 1} ELSE Tokens(t)
  BY <1>2 DEF Tokens
<1>4. Len(sent[t]) + 1 \notin Tokens(t)
  BY <1>2 DEF Tokens
<1>5. /\ IsFiniteSet(Tokens(t) \cup {Len(sent[t]) + 1})
      /\ Cardinality(Tokens(t) \cup {Len(sent[t]) + 1}) = turn[t].content + 1
  BY <1>4, FS_AddElement
<1>6. DoneSent(t)' <=> DoneSent(t) \/ e = "done"
  BY <1>2 DEF DoneSent
<1> QED
  BY <1>3, <1>5, <1>6

\* The answer is written once.
LEMMA AnswerWritten ==
  ASSUME TypeOK, NEW t \in Turn, NoAnswer(t), Insert(AnswerRow(t)),
         turn'[t].content = turn[t].content
  PROVE  OneAnswer(t)'
<1>1. rows \in Seq(Row) /\ turn[t].content \in Nat /\ clock \in Nat
  BY TurnAssumption DEF TypeOK, TurnState
<1>2. AnswerRow(t) \in Row /\ rows' = Append(rows, AnswerRow(t))
  BY <1>1 DEF AnswerRow, Row, Insert
<1> DEFINE n == Len(rows) + 1
<1>3. /\ DOMAIN rows' = DOMAIN rows \cup {n} /\ \A i \in DOMAIN rows : rows'[i] = rows[i]
      /\ rows'[n] = AnswerRow(t)
  BY <1>1, <1>2
<1> HIDE DEF n
<1>4. Answers(t)' = {n} /\ rows'[n].text = turn'[t].content
  BY <1>3 DEF Answers, AnswerRow, NoAnswer
<1> QED
  BY <1>4 DEF OneAnswer

\* Rows of others leave it alone.
LEMMA AnswerStays ==
  ASSUME TypeOK, NEW t \in Turn, NEW u \in Turn, t # u, Grows(u),
         turn'[t].content = turn[t].content, OneAnswer(t)
  PROVE  OneAnswer(t)'
<1>1. rows \in Seq(Row)
  BY DEF TypeOK
<1>2. Answers(t)' = Answers(t) /\ \A i \in Answers(t) : rows'[i] = rows[i]
  <2>1. CASE rows' = rows
    BY <2>1 DEF Answers
  <2>2. CASE rows' # rows
    <3>1. PICK row \in Row : row.turn = u /\ rows' = Append(rows, row)
      BY <2>2 DEF Grows
    <3>2. /\ DOMAIN rows' = DOMAIN rows \cup {Len(rows) + 1} /\ \A i \in DOMAIN rows : rows'[i] = rows[i]
          /\ rows'[Len(rows) + 1] = row
      BY <1>1, <3>1
    <3> QED
      BY <3>1, <3>2 DEF Answers
  <2> QED
    BY <2>1, <2>2
<1> QED
  BY <1>2 DEF OneAnswer

\* A step of turn t keeps what is known of t.
LEMMA TurnShows ==
  ASSUME StreamInv, NEW t \in Turn, HookInv(t), ShownInv(t),
         Accept(t) \/ TurnStep(t) \/ Disconnect(t), UNCHANGED timeVars
  PROVE  ShownInv(t)'
<1>0. TypeOK /\ turn \in [Turn -> TurnState] /\ turn[t] \in TurnState
  BY DEF StreamInv, TypeOK
<1>1. CASE ~turn'[t].here
  BY <1>1 DEF ShownInv
<1>2. CASE turn'[t].here
  <2>1. turn[t].here /\ (Accept(t) \/ TurnStep(t))
    <3>1. Disconnect(t) => ~turn'[t].here
      BY <1>0 DEF Disconnect, TurnState
    <3>2. turn'[t].here = turn[t].here
      BY <1>0, <1>2, <3>1, TurnStepMoves DEF Accept, Goto, TurnState
    <3> QED
      BY <1>2, <3>1, <3>2
  <2>2. /\ rows' = rows /\ turn'[t].content = turn[t].content => (OneAnswer(t) => OneAnswer(t)')
        /\ rows' = rows => (NoAnswer(t) => NoAnswer(t)')
        /\ sent' = sent => Tokens(t)' = Tokens(t) /\ (DoneSent(t)' <=> DoneSent(t))
    BY DEF OneAnswer, Answers, NoAnswer, Tokens, DoneSent
  <2>3. /\ Insert(UserRow(t)) \/ InsertRaises(UserRow(t)) => (NoAnswer(t) => NoAnswer(t)')
    BY <1>0, InsertGrows
  <2>4. ASSUME NEW e \in Event, Yield(t, e)
        PROVE  /\ IsFiniteSet(Tokens(t)') /\ Cardinality(Tokens(t)') =
                    IF e = "token" THEN turn[t].content + 1 ELSE turn[t].content
               /\ DoneSent(t)' <=> DoneSent(t) \/ e = "done"
    BY <1>0, <2>1, <2>4, Counted DEF ShownInv
  <2>5. Insert(AnswerRow(t)) /\ NoAnswer(t) /\ turn'[t].content = turn[t].content => OneAnswer(t)'
    BY <1>0, AnswerWritten
  <2>6. DoneSent(t) => turn[t].pc \in Late
    BY DoneIsLate
  <2>7. Event = {"token", "model_loading", "done", "error"}
    BY DEF Event, Terminal
  <2> USE <1>0, <2>1, <2>2 DEF ShownInv, Goto, Raise, RaiseFromDatabase, TurnState, Answered
  <2>8. CASE Accept(t)
    BY <2>8 DEF Accept
  <2>9. CASE LookUp(t)
    BY <2>4, <2>6, <2>7, <2>9 DEF LookUp, HookInv, Late
  <2>10. CASE Route(t) \/ RequestCompletion(t)
    BY <2>10 DEF Route, RequestCompletion
  <2>11. CASE PersistUser(t)
    BY <2>3, <2>11 DEF PersistUser
  <2>12. CASE Refuse(t)
    BY <2>4, <2>6, <2>7, <2>12 DEF Refuse, Late
  <2>13. CASE Loading(t)
    BY <2>4, <2>7, <2>13 DEF Loading
  <2>14. CASE Delta(t)
    BY <2>4, <2>7, <2>14 DEF Delta
  <2>15. CASE EndOfAnswer(t) \/ ModelFails(t)
    BY <2>15 DEF EndOfAnswer, ModelFails
  <2>16. CASE PersistAnswer(t)
    BY <2>5, <2>16 DEF PersistAnswer
  <2>17. CASE TouchChat(t) \/ TurnComplete(t)
    BY <2>17 DEF TouchChat, TurnComplete
  <2>18. CASE YieldDone(t)
    BY <2>4, <2>7, <2>18 DEF YieldDone
  <2>19. CASE YieldError(t)
    BY <2>4, <2>6, <2>7, <2>19 DEF YieldError, Late
  <2>20. CASE TurnCompleteAfterError(t)
    BY <2>20 DEF TurnCompleteAfterError
  <2>21. CASE PersistPartial(t)
    BY <2>5, <2>21 DEF PersistPartial
  <2>22. CASE Fallback(t)
    BY <2>4, <2>7, <2>22 DEF Fallback
  <2>23. CASE CloseStream(t)
    BY <2>23 DEF CloseStream
  <2> QED
    BY <2>1, <2>8, <2>9, <2>10, <2>11, <2>12, <2>13, <2>14, <2>15, <2>16, <2>17, <2>18,
       <2>19, <2>20, <2>21, <2>22, <2>23 DEF TurnStep
<1> QED
  BY <1>1, <1>2

\* So do the steps of the others, and a crash.
LEMMA ShownStep ==
  ASSUME KeptInv, \A t \in Turn : ShownInv(t), [Next]_vars
  PROVE  (\A t \in Turn : ShownInv(t))'
<1>1. StreamInv /\ TypeOK /\ turn \in [Turn -> TurnState]
  BY DEF KeptInv, StreamInv, TypeOK
<1>2. CASE UNCHANGED vars
  BY <1>2 DEF vars, ShownInv, NoAnswer, OneAnswer, Answers, DoneSent, Tokens
<1>3. ASSUME NEW t \in Turn, Accept(t) \/ TurnStep(t) \/ Disconnect(t), UNCHANGED timeVars,
             NEW u \in Turn \ {t}
      PROVE  ShownInv(u)'
  <2>1. Grows(t)
    BY <1>1, <1>3, TurnKeeps DEF KeptInv
  <2>2. turn'[u] = turn[u] /\ sent'[u] = sent[u]
    BY <1>1, <1>3, OthersStay
  <2>3. (NoAnswer(u) => NoAnswer(u)') /\ (OneAnswer(u) => OneAnswer(u)')
    BY <1>1, <1>3, <2>1, <2>2, RowsStay, AnswerStays
  <2>4. Tokens(u)' = Tokens(u) /\ (DoneSent(u)' <=> DoneSent(u))
    BY <2>2 DEF Tokens, DoneSent
  <2> QED
    BY <2>2, <2>3, <2>4 DEF ShownInv
<1>4. ASSUME NEW t \in Turn, Accept(t) \/ TurnStep(t) \/ Disconnect(t), UNCHANGED timeVars
      PROVE  ShownInv(t)'
  BY <1>1, <1>4, TurnShows DEF KeptInv
<1>5. CASE Crash /\ UNCHANGED timeVars
  <2>1. ASSUME NEW u \in Turn, turn'[u].here
        PROVE  turn'[u] = turn[u]
    <3>1. turn'[u] = IF Active(u) THEN [turn[u] EXCEPT !.pc = "ended", !.here = FALSE] ELSE turn[u]
      BY <1>5 DEF Crash
    <3>2. ~Active(u)
      BY <1>1, <2>1, <3>1 DEF TurnState
    <3> QED
      BY <3>1, <3>2
  <2> QED
    <3> SUFFICES ASSUME NEW u \in Turn, turn'[u].here PROVE ShownInv(u)'
      BY DEF ShownInv
    <3>1. turn'[u] = turn[u] /\ rows' = rows /\ sent' = sent
      BY <1>5, <2>1 DEF Crash
    <3>2. /\ NoAnswer(u)' <=> NoAnswer(u)
          /\ OneAnswer(u)' <=> OneAnswer(u)
          /\ DoneSent(u)' <=> DoneSent(u)
          /\ Tokens(u)' = Tokens(u)
      BY <3>1 DEF NoAnswer, OneAnswer, Answers, DoneSent, Tokens
    <3> QED
      BY <3>1, <3>2 DEF ShownInv
<1>6. CASE SetClock
  BY <1>6 DEF SetClock, ShownInv, NoAnswer, OneAnswer, Answers, DoneSent, Tokens
<1> QED
  BY <1>2, <1>3, <1>4, <1>5, <1>6 DEF Next

\* What the client saw is kept, and kept once: for any number of turns in one chat and any
\* number of tokens, a turn whose client stayed and whose database calls worked leaves one
\* answer with just the tokens that were shown, or none if nothing was.
THEOREM ShownStaysKept == Spec => []ShownIsKept
<1>1. Init => \A t \in Turn : ShownInv(t)
  <2> SUFFICES ASSUME Init, NEW t \in Turn PROVE ShownInv(t)
    OBVIOUS
  <2>1. Tokens(t) = {} /\ NoAnswer(t) /\ turn[t] = NewTurn
    BY DEF Init, Tokens, NoAnswer
  <2> QED
    BY <2>1, FS_EmptySet DEF ShownInv, NewTurn, Answered
<1>2. KeptInv /\ (\A t \in Turn : ShownInv(t)) => ShownIsKept
  <2> SUFFICES ASSUME KeptInv, NEW t \in Turn, ShownInv(t),
                      turn[t].pc = "ended", turn[t].here, ~turn[t].broken
               PROVE  IF Cardinality(Tokens(t)) > 0 \/ DoneSent(t)
                        THEN \E i \in Answers(t) :
                               Answers(t) = {i} /\ rows[i].text = Cardinality(Tokens(t))
                        ELSE Answers(t) = {}
    BY DEF ShownIsKept, Tokens, DoneSent
  <2>1. NoAnswer(t) => Answers(t) = {}
    BY DEF NoAnswer, Answers
  <2> QED
    BY <2>1 DEF ShownInv, OneAnswer
<1>3. KeptInv /\ (\A t \in Turn : ShownInv(t)) /\ [Next]_vars => (\A t \in Turn : ShownInv(t))'
  BY ShownStep
<1> QED
  BY <1>1, <1>2, <1>3, KeptInvariant, PTL DEF Spec
==============================================================================
