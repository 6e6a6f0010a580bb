------------------------------- MODULE ChatTurn -------------------------------
(***************************************************************************)
(* Chat turns: send_message's event_stream around execute_turn, for turns  *)
(* of one chat that may run at the same time.  A step runs to the next     *)
(* suspension: a database call, the model's next delta, or a yield of an   *)
(* event to the client.  Any database call may raise, and the client may   *)
(* go away at any of these points, which cancels the turn there.  Rows are *)
(* stamped by the wall clock, in seconds, and listed by their stamps; the  *)
(* clock may be set forward or back at any time.                           *)
(*                                                                         *)
(* The text of an answer is the number of tokens it is made of.  Tracing   *)
(* spans swallow their own failures and are left out; what the prompt is   *)
(* made from is RollingSummary's.                                          *)
(***************************************************************************)
EXTENDS Naturals, Sequences, FiniteSets, SequencesExt

CONSTANTS
  Turn,        \* requests to POST /api/chats/{id}/messages
  MaxTokens,   \* bound on the content deltas of one answer (max_tokens)
  MaxTime      \* bound on the readings of the wall clock

ASSUME TurnAssumption == MaxTokens \in Nat /\ MaxTime \in Nat

VARIABLES
  rows,     \* the chat's messages by rowid, the order they were inserted in
  turn,     \* the local variables of execute_turn, and its client
  sent,     \* the events event_stream has yielded to a client still there
  clock,    \* _now(): the wall clock, in seconds
  setBack   \* the turns during which the clock was set back

vars == <<rows, turn, sent, clock, setBack>>
timeVars == <<clock, setBack>>
-----------------------------------------------------------------------------
PC == {"idle", "open", "route", "user", "read", "refuse", "first", "stream",
       "insert", "touch", "hook", "done", "raised", "errhook", "finally",
       "closing", "ended"}
TurnState == [pc : PC, here : BOOLEAN, content : Nat, warned : BOOLEAN,
              persisted : BOOLEAN, hooks : Nat, broken : BOOLEAN]   \* hooks: calls of on_turn_complete
NewTurn == [pc |-> "idle", here |-> TRUE, content |-> 0, warned |-> FALSE,
            persisted |-> FALSE, hooks |-> 0, broken |-> FALSE]

Row == [turn : Turn, role : {"user", "assistant"}, text : Nat, at : Nat]   \* at: created_at
UserRow(t) == [turn |-> t, role |-> "user", text |-> 0, at |-> clock]
AnswerRow(t) == [turn |-> t, role |-> "assistant", text |-> turn[t].content, at |-> clock]

\* Mutant: list_messages orders by created_at only.
BeforeInTime(i, j) == rows[i].at < rows[j].at

\* list_messages: ORDER BY created_at, rowid.
Before(i, j) == rows[i].at < rows[j].at \/ (rows[i].at = rows[j].at /\ i < j)

Terminal == {"done", "error"}
Event == {"token", "model_loading"} \cup Terminal
TerminalSent(t) == \E i \in DOMAIN sent[t] : sent[t][i] \in Terminal

Active(t) == turn[t].pc \notin {"idle", "ended"}
Goto(t, pc) == turn' = [turn EXCEPT ![t].pc = pc]
Yield(t, e) == sent' = [sent EXCEPT ![t] = IF turn[t].here THEN Append(@, e) ELSE @]

\* insert_message by turn t: the row is there, and the call returns ...
Insert(row) == rows' = Append(rows, row)
\* ... or it raises, at the INSERT or only at the commit: the connection is
\* shared, so every later reader and commit still sees the row.
InsertRaises(row) == rows' \in {rows, Append(rows, row)}

\* An exception in the try block goes to one of the except clauses; `broken'
\* remembers that it was the database's.
Raise(t) == Goto(t, "raised")
RaiseFromDatabase(t) == turn' = [turn EXCEPT ![t].pc = "raised", ![t].broken = TRUE]
-----------------------------------------------------------------------------
(* execute_turn *)

\* send_message found the chat and the model; the response starts.
Accept(t) ==
  /\ turn[t].pc = "idle"
  /\ Goto(t, "open")
  /\ UNCHANGED <<rows, sent>>

\* get_chat: before the try, so a missing chat yields its error and returns, and
\* a database error leaves the stream to event_stream's finally.
LookUp(t) ==
  /\ turn[t].pc = "open"
  /\ \/ Goto(t, "route") /\ UNCHANGED sent
     \/ Goto(t, "closing") /\ Yield(t, "error")
     \/ Goto(t, "closing") /\ UNCHANGED sent
  /\ UNCHANGED rows

Route(t) ==
  /\ turn[t].pc = "route"
  /\ Goto(t, "user") \/ Raise(t)
  /\ UNCHANGED <<rows, sent>>

PersistUser(t) ==
  /\ turn[t].pc = "user"
  /\ \/ Insert(UserRow(t)) /\ Goto(t, "read")
     \/ InsertRaises(UserRow(t)) /\ RaiseFromDatabase(t)
  /\ UNCHANGED sent

\* _request_completion: the prompt fits and the request is made, or it does not.
RequestCompletion(t) ==
  /\ turn[t].pc = "read"
  /\ \/ Goto(t, "first")
     \/ Goto(t, "refuse")
     \/ RaiseFromDatabase(t)
  /\ UNCHANGED <<rows, sent>>

\* The refused turn queues a summary (once, best effort) and yields its error.
Refuse(t) ==
  /\ turn[t].pc = "refuse"
  /\ Yield(t, "error")
  /\ Goto(t, "finally")
  /\ UNCHANGED rows

\* Mutant: a late first delta is warned about, over and over, and never given up.
LoadingForever(t) ==
  /\ turn[t].pc = "first"
  /\ turn' = [turn EXCEPT ![t].warned = ~@]
  /\ UNCHANGED <<rows, sent>>

\* stream_with_loading warns once while the first delta is pending; the client
\* sees it only if llama-swap reported the model unloaded.
Loading(t) ==
  /\ turn[t].pc = "first"
  /\ ~turn[t].warned
  /\ turn' = [turn EXCEPT ![t].warned = TRUE]
  /\ Yield(t, "model_loading") \/ UNCHANGED sent
  /\ UNCHANGED rows

\* A delta with content is kept and yielded; one without (reasoning, usage) only
\* ends the wait for the first.
Delta(t) ==
  /\ turn[t].pc \in {"first", "stream"}
  /\ \/ /\ turn[t].content < MaxTokens
        /\ turn' = [turn EXCEPT ![t].pc = "stream", ![t].content = @ + 1]
        /\ Yield(t, "token")
     \/ /\ turn[t].pc = "first"
        /\ Goto(t, "stream")
        /\ UNCHANGED sent
  /\ UNCHANGED rows

\* [DONE], or just the end of the response.
EndOfAnswer(t) ==
  /\ turn[t].pc \in {"first", "stream"}
  /\ Goto(t, "insert")
  /\ UNCHANGED <<rows, sent>>

\* LLMError, first_token_timeout, or anything else raised while streaming.
ModelFails(t) ==
  /\ turn[t].pc \in {"first", "stream"}
  /\ Raise(t)
  /\ UNCHANGED <<rows, sent>>

PersistAnswer(t) ==
  /\ turn[t].pc = "insert"
  /\ \/ Insert(AnswerRow(t)) /\ Goto(t, "touch")
     \/ InsertRaises(AnswerRow(t)) /\ RaiseFromDatabase(t)
  /\ UNCHANGED sent

\* touch_chat is a call of its own, and only after it is the answer `persisted'.
TouchChat(t) ==
  /\ turn[t].pc = "touch"
  /\ \/ turn' = [turn EXCEPT ![t].pc = "hook", ![t].persisted = TRUE]
     \/ RaiseFromDatabase(t)
  /\ UNCHANGED <<rows, sent>>

\* on_turn_complete, which never raises.
TurnComplete(t) ==
  /\ turn[t].pc = "hook"
  /\ turn' = [turn EXCEPT ![t].pc = "done", ![t].hooks = @ + 1]
  /\ UNCHANGED <<rows, sent>>

\* Mutant: done is yielded before the answer is written.
YieldDoneEarly(t) ==
  /\ turn[t].pc \in {"insert", "done"}
  /\ Yield(t, "done")
  /\ Goto(t, "finally")
  /\ UNCHANGED rows

YieldDone(t) ==
  /\ turn[t].pc = "done"
  /\ Yield(t, "done")
  /\ Goto(t, "finally")
  /\ UNCHANGED rows

\* The three except clauses: an error event, then on_turn_complete.
YieldError(t) ==
  /\ turn[t].pc = "raised"
  /\ Yield(t, "error")
  /\ Goto(t, "errhook")
  /\ UNCHANGED rows

\* Mutant: the except clauses forget on_turn_complete.
NoTurnCompleteAfterError(t) ==
  /\ turn[t].pc = "errhook"
  /\ Goto(t, "finally")
  /\ UNCHANGED <<rows, sent>>

TurnCompleteAfterError(t) ==
  /\ turn[t].pc = "errhook"
  /\ turn' = [turn EXCEPT ![t].pc = "finally", ![t].hooks = @ + 1]
  /\ UNCHANGED <<rows, sent>>

\* Mutant: an answer that was cut off is not written.
DropPartial(t) ==
  /\ turn[t].pc = "finally"
  /\ Goto(t, "closing")
  /\ UNCHANGED <<rows, sent>>

\* The finally block writes what was streamed unless the answer was `persisted',
\* and swallows a failure to.  In a cancelled turn the call may be cancelled again
\* before an executor thread has picked it up.
PersistPartial(t) ==
  /\ turn[t].pc = "finally"
  /\ IF turn[t].persisted \/ turn[t].content = 0
       THEN /\ Goto(t, "closing")
            /\ UNCHANGED rows
       ELSE \/ Insert(AnswerRow(t)) /\ Goto(t, "closing")
            \/ /\ InsertRaises(AnswerRow(t))
               /\ turn' = [turn EXCEPT ![t].pc = "closing", ![t].broken = TRUE]
  /\ UNCHANGED sent
-----------------------------------------------------------------------------
(* event_stream *)

\* Mutant: the fallback does not look at terminal_sent.
FallbackAlways(t) ==
  /\ turn[t].pc = "closing"
  /\ Len(sent[t]) < MaxTokens + 4
  /\ Yield(t, "error")
  /\ UNCHANGED <<rows, turn>>

\* The single enforcement point of the golden rule.
Fallback(t) ==
  /\ turn[t].pc = "closing"
  /\ turn[t].here
  /\ ~TerminalSent(t)
  /\ Yield(t, "error")
  /\ UNCHANGED <<rows, turn>>

CloseStream(t) ==
  /\ turn[t].pc = "closing"
  /\ turn[t].here => TerminalSent(t)
  /\ Goto(t, "ended")
  /\ UNCHANGED <<rows, sent>>

\* The client goes away.  Before the try block and after the finally there is
\* nothing left to do; elsewhere the turn is cancelled where it is, and a call
\* already given to the database is carried out or not.
Disconnect(t) ==
  /\ Active(t)
  /\ turn[t].here
  /\ \E pc \in {"finally", "closing"} :
       /\ pc = "closing" <=> turn[t].pc \in {"open", "closing"}
       /\ turn' = [turn EXCEPT ![t].here = FALSE, ![t].pc = pc]
  /\ CASE turn[t].pc = "user"   -> InsertRaises(UserRow(t))
       [] turn[t].pc = "insert" -> InsertRaises(AnswerRow(t))
       [] turn[t].pc \notin {"user", "insert"} -> UNCHANGED rows
  /\ UNCHANGED sent

\* The process dies; every client sees its connection break.
Crash ==
  /\ \E t \in Turn : Active(t)
  /\ turn' = [t \in Turn |-> IF Active(t) THEN [turn[t] EXCEPT !.pc = "ended", !.here = FALSE]
                                          ELSE turn[t]]
  /\ UNCHANGED <<rows, sent>>

\* Somebody, or the time service, sets the clock.
SetClock ==
  /\ clock' \in (0..MaxTime) \ {clock}
  /\ setBack' = IF clock' < clock THEN setBack \cup {t \in Turn : Active(t)} ELSE setBack
  /\ UNCHANGED <<rows, turn, sent>>

TurnStep(t) ==
  \/ LookUp(t) \/ Route(t) \/ PersistUser(t) \/ RequestCompletion(t) \/ Refuse(t)
  \/ Loading(t) \/ Delta(t) \/ EndOfAnswer(t) \/ ModelFails(t)
  \/ PersistAnswer(t) \/ TouchChat(t) \/ TurnComplete(t) \/ YieldDone(t)
  \/ YieldError(t) \/ TurnCompleteAfterError(t) \/ PersistPartial(t)
  \/ Fallback(t) \/ CloseStream(t)

Init ==
  /\ rows = <<>>
  /\ turn = [t \in Turn |-> NewTurn]
  /\ sent = [t \in Turn |-> <<>>]
  /\ clock \in 0..MaxTime
  /\ setBack = {}

Next ==
  \/ /\ (\E t \in Turn : Accept(t) \/ TurnStep(t) \/ Disconnect(t)) \/ Crash
     /\ UNCHANGED timeVars
  \/ SetClock

\* The event loop runs every turn it has: database calls return or raise, and the
\* model answers, fails or times out (first_token_timeout_s, the client's timeout).
Fairness == \A t \in Turn : WF_vars(TurnStep(t) /\ UNCHANGED timeVars)

Spec == Init /\ [][Next]_vars
FairSpec == Spec /\ Fairness
-----------------------------------------------------------------------------
(* Properties *)

TypeOK ==
  /\ rows \in Seq(Row)
  /\ turn \in [Turn -> TurnState]
  /\ sent \in [Turn -> Seq(Event)]
  /\ clock \in 0..MaxTime
  /\ setBack \subseteq Turn

\* The golden rule, as the abstract stream states it.
Stage(t) ==
  IF turn[t].pc = "idle" THEN "new"
  ELSE IF ~turn[t].here THEN "left"
  ELSE IF turn[t].pc = "ended" THEN "closed" ELSE "open"
Golden == INSTANCE TerminalStream WITH Stream <- Turn, stage <- [t \in Turn |-> Stage(t)]
GoldenRule == Golden!Spec

Answers(t) == {i \in DOMAIN rows : rows[i].turn = t /\ rows[i].role = "assistant"}

IsQuestion(i, t) == rows[i].turn = t /\ rows[i].role = "user"
IsAnswer(i, t) == rows[i].turn = t /\ rows[i].role = "assistant" /\ rows[i].text = turn[t].content

\* A client told `done' can reload the chat and find its question and the whole
\* answer; and list_messages has the answer after the question, unless the clock was
\* set back while the turn ran.
DoneIsPersisted ==
  \A t \in Turn :
    (\E i \in DOMAIN sent[t] : sent[t][i] = "done") =>
      \E i, j \in DOMAIN rows :
        /\ IsQuestion(i, t) /\ IsAnswer(j, t)
        /\ t \notin setBack => Before(i, j)

\* What the client saw is kept: a turn whose client stayed and whose database calls
\* worked leaves exactly one answer, with every token the client was shown, if it
\* was shown any or was told `done'; a turn that failed before leaves none.
ShownIsKept ==
  \A t \in Turn :
    turn[t].pc = "ended" /\ turn[t].here /\ ~turn[t].broken =>
      LET shown == Cardinality({i \in DOMAIN sent[t] : sent[t][i] = "token"})
          done == \E i \in DOMAIN sent[t] : sent[t][i] = "done"
      IN IF shown > 0 \/ done
           THEN \E i \in Answers(t) : Answers(t) = {i} /\ rows[i].text = shown
           ELSE Answers(t) = {}

\* Whatever way a turn ends, the background jobs hear of it at most once, and just
\* once if its client stayed and any of an answer was streamed or stored.
TurnCompletesOnce ==
  \A t \in Turn :
    /\ turn[t].hooks <= 1
    /\ /\ turn[t].pc = "ended" /\ turn[t].here
       /\ Answers(t) # {} \/ turn[t].content > 0
       => turn[t].hooks = 1

\* Every accepted turn comes to an end.
TurnEnds == \A t \in Turn : Active(t) ~> turn[t].pc = "ended"

\* What list_messages' docstring says, "oldest first", of an answer that was told
\* `done': it is listed after its question, whatever the clock did.
OldestFirst ==
  \A t \in Turn :
    (\E i \in DOMAIN sent[t] : sent[t][i] = "done") =>
      \E i, j \in DOMAIN rows : IsQuestion(i, t) /\ IsAnswer(j, t) /\ Before(i, j)

\* What the manual test plan states of concurrent database work: no duplicate
\* messages.
NoDuplicateAnswer == \A t \in Turn : Cardinality(Answers(t)) <= 1
==============================================================================
