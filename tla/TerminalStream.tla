---------------------------- MODULE TerminalStream ----------------------------
(***************************************************************************)
(* What the chat API promises of an answer stream (chat/api.py's golden    *)
(* rule): while the client listens, events arrive one at a time, `done' or *)
(* `error' comes exactly once, nothing follows it, and the stream closes   *)
(* only after it.  A client may go away at any time; then nothing more is  *)
(* sent.                                                                   *)
(***************************************************************************)
EXTENDS Sequences

CONSTANT Stream

VARIABLES
  sent,    \* the events sent on each stream, in order
  stage    \* whether it is not yet open, open, closed by the server, or left

Terminal == {"done", "error"}
Event == {"token", "model_loading"} \cup Terminal
HasTerminal(s) == \E i \in DOMAIN s : s[i] \in Terminal

Open(x) ==
  /\ stage[x] = "new"
  /\ stage' = [stage EXCEPT ![x] = "open"]
  /\ UNCHANGED sent

Send(x) ==
  /\ stage[x] = "open"
  /\ ~HasTerminal(sent[x])
  /\ \E e \in Event : sent' = [sent EXCEPT ![x] = Append(@, e)]
  /\ UNCHANGED stage

Close(x) ==
  /\ stage[x] = "open"
  /\ HasTerminal(sent[x])
  /\ stage' = [stage EXCEPT ![x] = "closed"]
  /\ UNCHANGED sent

\* The client closes the connection, or the server dies: any number of streams.
Leave ==
  /\ \E gone \in SUBSET Stream :
       /\ \A x \in gone : stage[x] = "open"
       /\ stage' = [x \in Stream |-> IF x \in gone THEN "left" ELSE stage[x]]
  /\ UNCHANGED sent

Init ==
  /\ sent = [x \in Stream |-> <<>>]
  /\ stage = [x \in Stream |-> "new"]

Next == (\E x \in Stream : Open(x) \/ Send(x) \/ Close(x)) \/ Leave

Spec == Init /\ [][Next]_<<sent, stage>>
==============================================================================
