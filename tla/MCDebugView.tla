----------------------------- MODULE MCDebugView -----------------------------
(* Instances of DebugView, of the reader of its stream, and of what its panel     *)
(* draws: a behaviour is of the page, of the reader, or of one input to the panel *)
(* while the page has not been visited.                                           *)
EXTENDS DebugView, SseReader, SummaryPanel, TLC

CONSTANTS t1, t2, c1, c2

VARIABLE input

\* A turn of one chat and a background job of another.
MCChatOf == t1 :> c1 @@ t2 :> c2

NoInput == [of |-> "nothing"]
Inputs == [of : {"chat"}, chat : Chats]

mcVars == <<vars, readerVars, input>>

MCInit == Init /\ ReaderInit /\ input = NoInput

MCNext ==
  \/ reading = "none" /\ input = NoInput /\ Next /\ UNCHANGED <<readerVars, input>>
  \/ Init /\ input = NoInput /\ ReaderNext /\ UNCHANGED <<vars, input>>
  \/ Init /\ reading = "none" /\ input = NoInput /\ input' \in Inputs
       /\ UNCHANGED <<vars, readerVars>>

MCSpec == MCInit /\ [][MCNext]_mcVars

\* The bar, the badges and the summary that the server submits agree, for every chat.
DueBarIsFull == input.of = "chat" => BarIsFullWhenDue(input.chat)
==============================================================================
