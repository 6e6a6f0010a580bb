------------------------------ MODULE SseReader ------------------------------
(***************************************************************************)
(* How the web client reads a stream of server-sent events (api.ts         *)
(* readSseStream): the network cuts the stream into chunks wherever it     *)
(* likes and may break it off, and the signal may be aborted at any time.  *)
(* One read after another is followed, each from its response to what it   *)
(* returns.                                                                *)
(***************************************************************************)
EXTENDS Naturals, Sequences, SequencesExt

CONSTANT MaxBlocks  \* bound on the blocks of a stream

ASSUME ReaderAssumption == MaxBlocks \in Nat

\* A comment has no data lines.
Block == {"comment", "data", "done", "error"}
Streams == SeqOf(Block, MaxBlocks)

\* The i-th block comes in two pieces: 2 * i - 1, its lines, and 2 * i, the empty line.
LinesOf(i) == 2 * i - 1
IsEmptyLine(piece) == piece % 2 = 0

VARIABLES
  blocks,           \* server: the stream
  requireTerminal,  \* the stream of a chat; FALSE for the debug stream
  arrived,          \* how many of its pieces have come
  buf,              \* those that are not handled yet
  handled,          \* the calls of onEvent: the blocks whose data each had
  terminal,
  aborted,          \* the signal
  lost,             \* onConnectionLost has been called
  reading           \* where the reader stands, or what it has returned

readerVars == <<blocks, requireTerminal, arrived, buf, handled, terminal, aborted, lost, reading>>
response == <<blocks, requireTerminal>>
read == <<arrived, buf, handled, terminal>>
-----------------------------------------------------------------------------
Terminal == {"done", "error"}
Returned == Terminal \cup {"lost", "aborted"}
Stage == {"none", "checking", "waiting", "handling"} \cup Returned
Idle == reading \in Returned \cup {"none"}

Start(stream, required) ==
  /\ Idle
  /\ blocks' = stream /\ requireTerminal' = required
  /\ arrived' = 0 /\ buf' = <<>> /\ handled' = <<>> /\ terminal' = "none"
  /\ aborted' = FALSE

Respond(stream, required) ==
  /\ Start(stream, required)
  /\ lost' = FALSE
  /\ reading' = "checking"

\* `!res.ok || !res.body'
NotOk(required) ==
  /\ Start(<<>>, required)
  /\ lost' = TRUE
  /\ reading' = "lost"

Abort ==
  /\ ~Idle /\ ~aborted
  /\ aborted' = TRUE
  /\ UNCHANGED <<response, read, lost, reading>>

\* The top of the loop.
Check ==
  /\ reading = "checking"
  /\ reading' = IF aborted THEN "aborted" ELSE "waiting"
  /\ UNCHANGED <<response, read, aborted, lost>>

\* Mutant: each chunk is read by itself.
ArrivesAlone(n) ==
  /\ reading = "waiting"
  /\ arrived + n <= 2 * Len(blocks)
  /\ arrived' = arrived + n
  /\ buf' = [k \in 1..n |-> arrived + k]
  /\ reading' = "handling"
  /\ UNCHANGED <<response, handled, terminal, aborted, lost>>

\* A chunk comes, of n pieces.
Arrives(n) ==
  /\ reading = "waiting"
  /\ arrived + n <= 2 * Len(blocks)
  /\ arrived' = arrived + n
  /\ buf' = buf \o [k \in 1..n |-> arrived + k]
  /\ reading' = "handling"
  /\ UNCHANGED <<response, handled, terminal, aborted, lost>>

\* The blocks whose data lines are among the lines of a piece of the buffer.
parseBlock(lines) ==
  {i \in DOMAIN blocks : blocks[i] # "comment" /\ Contains(lines, LinesOf(i))}

\* The part of the buffer before the first empty line is handled.
HandleBlock ==
  /\ reading = "handling"
  /\ \E sep \in DOMAIN buf :
       /\ IsEmptyLine(buf[sep]) /\ \A k \in 1..(sep - 1) : ~IsEmptyLine(buf[k])
       /\ LET parsed == parseBlock(SubSeq(buf, 1, sep - 1))
              ends == {blocks[i] : i \in parsed} \cap Terminal
          IN /\ handled' = IF parsed = {} THEN handled ELSE Append(handled, parsed)
             /\ terminal' \in IF ends = {} THEN {terminal} ELSE ends
       /\ buf' = SubSeq(buf, sep + 1, Len(buf))
  /\ UNCHANGED <<response, arrived, aborted, lost, reading>>

NoBlock ==
  /\ reading = "handling"
  /\ \A k \in DOMAIN buf : ~IsEmptyLine(buf[k])
  /\ reading' = "checking"
  /\ UNCHANGED <<response, read, aborted, lost>>

\* Mutant: a stream that just ends is taken to be done.
EndsDone ==
  /\ reading = "waiting"
  /\ reading' = IF terminal = "none" THEN "done" ELSE terminal
  /\ UNCHANGED <<response, read, aborted, lost>>

Return ==
  /\ reading' = IF terminal = "none" THEN "lost" ELSE terminal
  /\ lost' = (requireTerminal /\ terminal = "none")

\* The server or a proxy closes the stream, or onAbort has cancelled it.
Ends ==
  /\ reading = "waiting"
  /\ Return
  /\ UNCHANGED <<response, read, aborted>>

Fails ==
  /\ reading = "waiting"
  /\ IF aborted THEN reading' = "aborted" /\ UNCHANGED lost ELSE Return
  /\ UNCHANGED <<response, read, aborted>>

ReaderInit ==
  /\ blocks = <<>> /\ requireTerminal = FALSE
  /\ arrived = 0 /\ buf = <<>> /\ handled = <<>> /\ terminal = "none"
  /\ aborted = FALSE /\ lost = FALSE
  /\ reading = "none"

ReaderNext ==
  \/ \E stream \in Streams, required \in BOOLEAN : Respond(stream, required)
  \/ \E required \in BOOLEAN : NotOk(required)
  \/ Abort \/ Check
  \/ \E n \in 1..2 * MaxBlocks : Arrives(n)
  \/ HandleBlock \/ NoBlock \/ Ends \/ Fails

ReaderSpec == ReaderInit /\ [][ReaderNext]_readerVars
-----------------------------------------------------------------------------
(* Properties *)

\* The blocks that have come whole.
Whole == {i \in 1..arrived : 2 * i <= arrived}
Data(indexes) == {i \in indexes : blocks[i] # "comment"}
Told == UNION {handled[k] : k \in DOMAIN handled}

ReaderTypeOK ==
  /\ blocks \in Streams /\ requireTerminal \in BOOLEAN
  /\ arrived \in 0..2 * Len(blocks)
  /\ buf \in Seq(1..arrived) /\ handled \in Seq(SUBSET DOMAIN blocks)
  /\ terminal \in Terminal \cup {"none"}
  /\ aborted \in BOOLEAN /\ lost \in BOOLEAN
  /\ reading \in Stage

\* Where the network cuts the stream makes no difference: every block that came whole is
\* handled once, in order and by itself, and nothing else is.
ChunksDoNotMatter ==
  /\ \A k \in DOMAIN handled : \E i \in Whole : handled[k] = {i}
  /\ \A j, k \in DOMAIN handled : j < k => \A a \in handled[j], b \in handled[k] : a < b
  /\ reading # "handling" => Told = Data(Whole)

\* A chat's stream is done only if the server said so, and the user is told that the
\* connection is lost exactly when that is the result, never when the answer was ended.
LostIsTold ==
  /\ reading \in Terminal => \E i \in Whole : blocks[i] = reading
  /\ requireTerminal => (lost <=> reading = "lost")
  /\ lost => \A i \in Whole : blocks[i] \notin Terminal

\* A stream that keeps the golden rule has one terminal event, and nothing after it.
Golden == \A i \in DOMAIN blocks : blocks[i] \in Terminal => Data((i + 1)..Len(blocks)) = {}

\* Of such a stream nothing is missing once the reader says that it is done.
DoneIsWhole == Golden /\ reading \in Terminal => Told = Data(DOMAIN blocks)

\* Whatever the network does, the client handles what came and says how it ended.
StreamIsReadWhole == ChunksDoNotMatter /\ LostIsTold /\ DoneIsWhole
=============================================================================
