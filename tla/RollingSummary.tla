---------------------------- MODULE RollingSummary ----------------------------
(***************************************************************************)
(* The rolling summary of one chat: summary jobs and chat turns that share *)
(* the chat's rows (messages, chats.summary and the `summary' spans) over  *)
(* the one serialised SQLite connection (app/db.py run_sync).              *)
(*                                                                         *)
(* Every step below is what one process does between two awaits: a single  *)
(* database call, or one answer of the model.  Jobs of the same chat may   *)
(* overlap (the queue's retry runs outside the in-flight guard, see        *)
(* SummaryJobs), so nothing here assumes one job at a time.                *)
(*                                                                         *)
(* A summary text is represented by the set of messages it was made from,  *)
(* directly or through the previous summary put in its prompt: what a      *)
(* completed model call may carry on to later prompts.  The SHA-256        *)
(* fingerprints are compared as the values they are fingerprints of.       *)
(***************************************************************************)
EXTENDS Naturals, Sequences, SequencesExt

CONSTANTS
  Msg,      \* the message rows that can come to exist
  Blank,    \* those whose content is empty (a stream that ended with no text)
  Job,      \* slots for summary attempts running at the same time
  Turn,     \* slots for chat turns running at the same time
  Stamp,    \* wall-clock readings (spans.started_at); the clock may step back
  Targets   \* number of enabled summary models (gpu1, cpu)

ASSUME SummaryAssumption ==
  /\ Blank \subseteq Msg
  /\ Stamp \subseteq Nat
  /\ Targets \in 0..2

VARIABLES
  history,   \* list_messages: the rows by created_at, rowid
  summary,   \* chats.summary
  newest,    \* the newest `summary' span: the only one ever read
  job,       \* the local variables of each run_summary
  turn,      \* the local variables of each execute_turn
  orphans,   \* set_summary calls whose awaiting job was cancelled
  stopping   \* the lifespan is shutting down: no new jobs or turns

vars == <<history, summary, newest, job, turn, orphans, stopping>>
-----------------------------------------------------------------------------
(* Rows and what is read from them *)

\* A nullable column: NULL is the empty sequence, a text the sequence of it.
NoText == <<>>
Text == {<<S>> : S \in SUBSET Msg}
Column == Text \cup {NoText}
Carried(s) == IF s = NoText THEN {} ELSE s[1]

Content(S) == S \ Blank
Prefix(h, n) == [i \in 1..n |-> h[i]]
Rows(h, m, n) == {h[i] : i \in m..n}

Span == [kind : {"none", "ok", "error", "bare"}, at : Nat, count : Nat,
         prefix : Seq(Msg), text : Column]
NoSpan == [kind |-> "none", at |-> 0, count |-> 0, prefix |-> <<>>, text |-> NoText]

\* Mutant: the fingerprint stops one row short of the count.
CoverageFieldsShort(at, msgs, count, text) ==
  [kind |-> "ok", at |-> at, count |-> count,
   prefix |-> Prefix(msgs, count - 1), text |-> text]

\* coverage_fields, and the two spans that lack them.
CoverageFields(at, msgs, count, text) ==
  [kind |-> "ok", at |-> at, count |-> count,
   prefix |-> Prefix(msgs, count), text |-> text]
ErrorSpan(at) == [NoSpan EXCEPT !.kind = "error", !.at = at]
BareSpan(at) == [NoSpan EXCEPT !.kind = "bare", !.at = at]

\* Mutants: the summary, or the rows it covers, are not compared.
TrustedAnyText(h, s) ==
  /\ s # NoText
  /\ newest.kind = "ok"
  /\ newest.count <= Len(h)
  /\ newest.prefix = Prefix(h, newest.count)

TrustedAnyRows(h, s) ==
  /\ s # NoText
  /\ newest.kind = "ok"
  /\ newest.count <= Len(h)
  /\ newest.text = s

\* coverage_verdict: the newest attempt is authoritative, and is believed only
\* if both of its fingerprints match the rows the caller has read.
Trusted(h, s) ==
  /\ s # NoText
  /\ newest.kind = "ok"
  /\ newest.count <= Len(h)
  /\ newest.prefix = Prefix(h, newest.count)
  /\ newest.text = s

TrustedCoveredCount(h, s) == IF Trusted(h, s) THEN newest.count ELSE 0

\* ORDER BY started_at DESC, id DESC: of two spans with the same stamp the
\* later row wins.  Tracing swallows every write failure, so a row may be lost.
Newer(sp) == IF newest.kind = "none" \/ sp.at >= newest.at THEN sp ELSE newest
WriteSpan(sp) == newest' \in {Newer(sp), newest}

\* insert_message: the new row goes where its created_at sorts, last unless the
\* clock was stepped back.
InsertMessage(m) ==
  /\ m \notin Range(history)
  /\ \E p \in 1..(Len(history) + 1) : history' = InsertAt(history, p, m)
-----------------------------------------------------------------------------
(* run_summary *)

JobPC == {"idle", "list", "coverage", "target", "llm", "commit", "record", "failed"}
JobState == [pc : JobPC, prior : Column, msgs : Seq(Msg), covered : Nat, count : Nat,
             target : Nat, at : Nat, text : Column, retarget : BOOLEAN]
IdleJob == [pc |-> "idle", prior |-> NoText, msgs |-> <<>>, covered |-> 0,
            count |-> 0, target |-> 1, at |-> 0, text |-> NoText, retarget |-> FALSE]

GoIdle(j) == job' = [job EXCEPT ![j] = IdleJob]

\* get_chat: the summary this attempt starts from.
StartJob(j) ==
  /\ ~stopping
  /\ job[j].pc = "idle"
  /\ job' = [job EXCEPT ![j].pc = "list", ![j].prior = summary]
  /\ UNCHANGED <<history, summary, newest, turn, orphans, stopping>>

\* list_messages; a chat with no messages is skipped.
ListMessages(j) ==
  /\ job[j].pc = "list"
  /\ IF history = <<>>
       THEN GoIdle(j)
       ELSE job' = [job EXCEPT ![j].pc = "coverage", ![j].msgs = history]
  /\ UNCHANGED <<history, summary, newest, turn, orphans, stopping>>

\* trusted_covered_count, judged against the rows read by the two earlier calls.
ReadCoverage(j) ==
  /\ job[j].pc = "coverage"
  /\ LET covered == TrustedCoveredCount(job[j].msgs, job[j].prior)
     IN IF covered = Len(job[j].msgs) \/ Targets = 0
          THEN GoIdle(j)
          ELSE job' = [job EXCEPT ![j].pc = "target", ![j].covered = covered]
  /\ UNCHANGED <<history, summary, newest, turn, orphans, stopping>>

\* fit_to_budget keeps at least one message; a transcript of empty messages
\* ends the job, anything else opens the span and calls the model.
PickTarget(j) ==
  /\ job[j].pc = "target"
  /\ \E count \in (job[j].covered + 1)..Len(job[j].msgs), at \in Stamp :
       IF Content(Rows(job[j].msgs, job[j].covered + 1, count)) = {}
         THEN GoIdle(j)
         ELSE job' = [job EXCEPT ![j].pc = "llm", ![j].count = count, ![j].at = at]
  /\ UNCHANGED <<history, summary, newest, turn, orphans, stopping>>

\* The prompt holds the prior summary, trusted or not, and the new messages;
\* only a non-empty answer with finish_reason = "stop" gets here.  The prior
\* summary is not used again.
ModelAnswers(j) ==
  /\ job[j].pc = "llm"
  /\ LET new == Content(Rows(job[j].msgs, job[j].covered + 1, job[j].count))
     IN job' = [job EXCEPT ![j].pc = "commit", ![j].prior = NoText,
                           ![j].text = <<Carried(job[j].prior) \cup new>>]
  /\ UNCHANGED <<history, summary, newest, turn, orphans, stopping>>

\* LLMError, an empty answer or a truncated one: the next target is tried.
ModelFails(j) ==
  /\ job[j].pc = "llm"
  /\ job' = [job EXCEPT ![j].pc = "failed", ![j].retarget = TRUE]
  /\ UNCHANGED <<history, summary, newest, turn, orphans, stopping>>

\* set_summary commits on its own, before the span that describes it ...
SetSummary(j) ==
  /\ job[j].pc = "commit"
  /\ summary' = job[j].text
  /\ job' = [job EXCEPT ![j].pc = "record"]
  /\ UNCHANGED <<history, newest, turn, orphans, stopping>>

\* ... or raises, which the span records before the attempt gives up.
SetSummaryFails(j) ==
  /\ job[j].pc = "commit"
  /\ job' = [job EXCEPT ![j].pc = "failed"]
  /\ UNCHANGED <<history, summary, newest, turn, orphans, stopping>>

\* The span row of a successful attempt, with its coverage fields.
RecordSuccess(j) ==
  /\ job[j].pc = "record"
  /\ WriteSpan(CoverageFields(job[j].at, job[j].msgs, job[j].count, job[j].text))
  /\ GoIdle(j)
  /\ UNCHANGED <<history, summary, turn, orphans, stopping>>

\* The span row of a failed target; the last target's error ends the attempt.
RecordFailure(j) ==
  /\ job[j].pc = "failed"
  /\ WriteSpan(ErrorSpan(job[j].at))
  /\ IF job[j].retarget /\ job[j].target < Targets
       THEN job' = [job EXCEPT ![j].pc = "target", ![j].target = @ + 1,
                               ![j].retarget = FALSE]
       ELSE GoIdle(j)
  /\ UNCHANGED <<history, summary, turn, orphans, stopping>>

\* Shutdown's drain timed out.  Cancellation arrives at the job's current await:
\* inside the span the row is still written, without coverage or error, and a
\* database call already handed to the executor may run all the same.
CancelJob(j) ==
  /\ stopping
  /\ job[j].pc \notin {"idle", "target"}
  /\ CASE job[j].pc \in {"list", "coverage"} -> UNCHANGED newest
       [] job[j].pc \in {"llm", "commit"} -> WriteSpan(BareSpan(job[j].at))
       [] job[j].pc = "record" ->
            WriteSpan(CoverageFields(job[j].at, job[j].msgs, job[j].count, job[j].text))
       [] job[j].pc = "failed" -> WriteSpan(ErrorSpan(job[j].at))
  /\ orphans' \in {orphans, orphans \cup
                     (IF job[j].pc = "commit" THEN {job[j].text} ELSE {})}
  /\ GoIdle(j)
  /\ UNCHANGED <<history, summary, turn, stopping>>

OrphanSetsSummary ==
  /\ \E text \in orphans : /\ summary' = text
                           /\ orphans' = orphans \ {text}
  /\ UNCHANGED <<history, newest, job, turn, stopping>>

JobStep(j) ==
  \/ StartJob(j) \/ ListMessages(j) \/ ReadCoverage(j) \/ PickTarget(j)
  \/ ModelAnswers(j) \/ ModelFails(j) \/ SetSummary(j) \/ SetSummaryFails(j)
  \/ RecordSuccess(j) \/ RecordFailure(j) \/ CancelJob(j)
-----------------------------------------------------------------------------
(* execute_turn, as far as it touches the summary; ChatTurn has the rest *)

TurnPC == {"idle", "list", "chat", "coverage", "stream"}
TurnState == [pc : TurnPC, user : Seq(Msg), raw : Seq(Msg), summary : Column,
              covered : Nat, used : BOOLEAN]
IdleTurn == [pc |-> "idle", user |-> <<>>, raw |-> <<>>, summary |-> NoText,
             covered |-> 0, used |-> FALSE]

\* The user's message is committed before the prompt is assembled.
BeginTurn(t) ==
  /\ ~stopping
  /\ turn[t].pc = "idle"
  /\ \E m \in Msg : /\ InsertMessage(m)
                    /\ turn' = [turn EXCEPT ![t].pc = "list", ![t].user = <<m>>]
  /\ UNCHANGED <<summary, newest, job, orphans, stopping>>

\* _request_completion's three reads, each a database call of its own.
ReadHistory(t) ==
  /\ turn[t].pc = "list"
  /\ turn' = [turn EXCEPT ![t].pc = "chat", ![t].raw = history]
  /\ UNCHANGED <<history, summary, newest, job, orphans, stopping>>

ReadChat(t) ==
  /\ turn[t].pc = "chat"
  /\ turn' = [turn EXCEPT ![t].pc = "coverage", ![t].summary = summary]
  /\ UNCHANGED <<history, summary, newest, job, orphans, stopping>>

\* assemble_context: the summary stands for history[:C] and history[C:] is sent
\* verbatim, or all of it is raw; a prompt over budget is refused, not clipped.
Assemble(t) ==
  /\ turn[t].pc = "coverage"
  /\ \/ turn' = [turn EXCEPT
                   ![t].pc = "stream",
                   ![t].used = Trusted(turn[t].raw, turn[t].summary),
                   ![t].covered = TrustedCoveredCount(turn[t].raw, turn[t].summary)]
     \/ turn' = [turn EXCEPT ![t] = IdleTurn]
  /\ UNCHANGED <<history, summary, newest, job, orphans, stopping>>

\* The answer, whole or partial, becomes a row; a turn that failed with no
\* content, or whose insert raised, leaves none.
EndTurn(t) ==
  /\ turn[t].pc = "stream"
  /\ \/ \E m \in Msg : InsertMessage(m)
     \/ UNCHANGED history
  /\ turn' = [turn EXCEPT ![t] = IdleTurn]
  /\ UNCHANGED <<summary, newest, job, orphans, stopping>>

TurnStep(t) ==
  \/ BeginTurn(t) \/ ReadHistory(t) \/ ReadChat(t) \/ Assemble(t) \/ EndTurn(t)
-----------------------------------------------------------------------------
(* The process *)

BeginShutdown ==
  /\ ~stopping
  /\ stopping' = TRUE
  /\ UNCHANGED <<history, summary, newest, job, turn, orphans>>

\* A crash, or the end of a shutdown, and the next start: only rows survive.
Restart ==
  /\ job' = [j \in Job |-> IdleJob]
  /\ turn' = [t \in Turn |-> IdleTurn]
  /\ orphans' = {}
  /\ stopping' = FALSE
  /\ UNCHANGED <<history, summary, newest>>

Init ==
  /\ history = <<>>
  /\ summary = NoText
  /\ newest = NoSpan
  /\ job = [j \in Job |-> IdleJob]
  /\ turn = [t \in Turn |-> IdleTurn]
  /\ orphans = {}
  /\ stopping = FALSE

Next ==
  \/ \E j \in Job : JobStep(j)
  \/ \E t \in Turn : TurnStep(t)
  \/ OrphanSetsSummary
  \/ BeginShutdown
  \/ Restart

Spec == Init /\ [][Next]_vars
-----------------------------------------------------------------------------
(* Properties *)

TypeOK ==
  /\ history \in Seq(Msg)
  /\ summary \in Column
  /\ newest \in Span
  /\ job \in [Job -> JobState]
  /\ turn \in [Turn -> TurnState]
  /\ orphans \subseteq Text
  /\ stopping \in BOOLEAN

\* A span is believable: every message of the prefix a successful span claims
\* to cover went into the text the span describes.
Sound(sp) ==
  sp.kind = "ok" => /\ sp.count = Len(sp.prefix)
                    /\ Content(Range(sp.prefix)) \subseteq Carried(sp.text)

\* summary_coverage's promise: whatever the order of overlapping jobs, failed
\* commits, cancelled jobs, lost spans and restarts, a summary that is trusted
\* now was made from every message of the prefix it stands for.
TrustedSummaryCoversPrefix ==
  Trusted(history, summary) =>
    Content(Rows(history, 1, newest.count)) \subseteq Carried(summary)

\* The prompt a turn sends loses nothing: every message the turn read, its own
\* question included, is in the prompt verbatim or went into the summary used.
Verbatim(tn) == Rows(tn.raw, tn.covered + 1, Len(tn.raw))
Summarised(tn) == IF tn.used THEN Carried(tn.summary) ELSE {}
LosesNothing(tn) ==
  tn.pc = "stream" =>
    /\ Content(Range(tn.raw)) \subseteq Verbatim(tn) \cup Summarised(tn)
    /\ Range(tn.user) \subseteq Range(tn.raw)
PromptLosesNothing == \A t \in Turn : LosesNothing(turn[t])

\* A job builds on what it was told: the text it is about to commit was made
\* from every message of the prefix it is about to claim, even when the prior
\* summary it read was replaced while the model was answering.
ClaimsWhatItRead(b) ==
  b.pc \in {"commit", "record"} =>
    Content(Rows(b.msgs, 1, b.count)) \subseteq Carried(b.text)
JobClaimsWhatItRead == \A j \in Job : ClaimsWhatItRead(job[j])

\* The inductive strengthening: spans are believable, a job's coverage was earned
\* by the prior summary it holds, a turn's own question is among its rows.
JobSound(b) ==
  /\ b.retarget => b.pc = "failed"
  /\ b.pc \in {"target", "llm"} \/ b.retarget =>
       /\ b.covered < Len(b.msgs)
       /\ Content(Rows(b.msgs, 1, b.covered)) \subseteq Carried(b.prior)
  /\ b.pc \in {"llm", "commit", "record", "failed"} =>
       b.count \in (b.covered + 1)..Len(b.msgs)
  /\ b.pc \in {"commit", "record"} => b.text \in Text
  /\ ClaimsWhatItRead(b)

TurnSound(tn, h) ==
  /\ tn.pc = "list" => Range(tn.user) \subseteq Range(h)
  /\ tn.pc \in {"chat", "coverage"} => Range(tn.user) \subseteq Range(tn.raw)
  /\ LosesNothing(tn)

SummaryInv ==
  /\ TypeOK
  /\ Sound(newest)
  /\ \A j \in Job : JobSound(job[j])
  /\ \A t \in Turn : TurnSound(turn[t], history)

\* A summary written undisturbed is usable: a job that records its span with no
\* newer span in the table, its text still the chat's summary and its messages
\* still the chat's first messages, leaves a summary that is trusted.
UndisturbedJob(j) ==
  /\ job[j].pc = "record"
  /\ summary = job[j].text
  /\ job[j].at >= newest.at
  /\ IsPrefix(job[j].msgs, history)
RecordedSummaryIsTrusted ==
  [][\A j \in Job :
       UndisturbedJob(j) /\ RecordSuccess(j) /\ newest' # newest
         => /\ Trusted(history, summary)'
            /\ newest'.count = job[j].count]_vars
==============================================================================
