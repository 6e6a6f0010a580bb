------------------------- MODULE RollingSummaryProofs -------------------------
(***************************************************************************)
(* Proofs about RollingSummary: its types, and that neither the committed  *)
(* summary when trusted nor the prompt of a turn ever loses a message,     *)
(* whatever the number of jobs, turns, messages, models and clock stamps;  *)
(* and that a summary which was written undisturbed is trusted.            *)
(***************************************************************************)
EXTENDS RollingSummary, SequenceTheorems, TLAPS

(* Rows, prefixes and insertion *)

\* The first k rows are the first n and those from n+1 to k.
LEMMA RowsSplit ==
  ASSUME NEW h, NEW n \in Nat, NEW k \in Nat, n <= k
  PROVE  Rows(h, 1, k) = Rows(h, 1, n) \cup Rows(h, n + 1, k)
<1>1. 1..k = (1..n) \cup ((n + 1)..k)
  OBVIOUS
<1>2. QED
  BY <1>1 DEF Rows

\* A sequence has the rows from its first to its last.
LEMMA RowsAll ==
  ASSUME NEW S, NEW h \in Seq(S)
  PROVE  Range(h) = Rows(h, 1, Len(h))
BY DEF Range, Rows

\* history[:n] is a sequence of n rows.
LEMMA PrefixRows ==
  ASSUME NEW S, NEW h \in Seq(S), NEW n \in Nat, n <= Len(h)
  PROVE  /\ Prefix(h, n) \in Seq(S)
         /\ Len(Prefix(h, n)) = n
         /\ Range(Prefix(h, n)) = Rows(h, 1, n)
<1>1. \A i \in 1..n : h[i] \in S
  OBVIOUS
<1>2. Prefix(h, n) \in Seq(S)
  BY <1>1 DEF Prefix
<1>3. Len(Prefix(h, n)) = n
  BY <1>2 DEF Prefix
<1>4. Range(Prefix(h, n)) = Rows(h, 1, n)
  BY DEF Prefix, Range, Rows
<1>5. QED
  BY <1>2, <1>3, <1>4

\* Two histories of which one begins with the other have the same first rows.
LEMMA PrefixOfPrefix ==
  ASSUME NEW S, NEW g \in Seq(S), NEW h \in Seq(S), IsPrefix(g, h), NEW n \in Nat, n <= Len(g)
  PROVE  n <= Len(h) /\ Prefix(h, n) = Prefix(g, n)
<1>1. Len(g) <= Len(h) /\ SubSeq(g, 1, Len(g)) = SubSeq(h, 1, Len(g))
  BY DEF IsPrefix
<1>2. \A i \in 1..Len(g) : SubSeq(g, 1, Len(g))[i] = g[i] /\ SubSeq(h, 1, Len(g))[i] = h[i]
  BY <1>1
<1>3. \A i \in 1..n : g[i] = h[i]
  BY <1>1, <1>2
<1> QED
  BY <1>1, <1>3 DEF Prefix

\* Inserting a row keeps the rows there were.
LEMMA InsertAtRows ==
  ASSUME NEW S, NEW h \in Seq(S), NEW e \in S, NEW p \in 1..(Len(h) + 1)
  PROVE  /\ InsertAt(h, p, e) \in Seq(S)
         /\ Range(InsertAt(h, p, e)) = Range(h) \cup {e}
<1> DEFINE a == SubSeq(h, 1, p - 1)
           b == SubSeq(h, p, Len(h))
           c == Append(a, e)
           r == (a \o <<e>>) \o b
<1>1. a \in Seq(S) /\ Len(a) = p - 1 /\ \A i \in 1..(p - 1) : a[i] = h[i]
  OBVIOUS
<1>2. b \in Seq(S) /\ Len(b) = Len(h) - p + 1 /\ \A i \in 1..(Len(h) - p + 1) : b[i] = h[p + i - 1]
  OBVIOUS
<1>3. /\ r \in Seq(S)
      /\ Len(r) = Len(h) + 1
      /\ \A i \in 1..(p - 1) : r[i] = h[i]
      /\ r[p] = e
      /\ \A i \in (p + 1)..(Len(h) + 1) : r[i] = h[i - 1]
  <2> HIDE DEF a, b
  <2>1. c \in Seq(S) /\ Len(c) = p /\ c[p] = e /\ \A i \in 1..(p - 1) : c[i] = h[i]
    BY <1>1
  <2>2. a \o <<e>> = c
    BY <1>1, AppendIsConcat
  <2> HIDE DEF c
  <2>3. r = c \o b
    BY <2>2
  <2> HIDE DEF r
  <2>4. r \in Seq(S) /\ Len(r) = Len(h) + 1
    <3>1. r \in Seq(S) /\ Len(r) = Len(c) + Len(b)
      BY <2>1, <2>3, <1>2, ConcatProperties
    <3>2. QED
      BY <3>1, <2>1, <1>2
  <2>5. \A i \in 1..p : r[i] = c[i]
    BY <2>1, <2>3, <1>2, ConcatProperties
  <2>6. ASSUME NEW i \in (p + 1)..(Len(h) + 1) PROVE r[i] = h[i - 1]
    <3>1. r[i] = b[i - p]
      BY <2>1, <2>3, <1>2, ConcatProperties
    <3>2. i - p \in 1..(Len(h) - p + 1) /\ p + (i - p) - 1 = i - 1
      OBVIOUS
    <3>3. QED
      BY <3>1, <3>2, <1>2
  <2>7. QED
    BY <2>1, <2>4, <2>5, <2>6
<1>4. InsertAt(h, p, e) = r
  BY DEF InsertAt
<1> HIDE DEF r
<1>5. Range(r) \subseteq Range(h) \cup {e}
  <2>1. ASSUME NEW i \in 1..(Len(h) + 1) PROVE r[i] \in Range(h) \cup {e}
    <3>1. CASE i < p
      BY <1>3, <3>1 DEF Range
    <3>2. CASE i = p
      BY <1>3, <3>2
    <3>3. CASE i > p
      <4>1. r[i] = h[i - 1] /\ i - 1 \in 1..Len(h)
        BY <1>3, <3>3
      <4>2. QED
        BY <4>1 DEF Range
    <3>4. QED
      BY <3>1, <3>2, <3>3
  <2>2. QED
    BY <1>3, <2>1 DEF Range
<1>6. Range(h) \cup {e} \subseteq Range(r)
  <2>1. e \in Range(r)
    BY <1>3 DEF Range
  <2>2. ASSUME NEW i \in 1..Len(h) PROVE h[i] \in Range(r)
    <3>1. CASE i < p
      BY <1>3, <3>1 DEF Range
    <3>2. CASE i >= p
      <4>1. i + 1 \in (p + 1)..(Len(h) + 1)
        BY <3>2
      <4>2. r[i + 1] = h[i]
        BY <1>3, <4>1
      <4>3. QED
        BY <1>3, <4>1, <4>2 DEF Range
    <3>3. QED
      BY <3>1, <3>2
  <2>3. QED
    BY <2>1, <2>2 DEF Range
<1>7. QED
  BY <1>3, <1>4, <1>5, <1>6

\* What coverage_verdict accepts, the prior summary really covers.
LEMMA TrustedIsSound ==
  ASSUME newest \in Span, Sound(newest), NEW h \in Seq(Msg), NEW s
  PROVE  /\ TrustedCoveredCount(h, s) \in 0..Len(h)
         /\ Content(Rows(h, 1, TrustedCoveredCount(h, s))) \subseteq
              (IF Trusted(h, s) THEN Carried(s) ELSE {})
<1>1. CASE ~Trusted(h, s)
  <2>1. TrustedCoveredCount(h, s) = 0
    BY <1>1 DEF TrustedCoveredCount
  <2>2. Rows(h, 1, 0) = {}
    BY DEF Rows
  <2>3. QED
    BY <1>1, <2>1, <2>2 DEF Content
<1>2. CASE Trusted(h, s)
  <2>1. TrustedCoveredCount(h, s) = newest.count /\ newest.count \in Nat
    BY <1>2 DEF TrustedCoveredCount, Span
  <2>2. newest.count <= Len(h) /\ newest.prefix = Prefix(h, newest.count)
    BY <1>2 DEF Trusted
  <2>3. Range(newest.prefix) = Rows(h, 1, newest.count)
    BY <2>1, <2>2, PrefixRows
  <2>4. Content(Range(newest.prefix)) \subseteq Carried(s)
    BY <1>2 DEF Trusted, Sound
  <2>5. QED
    BY <1>2, <2>1, <2>2, <2>3, <2>4
<1>3. QED
  BY <1>1, <1>2
-----------------------------------------------------------------------------
(* Types *)

\* What an idle job and an idle turn hold is typed.
LEMMA IdleTyped == IdleJob \in JobState /\ IdleTurn \in TurnState
BY DEF IdleJob, IdleTurn, JobState, TurnState, JobPC, TurnPC, Column, NoText

\* The three spans an attempt can leave are spans.
LEMMA SpansTyped ==
  ASSUME NEW at \in Nat
  PROVE  /\ NoSpan \in Span
         /\ ErrorSpan(at) \in Span
         /\ BareSpan(at) \in Span
         /\ \A msgs \in Seq(Msg), count \in Nat, text \in Column :
              count <= Len(msgs) => CoverageFields(at, msgs, count, text) \in Span
<1>1. NoSpan \in Span
  BY DEF NoSpan, Span, Column, NoText
<1>2. ErrorSpan(at) \in Span /\ BareSpan(at) \in Span
  BY <1>1 DEF ErrorSpan, BareSpan, Span
<1>3. ASSUME NEW msgs \in Seq(Msg), NEW count \in Nat, NEW text \in Column, count <= Len(msgs)
      PROVE  CoverageFields(at, msgs, count, text) \in Span
  <2>1. Prefix(msgs, count) \in Seq(Msg)
    BY <1>3, PrefixRows
  <2>2. QED
    BY <2>1 DEF CoverageFields, Span
<1>4. QED
  BY <1>1, <1>2, <1>3
-----------------------------------------------------------------------------
(* Preservation *)

\* A step that changes only one job's variables.
LEMMA JobOnly ==
  ASSUME SummaryInv, NEW j \in Job, NEW b \in JobState, JobSound(b),
         job' = [job EXCEPT ![j] = b],
         UNCHANGED <<history, turn>>,
         summary' \in Column, newest' \in Span, Sound(newest)',
         orphans' \subseteq Text, stopping' \in BOOLEAN
  PROVE  SummaryInv'
<1>1. TypeOK'
  BY DEF SummaryInv, TypeOK
<1>2. \A i \in Job : job'[i] = IF i = j THEN b ELSE job[i]
  BY DEF SummaryInv, TypeOK
<1>3. \A i \in Job : JobSound(job'[i])
  BY <1>2 DEF SummaryInv
<1>4. \A t \in Turn : TurnSound(turn[t], history)'
  BY DEF SummaryInv, TurnSound
<1>5. QED
  BY <1>1, <1>3, <1>4 DEF SummaryInv

\* A row written by tracing is the span or, if lost, nothing.
LEMMA WriteSpanSound ==
  ASSUME newest \in Span, Sound(newest), NEW sp \in Span, Sound(sp), WriteSpan(sp)
  PROVE  newest' \in Span /\ Sound(newest)'
<1>1. newest' = sp \/ newest' = newest
  BY DEF WriteSpan, Newer
<1>2. QED
  BY <1>1 DEF Sound

\* An idle job claims nothing.
LEMMA IdleSound == JobSound(IdleJob)
BY DEF JobSound, IdleJob, ClaimsWhatItRead

\* No step of run_summary, in whatever interleaving, breaks the invariant.
LEMMA JobStepInv ==
  ASSUME SummaryInv, NEW j \in Job, JobStep(j)
  PROVE  SummaryInv'
<1> DEFINE b == job[j]
<1>1. b \in JobState /\ JobSound(b)
  BY DEF SummaryInv, TypeOK
<1>2. /\ summary \in Column /\ newest \in Span /\ Sound(newest) /\ history \in Seq(Msg)
      /\ orphans \subseteq Text /\ stopping \in BOOLEAN
      /\ job \in [Job -> JobState]
  BY DEF SummaryInv, TypeOK
<1>idle. ASSUME GoIdle(j), UNCHANGED <<history, turn>>, UNCHANGED <<summary, stopping>>,
                newest' \in Span, Sound(newest)', orphans' \subseteq Text
         PROVE  SummaryInv'
  BY <1>2, <1>idle, IdleTyped, IdleSound, JobOnly DEF GoIdle
<1>3. CASE StartJob(j)
  <2> DEFINE c == [b EXCEPT !.pc = "list", !.prior = summary]
  <2>1. c \in JobState /\ JobSound(c)
    BY <1>1, <1>2, <1>3 DEF StartJob, JobState, JobPC, JobSound, ClaimsWhatItRead
  <2>2. job' = [job EXCEPT ![j] = c]
    BY <1>3 DEF StartJob
  <2>3. QED
    BY <1>2, <1>3, <2>1, <2>2, JobOnly DEF StartJob
<1>4. CASE ListMessages(j)
  <2>1. CASE history = <<>>
    BY <1>2, <1>4, <2>1, <1>idle DEF ListMessages
  <2>2. CASE history # <<>>
    <3> DEFINE c == [b EXCEPT !.pc = "coverage", !.msgs = history]
    <3>1. c \in JobState /\ JobSound(c)
      BY <1>1, <1>2, <1>4 DEF ListMessages, JobState, JobPC, JobSound, ClaimsWhatItRead
    <3>2. job' = [job EXCEPT ![j] = c]
      BY <1>4, <2>2 DEF ListMessages
    <3>3. QED
      BY <1>2, <1>4, <3>1, <3>2, JobOnly DEF ListMessages
  <2>3. QED
    BY <2>1, <2>2
<1>5. CASE ReadCoverage(j)
  <2> DEFINE n == TrustedCoveredCount(b.msgs, b.prior)
  <2>1. b.msgs \in Seq(Msg)
    BY <1>1 DEF JobState
  <2>2. n \in 0..Len(b.msgs) /\ Content(Rows(b.msgs, 1, n)) \subseteq Carried(b.prior)
    BY <1>2, <2>1, TrustedIsSound
  <2> HIDE DEF n
  <2>3. CASE n = Len(b.msgs) \/ Targets = 0
    BY <1>2, <1>5, <2>3, <1>idle DEF ReadCoverage, n
  <2>4. CASE ~(n = Len(b.msgs) \/ Targets = 0)
    <3> DEFINE c == [b EXCEPT !.pc = "target", !.covered = n]
    <3>1. c \in JobState
      <4>1. n \in Nat
        BY <2>1, <2>2
      <4>2. QED
        BY <1>1, <4>1 DEF JobState, JobPC
    <3>2. JobSound(c)
      BY <1>1, <1>5, <2>1, <2>2, <2>4 DEF ReadCoverage, JobState, JobSound, ClaimsWhatItRead
    <3>3. job' = [job EXCEPT ![j] = c]
      BY <1>5, <2>4 DEF ReadCoverage, n
    <3>4. QED
      BY <1>2, <1>5, <3>1, <3>2, <3>3, JobOnly DEF ReadCoverage
  <2>5. QED
    BY <2>3, <2>4
<1>6. CASE PickTarget(j)
  <2>1. PICK count \in (b.covered + 1)..Len(b.msgs), at \in Stamp :
          IF Content(Rows(b.msgs, b.covered + 1, count)) = {}
            THEN GoIdle(j)
            ELSE job' = [job EXCEPT ![j].pc = "llm", ![j].count = count, ![j].at = at]
    BY <1>6 DEF PickTarget
  <2>2. CASE GoIdle(j)
    BY <1>2, <1>6, <2>2, <1>idle DEF PickTarget
  <2>3. CASE job' = [job EXCEPT ![j].pc = "llm", ![j].count = count, ![j].at = at]
    <3> DEFINE c == [b EXCEPT !.pc = "llm", !.count = count, !.at = at]
    <3>1. count \in Nat /\ at \in Nat
      BY <1>1, SummaryAssumption DEF JobState
    <3>2. c \in JobState
      BY <1>1, <3>1 DEF JobState, JobPC
    <3>3. JobSound(c)
      BY <1>1, <1>6 DEF PickTarget, JobState, JobSound, ClaimsWhatItRead
    <3>4. job' = [job EXCEPT ![j] = c]
      BY <2>3
    <3>5. QED
      BY <1>2, <1>6, <3>2, <3>3, <3>4, JobOnly DEF PickTarget
  <2>4. QED
    BY <2>1, <2>2, <2>3
<1>7. CASE ModelAnswers(j)
  <2> DEFINE new == Content(Rows(b.msgs, b.covered + 1, b.count))
             c == [b EXCEPT !.pc = "commit", !.prior = NoText,
                            !.text = <<Carried(b.prior) \cup new>>]
  <2>1. b.pc = "llm" /\ b.covered \in Nat /\ b.count \in (b.covered + 1)..Len(b.msgs)
    BY <1>1, <1>7 DEF ModelAnswers, JobSound, JobState
  <2>2. new \subseteq Msg /\ Carried(b.prior) \subseteq Msg
    BY <1>1, <2>1 DEF JobState, Content, Rows, Carried, Column, Text
  <2>3. c.text \in Text /\ Carried(c.text) = Carried(b.prior) \cup new
    BY <1>1, <2>2 DEF JobState, Text, Carried, NoText
  <2>4. c \in JobState
    BY <1>1, <2>3 DEF JobState, JobPC, Column
  <2>5. Content(Rows(b.msgs, 1, b.covered)) \subseteq Carried(b.prior)
    BY <1>1, <2>1 DEF JobSound
  <2>6. Rows(b.msgs, 1, b.count) = Rows(b.msgs, 1, b.covered) \cup Rows(b.msgs, b.covered + 1, b.count)
    <3>1. b.covered \in Nat /\ b.count \in Nat /\ b.covered <= b.count
      BY <1>1, <2>1 DEF JobState
    <3>2. ASSUME NEW n \in Nat, NEW k \in Nat, n <= k
          PROVE  Rows(b.msgs, 1, k) = Rows(b.msgs, 1, n) \cup Rows(b.msgs, n + 1, k)
      BY <3>2, RowsSplit
    <3>3. QED
      BY <3>1, <3>2
  <2>7. Content(Rows(b.msgs, 1, b.count)) \subseteq Carried(b.prior) \cup new
    BY <2>5, <2>6 DEF Content
  <2>8. JobSound(c)
    BY <1>1, <2>1, <2>3, <2>7 DEF JobState, JobSound, ClaimsWhatItRead
  <2>9. job' = [job EXCEPT ![j] = c]
    BY <1>7 DEF ModelAnswers
  <2>10. QED
    BY <1>2, <1>7, <2>4, <2>8, <2>9, JobOnly DEF ModelAnswers
<1>8. CASE ModelFails(j)
  <2> DEFINE c == [b EXCEPT !.pc = "failed", !.retarget = TRUE]
  <2>1. c \in JobState /\ JobSound(c)
    BY <1>1, <1>8 DEF ModelFails, JobState, JobPC, JobSound, ClaimsWhatItRead
  <2>2. job' = [job EXCEPT ![j] = c]
    BY <1>8 DEF ModelFails
  <2>3. QED
    BY <1>2, <1>8, <2>1, <2>2, JobOnly DEF ModelFails
<1>9. CASE SetSummary(j)
  <2> DEFINE c == [b EXCEPT !.pc = "record"]
  <2>1. c \in JobState /\ JobSound(c) /\ b.text \in Column
    BY <1>1, <1>9 DEF SetSummary, JobState, JobPC, JobSound, ClaimsWhatItRead
  <2>2. job' = [job EXCEPT ![j] = c]
    BY <1>9 DEF SetSummary
  <2>3. QED
    BY <1>2, <1>9, <2>1, <2>2, JobOnly DEF SetSummary
<1>10. CASE SetSummaryFails(j)
  <2> DEFINE c == [b EXCEPT !.pc = "failed"]
  <2>1. c \in JobState /\ JobSound(c)
    BY <1>1, <1>10 DEF SetSummaryFails, JobState, JobPC, JobSound, ClaimsWhatItRead
  <2>2. job' = [job EXCEPT ![j] = c]
    BY <1>10 DEF SetSummaryFails
  <2>3. QED
    BY <1>2, <1>10, <2>1, <2>2, JobOnly DEF SetSummaryFails
<1>record. ASSUME b.pc = "record"
           PROVE  LET sp == CoverageFields(b.at, b.msgs, b.count, b.text)
                  IN sp \in Span /\ Sound(sp)
  <2>1. /\ b.at \in Nat /\ b.msgs \in Seq(Msg) /\ b.count \in Nat /\ b.text \in Column
        /\ b.count <= Len(b.msgs)
    BY <1>1, <1>record DEF JobState, JobSound
  <2>2. CoverageFields(b.at, b.msgs, b.count, b.text) \in Span
    BY <2>1, SpansTyped
  <2>3. /\ Len(Prefix(b.msgs, b.count)) = b.count
        /\ Range(Prefix(b.msgs, b.count)) = Rows(b.msgs, 1, b.count)
    BY <2>1, PrefixRows
  <2>4. Content(Rows(b.msgs, 1, b.count)) \subseteq Carried(b.text)
    BY <1>1, <1>record DEF JobSound, ClaimsWhatItRead
  <2>5. Sound(CoverageFields(b.at, b.msgs, b.count, b.text))
    BY <2>3, <2>4 DEF Sound, CoverageFields
  <2>6. QED
    BY <2>2, <2>5
<1>other. /\ ErrorSpan(b.at) \in Span /\ Sound(ErrorSpan(b.at))
          /\ BareSpan(b.at) \in Span /\ Sound(BareSpan(b.at))
  BY <1>1, SpansTyped DEF JobState, Sound, ErrorSpan, BareSpan, NoSpan
<1>11. CASE RecordSuccess(j)
  <2>1. newest' \in Span /\ Sound(newest)'
    BY <1>2, <1>11, <1>record, WriteSpanSound DEF RecordSuccess
  <2>2. QED
    BY <1>2, <1>11, <2>1, <1>idle DEF RecordSuccess
<1>12. CASE RecordFailure(j)
  <2>1. newest' \in Span /\ Sound(newest)'
    BY <1>2, <1>12, <1>other, WriteSpanSound DEF RecordFailure
  <2>2. CASE GoIdle(j)
    BY <1>2, <1>12, <2>1, <2>2, <1>idle DEF RecordFailure
  <2>3. CASE b.retarget /\ b.target < Targets
    <3> DEFINE c == [b EXCEPT !.pc = "target", !.target = @ + 1, !.retarget = FALSE]
    <3>1. c \in JobState
      <4>1. b.target + 1 \in Nat
        BY <1>1 DEF JobState
      <4>2. QED
        BY <1>1, <4>1 DEF JobState, JobPC
    <3>2. JobSound(c)
      BY <1>1, <2>3 DEF JobState, JobSound, ClaimsWhatItRead
    <3>3. job' = [job EXCEPT ![j] = c]
      BY <1>12, <2>3 DEF RecordFailure
    <3>4. QED
      BY <1>2, <1>12, <2>1, <3>1, <3>2, <3>3, JobOnly DEF RecordFailure
  <2>4. QED
    BY <1>12, <2>2, <2>3 DEF RecordFailure
<1>13. CASE CancelJob(j)
  <2>1. newest' \in Span /\ Sound(newest)'
    <3>1. CASE UNCHANGED newest
      BY <1>2, <3>1 DEF Sound
    <3>2. CASE WriteSpan(BareSpan(b.at)) \/ WriteSpan(ErrorSpan(b.at))
      BY <1>2, <3>2, <1>other, WriteSpanSound
    <3>3. CASE b.pc = "record"
      BY <1>2, <1>13, <3>3, <1>record, WriteSpanSound DEF CancelJob
    <3>4. QED
      BY <1>1, <1>13, <3>1, <3>2, <3>3 DEF CancelJob, JobState, JobPC
  <2>2. orphans' \subseteq Text
    <3>1. b.pc = "commit" => b.text \in Text
      BY <1>1 DEF JobSound
    <3>2. QED
      BY <1>2, <1>13, <3>1 DEF CancelJob
  <2>3. QED
    BY <1>2, <1>13, <2>1, <2>2, <1>idle DEF CancelJob
<1>14. QED
  BY <1>3, <1>4, <1>5, <1>6, <1>7, <1>8, <1>9, <1>10, <1>11, <1>12, <1>13 DEF JobStep

\* A step that changes only one turn's variables, and perhaps adds a row.
LEMMA TurnOnly ==
  ASSUME SummaryInv, NEW t \in Turn, NEW c \in TurnState, TurnSound(c, history'),
         turn' = [turn EXCEPT ![t] = c],
         UNCHANGED <<summary, newest, job, orphans, stopping>>,
         history' \in Seq(Msg), Range(history) \subseteq Range(history')
  PROVE  SummaryInv'
<1>1. TypeOK'
  BY DEF SummaryInv, TypeOK
<1>2. \A i \in Turn : turn'[i] = IF i = t THEN c ELSE turn[i]
  BY DEF SummaryInv, TypeOK
<1>3. ASSUME NEW i \in Turn PROVE TurnSound(turn[i], history)'
  <2>1. CASE i = t
    BY <1>2, <2>1
  <2>2. CASE i # t
    <3>1. turn'[i] = turn[i] /\ TurnSound(turn[i], history)
      BY <1>2, <2>2 DEF SummaryInv
    <3>2. QED
      BY <3>1 DEF TurnSound
  <2>3. QED
    BY <2>1, <2>2
<1>4. QED
  BY <1>1, <1>3 DEF SummaryInv, Sound, JobSound

\* insert_message adds a row and keeps the others.
LEMMA InsertMessageRows ==
  ASSUME history \in Seq(Msg), NEW m \in Msg, InsertMessage(m)
  PROVE  history' \in Seq(Msg) /\ Range(history') = Range(history) \cup {m}
BY InsertAtRows DEF InsertMessage

\* No step of execute_turn breaks the invariant.
LEMMA TurnStepInv ==
  ASSUME SummaryInv, NEW t \in Turn, TurnStep(t)
  PROVE  SummaryInv'
<1> DEFINE b == turn[t]
<1>1. b \in TurnState /\ TurnSound(b, history)
  BY DEF SummaryInv, TypeOK
<1>2. /\ summary \in Column /\ newest \in Span /\ Sound(newest) /\ history \in Seq(Msg)
      /\ turn \in [Turn -> TurnState]
  BY DEF SummaryInv, TypeOK
<1>idle. \A h : TurnSound(IdleTurn, h)
  BY DEF TurnSound, LosesNothing, IdleTurn
<1>3. CASE BeginTurn(t)
  <2>1. PICK m \in Msg : /\ InsertMessage(m)
                         /\ turn' = [turn EXCEPT ![t].pc = "list", ![t].user = <<m>>]
    BY <1>3 DEF BeginTurn
  <2> DEFINE c == [b EXCEPT !.pc = "list", !.user = <<m>>]
  <2>2. history' \in Seq(Msg) /\ Range(history') = Range(history) \cup {m}
    BY <1>2, <2>1, InsertMessageRows
  <2>3. c \in TurnState
    <3>1. <<m>> \in Seq(Msg)
      OBVIOUS
    <3>2. QED
      BY <1>1, <3>1 DEF TurnState, TurnPC
  <2>4. c.pc = "list" /\ Range(c.user) = {m}
    BY <1>1 DEF TurnState, Range
  <2>5. TurnSound(c, history')
    BY <2>2, <2>4 DEF TurnSound, LosesNothing
  <2>6. turn' = [turn EXCEPT ![t] = c]
    BY <2>1
  <2>7. QED
    BY <1>3, <2>2, <2>3, <2>5, <2>6, TurnOnly DEF BeginTurn
<1>4. CASE ReadHistory(t)
  <2> DEFINE c == [b EXCEPT !.pc = "chat", !.raw = history]
  <2>1. c \in TurnState
    BY <1>1, <1>2 DEF TurnState, TurnPC
  <2>2. TurnSound(c, history')
    BY <1>1, <1>4 DEF ReadHistory, TurnSound, LosesNothing, TurnState
  <2>3. turn' = [turn EXCEPT ![t] = c]
    BY <1>4 DEF ReadHistory
  <2>4. QED
    BY <1>2, <1>4, <2>1, <2>2, <2>3, TurnOnly DEF ReadHistory
<1>5. CASE ReadChat(t)
  <2> DEFINE c == [b EXCEPT !.pc = "coverage", !.summary = summary]
  <2>1. c \in TurnState
    BY <1>1, <1>2 DEF TurnState, TurnPC
  <2>2. TurnSound(c, history')
    BY <1>1, <1>5 DEF ReadChat, TurnSound, LosesNothing, TurnState
  <2>3. turn' = [turn EXCEPT ![t] = c]
    BY <1>5 DEF ReadChat
  <2>4. QED
    BY <1>2, <1>5, <2>1, <2>2, <2>3, TurnOnly DEF ReadChat
<1>6. CASE Assemble(t)
  <2> DEFINE n == TrustedCoveredCount(b.raw, b.summary)
             u == Trusted(b.raw, b.summary)
             c == [b EXCEPT !.pc = "stream", !.used = u, !.covered = n]
  <2>0. b.raw \in Seq(Msg) /\ b.pc = "coverage"
    BY <1>1, <1>6 DEF Assemble, TurnState
  <2>1. /\ n \in Nat /\ n <= Len(b.raw)
        /\ Content(Rows(b.raw, 1, n)) \subseteq (IF u THEN Carried(b.summary) ELSE {})
    BY <1>2, <2>0, TrustedIsSound
  <2>2. u \in BOOLEAN
    BY DEF Trusted
  <2>3. CASE turn' = [turn EXCEPT ![t].pc = "stream", ![t].used = u, ![t].covered = n]
    <3> HIDE DEF n, u
    <3>1. c \in TurnState
      BY <1>1, <2>1, <2>2 DEF TurnState, TurnPC
    <3>2. /\ c.pc = "stream" /\ c.raw = b.raw /\ c.user = b.user /\ c.covered = n
          /\ c.used = u /\ c.summary = b.summary
      BY <1>1 DEF TurnState
    <3>3. Range(b.user) \subseteq Range(b.raw)
      BY <1>1, <2>0 DEF TurnSound
    <3>4. Rows(b.raw, 1, Len(b.raw)) = Rows(b.raw, 1, n) \cup Rows(b.raw, n + 1, Len(b.raw))
      BY <2>0, <2>1, RowsSplit
    <3>5. Range(b.raw) = Rows(b.raw, 1, Len(b.raw))
      BY <2>0, RowsAll
    <3>6. Content(Range(b.raw)) \subseteq Rows(b.raw, n + 1, Len(b.raw)) \cup
                                         (IF u THEN Carried(b.summary) ELSE {})
      BY <2>1, <3>4, <3>5 DEF Content
    <3>7. LosesNothing(c)
      BY <3>2, <3>3, <3>6 DEF LosesNothing, Verbatim, Summarised
    <3>8. TurnSound(c, history')
      BY <3>2, <3>7 DEF TurnSound
    <3>9. turn' = [turn EXCEPT ![t] = c]
      BY <2>3
    <3>10. QED
      BY <1>2, <1>6, <3>1, <3>8, <3>9, TurnOnly DEF Assemble
  <2>4. CASE turn' = [turn EXCEPT ![t] = IdleTurn]
    BY <1>2, <1>6, <1>idle, <2>4, IdleTyped, TurnOnly DEF Assemble
  <2>5. QED
    BY <1>6, <2>3, <2>4 DEF Assemble
<1>7. CASE EndTurn(t)
  <2>1. history' \in Seq(Msg) /\ Range(history) \subseteq Range(history')
    BY <1>2, <1>7, InsertMessageRows DEF EndTurn
  <2>2. QED
    BY <1>2, <1>7, <1>idle, <2>1, IdleTyped, TurnOnly DEF EndTurn
<1>8. QED
  BY <1>3, <1>4, <1>5, <1>6, <1>7 DEF TurnStep
-----------------------------------------------------------------------------
(* The theorems *)

\* SummaryInv holds of every reachable state.
THEOREM SummaryInvariant == Spec => []SummaryInv
<1>1. Init => SummaryInv
  <2> SUFFICES ASSUME Init PROVE SummaryInv
    OBVIOUS
  <2>1. TypeOK
    <3>1. NoSpan \in Span
      BY SpansTyped
    <3>2. history \in Seq(Msg)
      BY DEF Init
    <3>3. QED
      BY <3>1, <3>2, IdleTyped DEF Init, TypeOK, Column
  <2>2. Sound(newest)
    BY DEF Init, Sound, NoSpan
  <2>3. \A j \in Job : JobSound(job[j])
    BY IdleSound DEF Init
  <2>4. \A t \in Turn : TurnSound(turn[t], history)
    BY DEF Init, IdleTurn, TurnSound, LosesNothing
  <2>5. QED
    BY <2>1, <2>2, <2>3, <2>4 DEF SummaryInv
<1>2. SummaryInv /\ [Next]_vars => SummaryInv'
  <2> SUFFICES ASSUME SummaryInv, [Next]_vars PROVE SummaryInv'
    OBVIOUS
  <2>1. ASSUME NEW j \in Job, JobStep(j) PROVE SummaryInv'
    BY <2>1, JobStepInv
  <2>2. ASSUME NEW t \in Turn, TurnStep(t) PROVE SummaryInv'
    BY <2>2, TurnStepInv
  <2>3. CASE OrphanSetsSummary
    BY <2>3 DEF OrphanSetsSummary, SummaryInv, TypeOK, Column, TurnSound
  <2>4. CASE BeginShutdown
    BY <2>4 DEF BeginShutdown, SummaryInv, TypeOK, TurnSound
  <2>5. CASE Restart
    <3>1. TypeOK'
      BY <2>5, IdleTyped DEF Restart, SummaryInv, TypeOK
    <3>2. \A j \in Job : JobSound(job[j])'
      BY <2>5, IdleSound DEF Restart
    <3>3. \A t \in Turn : TurnSound(turn[t], history)'
      BY <2>5 DEF Restart, IdleTurn, TurnSound, LosesNothing
    <3>4. QED
      BY <2>5, <3>1, <3>2, <3>3 DEF Restart, SummaryInv
  <2>6. CASE UNCHANGED vars
    BY <2>6 DEF vars, SummaryInv, TypeOK, TurnSound
  <2>7. QED
    BY <2>1, <2>2, <2>3, <2>4, <2>5, <2>6 DEF Next
<1>3. QED
  BY <1>1, <1>2, PTL DEF Spec

\* Every variable keeps its type.
THEOREM TypeCorrect == Spec => []TypeOK
<1>1. SummaryInv => TypeOK
  BY DEF SummaryInv
<1>2. QED
  BY <1>1, SummaryInvariant, PTL

\* A trusted summary was made from every message of the prefix it stands for.
THEOREM TrustedSummary == Spec => []TrustedSummaryCoversPrefix
<1>1. SummaryInv => TrustedSummaryCoversPrefix
  <2> SUFFICES ASSUME SummaryInv, Trusted(history, summary)
               PROVE  Content(Rows(history, 1, newest.count)) \subseteq Carried(summary)
    BY DEF TrustedSummaryCoversPrefix
  <2>1. newest \in Span /\ Sound(newest) /\ history \in Seq(Msg)
    BY DEF SummaryInv, TypeOK
  <2>2. TrustedCoveredCount(history, summary) = newest.count
    BY DEF TrustedCoveredCount
  <2>3. QED
    BY <2>1, <2>2, TrustedIsSound
<1>2. QED
  BY <1>1, SummaryInvariant, PTL

\* No prompt loses a message of the history its turn read.
THEOREM LosslessPrompts == Spec => []PromptLosesNothing
<1>1. SummaryInv => PromptLosesNothing
  BY DEF SummaryInv, TurnSound, PromptLosesNothing
<1>2. QED
  BY <1>1, SummaryInvariant, PTL

\* No job claims to cover a message that did not go into its text.
THEOREM HonestClaims == Spec => []JobClaimsWhatItRead
<1>1. SummaryInv => JobClaimsWhatItRead
  BY DEF SummaryInv, JobSound, JobClaimsWhatItRead
<1>2. QED
  BY <1>1, SummaryInvariant, PTL

\* A summary written undisturbed is usable, whatever the other jobs have done before: its
\* span has the fingerprint of the rows that are still first, and of the text that is
\* still the summary.
THEOREM RecordedIsTrusted == Spec => RecordedSummaryIsTrusted
<1>1. ASSUME SummaryInv, NEW j \in Job
      PROVE  UndisturbedJob(j) /\ RecordSuccess(j) /\ newest' # newest =>
               Trusted(history, summary)' /\ newest'.count = job[j].count
  <2> SUFFICES ASSUME UndisturbedJob(j), RecordSuccess(j), newest' # newest
               PROVE  Trusted(history, summary)' /\ newest'.count = job[j].count
    OBVIOUS
  <2> DEFINE b == job[j]
             sp == CoverageFields(b.at, b.msgs, b.count, b.text)
  <2>1. /\ b.pc = "record" /\ summary = b.text /\ b.at >= newest.at /\ IsPrefix(b.msgs, history)
        /\ history' = history /\ summary' = summary
    BY DEF UndisturbedJob, RecordSuccess
  <2>2. /\ history \in Seq(Msg) /\ b.msgs \in Seq(Msg) /\ b.count \in Nat
        /\ b.count <= Len(b.msgs) /\ b.text \in Text
    <3>1. b \in JobState /\ JobSound(b) /\ history \in Seq(Msg)
      BY <1>1 DEF SummaryInv, TypeOK
    <3> QED
      BY <2>1, <3>1 DEF JobSound, JobState
  <2>3. newest' = sp
    BY <2>1 DEF RecordSuccess, WriteSpan, Newer, CoverageFields
  <2>4. b.count <= Len(history) /\ Prefix(history, b.count) = Prefix(b.msgs, b.count)
    BY <2>1, <2>2, PrefixOfPrefix
  <2>5. b.text # NoText
    <3>1. \A R : <<R>> # << >>
      OBVIOUS
    <3> QED
      BY <2>2, <3>1 DEF Text, NoText
  <2> QED
    BY <2>1, <2>3, <2>4, <2>5 DEF Trusted, CoverageFields
<1>2. SummaryInv /\ [Next]_vars =>
        [\A j \in Job :
           UndisturbedJob(j) /\ RecordSuccess(j) /\ newest' # newest
             => /\ Trusted(history, summary)'
                /\ newest'.count = job[j].count]_vars
  BY <1>1
<1> QED
  BY <1>2, SummaryInvariant, PTL DEF Spec, RecordedSummaryIsTrusted
==============================================================================
