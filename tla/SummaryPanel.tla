---------------------------- MODULE SummaryPanel ----------------------------
(***************************************************************************)
(* The summary trigger of a chat as the server decides it                  *)
(* (background/summary_policy.py trigger_state) and as the debug page      *)
(* shows it (debug.ts summaryStatusHtml).  Token thresholds are fractions: *)
(* they are counted in parts of Den.                                       *)
(***************************************************************************)
EXTENDS Integers, FiniteSets, FiniteSetsExt

CONSTANTS
  Num, Den,    \* background.summary_context_fraction is Num / Den
  Flat,        \* background.summary_token_threshold
  EveryN,      \* background.summary_every_n_turns
  MaxTokens,   \* bound on the tokens of a prompt
  MaxTurns,    \* bound on the turns of a chat
  Contexts     \* context sizes of models

ASSUME PanelAssumption ==
  /\ Num \in Nat /\ Den \in Nat \ {0} /\ Flat \in Nat /\ EveryN \in Nat
  /\ MaxTokens \in Nat /\ MaxTurns \in Nat
  /\ Contexts \subseteq Nat /\ IsFiniteSet(Contexts)

NoTokens == -1

\* The sizes that may be known of a chat: its model's, the smallest routable one, or none.
KnownContexts == {ctxs \in SUBSET Contexts : Cardinality(ctxs) \in 0..2}

\* A chat as the trigger finds it: the usage of its latest prompt, the sizes known, its user
\* turns, whether a summary of it is in _in_flight, and whether the app has a queue.
Chats == {c \in [tokens : {NoTokens} \cup 0..MaxTokens, ctxs : KnownContexts,
                 turns : 0..MaxTurns, in_flight : BOOLEAN, queue : BOOLEAN] :
            c.tokens # NoTokens => c.turns > 0}

trigger_state(tokens, ctxs, turns) ==
  IF tokens # NoTokens
    THEN LET threshold == IF ctxs # {} THEN Min(ctxs) * Num ELSE Flat * Den
         IN [source |-> IF ctxs # {} THEN "token_ctx_fraction" ELSE "token_flat_fallback",
             tokens |-> tokens, threshold |-> threshold,
             will_trigger |-> threshold > 0 /\ tokens * Den >= threshold]
    ELSE [source |-> "turn_count_fallback", tokens |-> 0, threshold |-> 0,
          will_trigger |-> EveryN > 0 /\ turns % EveryN = 0]

TriggerOf(c) == trigger_state(c.tokens, c.ctxs, c.turns)

\* Mutant: the chat's summary in flight is not looked at.
EnqueuesAgain(c) == c.turns > 0 /\ TriggerOf(c).will_trigger /\ c.queue

\* maybe_enqueue_summary, after a turn: a job is submitted.
Enqueues(c) == c.turns > 0 /\ TriggerOf(c).will_trigger /\ ~c.in_flight /\ c.queue

\* Mutant: the percentage is rounded up.
PercentUp(tokens, threshold) ==
  IF threshold > 0 THEN Min({100, (100 * tokens * Den + threshold - 1) \div threshold}) ELSE 0

\* Math.min(100, Math.round((used / threshold) * 100))
Percent(tokens, threshold) ==
  IF threshold > 0 THEN Min({100, (200 * tokens * Den + threshold) \div (2 * threshold)}) ELSE 0

\* What the panel shows: the bar's width and colour, and the badges "due next turn" and
\* "running"; a chat without usage data has neither the bar nor the second badge.
summaryStatus(s, in_flight) ==
  LET pct == Percent(s.tokens, s.threshold)
      counted == s.source # "turn_count_fallback"
  IN [width |-> pct,
      bar |-> IF ~counted THEN "none"
              ELSE IF s.will_trigger THEN "is-due" ELSE IF pct >= 75 THEN "is-close" ELSE "",
      due |-> s.will_trigger,
      running |-> counted /\ in_flight]

Shown(c) == summaryStatus(TriggerOf(c), c.in_flight)
-----------------------------------------------------------------------------
(* What is checked of every chat (MCDebugView) *)

\* What the page shows against what maybe_enqueue_summary does with the same chat: the
\* server submits a summary for no chat without a badge, nor beside "running"; a badge with
\* a bar means one unless "running" stands beside it, or the app has no queue.  The bar is
\* full when a summary is due, and a full bar without a badge is at most half a percent short.
BarIsFullWhenDue(c) ==
  LET p == Shown(c)
  IN /\ Enqueues(c) => p.due /\ ~p.running
     /\ p.bar # "none" =>
          /\ p.due /\ ~p.running /\ c.queue => Enqueues(c)
          /\ p.due => p.width = 100
          /\ p.width = 100 /\ ~p.due => 200 * c.tokens * Den >= 199 * TriggerOf(c).threshold

\* "so `will it trigger' here can never drift from what actually happens" (debug.ts:82): a
\* chat with a badge gets its summary.  It does not while one is in flight.
DueIsEnqueued(c) == c.turns > 0 /\ c.queue /\ Shown(c).due => Enqueues(c)

\* The badge says what the next turn does: between turns a chat is marked when the turn to
\* come makes the server write a summary.  Without usage data it is a turn early.
DueIsNextTurn(c) ==
  c.tokens = NoTokens /\ ~c.in_flight /\ c.queue =>
    Shown(c).due = Enqueues([c EXCEPT !.turns = @ + 1])
=============================================================================
