------------------------------ MODULE MCChatTurn ------------------------------
(* Small instances of ChatTurn. *)
EXTENDS ChatTurn

\* Turns are interchangeable: only behaviours whose first row is not Second's.
Second == CHOOSE t \in Turn : TRUE
SecondIsNotFirst == rows # <<>> => rows[1].turn # Second

\* Bound: Second is accepted only in behaviours that do not set the clock.
OneTurnOrClock ==
  \/ turn[Second] = NewTurn
  \/ clock = 0 /\ setBack = {} /\ \A i \in DOMAIN rows : rows[i].at = 0

MCNext == Next /\ SecondIsNotFirst' /\ OneTurnOrClock'
MCSpec == Init /\ [][MCNext]_vars /\ Fairness
==============================================================================
