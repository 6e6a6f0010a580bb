-------------------------- MODULE MCBackgroundQueue --------------------------
(* Small instances of BackgroundQueue: two chats, so that a marker can be      *)
(* confused, and three tasks.  Liveness is checked, so there is no symmetry.   *)
EXTENDS BackgroundQueue, TLC
==============================================================================
