------------------------------- MODULE MCShell -------------------------------
(* Instances of Shell. *)
EXTENDS Shell
==============================================================================
