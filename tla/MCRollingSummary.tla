--------------------------- MODULE MCRollingSummary ---------------------------
(* Small instances of RollingSummary.  Jobs are interchangeable, and so are   *)
(* the messages that have content.                                            *)
EXTENDS RollingSummary, FiniteSets, TLC

Symmetry == Permutations(Job) \cup Permutations(Msg \ Blank)
==============================================================================
