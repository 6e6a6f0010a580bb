----------------------------- MODULE MCMemoryStore -----------------------------
(* Small instances of MemoryStore.  Contents and requests are interchangeable. *)
EXTENDS MemoryStore, TLC

Symmetry == Permutations(Key) \cup Permutations(Request)
==============================================================================
