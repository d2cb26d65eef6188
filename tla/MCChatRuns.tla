---------------------------- MODULE MCChatRuns ----------------------------
(* ChatRuns for TLC: session keys and ids are interchangeable.           *)
EXTENDS ChatRuns, TLC
Symmetry == Permutations(Sessions) \cup Permutations(Ids)
===========================================================================
