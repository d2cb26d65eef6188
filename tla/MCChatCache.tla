----------------------------- MODULE MCChatCache -----------------------------
(* No symmetry of the keys: the run has a liveness property. *)
EXTENDS ChatCache
=============================================================================
