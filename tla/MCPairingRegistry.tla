------------------------ MODULE MCPairingRegistry ------------------------
EXTENDS PairingRegistry, TLC

(* Codes, tokens, workers and checks are interchangeable. *)
Symmetry ==
    Permutations(Codes) \cup Permutations(Tokens)
        \cup Permutations(Workers) \cup Permutations(Checks)
=============================================================================
