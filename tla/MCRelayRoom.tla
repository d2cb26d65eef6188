---------------------------- MODULE MCRelayRoom ----------------------------
(* Small instances of RelayRoom for TLC. *)
EXTENDS RelayRoom, TLC

\* Sockets, clients and gateway instances are interchangeable: nothing in the
\* room orders them.
Symmetry ==
  Permutations(Sockets) \cup Permutations(Clients) \cup Permutations(Gateways)

=============================================================================
