---------------------------- MODULE MCPullProtocol ----------------------------
(* PullProtocol for TLC. *)
EXTENDS PullProtocol, TLC

\* The tunnels are interchangeable.
TunnelSymmetry == Permutations(Tunnel)

=============================================================================
