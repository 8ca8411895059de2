----------------------------- MODULE MCEndpoint -----------------------------
(***************************************************************************)
(* Endpoint for TLC: one TCP and one QUIC address, a peer that dials both  *)
(* (QUIC first) and a peer that dials the TCP one only.                    *)
(***************************************************************************)
EXTENDS Endpoint, TLC

CONSTANTS t1, q1, p1, p2

\* The addresses connect_node of each peer tries, in order.
MCPlan == [p \in Peers |-> IF p = p1 THEN <<q1, t1>> ELSE <<t1>>]
=============================================================================
