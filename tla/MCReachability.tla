--------------------------- MODULE MCReachability ---------------------------
(* A small instance of Reachability: two ports, a gateway with two and a day *)
(* for which a connection counts.                                            *)
EXTENDS Reachability
=============================================================================
