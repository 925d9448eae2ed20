------------------------------ MODULE MCSeeding ------------------------------
(* Small instances of Seeding.  The cursor's cycle is the least one that     *)
(* every number of torrents divides.                                         *)
EXTENDS Seeding

Divides(n, c) == c % n = 0
LeastCycle ==
    LET cycles == {c \in 1..60 : \A n \in Torrents : Divides(n, c)}
    IN CHOOSE c \in cycles : \A d \in cycles : c <= d
=============================================================================
