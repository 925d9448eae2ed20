------------------------------ MODULE MCAcquire ------------------------------
(* Small instances of Acquire: two or three files, of one or two blocks, and *)
(* two workers.                                                              *)
EXTENDS Acquire, TLC

Three   == 0..2
Two     == 0..1
AllFree == 0..Drive
Growing == [f \in Library |-> IF f = 0 THEN 1 ELSE 2]
Equal   == [f \in Library |-> 1]

Interchangeable == Permutations(Workers)
=============================================================================
