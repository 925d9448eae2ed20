----------------------------- MODULE MCFileFetch -----------------------------
(* Small instances of FileFetch: two mirrors, a sermon of three blocks that  *)
(* may lack one, or of two whose second version has three.                    *)
EXTENDS FileFetch

OneVersion  == {1}
TwoVersions == {1, 2}
Sizes       == [v \in Versions |-> v + 1]
ThreeBlocks == [v \in Versions |-> 3]
LackOne     == [v \in Versions |-> 1]
=============================================================================
