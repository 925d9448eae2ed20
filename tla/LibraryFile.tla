----------------------------- MODULE LibraryFile -----------------------------
(***************************************************************************)
(* What a node promises of one file of its library.  A file is missing,    *)
(* fresh (held, but a power cut may still take it) or safe.  A missing     *)
(* file may arrive, a fresh one may become safe or be lost, and a safe one *)
(* stays: nothing the node does, and no crash, takes back what is safe.    *)
(***************************************************************************)
VARIABLE copy

Init == copy = "missing"

Arrives ==
    /\ copy = "missing"
    /\ copy' \in {"fresh", "safe"}

SettlesOrIsLost ==
    /\ copy = "fresh"
    /\ copy' \in {"safe", "missing"}

Next == Arrives \/ SettlesOrIsLost

Spec == Init /\ [][Next]_copy

=============================================================================
