------------------------------ MODULE MCLibrary ------------------------------
(* A small instance of Library: a sermon of the first release and a video of *)
(* the second, by the speaker.                                               *)
EXTENDS Library
=============================================================================
