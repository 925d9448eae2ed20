----------------------------- MODULE MCHeartbeat -----------------------------
(* A small instance of Heartbeat: nothing is live, or two torrents of which  *)
(* a report lists one; a source, and one from the future.                    *)
EXTENDS Heartbeat
CONSTANTS t1, t2

TwoWindows == {{}, {t1, t2}}
=============================================================================
