----------------------------- MODULE MCNvEvent -----------------------------
(* Events of both kinds for TLC, with three threads that wait.              *)
EXTENDS NvEvent
CONSTANTS t1, t2, t3
MCWaiters == {t1, t2, t3}
MCKinds == BOOLEAN
=============================================================================
