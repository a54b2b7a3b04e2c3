--------------------------- MODULE MCNvSemaphore ---------------------------
(* A semaphore for TLC: three threads that take and a counter of three      *)
(* bits; two tokens at most, and one more at the start than fits.           *)
EXTENDS NvSemaphore
CONSTANTS t1, t2, t3
MCTakers == {t1, t2, t3}
=============================================================================
