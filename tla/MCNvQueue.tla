----------------------------- MODULE MCNvQueue -----------------------------
(* A queue for TLC: two slots, two items, three threads that put and get.   *)
EXTENDS NvQueue, TLC
CONSTANTS t1, t2, t3, a, b, none
MCThreads == {t1, t2, t3}
MCItems == {a, b}
MCSymmetry == Permutations(MCThreads) \cup Permutations(MCItems)
=============================================================================
