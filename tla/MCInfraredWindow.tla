-------------------------- MODULE MCInfraredWindow --------------------------
(* An infrared sensor for TLC: a window of three slots, so that a whole     *)
(* refill fits between two slots of an average.                            *)
EXTENDS InfraredWindow
MCReadings == {1, 3}
=============================================================================
