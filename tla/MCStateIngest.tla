--------------------------- MODULE MCStateIngest ---------------------------
(***************************************************************************)
(* An instance of StateIngest for TLC: a frame with a wrong CRC and a gear *)
(* frame with an undefined byte.  The gear sender makes enough frames for  *)
(* the alive counter to come round; the speed sender makes one and repeats *)
(* it.                                                                     *)
(***************************************************************************)
EXTENDS StateIngest

MCNoise == {Nothing("speed"), [Nothing("gear") EXCEPT !.crc_ok = TRUE]}

MCMaxSeq == [s \in Signals |-> IF s = "speed" THEN 1 ELSE 3]
=============================================================================
