------------------------------- MODULE MCWire -------------------------------
(***************************************************************************)
(* Small connections for TLC: ints of two bytes, one number, blocks of two *)
(* bytes that look like ids.                                               *)
(***************************************************************************)
EXTENDS Wire

OneBlock == {<<7, 4>>}
OneByte == <<5>>

\* Two of the three threads have something to say, after the receiver's bitfield.
TwoSpeak == {[t \in Threads |-> IF t = silent THEN 0 ELSE 1] : silent \in Threads}
=============================================================================
