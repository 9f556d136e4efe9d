------------------------------- MODULE MCWire -------------------------------
(***************************************************************************)
(* Wire for TLC: two hosts and a table of two channels, of which three are *)
(* handed out; packets of the real size with ten sequence numbers; PINGs   *)
(* of one and two packets and of one packet more than there are numbers;   *)
(* every request of up to three bytes, one byte of each class that the     *)
(* parser tells apart.                                                     *)
(***************************************************************************)
EXTENDS Codec

ByteClasses == {1, 24, 65, 66, 88, 95, 129, 159, 161, 191, 192, 255}
SomeExtras == {<<5>>, <<65, 255>>, <<162, 1, 129, 2, 3, 97, 65>>, <<191, 1, 95, 65, 0, 255, 255>>}
SomeRequests == UNION {[1..n -> ByteClasses] : n \in 1..3} \cup SomeExtras
=============================================================================
