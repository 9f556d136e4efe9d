----------------------------- MODULE MCCtapHid -----------------------------
(***************************************************************************)
(* CtapHid for TLC.  One or two payload bytes per packet and sequence      *)
(* numbers up to 1 (so messages of at most three packets) keep every       *)
(* boundary of the code: empty, a packet not full, one packet, exactly the *)
(* largest message, one byte too long.                                     *)
(***************************************************************************)
EXTENDS CtapHid

MCMaxMsg == InitData + (MaxSeqNo + 1) * ContData
=============================================================================
