--------------------------- MODULE MCPasskeyFile ---------------------------
(***************************************************************************)
(* PasskeyFile for TLC: the FIDO task and the CLI task, two relying        *)
(* parties, and as many records as a deletion needs to keep one before and *)
(* one behind the record it drops.                                         *)
(***************************************************************************)
EXTENDS PasskeyFile
=============================================================================
