---------------------------- MODULE MCLargeBlob ----------------------------
(***************************************************************************)
(* LargeBlob for TLC: two arrays of three bytes, as long as any may be and *)
(* longer than a fragment, that begin alike, and one too short to end in a *)
(* hash.                                                                   *)
(***************************************************************************)
EXTENDS LargeBlob, TLC
CONSTANTS a1, a2, a3, x, y
MCData == (a1 :> <<x, y, y>>) @@ (a2 :> <<x, x, y>>) @@ (a3 :> <<y>>)
MCEmpty == <<y, x>>
=============================================================================
