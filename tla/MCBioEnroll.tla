---------------------------- MODULE MCBioEnroll ----------------------------
(***************************************************************************)
(* BioEnroll for TLC: two fingers and two slots, so that one can be taken  *)
(* while the other one is listed, was listed in a file that was cut short, *)
(* or is listed in one that could not be read.                             *)
(***************************************************************************)
EXTENDS BioEnroll
=============================================================================
