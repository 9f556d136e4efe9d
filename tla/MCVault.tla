------------------------------ MODULE MCVault ------------------------------
(***************************************************************************)
(* Vault for TLC: two PINs, so that there is a wrong one, one site, and a  *)
(* limit of two wrong PINs, so that it is reached by both tasks together.  *)
(***************************************************************************)
EXTENDS Vault
=============================================================================
