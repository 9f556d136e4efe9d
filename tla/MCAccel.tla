------------------------------ MODULE MCAccel ------------------------------
(***************************************************************************)
(* The CLI task and the FIDO task on one accelerator.  The answers to a    *)
(* decryption, to CBC and to a signature have the same length.             *)
(***************************************************************************)
EXTENDS Accel

MCTasks == {"cli", "fido"}
MCOps   == [cli |-> {"gcm_decrypt"}, fido |-> {"cbc", "p256_wrapped"}]
MCCaps  == {"aes", "asym"}
=============================================================================
