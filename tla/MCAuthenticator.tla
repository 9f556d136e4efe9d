-------------------------- MODULE MCAuthenticator --------------------------
(***************************************************************************)
(* Authenticator for TLC.  One relying party; two users where "same user"  *)
(* and "other user" must differ; two credentials, so that one can be       *)
(* replaced by, listed after or deleted before the other.                  *)
(***************************************************************************)
EXTENDS Authenticator
=============================================================================
