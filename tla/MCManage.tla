------------------------------ MODULE MCManage ------------------------------
(***************************************************************************)
(* Manage for TLC: two hosts, two relying parties, one of which has a      *)
(* protected credential before an open one.                                *)
(***************************************************************************)
EXTENDS Manage

CONSTANTS a1, a2, b1, b2, rpA, rpB

AllCreds == {a1, a2, b1, b2}
CredRp == [c \in AllCreds |-> IF c \in {a1, a2} THEN rpA ELSE rpB]
FirstStored == <<a1, b1, a2>>
=============================================================================
