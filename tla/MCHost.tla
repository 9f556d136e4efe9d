------------------------------- MODULE MCHost -------------------------------
(***************************************************************************)
(* The host's side for TLC.  Backup, Dashboard, Nonce and Terminal share   *)
(* no variable, so each is explored by itself: part says which.            *)
(***************************************************************************)
EXTENDS Backup, Dashboard, Nonce, Terminal

VARIABLE part

vars == <<part, backupVars, dashVars, nonceVars, terminalVars>>

Init ==
  /\ part \in {"backup", "dashboard", "nonce", "terminal"}
  /\ IF part = "backup" THEN BackupInit ELSE BackupInit /\ vault = Empty
  /\ IF part = "dashboard" THEN DashInit ELSE DashInit /\ recs = {}
  /\ NonceInit /\ gcmKey = [t \in Tasks |-> CHOOSE k \in GcmKeys : TRUE]
  /\ TerminalInit

Next ==
  /\ UNCHANGED part
  /\ \/ part = "backup" /\ BackupNext /\ UNCHANGED <<dashVars, nonceVars, terminalVars>>
     \/ part = "dashboard" /\ DashNext /\ UNCHANGED <<backupVars, nonceVars, terminalVars>>
     \/ part = "nonce" /\ NonceNext /\ UNCHANGED <<backupVars, dashVars, terminalVars>>
     \/ part = "terminal" /\ TerminalNext /\ UNCHANGED <<backupVars, dashVars, nonceVars>>

Spec == Init /\ [][Next]_vars
=============================================================================
