------------------------------- MODULE Vault -------------------------------
(***************************************************************************)
(* The password vault: the CLI task's command loop (src/main.cpp), the     *)
(* master PIN, its failure counter and the password file                   *)
(* (src/StorageManager.cpp), the finger that confirms a pending command    *)
(* (src/FingerprintManager.cpp), and the FIDO task's ClientPIN and Reset   *)
(* commands (src/FIDO2Manager.cpp), which share the PIN file, the counter, *)
(* the storage key and the session flags with it.                          *)
(*                                                                         *)
(* Each function takes storageMutex for one file access at a time, so a    *)
(* function that makes several accesses is several steps.  A key is known  *)
(* by the PIN it is derived from; NoKey is the cleared, all-zero key.      *)
(* Hardly a result of SPIFFS is looked at: a call in Failing may fail and  *)
(* the task goes on.  TOTP secrets are kept like passwords and left out.   *)
(***************************************************************************)
EXTENDS Naturals

CONSTANTS
  Pins, Sites,
  MaxFails,        \* 10
  FidoOps,         \* which FIDO commands are sent: "setPin", "changePin", "reset"
  Failing,         \* the accesses that may fail: reading a file, writing the PIN, the
                   \* counter or the passwords, removing the counter, removing in a wipe
  MaxCrashes,      \* bound: power cuts
  MaxEpochs,       \* bound: wipes and resets
  MaxWrong         \* bound: wrong PINs in a row

ASSUME VaultAssumption ==
  /\ MaxFails \in Nat \ {0}
  /\ FidoOps \subseteq {"setPin", "changePin", "reset"}
  /\ Failing \subseteq {"read", "pin", "count", "passwords", "clear", "remove"}
  /\ MaxCrashes \in Nat /\ MaxEpochs \in Nat /\ MaxWrong \in Nat

NoPin   == "no pin"
TornPin == "torn pin"            \* /pin.txt is there, empty or cut
NoKey   == "zero key"
NoEntry == [key |-> "no entry", epoch |-> 0]
NoSite  == "no site"

VARIABLES
  pin, fails, entries,            \* /pin.txt, /failures.txt, /passwords.json
  authed, key, cmdState,          \* authenticated, storageKey, currentCommandState
  pending,                        \* what the pending command is about, until its wait ends
  cli, cliPin, cliNew, cliSite, cliRead,      \* the CLI task: place and locals
  fido, fidoPin, fidoNew, fidoRead,           \* the FIDO task: place and locals
  wrong,                          \* history: wrong PINs since the last right one or wipe
  spoilt,                         \* history: what kept this series of wrong PINs from the count
  since,                          \* history: the epoch in which a PIN was last found right
  mixed,                          \* history: "reset", "kept", "dhInit": see below
  epoch, crashes                  \* wipes, power cuts

fileVars == <<pin, fails, entries>>
ramVars  == <<authed, key, cmdState, pending>>
cliVars  == <<cli, cliPin, cliNew, cliSite, cliRead>>
fidoVars == <<fido, fidoPin, fidoNew, fidoRead>>
histVars == <<wrong, spoilt, since, mixed, epoch>>
vars     == <<fileVars, ramVars, cliVars, fidoVars, histVars, crashes>>

NoEntries == [s \in Sites |-> NoEntry]

Init ==
  /\ pin = NoPin /\ fails = 0 /\ entries = NoEntries
  /\ authed = FALSE /\ key = NoKey /\ cmdState = "ready" /\ pending = NoSite
  /\ cli = "loop" /\ cliPin = NoPin /\ cliNew = NoPin /\ cliSite = NoSite /\ cliRead = 0
  /\ fido = "idle" /\ fidoPin = NoPin /\ fidoNew = NoPin /\ fidoRead = 0
  /\ wrong = 0 /\ spoilt = {} /\ since = 0 /\ mixed = {} /\ epoch = 0 /\ crashes = 0

Stored(s) == entries[s] # NoEntry

CliGoto(l) == cli' = l /\ UNCHANGED <<cliPin, cliNew, cliSite, cliRead>>

\* A command is over; the locals of its handler are gone.
CliDone ==
  /\ cli' = "loop" /\ cliPin' = NoPin /\ cliNew' = NoPin /\ cliSite' = NoSite /\ cliRead' = 0

FidoDone == fido' = "idle" /\ fidoPin' = NoPin /\ fidoNew' = NoPin /\ fidoRead' = 0

\* What is in RAM is gone, and both tasks start again.
Reboot ==
  /\ authed' = FALSE /\ key' = NoKey /\ cmdState' = "ready" /\ pending' = NoSite
  /\ CliDone
  /\ FidoDone

\* The counter is a decimal number: what a short print leaves of n.
Torn(n) == {0, n \div 10}

\* createPin does not look whether it could open or write the file.
WritePin(p) == pin' \in {p} \cup (IF "pin" \in Failing THEN {pin, TornPin} ELSE {})

\* incrementFailedPinAttempts does not look either.
WriteCount(n) ==
  \/ fails' = n /\ UNCHANGED spoilt
  \/ "count" \in Failing /\ fails' \in {fails} \cup Torn(n) /\ spoilt' = spoilt \cup {"flash"}

\* The password file is emptied when it is opened for writing.
WritePasswords(e) ==
  entries' \in {e} \cup (IF "passwords" \in Failing THEN {entries, NoEntries} ELSE {})

\* Files removed by factoryResetSystem and by resetFido2System, under the mutex.
RemoveFiles ==
  /\ \/ pin' = NoPin /\ fails' = 0 /\ entries' = NoEntries
     \/ /\ "remove" \in Failing
        /\ pin' \in {pin, NoPin} /\ fails' \in {fails, 0} /\ entries' \in {entries, NoEntries}
  /\ wrong' = 0 /\ epoch' = epoch + 1
  /\ spoilt' = IF pin' = NoPin THEN {} ELSE {"flash"}

\* "kept": a wipe could not remove the passwords.  "reset": a FIDO Reset and a CLI command met.
Kept       == IF entries' = NoEntries THEN {} ELSE {"kept"}
Met        == IF cli = "loop" THEN {} ELSE {"reset"}

-----------------------------------------------------------------------------
(* The session.                                                            *)

\* DH_INIT ends the session but leaves the storage key ("dhInit", until it is cleared or replaced).
DhInit ==
  /\ cli = "loop"
  /\ authed' = FALSE /\ cmdState' = "ready" /\ pending' = NoSite
  /\ mixed' = IF key = NoKey THEN mixed ELSE mixed \cup {"dhInit"}
  /\ UNCHANGED <<fileVars, key, cliVars, fidoVars, wrong, spoilt, since, epoch, crashes>>

\* RESTART_SYSTEM and DISCONNECT.
LeaveWaiting ==                             \* mutant: the pending command is kept
  /\ cli = "loop"
  /\ authed' = FALSE /\ key' = NoKey
  /\ UNCHANGED <<fileVars, cmdState, pending, cliVars, fidoVars, histVars, crashes>>
Disconnect ==
  /\ cli = "loop"
  /\ authed' = FALSE /\ key' = NoKey /\ cmdState' = "ready" /\ pending' = NoSite
  /\ mixed' = mixed \ {"dhInit"}
  /\ UNCHANGED <<fileVars, cliVars, fidoVars, wrong, spoilt, since, epoch, crashes>>

CreatePin(p) ==
  /\ cli = "loop"
  /\ pin = NoPin
  /\ cli' = "create" /\ cliNew' = p
  /\ UNCHANGED <<fileVars, ramVars, cliPin, cliSite, cliRead, fidoVars, histVars, crashes>>

CreateWrites ==
  /\ cli = "create"
  /\ WritePin(cliNew)
  /\ CliDone
  /\ UNCHANGED <<fails, entries, ramVars, fidoVars, histVars, crashes>>

\* Bound: after MaxEpochs wipes only right PINs are tried.
MayTry(p) == wrong < MaxWrong /\ (epoch < MaxEpochs \/ (epoch = MaxEpochs /\ wrong = 0 /\ p = pin))

VerifyPin(p) ==
  /\ cli = "loop"
  /\ pin # NoPin /\ ~authed
  /\ MayTry(p)
  /\ cli' = "compare" /\ cliPin' = p
  /\ UNCHANGED <<fileVars, ramVars, cliNew, cliSite, cliRead, fidoVars, histVars, crashes>>

UpdatePin(p, q) ==
  /\ cli = "loop"
  /\ pin # NoPin /\ authed
  /\ MayTry(p)
  /\ cli' = "compare" /\ cliPin' = p /\ cliNew' = q
  /\ UNCHANGED <<fileVars, ramVars, cliSite, cliRead, fidoVars, histVars, crashes>>

-----------------------------------------------------------------------------
(* verifyPin, and what its callers do with the result.                     *)

\* A file that cannot be opened is a refusal that is not counted.
Unread ==
  /\ pin = NoPin \/ "read" \in Failing
  /\ CliDone
  /\ UNCHANGED histVars

FoundRight ==
  /\ pin = cliPin
  /\ since' = epoch
  /\ CliGoto("right")
  /\ UNCHANGED <<wrong, spoilt, mixed, epoch>>

FoundWrong ==
  /\ pin # NoPin
  /\ pin # cliPin \/ "read" \in Failing
  /\ wrong' = wrong + 1
  /\ cli' = "wrong" /\ cliPin' = NoPin /\ cliNew' = NoPin /\ UNCHANGED <<cliSite, cliRead>>
  /\ UNCHANGED <<spoilt, since, mixed, epoch>>

Compare ==
  /\ cli = "compare"
  /\ Unread \/ FoundRight \/ FoundWrong
  /\ UNCHANGED <<fileVars, ramVars, fidoVars, crashes>>

\* resetFailedPinAttempts
ClearFails ==
  /\ cli = "right"
  /\ fails' \in {0} \cup (IF "clear" \in Failing THEN {fails} ELSE {})
  /\ wrong' = 0 /\ spoilt' = {}
  /\ CliGoto(IF cliNew = NoPin THEN "unlock" ELSE "newPin")
  /\ UNCHANGED <<pin, entries, ramVars, fidoVars, since, mixed, epoch, crashes>>

Unlock ==
  /\ cli = "unlock"
  /\ authed' = TRUE
  /\ mixed' = mixed \ {"dhInit"}
  /\ CliGoto("derive")
  /\ UNCHANGED <<fileVars, key, cmdState, pending, fidoVars, wrong, spoilt, since, epoch, crashes>>

\* A new PIN that is too short is refused after the old one was found right.
NewPin ==
  /\ cli = "newPin"
  /\ \/ WritePin(cliNew) /\ cli' = "derive" /\ cliPin' = cliNew /\ UNCHANGED <<cliNew, cliSite, cliRead>>
     \/ UNCHANGED pin /\ CliDone
  /\ UNCHANGED <<fails, entries, ramVars, fidoVars, histVars, crashes>>

DeriveKey ==
  /\ cli = "derive"
  /\ key' = cliPin
  /\ CliDone
  /\ UNCHANGED <<fileVars, authed, cmdState, pending, fidoVars, histVars, crashes>>

\* incrementFailedPinAttempts reads, then writes; a count that cannot be read is 0.
CountRead ==
  /\ cli = "wrong"
  /\ cli' = "write"
  /\ \/ cliRead' = fails /\ UNCHANGED spoilt
     \/ "read" \in Failing /\ cliRead' = 0 /\ spoilt' = spoilt \cup {"flash"}
  /\ UNCHANGED <<fileVars, ramVars, cliPin, cliNew, cliSite, fidoVars, wrong, since, mixed, epoch, crashes>>

CountWrite ==
  /\ cli = "write"
  /\ WriteCount(cliRead + 1)
  /\ cli' = "total" /\ cliRead' = 0
  /\ UNCHANGED <<cliPin, cliNew, cliSite, pin, entries, ramVars, fidoVars, wrong, since, mixed, epoch, crashes>>

TotalTooHigh ==                             \* mutant: one attempt too many
  /\ cli = "total"
  /\ IF fails > MaxFails THEN CliGoto("wipe") ELSE CliDone
  /\ UNCHANGED <<fileVars, ramVars, fidoVars, histVars, crashes>>
Total ==
  /\ cli = "total"
  /\ \/ fails >= MaxFails /\ CliGoto("wipe") /\ UNCHANGED spoilt
     \/ fails < MaxFails /\ CliDone /\ UNCHANGED spoilt
     \/ "read" \in Failing /\ CliDone /\ spoilt' = spoilt \cup {"flash"}
  /\ UNCHANGED <<fileVars, ramVars, fidoVars, wrong, since, mixed, epoch, crashes>>

WipeFiles ==
  /\ cli = "wipe"
  /\ RemoveFiles
  /\ mixed' = mixed \cup Kept
  /\ CliGoto("restart")
  /\ UNCHANGED <<ramVars, fidoVars, since, crashes>>

Restart ==
  /\ cli = "restart"
  /\ Reboot
  /\ UNCHANGED <<fileVars, histVars, crashes>>

-----------------------------------------------------------------------------
(* Passwords.                                                              *)

\* savePassword: the key and the entry are looked at before the mutex is taken ...
SavePass(s) ==
  /\ cli = "loop" /\ pin # NoPin /\ authed
  /\ key # NoKey
  /\ ~Stored(s) \/ "read" \in Failing
  /\ cli' = "encrypt" /\ cliSite' = s
  /\ UNCHANGED <<fileVars, ramVars, cliPin, cliNew, cliRead, fidoVars, histVars, crashes>>

\* ... and used after, in a file that is read again.
Reread == {entries} \cup (IF "read" \in Failing THEN {NoEntries} ELSE {})
Encrypt ==
  /\ cli = "encrypt"
  /\ \E old \in Reread :
       WritePasswords([old EXCEPT ![cliSite] = [key |-> key, epoch |-> since]])
  /\ mixed' = mixed \cup (IF fido = "clear" THEN {"reset"} ELSE {})
  /\ CliDone
  /\ UNCHANGED <<pin, fails, ramVars, fidoVars, wrong, spoilt, since, epoch, crashes>>

\* GET_PASS: the password is decrypted and waits for a finger.
GetPass(s) ==
  /\ cli = "loop" /\ pin # NoPin /\ authed
  /\ key # NoKey
  /\ Stored(s) /\ entries[s].key = key
  /\ cli' = "waitGet" /\ cliSite' = s
  /\ UNCHANGED <<fileVars, ramVars, cliPin, cliNew, cliRead, fidoVars, histVars, crashes>>

AwaitGet ==
  /\ cli = "waitGet"
  /\ pending' = cliSite /\ cmdState' = "get"
  /\ CliDone
  /\ UNCHANGED <<fileVars, authed, key, fidoVars, histVars, crashes>>

UpdatePass(s) ==
  /\ cli = "loop" /\ pin # NoPin /\ authed
  /\ Stored(s)
  /\ cli' = "waitUpdate" /\ cliSite' = s
  /\ UNCHANGED <<fileVars, ramVars, cliPin, cliNew, cliRead, fidoVars, histVars, crashes>>

AwaitUpdate ==
  /\ cli = "waitUpdate"
  /\ pending' = cliSite /\ cmdState' = "update"
  /\ CliDone
  /\ UNCHANGED <<fileVars, authed, key, fidoVars, histVars, crashes>>

DeletePass(s) ==
  /\ cli = "loop" /\ pin # NoPin /\ authed
  /\ Stored(s)
  /\ WritePasswords([entries EXCEPT ![s] = NoEntry])
  /\ UNCHANGED <<pin, fails, ramVars, cliVars, fidoVars, histVars, crashes>>

\* PURGE_STORAGE clears the key, and leaves the session.
Purge ==
  /\ cli = "loop" /\ pin # NoPin /\ authed
  /\ entries' \in {NoEntries} \cup (IF "remove" \in Failing THEN {entries} ELSE {})
  /\ key' = NoKey
  /\ UNCHANGED <<pin, fails, authed, cmdState, pending, cliVars, fidoVars, histVars, crashes>>

FactoryReset ==
  /\ cli = "loop" /\ pin # NoPin /\ authed
  /\ epoch < MaxEpochs
  /\ RemoveFiles
  /\ mixed' = mixed \cup Kept
  /\ key' = NoKey /\ authed' = FALSE /\ cmdState' = "ready" /\ pending' = NoSite
  /\ UNCHANGED <<cliVars, fidoVars, since, crashes>>

-----------------------------------------------------------------------------
(* updateFingerprintAsync.                                                 *)

FingerSends ==
  /\ cli = "loop" /\ cmdState = "get"
  /\ pending' = NoSite /\ cmdState' = "ready"
  /\ UNCHANGED <<fileVars, authed, key, cliVars, fidoVars, histVars, crashes>>

\* The same confidence twice in a row counts as a replay.
FingerReplayed ==
  /\ cli = "loop" /\ cmdState # "ready"
  /\ pending' = NoSite /\ cmdState' = "ready"
  /\ UNCHANGED <<fileVars, authed, key, cliVars, fidoVars, histVars, crashes>>

\* An update deletes the old entry and then saves the new one.
FingerUpdates ==
  /\ cli = "loop" /\ cmdState = "update"
  /\ WritePasswords([entries EXCEPT ![pending] = NoEntry])
  /\ cli' = "resave" /\ cliSite' = pending
  /\ UNCHANGED <<cliPin, cliNew, cliRead, pin, fails, ramVars, fidoVars, histVars, crashes>>

Resave ==
  /\ cli = "resave"
  /\ IF key # NoKey /\ (~Stored(cliSite) \/ "read" \in Failing) THEN CliGoto("encrypt") ELSE CliDone
  /\ pending' = NoSite /\ cmdState' = "ready"
  /\ UNCHANGED <<fileVars, authed, key, fidoVars, histVars, crashes>>

-----------------------------------------------------------------------------
(* The FIDO task: ClientPIN setPIN and changePIN, and Reset.               *)

FidoSetPin(q) ==
  /\ "setPin" \in FidoOps /\ fido = "idle"
  /\ pin = NoPin
  /\ fido' = "newPin" /\ fidoNew' = q
  /\ UNCHANGED <<fileVars, ramVars, cliVars, fidoPin, fidoRead, histVars, crashes>>

\* At the limit the command is refused, and nothing is wiped.
FidoChangePin(p, q) ==
  /\ "changePin" \in FidoOps /\ fido = "idle"
  /\ pin # NoPin
  /\ fails < MaxFails \/ "read" \in Failing
  /\ MayTry(p)
  /\ fido' = "compare" /\ fidoPin' = p /\ fidoNew' = q
  /\ UNCHANGED <<fileVars, ramVars, cliVars, fidoRead, histVars, crashes>>

\* Half of the hash is compared, so a torn file may match.
FidoCompare ==
  /\ fido = "compare"
  /\ \/ /\ pin \in {fidoPin, TornPin}
        /\ fido' = "right"
        /\ UNCHANGED <<fidoNew, wrong, spoilt>>
     \/ /\ pin # fidoPin \/ "read" \in Failing
        /\ fido' = "wrong" /\ fidoNew' = NoPin
        /\ wrong' = wrong + 1 /\ spoilt' = spoilt \cup {"changePin"}
  /\ fidoPin' = NoPin
  /\ UNCHANGED <<fileVars, ramVars, cliVars, fidoRead, since, mixed, epoch, crashes>>

\* The counter is cleared, also between the last wrong PIN of a login and its wipe.
FidoClearFails ==
  /\ fido = "right"
  /\ fails' \in {0} \cup (IF "clear" \in Failing THEN {fails} ELSE {})
  /\ wrong' = 0
  /\ spoilt' = IF wrong >= MaxFails THEN {"cleared"} ELSE {}
  /\ fido' = "newPin"
  /\ UNCHANGED <<pin, entries, ramVars, cliVars, fidoPin, fidoNew, fidoRead, since, mixed, epoch, crashes>>

FidoNewPin ==
  /\ fido = "newPin"
  /\ WritePin(fidoNew) \/ UNCHANGED pin
  /\ FidoDone
  /\ UNCHANGED <<fails, entries, ramVars, cliVars, histVars, crashes>>

FidoCountRead ==
  /\ fido = "wrong"
  /\ fidoRead' \in {fails} \cup (IF "read" \in Failing THEN {0} ELSE {})
  /\ fido' = "write"
  /\ UNCHANGED <<fileVars, ramVars, cliVars, fidoPin, fidoNew, histVars, crashes>>

FidoCountWrite ==
  /\ fido = "write"
  /\ fails' \in {fidoRead + 1} \cup (IF "count" \in Failing THEN {fails} \cup Torn(fidoRead + 1) ELSE {})
  /\ spoilt' = spoilt \cup {"changePin"}
  /\ FidoDone
  /\ UNCHANGED <<pin, entries, ramVars, cliVars, wrong, since, mixed, epoch, crashes>>

CanReset == "reset" \in FidoOps /\ fido = "idle" /\ epoch < MaxEpochs
FidoReset ==
  /\ CanReset
  /\ RemoveFiles
  /\ fido' = "clear"
  /\ mixed' = mixed \cup Kept \cup Met
  /\ UNCHANGED <<ramVars, cliVars, fidoPin, fidoNew, fidoRead, since, crashes>>

\* The mutex is given back before the session is ended.
ClearsKeyOnly ==                            \* mutant: the session goes on
  /\ fido = "clear"
  /\ key' = NoKey /\ cmdState' = "ready" /\ pending' = NoSite
  /\ mixed' = mixed \cup Met
  /\ FidoDone
  /\ UNCHANGED <<fileVars, authed, cliVars, wrong, spoilt, since, epoch, crashes>>
FidoResetClears ==
  /\ fido = "clear"
  /\ key' = NoKey /\ authed' = FALSE /\ cmdState' = "ready" /\ pending' = NoSite
  /\ mixed' = mixed \cup Met
  /\ FidoDone
  /\ UNCHANGED <<fileVars, cliVars, wrong, spoilt, since, epoch, crashes>>

-----------------------------------------------------------------------------
(* Loss of power.                                                          *)

\* What is left of the file that was being written, or of the files being removed.
CutInPin ==
  /\ cli \in {"create", "newPin"} \/ fido = "newPin"
  /\ pin' = TornPin /\ UNCHANGED <<fails, entries>>
CutInCount ==
  /\ \/ cli = "write" /\ fails' \in Torn(cliRead + 1)
     \/ fido = "write" /\ fails' \in Torn(fidoRead + 1)
  /\ UNCHANGED <<pin, entries>>
CutInPasswords ==
  /\ cli = "encrypt" \/ (cli = "loop" /\ pin # NoPin /\ authed)
  /\ entries' = NoEntries /\ UNCHANGED <<pin, fails>>
CutInWipe ==
  /\ cli = "wipe" \/ (cli = "loop" /\ pin # NoPin /\ authed) \/ CanReset
  /\ entries' = NoEntries /\ pin' \in {pin, NoPin} /\ UNCHANGED fails

Crash ==
  /\ crashes < MaxCrashes
  /\ crashes' = crashes + 1
  /\ UNCHANGED fileVars \/ CutInPin \/ CutInCount \/ CutInPasswords \/ CutInWipe
  /\ Reboot
  /\ spoilt' = IF cli \in {"wrong", "write", "total", "wipe"} \/ fido \in {"wrong", "write"}
                 THEN spoilt \cup {"crash"} ELSE spoilt
  /\ UNCHANGED <<wrong, since, mixed, epoch>>

CliCommands ==
  \/ DhInit \/ Disconnect \/ Purge \/ FactoryReset
  \/ \E p \in Pins : CreatePin(p) \/ VerifyPin(p) \/ \E q \in Pins : UpdatePin(p, q)
  \/ \E s \in Sites : SavePass(s) \/ GetPass(s) \/ UpdatePass(s) \/ DeletePass(s)
  \/ FingerSends \/ FingerReplayed \/ FingerUpdates

CliSteps ==
  \/ Compare \/ ClearFails \/ Unlock \/ NewPin \/ DeriveKey
  \/ CountRead \/ CountWrite \/ Total \/ WipeFiles \/ Restart
  \/ CreateWrites \/ Encrypt \/ Resave \/ AwaitGet \/ AwaitUpdate

FidoSteps ==
  \/ FidoCompare \/ FidoClearFails \/ FidoNewPin \/ FidoCountRead \/ FidoCountWrite \/ FidoResetClears

FidoCommands ==
  \/ \E q \in Pins : FidoSetPin(q)
  \/ \E p, q \in Pins : FidoChangePin(p, q)
  \/ FidoReset

Next == CliCommands \/ CliSteps \/ FidoCommands \/ FidoSteps \/ Crash

Spec == Init /\ [][Next]_vars

\* A command that was begun is carried on: both tasks are scheduled.
FairSpec == Spec /\ WF_vars(CliSteps) /\ WF_vars(FidoSteps)

-----------------------------------------------------------------------------
(* Properties.                                                             *)

\* Every variable keeps its type.
TypeOK ==
  /\ pin \in Pins \cup {NoPin, TornPin} /\ key \in Pins \cup {NoKey}
  /\ fails \in Nat /\ wrong \in Nat /\ epoch \in Nat /\ since \in Nat
  /\ entries \in [Sites -> {NoEntry} \cup [key : Pins \cup {NoKey}, epoch : Nat]]
  /\ authed \in BOOLEAN
  /\ cmdState \in {"ready", "get", "update"}
  /\ pending \in Sites \cup {NoSite}
  /\ cliSite \in Sites \cup {NoSite} /\ cliRead \in Nat /\ fidoRead \in Nat
  /\ cliPin \in Pins \cup {NoPin} /\ cliNew \in Pins \cup {NoPin}
  /\ fidoPin \in Pins \cup {NoPin} /\ fidoNew \in Pins \cup {NoPin}

\* No password is encrypted under the cleared key: savePassword answers
\* "Storage key is not unlocked." instead.  Only a FIDO Reset on the other core,
\* between the look at the key and its use, gets past that.
SavedUnderKey == "reset" \notin mixed => \A s \in Sites : entries[s].key # NoKey

\* A command waits for a finger only while its session lasts: ending the
\* session, by whatever CLI command, wipe or power cut, ends the wait.
WaitsInSession == "reset" \notin mixed /\ cmdState # "ready" => authed

\* The storage key is loaded only during a session.  DH_INIT is the one command
\* that ends the session and leaves the key, which then stays until the next login.
KeyInSession == mixed \cap {"reset", "dhInit"} = {} /\ key # NoKey => authed

\* The end of a session, by any command, wipe or power cut, takes its waiting command with
\* it, and its key but for DH_INIT; and nothing is saved under the cleared key.  Excepted are
\* a FIDO Reset that met a CLI command ("reset") and the key after DH_INIT ("dhInit").
SessionHolds == TypeOK /\ SavedUnderKey /\ WaitsInSession /\ KeyInSession

\* No login survives a wipe, a factory reset or a FIDO Reset: once the command is over, an
\* open session is of a PIN found right after it ...
LoginIsNew == "reset" \notin mixed /\ authed /\ fido # "clear" /\ cli # "restart" => since = epoch

\* ... and so is every password in the file: nothing is left of what was stored before,
\* nor does a command that was under way save anything in a session of before.
StoredIsNew == mixed \cap {"reset", "kept"} = {} => \A s \in Sites : Stored(s) => entries[s].epoch = epoch

\* A wipe forgets logins and passwords.  Excepted are a FIDO Reset that met a CLI command
\* ("reset"), and for the passwords a file that could not be removed ("kept").
WipeForgets == LoginIsNew /\ StoredIsNew

\* After MaxFails wrong PINs in a row the login path wipes the device, unless in this series
\* changePIN counted a wrong PIN, a right one of changePIN cleared the counter before the
\* wipe, the power went between a wrong PIN and its wipe, or the flash failed: a counter that
\* was not read or written, or a PIN that was not removed.
LoginLimitWipes == (wrong >= MaxFails) ~> (pin = NoPin \/ spoilt # {})

\* After MaxFails wrong PINs in a row the device is wiped ("Secure wipe
\* triggered automatically after 10 invalid PIN attempts").
WipedAtLimit == (wrong >= MaxFails) ~> (pin = NoPin)
=============================================================================
