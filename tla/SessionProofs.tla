---------------------------- MODULE SessionProofs ---------------------------
(***************************************************************************)
(* Proofs about the session between the host and the vault, for any number *)
(* of PINs, tasks, events, pages, records, lost lines, wipes and power     *)
(* cuts.                                                                   *)
(*                                                                         *)
(* Vault: what a command looked at one step earlier still holds when it    *)
(* uses it, and a wipe forgets.                                            *)
(* Nonce: the counters alone keep the AES-GCM nonces of                    *)
(* src/CryptoManager.cpp apart for as long as NVS is read and written and  *)
(* no two increments meet.                                                 *)
(* Terminal: a task that sends alone has its event put together again by   *)
(* the page, from the pieces that src/SecureTerminal.cpp cuts it into.     *)
(* Dashboard: the page and the CLI task agree on the key, and on whose     *)
(* request is under way, at every point of every exchange on the line.     *)
(*                                                                         *)
(* None of the properties is inductive.  Each invariant below says where   *)
(* every nonce, part or request is at any moment.                          *)
(***************************************************************************)
EXTENDS Vault, Dashboard, Nonce, Terminal, SequenceTheorems, TLAPS

-----------------------------------------------------------------------------
(* Vault.  What a command looked at one step earlier still holds when it   *)
(* uses it, unless a FIDO Reset met it: the key (KeyHeld), the session     *)
(* (SessionHeld), that the PIN was found right after the last wipe         *)
(* (SinceHeld), and that the key is derived from a PIN (PinHeld).          *)

Places ==
  /\ cli \in {"loop", "create", "compare", "right", "wrong", "unlock", "newPin", "derive", "write",
              "total", "wipe", "restart", "encrypt", "waitGet", "waitUpdate", "resave"}
  /\ fido \in {"idle", "newPin", "compare", "right", "wrong", "write", "clear"}

\* What /passwords.json may be.
Files == [Sites -> {NoEntry} \cup [key : Pins \cup {NoKey}, epoch : Nat]]

\* TypeOK but for its flag.
Types ==
  /\ pin \in Pins \cup {NoPin, TornPin} /\ key \in Pins \cup {NoKey}
  /\ fails \in Nat /\ wrong \in Nat /\ epoch \in Nat /\ since \in Nat
  /\ entries \in Files
  /\ cmdState \in {"ready", "get", "update"}
  /\ pending \in Sites \cup {NoSite}
  /\ cliSite \in Sites \cup {NoSite} /\ cliRead \in Nat /\ fidoRead \in Nat
  /\ cliPin \in Pins \cup {NoPin} /\ cliNew \in Pins \cup {NoPin}
  /\ fidoPin \in Pins \cup {NoPin} /\ fidoNew \in Pins \cup {NoPin}

\* A handler holds its PINs until they are used, and none is left behind.
PinHeld ==
  /\ cli \in {"compare", "right", "unlock", "newPin", "derive"} => cliPin \in Pins
  /\ cli \in {"create", "newPin"} => cliNew \in Pins
  /\ cli = "loop" => cliNew = NoPin
  /\ fido = "newPin" => fidoNew \in Pins
  /\ fido \in {"compare", "right"} => fidoNew \in Pins

\* Only a FIDO Reset clears the key between savePassword's look at it and its use ...
KeyHeld == "reset" \notin mixed /\ cli = "encrypt" => key # NoKey

\* ... or ends the session of a command that will wait for a finger or load a key.
SessionHeld ==
  /\ "reset" \notin mixed /\ cli \in {"waitGet", "waitUpdate", "newPin", "derive"} => authed
  /\ "reset" \notin mixed /\ cli \in {"compare", "right"} /\ cliNew # NoPin => authed

\* Only a FIDO Reset comes between finding a PIN right and opening the session, and
\* between the look at the session and saving in it.
SinceHeld ==
  /\ "reset" \notin mixed /\ cli \in {"right", "unlock"} => since = epoch
  /\ "reset" \notin mixed /\ cli \in {"encrypt", "resave"} /\ fido # "clear" => since = epoch

IInv == Places /\ Types /\ authed \in BOOLEAN /\ PinHeld /\ KeyHeld /\ SessionHeld /\ SinceHeld
        /\ SavedUnderKey /\ WaitsInSession /\ KeyInSession /\ LoginIsNew /\ StoredIsNew

-----------------------------------------------------------------------------
\* An entry may be changed or removed, and the file emptied.
LEMMA NoneTyped == NoEntries \in Files
    BY DEF NoEntries, Files

LEMMA OneTyped ==
  ASSUME NEW e \in Files, NEW s, NEW x \in {NoEntry} \cup [key : Pins \cup {NoKey}, epoch : Nat]
  PROVE  [e EXCEPT ![s] = x] \in Files
    BY DEF Files

\* Nothing else is left behind by a write that fails.
LEMMA WriteTyped ==
  ASSUME NEW e \in Files, entries \in Files, WritePasswords(e)
  PROVE  entries' \in Files
    BY NoneTyped DEF WritePasswords

\* None of these brings in an entry under the cleared key ...
Keyed(e) == \A s \in Sites : e[s].key # NoKey

LEMMA NoneKeyed == Keyed(NoEntries)
    BY DEF Keyed, NoEntries, NoEntry, NoKey

LEMMA OneKeyed ==
  ASSUME NEW e \in Files, NEW s, NEW x, x.key # NoKey, Keyed(e)
  PROVE  Keyed([e EXCEPT ![s] = x])
    BY DEF Files, Keyed

LEMMA WriteKeyed ==
  ASSUME NEW e, Keyed(e), Keyed(entries), WritePasswords(e)
  PROVE  Keyed(entries')
    BY NoneKeyed DEF WritePasswords

\* ... or one of before the last wipe.
AllSince(e) == \A s \in Sites : e[s] # NoEntry => e[s].epoch = epoch

LEMMA NoneSince == AllSince(NoEntries)
    BY DEF AllSince, NoEntries, NoEntry

LEMMA OneSince ==
  ASSUME NEW e \in Files, NEW s, NEW x, x.epoch = epoch, AllSince(e)
  PROVE  AllSince([e EXCEPT ![s] = x])
    BY DEF Files, AllSince

LEMMA WriteSince ==
  ASSUME NEW e, AllSince(e), AllSince(entries), WritePasswords(e), epoch' = epoch
  PROVE  AllSince(entries)'
    BY NoneSince DEF WritePasswords, AllSince

\* A device out of the factory: no PIN, no password, nobody logged in.
LEMMA Initially == Init => IInv
<1> SUFFICES ASSUME Init PROVE IInv
    OBVIOUS
<1>1. Places /\ Types
    BY NoneTyped DEF Init, Places, Types
<1>2. authed \in BOOLEAN
    BY Zenon DEF Init
<1>3. PinHeld /\ KeyHeld /\ SessionHeld /\ SinceHeld
    BY DEF Init, PinHeld, KeyHeld, SessionHeld, SinceHeld
<1>4. SavedUnderKey /\ WaitsInSession /\ KeyInSession /\ LoginIsNew /\ StoredIsNew
    BY DEF Init, SavedUnderKey, WaitsInSession, KeyInSession, LoginIsNew, StoredIsNew, Stored, NoEntries, NoEntry, NoKey
<1> QED BY <1>1, <1>2, <1>3, <1>4 DEF IInv

\* Every step of either task, and a power cut, keeps places and types.
LEMMA TypesKept == Places /\ Types /\ PinHeld /\ [Next]_vars => (Places /\ Types /\ PinHeld)'
<1> SUFFICES ASSUME Places /\ Types /\ PinHeld, [Next]_vars PROVE (Places /\ Types /\ PinHeld)'
    OBVIOUS
<1> USE DEF Places, Types, PinHeld, fileVars, ramVars, cliVars, fidoVars, histVars
<1>1. CASE DhInit
    BY <1>1 DEF DhInit
<1>2. CASE Disconnect
    BY <1>2 DEF Disconnect
<1>3. CASE Purge
    <2>1. entries' \in Files
        BY <1>3, NoneTyped DEF Purge
    <2> QED BY <1>3, <2>1 DEF Purge
<1>4. CASE FactoryReset
    <2>1. entries' \in Files
        BY <1>4, NoneTyped DEF FactoryReset, RemoveFiles
    <2> QED BY <1>4, <2>1 DEF FactoryReset, RemoveFiles
<1>5. ASSUME NEW p \in Pins, CreatePin(p) PROVE (Places /\ Types /\ PinHeld)'
    BY <1>5 DEF CreatePin
<1>6. ASSUME NEW p \in Pins, VerifyPin(p) PROVE (Places /\ Types /\ PinHeld)'
    BY <1>6 DEF VerifyPin
<1>7. ASSUME NEW p \in Pins, NEW q \in Pins, UpdatePin(p, q) PROVE (Places /\ Types /\ PinHeld)'
    BY <1>7 DEF UpdatePin
<1>8. ASSUME NEW s \in Sites, SavePass(s) PROVE (Places /\ Types /\ PinHeld)'
    BY <1>8 DEF SavePass
<1>9. ASSUME NEW s \in Sites, GetPass(s) PROVE (Places /\ Types /\ PinHeld)'
    BY <1>9 DEF GetPass
<1>10. ASSUME NEW s \in Sites, UpdatePass(s) PROVE (Places /\ Types /\ PinHeld)'
    BY <1>10 DEF UpdatePass
<1>11. ASSUME NEW s \in Sites, DeletePass(s) PROVE (Places /\ Types /\ PinHeld)'
    <2>1. entries' \in Files
        BY <1>11, OneTyped, WriteTyped DEF DeletePass
    <2> QED BY <1>11, <2>1 DEF DeletePass
<1>12. CASE FingerSends
    BY <1>12 DEF FingerSends
<1>13. CASE FingerReplayed
    BY <1>13 DEF FingerReplayed
<1>14. CASE FingerUpdates
    <2>1. entries' \in Files
        BY <1>14, OneTyped, WriteTyped DEF FingerUpdates
    <2> QED BY <1>14, <2>1 DEF FingerUpdates
<1>15. CASE CreateWrites
    BY <1>15 DEF CreateWrites, WritePin, CliDone
<1>16. CASE Compare
    BY <1>16 DEF Compare, Unread, FoundRight, FoundWrong, CliGoto, CliDone
<1>17. CASE ClearFails
    BY <1>17 DEF ClearFails, CliGoto
<1>18. CASE Unlock
    BY <1>18 DEF Unlock, CliGoto
<1>19. CASE NewPin
    BY <1>19 DEF NewPin, WritePin, CliDone
<1>20. CASE DeriveKey
    BY <1>20 DEF DeriveKey, CliDone
<1>21. CASE CountRead
    BY <1>21 DEF CountRead
<1>22. CASE CountWrite
    BY <1>22 DEF CountWrite, WriteCount, Torn
<1>23. CASE Total
    BY <1>23 DEF Total, CliGoto, CliDone
<1>24. CASE WipeFiles
    <2>1. entries' \in Files
        BY <1>24, NoneTyped DEF WipeFiles, RemoveFiles
    <2> QED BY <1>24, <2>1 DEF WipeFiles, RemoveFiles, CliGoto
<1>25. CASE Restart
    BY <1>25 DEF Restart, Reboot, CliDone, FidoDone
<1>26. CASE Encrypt
    <2>1. PICK old \in Reread : WritePasswords([old EXCEPT ![cliSite] = [key |-> key, epoch |-> since]])
        BY <1>26 DEF Encrypt
    <2>2. old \in Files
        BY NoneTyped DEF Reread
    <2>3. entries' \in Files
        BY <2>1, <2>2, OneTyped, WriteTyped
    <2> QED BY <1>26, <2>3 DEF Encrypt, CliDone
<1>27. CASE Resave
    BY <1>27 DEF Resave, CliGoto, CliDone
<1>28. CASE AwaitGet
    BY <1>28 DEF AwaitGet, CliDone
<1>29. CASE AwaitUpdate
    BY <1>29 DEF AwaitUpdate, CliDone
<1>30. ASSUME NEW q \in Pins, FidoSetPin(q) PROVE (Places /\ Types /\ PinHeld)'
    BY <1>30 DEF FidoSetPin
<1>31. ASSUME NEW p \in Pins, NEW q \in Pins, FidoChangePin(p, q) PROVE (Places /\ Types /\ PinHeld)'
    BY <1>31 DEF FidoChangePin
<1>32. CASE FidoReset
    <2>1. entries' \in Files
        BY <1>32, NoneTyped DEF FidoReset, RemoveFiles
    <2> QED BY <1>32, <2>1 DEF FidoReset, RemoveFiles
<1>33. CASE FidoCompare
    BY <1>33 DEF FidoCompare
<1>34. CASE FidoClearFails
    BY <1>34 DEF FidoClearFails
<1>35. CASE FidoNewPin
    BY <1>35 DEF FidoNewPin, WritePin, FidoDone
<1>36. CASE FidoCountRead
    BY <1>36 DEF FidoCountRead
<1>37. CASE FidoCountWrite
    BY <1>37 DEF FidoCountWrite, Torn, FidoDone
<1>38. CASE FidoResetClears
    BY <1>38 DEF FidoResetClears, Met, FidoDone
<1>39. CASE Crash
    <2>1. entries' \in Files
        BY <1>39, NoneTyped DEF Crash, CutInPin, CutInCount, CutInPasswords, CutInWipe
    <2> QED BY <1>39, <2>1 DEF Crash, CutInPin, CutInCount, Torn, CutInPasswords, CutInWipe, Reboot, CliDone, FidoDone
<1>40. CASE UNCHANGED vars
    BY <1>40 DEF vars
<1> QED BY <1>1, <1>2, <1>3, <1>4, <1>5, <1>6, <1>7, <1>8, <1>9, <1>10, <1>11, <1>12,
        <1>13, <1>14, <1>15, <1>16, <1>17, <1>18, <1>19, <1>20, <1>21, <1>22, <1>23, <1>24,
        <1>25, <1>26, <1>27, <1>28, <1>29, <1>30, <1>31, <1>32, <1>33, <1>34, <1>35, <1>36,
        <1>37, <1>38, <1>39, <1>40 DEF Next, CliCommands, CliSteps, FidoCommands, FidoSteps

\* The session flag is a flag.
LEMMA FlagKept == authed \in BOOLEAN /\ [Next]_vars => (authed \in BOOLEAN)'
<1> SUFFICES ASSUME authed \in BOOLEAN, [Next]_vars PROVE (authed \in BOOLEAN)'
    OBVIOUS
<1> USE DEF fileVars, ramVars, cliVars, fidoVars, histVars
<1>1. CASE DhInit
    BY <1>1, Zenon DEF DhInit
<1>2. CASE Disconnect
    BY <1>2, Zenon DEF Disconnect
<1>3. CASE Purge
    BY <1>3, Zenon DEF Purge
<1>4. CASE FactoryReset
    BY <1>4, Zenon DEF FactoryReset
<1>5. ASSUME NEW p \in Pins, CreatePin(p) PROVE (authed \in BOOLEAN)'
    BY <1>5, Zenon DEF CreatePin
<1>6. ASSUME NEW p \in Pins, VerifyPin(p) PROVE (authed \in BOOLEAN)'
    BY <1>6, Zenon DEF VerifyPin
<1>7. ASSUME NEW p \in Pins, NEW q \in Pins, UpdatePin(p, q) PROVE (authed \in BOOLEAN)'
    BY <1>7, Zenon DEF UpdatePin
<1>8. ASSUME NEW s \in Sites, SavePass(s) PROVE (authed \in BOOLEAN)'
    BY <1>8, Zenon DEF SavePass
<1>9. ASSUME NEW s \in Sites, GetPass(s) PROVE (authed \in BOOLEAN)'
    BY <1>9, Zenon DEF GetPass
<1>10. ASSUME NEW s \in Sites, UpdatePass(s) PROVE (authed \in BOOLEAN)'
    BY <1>10, Zenon DEF UpdatePass
<1>11. ASSUME NEW s \in Sites, DeletePass(s) PROVE (authed \in BOOLEAN)'
    BY <1>11, Zenon DEF DeletePass
<1>12. CASE FingerSends
    BY <1>12, Zenon DEF FingerSends
<1>13. CASE FingerReplayed
    BY <1>13, Zenon DEF FingerReplayed
<1>14. CASE FingerUpdates
    BY <1>14, Zenon DEF FingerUpdates
<1>15. CASE CreateWrites
    BY <1>15, Zenon DEF CreateWrites, CliDone
<1>16. CASE Compare
    BY <1>16, Zenon DEF Compare, Unread, FoundRight, FoundWrong, CliGoto, CliDone
<1>17. CASE ClearFails
    BY <1>17, Zenon DEF ClearFails, CliGoto
<1>18. CASE Unlock
    BY <1>18, Zenon DEF Unlock, CliGoto
<1>19. CASE NewPin
    BY <1>19, Zenon DEF NewPin, CliDone
<1>20. CASE DeriveKey
    BY <1>20, Zenon DEF DeriveKey, CliDone
<1>21. CASE CountRead
    BY <1>21, Zenon DEF CountRead
<1>22. CASE CountWrite
    BY <1>22, Zenon DEF CountWrite
<1>23. CASE Total
    BY <1>23, Zenon DEF Total, CliGoto, CliDone
<1>24. CASE WipeFiles
    BY <1>24, Zenon DEF WipeFiles, CliGoto
<1>25. CASE Restart
    BY <1>25, Zenon DEF Restart, Reboot, CliDone, FidoDone
<1>26. CASE Encrypt
    BY <1>26, Zenon DEF Encrypt, CliDone
<1>27. CASE Resave
    BY <1>27, Zenon DEF Resave, CliGoto, CliDone
<1>28. CASE AwaitGet
    BY <1>28, Zenon DEF AwaitGet, CliDone
<1>29. CASE AwaitUpdate
    BY <1>29, Zenon DEF AwaitUpdate, CliDone
<1>30. ASSUME NEW q \in Pins, FidoSetPin(q) PROVE (authed \in BOOLEAN)'
    BY <1>30, Zenon DEF FidoSetPin
<1>31. ASSUME NEW p \in Pins, NEW q \in Pins, FidoChangePin(p, q) PROVE (authed \in BOOLEAN)'
    BY <1>31, Zenon DEF FidoChangePin
<1>32. CASE FidoReset
    BY <1>32, Zenon DEF FidoReset
<1>33. CASE FidoCompare
    BY <1>33, Zenon DEF FidoCompare
<1>34. CASE FidoClearFails
    BY <1>34, Zenon DEF FidoClearFails
<1>35. CASE FidoNewPin
    BY <1>35, Zenon DEF FidoNewPin, FidoDone
<1>36. CASE FidoCountRead
    BY <1>36, Zenon DEF FidoCountRead
<1>37. CASE FidoCountWrite
    BY <1>37, Zenon DEF FidoCountWrite, FidoDone
<1>38. CASE FidoResetClears
    BY <1>38, Zenon DEF FidoResetClears, FidoDone
<1>39. CASE Crash
    BY <1>39, Zenon DEF Crash, Reboot, CliDone, FidoDone
<1>40. CASE UNCHANGED vars
    BY <1>40, Zenon DEF vars
<1> QED BY <1>1, <1>2, <1>3, <1>4, <1>5, <1>6, <1>7, <1>8, <1>9, <1>10, <1>11, <1>12,
        <1>13, <1>14, <1>15, <1>16, <1>17, <1>18, <1>19, <1>20, <1>21, <1>22, <1>23, <1>24,
        <1>25, <1>26, <1>27, <1>28, <1>29, <1>30, <1>31, <1>32, <1>33, <1>34, <1>35, <1>36,
        <1>37, <1>38, <1>39, <1>40 DEF Next, CliCommands, CliSteps, FidoCommands, FidoSteps

\* The key that was looked at is the key that is used.
LEMMA KeyKept == Types /\ KeyHeld /\ SavedUnderKey /\ [Next]_vars => (KeyHeld /\ SavedUnderKey)'
<1> SUFFICES ASSUME Types /\ KeyHeld /\ SavedUnderKey, [Next]_vars PROVE (KeyHeld /\ SavedUnderKey)'
    OBVIOUS
<1> USE DEF Types, KeyHeld, SavedUnderKey, fileVars, ramVars, cliVars, fidoVars, histVars
<1>1. CASE DhInit
    BY <1>1 DEF DhInit
<1>2. CASE Disconnect
    BY <1>2 DEF Disconnect
<1>3. CASE Purge
    <2>1. entries' \in {entries, NoEntries}
        BY <1>3 DEF Purge
    <2>2. Keyed(entries) => Keyed(entries')
        BY <2>1, NoneKeyed
    <2> QED BY <1>3, <2>2 DEF Purge, Keyed
<1>4. CASE FactoryReset
    <2>1. entries' \in {entries, NoEntries}
        BY <1>4 DEF FactoryReset, RemoveFiles
    <2>2. Keyed(entries) => Keyed(entries')
        BY <2>1, NoneKeyed
    <2> QED BY <1>4, <2>2 DEF FactoryReset, Keyed
<1>5. ASSUME NEW p \in Pins, CreatePin(p) PROVE (KeyHeld /\ SavedUnderKey)'
    BY <1>5 DEF CreatePin
<1>6. ASSUME NEW p \in Pins, VerifyPin(p) PROVE (KeyHeld /\ SavedUnderKey)'
    BY <1>6 DEF VerifyPin
<1>7. ASSUME NEW p \in Pins, NEW q \in Pins, UpdatePin(p, q) PROVE (KeyHeld /\ SavedUnderKey)'
    BY <1>7 DEF UpdatePin
<1>8. ASSUME NEW s \in Sites, SavePass(s) PROVE (KeyHeld /\ SavedUnderKey)'
    BY <1>8 DEF SavePass
<1>9. ASSUME NEW s \in Sites, GetPass(s) PROVE (KeyHeld /\ SavedUnderKey)'
    BY <1>9 DEF GetPass
<1>10. ASSUME NEW s \in Sites, UpdatePass(s) PROVE (KeyHeld /\ SavedUnderKey)'
    BY <1>10 DEF UpdatePass
<1>11. ASSUME NEW s \in Sites, DeletePass(s) PROVE (KeyHeld /\ SavedUnderKey)'
    <2>1. NoEntry.key # NoKey
        BY DEF NoEntry, NoKey
    <2>2. Keyed(entries) => Keyed([entries EXCEPT ![s] = NoEntry])
        BY <2>1, OneKeyed
    <2>3. Keyed(entries) => Keyed(entries')
        BY <1>11, <2>2, WriteKeyed DEF DeletePass
    <2> QED BY <1>11, <2>3 DEF DeletePass, Keyed
<1>12. CASE FingerSends
    BY <1>12 DEF FingerSends
<1>13. CASE FingerReplayed
    BY <1>13 DEF FingerReplayed
<1>14. CASE FingerUpdates
    <2>1. NoEntry.key # NoKey
        BY DEF NoEntry, NoKey
    <2>2. Keyed(entries) => Keyed([entries EXCEPT ![pending] = NoEntry])
        BY <2>1, OneKeyed
    <2>3. Keyed(entries) => Keyed(entries')
        BY <1>14, <2>2, WriteKeyed DEF FingerUpdates
    <2> QED BY <1>14, <2>3 DEF FingerUpdates, Keyed
<1>15. CASE CreateWrites
    BY <1>15 DEF CreateWrites, CliDone
<1>16. CASE Compare
    BY <1>16 DEF Compare, Unread, FoundRight, FoundWrong, CliGoto, CliDone
<1>17. CASE ClearFails
    BY <1>17 DEF ClearFails, CliGoto
<1>18. CASE Unlock
    BY <1>18 DEF Unlock, CliGoto
<1>19. CASE NewPin
    BY <1>19 DEF NewPin, CliDone
<1>20. CASE DeriveKey
    BY <1>20 DEF DeriveKey, CliDone
<1>21. CASE CountRead
    BY <1>21 DEF CountRead
<1>22. CASE CountWrite
    BY <1>22 DEF CountWrite
<1>23. CASE Total
    BY <1>23 DEF Total, CliGoto, CliDone
<1>24. CASE WipeFiles
    <2>1. entries' \in {entries, NoEntries}
        BY <1>24 DEF WipeFiles, RemoveFiles
    <2>2. Keyed(entries) => Keyed(entries')
        BY <2>1, NoneKeyed
    <2> QED BY <1>24, <2>2 DEF WipeFiles, CliGoto, Keyed
<1>25. CASE Restart
    BY <1>25 DEF Restart, Reboot, CliDone, FidoDone
<1>26. CASE Encrypt
    <2> SUFFICES ASSUME "reset" \notin mixed' PROVE Keyed(entries')
        BY <1>26 DEF Encrypt, CliDone, Keyed
    <2>1. "reset" \notin mixed /\ key # NoKey /\ Keyed(entries)
        BY <1>26 DEF Encrypt, Keyed
    <2>2. PICK old \in Reread : WritePasswords([old EXCEPT ![cliSite] = [key |-> key, epoch |-> since]])
        BY <1>26 DEF Encrypt
    <2>3. old \in Files /\ Keyed(old)
        BY <2>1, NoneTyped, NoneKeyed DEF Reread
    <2>4. [key |-> key, epoch |-> since].key # NoKey
        BY <2>1
    <2>5. Keyed([old EXCEPT ![cliSite] = [key |-> key, epoch |-> since]])
        BY <2>3, <2>4, OneKeyed
    <2> QED BY <2>1, <2>2, <2>5, WriteKeyed
<1>27. CASE Resave
    BY <1>27 DEF Resave, CliGoto, CliDone
<1>28. CASE AwaitGet
    BY <1>28 DEF AwaitGet, CliDone
<1>29. CASE AwaitUpdate
    BY <1>29 DEF AwaitUpdate, CliDone
<1>30. ASSUME NEW q \in Pins, FidoSetPin(q) PROVE (KeyHeld /\ SavedUnderKey)'
    BY <1>30 DEF FidoSetPin
<1>31. ASSUME NEW p \in Pins, NEW q \in Pins, FidoChangePin(p, q) PROVE (KeyHeld /\ SavedUnderKey)'
    BY <1>31 DEF FidoChangePin
<1>32. CASE FidoReset
    <2>1. entries' \in {entries, NoEntries}
        BY <1>32 DEF FidoReset, RemoveFiles
    <2>2. Keyed(entries) => Keyed(entries')
        BY <2>1, NoneKeyed
    <2> QED BY <1>32, <2>2 DEF FidoReset, Keyed
<1>33. CASE FidoCompare
    BY <1>33 DEF FidoCompare
<1>34. CASE FidoClearFails
    BY <1>34 DEF FidoClearFails
<1>35. CASE FidoNewPin
    BY <1>35 DEF FidoNewPin, FidoDone
<1>36. CASE FidoCountRead
    BY <1>36 DEF FidoCountRead
<1>37. CASE FidoCountWrite
    BY <1>37 DEF FidoCountWrite, FidoDone
<1>38. CASE FidoResetClears
    BY <1>38 DEF FidoResetClears, Met, FidoDone
<1>39. CASE Crash
    <2>1. entries' \in {entries, NoEntries}
        BY <1>39 DEF Crash, CutInPin, CutInCount, CutInPasswords, CutInWipe
    <2>2. Keyed(entries) => Keyed(entries')
        BY <2>1, NoneKeyed
    <2> QED BY <1>39, <2>2 DEF Crash, Reboot, CliDone, FidoDone, Keyed
<1>40. CASE UNCHANGED vars
    BY <1>40 DEF vars
<1> QED BY <1>1, <1>2, <1>3, <1>4, <1>5, <1>6, <1>7, <1>8, <1>9, <1>10, <1>11, <1>12,
        <1>13, <1>14, <1>15, <1>16, <1>17, <1>18, <1>19, <1>20, <1>21, <1>22, <1>23, <1>24,
        <1>25, <1>26, <1>27, <1>28, <1>29, <1>30, <1>31, <1>32, <1>33, <1>34, <1>35, <1>36,
        <1>37, <1>38, <1>39, <1>40 DEF Next, CliCommands, CliSteps, FidoCommands, FidoSteps

\* A command waits for a finger, and loads a key, in the session that began it.
LEMMA SessionKept == PinHeld /\ SessionHeld /\ WaitsInSession /\ KeyInSession /\ [Next]_vars => (SessionHeld /\ WaitsInSession /\ KeyInSession)'
<1> SUFFICES ASSUME PinHeld /\ SessionHeld /\ WaitsInSession /\ KeyInSession, [Next]_vars PROVE (SessionHeld /\ WaitsInSession /\ KeyInSession)'
    OBVIOUS
<1> USE DEF PinHeld, SessionHeld, WaitsInSession, KeyInSession, fileVars, ramVars, cliVars, fidoVars, histVars
<1>1. CASE DhInit
    BY <1>1 DEF DhInit
<1>2. CASE Disconnect
    BY <1>2 DEF Disconnect
<1>3. CASE Purge
    BY <1>3 DEF Purge
<1>4. CASE FactoryReset
    BY <1>4 DEF FactoryReset, Kept
<1>5. ASSUME NEW p \in Pins, CreatePin(p) PROVE (SessionHeld /\ WaitsInSession /\ KeyInSession)'
    BY <1>5 DEF CreatePin
<1>6. ASSUME NEW p \in Pins, VerifyPin(p) PROVE (SessionHeld /\ WaitsInSession /\ KeyInSession)'
    BY <1>6 DEF VerifyPin
<1>7. ASSUME NEW p \in Pins, NEW q \in Pins, UpdatePin(p, q) PROVE (SessionHeld /\ WaitsInSession /\ KeyInSession)'
    BY <1>7 DEF UpdatePin
<1>8. ASSUME NEW s \in Sites, SavePass(s) PROVE (SessionHeld /\ WaitsInSession /\ KeyInSession)'
    BY <1>8 DEF SavePass
<1>9. ASSUME NEW s \in Sites, GetPass(s) PROVE (SessionHeld /\ WaitsInSession /\ KeyInSession)'
    BY <1>9 DEF GetPass
<1>10. ASSUME NEW s \in Sites, UpdatePass(s) PROVE (SessionHeld /\ WaitsInSession /\ KeyInSession)'
    BY <1>10 DEF UpdatePass
<1>11. ASSUME NEW s \in Sites, DeletePass(s) PROVE (SessionHeld /\ WaitsInSession /\ KeyInSession)'
    BY <1>11 DEF DeletePass
<1>12. CASE FingerSends
    BY <1>12 DEF FingerSends
<1>13. CASE FingerReplayed
    BY <1>13 DEF FingerReplayed
<1>14. CASE FingerUpdates
    BY <1>14 DEF FingerUpdates
<1>15. CASE CreateWrites
    BY <1>15 DEF CreateWrites, CliDone
<1>16. CASE Compare
    BY <1>16 DEF Compare, Unread, FoundRight, FoundWrong, CliGoto, CliDone
<1>17. CASE ClearFails
    BY <1>17 DEF ClearFails, CliGoto
<1>18. CASE Unlock
    BY <1>18 DEF Unlock, CliGoto
<1>19. CASE NewPin
    BY <1>19 DEF NewPin, CliDone
<1>20. CASE DeriveKey
    BY <1>20 DEF DeriveKey, CliDone
<1>21. CASE CountRead
    BY <1>21 DEF CountRead
<1>22. CASE CountWrite
    BY <1>22 DEF CountWrite
<1>23. CASE Total
    BY <1>23 DEF Total, CliGoto, CliDone
<1>24. CASE WipeFiles
    BY <1>24 DEF WipeFiles, CliGoto, Kept
<1>25. CASE Restart
    BY <1>25 DEF Restart, Reboot, CliDone, FidoDone
<1>26. CASE Encrypt
    BY <1>26 DEF Encrypt, CliDone
<1>27. CASE Resave
    BY <1>27 DEF Resave, CliGoto, CliDone
<1>28. CASE AwaitGet
    BY <1>28 DEF AwaitGet, CliDone
<1>29. CASE AwaitUpdate
    BY <1>29 DEF AwaitUpdate, CliDone
<1>30. ASSUME NEW q \in Pins, FidoSetPin(q) PROVE (SessionHeld /\ WaitsInSession /\ KeyInSession)'
    BY <1>30 DEF FidoSetPin
<1>31. ASSUME NEW p \in Pins, NEW q \in Pins, FidoChangePin(p, q) PROVE (SessionHeld /\ WaitsInSession /\ KeyInSession)'
    BY <1>31 DEF FidoChangePin
<1>32. CASE FidoReset
    BY <1>32 DEF FidoReset, Kept, Met
<1>33. CASE FidoCompare
    BY <1>33 DEF FidoCompare
<1>34. CASE FidoClearFails
    BY <1>34 DEF FidoClearFails
<1>35. CASE FidoNewPin
    BY <1>35 DEF FidoNewPin, FidoDone
<1>36. CASE FidoCountRead
    BY <1>36 DEF FidoCountRead
<1>37. CASE FidoCountWrite
    BY <1>37 DEF FidoCountWrite, FidoDone
<1>38. CASE FidoResetClears
    BY <1>38 DEF FidoResetClears, Met, FidoDone
<1>39. CASE Crash
    BY <1>39 DEF Crash, Reboot, CliDone, FidoDone
<1>40. CASE UNCHANGED vars
    BY <1>40 DEF vars
<1> QED BY <1>1, <1>2, <1>3, <1>4, <1>5, <1>6, <1>7, <1>8, <1>9, <1>10, <1>11, <1>12,
        <1>13, <1>14, <1>15, <1>16, <1>17, <1>18, <1>19, <1>20, <1>21, <1>22, <1>23, <1>24,
        <1>25, <1>26, <1>27, <1>28, <1>29, <1>30, <1>31, <1>32, <1>33, <1>34, <1>35, <1>36,
        <1>37, <1>38, <1>39, <1>40 DEF Next, CliCommands, CliSteps, FidoCommands, FidoSteps

\* A session that is open after a wipe was opened after it.
LEMMA LoginKept == WaitsInSession /\ SinceHeld /\ LoginIsNew /\ [Next]_vars => (SinceHeld /\ LoginIsNew)'
<1> SUFFICES ASSUME WaitsInSession /\ SinceHeld /\ LoginIsNew, [Next]_vars PROVE (SinceHeld /\ LoginIsNew)'
    OBVIOUS
<1> USE DEF WaitsInSession, SinceHeld, LoginIsNew, fileVars, ramVars, cliVars, fidoVars, histVars
<1>1. CASE DhInit
    BY <1>1 DEF DhInit
<1>2. CASE Disconnect
    BY <1>2 DEF Disconnect
<1>3. CASE Purge
    BY <1>3 DEF Purge
<1>4. CASE FactoryReset
    BY <1>4 DEF FactoryReset, RemoveFiles, Kept
<1>5. ASSUME NEW p \in Pins, CreatePin(p) PROVE (SinceHeld /\ LoginIsNew)'
    BY <1>5 DEF CreatePin
<1>6. ASSUME NEW p \in Pins, VerifyPin(p) PROVE (SinceHeld /\ LoginIsNew)'
    BY <1>6 DEF VerifyPin
<1>7. ASSUME NEW p \in Pins, NEW q \in Pins, UpdatePin(p, q) PROVE (SinceHeld /\ LoginIsNew)'
    BY <1>7 DEF UpdatePin
<1>8. ASSUME NEW s \in Sites, SavePass(s) PROVE (SinceHeld /\ LoginIsNew)'
    BY <1>8 DEF SavePass
<1>9. ASSUME NEW s \in Sites, GetPass(s) PROVE (SinceHeld /\ LoginIsNew)'
    BY <1>9 DEF GetPass
<1>10. ASSUME NEW s \in Sites, UpdatePass(s) PROVE (SinceHeld /\ LoginIsNew)'
    BY <1>10 DEF UpdatePass
<1>11. ASSUME NEW s \in Sites, DeletePass(s) PROVE (SinceHeld /\ LoginIsNew)'
    BY <1>11 DEF DeletePass
<1>12. CASE FingerSends
    BY <1>12 DEF FingerSends
<1>13. CASE FingerReplayed
    BY <1>13 DEF FingerReplayed
<1>14. CASE FingerUpdates
    BY <1>14 DEF FingerUpdates
<1>15. CASE CreateWrites
    BY <1>15 DEF CreateWrites, CliDone
<1>16. CASE Compare
    BY <1>16 DEF Compare, Unread, FoundRight, FoundWrong, CliGoto, CliDone
<1>17. CASE ClearFails
    BY <1>17 DEF ClearFails, CliGoto
<1>18. CASE Unlock
    BY <1>18 DEF Unlock, CliGoto
<1>19. CASE NewPin
    BY <1>19 DEF NewPin, CliDone
<1>20. CASE DeriveKey
    BY <1>20 DEF DeriveKey, CliDone
<1>21. CASE CountRead
    BY <1>21 DEF CountRead
<1>22. CASE CountWrite
    BY <1>22 DEF CountWrite
<1>23. CASE Total
    BY <1>23 DEF Total, CliGoto, CliDone
<1>24. CASE WipeFiles
    BY <1>24 DEF WipeFiles, CliGoto, RemoveFiles, Kept
<1>25. CASE Restart
    BY <1>25 DEF Restart, Reboot, CliDone, FidoDone
<1>26. CASE Encrypt
    BY <1>26 DEF Encrypt, CliDone
<1>27. CASE Resave
    BY <1>27 DEF Resave, CliGoto, CliDone
<1>28. CASE AwaitGet
    BY <1>28 DEF AwaitGet, CliDone
<1>29. CASE AwaitUpdate
    BY <1>29 DEF AwaitUpdate, CliDone
<1>30. ASSUME NEW q \in Pins, FidoSetPin(q) PROVE (SinceHeld /\ LoginIsNew)'
    BY <1>30 DEF FidoSetPin
<1>31. ASSUME NEW p \in Pins, NEW q \in Pins, FidoChangePin(p, q) PROVE (SinceHeld /\ LoginIsNew)'
    BY <1>31 DEF FidoChangePin
<1>32. CASE FidoReset
    BY <1>32 DEF FidoReset, RemoveFiles, Kept, Met
<1>33. CASE FidoCompare
    BY <1>33 DEF FidoCompare
<1>34. CASE FidoClearFails
    BY <1>34 DEF FidoClearFails
<1>35. CASE FidoNewPin
    BY <1>35 DEF FidoNewPin, FidoDone
<1>36. CASE FidoCountRead
    BY <1>36 DEF FidoCountRead
<1>37. CASE FidoCountWrite
    BY <1>37 DEF FidoCountWrite, FidoDone
<1>38. CASE FidoResetClears
    BY <1>38 DEF FidoResetClears, Met, FidoDone
<1>39. CASE Crash
    BY <1>39 DEF Crash, Reboot, CliDone, FidoDone
<1>40. CASE UNCHANGED vars
    BY <1>40 DEF vars
<1> QED BY <1>1, <1>2, <1>3, <1>4, <1>5, <1>6, <1>7, <1>8, <1>9, <1>10, <1>11, <1>12,
        <1>13, <1>14, <1>15, <1>16, <1>17, <1>18, <1>19, <1>20, <1>21, <1>22, <1>23, <1>24,
        <1>25, <1>26, <1>27, <1>28, <1>29, <1>30, <1>31, <1>32, <1>33, <1>34, <1>35, <1>36,
        <1>37, <1>38, <1>39, <1>40 DEF Next, CliCommands, CliSteps, FidoCommands, FidoSteps

\* What is stored was stored in such a session.
LEMMA StoredKept == Types /\ SinceHeld /\ StoredIsNew /\ [Next]_vars => StoredIsNew'
<1> SUFFICES ASSUME Types /\ SinceHeld /\ StoredIsNew, [Next]_vars PROVE StoredIsNew'
    OBVIOUS
<1> USE DEF Types, SinceHeld, StoredIsNew, Stored, fileVars, ramVars, cliVars, fidoVars, histVars
<1>1. CASE DhInit
    BY <1>1 DEF DhInit
<1>2. CASE Disconnect
    BY <1>2 DEF Disconnect
<1>3. CASE Purge
    BY <1>3 DEF Purge, Files, NoEntries
<1>4. CASE FactoryReset
    BY <1>4 DEF FactoryReset, RemoveFiles, Kept, Files, NoEntries
<1>5. ASSUME NEW p \in Pins, CreatePin(p) PROVE StoredIsNew'
    BY <1>5 DEF CreatePin
<1>6. ASSUME NEW p \in Pins, VerifyPin(p) PROVE StoredIsNew'
    BY <1>6 DEF VerifyPin
<1>7. ASSUME NEW p \in Pins, NEW q \in Pins, UpdatePin(p, q) PROVE StoredIsNew'
    BY <1>7 DEF UpdatePin
<1>8. ASSUME NEW s \in Sites, SavePass(s) PROVE StoredIsNew'
    BY <1>8 DEF SavePass
<1>9. ASSUME NEW s \in Sites, GetPass(s) PROVE StoredIsNew'
    BY <1>9 DEF GetPass
<1>10. ASSUME NEW s \in Sites, UpdatePass(s) PROVE StoredIsNew'
    BY <1>10 DEF UpdatePass
<1>11. ASSUME NEW s \in Sites, DeletePass(s) PROVE StoredIsNew'
    BY <1>11 DEF DeletePass, WritePasswords, Files, NoEntries
<1>12. CASE FingerSends
    BY <1>12 DEF FingerSends
<1>13. CASE FingerReplayed
    BY <1>13 DEF FingerReplayed
<1>14. CASE FingerUpdates
    BY <1>14 DEF FingerUpdates, WritePasswords, Files, NoEntries
<1>15. CASE CreateWrites
    BY <1>15 DEF CreateWrites, CliDone
<1>16. CASE Compare
    BY <1>16 DEF Compare, Unread, FoundRight, FoundWrong, CliGoto, CliDone
<1>17. CASE ClearFails
    BY <1>17 DEF ClearFails, CliGoto
<1>18. CASE Unlock
    BY <1>18 DEF Unlock, CliGoto
<1>19. CASE NewPin
    BY <1>19 DEF NewPin, CliDone
<1>20. CASE DeriveKey
    BY <1>20 DEF DeriveKey, CliDone
<1>21. CASE CountRead
    BY <1>21 DEF CountRead
<1>22. CASE CountWrite
    BY <1>22 DEF CountWrite
<1>23. CASE Total
    BY <1>23 DEF Total, CliGoto, CliDone
<1>24. CASE WipeFiles
    BY <1>24 DEF WipeFiles, CliGoto, RemoveFiles, Kept, Files, NoEntries
<1>25. CASE Restart
    BY <1>25 DEF Restart, Reboot, CliDone, FidoDone
<1>26. CASE Encrypt
    <2> SUFFICES ASSUME mixed' \cap {"reset", "kept"} = {} PROVE AllSince(entries)'
        BY DEF AllSince
    <2>1. mixed \cap {"reset", "kept"} = {} /\ fido # "clear" /\ cli = "encrypt"
        BY <1>26 DEF Encrypt
    <2>2. since = epoch /\ AllSince(entries) /\ epoch' = epoch
        BY <1>26, <2>1 DEF Encrypt, AllSince
    <2>3. PICK old \in Reread : WritePasswords([old EXCEPT ![cliSite] = [key |-> key, epoch |-> since]])
        BY <1>26 DEF Encrypt
    <2>4. old \in Files /\ AllSince(old)
        BY <2>2, NoneTyped, NoneSince DEF Reread
    <2>5. [key |-> key, epoch |-> since].epoch = epoch
        BY <2>2
    <2>6. AllSince([old EXCEPT ![cliSite] = [key |-> key, epoch |-> since]])
        BY <2>4, <2>5, OneSince
    <2> QED BY <2>2, <2>3, <2>6, WriteSince
<1>27. CASE Resave
    BY <1>27 DEF Resave, CliGoto, CliDone
<1>28. CASE AwaitGet
    BY <1>28 DEF AwaitGet, CliDone
<1>29. CASE AwaitUpdate
    BY <1>29 DEF AwaitUpdate, CliDone
<1>30. ASSUME NEW q \in Pins, FidoSetPin(q) PROVE StoredIsNew'
    BY <1>30 DEF FidoSetPin
<1>31. ASSUME NEW p \in Pins, NEW q \in Pins, FidoChangePin(p, q) PROVE StoredIsNew'
    BY <1>31 DEF FidoChangePin
<1>32. CASE FidoReset
    BY <1>32 DEF FidoReset, RemoveFiles, Kept, Met, Files, NoEntries
<1>33. CASE FidoCompare
    BY <1>33 DEF FidoCompare
<1>34. CASE FidoClearFails
    BY <1>34 DEF FidoClearFails
<1>35. CASE FidoNewPin
    BY <1>35 DEF FidoNewPin, FidoDone
<1>36. CASE FidoCountRead
    BY <1>36 DEF FidoCountRead
<1>37. CASE FidoCountWrite
    BY <1>37 DEF FidoCountWrite, FidoDone
<1>38. CASE FidoResetClears
    BY <1>38 DEF FidoResetClears, Met, FidoDone
<1>39. CASE Crash
    BY <1>39 DEF Crash, CutInPin, CutInCount, CutInPasswords, CutInWipe, Reboot, CliDone, FidoDone, Files, NoEntries
<1>40. CASE UNCHANGED vars
    BY <1>40 DEF vars
<1> QED BY <1>1, <1>2, <1>3, <1>4, <1>5, <1>6, <1>7, <1>8, <1>9, <1>10, <1>11, <1>12,
        <1>13, <1>14, <1>15, <1>16, <1>17, <1>18, <1>19, <1>20, <1>21, <1>22, <1>23, <1>24,
        <1>25, <1>26, <1>27, <1>28, <1>29, <1>30, <1>31, <1>32, <1>33, <1>34, <1>35, <1>36,
        <1>37, <1>38, <1>39, <1>40 DEF Next, CliCommands, CliSteps, FidoCommands, FidoSteps

-----------------------------------------------------------------------------
\* The invariant holds in every reachable state of the vault.
LEMMA Invariant == Spec => []IInv
<1>1. IInv /\ [Next]_vars => IInv'
    BY TypesKept, FlagKept, KeyKept, SessionKept, LoginKept, StoredKept, Zenon DEF IInv
<1> QED BY Initially, <1>1, PTL DEF Spec

\* A password is never encrypted under the cleared key, no command waits for a finger outside
\* its session, and the key is loaded only during a session (savePassword, the CLI task's
\* pending commands, DISCONNECT and its like), in any interleaving with the FIDO task but a
\* Reset that meets a command, whatever flash accesses fail, and but for the key after DH_INIT.
THEOREM SessionHoldsAlways == Spec => []SessionHolds
<1>1. IInv => SessionHolds
    BY DEF IInv, Types, Files, SessionHolds, TypeOK
<1> QED BY Invariant, <1>1, PTL

\* After a wipe, a factory reset or a FIDO Reset every open session is of a PIN found right
\* after it, and so is every password in /passwords.json: no command that was under way on
\* either core carries a session over it, whatever flash accesses fail; but for a FIDO Reset
\* that meets a command, and for a password file that cannot be removed.
THEOREM WipeForgetsAlways == Spec => []WipeForgets
<1>1. IInv => WipeForgets
    BY DEF IInv, WipeForgets
<1> QED BY Invariant, <1>1, PTL

-----------------------------------------------------------------------------
(* Nonce.  NonceUnique holds because a store takes a new nonce only at the *)
(* end of the nonces of this boot (SessionBehind), and a boot starts its   *)
(* counter at 0 again only above all earlier boots (BootsBehind).          *)

NonceTypes ==
  /\ bootCnt \in Nat /\ bootCounter \in Nat /\ sessionCounter \in Nat
  /\ reg \in [Tasks -> Nat] /\ gcmKey \in [Tasks -> GcmKeys]
  /\ used \subseteq GcmKeys \X Nat \X Nat

NonceFlags == initialized \in BOOLEAN /\ reused \in BOOLEAN /\ raced \in BOOLEAN /\ unsaved \in BOOLEAN

\* A task between load and store exists only in a device that is on.
StoreIsOn ==
  /\ at \in [Tasks -> {"idle", "store"}]
  /\ \A t \in Tasks : at[t] = "store" => initialized

\* No nonce has a boot that NVS does not know of, and this boot is the last one stored.
BootsBehind ==
  ~unsaved => /\ \A n \in used : n[2] <= bootCnt
              /\ initialized => bootCounter = bootCnt

\* The nonces of this boot end at the session counter.
SessionBehind ==
  ~unsaved /\ ~raced /\ initialized =>
    \A n \in used : n[2] = bootCounter => n[3] <= sessionCounter

NonceInv == NonceTypes /\ NonceFlags /\ StoreIsOn /\ BootsBehind /\ SessionBehind /\ NonceUnique

\* A fresh device (Preferences empty, no nonce taken) satisfies the invariant.
LEMMA NonceInitially == NonceInit => NonceInv
<1> SUFFICES ASSUME NonceInit PROVE NonceInv
    OBVIOUS
<1>1. NonceTypes
    BY DEF NonceInit, NonceTypes
<1>2. NonceFlags
    BY Zenon DEF NonceInit, NonceFlags
<1>3. StoreIsOn
    BY DEF NonceInit, StoreIsOn
<1>4. BootsBehind /\ SessionBehind
    BY DEF NonceInit, BootsBehind, SessionBehind
<1>5. NonceUnique
    BY DEF NonceInit, NonceUnique
<1> QED BY <1>1, <1>2, <1>3, <1>4, <1>5 DEF NonceInv

\* init_aes_nonce_subsystem: the new boot is above every boot a nonce was taken in.
LEMMA InitKeeps == NonceInv /\ InitNonceSubsystem => NonceInv'
<1> SUFFICES ASSUME NonceInv, InitNonceSubsystem PROVE NonceInv'
    OBVIOUS
<1>1. PICK read \in BOOLEAN, written \in BOOLEAN :
        /\ bootCounter' = (IF read THEN bootCnt ELSE 0) + 1
        /\ bootCnt' = IF written THEN bootCounter' ELSE bootCnt
        /\ unsaved' = (unsaved \/ ~read \/ ~written)
    BY Zenon DEF InitNonceSubsystem
<1>2. /\ ~initialized /\ initialized' = TRUE
      /\ UNCHANGED <<sessionCounter, at, reg, gcmKey, used, reused, raced>>
    BY DEF InitNonceSubsystem, taskVars, noncePast
<1>3. NonceTypes'
    BY <1>1, <1>2 DEF NonceInv, NonceTypes
<1>4. NonceFlags'
    BY <1>1, <1>2, Zenon DEF NonceInv, NonceFlags
<1>5. StoreIsOn'
    BY <1>2 DEF NonceInv, StoreIsOn
<1>6. ~unsaved' => /\ ~unsaved /\ bootCounter' = bootCnt + 1 /\ bootCnt' = bootCnt + 1
    BY <1>1 DEF NonceInv, NonceTypes
<1>7. ~unsaved' => \A n \in used' : n[2] \in Nat /\ n[2] <= bootCnt
    BY <1>2, <1>6 DEF NonceInv, NonceTypes, BootsBehind
<1>8. BootsBehind'
    BY <1>6, <1>7 DEF NonceInv, NonceTypes, BootsBehind
<1>9. SessionBehind'
    BY <1>6, <1>7 DEF NonceInv, NonceTypes, SessionBehind
<1>10. NonceUnique'
    BY <1>1, <1>2 DEF NonceInv, NonceUnique
<1> QED BY <1>3, <1>4, <1>5, <1>8, <1>9, <1>10 DEF NonceInv

\* The load of session_counter++ changes nothing that a nonce is made of.
LEMMA LoadKeeps == ASSUME NEW t \in Tasks, NEW k \in GcmKeys, NonceInv, LoadCounter(t, k) PROVE NonceInv'
<1>1. /\ initialized
      /\ at' = [at EXCEPT ![t] = "store"] /\ reg' = [reg EXCEPT ![t] = sessionCounter]
      /\ gcmKey' = [gcmKey EXCEPT ![t] = k]
      /\ UNCHANGED <<bootCnt, bootCounter, sessionCounter, initialized, used, reused, raced, unsaved>>
    BY DEF LoadCounter, noncePast
<1>2. NonceTypes'
    BY <1>1 DEF NonceInv, NonceTypes
<1>3. NonceFlags'
    BY <1>1, Zenon DEF NonceInv, NonceFlags
<1>4. StoreIsOn'
    BY <1>1 DEF NonceInv, StoreIsOn
<1>5. BootsBehind' /\ SessionBehind'
    BY <1>1 DEF NonceInv, BootsBehind, SessionBehind
<1>6. NonceUnique'
    BY <1>1 DEF NonceInv, NonceUnique
<1> QED BY <1>2, <1>3, <1>4, <1>5, <1>6 DEF NonceInv

\* The store: when it goes over nobody's, the nonce is above all of this boot.
LEMMA StoreKeeps == ASSUME NEW t \in Tasks, NonceInv, StoreCounter(t) PROVE NonceInv'
<1> DEFINE n == <<gcmKey[t], bootCounter, reg[t] + 1>>
<1>1. /\ at[t] = "store" /\ sessionCounter' = reg[t] + 1
      /\ at' = [at EXCEPT ![t] = "idle"]
      /\ raced' = (raced \/ sessionCounter # reg[t])
      /\ used' = used \cup {n} /\ reused' = (reused \/ n \in used)
      /\ UNCHANGED <<bootCnt, bootCounter, initialized, reg, gcmKey, unsaved>>
    BY DEF StoreCounter
<1>2. n \in GcmKeys \X Nat \X Nat /\ n[2] = bootCounter /\ n[3] = reg[t] + 1
    BY DEF NonceInv, NonceTypes
<1> HIDE DEF n
<1>3. NonceTypes'
    BY <1>1, <1>2 DEF NonceInv, NonceTypes
<1>4. NonceFlags'
    BY <1>1, Zenon DEF NonceInv, NonceFlags
<1>5. StoreIsOn'
    BY <1>1 DEF NonceInv, StoreIsOn
<1>6. initialized
    BY <1>1 DEF NonceInv, StoreIsOn
<1>7. BootsBehind'
    BY <1>1, <1>2, <1>6 DEF NonceInv, NonceTypes, BootsBehind
<1>8. ASSUME ~unsaved', ~raced'
      PROVE  \A m \in used : m[2] = bootCounter => m[3] \in Nat /\ m[3] <= reg[t]
    BY <1>1, <1>6, <1>8 DEF NonceInv, NonceTypes, SessionBehind
<1>9. SessionBehind'
    BY <1>1, <1>2, <1>8 DEF NonceInv, NonceTypes, SessionBehind
<1>10. ASSUME ~unsaved', ~raced' PROVE ~reused'
  <2>1. reg[t] \in Nat
      BY DEF NonceInv, NonceTypes
  <2>2. n \notin used
      BY <1>2, <1>8, <1>10, <2>1
  <2>3. ~reused
      BY <1>1, <1>10 DEF NonceInv, NonceUnique
  <2> QED BY <1>1, <2>2, <2>3
<1>11. NonceUnique'
    BY <1>10 DEF NonceUnique
<1> QED BY <1>3, <1>4, <1>5, <1>7, <1>9, <1>11 DEF NonceInv

\* A device that is off has no counters; what NVS holds and what was taken stay.
LEMMA SwitchOffKeeps == NonceInv /\ SwitchOff => NonceInv'
<1> SUFFICES ASSUME NonceInv, SwitchOff PROVE NonceInv'
    OBVIOUS
<1>1. /\ initialized' = FALSE /\ bootCounter' = 0 /\ sessionCounter' = 0
      /\ at' = [t \in Tasks |-> "idle"]
      /\ UNCHANGED <<bootCnt, reg, gcmKey, used, reused, raced, unsaved>>
    BY DEF SwitchOff, noncePast
<1>2. NonceTypes'
    BY <1>1 DEF NonceInv, NonceTypes
<1>3. NonceFlags'
    BY <1>1, Zenon DEF NonceInv, NonceFlags
<1>4. StoreIsOn'
    BY <1>1 DEF NonceInv, StoreIsOn
<1>5. BootsBehind' /\ SessionBehind'
    BY <1>1 DEF NonceInv, BootsBehind, SessionBehind
<1>6. NonceUnique'
    BY <1>1 DEF NonceInv, NonceUnique
<1> QED BY <1>2, <1>3, <1>4, <1>5, <1>6 DEF NonceInv

\* A step of another part of the system changes nothing here.
LEMMA NonceStuttering == NonceInv /\ UNCHANGED nonceVars => NonceInv'
<1> SUFFICES ASSUME NonceInv, UNCHANGED nonceVars PROVE NonceInv'
    OBVIOUS
<1>1. NonceTypes' /\ NonceFlags' /\ StoreIsOn'
    BY Zenon DEF NonceInv, nonceVars, NonceTypes, NonceFlags, StoreIsOn
<1>2. BootsBehind' /\ SessionBehind' /\ NonceUnique'
    BY Zenon DEF NonceInv, nonceVars, BootsBehind, SessionBehind, NonceUnique
<1> QED BY <1>1, <1>2 DEF NonceInv

\* generate_aes_gcm_nonce: across restarts and on any number of tasks, no two messages under one
\* key have the same counters unless two increments met or NVS failed.
THEOREM NonceUniqueHolds == NonceSpec => []NonceUnique
<1>1. NonceInit => NonceInv
    BY NonceInitially
<1>2. NonceInv /\ [NonceNext]_nonceVars => NonceInv'
  <2> SUFFICES ASSUME NonceInv, [NonceNext]_nonceVars PROVE NonceInv'
      OBVIOUS
  <2>1. CASE InitNonceSubsystem
      BY <2>1, InitKeeps
  <2>2. CASE SwitchOff
      BY <2>2, SwitchOffKeeps
  <2>3. ASSUME NEW t \in Tasks, StoreCounter(t) PROVE NonceInv'
      BY <2>3, StoreKeeps
  <2>4. ASSUME NEW t \in Tasks, NEW k \in GcmKeys, LoadCounter(t, k) PROVE NonceInv'
      BY <2>4, LoadKeeps
  <2>5. CASE UNCHANGED nonceVars
      BY <2>5, NonceStuttering
  <2> QED BY <2>1, <2>2, <2>3, <2>4, <2>5 DEF NonceNext
<1>3. NonceInv => NonceUnique
    BY DEF NonceInv
<1> QED BY <1>1, <1>2, <1>3, PTL DEF NonceSpec

-----------------------------------------------------------------------------
(* Terminal.  An event that meets no other is, at any moment, what the     *)
(* page has of it, what is in the buffer or in the copy that is printed,   *)
(* and the rest, in this order (InOrder).                                  *)

Parts  == Nat \X Nat
Events == 1..Len(lens)

\* A line is spoilt by a part of an event that met another one, or that is sealed in pieces.
Long(e)   == everSealed /\ lens[e] > Limit + 1
Spoilt(s) == \E i \in DOMAIN s : s[i][1] \in crossed \/ Long(s[i][1])

Sending(w) == wpc[w] # "idle"
Alone(w)   == Sending(w) /\ current[w] \notin crossed

\* Parts a + 1 to b of event e.
Pieces(e, a, b) == [i \in 1..(b - a) |-> <<e, a + i>>]

TerminalTypes ==
  /\ lens \in Seq(EventLens) /\ crossed \subseteq Events
  /\ wpc \in [Writers -> {"idle", "write", "flush", "clear", "print"}]
  /\ current \in [Writers -> Nat] /\ \A w \in Writers : Sending(w) => current[w] \in Events
  /\ rest \in [Writers -> Seq(Parts)] /\ out \in [Writers -> Seq(Parts)]
  /\ buffer \in Seq(Parts) /\ received \in Seq(Parts) /\ heard \in Seq(Parts)
TerminalFlags ==
  final \in [Writers -> BOOLEAN] /\ sealing \in BOOLEAN /\ everSealed \in BOOLEAN /\ (sealing => everSealed)

\* The page has parts of events that were sent.
Known(s)  == \A i \in DOMAIN s : s[i][1] \in Events
PageKnows == Known(received) /\ Known(heard)

\* A task writes its own event, and has a copy of the buffer only while it prints.
RestIsMine == \A w \in Writers : Sending(w) => \A i \in DOMAIN rest[w] : rest[w][i][1] = current[w]
OutHeld    == \A w \in Writers : wpc[w] \in {"clear", "print"} <=> out[w] # <<>>

\* What is in the buffer will be flushed by someone.
WillFlush  == buffer # <<>> => \E w \in Writers : Sending(w) /\ ~(wpc[w] = "print" /\ final[w])

\* Two tasks that send have crossed, and then only crossed events are in the buffer and the copies.
BothCrossed == \A v, w \in Writers : v # w /\ Sending(v) /\ Sending(w) => current[v] \in crossed
AllCrossed(s) == \A i \in DOMAIN s : s[i][1] \in crossed
CrossedOnly ==
  \A w \in Writers : Sending(w) /\ current[w] \in crossed =>
    AllCrossed(buffer) /\ \A v \in Writers : AllCrossed(out[v])

\* A task that sends alone: its event is, in order, what the page has of it, what is in the
\* buffer or the copy, and the rest; a short one goes out in one piece.
SentSoFar(w, e, n, a, b) ==
  /\ a <= b /\ rest[w] = Pieces(e, b, n)
  /\ wpc[w] \in {"write", "flush", "clear"} => buffer = Pieces(e, a, b)
  /\ wpc[w] \in {"clear", "print"} => out[w] = Pieces(e, a, b)
  /\ wpc[w] = "print" => buffer = <<>>
  /\ wpc[w] # "write" /\ final[w] => b = n
  /\ n <= Limit + 1 => a \in {0, n} /\ (wpc[w] # "write" => b = n)
  /\ Spoilt(received) \/ received = IF a = n \/ Long(e) THEN <<>> ELSE Pieces(e, 0, a)
InOrder ==
  \A w \in Writers : Alone(w) =>
    \E a, b \in 0..lens[current[w]] : SentSoFar(w, current[w], lens[current[w]], a, b)

\* When nobody sends alone the page waits for nothing but the end of a spoilt line.
NothingLeft == (\A w \in Writers : ~Alone(w)) => Spoilt(received) \/ received = <<>>

HeardWhole == heard # <<>> => Spoilt(heard) \/ heard = Text(heard[1][1], lens[heard[1][1]])

TerminalInv ==
  /\ TerminalTypes /\ TerminalFlags /\ PageKnows /\ RestIsMine /\ OutHeld /\ WillFlush
  /\ BothCrossed /\ CrossedOnly /\ InOrder /\ NothingLeft /\ HeardWhole

\* The parts of an event, as a sequence: Text is all of them.
LEMMA PiecesAre ==
  ASSUME NEW e \in Nat, NEW a \in Nat, NEW b \in Nat, a <= b
  PROVE  /\ Pieces(e, a, b) \in Seq(Parts) /\ Len(Pieces(e, a, b)) = b - a
         /\ DOMAIN Pieces(e, a, b) = 1..(b - a)
         /\ \A i \in 1..(b - a) : Pieces(e, a, b)[i] = <<e, a + i>>
<1>1. b - a \in Nat /\ \A i \in 1..(b - a) : <<e, a + i>> \in Parts
    BY DEF Parts
<1> QED BY <1>1 DEF Pieces

\* The line that flush starts with is the event from its first part to its last.
LEMMA TextIsPieces == ASSUME NEW e \in Nat, NEW n \in Nat PROVE Text(e, n) = Pieces(e, 0, n)
<1>1. n - 0 = n /\ \A i \in 1..n : 0 + i = i
    OBVIOUS
<1> QED BY <1>1 DEF Text, Pieces

\* No parts, one more part at the end, the first part taken away, and two runs put together.
LEMMA PiecesEmpty ==
  ASSUME NEW e \in Nat, NEW a \in Nat, NEW b \in Nat, a <= b PROVE Pieces(e, a, b) = <<>> <=> a = b
<1>1. Pieces(e, a, b) \in Seq(Parts) /\ Len(Pieces(e, a, b)) = b - a
    BY PiecesAre
<1> QED BY <1>1

\* SecureTerminal::write of one more part.
LEMMA PiecesAppend ==
  ASSUME NEW e \in Nat, NEW a \in Nat, NEW b \in Nat, a <= b
  PROVE  Append(Pieces(e, a, b), <<e, b + 1>>) = Pieces(e, a, b + 1)
<1> DEFINE s == Pieces(e, a, b)
           t == Pieces(e, a, b + 1)
<1>0. b + 1 \in Nat /\ a <= b + 1
    OBVIOUS
<1>1. s \in Seq(Parts) /\ Len(s) = b - a /\ \A i \in 1..(b - a) : s[i] = <<e, a + i>>
    BY PiecesAre
<1>5. t \in Seq(Parts) /\ Len(t) = b + 1 - a /\ \A i \in 1..(b + 1 - a) : t[i] = <<e, a + i>>
  <2>1. \A c \in Nat : a <= c =>
          /\ Pieces(e, a, c) \in Seq(Parts) /\ Len(Pieces(e, a, c)) = c - a
          /\ \A i \in 1..(c - a) : Pieces(e, a, c)[i] = <<e, a + i>>
      BY PiecesAre
  <2>2. Pieces(e, a, b + 1) \in Seq(Parts)
      BY <1>0, <2>1
  <2>3. Len(Pieces(e, a, b + 1)) = b + 1 - a
      BY <1>0, <2>1
  <2>4. \A i \in 1..(b + 1 - a) : Pieces(e, a, b + 1)[i] = <<e, a + i>>
      BY DEF Pieces
  <2> QED BY <2>2, <2>3, <2>4
<1>2. <<e, b + 1>> \in Parts
    BY DEF Parts
<1> HIDE DEF s, t
<1>3. /\ Append(s, <<e, b + 1>>) \in Seq(Parts) /\ Len(Append(s, <<e, b + 1>>)) = b - a + 1
      /\ \A i \in 1..(b - a) : Append(s, <<e, b + 1>>)[i] = s[i]
      /\ Append(s, <<e, b + 1>>)[b - a + 1] = <<e, b + 1>>
    BY <1>1, <1>2, AppendProperties
<1>4. ASSUME NEW i \in 1..(b + 1 - a) PROVE Append(s, <<e, b + 1>>)[i] = t[i]
  <2>1. CASE i = b - a + 1
    <3>1. a + i = b + 1
        BY <2>1
    <3> QED BY <1>3, <1>5, <2>1, <3>1
  <2>2. CASE i \in 1..(b - a)
      BY <1>1, <1>3, <1>5, <2>2
  <2>3. i = b - a + 1 \/ i \in 1..(b - a)
      OBVIOUS
  <2> QED BY <2>1, <2>2, <2>3
<1> QED BY <1>1, <1>3, <1>4, <1>5, SeqEqual DEF s, t

\* What is left of an event when its first part is taken away.
LEMMA PiecesHeadTail ==
  ASSUME NEW e \in Nat, NEW b \in Nat, NEW n \in Nat, b < n
  PROVE  Head(Pieces(e, b, n)) = <<e, b + 1>> /\ Tail(Pieces(e, b, n)) = Pieces(e, b + 1, n)
<1> DEFINE s == Pieces(e, b, n)
           t == Pieces(e, b + 1, n)
<1>0. b <= n /\ b + 1 \in Nat /\ b + 1 <= n
    OBVIOUS
<1>1. /\ s \in Seq(Parts) /\ Len(s) = n - b /\ \A i \in 1..(n - b) : s[i] = <<e, b + i>>
      /\ t \in Seq(Parts) /\ Len(t) = n - (b + 1) /\ \A i \in 1..(n - (b + 1)) : t[i] = <<e, b + 1 + i>>
    BY <1>0, PiecesAre
<1> HIDE DEF s, t
<1>2. s # <<>>
    BY <1>1
<1>3. /\ Head(s) = s[1] /\ Tail(s) \in Seq(Parts) /\ Len(Tail(s)) = n - b - 1
      /\ \A i \in 1..(n - b - 1) : Tail(s)[i] = s[i + 1]
    BY <1>1, <1>2, HeadTailProperties
<1>4. ASSUME NEW i \in 1..(n - b - 1) PROVE Tail(s)[i] = t[i]
  <2>1. i + 1 \in 1..(n - b) /\ i \in 1..(n - (b + 1)) /\ b + (i + 1) = b + 1 + i
      OBVIOUS
  <2> QED BY <1>1, <1>3, <2>1
<1>5. Tail(s) = t
    BY <1>1, <1>3, <1>4, SeqEqual
<1> QED BY <1>1, <1>3, <1>5 DEF s, t

\* Two runs of parts that meet are one run.
LEMMA PiecesJoin ==
  ASSUME NEW e \in Nat, NEW a \in Nat, NEW b \in Nat, NEW c \in Nat, a <= b, b <= c
  PROVE  Pieces(e, a, b) \o Pieces(e, b, c) = Pieces(e, a, c)
<1> DEFINE s == Pieces(e, a, b)
           t == Pieces(e, b, c)
           u == Pieces(e, a, c)
<1>0. a <= c
    OBVIOUS
<1>1. /\ s \in Seq(Parts) /\ Len(s) = b - a /\ \A i \in 1..(b - a) : s[i] = <<e, a + i>>
      /\ t \in Seq(Parts) /\ Len(t) = c - b /\ \A i \in 1..(c - b) : t[i] = <<e, b + i>>
      /\ u \in Seq(Parts) /\ Len(u) = c - a /\ \A i \in 1..(c - a) : u[i] = <<e, a + i>>
    BY <1>0, PiecesAre
<1> HIDE DEF s, t, u
<1>2. /\ s \o t \in Seq(Parts) /\ Len(s \o t) = Len(s) + Len(t)
      /\ \A i \in 1..(Len(s) + Len(t)) : (s \o t)[i] = IF i <= Len(s) THEN s[i] ELSE t[i - Len(s)]
    BY <1>1, ConcatProperties
<1>3. ASSUME NEW i \in 1..(c - a) PROVE (s \o t)[i] = u[i]
  <2>1. (s \o t)[i] = IF i <= b - a THEN s[i] ELSE t[i - (b - a)]
    <3>1. Len(s) + Len(t) = c - a /\ Len(s) = b - a
        BY <1>1
    <3> QED BY <1>2, <3>1
  <2>2. CASE i <= b - a
    <3>1. i \in 1..(b - a)
        BY <2>2
    <3> QED BY <1>1, <2>1, <2>2, <3>1
  <2>3. CASE ~(i <= b - a)
    <3>1. i - (b - a) \in 1..(c - b) /\ b + (i - (b - a)) = a + i
        BY <2>3
    <3> QED BY <1>1, <2>1, <2>3, <3>1
  <2> QED BY <2>2, <2>3
<1>4. Len(s \o t) = c - a /\ Len(u) = c - a /\ s \o t \in Seq(Parts) /\ u \in Seq(Parts)
    BY <1>1, <1>2
<1>5. s \o t = u
    BY <1>3, <1>4, SeqEqual
<1> QED BY <1>5 DEF s, t, u

\* A part spoils what it is put into, and a joined line is known when its halves are.
LEMMA JoinedLine ==
  ASSUME NEW s \in Seq(Parts), NEW t \in Seq(Parts)
  PROVE  /\ s \o t \in Seq(Parts)
         /\ Spoilt(s \o t) <=> Spoilt(s) \/ Spoilt(t)
         /\ Known(s) /\ Known(t) => Known(s \o t)
<1>1. /\ s \o t \in Seq(Parts) /\ Len(s \o t) = Len(s) + Len(t)
      /\ \A i \in 1..Len(s) + Len(t) : (s \o t)[i] = IF i <= Len(s) THEN s[i] ELSE t[i - Len(s)]
    BY ConcatProperties
<1>2. DOMAIN (s \o t) = 1..Len(s) + Len(t) /\ DOMAIN s = 1..Len(s) /\ DOMAIN t = 1..Len(t)
      /\ Len(s) \in Nat /\ Len(t) \in Nat
    BY <1>1
<1>3. \A i \in DOMAIN s : i \in DOMAIN (s \o t) /\ (s \o t)[i] = s[i]
    BY <1>1, <1>2
<1>4. \A i \in DOMAIN t : i + Len(s) \in DOMAIN (s \o t) /\ (s \o t)[i + Len(s)] = t[i]
    BY <1>1, <1>2
<1>5. \A i \in DOMAIN (s \o t) : (i \in DOMAIN s /\ (s \o t)[i] = s[i])
                                 \/ (i - Len(s) \in DOMAIN t /\ (s \o t)[i] = t[i - Len(s)])
    BY <1>1, <1>2
<1>6. Spoilt(s) => Spoilt(s \o t)
    BY <1>3, Zenon DEF Spoilt
<1>7. Spoilt(t) => Spoilt(s \o t)
    BY <1>4, Zenon DEF Spoilt
<1>8. Spoilt(s \o t) => Spoilt(s) \/ Spoilt(t)
    BY <1>5, Zenon DEF Spoilt
<1>9. Known(s) /\ Known(t) => Known(s \o t)
    BY <1>5, Zenon DEF Known
<1> QED BY <1>1, <1>6, <1>7, <1>8, <1>9

\* Facts about the front of a sequence of parts, and about adding one.
LEMMA TailParts ==
  ASSUME NEW s \in Seq(Parts), s # <<>>
  PROVE  /\ Head(s) \in Parts /\ Tail(s) \in Seq(Parts) /\ 1 \in DOMAIN s /\ Head(s) = s[1]
         /\ \A i \in DOMAIN Tail(s) : i + 1 \in DOMAIN s /\ Tail(s)[i] = s[i + 1]
<1>1. /\ Len(s) \in Nat \ {0} /\ DOMAIN s = 1..Len(s) /\ Tail(s) \in Seq(Parts) /\ Len(Tail(s)) = Len(s) - 1
      /\ Head(s) = s[1] /\ Head(s) \in Parts
    BY EmptySeq, HeadTailProperties
<1>2. DOMAIN Tail(s) = 1..Len(Tail(s))
    BY <1>1
<1>3. \A i \in 1..Len(Tail(s)) : Tail(s)[i] = s[i + 1]
    BY HeadTailProperties
<1> QED BY <1>1, <1>2, <1>3

\* One more part at the end of a sequence of parts.
LEMMA AppendParts ==
  ASSUME NEW s \in Seq(Parts), NEW x \in Parts
  PROVE  /\ Append(s, x) \in Seq(Parts) /\ Append(s, x) # <<>>
         /\ \A i \in DOMAIN Append(s, x) : Append(s, x)[i] = x \/ (i \in DOMAIN s /\ Append(s, x)[i] = s[i])
<1>1. /\ Append(s, x) \in Seq(Parts) /\ Len(Append(s, x)) = Len(s) + 1 /\ Append(s, x)[Len(s) + 1] = x
      /\ \A i \in 1..Len(s) : Append(s, x)[i] = s[i]
    BY AppendProperties
<1>2. Len(s) \in Nat /\ DOMAIN s = 1..Len(s) /\ DOMAIN Append(s, x) = 1..(Len(s) + 1)
    BY <1>1
<1> QED BY <1>1, <1>2

\* Events are numbered from 1 and have at least one part.

\* The events that carry nothing but an operation.
LEMMA EventsAre ==
  ASSUME TerminalTypes
  PROVE  Limit \in Nat /\ Len(lens) \in Nat /\ \A e \in Events : e \in Nat /\ lens[e] \in Nat \ {0}
<1>1. Len(lens) \in Nat /\ \A e \in 1..Len(lens) : lens[e] \in EventLens
    BY DEF TerminalTypes
<1>2. Limit \in Nat /\ \A n \in EventLens : n \in Nat \ {0}
    BY TerminalAssumption
<1>3. \A e \in Events : e \in Nat
    BY <1>1 DEF Events
<1> QED BY <1>1, <1>2, <1>3, Zenon DEF Events

\* SecureTerminal begins empty, with no key and nothing sent.
LEMMA TerminalInitially == TerminalInit => TerminalInv
<1> SUFFICES ASSUME TerminalInit PROVE TerminalInv
    OBVIOUS
<1>1. TerminalTypes
    BY DEF TerminalInit, TerminalTypes, Sending, Parts
<1>2. TerminalFlags
    BY Zenon DEF TerminalInit, TerminalFlags
<1>3. PageKnows /\ NothingLeft /\ HeardWhole /\ WillFlush
    BY DEF TerminalInit, PageKnows, Known, NothingLeft, HeardWhole, WillFlush
<1>4. RestIsMine /\ OutHeld /\ BothCrossed /\ CrossedOnly /\ InOrder
    BY DEF TerminalInit, RestIsMine, OutHeld, BothCrossed, CrossedOnly, InOrder, Alone, Sending
<1> QED BY <1>1, <1>2, <1>3, <1>4 DEF TerminalInv

\* WritePart: the next part of the event goes behind those in the buffer.
LEMMA WriteKeeps == ASSUME NEW w \in Writers, TerminalInv, WritePart(w) PROVE TerminalInv'
<1> USE DEF TerminalInv
<1>1. /\ wpc[w] = "write" /\ rest[w] # <<>>
      /\ buffer' = Append(buffer, Head(rest[w])) /\ rest' = [rest EXCEPT ![w] = Tail(rest[w])]
      /\ wpc' = [wpc EXCEPT ![w] = IF Len(buffer) + 1 > Limit THEN "flush" ELSE "write"]
      /\ final' = [final EXCEPT ![w] = FALSE]
      /\ UNCHANGED <<sealing, out, current, received, heard, lens, crossed, everSealed>>
    BY DEF WritePart
<1>2. rest[w] \in Seq(Parts) /\ buffer \in Seq(Parts)
    BY DEF TerminalTypes
<1>3. /\ Head(rest[w]) \in Parts /\ Tail(rest[w]) \in Seq(Parts) /\ 1 \in DOMAIN rest[w] /\ Head(rest[w]) = rest[w][1]
      /\ \A i \in DOMAIN Tail(rest[w]) : i + 1 \in DOMAIN rest[w] /\ Tail(rest[w])[i] = rest[w][i + 1]
    BY <1>1, <1>2, TailParts
<1>4. /\ buffer' \in Seq(Parts)
      /\ \A i \in DOMAIN buffer' : buffer'[i] = Head(rest[w]) \/ (i \in DOMAIN buffer /\ buffer'[i] = buffer[i])
    BY <1>1, <1>2, <1>3, AppendParts
<1>5. /\ wpc' \in [Writers -> {"idle", "write", "flush", "clear", "print"}]
      /\ wpc'[w] \in {"write", "flush"} /\ \A v \in Writers : v # w => wpc'[v] = wpc[v] /\ rest'[v] = rest[v]
      /\ rest'[w] = Tail(rest[w]) /\ (wpc'[w] = "flush" => Len(buffer) + 1 > Limit)
    BY <1>1 DEF TerminalTypes
<1>6. \A v \in Writers : /\ Sending(v)' <=> Sending(v)
                         /\ Alone(v)' <=> Alone(v)
    BY <1>1, <1>5, Zenon DEF Sending, Alone
<1>7. TerminalTypes'
    BY <1>1, <1>3, <1>4, <1>5, <1>6 DEF TerminalTypes, Events
<1>8. TerminalFlags'
    BY <1>1, Zenon DEF TerminalFlags
<1>9. PageKnows' /\ HeardWhole'
    BY <1>1, Zenon DEF PageKnows, HeardWhole, Known, Events, Spoilt, Long, Text
<1>10. NothingLeft'
    BY <1>1, <1>6, Zenon DEF NothingLeft, Spoilt, Long
<1>11. RestIsMine'
    BY <1>1, <1>3, <1>5, <1>6 DEF RestIsMine
<1>12. OutHeld'
    BY <1>1, <1>5, Zenon DEF OutHeld
<1>13. WillFlush'
    BY <1>5 DEF WillFlush, Sending
<1>14. BothCrossed'
    BY <1>1, <1>6, Zenon DEF BothCrossed
<1>15. CrossedOnly'
  <2> SUFFICES ASSUME NEW v \in Writers, Sending(v)', current[v] \in crossed
               PROVE  AllCrossed(buffer)' /\ \A u \in Writers : AllCrossed(out[u])'
      BY <1>1, Zenon DEF CrossedOnly
  <2>1. Sending(v) /\ Sending(w)
      BY <1>1, <1>6 DEF Sending
  <2>2. current[w] \in crossed
      BY <2>1, Zenon DEF BothCrossed
  <2>3. Head(rest[w])[1] \in crossed
      BY <1>3, <2>1, <2>2 DEF RestIsMine
  <2>4. AllCrossed(buffer) /\ \A u \in Writers : AllCrossed(out[u])
      BY <2>1, Zenon DEF CrossedOnly
  <2>5. AllCrossed(buffer)'
      BY <1>1, <1>4, <2>3, <2>4 DEF AllCrossed
  <2> QED BY <1>1, <2>4, <2>5, Zenon DEF AllCrossed
<1>16. InOrder'
  <2> SUFFICES ASSUME NEW v \in Writers, Alone(v)'
               PROVE  \E a, b \in 0..lens[current[v]] : SentSoFar(v, current[v], lens[current[v]], a, b)'
      BY <1>1, Zenon DEF InOrder
  <2>1. Alone(v) /\ Sending(w) /\ Alone(w) /\ v = w
      BY <1>1, <1>6, Zenon DEF Alone, BothCrossed, Sending
  <2>2. PICK e \in Nat, n \in Nat : e = current[w] /\ n = lens[e] /\ e \in Events /\ Limit \in Nat
      BY <2>1, EventsAre DEF TerminalTypes
  <2>3. PICK a \in 0..n, b \in 0..n : SentSoFar(w, e, n, a, b)
      BY <2>1, <2>2, Zenon DEF InOrder
  <2>4. /\ a \in Nat /\ b \in Nat /\ a <= b /\ b <= n /\ rest[w] = Pieces(e, b, n) /\ buffer = Pieces(e, a, b)
        /\ n <= Limit + 1 => a \in {0, n}
        /\ Spoilt(received) \/ received = IF a = n \/ Long(e) THEN <<>> ELSE Pieces(e, 0, a)
      BY <1>1, <2>2, <2>3 DEF SentSoFar
  <2>5. b < n
      BY <1>1, <2>2, <2>4, PiecesEmpty
  <2>6. Head(rest[w]) = <<e, b + 1>> /\ Tail(rest[w]) = Pieces(e, b + 1, n)
    <3>1. Head(Pieces(e, b, n)) = <<e, b + 1>> /\ Tail(Pieces(e, b, n)) = Pieces(e, b + 1, n)
        BY <2>4, <2>5, PiecesHeadTail
    <3> QED BY <2>4, <3>1, Zenon
  <2>7. buffer' = Pieces(e, a, b + 1)
    <3>1. Append(Pieces(e, a, b), <<e, b + 1>>) = Pieces(e, a, b + 1)
        BY <2>4, PiecesAppend
    <3> QED BY <1>1, <2>4, <2>6, <3>1
  <2>8. Len(buffer) = b - a
    <3>1. Len(Pieces(e, a, b)) = b - a
        BY <2>4, PiecesAre
    <3> QED BY <2>4, <3>1
  <2>9. n <= Limit + 1 => a \in {0, n} /\ (wpc'[w] # "write" => b + 1 = n)
      BY <1>5, <2>2, <2>4, <2>5, <2>8
  <2>10. b + 1 \in 0..n /\ a <= b + 1 /\ a # n
      BY <2>2, <2>4, <2>5
  <2>11. final'[w] = FALSE
      BY <1>1, Zenon DEF TerminalFlags
  <2>12. Spoilt(received)' \/ received' = IF a = n \/ Long(e)' THEN <<>> ELSE Pieces(e, 0, a)
      BY <1>1, <2>4, Zenon DEF Spoilt, Long
  <2>13. SentSoFar(w, e, n, a, b + 1)'
      BY <1>1, <1>5, <2>6, <2>7, <2>9, <2>10, <2>11, <2>12 DEF SentSoFar
  <2> QED BY <1>1, <2>1, <2>2, <2>10, <2>13
<1> QED BY <1>7, <1>8, <1>9, <1>10, <1>11, <1>12, <1>13, <1>14, <1>15, <1>16

\* A task that sends alone and goes on doing so, in a step that takes nothing from the page.
LEMMA AloneStays ==
  ASSUME NEW w \in Writers, TerminalInv, Sending(w),
         UNCHANGED <<sealing, current, received, heard, lens, crossed, everSealed, rest>>,
         \A v \in Writers : v # w => wpc'[v] = wpc[v],
         \A e, n \in Nat : \A a, b \in 0..n : SentSoFar(w, e, n, a, b) /\ Sending(w)' => SentSoFar(w, e, n, a, b)'
  PROVE  InOrder' /\ PageKnows' /\ HeardWhole' /\ BothCrossed' /\ RestIsMine'
         /\ (Sending(w)' => NothingLeft')
<1> USE DEF TerminalInv
<1>1. \A v \in Writers : (Sending(v)' => Sending(v)) /\ (Alone(v)' => Alone(v))
    BY Zenon DEF Sending, Alone
<1>2. PageKnows' /\ HeardWhole'
    BY Zenon DEF PageKnows, HeardWhole, Known, Events, Spoilt, Long, Text
<1>3. BothCrossed' /\ RestIsMine'
    BY <1>1, Zenon DEF BothCrossed, RestIsMine
<1>4. Sending(w)' => \A v \in Writers : Alone(v)' <=> Alone(v)
    BY Zenon DEF Sending, Alone
<1>5. Sending(w)' => NothingLeft'
    BY <1>4, Zenon DEF NothingLeft, Spoilt, Long
<1>6. InOrder'
  <2> SUFFICES ASSUME NEW v \in Writers, Alone(v)'
               PROVE  \E a, b \in 0..lens[current[v]] : SentSoFar(v, current[v], lens[current[v]], a, b)'
      BY Zenon DEF InOrder
  <2>1. Alone(v) /\ Alone(w) /\ v = w /\ Sending(w)'
      BY <1>1, Zenon DEF Alone, BothCrossed
  <2>2. PICK e \in Nat, n \in Nat : e = current[w] /\ n = lens[e]
      BY <2>1, EventsAre DEF TerminalTypes, Alone
  <2>3. PICK a \in 0..n, b \in 0..n : SentSoFar(w, e, n, a, b)
      BY <2>1, <2>2, Zenon DEF InOrder
  <2>4. SentSoFar(w, e, n, a, b)'
      BY <2>1, <2>3
  <2> QED BY <2>1, <2>2, <2>3, <2>4, Zenon
<1> QED BY <1>2, <1>3, <1>5, <1>6

\* The end of print(): everything is written, and the last flush begins.
LEMMA LastFlushKeeps == ASSUME NEW w \in Writers, TerminalInv, LastFlush(w) PROVE TerminalInv'
<1> USE DEF TerminalInv
<1>1. /\ wpc[w] = "write" /\ rest[w] = <<>>
      /\ wpc' = [wpc EXCEPT ![w] = "flush"] /\ final' = [final EXCEPT ![w] = TRUE]
      /\ UNCHANGED <<buffer, sealing, rest, out, current, received, heard, lens, crossed, everSealed>>
    BY DEF LastFlush
<1>2. /\ wpc' \in [Writers -> {"idle", "write", "flush", "clear", "print"}]
      /\ wpc'[w] = "flush" /\ \A v \in Writers : v # w => wpc'[v] = wpc[v]
    BY <1>1 DEF TerminalTypes
<1>3. Sending(w) /\ Sending(w)'
    BY <1>1, <1>2 DEF Sending
<1>4. ASSUME NEW e \in Nat, NEW n \in Nat, NEW a \in 0..n, NEW b \in 0..n, SentSoFar(w, e, n, a, b)
      PROVE  SentSoFar(w, e, n, a, b)'
  <2>1. b = n
      BY <1>1, <1>4, PiecesEmpty DEF SentSoFar
  <2>2. Spoilt(received)' \/ received' = IF a = n \/ Long(e)' THEN <<>> ELSE Pieces(e, 0, a)
      BY <1>1, <1>4, Zenon DEF SentSoFar, Spoilt, Long
  <2> QED BY <1>1, <1>2, <1>4, <2>1, <2>2 DEF SentSoFar
<1>5. InOrder' /\ PageKnows' /\ HeardWhole' /\ BothCrossed' /\ RestIsMine' /\ NothingLeft'
    BY <1>1, <1>2, <1>3, <1>4, AloneStays
<1>6. TerminalTypes'
    BY <1>1, <1>2, <1>3, Zenon DEF TerminalTypes, Events, Sending
<1>7. TerminalFlags'
    BY <1>1, Zenon DEF TerminalFlags
<1>8. OutHeld'
    BY <1>1, <1>2, Zenon DEF OutHeld
<1>9. WillFlush'
    BY <1>2 DEF WillFlush, Sending
<1>10. CrossedOnly'
    BY <1>1, <1>2, <1>3, Zenon DEF CrossedOnly, AllCrossed, Sending
<1> QED BY <1>5, <1>6, <1>7, <1>8, <1>9, <1>10

\* flush: a copy of the buffer, to be cleared next.
LEMMA CopyKeeps ==
  ASSUME NEW w \in Writers, TerminalInv, Flush(w), buffer # <<>> PROVE TerminalInv'
<1> USE DEF TerminalInv
<1>1. /\ wpc[w] = "flush"
      /\ wpc' = [wpc EXCEPT ![w] = "clear"] /\ out' = [out EXCEPT ![w] = buffer]
      /\ UNCHANGED <<buffer, sealing, rest, final, current, received, heard, lens, crossed, everSealed>>
    BY DEF Flush
<1>2. /\ wpc' \in [Writers -> {"idle", "write", "flush", "clear", "print"}]
      /\ wpc'[w] = "clear" /\ \A v \in Writers : v # w => wpc'[v] = wpc[v]
      /\ out' \in [Writers -> Seq(Parts)]
      /\ out'[w] = buffer /\ \A v \in Writers : v # w => out'[v] = out[v]
    BY <1>1 DEF TerminalTypes
<1>3. Sending(w) /\ Sending(w)'
    BY <1>1, <1>2 DEF Sending
<1>4. ASSUME NEW e \in Nat, NEW n \in Nat, NEW a \in 0..n, NEW b \in 0..n, SentSoFar(w, e, n, a, b)
      PROVE  SentSoFar(w, e, n, a, b)'
  <2>2. Spoilt(received)' \/ received' = IF a = n \/ Long(e)' THEN <<>> ELSE Pieces(e, 0, a)
      BY <1>1, <1>4, Zenon DEF SentSoFar, Spoilt, Long
  <2>3. final'[w] = final[w]
      BY <1>1
  <2> QED BY <1>1, <1>2, <1>4, <2>2, <2>3 DEF SentSoFar
<1>5. InOrder' /\ PageKnows' /\ HeardWhole' /\ BothCrossed' /\ RestIsMine' /\ NothingLeft'
    BY <1>1, <1>2, <1>3, <1>4, AloneStays
<1>6. TerminalTypes'
    BY <1>1, <1>2, <1>3, Zenon DEF TerminalTypes, Events, Sending
<1>7. TerminalFlags'
    BY <1>1, Zenon DEF TerminalFlags
<1>8. OutHeld'
    BY <1>1, <1>2, Zenon DEF OutHeld
<1>9. WillFlush'
    BY <1>2 DEF WillFlush, Sending
<1>10. CrossedOnly'
    BY <1>1, <1>2, <1>3, Zenon DEF CrossedOnly, AllCrossed, Sending
<1> QED BY <1>5, <1>6, <1>7, <1>8, <1>9, <1>10

\* flush of an empty buffer: nothing to send, and the event may be over.
LEMMA NoFlushKeeps ==
  ASSUME NEW w \in Writers, TerminalInv, Flush(w), buffer = <<>> PROVE TerminalInv'
<1> USE DEF TerminalInv
<1>1. /\ wpc[w] = "flush"
      /\ wpc' = [wpc EXCEPT ![w] = IF final[w] THEN "idle" ELSE "write"]
      /\ UNCHANGED <<buffer, sealing, rest, final, out, current, received, heard, lens, crossed, everSealed>>
    BY DEF Flush, Return
<1>2. /\ wpc' \in [Writers -> {"idle", "write", "flush", "clear", "print"}]
      /\ wpc'[w] = (IF final[w] THEN "idle" ELSE "write") /\ \A v \in Writers : v # w => wpc'[v] = wpc[v]
    BY <1>1 DEF TerminalTypes
<1>3. Sending(w) /\ (Sending(w)' => wpc'[w] = "write")
    BY <1>1, <1>2 DEF Sending
<1>4. ASSUME NEW e \in Nat, NEW n \in Nat, NEW a \in 0..n, NEW b \in 0..n, SentSoFar(w, e, n, a, b), Sending(w)'
      PROVE  SentSoFar(w, e, n, a, b)'
  <2>2. Spoilt(received)' \/ received' = IF a = n \/ Long(e)' THEN <<>> ELSE Pieces(e, 0, a)
      BY <1>1, <1>4, Zenon DEF SentSoFar, Spoilt, Long
  <2> QED BY <1>1, <1>3, <1>4, <2>2 DEF SentSoFar
<1>5. InOrder' /\ PageKnows' /\ HeardWhole' /\ BothCrossed' /\ RestIsMine' /\ (Sending(w)' => NothingLeft')
    BY <1>1, <1>2, <1>3, <1>4, AloneStays
<1>6. TerminalTypes'
    BY <1>1, <1>2, <1>3, Zenon DEF TerminalTypes, Events, Sending
<1>7. TerminalFlags'
    BY <1>1, Zenon DEF TerminalFlags
<1>8. OutHeld'
    BY <1>1, <1>2 DEF OutHeld
<1>9. WillFlush'
    BY <1>1 DEF WillFlush
<1>10. CrossedOnly'
    BY <1>1, <1>2, <1>3, Zenon DEF CrossedOnly, AllCrossed, Sending
<1>11. ASSUME ~Sending(w)' PROVE NothingLeft'
  <2>1. final[w]
      BY <1>2, <1>11 DEF Sending
  <2>2. Spoilt(received) \/ received = <<>>
    <3>1. CASE Alone(w)
      <4>1. PICK e \in Nat, n \in Nat : e = current[w] /\ n = lens[e]
          BY <3>1, EventsAre DEF TerminalTypes, Alone
      <4>2. PICK a \in 0..n, b \in 0..n : SentSoFar(w, e, n, a, b)
          BY <3>1, <4>1, Zenon DEF InOrder
      <4>3. a = b /\ b = n
          BY <1>1, <2>1, <4>2, PiecesEmpty DEF SentSoFar
      <4> QED BY <4>2, <4>3 DEF SentSoFar
    <3>2. CASE ~Alone(w)
      <4>1. \A v \in Writers : ~Alone(v)
          BY <1>3, <3>2, Zenon DEF Alone, BothCrossed
      <4> QED BY <4>1, Zenon DEF NothingLeft
    <3> QED BY <3>1, <3>2
  <2> QED BY <1>1, <2>2, Zenon DEF NothingLeft, Spoilt, Long
<1> QED BY <1>5, <1>6, <1>7, <1>8, <1>9, <1>10, <1>11

\* flush empties the buffer after it was copied.
LEMMA ClearKeeps == ASSUME NEW w \in Writers, TerminalInv, ClearBuffer(w) PROVE TerminalInv'
<1> USE DEF TerminalInv
<1>1. /\ wpc[w] = "clear" /\ buffer' = <<>> /\ wpc' = [wpc EXCEPT ![w] = "print"]
      /\ UNCHANGED <<sealing, rest, final, out, current, received, heard, lens, crossed, everSealed>>
    BY DEF ClearBuffer
<1>2. /\ wpc' \in [Writers -> {"idle", "write", "flush", "clear", "print"}]
      /\ wpc'[w] = "print" /\ \A v \in Writers : v # w => wpc'[v] = wpc[v]
    BY <1>1 DEF TerminalTypes
<1>3. Sending(w) /\ Sending(w)'
    BY <1>1, <1>2 DEF Sending
<1>4. ASSUME NEW e \in Nat, NEW n \in Nat, NEW a \in 0..n, NEW b \in 0..n, SentSoFar(w, e, n, a, b)
      PROVE  SentSoFar(w, e, n, a, b)'
  <2>2. Spoilt(received)' \/ received' = IF a = n \/ Long(e)' THEN <<>> ELSE Pieces(e, 0, a)
      BY <1>1, <1>4, Zenon DEF SentSoFar, Spoilt, Long
  <2>3. final'[w] = final[w]
      BY <1>1
  <2> QED BY <1>1, <1>2, <1>4, <2>2, <2>3 DEF SentSoFar
<1>5. InOrder' /\ PageKnows' /\ HeardWhole' /\ BothCrossed' /\ RestIsMine' /\ NothingLeft'
    BY <1>1, <1>2, <1>3, <1>4, AloneStays
<1>6. TerminalTypes'
    BY <1>1, <1>2, <1>3, EmptySeq DEF TerminalTypes, Events, Sending
<1>7. TerminalFlags'
    BY <1>1, Zenon DEF TerminalFlags
<1>8. OutHeld'
    BY <1>1, <1>2, Zenon DEF OutHeld
<1>9. WillFlush'
    BY <1>1, Zenon DEF WillFlush
<1>10. CrossedOnly'
  <2>1. AllCrossed(<<>>)'
      BY DEF AllCrossed
  <2> QED BY <1>1, <1>2, <1>3, <2>1, Zenon DEF CrossedOnly, AllCrossed, Sending
<1> QED BY <1>5, <1>6, <1>7, <1>8, <1>9, <1>10

\* What a task that sends alone has just printed: the parts from a to b of its event.
LEMMA AlonePrints ==
  ASSUME NEW w \in Writers, TerminalInv, Alone(w), wpc[w] = "print",
         NEW e \in Nat, NEW n \in Nat, e = current[w], n = lens[e], e \in Events,
         NEW a \in 0..n, NEW b \in 0..n, SentSoFar(w, e, n, a, b)
  PROVE  /\ a < b /\ out[w] = Pieces(e, a, b) /\ buffer = <<>>
         /\ out[w] \in Seq(Parts) /\ Known(out[w])
         /\ EndsLine(out[w]) <=> b = n
         /\ Spoilt(out[w]) <=> Long(e)
         /\ ~Long(e) /\ everSealed => a = 0 /\ b = n
<1> USE DEF TerminalInv
<1>1. out[w] = Pieces(e, a, b) /\ out[w] # <<>> /\ buffer = <<>> /\ a <= b
    BY DEF SentSoFar, OutHeld
<1>2. a \in Nat /\ b \in Nat /\ n \in Nat /\ n # 0 /\ Limit \in Nat
    BY EventsAre
<1>3. a < b
    BY <1>1, <1>2, PiecesEmpty
<1>4. /\ out[w] \in Seq(Parts) /\ Len(out[w]) = b - a /\ DOMAIN out[w] = 1..(b - a)
      /\ \A i \in 1..(b - a) : out[w][i] = <<e, a + i>>
  <2>1. /\ Pieces(e, a, b) \in Seq(Parts) /\ Len(Pieces(e, a, b)) = b - a
        /\ DOMAIN Pieces(e, a, b) = 1..(b - a)
        /\ \A i \in 1..(b - a) : Pieces(e, a, b)[i] = <<e, a + i>>
    <3>1. a \in Nat /\ b \in Nat /\ a <= b
        BY <1>1, <1>2
    <3> HIDE DEF TerminalInv
    <3>2. Pieces(e, a, b) \in Seq(Parts) /\ Len(Pieces(e, a, b)) = b - a
        BY <3>1, PiecesAre
    <3>3. DOMAIN Pieces(e, a, b) = 1..(b - a) /\ \A i \in 1..(b - a) : Pieces(e, a, b)[i] = <<e, a + i>>
        BY DEF Pieces
    <3> QED BY <3>2, <3>3
  <2> QED BY <1>1, <2>1, Zenon
<1>5. \A i \in DOMAIN out[w] : out[w][i][1] = e
    BY <1>4
<1>6. 1 \in DOMAIN out[w] /\ b - a \in 1..(b - a)
    BY <1>2, <1>3, <1>4
<1>7. Known(out[w])
    BY <1>5 DEF Known
<1>8. EndsLine(out[w]) <=> b = n
  <2>1. out[w][Len(out[w])] = <<e, b>>
    <3>1. out[w][b - a] = <<e, a + (b - a)>>
        BY <1>4, <1>6
    <3> QED BY <1>2, <1>4, <3>1
  <2> QED BY <1>1, <2>1 DEF EndsLine
<1>9. Spoilt(out[w]) <=> Long(e)
    BY <1>5, <1>6, Zenon DEF Spoilt, Alone
<1>10. ~Long(e) /\ everSealed => a = 0 /\ b = n
  <2>1. ~Long(e) /\ everSealed => n <= Limit + 1
      BY <1>2 DEF Long
  <2>2. n <= Limit + 1 => a \in {0, n} /\ b = n
      BY DEF SentSoFar
  <2> QED BY <1>2, <1>3, <2>1, <2>2
<1> QED BY <1>1, <1>3, <1>4, <1>7, <1>8, <1>9, <1>10

\* What a task that has met another prints is spoilt.
LEMMA CrossedPrints ==
  ASSUME NEW w \in Writers, TerminalInv, Sending(w), ~Alone(w), wpc[w] = "print"
  PROVE  out[w] \in Seq(Parts) /\ out[w] # <<>> /\ Known(out[w]) /\ Spoilt(out[w])
<1> USE DEF TerminalInv
<1>1. out[w] \in Seq(Parts) /\ out[w] # <<>>
    BY DEF TerminalTypes, OutHeld
<1>2. \A i \in DOMAIN out[w] : out[w][i][1] \in crossed
    BY Zenon DEF Alone, CrossedOnly, AllCrossed
<1>3. 1 \in DOMAIN out[w]
    BY <1>1, EmptySeq, LenProperties
<1> QED BY <1>1, <1>2, <1>3, Zenon DEF Known, Spoilt, TerminalTypes

\* flush prints the copy, and the page takes a sealed line, the end of a line, or a piece of one.
LEMMA PrintKeeps == ASSUME NEW w \in Writers, TerminalInv, PrintOut(w) PROVE TerminalInv'
<1> USE DEF TerminalInv
<1>1. /\ wpc[w] = "print"
      /\ wpc' = [wpc EXCEPT ![w] = IF final[w] THEN "idle" ELSE "write"]
      /\ out' = [out EXCEPT ![w] = <<>>]
      /\ UNCHANGED <<buffer, sealing, rest, final, current, lens, crossed, everSealed>>
    BY DEF PrintOut, Return
<1>2. \/ sealing /\ heard' = out[w] /\ received' = <<>>
      \/ ~sealing /\ EndsLine(out[w]) /\ heard' = received \o out[w] /\ received' = <<>>
      \/ ~sealing /\ ~EndsLine(out[w]) /\ received' = received \o out[w] /\ heard' = heard
    BY DEF PrintOut
<1>3. /\ wpc' \in [Writers -> {"idle", "write", "flush", "clear", "print"}]
      /\ wpc'[w] = (IF final[w] THEN "idle" ELSE "write") /\ \A v \in Writers : v # w => wpc'[v] = wpc[v]
      /\ out' \in [Writers -> Seq(Parts)]
      /\ out'[w] = <<>> /\ \A v \in Writers : v # w => out'[v] = out[v]
    BY <1>1, EmptySeq DEF TerminalTypes
<1>4. Sending(w) /\ (Sending(w)' => wpc'[w] = "write" /\ ~final[w])
    BY <1>1, <1>3 DEF Sending
<1>5. \A v \in Writers : (Sending(v)' => Sending(v)) /\ (Alone(v)' => Alone(v))
    BY <1>1, <1>3, <1>4, Zenon DEF Sending, Alone
<1>6. received \in Seq(Parts) /\ heard \in Seq(Parts) /\ <<>> \in Seq(Parts)
    BY EmptySeq DEF TerminalTypes
<1>7. out[w] \in Seq(Parts) /\ Known(out[w])
  <2>1. CASE Alone(w)
    <3>1. PICK e \in Nat, n \in Nat : e = current[w] /\ n = lens[e] /\ e \in Events
        BY <2>1, EventsAre DEF TerminalTypes, Alone
    <3>2. PICK a \in 0..n, b \in 0..n : SentSoFar(w, e, n, a, b)
        BY <2>1, <3>1, Zenon DEF InOrder
    <3> QED BY <1>1, <2>1, <3>1, <3>2, AlonePrints
  <2>2. CASE ~Alone(w)
      BY <1>1, <1>4, <2>2, CrossedPrints
  <2> QED BY <2>1, <2>2
<1>8. /\ received \o out[w] \in Seq(Parts) /\ Known(received \o out[w])
      /\ Spoilt(received \o out[w]) <=> Spoilt(received) \/ Spoilt(out[w])
    BY <1>6, <1>7, JoinedLine DEF PageKnows
<1>9. received' \in Seq(Parts) /\ heard' \in Seq(Parts) /\ Known(received') /\ Known(heard')
  <2>1. Known(<<>>)
      BY DEF Known
  <2> QED BY <1>2, <1>6, <1>7, <1>8, <2>1, Zenon DEF PageKnows
<1>10. TerminalTypes'
    BY <1>1, <1>3, <1>4, <1>5, <1>9, Zenon DEF TerminalTypes, Events
<1>11. TerminalFlags'
    BY <1>1, Zenon DEF TerminalFlags
<1>12. PageKnows'
    BY <1>1, <1>9, Zenon DEF PageKnows, Known, Events
<1>13. RestIsMine' /\ BothCrossed'
    BY <1>1, <1>5, Zenon DEF RestIsMine, BothCrossed
<1>14. OutHeld'
    BY <1>3 DEF OutHeld
<1>15. WillFlush'
    BY <1>1, <1>3, <1>4 DEF WillFlush, Sending
<1>16. CrossedOnly'
  <2>1. AllCrossed(<<>>)'
      BY DEF AllCrossed
  <2> QED BY <1>1, <1>3, <1>5, <2>1, Zenon DEF CrossedOnly, AllCrossed
<1>17. ASSUME Alone(w) PROVE InOrder' /\ NothingLeft' /\ HeardWhole'
  <2>1. PICK e \in Nat, n \in Nat : e = current[w] /\ n = lens[e] /\ e \in Events
      BY <1>17, EventsAre DEF TerminalTypes, Alone
  <2>2. PICK a \in 0..n, b \in 0..n : SentSoFar(w, e, n, a, b)
      BY <1>17, <2>1, Zenon DEF InOrder
  <2>3. /\ a < b /\ out[w] = Pieces(e, a, b) /\ buffer = <<>>
        /\ out[w] \in Seq(Parts) /\ Known(out[w])
        /\ EndsLine(out[w]) <=> b = n
        /\ Spoilt(out[w]) <=> Long(e)
        /\ ~Long(e) /\ everSealed => a = 0 /\ b = n
    <3> HIDE DEF TerminalInv
    <3> QED BY <1>1, <1>17, <2>1, <2>2, AlonePrints
  <2>4. /\ a \in Nat /\ b \in Nat /\ a # n /\ b <= n /\ Limit \in Nat
        /\ n <= Limit + 1 => b = n
        /\ rest[w] = Pieces(e, b, n) /\ (final[w] => b = n)
        /\ Spoilt(received) \/ received = IF Long(e) THEN <<>> ELSE Pieces(e, 0, a)
      BY <1>1, <2>2, <2>3, EventsAre DEF SentSoFar
  <2>5. Pieces(e, 0, a) \o Pieces(e, a, b) = Pieces(e, 0, b)
    <3>1. 0 \in Nat /\ 0 <= a /\ a <= b
        BY <2>3, <2>4
    <3> HIDE DEF TerminalInv
    <3>2. a \in Nat /\ b \in Nat
        BY <2>4
    <3> QED BY <3>1, <3>2, PiecesJoin
  <2>6. Spoilt(received') \/ received' = IF b = n \/ Long(e) THEN <<>> ELSE Pieces(e, 0, b)
    <3>1. CASE sealing
      <4>1. Long(e) \/ b = n
          BY <2>3, <3>1, Zenon DEF TerminalFlags
      <4> QED BY <1>2, <3>1, <4>1
    <3>2. CASE ~sealing /\ EndsLine(out[w])
        BY <1>2, <2>3, <3>2
    <3>3. CASE ~sealing /\ ~EndsLine(out[w])
        BY <1>2, <1>8, <2>3, <2>4, <2>5, <3>3
    <3> QED BY <3>1, <3>2, <3>3
  <2>7. Spoilt(received)' \/ received' = IF b = n \/ Long(e)' THEN <<>> ELSE Pieces(e, 0, b)
      BY <1>1, <2>6, Zenon DEF Spoilt, Long
  <2>8. InOrder'
    <3> SUFFICES ASSUME NEW v \in Writers, Alone(v)'
                 PROVE  \E c, d \in 0..lens[current[v]] : SentSoFar(v, current[v], lens[current[v]], c, d)'
        BY <1>1, Zenon DEF InOrder
    <3>1. v = w /\ Sending(w)'
        BY <1>4, <1>5, Zenon DEF Alone, BothCrossed
    <3>2. buffer' = Pieces(e, b, b)
        BY <1>1, <2>3, <2>4, PiecesEmpty
    <3>3. SentSoFar(w, e, n, b, b)'
        BY <1>1, <1>4, <2>4, <2>7, <3>1, <3>2 DEF SentSoFar
    <3> QED BY <1>1, <2>1, <3>1, <3>3, Zenon
  <2>9. NothingLeft'
    <3>1. CASE Sending(w)'
      <4>1. Alone(w)'
          BY <1>1, <1>17, <3>1, Zenon DEF Alone
      <4> QED BY <4>1, Zenon DEF NothingLeft
    <3>2. CASE ~Sending(w)'
      <4>1. b = n
          BY <1>3, <2>4, <3>2 DEF Sending
      <4> QED BY <2>7, <4>1 DEF NothingLeft
    <3> QED BY <3>1, <3>2
  <2>10. ASSUME heard' # <<>> PROVE Spoilt(heard') \/ heard' = Text(heard'[1][1], lens[heard'[1][1]])
    <3>1. CASE heard' = heard
        BY <1>10, <2>10, <3>1, Zenon DEF HeardWhole
    <3>2. ASSUME heard' = Pieces(e, 0, n) PROVE heard' = Text(heard'[1][1], lens[heard'[1][1]])
      <4>1. heard' = Text(e, n)
          BY <3>2, TextIsPieces
      <4>2. 0 \in Nat /\ n \in Nat /\ 0 <= n /\ 1 \in 1..(n - 0)
          BY <2>3, <2>4
      <4>3. Pieces(e, 0, n)[1] = <<e, 0 + 1>>
          BY <4>2, PiecesAre
      <4>4. heard'[1][1] = e
          BY <3>2, <4>3
      <4> QED BY <2>1, <4>1, <4>4
    <3>3. CASE sealing
      <4>1. Long(e) \/ (a = 0 /\ b = n)
          BY <2>3, <3>3, Zenon DEF TerminalFlags
      <4> QED BY <1>2, <2>3, <3>2, <3>3, <4>1
    <3>4. CASE ~sealing /\ EndsLine(out[w])
      <4>1. CASE Spoilt(received) \/ Long(e)
          BY <1>2, <1>8, <2>3, <3>4, <4>1
      <4>2. CASE ~Spoilt(received) /\ ~Long(e)
        <5>1. heard' = Pieces(e, 0, n)
            BY <1>2, <2>3, <2>4, <2>5, <3>4, <4>2
        <5> QED BY <3>2, <5>1
      <4> QED BY <4>1, <4>2
    <3> QED BY <1>2, <3>1, <3>3, <3>4
  <2>11. HeardWhole'
      BY <1>1, <2>10, Zenon DEF HeardWhole, Spoilt, Long, Text
  <2> QED BY <2>8, <2>9, <2>11
<1>18. ASSUME ~Alone(w) PROVE InOrder' /\ NothingLeft' /\ HeardWhole'
  <2>1. Spoilt(out[w])
      BY <1>1, <1>4, <1>18, CrossedPrints
  <2>2. \A v \in Writers : ~Alone(v)
      BY <1>4, <1>18, Zenon DEF Alone, BothCrossed
  <2>3. InOrder'
      BY <1>5, <2>2, Zenon DEF InOrder
  <2>4. Spoilt(received') \/ received' = <<>>
      BY <1>2, <1>8, <2>1
  <2>5. Spoilt(heard') \/ heard' = heard
      BY <1>2, <1>8, <2>1
  <2>6. NothingLeft'
      BY <1>1, <2>4, Zenon DEF NothingLeft, Spoilt, Long
  <2>7. HeardWhole'
      BY <1>1, <2>5, Zenon DEF HeardWhole, Spoilt, Long, Text
  <2> QED BY <2>3, <2>6, <2>7
<1> QED BY <1>10, <1>11, <1>12, <1>13, <1>14, <1>15, <1>16, <1>17, <1>18

\* A key is agreed or given up: from now on long events are spoilt.
LEMMA SealingKeeps == ASSUME NEW w \in Writers, TerminalInv, SetSealing(w) PROVE TerminalInv'
<1> USE DEF TerminalInv
<1>1. /\ sealing' = ~sealing /\ everSealed' = TRUE
      /\ UNCHANGED <<buffer, wpc, rest, final, out, current, received, heard, lens, crossed>>
    BY DEF SetSealing
<1>2. TerminalTypes'
    BY <1>1, Zenon DEF TerminalTypes, Events, Sending
<1>3. TerminalFlags'
    BY <1>1, Zenon DEF TerminalFlags
<1>4. PageKnows' /\ RestIsMine' /\ OutHeld' /\ WillFlush' /\ BothCrossed' /\ CrossedOnly'
    BY <1>1, Zenon DEF PageKnows, Known, Events, RestIsMine, OutHeld, WillFlush, BothCrossed, CrossedOnly,
                       AllCrossed, Sending
<1>5. (Spoilt(received) => Spoilt(received)') /\ (Spoilt(heard) => Spoilt(heard)')
    BY <1>1, Zenon DEF Spoilt, Long
<1>6. \A v \in Writers : Alone(v)' <=> Alone(v)
    BY <1>1, Zenon DEF Alone, Sending
<1>7. HeardWhole' /\ NothingLeft'
    BY <1>1, <1>5, <1>6, Zenon DEF HeardWhole, NothingLeft, Text
<1>8. InOrder'
  <2> SUFFICES ASSUME NEW v \in Writers, Alone(v)'
               PROVE  \E a, b \in 0..lens[current[v]] : SentSoFar(v, current[v], lens[current[v]], a, b)'
      BY <1>1, Zenon DEF InOrder
  <2>1. Alone(v)
      BY <1>6
  <2>2. PICK e \in Nat, n \in Nat : e = current[v] /\ n = lens[e]
      BY <2>1, EventsAre DEF TerminalTypes, Alone
  <2>3. PICK a \in 0..n, b \in 0..n : SentSoFar(v, e, n, a, b)
      BY <2>1, <2>2, Zenon DEF InOrder
  <2>4. Spoilt(received)' \/ received' = IF a = n \/ Long(e)' THEN <<>> ELSE Pieces(e, 0, a)
    <3>1. CASE ~Spoilt(received) /\ ~Long(e) /\ Long(e)' /\ a # n
      <4>1. received' = Pieces(e, 0, a)
          BY <1>1, <2>3, <3>1 DEF SentSoFar
      <4>2. CASE a = 0
        <5>1. Pieces(e, 0, 0) = <<>>
            BY PiecesEmpty
        <5> QED BY <4>1, <4>2, <5>1
      <4>3. CASE a # 0
        <5>1. 1 \in 1..(a - 0)
            BY <4>3
        <5>2. 1 \in DOMAIN Pieces(e, 0, a) /\ Pieces(e, 0, a)[1] = <<e, 0 + 1>>
            BY <5>1 DEF Pieces
        <5>3. 1 \in DOMAIN received' /\ received'[1][1] = e
            BY <4>1, <5>2
        <5> QED BY <3>1, <5>3, Zenon DEF Spoilt
      <4> QED BY <4>2, <4>3
    <3>2. CASE ~(~Spoilt(received) /\ ~Long(e) /\ Long(e)' /\ a # n)
      <4>1. Long(e) => Long(e)'
          BY <1>1, Zenon DEF Long
      <4> QED BY <1>1, <1>5, <2>3, <3>2, <4>1, Zenon DEF SentSoFar
    <3> QED BY <3>1, <3>2
  <2>5. SentSoFar(v, e, n, a, b)'
      BY <1>1, <2>3, <2>4, Zenon DEF SentSoFar
  <2> QED BY <1>1, <2>2, <2>5, Zenon
<1> QED BY <1>2, <1>3, <1>4, <1>7, <1>8

\* A new event: alone, it starts with an empty buffer; otherwise all that are being sent have crossed.
LEMMA SendKeeps ==
  ASSUME NEW w \in Writers, NEW m \in EventLens, TerminalInv, SendEvent(w, m) PROVE TerminalInv'
<1> USE DEF TerminalInv
<1>0. PICK f \in Nat : f = Len(lens) + 1
    BY EventsAre
<1>1. /\ wpc[w] = "idle" /\ lens' = Append(lens, m)
      /\ wpc' = [wpc EXCEPT ![w] = "write"] /\ rest' = [rest EXCEPT ![w] = Text(f, m)]
      /\ current' = [current EXCEPT ![w] = f]
      /\ crossed' = IF Others(w) = {} THEN crossed ELSE crossed \cup Others(w) \cup {f}
      /\ UNCHANGED <<buffer, sealing, final, out, received, heard, everSealed>>
    BY <1>0, Zenon DEF SendEvent
<1>2. /\ lens' \in Seq(EventLens) /\ Len(lens') = f /\ lens'[f] = m
      /\ \A k \in Events : lens'[k] = lens[k]
      /\ Events \subseteq Events' /\ f \in Events' /\ f \notin Events
  <2>1. lens \in Seq(EventLens) /\ Len(lens) \in Nat
      BY EventsAre DEF TerminalTypes
  <2>2. /\ lens' \in Seq(EventLens) /\ Len(lens') = Len(lens) + 1 /\ lens'[Len(lens) + 1] = m
        /\ \A k \in 1..Len(lens) : lens'[k] = lens[k]
      BY <1>1, <2>1, AppendProperties
  <2> QED BY <1>0, <2>1, <2>2 DEF Events
<1>3. m \in Nat /\ m # 0 /\ Limit \in Nat
    BY TerminalAssumption
<1>4. /\ Text(f, m) = Pieces(f, 0, m) /\ Text(f, m) \in Seq(Parts)
      /\ \A i \in DOMAIN Text(f, m) : Text(f, m)[i][1] = f
  <2> HIDE DEF TerminalInv
  <2>1. Text(f, m) = Pieces(f, 0, m)
      BY <1>3, TextIsPieces
  <2>2. 0 \in Nat /\ 0 <= m
      BY <1>3
  <2>3. Pieces(f, 0, m) \in Seq(Parts)
      BY <1>3, <2>2, PiecesAre
  <2> QED BY <2>1, <2>3 DEF Text
<1>5. /\ wpc' \in [Writers -> {"idle", "write", "flush", "clear", "print"}] /\ wpc'[w] = "write"
      /\ current' \in [Writers -> Nat] /\ current'[w] = f
      /\ rest' \in [Writers -> Seq(Parts)] /\ rest'[w] = Text(f, m)
      /\ \A v \in Writers : v # w => wpc'[v] = wpc[v] /\ current'[v] = current[v] /\ rest'[v] = rest[v]
    BY <1>1, <1>4 DEF TerminalTypes
<1>6. ~Sending(w) /\ Sending(w)' /\ \A v \in Writers : v # w => (Sending(v)' <=> Sending(v))
    BY <1>1, <1>5 DEF Sending
<1>7. Others(w) = {current[v] : v \in {u \in Writers \ {w} : Sending(u)}}
    BY DEF Others, Sending
<1>8. \A v \in Writers : Sending(v) => v # w /\ current[v] \in Others(w) /\ current[v] \in Events
    BY <1>6, <1>7 DEF TerminalTypes
<1>9. Others(w) \subseteq Events
    BY <1>7, <1>8
<1>10. crossed \subseteq crossed' /\ crossed' \subseteq Events'
    BY <1>1, <1>2, <1>9 DEF TerminalTypes
<1>11. TerminalTypes'
    BY <1>1, <1>2, <1>5, <1>6, <1>8, <1>10 DEF TerminalTypes
<1>12. TerminalFlags'
    BY <1>1, Zenon DEF TerminalFlags
<1>13. PageKnows'
    BY <1>1, <1>2, Zenon DEF PageKnows, Known
<1>14. RestIsMine'
  <2> SUFFICES ASSUME NEW v \in Writers, Sending(v)'
               PROVE  \A i \in DOMAIN rest'[v] : rest'[v][i][1] = current'[v]
      BY Zenon DEF RestIsMine
  <2>1. CASE v = w
      BY <1>4, <1>5, <2>1
  <2>2. CASE v # w
    <3>1. Sending(v) /\ rest'[v] = rest[v] /\ current'[v] = current[v]
        BY <1>5, <1>6, <2>2
    <3> QED BY <3>1, Zenon DEF RestIsMine
  <2> QED BY <2>1, <2>2
<1>15. OutHeld'
    BY <1>1, <1>5 DEF OutHeld
<1>16. WillFlush'
    BY <1>5, <1>6 DEF WillFlush
<1>17. BothCrossed'
  <2> SUFFICES ASSUME NEW u \in Writers, NEW v \in Writers, u # v, Sending(u)', Sending(v)'
               PROVE  current'[u] \in crossed'
      BY Zenon DEF BothCrossed
  <2>1. Others(w) # {}
      BY <1>6, <1>8
  <2> QED BY <1>1, <1>5, <1>6, <1>8, <2>1
<1>18. (Spoilt(received) => Spoilt(received)') /\ (Spoilt(heard) => Spoilt(heard)')
    BY <1>1, <1>2, <1>10, Zenon DEF Spoilt, Long, PageKnows, Known
<1>19. HeardWhole'
  <2>1. heard # <<>> => heard[1][1] \in Events
    <3>1. heard # <<>> => 1 \in DOMAIN heard
        BY EmptySeq, LenProperties DEF TerminalTypes
    <3> QED BY <3>1, Zenon DEF PageKnows, Known
  <2> QED BY <1>1, <1>2, <1>18, <2>1, Zenon DEF HeardWhole, Text
<1>20. CASE Others(w) = {}
  <2>1. \A v \in Writers : ~Sending(v)
      BY <1>8, <1>20
  <2>2. \A v \in Writers : Sending(v)' => v = w
      BY <1>6, <2>1
  <2>3. f \notin crossed'
      BY <1>1, <1>2, <1>20 DEF TerminalTypes
  <2>4. CrossedOnly'
      BY <1>5, <2>2, <2>3, Zenon DEF CrossedOnly
  <2>5. Alone(w)'
      BY <1>5, <1>6, <2>3 DEF Alone
  <2>6. NothingLeft'
      BY <2>5, Zenon DEF NothingLeft
  <2>7. Spoilt(received)' \/ received' = <<>>
      BY <1>1, <1>18, <2>1, Zenon DEF NothingLeft, Alone
  <2>8. buffer = <<>>
      BY <2>1, Zenon DEF WillFlush
  <2>9. Pieces(f, 0, 0) = <<>>
      BY PiecesEmpty
  <2>10. SentSoFar(w, f, m, 0, 0)'
      BY <1>1, <1>3, <1>4, <1>5, <2>7, <2>8, <2>9 DEF SentSoFar
  <2>11. 0 \in 0..m
      BY <1>3
  <2>12. InOrder'
      BY <1>2, <1>5, <2>2, <2>10, <2>11, Zenon DEF InOrder, Alone
  <2> QED BY <1>11, <1>12, <1>13, <1>14, <1>15, <1>16, <1>17, <1>19, <2>4, <2>6, <2>12
<1>21. CASE Others(w) # {}
  <2>1. \A v \in Writers : Sending(v)' => current'[v] \in crossed'
      BY <1>1, <1>5, <1>6, <1>8, <1>21
  <2>2. InOrder'
      BY <2>1, Zenon DEF InOrder, Alone
  <2>3. PICK v \in Writers : Sending(v) /\ v # w
      BY <1>7, <1>21
  <2>4. CASE Alone(v)
    <3>1. PICK e \in Nat, n \in Nat : e = current[v] /\ n = lens[e] /\ e \in crossed'
        BY <1>1, <1>8, <1>21, <2>3, <2>4, EventsAre DEF TerminalTypes
    <3>2. PICK a \in 0..n, b \in 0..n : SentSoFar(v, e, n, a, b)
        BY <2>4, <3>1, Zenon DEF InOrder
    <3>3. \A c, d \in 0..n : \A i \in DOMAIN Pieces(e, c, d) : Pieces(e, c, d)[i][1] = e
        BY DEF Pieces
    <3>4. AllCrossed(<<>>)' /\ AllCrossed(Pieces(e, a, b))'
      <4>1. AllCrossed(<<>>)'
          BY DEF AllCrossed
      <4>2. AllCrossed(Pieces(e, a, b))'
          BY <3>1, <3>3, Zenon DEF AllCrossed
      <4> QED BY <4>1, <4>2
    <3>5. wpc[v] \in {"write", "flush", "clear", "print"}
        BY <2>3 DEF TerminalTypes, Sending
    <3>6. AllCrossed(buffer)'
        BY <1>1, <3>2, <3>4, <3>5, Zenon DEF SentSoFar
    <3>7. ASSUME NEW u \in Writers PROVE AllCrossed(out[u])'
      <4>1. CASE u = v
        <5>1. out[v] = Pieces(e, a, b) \/ out[v] = <<>>
            BY <3>2, <3>5 DEF SentSoFar, OutHeld
        <5> QED BY <1>1, <3>4, <4>1, <5>1, Zenon DEF AllCrossed
      <4>2. CASE u # v
        <5>1. ~Sending(u)
            BY <2>3, <2>4, <4>2, Zenon DEF BothCrossed, Alone
        <5>2. out[u] = <<>>
            BY <5>1 DEF OutHeld, Sending
        <5> QED BY <1>1, <3>4, <5>2, Zenon DEF AllCrossed
      <4> QED BY <4>1, <4>2
    <3>8. Spoilt(received)' \/ received' = <<>>
      <4>1. CASE Spoilt(received) \/ received = <<>>
          BY <1>1, <1>18, <4>1
      <4>2. CASE ~(Spoilt(received) \/ received = <<>>)
        <5>1. received = Pieces(e, 0, a)
            BY <3>2, <4>2 DEF SentSoFar
        <5>2. 1 \in DOMAIN received
            BY <4>2, EmptySeq, LenProperties DEF TerminalTypes
        <5>3. received[1][1] = e
          <6>1. 0 \in 0..n
              BY <3>2
          <6> QED BY <3>3, <5>1, <5>2, <6>1
        <5> QED BY <1>1, <3>1, <5>2, <5>3, Zenon DEF Spoilt
      <4> QED BY <4>1, <4>2
    <3>9. CrossedOnly'
        BY <3>6, <3>7, Zenon DEF CrossedOnly
    <3> QED BY <1>11, <1>12, <1>13, <1>14, <1>15, <1>16, <1>17, <1>19, <2>2, <3>8, <3>9, Zenon DEF NothingLeft
  <2>5. CASE ~Alone(v)
    <3>1. AllCrossed(buffer) /\ \A u \in Writers : AllCrossed(out[u])
        BY <2>3, <2>5, Zenon DEF CrossedOnly, Alone
    <3>2. CrossedOnly'
        BY <1>1, <1>10, <3>1 DEF CrossedOnly, AllCrossed
    <3>3. \A u \in Writers : ~Alone(u)
        BY <2>3, <2>5, Zenon DEF Alone, BothCrossed
    <3>4. NothingLeft'
        BY <1>1, <1>18, <3>3, Zenon DEF NothingLeft
    <3> QED BY <1>11, <1>12, <1>13, <1>14, <1>15, <1>16, <1>17, <1>19, <2>2, <3>2, <3>4
  <2> QED BY <2>4, <2>5
<1> QED BY <1>20, <1>21

\* A step of another part of the system changes nothing here.
LEMMA TerminalStuttering == TerminalInv /\ UNCHANGED terminalVars => TerminalInv'
<1> SUFFICES ASSUME TerminalInv, UNCHANGED terminalVars PROVE TerminalInv'
    OBVIOUS
<1> USE DEF TerminalInv, terminalVars
<1>1. TerminalTypes' /\ TerminalFlags' /\ PageKnows' /\ RestIsMine' /\ OutHeld' /\ WillFlush'
    BY Zenon DEF TerminalTypes, TerminalFlags, PageKnows, Known, RestIsMine, OutHeld, WillFlush, Sending, Events
<1>2. BothCrossed' /\ CrossedOnly' /\ NothingLeft' /\ HeardWhole'
    BY Zenon DEF BothCrossed, CrossedOnly, AllCrossed, NothingLeft, HeardWhole, Sending, Alone, Spoilt, Long, Text
<1>3. InOrder'
  <2>1. (\A v \in Writers : Alone(v)' <=> Alone(v)) /\ (Spoilt(received)' <=> Spoilt(received))
      BY Zenon DEF Alone, Sending, Spoilt, Long
  <2> SUFFICES ASSUME NEW v \in Writers, Alone(v)'
               PROVE  \E a, b \in 0..lens[current[v]] : SentSoFar(v, current[v], lens[current[v]], a, b)'
      BY Zenon DEF InOrder
  <2>2. PICK e \in Nat, n \in Nat : e = current[v] /\ n = lens[e]
      BY <2>1, EventsAre DEF TerminalTypes, Alone
  <2>3. PICK a \in 0..n, b \in 0..n : SentSoFar(v, e, n, a, b)
      BY <2>1, <2>2, Zenon DEF InOrder
  <2>4. Spoilt(received)' \/ received' = IF a = n \/ Long(e)' THEN <<>> ELSE Pieces(e, 0, a)
      BY <2>1, <2>3, Zenon DEF SentSoFar, Long
  <2>5. SentSoFar(v, e, n, a, b)'
      BY <2>3, <2>4 DEF SentSoFar
  <2> QED BY <2>2, <2>5, Zenon
<1> QED BY <1>1, <1>2, <1>3

\* SecureTerminal: every line the page takes is one whole event, unless two tasks were sending at
\* once or the event is longer than the buffer and sealed in pieces; for any number of tasks and
\* events, and any length of the buffer.
THEOREM WholeLinesHolds == TerminalSpec => []WholeLines
<1>1. TerminalInit => TerminalInv
    BY TerminalInitially
<1>2. TerminalInv /\ [TerminalNext]_terminalVars => TerminalInv'
  <2> SUFFICES ASSUME TerminalInv, [TerminalNext]_terminalVars PROVE TerminalInv'
      OBVIOUS
  <2>1. ASSUME NEW w \in Writers, NEW n \in EventLens, SendEvent(w, n) PROVE TerminalInv'
      BY <2>1, SendKeeps
  <2>2. ASSUME NEW w \in Writers, WritePart(w) PROVE TerminalInv'
      BY <2>2, WriteKeeps
  <2>3. ASSUME NEW w \in Writers, LastFlush(w) PROVE TerminalInv'
      BY <2>3, LastFlushKeeps
  <2>4. ASSUME NEW w \in Writers, Flush(w) PROVE TerminalInv'
      BY <2>4, CopyKeeps, NoFlushKeeps
  <2>5. ASSUME NEW w \in Writers, ClearBuffer(w) PROVE TerminalInv'
      BY <2>5, ClearKeeps
  <2>6. ASSUME NEW w \in Writers, PrintOut(w) PROVE TerminalInv'
      BY <2>6, PrintKeeps
  <2>7. ASSUME NEW w \in Writers, SetSealing(w) PROVE TerminalInv'
      BY <2>7, SealingKeeps
  <2>8. CASE UNCHANGED terminalVars
      BY <2>8, TerminalStuttering
  <2> QED BY <2>1, <2>2, <2>3, <2>4, <2>5, <2>6, <2>7, <2>8 DEF TerminalNext
<1>3. TerminalInv => WholeLines
    BY Zenon DEF TerminalInv, HeardWhole, WholeLines, Spoilt, Long
<1> QED BY <1>1, <1>2, <1>3, PTL DEF TerminalSpec

-----------------------------------------------------------------------------
(* Dashboard.  Keys are numbered by the page and by the device's pair, so  *)
(* the order of the lines says which key is the newer one (UpLines,        *)
(* DownLines); a request of a tab is in exactly one place: on the line to  *)
(* the device, in the device, or answered on the line back (OneFetch).     *)

LineKeys == Nat \X Nat
Commands ==
  [cmd : {"DH_INIT"}, page : Nat]
    \cup [cmd : {"DISCONNECT", "RESTART_SYSTEM", "VERIFY_PIN"}]
    \cup [cmd : {"GET_PASS", "UPDATE_PASS", "DELETE_PASS"}, rec : Recs]
    \cup [cmd : {"SAVE_PASS"}, rec : Recs, autogen : BOOLEAN]
Replies ==
  [ev : {"DH_ACK"}, pair : Nat]
    \cup [ev : {"BOOT", "PIN_REQ", "PIN_OK", "UPDATED", "AWAITING", "NOT_FOUND", "DELETED", "DISCONNECTED",
               "ALREADY_EXISTS", "REPLAY_DETECTED", "UNKNOWN_CMD"}]
    \cup [ev : {"TRANSMITTED"}, rec : Recs, asked : LineKeys]
    \cup [ev : {"SAVED"}, rec : Recs, autogen : BOOLEAN, asked : LineKeys]
Slots == [tab : Tabs \cup {"none"}, rec : Recs \cup {"none"}]

Lines == [key : LineKeys, body : Commands]
Answer == [key : LineKeys, body : Replies]

DashTypes ==
  /\ recs \subseteq Recs /\ dkey \in LineKeys /\ hkey \in LineKeys /\ waitKey \in LineKeys
  /\ wait \in {"ready", "get", "update"} /\ pairs \in Nat /\ pageNo \in Nat /\ losses \in Nat
  /\ up \in Seq(Lines) /\ down \in Seq(Answer)
  /\ pendingGet \in Slots /\ pendingGen \in Slots
DashFlags == active \in BOOLEAN /\ session \in BOOLEAN /\ open \in BOOLEAN /\ bare \in BOOLEAN

Is(line, c) == line.body.cmd = c
Says(line, e) == line.body.ev = e

\* The page that is open, its key and the device's.
KeysNumbered ==
  /\ (dkey = Plain /\ ~active) \/ (dkey[1] \in 1..pageNo /\ pairs # 0)
  /\ dkey[2] = pairs
  /\ hkey = Plain \/ (open /\ hkey[1] = pageNo /\ hkey[2] \in 1..pairs)
  /\ open => pageNo # 0
  /\ waitKey[1] <= dkey[1] 

\* Lines to the device: those that are sealed are of pages up to now; handshakes of pages to come
\* for the device, in order; nothing of a page follows its DISCONNECT.
UpKeyed ==
  \A i \in DOMAIN up :
    /\ up[i].key = Plain \/ up[i].key[1] \in 1..pageNo
    /\ up[i].key[1] = pageNo => up[i].key[2] <= hkey[2] \/ ~open
UpStarts ==
  \A i \in DOMAIN up : Is(up[i], "DH_INIT") =>
    /\ up[i].key = Plain /\ up[i].body.page \in (dkey[1] + 1)..pageNo
    /\ \A j \in DOMAIN up : j > i /\ Is(up[j], "DH_INIT") => up[j].body.page > up[i].body.page
UpEnds ==
  \A i \in DOMAIN up : Is(up[i], "DISCONNECT") /\ up[i].key # Plain =>
    /\ open => up[i].key[1] # pageNo
    /\ \A j \in DOMAIN up : j > i => up[j].key[1] # up[i].key[1]
UpLines == UpKeyed /\ UpStarts /\ UpEnds

\* Lines to the page: under keys the device has had; a key of the newest page is its key now; the
\* page has not read the acknowledgements that are on the line, which are in order.
DownLines ==
  \A i \in DOMAIN down :
    /\ down[i].key[1] <= dkey[1]
    /\ down[i].key[1] = dkey[1] /\ down[i].key # Plain => down[i].key = dkey
    /\ Says(down[i], "DH_ACK") =>
         /\ down[i].key = Plain /\ down[i].body.pair \in (hkey[2] + 1)..pairs
         /\ \A j \in DOMAIN down : j > i /\ Says(down[j], "DH_ACK") => down[j].body.pair > down[i].body.pair

\* After DISCONNECT the device's key is a former page's, and nothing under it comes any more.
Disconnected ==
  ~active /\ dkey # Plain =>
    (open => pageNo # dkey[1]) /\ \A i \in DOMAIN up : up[i].key[1] # dkey[1]

\* Without a terminal that sends in the clear, what is in the clear is only the handshake and its end.
ClearText ==
  ~bare =>
    /\ \A i \in DOMAIN up : up[i].key = Plain => up[i].body.cmd \in {"DH_INIT", "DISCONNECT"}
    /\ \A i \in DOMAIN down : down[i].key = Plain => down[i].body.ev \in {"DH_ACK", "DISCONNECTED"}
    /\ hkey = Plain => authState = "UNKNOWN"
    /\ ~active => ~session /\ wait = "ready"

\* A finger is waited for on behalf of the key of now.
WaitIsMine == wait # "ready" => waitRec \in Recs /\ (active => waitKey = dkey)

\* The page's handshake is on its way, or acknowledged, or done.
Acked ==
  losses = 0 /\ open =>
    \/ \E i \in DOMAIN up : Is(up[i], "DH_INIT") /\ up[i].body.page = pageNo
    \/ dkey[1] = pageNo /\ (\E i \in DOMAIN down : Says(down[i], "DH_ACK") /\ down[i].body.pair = dkey[2])
    \/ dkey[1] = pageNo /\ hkey = dkey /\ \A i \in DOMAIN down : ~Says(down[i], "DH_ACK")

\* Until the device has read the first line under the page's key it says nothing under it.
Fresh == hkey # dkey \/ \E i \in DOMAIN up : Is(up[i], "RESTART_SYSTEM") /\ up[i].key = dkey
NotHeardYet ==
  open /\ dkey[1] = pageNo /\ Fresh =>
    /\ \A i \in DOMAIN down : down[i].key # dkey
    /\ wait = "ready"
    /\ \A i, j \in DOMAIN up : Is(up[i], "RESTART_SYSTEM") /\ up[i].key = dkey /\ j < i => up[j].key # dkey
StillUnknown == open /\ ~bare /\ authState # "UNKNOWN" => dkey[1] = pageNo /\ ~Fresh

\* The page's own requests.
Mine(line) == line.key[1] = pageNo
Asks(i)    == Is(up[i], "GET_PASS") /\ Mine(up[i])
Waits      == wait # "ready" /\ waitKey[1] = pageNo
Answers(i) == (Says(down[i], "TRANSMITTED") \/ Says(down[i], "NOT_FOUND")) /\ Mine(down[i])
Generates(i) == Is(up[i], "SAVE_PASS") /\ Mine(up[i])
Generated(i) == Says(down[i], "SAVED") /\ Mine(down[i])

Alike == open /\ ~bare /\ meddled = {}
OneFetch ==
  Alike =>
    /\ \A i \in DOMAIN up : Asks(i) =>
         /\ pendingGet # NoSlot /\ up[i].body.rec = pendingGet.rec /\ ~Waits
         /\ \A j \in DOMAIN up : Asks(j) => i = j
         /\ \A j \in DOMAIN down : ~Answers(j)
    /\ Waits => /\ wait = "get" /\ pendingGet # NoSlot /\ waitRec = pendingGet.rec
                /\ \A j \in DOMAIN down : ~Answers(j)
    /\ \A i \in DOMAIN down : Answers(i) =>
         /\ pendingGet # NoSlot /\ (Says(down[i], "TRANSMITTED") => down[i].body.rec = pendingGet.rec)
         /\ \A j \in DOMAIN down : Answers(j) => i = j
    /\ \A i \in DOMAIN up : Mine(up[i]) => up[i].body.cmd \notin {"UPDATE_PASS", "DELETE_PASS"}
OneGenerate ==
  Alike =>
    /\ \A i \in DOMAIN up : Generates(i) =>
         /\ pendingGen # NoSlot /\ up[i].body.rec = pendingGen.rec
         /\ \A j \in DOMAIN up : Generates(j) => i = j
         /\ \A j \in DOMAIN down : ~Generated(j)
    /\ \A i \in DOMAIN down : Generated(i) =>
         /\ pendingGen # NoSlot /\ down[i].body.rec = pendingGen.rec
         /\ \A j \in DOMAIN down : Generated(j) => i = j

\* A slot is taken only while the page and the device have one key; and its request is under way.
SlotHeld ==
  /\ ~open => pendingGet = NoSlot /\ pendingGen = NoSlot
  /\ pendingGet # NoSlot \/ pendingGen # NoSlot => authState # "UNKNOWN"
UnderWay ==
  Alike /\ losses = 0 /\ unanswered = {} =>
    /\ pendingGet # NoSlot =>
         (\E i \in DOMAIN up : Asks(i) /\ up[i].key = dkey) \/ Waits \/ (\E i \in DOMAIN down : Answers(i))
    /\ pendingGen # NoSlot =>
         (\E i \in DOMAIN up : Generates(i) /\ up[i].key = dkey /\ up[i].body.autogen)
           \/ \E i \in DOMAIN down : Generated(i) /\ down[i].body.autogen
AskedByPage == Alike => \A i \in DOMAIN up : Generates(i) => up[i].body.autogen

DashInv ==
  /\ DashTypes /\ DashFlags
  /\ KeysNumbered /\ UpLines /\ DownLines /\ Disconnected /\ ClearText /\ WaitIsMine
  /\ Acked /\ NotHeardYet /\ StillUnknown
  /\ OneFetch /\ OneGenerate /\ AskedByPage /\ SlotHeld /\ UnderWay
  /\ SecretsSealed /\ FilledIsAsked

\* Two keys are one when their numbers are; Plain has the number 0 twice.
LEMMA KeyIs ==
  /\ Plain \in LineKeys /\ Plain[1] = 0 /\ Plain[2] = 0
  /\ \A k \in LineKeys : k[1] \in Nat /\ k[2] \in Nat
  /\ \A k, l \in LineKeys : k[1] = l[1] /\ k[2] = l[2] => k = l
BY DEF LineKeys, Plain

\* A line more at the end, and one less at the front.

\* One more message at the end of a line.
LEMMA OneMore ==
  ASSUME NEW S, NEW s \in Seq(S), NEW x \in S
  PROVE  LET t == Append(s, x)  n == Len(s) + 1 IN
         /\ t \in Seq(S) /\ n \in DOMAIN t /\ t[n] = x /\ n \in Nat /\ t # <<>>
         /\ \A i \in DOMAIN s : i \in DOMAIN t /\ t[i] = s[i] /\ i < n /\ i \in Nat
         /\ \A i \in DOMAIN t : i \in DOMAIN s \/ i = n
<1>1. /\ Append(s, x) \in Seq(S) /\ Len(Append(s, x)) = Len(s) + 1 /\ Append(s, x)[Len(s) + 1] = x
      /\ \A i \in 1..Len(s) : Append(s, x)[i] = s[i]
    BY AppendProperties
<1>2. Len(s) \in Nat /\ DOMAIN s = 1..Len(s) /\ DOMAIN Append(s, x) = 1..(Len(s) + 1)
    BY <1>1
<1> QED BY <1>1, <1>2

\* What is left of the line when its first message is taken.
LEMMA OneLess ==
  ASSUME NEW S, NEW s \in Seq(S), s # <<>>
  PROVE  LET t == Tail(s) IN
         /\ t \in Seq(S) /\ 1 \in DOMAIN s /\ Head(s) = s[1] /\ s[1] \in S
         /\ \A i \in DOMAIN t : i \in Nat /\ i + 1 \in DOMAIN s /\ t[i] = s[i + 1]
         /\ \A i \in DOMAIN s : i \in Nat /\ i >= 1 /\ (i # 1 => i - 1 \in DOMAIN t /\ t[i - 1] = s[i])
<1>1. /\ Len(s) \in Nat \ {0} /\ DOMAIN s = 1..Len(s) /\ Tail(s) \in Seq(S) /\ Len(Tail(s)) = Len(s) - 1
      /\ Head(s) = s[1] /\ Head(s) \in S
    BY EmptySeq, HeadTailProperties
<1>2. DOMAIN Tail(s) = 1..Len(Tail(s))
    BY <1>1
<1>3. \A i \in 1..Len(Tail(s)) : Tail(s)[i] = s[i + 1]
    BY HeadTailProperties
<1> QED BY <1>1, <1>2, <1>3

\* What a line of each kind carries.
LEMMA Carried ==
  /\ \A c \in Commands :
       /\ c.cmd = "DH_INIT" => c.page \in Nat
       /\ c.cmd \in {"GET_PASS", "UPDATE_PASS", "DELETE_PASS", "SAVE_PASS"} => c.rec \in Recs
       /\ c.cmd = "SAVE_PASS" => c.autogen \in BOOLEAN
       /\ c.cmd \in {"DH_INIT", "DISCONNECT", "RESTART_SYSTEM", "VERIFY_PIN",
                      "GET_PASS", "UPDATE_PASS", "DELETE_PASS", "SAVE_PASS"}
  /\ \A m \in Replies :
       /\ m.ev = "DH_ACK" => m.pair \in Nat
       /\ m.ev \in {"TRANSMITTED", "SAVED"} => m.rec \in Recs /\ m.asked \in LineKeys
BY DEF Commands, Replies

\* The page and the device begin without a key.
LEMMA DashInitially == DashInit => DashInv
<1> SUFFICES ASSUME DashInit PROVE DashInv
    OBVIOUS
<1>1. up = <<>> /\ down = <<>> /\ DOMAIN up = {} /\ DOMAIN down = {}
    BY DEF DashInit
<1>2. DashTypes
    BY KeyIs, EmptySeq DEF DashInit, DashTypes, NoSlot, Slots
<1>3. DashFlags
    BY Zenon DEF DashInit, DashFlags
<1>4. KeysNumbered
    BY KeyIs DEF DashInit, KeysNumbered
<1>5. UpLines /\ DownLines /\ Disconnected /\ ClearText /\ WaitIsMine
    BY <1>1 DEF DashInit, UpLines, UpKeyed, UpStarts, UpEnds, DownLines, Disconnected, ClearText, WaitIsMine
<1>6. Acked /\ NotHeardYet /\ StillUnknown /\ OneFetch /\ OneGenerate /\ AskedByPage
    BY DEF DashInit, Acked, NotHeardYet, StillUnknown, OneFetch, OneGenerate, AskedByPage, Alike
<1>7. SlotHeld /\ UnderWay /\ SecretsSealed /\ FilledIsAsked
    BY <1>1 DEF DashInit, SlotHeld, UnderWay, Alike, SecretsSealed, FilledIsAsked, NoFill
<1> QED BY <1>2, <1>3, <1>4, <1>5, <1>6, <1>7 DEF DashInv

\* The page sends a command under its key, and nothing else changes on the line or in the device.
PageSends(c) ==
  /\ open /\ c \in Commands /\ c.cmd \notin {"DH_INIT", "DISCONNECT", "RESTART_SYSTEM"}
  /\ up' = Append(up, [key |-> hkey, body |-> c])
  /\ bare => bare'
  /\ UNCHANGED <<deviceVars, open, pageNo, hkey, down, unanswered, losses>>

\* The new line, and those before it.
LEMMA SentLine ==
  ASSUME NEW c \in Commands, DashInv, PageSends(c)
  PROVE  /\ up' \in Seq(Lines)
         /\ \E n \in DOMAIN up' :
              /\ n \in Nat /\ up'[n].key = hkey /\ up'[n].body = c
              /\ \A i \in DOMAIN up : i \in DOMAIN up' /\ up'[i] = up[i] /\ i < n /\ i \in Nat
              /\ \A i \in DOMAIN up' : i \in DOMAIN up \/ i = n
<1> DEFINE line == [key |-> hkey, body |-> c]
<1>1. line \in Lines /\ line.key = hkey /\ line.body = c
    BY DEF DashInv, DashTypes, Lines
<1>2. up \in Seq(Lines) /\ up' = Append(up, line)
    BY DEF DashInv, DashTypes, PageSends
<1> HIDE DEF line
<1> QED BY <1>1, <1>2, OneMore

\* A command under the page's key keeps the line and the keys in order.
LEMMA SentKeepsLine ==
  ASSUME NEW c \in Commands, DashInv, PageSends(c)
  PROVE  KeysNumbered' /\ UpLines' /\ DownLines' /\ Disconnected' /\ WaitIsMine' /\ Acked' /\ NotHeardYet'
         /\ SecretsSealed'
<1>1. /\ open /\ c.cmd \notin {"DH_INIT", "DISCONNECT", "RESTART_SYSTEM"}
      /\ UNCHANGED <<dkey, active, session, wait, waitRec, waitKey, pairs, open, pageNo, hkey, down, losses>>
      /\ bare => bare'
    BY DEF PageSends, deviceVars
<1>2. PICK n \in DOMAIN up' :
        /\ n \in Nat /\ up'[n].key = hkey /\ up'[n].body = c
        /\ \A i \in DOMAIN up : i \in DOMAIN up' /\ up'[i] = up[i] /\ i < n /\ i \in Nat
        /\ \A i \in DOMAIN up' : i \in DOMAIN up \/ i = n
    BY SentLine
<1>3. hkey[2] \in Nat /\ hkey \in LineKeys /\ dkey \in LineKeys /\ pageNo \in Nat
    BY KeyIs DEF DashInv, DashTypes
<1>4. hkey = Plain \/ (hkey[1] = pageNo /\ pageNo # 0)
    BY <1>1 DEF DashInv, KeysNumbered
<1>5. KeysNumbered'
    BY <1>1, Zenon DEF DashInv, KeysNumbered
<1>6. UpLines'
    BY <1>1, <1>2, <1>3, <1>4, KeyIs DEF DashInv, UpLines, UpKeyed, UpStarts, UpEnds, KeysNumbered, Is
<1>7. DownLines' /\ WaitIsMine'
    BY <1>1, Zenon DEF DashInv, DownLines, WaitIsMine, Says
<1>8. Disconnected'
    BY <1>1, <1>2, <1>3, <1>4, KeyIs DEF DashInv, Disconnected, KeysNumbered
<1>9. Acked'
    BY <1>1, <1>2, Zenon DEF DashInv, Acked, Is, Says
<1>10. Fresh' <=> Fresh
    BY <1>1, <1>2 DEF Fresh, Is
<1>11. NotHeardYet'
    BY <1>1, <1>2, <1>10 DEF DashInv, NotHeardYet, Is
<1>12. SecretsSealed'
    BY <1>1, Zenon DEF DashInv, SecretsSealed
<1> QED BY <1>5, <1>6, <1>7, <1>8, <1>9, <1>11, <1>12

\* A tab's request, the PIN and the popup are sent by a page that knows its key, or that has
\* been told to be used without one.
LEMMA SentKeepsState ==
  ASSUME NEW c \in Commands, DashInv, PageSends(c), ~bare' => ~bare /\ hkey # Plain,
         authState' # "UNKNOWN" => authState # "UNKNOWN"
  PROVE  ClearText' /\ StillUnknown'
<1>1. /\ open /\ c.cmd \notin {"DH_INIT", "DISCONNECT", "RESTART_SYSTEM"}
      /\ UNCHANGED <<dkey, active, session, wait, waitRec, waitKey, pairs, open, pageNo, hkey, down, losses>>
      /\ bare => bare'
    BY DEF PageSends, deviceVars
<1>2. PICK n \in DOMAIN up' :
        /\ n \in Nat /\ up'[n].key = hkey /\ up'[n].body = c
        /\ \A i \in DOMAIN up : i \in DOMAIN up' /\ up'[i] = up[i] /\ i < n /\ i \in Nat
        /\ \A i \in DOMAIN up' : i \in DOMAIN up \/ i = n
    BY SentLine
<1>3. ClearText'
    BY <1>1, <1>2 DEF DashInv, ClearText
<1>4. Fresh' <=> Fresh
    BY <1>1, <1>2 DEF Fresh, Is
<1>5. StillUnknown'
    BY <1>1, <1>4, Zenon DEF DashInv, StillUnknown
<1> QED BY <1>3, <1>5

\* ... and its types.
LEMMA SentTypes ==
  ASSUME NEW c \in Commands, DashInv, PageSends(c), pendingGet' \in Slots, pendingGen' \in Slots, bare' \in BOOLEAN
  PROVE  DashTypes' /\ DashFlags'
<1>1. up' \in Seq(Lines)
    BY SentLine
<1>2. DashTypes'
    BY <1>1, Zenon DEF DashInv, DashTypes, PageSends, deviceVars
<1>3. DashFlags'
    BY Zenon DEF DashInv, DashFlags, PageSends, deviceVars
<1> QED BY <1>2, <1>3

\* GET_PASSWORD takes the free slot; no request of this page is on its way then.
LEMMA GetKeeps == ASSUME NEW t \in Tabs, NEW r \in Recs, DashInv, GetPassword(t, r) PROVE DashInv'
<1> DEFINE c == [cmd |-> "GET_PASS", rec |-> r]
<1>1. c \in Commands /\ c.cmd = "GET_PASS" /\ c.rec = r
    BY DEF Commands
<1> HIDE DEF c
<1>2. /\ PageSends(c) /\ bare' = bare /\ authState = "READY" /\ authState' = authState
      /\ pendingGet = NoSlot /\ pendingGet' = [tab |-> t, rec |-> r]
      /\ UNCHANGED <<pendingGen, filled, meddled>>
    BY <1>1 DEF GetPassword, PageSends, Secure, c
<1>3. /\ open /\ open' = open /\ UNCHANGED <<deviceVars, pageNo, hkey, down, unanswered, losses>>
      /\ UNCHANGED <<dkey, active, session, wait, waitRec, waitKey>>
    BY <1>2 DEF PageSends, deviceVars
<1>4. PICK n \in DOMAIN up' :
        /\ n \in Nat /\ up'[n].key = hkey /\ up'[n].body = c
        /\ \A i \in DOMAIN up : i \in DOMAIN up' /\ up'[i] = up[i] /\ i < n /\ i \in Nat
        /\ \A i \in DOMAIN up' : i \in DOMAIN up \/ i = n
    BY <1>1, <1>2, SentLine
<1>5. pendingGet' \in Slots /\ pendingGet' # NoSlot /\ pendingGet'.rec = r
  <2>1. pendingGet'.tab = t /\ NoSlot.tab = "none" /\ t # "none"
      BY <1>2, DashboardAssumption DEF NoSlot
  <2> QED BY <1>2, <2>1 DEF Slots
<1>6. KeysNumbered' /\ UpLines' /\ DownLines' /\ Disconnected' /\ WaitIsMine' /\ Acked' /\ NotHeardYet'
      /\ SecretsSealed'
    BY <1>1, <1>2, SentKeepsLine
<1>7. ~bare => hkey # Plain /\ hkey = dkey /\ hkey[1] = pageNo
    BY <1>2, <1>3, Zenon DEF DashInv, ClearText, StillUnknown, Fresh
<1>8. ClearText' /\ StillUnknown'
    BY <1>1, <1>2, <1>7, SentKeepsState
<1>9. DashTypes' /\ DashFlags'
  <2>1. pendingGen' \in Slots /\ bare' \in BOOLEAN
      BY <1>2, Zenon DEF DashInv, DashTypes, DashFlags
  <2> QED BY <1>1, <1>2, <1>5, <2>1, SentTypes
<1>10. Alike' => Alike
    BY <1>2, <1>3, Zenon DEF Alike
<1>11. Alike' => (\A i \in DOMAIN up : ~Asks(i)) /\ ~Waits /\ \A i \in DOMAIN down : ~Answers(i)
    BY <1>2, <1>10 DEF DashInv, OneFetch
<1>12. OneFetch'
    BY <1>1, <1>2, <1>3, <1>4, <1>5, <1>10, <1>11 DEF DashInv, OneFetch, Asks, Waits, Answers, Is, Says, Mine
<1>13. OneGenerate' /\ AskedByPage'
    BY <1>1, <1>2, <1>3, <1>4, <1>10 DEF DashInv, OneGenerate, AskedByPage, Generates, Generated, Is, Says, Mine
<1>14. SlotHeld'
    BY <1>2, <1>3 DEF SlotHeld
<1>15. UnderWay'
    BY <1>1, <1>2, <1>3, <1>4, <1>7, <1>10 
       DEF DashInv, UnderWay, Alike, Asks, Generates, Generated, Is, Says, Mine
<1>16. FilledIsAsked'
    BY <1>2, Zenon DEF DashInv, FilledIsAsked
<1> QED BY <1>6, <1>8, <1>9, <1>12, <1>13, <1>14, <1>15, <1>16 DEF DashInv

\* AUTO_GENERATE, likewise.
LEMMA GenerateKeeps == ASSUME NEW t \in Tabs, NEW r \in Recs, DashInv, AutoGenerate(t, r) PROVE DashInv'
<1> DEFINE c == [cmd |-> "SAVE_PASS", rec |-> r, autogen |-> TRUE]
<1>1. c \in Commands /\ c.cmd = "SAVE_PASS" /\ c.rec = r /\ c.autogen
    BY DEF Commands
<1> HIDE DEF c
<1>2. /\ PageSends(c) /\ bare' = bare /\ authState = "READY" /\ authState' = authState
      /\ pendingGen = NoSlot /\ pendingGen' = [tab |-> t, rec |-> r]
      /\ UNCHANGED <<pendingGet, filled, meddled>>
    BY <1>1 DEF AutoGenerate, PageSends, Secure, c
<1>3. /\ open /\ open' = open /\ UNCHANGED <<deviceVars, pageNo, hkey, down, unanswered, losses>>
      /\ UNCHANGED <<dkey, active, session, wait, waitRec, waitKey>>
    BY <1>2 DEF PageSends, deviceVars
<1>4. PICK n \in DOMAIN up' :
        /\ n \in Nat /\ up'[n].key = hkey /\ up'[n].body = c
        /\ \A i \in DOMAIN up : i \in DOMAIN up' /\ up'[i] = up[i] /\ i < n /\ i \in Nat
        /\ \A i \in DOMAIN up' : i \in DOMAIN up \/ i = n
    BY <1>1, <1>2, SentLine
<1>5. pendingGen' \in Slots /\ pendingGen' # NoSlot /\ pendingGen'.rec = r
  <2>1. pendingGen'.tab = t /\ NoSlot.tab = "none" /\ t # "none"
      BY <1>2, DashboardAssumption DEF NoSlot
  <2> QED BY <1>2, <2>1 DEF Slots
<1>6. KeysNumbered' /\ UpLines' /\ DownLines' /\ Disconnected' /\ WaitIsMine' /\ Acked' /\ NotHeardYet'
      /\ SecretsSealed'
    BY <1>1, <1>2, SentKeepsLine
<1>7. ~bare => hkey # Plain /\ hkey = dkey /\ hkey[1] = pageNo
    BY <1>2, <1>3, Zenon DEF DashInv, ClearText, StillUnknown, Fresh
<1>8. ClearText' /\ StillUnknown'
    BY <1>1, <1>2, <1>7, SentKeepsState
<1>9. DashTypes' /\ DashFlags'
  <2>1. pendingGet' \in Slots /\ bare' \in BOOLEAN
      BY <1>2, Zenon DEF DashInv, DashTypes, DashFlags
  <2> QED BY <1>1, <1>2, <1>5, <2>1, SentTypes
<1>10. Alike' => Alike
    BY <1>2, <1>3, Zenon DEF Alike
<1>11. Alike' => (\A i \in DOMAIN up : ~Generates(i)) /\ \A i \in DOMAIN down : ~Generated(i)
    BY <1>2, <1>10 DEF DashInv, OneGenerate
<1>12. OneFetch'
    BY <1>1, <1>2, <1>3, <1>4, <1>10 DEF DashInv, OneFetch, Asks, Waits, Answers, Is, Says, Mine
<1>13. OneGenerate' /\ AskedByPage'
    BY <1>1, <1>2, <1>3, <1>4, <1>5, <1>10, <1>11 
       DEF DashInv, OneGenerate, AskedByPage, Generates, Generated, Is, Says, Mine
<1>14. SlotHeld'
    BY <1>2, <1>3 DEF SlotHeld
<1>15. UnderWay'
    BY <1>1, <1>2, <1>3, <1>4, <1>7, <1>10 
       DEF DashInv, UnderWay, Alike, Asks, Waits, Answers, Generates, Is, Says, Mine
<1>16. FilledIsAsked'
    BY <1>2, Zenon DEF DashInv, FilledIsAsked
<1> QED BY <1>6, <1>8, <1>9, <1>12, <1>13, <1>14, <1>15, <1>16 DEF DashInv

\* The popup's buttons and the terminal: from now on the page's slots prove nothing.
LEMMA MeddlingKeeps ==
  ASSUME NEW c \in Commands, DashInv, PageSends(c), c.cmd \in meddled', ~bare' => ~bare /\ hkey # Plain,
         bare' \in BOOLEAN, UNCHANGED <<authState, pendingGet, pendingGen>>
  PROVE  DashInv'
<1>1. /\ open /\ open' = open
    BY DEF PageSends
<1>2. KeysNumbered' /\ UpLines' /\ DownLines' /\ Disconnected' /\ WaitIsMine' /\ Acked' /\ NotHeardYet'
      /\ SecretsSealed'
    BY SentKeepsLine
<1>3. ClearText' /\ StillUnknown'
    BY SentKeepsState
<1>4. DashTypes' /\ DashFlags'
  <2>1. pendingGet' \in Slots /\ pendingGen' \in Slots
      BY DEF DashInv, DashTypes
  <2> QED BY <2>1, SentTypes
<1>5. ~Alike' /\ FilledIsAsked'
    BY DEF Alike, FilledIsAsked
<1>6. OneFetch' /\ OneGenerate' /\ AskedByPage' /\ UnderWay'
    BY <1>5, Zenon DEF OneFetch, OneGenerate, AskedByPage, UnderWay
<1>7. SlotHeld'
    BY <1>1 DEF DashInv, SlotHeld
<1> QED BY <1>2, <1>3, <1>4, <1>5, <1>6, <1>7 DEF DashInv

\* The popup's buttons are there when the page is ready.
LEMMA PopupKeeps == ASSUME NEW c \in PopupCommands, DashInv, Popup(c) PROVE DashInv'
<1>1. c \in Commands /\ c.cmd \in {"SAVE_PASS", "UPDATE_PASS", "DELETE_PASS"}
    BY DEF PopupCommands, Commands
<1>2. /\ PageSends(c) /\ c.cmd \in meddled' /\ bare' = bare /\ authState = "READY"
      /\ UNCHANGED <<authState, pendingGet, pendingGen>>
    BY <1>1 DEF Popup, PageSends, Secure
<1>3. ~bare => hkey # Plain
    BY <1>2 DEF DashInv, ClearText
<1>4. bare' \in BOOLEAN
    BY <1>2, Zenon DEF DashInv, DashFlags
<1> QED BY <1>1, <1>2, <1>3, <1>4, MeddlingKeeps

\* What is typed into the terminal may go out before there is a key; that is remembered.
LEMMA TypeKeeps == ASSUME NEW r \in Recs, DashInv, TypeCommand(r) PROVE DashInv'
<1> DEFINE c == [cmd |-> "GET_PASS", rec |-> r]
<1>1. c \in Commands /\ c.cmd = "GET_PASS"
    BY DEF Commands
<1> HIDE DEF c
<1>2. /\ PageSends(c) /\ c.cmd \in meddled' /\ bare' = (bare \/ hkey = Plain)
      /\ UNCHANGED <<authState, pendingGet, pendingGen>>
    BY <1>1 DEF TypeCommand, PageSends, Secure, c
<1>3. bare' \in BOOLEAN
    BY <1>2, Zenon
<1> QED BY <1>1, <1>2, <1>3, MeddlingKeeps

\* The PIN.
LEMMA PinKeeps == DashInv /\ SubmitPin => DashInv'
<1> SUFFICES ASSUME DashInv, SubmitPin PROVE DashInv'
    OBVIOUS
<1> DEFINE c == [cmd |-> "VERIFY_PIN"]
<1>1. c \in Commands /\ c.cmd = "VERIFY_PIN"
    BY DEF Commands
<1> HIDE DEF c
<1>2. /\ PageSends(c) /\ bare' = bare /\ authState = "PIN_REQ" /\ authState' = "SENT"
      /\ UNCHANGED <<pendingGet, pendingGen, filled, meddled>>
    BY <1>1 DEF SubmitPin, PageSends, Secure, c
<1>3. /\ open /\ open' = open /\ UNCHANGED <<pageNo, hkey, down, unanswered, losses>>
      /\ UNCHANGED <<dkey, active, session, wait, waitRec, waitKey>>
    BY <1>2 DEF PageSends, deviceVars
<1>4. PICK n \in DOMAIN up' :
        /\ n \in Nat /\ up'[n].key = hkey /\ up'[n].body = c
        /\ \A i \in DOMAIN up : i \in DOMAIN up' /\ up'[i] = up[i] /\ i < n /\ i \in Nat
        /\ \A i \in DOMAIN up' : i \in DOMAIN up \/ i = n
    BY <1>1, <1>2, SentLine
<1>5. ~bare => hkey # Plain
    BY <1>2 DEF DashInv, ClearText
<1>6. KeysNumbered' /\ UpLines' /\ DownLines' /\ Disconnected' /\ WaitIsMine' /\ Acked' /\ NotHeardYet'
      /\ SecretsSealed'
    BY <1>1, <1>2, SentKeepsLine
<1>8. ClearText' /\ StillUnknown'
    BY <1>1, <1>2, <1>5, SentKeepsState
<1>9. DashTypes' /\ DashFlags'
  <2>1. pendingGet' \in Slots /\ pendingGen' \in Slots /\ bare' \in BOOLEAN
      BY <1>2, Zenon DEF DashInv, DashTypes, DashFlags
  <2> QED BY <1>1, <1>2, <2>1, SentTypes
<1>10. Alike' => Alike
    BY <1>2, <1>3, Zenon DEF Alike
<1>12. OneFetch'
    BY <1>1, <1>2, <1>3, <1>4, <1>10 DEF DashInv, OneFetch, Asks, Waits, Answers, Is, Says, Mine
<1>13. OneGenerate' /\ AskedByPage'
    BY <1>1, <1>2, <1>3, <1>4, <1>10 DEF DashInv, OneGenerate, AskedByPage, Generates, Generated, Is, Says, Mine
<1>14. SlotHeld'
    BY <1>2, <1>3 DEF DashInv, SlotHeld
<1>15. UnderWay'
    BY <1>1, <1>2, <1>3, <1>4, <1>10 
       DEF DashInv, UnderWay, Alike, Asks, Waits, Answers, Generates, Generated, Is, Says, Mine
<1>16. FilledIsAsked'
    BY <1>2, Zenon DEF DashInv, FilledIsAsked
<1> QED BY <1>6, <1>8, <1>9, <1>12, <1>13, <1>14, <1>15, <1>16 DEF DashInv

\* connect: nothing on the line is of the new page, and its handshake is.
LEMMA ConnectKeeps == DashInv /\ Connect => DashInv'
<1> SUFFICES ASSUME DashInv, Connect PROVE DashInv'
    OBVIOUS
<1> DEFINE c    == [cmd |-> "DH_INIT", page |-> pageNo + 1]
           line == [key |-> Plain, body |-> c]
<1>1. /\ ~open /\ open' = TRUE /\ pageNo' = pageNo + 1 /\ hkey' = Plain /\ up' = Append(up, line)
      /\ filled' = NoFill /\ meddled' = {}
      /\ UNCHANGED <<recs, dkey, active, session, wait, waitRec, waitKey, pairs>>
      /\ UNCHANGED <<authState, pendingGet, pendingGen, down, bare, losses>>
    BY DEF Connect, deviceVars
<1>2. line \in Lines /\ line.key = Plain /\ line.body.cmd = "DH_INIT" /\ line.body.page = pageNo + 1
    BY KeyIs DEF Lines, Commands, DashInv, DashTypes
<1> HIDE DEF line
<1>3. /\ up' \in Seq(Lines)
      /\ \E n \in DOMAIN up' :
           /\ n \in Nat /\ up'[n] = line
           /\ \A i \in DOMAIN up : i \in DOMAIN up' /\ up'[i] = up[i] /\ i < n /\ i \in Nat
           /\ \A i \in DOMAIN up' : i \in DOMAIN up \/ i = n
    BY <1>1, <1>2, OneMore DEF DashInv, DashTypes
<1>4. PICK n \in DOMAIN up' :
           /\ n \in Nat /\ up'[n] = line
           /\ \A i \in DOMAIN up : i \in DOMAIN up' /\ up'[i] = up[i] /\ i < n /\ i \in Nat
           /\ \A i \in DOMAIN up' : i \in DOMAIN up \/ i = n
    BY <1>3
<1>5. hkey = Plain /\ pageNo \in Nat /\ dkey \in LineKeys /\ dkey[1] \in Nat /\ dkey[1] <= pageNo /\ pairs \in Nat
      /\ waitKey[1] \in Nat /\ waitKey[1] <= dkey[1]
    BY <1>1, KeyIs DEF DashInv, DashTypes, KeysNumbered
<1>6. DashTypes' /\ DashFlags'
  <2>1. DashTypes'
      BY <1>1, <1>3, <1>5, KeyIs DEF DashInv, DashTypes
  <2>2. DashFlags'
      BY <1>1, Zenon DEF DashInv, DashFlags
  <2> QED BY <2>1, <2>2
<1>7. KeysNumbered'
    BY <1>1, <1>5, KeyIs DEF DashInv, KeysNumbered
<1>8. UpLines'
  <2>1. UpKeyed'
      BY <1>1, <1>2, <1>4, <1>5, KeyIs DEF DashInv, UpLines, UpKeyed
  <2>2. UpStarts'
    <3>1. \A i \in DOMAIN up : Is(up[i], "DH_INIT") => up[i].body.page \in (dkey[1] + 1)..pageNo
        BY DEF DashInv, UpLines, UpStarts
    <3>2. SUFFICES ASSUME NEW i \in DOMAIN up', up'[i].body.cmd = "DH_INIT"
                   PROVE  /\ up'[i].key = Plain /\ up'[i].body.page \in (dkey'[1] + 1)..pageNo'
                          /\ \A j \in DOMAIN up' : j > i /\ up'[j].body.cmd = "DH_INIT" =>
                               up'[j].body.page > up'[i].body.page
        BY DEF UpStarts, Is
    <3>3. CASE i = n
        BY <1>1, <1>2, <1>4, <1>5, <3>3
    <3>4. CASE i \in DOMAIN up
        BY <1>1, <1>2, <1>4, <1>5, <3>1, <3>2, <3>4 DEF DashInv, UpLines, UpStarts, Is
    <3> QED BY <1>4, <3>3, <3>4
  <2>3. UpEnds'
      BY <1>1, <1>2, <1>4, <1>5, KeyIs DEF DashInv, UpLines, UpKeyed, UpEnds, Is
  <2> QED BY <2>1, <2>2, <2>3 DEF UpLines
<1>9. DownLines' /\ WaitIsMine'
    BY <1>1, <1>5, Zenon DEF DashInv, DownLines, WaitIsMine, Says
<1>10. Disconnected'
    BY <1>1, <1>2, <1>4, <1>5, KeyIs DEF DashInv, Disconnected, KeysNumbered
<1>11. ClearText'
    BY <1>1, <1>2, <1>4, <1>5 DEF DashInv, ClearText
<1>12. Acked'
    BY <1>1, <1>2, <1>4 DEF Acked, Is
<1>13. NotHeardYet' /\ StillUnknown'
    BY <1>1, <1>5 DEF DashInv, NotHeardYet, StillUnknown, ClearText
<1>14. pendingGet' = NoSlot /\ pendingGen' = NoSlot
    BY <1>1 DEF DashInv, SlotHeld
<1>15. \A i \in DOMAIN up' : ~Mine(up[i])'
    BY <1>1, <1>2, <1>4, <1>5, KeyIs DEF DashInv, UpLines, UpKeyed, UpStarts, UpEnds, Mine
<1>16. ~Waits' /\ \A i \in DOMAIN down' : ~Mine(down[i])'
  <2>1. \A i \in DOMAIN down : down[i].key[1] \in Nat /\ down[i].key[1] <= dkey[1]
    <3>1. \A i \in DOMAIN down : down[i] \in Answer
        BY DEF DashInv, DashTypes
    <3>2. \A i \in DOMAIN down : down[i].key \in LineKeys
        BY <3>1 DEF Answer
    <3> QED BY <3>2, KeyIs DEF DashInv, DownLines
  <2> QED BY <1>1, <1>5, <2>1 DEF Waits, Mine
<1>17. OneFetch' /\ OneGenerate' /\ AskedByPage'
    BY <1>15, <1>16, Zenon DEF OneFetch, OneGenerate, AskedByPage, Asks, Answers, Generates, Generated
<1>18. SlotHeld' /\ UnderWay'
    BY <1>1, <1>14, Zenon DEF SlotHeld, UnderWay
<1>19. SecretsSealed'
    BY <1>1, Zenon DEF DashInv, SecretsSealed
<1>20. FilledIsAsked'
    BY <1>1 DEF FilledIsAsked, NoFill
<1> QED BY <1>6, <1>7, <1>8, <1>9, <1>10, <1>11, <1>12, <1>13, <1>17, <1>18, <1>19, <1>20 DEF DashInv

\* disconnect, or the window is closed: with its own key, nothing of this page follows.
LEMMA LeaveKeeps == DashInv /\ LeavePage => DashInv'
<1> SUFFICES ASSUME DashInv, LeavePage PROVE DashInv'
    OBVIOUS
<1> DEFINE line == [key |-> hkey, body |-> [cmd |-> "DISCONNECT"]]
<1>1. /\ open /\ open' = FALSE /\ hkey' = Plain /\ authState' = "UNKNOWN"
      /\ pendingGet' = NoSlot /\ pendingGen' = NoSlot
      /\ up' = up \/ up' = Append(up, line)
      /\ UNCHANGED <<recs, dkey, active, session, wait, waitRec, waitKey, pairs>>
      /\ UNCHANGED <<pageNo, filled, meddled, down, bare, losses>>
    BY DEF LeavePage, deviceVars, Secure
<1>2. line \in Lines /\ line.key = hkey /\ line.body.cmd = "DISCONNECT"
    BY KeyIs DEF Lines, Commands, DashInv, DashTypes
<1> HIDE DEF line
<1>3. /\ up' \in Seq(Lines)
      /\ up' = up \/ \E n \in DOMAIN up' :
           /\ n \in Nat /\ up'[n] = line
           /\ \A i \in DOMAIN up : i \in DOMAIN up' /\ up'[i] = up[i] /\ i < n /\ i \in Nat
           /\ \A i \in DOMAIN up' : i \in DOMAIN up \/ i = n
  <2>1. up \in Seq(Lines)
      BY DEF DashInv, DashTypes
  <2>2. CASE up' = up
      BY <2>1, <2>2
  <2>3. CASE up' = Append(up, line)
      BY <1>2, <2>1, <2>3, OneMore
  <2> QED BY <1>1, <2>2, <2>3
<1>5. /\ pageNo \in Nat /\ dkey \in LineKeys /\ hkey \in LineKeys /\ hkey[2] \in Nat
      /\ hkey = Plain \/ (hkey[1] = pageNo /\ pageNo # 0)
      /\ dkey # Plain => dkey[1] # 0
    BY <1>1, KeyIs DEF DashInv, DashTypes, KeysNumbered
<1>6. DashTypes' /\ DashFlags'
  <2>1. DashTypes'
      BY <1>1, <1>3, <1>5, KeyIs DEF DashInv, DashTypes, NoSlot, Slots
  <2>2. DashFlags'
      BY <1>1, Zenon DEF DashInv, DashFlags
  <2> QED BY <2>1, <2>2
<1>7. KeysNumbered'
    BY <1>1, <1>5, KeyIs DEF DashInv, KeysNumbered
<1>9. DownLines'
  <2>1. \A i \in DOMAIN down : Says(down[i], "DH_ACK") => down[i].body.pair \in (Plain[2] + 1)..pairs
      BY <1>5, KeyIs DEF DashInv, DashTypes, DownLines
  <2> QED BY <1>1, <2>1, Zenon DEF DashInv, DownLines, Says
<1>10. UpLines' /\ Disconnected' /\ ClearText'
  <2>1. CASE up' = up
    <3>1. UpLines'
        BY <1>1, <2>1 DEF DashInv, UpLines, UpKeyed, UpStarts, UpEnds, Is
    <3>2. Disconnected' /\ ClearText'
        BY <1>1, <2>1 DEF DashInv, Disconnected, ClearText
    <3> QED BY <3>1, <3>2
  <2>2. ASSUME NEW n \in DOMAIN up', n \in Nat, up'[n] = line,
               \A i \in DOMAIN up : i \in DOMAIN up' /\ up'[i] = up[i] /\ i < n /\ i \in Nat,
               \A i \in DOMAIN up' : i \in DOMAIN up \/ i = n
        PROVE  UpLines' /\ Disconnected' /\ ClearText'
    <3>1. UpLines'
      <4>1. UpKeyed'
          BY <1>1, <1>2, <1>5, <2>2, KeyIs DEF DashInv, UpLines, UpKeyed
      <4>2. UpStarts'
          BY <1>1, <1>2, <1>5, <2>2 DEF DashInv, UpLines, UpStarts, Is
      <4>3. UpEnds'
          BY <1>1, <1>2, <1>5, <2>2, KeyIs DEF DashInv, UpLines, UpKeyed, UpEnds, Is
      <4> QED BY <4>1, <4>2, <4>3 DEF UpLines
    <3>2. Disconnected'
        BY <1>1, <1>2, <1>5, <2>2, KeyIs DEF DashInv, Disconnected
    <3>3. ClearText'
        BY <1>1, <1>2, <2>2 DEF DashInv, ClearText
    <3> QED BY <3>1, <3>2, <3>3
  <2> QED BY <1>3, <2>1, <2>2
<1>11. WaitIsMine' /\ SecretsSealed'
    BY <1>1, Zenon DEF DashInv, WaitIsMine, SecretsSealed
<1>12. Acked' /\ NotHeardYet' /\ StillUnknown' /\ OneFetch' /\ OneGenerate' /\ AskedByPage' /\ UnderWay'
    BY <1>1, Zenon DEF Acked, NotHeardYet, StillUnknown, OneFetch, OneGenerate, AskedByPage, UnderWay, Alike
<1>13. SlotHeld'
    BY <1>1, Zenon DEF SlotHeld
<1>14. FilledIsAsked'
    BY <1>1, Zenon DEF DashInv, FilledIsAsked
<1> QED BY <1>6, <1>7, <1>9, <1>10, <1>11, <1>12, <1>13, <1>14 DEF DashInv

\* A line less to the page, which is not there or has lost it.
DownLess ==
  /\ down # <<>> /\ down' = Tail(down) /\ losses' \in Nat /\ (losses' # 0 \/ ~open)
  /\ UNCHANGED <<deviceVars, open, pageNo, hkey, authState, pendingGet, pendingGen, up, filled, meddled, bare>>

\* Nothing waits for that line: the page has gone, or a loss excuses it.
LEMMA DownGone == ASSUME DashInv, DownLess PROVE DashInv'
<1>1. /\ UNCHANGED <<recs, dkey, active, session, wait, waitRec, waitKey, pairs>>
      /\ UNCHANGED <<open, pageNo, hkey, authState, pendingGet, pendingGen, up, filled, meddled, bare>>
    BY DEF DownLess, deviceVars
<1>2. /\ down' \in Seq(Answer)
      /\ \A i \in DOMAIN down' : i \in Nat /\ i + 1 \in DOMAIN down /\ down'[i] = down[i + 1]
    BY OneLess DEF DashInv, DashTypes, DownLess
<1>3. DashTypes' /\ DashFlags'
  <2>1. DashTypes'
      BY <1>1, <1>2, Zenon DEF DashInv, DashTypes, DownLess
  <2>2. DashFlags'
      BY <1>1, Zenon DEF DashInv, DashFlags
  <2> QED BY <2>1, <2>2
<1>4. KeysNumbered' /\ UpLines' /\ Disconnected' /\ WaitIsMine'
    BY <1>1, Zenon DEF DashInv, KeysNumbered, UpLines, UpKeyed, UpStarts, UpEnds, Disconnected, WaitIsMine, Is
<1>5. DownLines' /\ SecretsSealed'
  <2>1. DownLines'
      BY <1>1, <1>2 DEF DashInv, DownLines, Says
  <2>2. SecretsSealed'
      BY <1>1, <1>2, Zenon DEF DashInv, SecretsSealed
  <2> QED BY <2>1, <2>2
<1>6. ClearText'
    BY <1>1, <1>2, Zenon DEF DashInv, ClearText
<1>7. Acked' /\ UnderWay'
  <2>1. losses' # 0 \/ ~open'
      BY <1>1 DEF DownLess
  <2> QED BY <2>1, Zenon DEF Acked, UnderWay, Alike
<1>8. NotHeardYet' /\ StillUnknown'
    BY <1>1, <1>2, Zenon DEF DashInv, NotHeardYet, StillUnknown, Fresh, Is
<1>9. OneFetch'
    BY <1>1, <1>2 DEF DashInv, OneFetch, Alike, Asks, Waits, Answers, Is, Says, Mine
<1>10. OneGenerate' /\ AskedByPage'
    BY <1>1, <1>2 DEF DashInv, OneGenerate, AskedByPage, Alike, Generates, Generated, Is, Says, Mine
<1>11. SlotHeld' /\ FilledIsAsked'
    BY <1>1, Zenon DEF DashInv, SlotHeld, FilledIsAsked
<1> QED BY <1>3, <1>4, <1>5, <1>6, <1>7, <1>8, <1>9, <1>10, <1>11 DEF DashInv

\* A line less to the device, which has lost it, or drops it: its session is as it was.
UpLess ==
  /\ up # <<>> /\ up' = Tail(up) /\ losses' \in Nat
  /\ UNCHANGED <<deviceVars, open, pageNo, hkey, authState, pendingGet, pendingGen, down, filled, meddled, bare>>

\* All but the acknowledgement and the answers that are still to come.
LEMMA UpGone ==
  ASSUME DashInv, UpLess
  PROVE  /\ DashTypes' /\ DashFlags' /\ KeysNumbered' /\ UpLines' /\ DownLines' /\ Disconnected' /\ ClearText'
         /\ WaitIsMine' /\ NotHeardYet' /\ StillUnknown' /\ OneFetch' /\ OneGenerate' /\ AskedByPage'
         /\ SlotHeld' /\ SecretsSealed' /\ FilledIsAsked'
<1>1. /\ UNCHANGED <<recs, dkey, active, session, wait, waitRec, waitKey, pairs>>
      /\ UNCHANGED <<open, pageNo, hkey, authState, pendingGet, pendingGen, down, filled, meddled, bare>>
    BY DEF UpLess, deviceVars
<1>2. /\ up' \in Seq(Lines)
      /\ \A i \in DOMAIN up' : i \in Nat /\ i + 1 \in DOMAIN up /\ up'[i] = up[i + 1]
    BY OneLess DEF DashInv, DashTypes, UpLess
<1>3. DashTypes' /\ DashFlags'
  <2>1. DashTypes'
      BY <1>1, <1>2, Zenon DEF DashInv, DashTypes, UpLess
  <2>2. DashFlags'
      BY <1>1, Zenon DEF DashInv, DashFlags
  <2> QED BY <2>1, <2>2
<1>4. KeysNumbered' /\ DownLines' /\ WaitIsMine' /\ SecretsSealed'
    BY <1>1, Zenon DEF DashInv, KeysNumbered, DownLines, WaitIsMine, SecretsSealed, Says
<1>5. UpLines'
  <2>1. UpKeyed'
      BY <1>1, <1>2 DEF DashInv, UpLines, UpKeyed
  <2>2. UpStarts'
      BY <1>1, <1>2 DEF DashInv, UpLines, UpStarts, Is
  <2>3. UpEnds'
      BY <1>1, <1>2 DEF DashInv, UpLines, UpEnds, Is
  <2> QED BY <2>1, <2>2, <2>3 DEF UpLines
<1>6. Disconnected' /\ ClearText'
    BY <1>1, <1>2, Zenon DEF DashInv, Disconnected, ClearText
<1>7. Fresh' => Fresh
    BY <1>1, <1>2, Zenon DEF Fresh, Is
<1>8. NotHeardYet'
    BY <1>1, <1>2, <1>7 DEF DashInv, NotHeardYet, Is
<1>9. StillUnknown'
    BY <1>1, <1>7, Zenon DEF DashInv, StillUnknown
<1>10. OneFetch'
    BY <1>1, <1>2 DEF DashInv, OneFetch, Alike, Asks, Waits, Answers, Is, Says, Mine
<1>11. OneGenerate' /\ AskedByPage'
    BY <1>1, <1>2 DEF DashInv, OneGenerate, AskedByPage, Alike, Generates, Generated, Is, Says, Mine
<1>12. SlotHeld' /\ FilledIsAsked'
    BY <1>1, Zenon DEF DashInv, SlotHeld, FilledIsAsked
<1> QED BY <1>3, <1>4, <1>5, <1>6, <1>8, <1>9, <1>10, <1>11, <1>12

\* Nobody reads the port; or a line is lost.
LEMMA NobodyKeeps == DashInv /\ NobodyReads => DashInv'
<1> SUFFICES ASSUME DashInv, NobodyReads PROVE DashInv'
    OBVIOUS
<1>1. losses' \in Nat
    BY DEF DashInv, DashTypes, NobodyReads
<1> QED BY <1>1, DownGone DEF NobodyReads, DownLess

\* A line is lost on the way.
LEMMA DropKeeps == DashInv /\ DropLine => DashInv'
<1> SUFFICES ASSUME DashInv, DropLine PROVE DashInv'
    OBVIOUS
<1>1. losses' \in Nat /\ losses' # 0
    BY DEF DropLine, DashInv, DashTypes
<1>2. /\ UNCHANGED <<deviceVars, open, pageNo, hkey, authState, pendingGet, pendingGen, filled, meddled, bare>>
      /\ \/ up # <<>> /\ up' = Tail(up) /\ UNCHANGED down
         \/ down # <<>> /\ down' = Tail(down) /\ UNCHANGED up
    BY DEF DropLine
<1>3. CASE down # <<>> /\ down' = Tail(down) /\ UNCHANGED up
    BY <1>1, <1>2, <1>3, DownGone DEF DownLess
<1>4. CASE up # <<>> /\ up' = Tail(up) /\ UNCHANGED down
  <2>1. /\ DashTypes' /\ DashFlags' /\ KeysNumbered' /\ UpLines' /\ DownLines' /\ Disconnected' /\ ClearText'
        /\ WaitIsMine' /\ NotHeardYet' /\ StillUnknown' /\ OneFetch' /\ OneGenerate' /\ AskedByPage'
        /\ SlotHeld' /\ SecretsSealed' /\ FilledIsAsked'
      BY <1>1, <1>2, <1>4, UpGone DEF UpLess
  <2>2. Acked' /\ UnderWay'
      BY <1>1, Zenon DEF Acked, UnderWay
  <2> QED BY <2>1, <2>2 DEF DashInv
<1> QED BY <1>2, <1>3, <1>4

\* A line to the page that is under a key of the page that is open is under the device's key of
\* now; and the page that has a slot taken has that key too.
LEMMA DownMine ==
  ASSUME DashInv, open
  PROVE  /\ \A i \in DOMAIN down : down[i] \in Answer /\ down[i].key \in LineKeys /\ down[i].body \in Replies
         /\ \A i \in DOMAIN down : Mine(down[i]) => down[i].key = dkey /\ dkey[1] = pageNo /\ down[i].key # Plain
         /\ \A i \in DOMAIN down : down[i].key = hkey /\ hkey # Plain => Mine(down[i])
         /\ ~bare /\ authState # "UNKNOWN" => hkey = dkey
<1>1. \A i \in DOMAIN down : down[i] \in Answer
    BY DEF DashInv, DashTypes
<1>2. \A i \in DOMAIN down : down[i].key \in LineKeys /\ down[i].body \in Replies
    BY <1>1 DEF Answer
<1>3. /\ pageNo \in Nat /\ pageNo # 0 /\ dkey \in LineKeys /\ dkey[1] <= pageNo
      /\ hkey # Plain => hkey[1] = pageNo
    BY KeyIs DEF DashInv, DashTypes, KeysNumbered
<1>4. \A i \in DOMAIN down : Mine(down[i]) => down[i].key = dkey /\ dkey[1] = pageNo /\ down[i].key # Plain
  <2>1. SUFFICES ASSUME NEW i \in DOMAIN down, down[i].key[1] = pageNo
                 PROVE  down[i].key = dkey /\ dkey[1] = pageNo /\ down[i].key # Plain
      BY DEF Mine
  <2>2. down[i].key # Plain
      BY <1>3, <2>1, KeyIs
  <2>3. down[i].key[1] <= dkey[1] /\ (down[i].key[1] = dkey[1] => down[i].key = dkey)
      BY <2>2 DEF DashInv, DownLines
  <2>4. dkey[1] = pageNo
      BY <1>3, <2>1, <2>3, KeyIs
  <2> QED BY <2>1, <2>2, <2>3, <2>4
<1>5. \A i \in DOMAIN down : down[i].key = hkey /\ hkey # Plain => Mine(down[i])
    BY <1>3 DEF Mine
<1>6. ~bare /\ authState # "UNKNOWN" => hkey = dkey
    BY Zenon DEF DashInv, StillUnknown, Fresh
<1> QED BY <1>1, <1>2, <1>4, <1>5, <1>6

\* The page takes a line; what it makes of it is its own.
PageTakes ==
  /\ open /\ down # <<>> /\ down' = Tail(down)
  /\ UNCHANGED <<deviceVars, open, pageNo, meddled, unanswered, bare, losses>>

\* A line that is no DH_ACK leaves the keys, and what is on the line, as they were.
LEMMA TakenKeepsLine ==
  ASSUME DashInv, PageTakes, ~Says(down[1], "DH_ACK"), UNCHANGED <<hkey, up>>
  PROVE  DashFlags' /\ KeysNumbered' /\ UpLines' /\ DownLines' /\ Disconnected' /\ WaitIsMine' /\ Acked'
         /\ NotHeardYet' /\ SecretsSealed' /\ (Fresh' <=> Fresh)
<1>1. /\ UNCHANGED <<dkey, active, session, wait, waitRec, waitKey, pairs>>
      /\ UNCHANGED <<open, pageNo, hkey, up, meddled, bare, losses>>
    BY DEF PageTakes, deviceVars
<1>2. /\ \A i \in DOMAIN down' : i \in Nat /\ i + 1 \in DOMAIN down /\ down'[i] = down[i + 1]
      /\ \A i \in DOMAIN down : i \in Nat /\ i >= 1 /\ (i # 1 => i - 1 \in DOMAIN down' /\ down'[i - 1] = down[i])
    BY OneLess DEF DashInv, DashTypes, PageTakes
<1>3. DashFlags' /\ KeysNumbered' /\ UpLines' /\ Disconnected' /\ WaitIsMine'
    BY <1>1, Zenon 
       DEF DashInv, DashFlags, KeysNumbered, UpLines, UpKeyed, UpStarts, UpEnds, Disconnected, WaitIsMine, Is
<1>4. DownLines'
    BY <1>1, <1>2 DEF DashInv, DownLines, Says
<1>5. SecretsSealed'
    BY <1>1, <1>2 DEF DashInv, SecretsSealed
<1>6. Acked'
    BY <1>1, <1>2 DEF DashInv, Acked, Is, Says
<1>7. Fresh' <=> Fresh
    BY <1>1, Zenon DEF Fresh, Is
<1>8. NotHeardYet'
    BY <1>1, <1>2, <1>7 DEF DashInv, NotHeardYet, Is
<1> QED BY <1>3, <1>4, <1>5, <1>6, <1>7, <1>8

\* DH_ACK: the key of now or an older one; the page that reads it knew none that is as new.
LEMMA AckKeeps ==
  ASSUME DashInv, PageTakes, Says(down[1], "DH_ACK"), TakeAck(down[1].body),
         UNCHANGED <<authState, pendingGet, pendingGen, filled>>
  PROVE  DashInv'
<1> DEFINE c    == [cmd |-> "RESTART_SYSTEM"]
           line == [key |-> hkey', body |-> c]
<1>1. /\ open /\ hkey' = <<pageNo, down[1].body.pair>> /\ up' = Append(up, line)
      /\ UNCHANGED <<recs, dkey, active, session, wait, waitRec, waitKey, pairs>>
      /\ UNCHANGED <<open, pageNo, meddled, unanswered, bare, losses>>
      /\ UNCHANGED <<authState, pendingGet, pendingGen, filled>>
    BY DEF PageTakes, TakeAck, deviceVars
<1>2. /\ down' \in Seq(Answer)
      /\ 1 \in DOMAIN down
      /\ \A i \in DOMAIN down' : i \in Nat /\ i + 1 \in DOMAIN down /\ down'[i] = down[i + 1]
      /\ \A i \in DOMAIN down : i \in Nat /\ i >= 1 /\ (i # 1 => i - 1 \in DOMAIN down' /\ down'[i - 1] = down[i])
    BY OneLess DEF DashInv, DashTypes, PageTakes
<1>3. /\ pageNo \in Nat /\ pageNo # 0 /\ pairs \in Nat /\ dkey \in LineKeys /\ hkey \in LineKeys /\ hkey[2] \in Nat
      /\ dkey[2] = pairs
    BY <1>1, KeyIs DEF DashInv, DashTypes, KeysNumbered
<1>4. down[1].body.pair \in (hkey[2] + 1)..pairs
    BY <1>2 DEF DashInv, DownLines
<1>5. /\ hkey' \in LineKeys /\ hkey'[1] = pageNo /\ hkey'[2] = down[1].body.pair /\ hkey' # Plain
      /\ hkey[2] < hkey'[2] /\ hkey'[2] <= pairs /\ hkey'[2] \in Nat
    BY <1>1, <1>3, <1>4 DEF LineKeys, Plain
<1>6. hkey # dkey
    BY <1>3, <1>5
<1>7. line \in Lines /\ line.key = hkey' /\ line.body.cmd = "RESTART_SYSTEM"
    BY <1>5 DEF Lines, Commands
<1> HIDE DEF line
<1>8. /\ up' \in Seq(Lines)
      /\ \E n \in DOMAIN up' :
           /\ n \in Nat /\ up'[n] = line
           /\ \A i \in DOMAIN up : i \in DOMAIN up' /\ up'[i] = up[i] /\ i < n /\ i \in Nat
           /\ \A i \in DOMAIN up' : i \in DOMAIN up \/ i = n
    BY <1>1, <1>7, OneMore DEF DashInv, DashTypes
<1>9. PICK n \in DOMAIN up' :
           /\ n \in Nat /\ up'[n] = line
           /\ \A i \in DOMAIN up : i \in DOMAIN up' /\ up'[i] = up[i] /\ i < n /\ i \in Nat
           /\ \A i \in DOMAIN up' : i \in DOMAIN up \/ i = n
    BY <1>8
<1>10. ~(~bare /\ authState # "UNKNOWN")
    BY <1>1, <1>6, DownMine
<1>11. DashTypes' /\ DashFlags'
  <2>1. DashTypes'
      BY <1>1, <1>2, <1>5, <1>8, Zenon DEF DashInv, DashTypes
  <2>2. DashFlags'
      BY <1>1, Zenon DEF DashInv, DashFlags
  <2> QED BY <2>1, <2>2
<1>12. KeysNumbered'
    BY <1>1, <1>3, <1>5 DEF DashInv, KeysNumbered
<1>13. UpLines'
  <2>1. UpKeyed'
    <3>1. \A i \in DOMAIN up : up[i].key = Plain \/ (up[i].key \in LineKeys /\ up[i].key[2] \in Nat)
      <4>1. \A i \in DOMAIN up : up[i] \in Lines
          BY DEF DashInv, DashTypes
      <4> QED BY <4>1, KeyIs DEF Lines
    <3>2. \A i \in DOMAIN up :
            /\ up[i].key = Plain \/ up[i].key[1] \in 1..pageNo
            /\ up[i].key[1] = pageNo => up[i].key[2] <= hkey[2]
        BY <1>1 DEF DashInv, UpLines, UpKeyed
    <3>3. \A i \in DOMAIN up :
            /\ up[i].key = Plain \/ up[i].key[1] \in 1..pageNo'
            /\ up[i].key[1] = pageNo' => up[i].key[2] <= hkey'[2]
        BY <1>1, <1>3, <1>5, <3>1, <3>2, KeyIs
    <3>4. /\ line.key = Plain \/ line.key[1] \in 1..pageNo'
          /\ line.key[1] = pageNo' => line.key[2] <= hkey'[2]
        BY <1>1, <1>3, <1>5, <1>7
    <3> QED BY <1>9, <3>3, <3>4 DEF UpKeyed
  <2>2. UpStarts'
      BY <1>1, <1>7, <1>9 DEF DashInv, UpLines, UpStarts, Is
  <2>3. UpEnds'
      BY <1>1, <1>5, <1>7, <1>9 DEF DashInv, UpLines, UpEnds, Is
  <2> QED BY <2>1, <2>2, <2>3 DEF UpLines
<1>14. DownLines'
  <2>1. \A i \in DOMAIN down : i # 1 /\ Says(down[i], "DH_ACK") =>
          down[i].body.pair \in (hkey'[2] + 1)..pairs
      BY <1>2, <1>3, <1>5 DEF DashInv, DownLines
  <2>2. SUFFICES ASSUME NEW i \in DOMAIN down'
                 PROVE  /\ down'[i].key[1] <= dkey[1]
                        /\ down'[i].key[1] = dkey[1] /\ down'[i].key # Plain => down'[i].key = dkey
                        /\ down'[i].body.ev = "DH_ACK" =>
                             /\ down'[i].key = Plain /\ down'[i].body.pair \in (hkey'[2] + 1)..pairs
                             /\ \A j \in DOMAIN down' : j > i /\ down'[j].body.ev = "DH_ACK" =>
                                  down'[j].body.pair > down'[i].body.pair
      BY <1>1 DEF DownLines, Says
  <2>3. i + 1 \in DOMAIN down /\ i + 1 # 1 /\ down'[i] = down[i + 1]
      BY <1>2
  <2>4. \A j \in DOMAIN down' : j > i => j + 1 > i + 1
      BY <1>2
  <2> QED BY <1>2, <2>1, <2>3, <2>4 DEF DashInv, DownLines, Says
<1>15. Disconnected'
    BY <1>1, <1>5, <1>7, <1>9 DEF DashInv, Disconnected
<1>16. ClearText'
  <2>1. ~bare => \A i \in DOMAIN up' : up'[i].key = Plain => up'[i].body.cmd \in {"DH_INIT", "DISCONNECT"}
      BY <1>5, <1>7, <1>9 DEF DashInv, ClearText
  <2>2. ~bare => \A i \in DOMAIN down' : down'[i].key = Plain => down'[i].body.ev \in {"DH_ACK", "DISCONNECTED"}
      BY <1>2 DEF DashInv, ClearText
  <2> QED BY <1>1, <1>5, <2>1, <2>2, Zenon DEF DashInv, ClearText
<1>17. WaitIsMine' /\ FilledIsAsked'
    BY <1>1, Zenon DEF DashInv, WaitIsMine, FilledIsAsked
<1>18. SecretsSealed'
    BY <1>1, <1>2 DEF DashInv, SecretsSealed
<1>19. Acked'
  <2>1. SUFFICES ASSUME losses = 0 PROVE Acked'
      BY <1>1, Zenon DEF Acked
  <2>2. CASE \E i \in DOMAIN up : Is(up[i], "DH_INIT") /\ up[i].body.page = pageNo
      BY <1>1, <1>9, <2>2, Zenon DEF Acked, Is
  <2>3. CASE dkey[1] = pageNo /\ \E i \in DOMAIN down : Says(down[i], "DH_ACK") /\ down[i].body.pair = dkey[2]
    <3>1. PICK i \in DOMAIN down : Says(down[i], "DH_ACK") /\ down[i].body.pair = dkey[2]
        BY <2>3
    <3>2. CASE i = 1
      <4>1. hkey' = dkey
          BY <1>3, <1>5, <2>3, <3>1, <3>2, KeyIs
      <4>2. ASSUME NEW j \in DOMAIN down', Says(down[j + 1], "DH_ACK") PROVE FALSE
        <5>1. j + 1 \in DOMAIN down /\ j + 1 > 1
            BY <1>2
        <5>2. down[j + 1].body.pair > down[1].body.pair /\ down[j + 1].body.pair \in (hkey[2] + 1)..pairs
            BY <3>1, <3>2, <4>2, <5>1 DEF DashInv, DownLines
        <5> QED BY <1>3, <3>1, <3>2, <5>2
      <4>3. \A j \in DOMAIN down' : ~Says(down'[j], "DH_ACK")
          BY <1>2, <4>2 DEF Says
      <4> QED BY <1>1, <2>3, <4>1, <4>3, Zenon DEF Acked, Says
    <3>3. CASE i # 1
      <4>1. i - 1 \in DOMAIN down' /\ down'[i - 1] = down[i]
          BY <1>2, <3>3
      <4> QED BY <1>1, <2>3, <3>1, <4>1, Zenon DEF Acked, Says
    <3> QED BY <3>2, <3>3
  <2> QED BY <1>1, <1>2, <2>1, <2>2, <2>3, Zenon DEF DashInv, Acked
<1>20. NotHeardYet'
  <2>1. dkey[1] = pageNo => /\ \A i \in DOMAIN down : down[i].key # dkey
                            /\ wait = "ready"
                            /\ \A i, j \in DOMAIN up : Is(up[i], "RESTART_SYSTEM") /\ up[i].key = dkey /\ j < i
                                  => up[j].key # dkey
      BY <1>1, <1>6, Zenon DEF DashInv, NotHeardYet, Fresh
  <2>2. dkey[1] = pageNo /\ hkey' = dkey => \A i \in DOMAIN up : up[i].key # dkey
      BY <1>1, <1>3, <1>5 DEF DashInv, UpLines, UpKeyed
  <2>3. dkey[1] = pageNo => \A i \in DOMAIN down' : down'[i].key # dkey
      BY <1>2, <2>1
  <2>4. ASSUME dkey[1] = pageNo, NEW i \in DOMAIN up', NEW j \in DOMAIN up', up'[i].body.cmd = "RESTART_SYSTEM",
               up'[i].key = dkey, j < i
        PROVE  up'[j].key # dkey
    <3>1. j \in DOMAIN up
        BY <1>9, <2>4
    <3> QED BY <1>7, <1>9, <2>1, <2>2, <2>4, <3>1 DEF Is
  <2> QED BY <1>1, <2>1, <2>3, <2>4 DEF NotHeardYet, Is
<1>21. StillUnknown' /\ SlotHeld'
    BY <1>1, <1>10, Zenon DEF DashInv, StillUnknown, SlotHeld
<1>22. OneFetch'
  <2>1. \A i \in DOMAIN up' : up'[i].body.cmd # "RESTART_SYSTEM" => i \in DOMAIN up /\ up'[i] = up[i]
      BY <1>7, <1>9
  <2>2. \A i \in DOMAIN up' : Asks(i)' => i \in DOMAIN up /\ Asks(i) /\ up'[i] = up[i]
      BY <1>1, <2>1 DEF Asks, Is, Mine
  <2>3. \A i \in DOMAIN up' : Mine(up[i])' => up'[i].body.cmd \in {"RESTART_SYSTEM"} \/ (i \in DOMAIN up /\ Mine(up[i]))
      BY <1>1, <2>1 DEF Mine
  <2>4. \A i \in DOMAIN down' : i + 1 \in DOMAIN down /\ i \in Nat /\ down'[i] = down[i + 1]
                                /\ (Answers(i)' <=> Answers(i + 1))
      BY <1>1, <1>2 DEF Answers, Says, Mine
  <2>5. (Alike' <=> Alike) /\ (Waits' <=> Waits)
      BY <1>1, Zenon DEF Alike, Waits
  <2>6. SUFFICES ASSUME Alike PROVE OneFetch'
      BY <2>5 DEF OneFetch
  <2>7. \A i \in DOMAIN up' : Asks(i)' =>
         /\ pendingGet # NoSlot /\ up'[i].body.rec = pendingGet.rec /\ ~Waits
         /\ \A j \in DOMAIN up' : Asks(j)' => i = j
         /\ \A j \in DOMAIN down' : ~Answers(j)'
      BY <2>2, <2>4, <2>6 DEF DashInv, OneFetch
  <2>8. Waits => /\ wait = "get" /\ pendingGet # NoSlot /\ waitRec = pendingGet.rec
                 /\ \A j \in DOMAIN down' : ~Answers(j)'
      BY <2>4, <2>6 DEF DashInv, OneFetch
  <2>9. ASSUME NEW i \in DOMAIN down', Answers(i)'
        PROVE  /\ pendingGet # NoSlot /\ (down'[i].body.ev = "TRANSMITTED" => down'[i].body.rec = pendingGet.rec)
               /\ \A j \in DOMAIN down' : Answers(j)' => i = j
    <3>1. /\ pendingGet # NoSlot /\ (Says(down[i + 1], "TRANSMITTED") => down[i + 1].body.rec = pendingGet.rec)
          /\ \A j \in DOMAIN down : Answers(j) => i + 1 = j
        BY <2>4, <2>6, <2>9 DEF DashInv, OneFetch
    <3> QED BY <2>4, <3>1 DEF Says
  <2>10. \A i \in DOMAIN up' : Mine(up[i])' => up'[i].body.cmd \notin {"UPDATE_PASS", "DELETE_PASS"}
      BY <2>1, <2>3, <2>6 DEF DashInv, OneFetch
  <2> QED BY <1>1, <2>5, <2>7, <2>8, <2>9, <2>10 DEF OneFetch, Says
<1>23. OneGenerate' /\ AskedByPage'
    BY <1>1, <1>2, <1>7, <1>9 DEF DashInv, OneGenerate, AskedByPage, Alike, Generates, Generated, Is, Says, Mine
<1>24. UnderWay'
    BY <1>1, <1>10, Zenon DEF DashInv, UnderWay, Alike, SlotHeld
<1> QED BY <1>11, <1>12, <1>13, <1>14, <1>15, <1>16, <1>17, <1>18, <1>19, <1>20, <1>21, <1>22, <1>23, <1>24 
        DEF DashInv

\* What the page reads is the first line; the rest moves up.
LEMMA TakenView ==
  ASSUME DashInv, PageTakes, UNCHANGED <<hkey, up>>
  PROVE  /\ (Alike' <=> Alike) /\ (Alike => ~bare) /\ (Waits' <=> Waits)
         /\ \A i \in DOMAIN up : up' = up /\ (Asks(i)' <=> Asks(i)) /\ (Generates(i)' <=> Generates(i))
                                 /\ (Mine(up[i])' <=> Mine(up[i]))
         /\ \A i \in DOMAIN down' : /\ i + 1 \in DOMAIN down /\ i \in Nat /\ down'[i] = down[i + 1] /\ i + 1 # 1
                                    /\ (Answers(i)' <=> Answers(i + 1)) /\ (Generated(i)' <=> Generated(i + 1))
<1>1. /\ UNCHANGED <<wait, waitKey, open, pageNo, up, meddled, bare>>
    BY DEF PageTakes, deviceVars
<1>2. (Alike' <=> Alike) /\ (Alike => ~bare) /\ (Waits' <=> Waits)
    BY <1>1, Zenon DEF Alike, Waits
<1>3. \A i \in DOMAIN up : up' = up /\ (Asks(i)' <=> Asks(i)) /\ (Generates(i)' <=> Generates(i))
                           /\ (Mine(up[i])' <=> Mine(up[i]))
    BY <1>1, Zenon DEF Asks, Generates, Is, Mine
<1>4. \A i \in DOMAIN down' : i + 1 \in DOMAIN down /\ i \in Nat /\ down'[i] = down[i + 1] /\ i + 1 # 1
  <2>1. down' \in Seq(Answer) /\ \A i \in DOMAIN down' : i + 1 \in DOMAIN down /\ down'[i] = down[i + 1]
      BY OneLess DEF DashInv, DashTypes, PageTakes
  <2> QED BY <2>1
<1>5. \A i \in DOMAIN down' : (Answers(i)' <=> Answers(i + 1)) /\ (Generated(i)' <=> Generated(i + 1))
    BY <1>1, <1>4 DEF Answers, Generated, Says, Mine
<1> QED BY <1>2, <1>3, <1>4, <1>5

\* As long as the slots are as they were the requests, and their answers, are theirs.
LEMMA TakenKeepsFetch ==
  ASSUME DashInv, PageTakes, UNCHANGED <<hkey, up, pendingGet>> PROVE OneFetch'
<1>1. UNCHANGED <<wait, waitRec, up, pendingGet>>
    BY DEF PageTakes, deviceVars
<1>2. /\ (Alike' <=> Alike) /\ (Waits' <=> Waits)
      /\ \A i \in DOMAIN up : up' = up /\ (Asks(i)' <=> Asks(i)) /\ (Mine(up[i])' <=> Mine(up[i]))
      /\ \A i \in DOMAIN down' : /\ i + 1 \in DOMAIN down /\ i \in Nat /\ down'[i] = down[i + 1]
                                 /\ (Answers(i)' <=> Answers(i + 1))
    BY TakenView
<1>3. SUFFICES ASSUME Alike PROVE OneFetch'
    BY <1>2 DEF OneFetch
<1>4. \A i \in DOMAIN up' : Asks(i)' =>
     /\ pendingGet # NoSlot /\ up'[i].body.rec = pendingGet.rec /\ ~Waits
     /\ \A j \in DOMAIN up' : Asks(j)' => i = j
     /\ \A j \in DOMAIN down' : ~Answers(j)'
    BY <1>1, <1>2, <1>3 DEF DashInv, OneFetch
<1>5. Waits => /\ wait = "get" /\ pendingGet # NoSlot /\ waitRec = pendingGet.rec
               /\ \A j \in DOMAIN down' : ~Answers(j)'
    BY <1>2, <1>3 DEF DashInv, OneFetch
<1>6. ASSUME NEW i \in DOMAIN down', Answers(i)'
      PROVE  /\ pendingGet # NoSlot /\ (down'[i].body.ev = "TRANSMITTED" => down'[i].body.rec = pendingGet.rec)
             /\ \A j \in DOMAIN down' : Answers(j)' => i = j
  <2>1. /\ pendingGet # NoSlot /\ (Says(down[i + 1], "TRANSMITTED") => down[i + 1].body.rec = pendingGet.rec)
        /\ \A j \in DOMAIN down : Answers(j) => i + 1 = j
      BY <1>2, <1>3, <1>6 DEF DashInv, OneFetch
  <2> QED BY <1>2, <2>1 DEF Says
<1>7. \A i \in DOMAIN up' : Mine(up[i])' => up'[i].body.cmd \notin {"UPDATE_PASS", "DELETE_PASS"}
    BY <1>1, <1>2, <1>3 DEF DashInv, OneFetch
<1> QED BY <1>1, <1>2, <1>4, <1>5, <1>6, <1>7 DEF OneFetch, Says

\* The same of the slot for a generated password.
LEMMA TakenKeepsGenerate ==
  ASSUME DashInv, PageTakes, UNCHANGED <<hkey, up, pendingGen>> PROVE OneGenerate'
<1>1. UNCHANGED <<up, pendingGen>>
    OBVIOUS
<1>2. /\ Alike' <=> Alike
      /\ \A i \in DOMAIN up : up' = up /\ (Generates(i)' <=> Generates(i))
      /\ \A i \in DOMAIN down' : /\ i + 1 \in DOMAIN down /\ i \in Nat /\ down'[i] = down[i + 1]
                                 /\ (Generated(i)' <=> Generated(i + 1))
    BY TakenView
<1>3. SUFFICES ASSUME Alike PROVE OneGenerate'
    BY <1>2 DEF OneGenerate
<1>4. \A i \in DOMAIN up' : Generates(i)' =>
     /\ pendingGen # NoSlot /\ up'[i].body.rec = pendingGen.rec
     /\ \A j \in DOMAIN up' : Generates(j)' => i = j
     /\ \A j \in DOMAIN down' : ~Generated(j)'
    BY <1>1, <1>2, <1>3 DEF DashInv, OneGenerate
<1>5. ASSUME NEW i \in DOMAIN down', Generated(i)'
      PROVE  /\ pendingGen # NoSlot /\ down'[i].body.rec = pendingGen.rec
             /\ \A j \in DOMAIN down' : Generated(j)' => i = j
  <2>1. /\ pendingGen # NoSlot /\ down[i + 1].body.rec = pendingGen.rec
        /\ \A j \in DOMAIN down : Generated(j) => i + 1 = j
      BY <1>2, <1>3, <1>5 DEF DashInv, OneGenerate
  <2> QED BY <1>2, <2>1
<1> QED BY <1>1, <1>4, <1>5 DEF OneGenerate

\* A slot that stays taken is not the one that the line answers.
LEMMA TakenKeepsUnderWay ==
  ASSUME DashInv, PageTakes, UNCHANGED <<hkey, up>>,
         Alike /\ pendingGet' # NoSlot => pendingGet' = pendingGet /\ ~Answers(1),
         Alike /\ pendingGen' # NoSlot => pendingGen' = pendingGen /\ ~(Generated(1) /\ down[1].body.autogen)
  PROVE  UnderWay'
<1>1. UNCHANGED <<dkey, up, losses, unanswered>>
    BY DEF PageTakes, deviceVars
<1>2. /\ (Alike' <=> Alike) /\ (Waits' <=> Waits)
      /\ \A i \in DOMAIN up : up' = up /\ (Asks(i)' <=> Asks(i)) /\ (Generates(i)' <=> Generates(i))
      /\ \A i \in DOMAIN down' : /\ i + 1 \in DOMAIN down /\ i \in Nat /\ down'[i] = down[i + 1]
                                 /\ (Answers(i)' <=> Answers(i + 1)) /\ (Generated(i)' <=> Generated(i + 1))
    BY TakenView
<1>3. \A i \in DOMAIN down : i \in Nat /\ i >= 1 /\ (i # 1 => i - 1 \in DOMAIN down' /\ down'[i - 1] = down[i])
    BY OneLess DEF DashInv, DashTypes, PageTakes
<1>4. SUFFICES ASSUME Alike, losses = 0, unanswered = {} PROVE UnderWay'
    BY <1>1, <1>2 DEF UnderWay
<1>5. ASSUME pendingGet' # NoSlot
      PROVE (\E i \in DOMAIN up' : Asks(i)' /\ up'[i].key = dkey') \/ Waits' \/ (\E i \in DOMAIN down' : Answers(i)')
  <2>1. (\E i \in DOMAIN up : Asks(i) /\ up[i].key = dkey) \/ Waits \/ (\E i \in DOMAIN down : Answers(i))
      BY <1>4, <1>5, Zenon DEF DashInv, UnderWay
  <2>2. ASSUME NEW i \in DOMAIN down, Answers(i) PROVE \E j \in DOMAIN down' : Answers(j)'
    <3>1. i - 1 \in DOMAIN down' /\ (i - 1) + 1 = i
        BY <1>3, <1>4, <1>5, <2>2
    <3> QED BY <1>2, <2>2, <3>1
  <2> QED BY <1>1, <1>2, <2>1, <2>2
<1>6. ASSUME pendingGen' # NoSlot
      PROVE \/ \E i \in DOMAIN up' : Generates(i)' /\ up'[i].key = dkey' /\ up'[i].body.autogen
            \/ \E i \in DOMAIN down' : Generated(i)' /\ down'[i].body.autogen
  <2>1. \/ \E i \in DOMAIN up : Generates(i) /\ up[i].key = dkey /\ up[i].body.autogen
        \/ \E i \in DOMAIN down : Generated(i) /\ down[i].body.autogen
      BY <1>4, <1>6, Zenon DEF DashInv, UnderWay
  <2>2. ASSUME NEW i \in DOMAIN down, Generated(i), down[i].body.autogen
        PROVE  \E j \in DOMAIN down' : Generated(j)' /\ down'[j].body.autogen
    <3>1. i - 1 \in DOMAIN down' /\ (i - 1) + 1 = i /\ down'[i - 1] = down[i]
        BY <1>3, <1>4, <1>6, <2>2
    <3> QED BY <1>2, <2>2, <3>1
  <2> QED BY <1>1, <1>2, <2>1, <2>2
<1> QED BY <1>1, <1>2, <1>4, <1>5, <1>6, Zenon DEF UnderWay

\* processIncomingLine: an answer under the page's key frees the slot of the request that it
\* answers; what comes in the clear is the end of a session, which the page does not heed.
LEMMA LineKeeps ==
  ASSUME DashInv, PageTakes, ~Says(down[1], "DH_ACK"), down[1].key \in {Plain, hkey},
         ProcessIncomingLine(down[1].body), UNCHANGED <<hkey, up>>
  PROVE  DashInv'
<1> DEFINE m == down[1].body
<1>1. /\ open
      /\ UNCHANGED <<recs, dkey, active, session, wait, waitRec, waitKey, pairs>>
      /\ UNCHANGED <<open, pageNo, hkey, up, meddled, unanswered, bare, losses>>
    BY DEF PageTakes, deviceVars
<1>2. /\ down' \in Seq(Answer) /\ 1 \in DOMAIN down
      /\ \A i \in DOMAIN down' : i \in Nat /\ i + 1 \in DOMAIN down /\ down'[i] = down[i + 1]
      /\ \A i \in DOMAIN down : i \in Nat /\ i >= 1 /\ (i # 1 => i - 1 \in DOMAIN down' /\ down'[i - 1] = down[i])
    BY OneLess DEF DashInv, DashTypes, PageTakes
<1>3. /\ m \in Replies /\ m.ev # "DH_ACK"
      /\ Mine(down[1]) => down[1].key = dkey /\ dkey[1] = pageNo /\ down[1].key # Plain
      /\ down[1].key = hkey /\ hkey # Plain => Mine(down[1])
    BY <1>1, <1>2, DownMine DEF Says
<1>4. /\ pendingGet' \in {pendingGet, NoSlot} /\ pendingGen' \in {pendingGen, NoSlot}
      /\ authState' = authState \/ authState' # "UNKNOWN"
    BY Zenon DEF ProcessIncomingLine
<1>5. down[1].key = Plain /\ ~bare => UNCHANGED <<authState, pendingGet, pendingGen, filled>>
  <2>1. down[1].key = Plain /\ ~bare => m.ev = "DISCONNECTED"
      BY <1>2, <1>3 DEF DashInv, ClearText
  <2> QED BY <2>1 DEF ProcessIncomingLine
<1>6. ~bare /\ down[1].key # Plain => Mine(down[1]) /\ down[1].key = dkey /\ hkey = dkey /\ dkey[1] = pageNo /\ ~Fresh
  <2>1. SUFFICES ASSUME down[1].key # Plain
                 PROVE  Mine(down[1]) /\ down[1].key = dkey /\ hkey = dkey /\ dkey[1] = pageNo /\ ~Fresh
      OBVIOUS
  <2>2. down[1].key = hkey /\ Mine(down[1]) /\ down[1].key = dkey /\ dkey[1] = pageNo
      BY <1>3, <2>1
  <2>3. ~Fresh
      BY <1>1, <1>2, <2>2, Zenon DEF DashInv, NotHeardYet
  <2> QED BY <2>2, <2>3
<1>7. /\ DashFlags' /\ KeysNumbered' /\ UpLines' /\ DownLines' /\ Disconnected' /\ WaitIsMine' /\ Acked'
      /\ NotHeardYet' /\ SecretsSealed' /\ (Fresh' <=> Fresh)
    BY TakenKeepsLine
<1>8. DashTypes'
  <2>1. pendingGet' \in Slots /\ pendingGen' \in Slots
      BY <1>4 DEF DashInv, DashTypes, NoSlot, Slots
  <2> QED BY <1>1, <1>2, <2>1, Zenon DEF DashInv, DashTypes
<1>9. ClearText'
  <2>1. ~bare => \A i \in DOMAIN down' : down'[i].key = Plain => down'[i].body.ev \in {"DH_ACK", "DISCONNECTED"}
      BY <1>2 DEF DashInv, ClearText
  <2>2. ~bare /\ hkey = Plain => authState' = "UNKNOWN"
    <3>1. ~bare /\ hkey = Plain => authState' = authState
        BY <1>5
    <3> QED BY <3>1, Zenon DEF DashInv, ClearText
  <2> QED BY <1>1, <2>1, <2>2, Zenon DEF DashInv, ClearText
<1>10. StillUnknown'
    BY <1>1, <1>5, <1>6, <1>7, Zenon DEF DashInv, StillUnknown
<1>11. SlotHeld'
    BY <1>1, <1>4, Zenon DEF DashInv, SlotHeld
<1>12. /\ (Alike' <=> Alike) /\ (Alike => ~bare) /\ (Waits' <=> Waits)
       /\ \A i \in DOMAIN up : up' = up /\ (Asks(i)' <=> Asks(i)) /\ (Generates(i)' <=> Generates(i))
                               /\ (Mine(up[i])' <=> Mine(up[i]))
       /\ \A i \in DOMAIN down' : /\ i + 1 \in DOMAIN down /\ i \in Nat /\ down'[i] = down[i + 1] /\ i + 1 # 1
                                  /\ (Answers(i)' <=> Answers(i + 1)) /\ (Generated(i)' <=> Generated(i + 1))
    BY TakenView
<1>13. Alike /\ pendingGet' # pendingGet =>
         /\ pendingGet' = NoSlot /\ ~Waits /\ (\A i \in DOMAIN up : ~Asks(i))
         /\ \A i \in DOMAIN down : Answers(i) => i = 1
  <2>1. SUFFICES ASSUME Alike, pendingGet' # pendingGet
                 PROVE  /\ ~Waits /\ (\A i \in DOMAIN up : ~Asks(i))
         /\ \A i \in DOMAIN down : Answers(i) => i = 1
      BY <1>4
  <2>2. m.ev \in {"TRANSMITTED", "NOT_FOUND"} /\ down[1].key # Plain
      BY <1>5, <1>12, <2>1 DEF ProcessIncomingLine
  <2>3. Answers(1)
      BY <1>6, <1>12, <2>1, <2>2 DEF Answers, Says
  <2> QED BY <1>2, <2>1, <2>3 DEF DashInv, OneFetch
<1>14. OneFetch'
  <2>1. SUFFICES ASSUME Alike PROVE OneFetch'
      BY <1>12 DEF OneFetch
  <2>2. CASE pendingGet' = pendingGet
      BY <1>1, <2>2, TakenKeepsFetch
  <2>3. CASE pendingGet' # pendingGet
    <3>1. (\A i \in DOMAIN up' : ~Asks(i)') /\ ~Waits' /\ \A i \in DOMAIN down' : ~Answers(i)'
        BY <1>1, <1>12, <1>13, <2>1, <2>3
    <3>2. \A i \in DOMAIN up' : Mine(up[i])' => up'[i].body.cmd \notin {"UPDATE_PASS", "DELETE_PASS"}
        BY <1>1, <1>12, <2>1 DEF DashInv, OneFetch
    <3> QED BY <3>1, <3>2 DEF OneFetch
  <2> QED BY <2>2, <2>3
<1>15. Alike /\ pendingGen' # pendingGen =>
         /\ pendingGen' = NoSlot /\ (\A i \in DOMAIN up : ~Generates(i)) /\ \A i \in DOMAIN down : Generated(i) => i = 1
  <2>1. SUFFICES ASSUME Alike, pendingGen' # pendingGen
                 PROVE  (\A i \in DOMAIN up : ~Generates(i)) /\ \A i \in DOMAIN down : Generated(i) => i = 1
      BY <1>4
  <2>2. m.ev = "SAVED" /\ down[1].key # Plain
      BY <1>5, <1>12, <2>1 DEF ProcessIncomingLine
  <2>3. Generated(1)
      BY <1>6, <1>12, <2>1, <2>2 DEF Generated, Says
  <2> QED BY <1>2, <2>1, <2>3 DEF DashInv, OneGenerate
<1>16. OneGenerate' /\ AskedByPage'
  <2>1. AskedByPage'
      BY <1>1, <1>12, Zenon DEF DashInv, AskedByPage
  <2>2. SUFFICES ASSUME Alike PROVE OneGenerate'
      BY <1>12, <2>1 DEF OneGenerate
  <2>3. CASE pendingGen' = pendingGen
      BY <1>1, <2>3, TakenKeepsGenerate
  <2>4. CASE pendingGen' # pendingGen
    <3>1. (\A i \in DOMAIN up' : ~Generates(i)') /\ \A i \in DOMAIN down' : ~Generated(i)'
        BY <1>1, <1>12, <1>15, <2>2, <2>4
    <3> QED BY <3>1 DEF OneGenerate
  <2> QED BY <2>3, <2>4
<1>17. UnderWay'
  <2>1. pendingGet' # NoSlot => pendingGet' = pendingGet /\ ~Answers(1)
    <3>1. SUFFICES ASSUME pendingGet' # NoSlot, Answers(1) PROVE FALSE
        BY <1>4
    <3>2. m.ev \in {"TRANSMITTED", "NOT_FOUND"}
        BY <3>1 DEF Answers, Says
    <3> QED BY <1>4, <3>1, <3>2 DEF ProcessIncomingLine
  <2>2. pendingGen' # NoSlot => pendingGen' = pendingGen /\ ~(Generated(1) /\ m.autogen)
    <3>1. SUFFICES ASSUME pendingGen' # NoSlot, Generated(1), m.autogen PROVE FALSE
        BY <1>4
    <3>2. m.ev = "SAVED"
        BY <3>1 DEF Generated, Says
    <3> QED BY <1>4, <3>1, <3>2 DEF ProcessIncomingLine
  <2> QED BY <2>1, <2>2, TakenKeepsUnderWay
<1>18. FilledIsAsked'
  <2>1. SUFFICES ASSUME meddled = {}, ~bare, filled'.tab # "none" PROVE filled'.asked = filled'.rec
      BY <1>1 DEF FilledIsAsked
  <2>2. Alike
      BY <1>1, <2>1 DEF Alike
  <2>3. CASE filled' = filled
      BY <2>1, <2>3, Zenon DEF DashInv, FilledIsAsked
  <2>4. CASE filled' # filled
    <3>1. down[1].key # Plain /\ Mine(down[1])
        BY <1>5, <1>6, <2>1, <2>4
    <3>2. CASE m.ev = "TRANSMITTED"
      <4>1. filled' = [tab |-> pendingGet.tab, asked |-> pendingGet.rec, rec |-> m.rec]
          BY <2>4, <3>2 DEF ProcessIncomingLine, Fill
      <4>2. m.rec = pendingGet.rec
          BY <1>2, <2>2, <3>1, <3>2 DEF DashInv, OneFetch, Answers, Says
      <4> QED BY <4>1, <4>2
    <3>3. CASE m.ev = "SAVED"
      <4>1. filled' = [tab |-> pendingGen.tab, asked |-> pendingGen.rec, rec |-> m.rec]
          BY <2>4, <3>3 DEF ProcessIncomingLine, Fill
      <4>2. m.rec = pendingGen.rec
          BY <1>2, <2>2, <3>1, <3>3 DEF DashInv, OneGenerate, Generated, Says
      <4> QED BY <4>1, <4>2
    <3> QED BY <2>4, <3>2, <3>3 DEF ProcessIncomingLine
  <2> QED BY <2>3, <2>4
<1> QED BY <1>7, <1>8, <1>9, <1>10, <1>11, <1>14, <1>16, <1>17, <1>18 DEF DashInv

\* A sealed line that does not open is not of this page, or comes before it has the key.
LEMMA UnopenedKeeps ==
  ASSUME DashInv, PageTakes, ~Says(down[1], "DH_ACK"), down[1].key \notin {Plain, hkey},
         UNCHANGED <<hkey, up, authState, pendingGet, pendingGen, filled>>
  PROVE  DashInv'
<1>1. /\ open
      /\ UNCHANGED <<recs, dkey, active, session, wait, waitRec, waitKey, pairs>>
      /\ UNCHANGED <<open, pageNo, hkey, up, meddled, unanswered, bare, losses>>
      /\ UNCHANGED <<authState, pendingGet, pendingGen, filled>>
    BY DEF PageTakes, deviceVars
<1>2. /\ down' \in Seq(Answer) /\ 1 \in DOMAIN down
      /\ \A i \in DOMAIN down' : i \in Nat /\ i + 1 \in DOMAIN down /\ down'[i] = down[i + 1]
    BY OneLess DEF DashInv, DashTypes, PageTakes
<1>3. /\ DashFlags' /\ KeysNumbered' /\ UpLines' /\ DownLines' /\ Disconnected' /\ WaitIsMine' /\ Acked'
      /\ NotHeardYet' /\ SecretsSealed' /\ (Fresh' <=> Fresh)
    BY TakenKeepsLine
<1>4. DashTypes'
    BY <1>1, <1>2, Zenon DEF DashInv, DashTypes
<1>5. ClearText'
  <2>1. ~bare => \A i \in DOMAIN down' : down'[i].key = Plain => down'[i].body.ev \in {"DH_ACK", "DISCONNECTED"}
      BY <1>2 DEF DashInv, ClearText
  <2> QED BY <1>1, <2>1, Zenon DEF DashInv, ClearText
<1>6. StillUnknown' /\ SlotHeld' /\ FilledIsAsked'
    BY <1>1, <1>3, Zenon DEF DashInv, StillUnknown, SlotHeld, FilledIsAsked
<1>7. OneFetch' /\ OneGenerate'
    BY <1>1, TakenKeepsFetch, TakenKeepsGenerate
<1>8. AskedByPage'
  <2>1. (Alike' <=> Alike) /\ \A i \in DOMAIN up : up' = up /\ (Generates(i)' <=> Generates(i))
      BY <1>1, TakenView
  <2> QED BY <1>1, <2>1, Zenon DEF DashInv, AskedByPage
<1>9. UnderWay'
  <2>1. Alike /\ (pendingGet # NoSlot \/ pendingGen # NoSlot) => ~Mine(down[1])
    <3>1. SUFFICES ASSUME Alike, pendingGet # NoSlot \/ pendingGen # NoSlot, Mine(down[1]) PROVE FALSE
        OBVIOUS
    <3>2. ~bare /\ authState # "UNKNOWN"
        BY <3>1, Zenon DEF DashInv, SlotHeld, Alike
    <3>3. down[1].key = dkey /\ hkey = dkey
        BY <1>1, <1>2, <3>1, <3>2, DownMine
    <3> QED BY <3>3
  <2> QED BY <1>1, <2>1, TakenKeepsUnderWay DEF Answers, Generated
<1> QED BY <1>3, <1>4, <1>5, <1>6, <1>7, <1>8, <1>9 DEF DashInv

\* The page reads a line.
LEMMA PageKeeps == DashInv /\ PageReads => DashInv'
<1> SUFFICES ASSUME DashInv, PageReads PROVE DashInv'
    OBVIOUS
<1>1. PageTakes /\ Head(down) = down[1]
  <2>1. down # <<>> /\ down \in Seq(Answer)
      BY DEF PageReads, DashInv, DashTypes
  <2> QED BY <2>1, OneLess DEF PageReads, PageTakes
<1>2. CASE Says(down[1], "DH_ACK")
    BY <1>1, <1>2, AckKeeps DEF PageReads, Says
<1>3. CASE ~Says(down[1], "DH_ACK") /\ down[1].key \in {Plain, hkey}
  <2>1. ProcessIncomingLine(down[1].body) /\ UNCHANGED <<hkey, up>>
      BY <1>1, <1>3 DEF PageReads, Says
  <2> QED BY <1>1, <1>3, <2>1, LineKeeps
<1>4. CASE ~Says(down[1], "DH_ACK") /\ down[1].key \notin {Plain, hkey}
  <2>1. UNCHANGED <<hkey, up, authState, pendingGet, pendingGen, filled>>
      BY <1>1, <1>4 DEF PageReads, Says
  <2> QED BY <1>1, <1>4, <2>1, UnopenedKeeps
<1> QED BY <1>2, <1>3, <1>4

-----------------------------------------------------------------------------
(* The device: it has read d lines, none or one, and the page is as it was. *)
Moved(d) ==
  /\ up' \in Seq(Lines)
  /\ \A i \in DOMAIN up' : i \in Nat /\ i + d \in DOMAIN up /\ up'[i] = up[i + d]
  /\ \A i \in DOMAIN up : i \in Nat /\ (i # d => i - d \in DOMAIN up' /\ up'[i - d] = up[i])
  /\ UNCHANGED pageState

\* The device has read a line, or has said something of its own.
LEMMA HasMoved ==
  ASSUME DashInv, UNCHANGED pageState
  PROVE  /\ up # <<>> /\ up' = Tail(up) => Moved(1) /\ 1 \in DOMAIN up /\ Head(up) = up[1]
         /\ up' = up => Moved(0)
<1>1. up \in Seq(Lines)
    BY DEF DashInv, DashTypes
<1>2. up # <<>> /\ up' = Tail(up) => Moved(1) /\ 1 \in DOMAIN up /\ Head(up) = up[1]
  <2>1. SUFFICES ASSUME up # <<>>, up' = Tail(up) PROVE Moved(1) /\ 1 \in DOMAIN up /\ Head(up) = up[1]
      OBVIOUS
  <2>2. /\ Tail(up) \in Seq(Lines) /\ 1 \in DOMAIN up /\ Head(up) = up[1]
        /\ \A i \in DOMAIN Tail(up) : i \in Nat /\ i + 1 \in DOMAIN up /\ Tail(up)[i] = up[i + 1]
        /\ \A i \in DOMAIN up : i \in Nat /\ i >= 1 /\ (i # 1 => i - 1 \in DOMAIN Tail(up) /\ Tail(up)[i - 1] = up[i])
      BY <1>1, <2>1, OneLess
  <2> QED BY <2>1, <2>2 DEF Moved
<1>3. up' = up => Moved(0)
  <2>1. \A i \in DOMAIN up : i \in Nat /\ i # 0 /\ i + 0 = i /\ i - 0 = i
      BY <1>1
  <2> QED BY <1>1, <2>1 DEF Moved
<1> QED BY <1>2, <1>3

\* The requests that are still on the line are the ones that were.
LEMMA MovedView ==
  ASSUME DashInv, NEW d \in {0, 1}, Moved(d)
  PROVE  /\ (Alike' <=> Alike) /\ (Alike => ~bare /\ open)
         /\ \A i \in DOMAIN up' : (Asks(i)' <=> Asks(i + d)) /\ (Generates(i)' <=> Generates(i + d))
                                  /\ (Mine(up[i])' <=> Mine(up[i + d]))
<1>1. UNCHANGED <<open, pageNo, hkey, authState, pendingGet, pendingGen, filled, meddled, bare, losses>>
    BY DEF Moved, pageState
<1>2. (Alike' <=> Alike) /\ (Alike => ~bare /\ open)
    BY <1>1, Zenon DEF Alike
<1>3. \A i \in DOMAIN up' : (Asks(i)' <=> Asks(i + d)) /\ (Generates(i)' <=> Generates(i + d))
                            /\ (Mine(up[i])' <=> Mine(up[i + d]))
    BY <1>1 DEF Moved, Asks, Generates, Is, Mine
<1> QED BY <1>2, <1>3

\* What is left on the line is still in order, and the page's slots are as they were.
LEMMA MovedKeepsUp ==
  ASSUME DashInv, NEW d \in {0, 1}, Moved(d)
  PROVE  /\ UpKeyed' /\ UpEnds' /\ (dkey' = dkey => UpStarts')
         /\ SlotHeld' /\ FilledIsAsked' /\ AskedByPage'
<1>1. UNCHANGED <<open, pageNo, hkey, authState, pendingGet, pendingGen, filled, meddled, bare, losses>>
    BY DEF Moved, pageState
<1>2. UpKeyed'
    BY <1>1 DEF DashInv, UpLines, UpKeyed, Moved
<1>3. UpEnds'
    BY <1>1 DEF DashInv, UpLines, UpEnds, Moved, Is
<1>4. dkey' = dkey => UpStarts'
    BY <1>1 DEF DashInv, UpLines, UpStarts, Moved, Is
<1>5. SlotHeld' /\ FilledIsAsked'
    BY <1>1, Zenon DEF DashInv, SlotHeld, FilledIsAsked
<1>6. AskedByPage'
  <2>1. \A i \in DOMAIN up' : i + d \in DOMAIN up /\ up'[i] = up[i + d]
      BY DEF Moved
  <2> QED BY <2>1, MovedView DEF DashInv, AskedByPage
<1> QED BY <1>2, <1>3, <1>4, <1>5, <1>6

\* The new line to the page, and those before it.
LEMMA ToldLine ==
  ASSUME DashInv, NEW K \in LineKeys, NEW ev \in Replies, down' = Append(down, [key |-> K, body |-> ev])
  PROVE  /\ down' \in Seq(Answer)
         /\ \E n \in DOMAIN down' :
              /\ n \in Nat /\ down'[n].key = K /\ down'[n].body = ev
              /\ \A i \in DOMAIN down : i \in DOMAIN down' /\ down'[i] = down[i] /\ i < n /\ i \in Nat
              /\ \A i \in DOMAIN down' : i \in DOMAIN down \/ i = n
<1> DEFINE line == [key |-> K, body |-> ev]
<1>1. line \in Answer /\ line.key = K /\ line.body = ev
    BY DEF Answer
<1>2. down \in Seq(Answer) /\ down' = Append(down, line)
    BY DEF DashInv, DashTypes
<1> HIDE DEF line
<1> QED BY <1>1, <1>2, OneMore

\* processHandshake: the key is of a page that the device has not met, and newer than all others.
LEMMA HandshakeKeeps ==
  ASSUME DashInv, up # <<>>, up' = Tail(up), Is(up[1], "DH_INIT"), Handshake(up[1].body), UNCHANGED pageState
  PROVE  DashInv'
<1> DEFINE p  == up[1].body.page
           ev == [ev |-> "DH_ACK", pair |-> pairs + 1]
<1>1. /\ dkey' = <<p, pairs + 1>> /\ pairs' = pairs + 1 /\ active' = TRUE /\ session' = FALSE /\ wait' = "ready"
      /\ down' = Append(down, [key |-> Plain, body |-> ev])
      /\ UNCHANGED <<recs, waitRec, waitKey, unanswered>>
      /\ UNCHANGED <<open, pageNo, hkey, authState, pendingGet, pendingGen, filled, meddled, bare, losses>>
    BY DEF Handshake, pageState
<1>2. Moved(1) /\ 1 \in DOMAIN up
    BY HasMoved
<1>3. /\ pageNo \in Nat /\ pairs \in Nat /\ dkey \in LineKeys /\ hkey \in LineKeys /\ hkey[2] \in Nat /\ dkey[1] \in Nat
      /\ waitKey \in LineKeys /\ waitKey[1] \in Nat /\ waitKey[1] <= dkey[1] /\ hkey[2] <= pairs
      /\ open => pageNo # 0
    BY KeyIs DEF DashInv, DashTypes, KeysNumbered
<1>4. p \in (dkey[1] + 1)..pageNo
    BY <1>2 DEF DashInv, UpLines, UpStarts
<1>5. /\ dkey' \in LineKeys /\ dkey'[1] = p /\ dkey'[2] = pairs + 1
      /\ p \in 1..pageNo /\ p > dkey[1] /\ pairs + 1 \in Nat
      /\ pairs + 1 # 0 /\ dkey' # Plain
  <2> HIDE DEF p
  <2>1. p \in Nat /\ p \in 1..pageNo /\ p > dkey[1] /\ pairs + 1 \in Nat /\ pairs + 1 # 0
      BY <1>3, <1>4
  <2> QED BY <1>1, <2>1 DEF LineKeys, Plain
<1>6. ev \in Replies /\ ev.ev = "DH_ACK" /\ ev.pair = pairs + 1
    BY <1>5 DEF Replies
<1> HIDE DEF p, ev
<1>7. /\ down' \in Seq(Answer)
      /\ \E n \in DOMAIN down' :
           /\ n \in Nat /\ down'[n].key = Plain /\ down'[n].body = ev
           /\ \A i \in DOMAIN down : i \in DOMAIN down' /\ down'[i] = down[i] /\ i < n /\ i \in Nat
           /\ \A i \in DOMAIN down' : i \in DOMAIN down \/ i = n
    BY <1>1, <1>6, KeyIs, ToldLine
<1>8. PICK n \in DOMAIN down' :
           /\ n \in Nat /\ down'[n].key = Plain /\ down'[n].body = ev
           /\ \A i \in DOMAIN down : i \in DOMAIN down' /\ down'[i] = down[i] /\ i < n /\ i \in Nat
           /\ \A i \in DOMAIN down' : i \in DOMAIN down \/ i = n
    BY <1>7
<1>9. \A i \in DOMAIN down : /\ down[i].key \in LineKeys /\ down[i].key[1] \in Nat /\ down[i].key[1] <= dkey[1]
                             /\ down[i].key # dkey'
  <2>1. \A i \in DOMAIN down : down[i] \in Answer
      BY DEF DashInv, DashTypes
  <2>2. \A i \in DOMAIN down : down[i].key \in LineKeys
      BY <2>1 DEF Answer
  <2> QED BY <1>3, <1>5, <2>2, KeyIs DEF DashInv, DownLines
<1>10. DashTypes' /\ DashFlags'
  <2>1. up' \in Seq(Lines)
      BY <1>2 DEF Moved
  <2>2. pairs' \in Nat /\ dkey' \in LineKeys /\ wait' \in {"ready", "get", "update"}
      BY <1>1, <1>5
  <2>3. DashTypes'
      BY <1>1, <1>7, <2>1, <2>2, Zenon DEF DashInv, DashTypes
  <2>4. DashFlags'
      BY <1>1, Zenon DEF DashInv, DashFlags
  <2> QED BY <2>3, <2>4
<1>11. KeysNumbered'
    BY <1>1, <1>3, <1>5 DEF DashInv, KeysNumbered
<1>12. UpLines'
  <2>1. UpStarts'
    <3>1. \A i \in DOMAIN up' : i \in Nat /\ i + 1 \in DOMAIN up /\ up'[i] = up[i + 1] /\ i + 1 > 1
      <4>1. up' \in Seq(Lines)
          BY <1>2 DEF Moved
      <4> QED BY <1>2, <4>1 DEF Moved
    <3>2. SUFFICES ASSUME NEW i \in DOMAIN up', up[i + 1].body.cmd = "DH_INIT"
                   PROVE  /\ up[i + 1].key = Plain /\ up[i + 1].body.page \in (p + 1)..pageNo
                          /\ \A j \in DOMAIN up' : j > i /\ up[j + 1].body.cmd = "DH_INIT" =>
                               up[j + 1].body.page > up[i + 1].body.page
        BY <1>1, <1>5, <3>1 DEF UpStarts, Is
    <3>3. up[i + 1].key = Plain /\ up[i + 1].body.page \in (dkey[1] + 1)..pageNo /\ up[i + 1].body.page > p
        BY <1>2, <3>1, <3>2 DEF DashInv, UpLines, UpStarts, Is, p
    <3>4. \A j \in DOMAIN up' : j > i /\ up[j + 1].body.cmd = "DH_INIT" =>
            up[j + 1].body.page > up[i + 1].body.page
        BY <3>1, <3>2 DEF DashInv, UpLines, UpStarts, Is
    <3> QED BY <1>3, <1>5, <3>3, <3>4
  <2> QED BY <1>2, <2>1, MovedKeepsUp DEF UpLines
<1>13. DownLines'
  <2>1. SUFFICES ASSUME NEW i \in DOMAIN down'
                 PROVE  /\ down'[i].key[1] <= dkey'[1]
                        /\ down'[i].key[1] = dkey'[1] /\ down'[i].key # Plain => down'[i].key = dkey'
                        /\ down'[i].body.ev = "DH_ACK" =>
                             /\ down'[i].key = Plain /\ down'[i].body.pair \in (hkey[2] + 1)..pairs'
                             /\ \A j \in DOMAIN down' : j > i /\ down'[j].body.ev = "DH_ACK" =>
                                  down'[j].body.pair > down'[i].body.pair
      BY <1>1 DEF DownLines, Says
  <2>2. CASE i = n
      BY <1>1, <1>3, <1>5, <1>6, <1>8, <2>2, KeyIs
  <2>3. CASE i \in DOMAIN down
    <3>1. down'[i].body.ev = "DH_ACK" =>
            /\ down[i].key = Plain /\ down[i].body.pair \in (hkey[2] + 1)..pairs
            /\ \A j \in DOMAIN down : j > i /\ down[j].body.ev = "DH_ACK" => down[j].body.pair > down[i].body.pair
        BY <1>8, <2>3 DEF DashInv, DownLines, Says
    <3>2. down'[i] = down[i] /\ i < n
        BY <1>8, <2>3
    <3>3. /\ down'[i].key[1] <= dkey'[1]
          /\ down'[i].key[1] = dkey'[1] /\ down'[i].key # Plain => down'[i].key = dkey'
        BY <1>3, <1>5, <1>9, <2>3, <3>2
    <3>4. ASSUME down'[i].body.ev = "DH_ACK" PROVE down'[i].body.pair \in (hkey[2] + 1)..pairs'
        BY <1>1, <1>3, <3>1, <3>2, <3>4
    <3>5. ASSUME down'[i].body.ev = "DH_ACK", NEW j \in DOMAIN down', j > i, down'[j].body.ev = "DH_ACK"
          PROVE  down'[j].body.pair > down'[i].body.pair
      <4>1. CASE j = n
        <5>1. down'[j].body.pair = pairs + 1
            BY <1>6, <1>8, <4>1
        <5> QED BY <1>3, <3>1, <3>2, <3>5, <5>1
      <4>2. CASE j \in DOMAIN down
          BY <1>8, <3>1, <3>2, <3>5, <4>2
      <4> QED BY <1>8, <4>1, <4>2
    <3> QED BY <3>1, <3>2, <3>3, <3>4, <3>5
  <2> QED BY <1>8, <2>2, <2>3
<1>14. Disconnected' /\ WaitIsMine'
    BY <1>1 DEF Disconnected, WaitIsMine
<1>15. ClearText'
  <2>1. ~bare => \A i \in DOMAIN up' : up'[i].key = Plain => up'[i].body.cmd \in {"DH_INIT", "DISCONNECT"}
      BY <1>2 DEF DashInv, ClearText, Moved
  <2>2. ~bare => \A i \in DOMAIN down' : down'[i].key = Plain => down'[i].body.ev \in {"DH_ACK", "DISCONNECTED"}
      BY <1>6, <1>8 DEF DashInv, ClearText
  <2> QED BY <1>1, <2>1, <2>2 DEF DashInv, ClearText
<1>16. open => dkey[1] # pageNo
    BY <1>3, <1>5
<1>17. Acked'
  <2>1. SUFFICES ASSUME losses = 0, open PROVE Acked'
      BY <1>1 DEF Acked
  <2>2. PICK i \in DOMAIN up : Is(up[i], "DH_INIT") /\ up[i].body.page = pageNo
      BY <1>16, <2>1 DEF DashInv, Acked
  <2>3. CASE i = 1
      BY <1>1, <1>5, <1>6, <1>8, <2>2, <2>3 DEF Acked, Says, p
  <2>4. CASE i # 1
    <3>1. i - 1 \in DOMAIN up' /\ up'[i - 1] = up[i]
        BY <1>2, <2>4 DEF Moved
    <3> QED BY <1>1, <2>2, <3>1, Zenon DEF Acked, Is
  <2> QED BY <2>3, <2>4
<1>18. NotHeardYet'
  <2>1. \A i \in DOMAIN down' : down'[i].key # dkey'
      BY <1>5, <1>8, <1>9
  <2>2. open /\ dkey'[1] = pageNo => \A i \in DOMAIN up' : up'[i].key # dkey'
      BY <1>2, <1>3, <1>5 DEF DashInv, UpLines, UpKeyed, Moved
  <2> QED BY <1>1, <2>1, <2>2 DEF NotHeardYet
<1>19. ~bare /\ open => authState = "UNKNOWN" /\ pendingGet = NoSlot /\ pendingGen = NoSlot
    BY <1>16, Zenon DEF DashInv, StillUnknown, SlotHeld
<1>20. StillUnknown'
    BY <1>1, <1>19, Zenon DEF StillUnknown
<1>21. SlotHeld' /\ FilledIsAsked' /\ AskedByPage'
    BY <1>2, MovedKeepsUp
<1>22. (Alike' <=> Alike) /\ (Alike => ~bare /\ open) /\ ~Waits'
       /\ (\A i \in DOMAIN up' : (Asks(i)' <=> Asks(i + 1)) /\ (Generates(i)' <=> Generates(i + 1)))
    BY <1>1, <1>2, MovedView DEF Waits
<1>23. Alike => /\ \A i \in DOMAIN up : ~Asks(i) /\ ~Generates(i)
                /\ \A i \in DOMAIN down' : ~Answers(i)' /\ ~Generated(i)'
  <2>1. Alike => /\ \A i \in DOMAIN up : ~Asks(i) /\ ~Generates(i)
                 /\ \A i \in DOMAIN down : ~Answers(i) /\ ~Generated(i)
      BY <1>19, <1>22 DEF DashInv, OneFetch, OneGenerate
  <2>2. \A i \in DOMAIN down' : Answers(i)' \/ Generated(i)' => i \in DOMAIN down /\ (Answers(i) \/ Generated(i))
      BY <1>1, <1>6, <1>8 DEF Answers, Generated, Says, Mine
  <2> QED BY <2>1, <2>2
<1>24. OneFetch'
  <2>1. Alike => \A i \in DOMAIN up' : Mine(up[i])' => up'[i].body.cmd \notin {"UPDATE_PASS", "DELETE_PASS"}
    <3>1. \A i \in DOMAIN up' : i + 1 \in DOMAIN up /\ up'[i] = up[i + 1]
        BY <1>2 DEF Moved
    <3> QED BY <1>1, <3>1 DEF DashInv, OneFetch, Mine
  <2>2. Alike => \A i \in DOMAIN up' : ~Asks(i)'
    <3>1. \A i \in DOMAIN up' : i + 1 \in DOMAIN up
        BY <1>2 DEF Moved
    <3> QED BY <1>22, <1>23, <3>1
  <2> QED BY <1>22, <1>23, <2>1, <2>2 DEF OneFetch
<1>25. OneGenerate'
  <2>1. \A i \in DOMAIN up' : i + 1 \in DOMAIN up
      BY <1>2 DEF Moved
  <2> QED BY <1>22, <1>23, <2>1 DEF OneGenerate
<1>26. UnderWay'
    BY <1>1, <1>19, <1>22 DEF UnderWay
<1>27. SecretsSealed'
    BY <1>1, <1>6, <1>8 DEF DashInv, SecretsSealed
<1> QED BY <1>10, <1>11, <1>12, <1>13, <1>14, <1>15, <1>17, <1>18, <1>20, <1>21, <1>24, <1>25, <1>26, <1>27 DEF DashInv

\* A line that the device ignores: the page's handshake, and the requests under its key, are not it.
LEMMA IgnoredKeeps ==
  ASSUME DashInv, up # <<>>, up' = Tail(up), ~Is(up[1], "DH_INIT"),
         IF up[1].key = Plain THEN active ELSE up[1].key # dkey,
         UNCHANGED deviceVars, Silent, UNCHANGED pageState
  PROVE  DashInv'
<1>1. /\ UNCHANGED <<recs, dkey, active, session, wait, waitRec, waitKey, pairs>>
      /\ UNCHANGED <<open, pageNo, hkey, authState, pendingGet, pendingGen, filled, meddled, bare, losses>>
      /\ UNCHANGED <<down, unanswered>>
    BY DEF deviceVars, pageState, Silent
<1>2. Moved(1) /\ 1 \in DOMAIN up
    BY HasMoved
<1>3. UpLess
    BY <1>1 DEF UpLess, deviceVars, DashInv, DashTypes
<1>4. up[1].key # dkey
    BY KeyIs DEF DashInv, KeysNumbered
<1>5. Acked'
  <2>1. SUFFICES ASSUME losses = 0, open PROVE Acked'
      BY <1>1 DEF Acked
  <2>2. CASE \E i \in DOMAIN up : Is(up[i], "DH_INIT") /\ up[i].body.page = pageNo
    <3>1. PICK i \in DOMAIN up : Is(up[i], "DH_INIT") /\ up[i].body.page = pageNo
        BY <2>2
    <3>2. i - 1 \in DOMAIN up' /\ up'[i - 1] = up[i]
        BY <1>2, <3>1 DEF Moved
    <3> QED BY <1>1, <3>1, <3>2, Zenon DEF Acked, Is
  <2> QED BY <1>1, <2>1, <2>2, Zenon DEF DashInv, Acked, Is, Says
<1>6. UnderWay'
  <2>1. SUFFICES ASSUME Alike, losses = 0, unanswered = {} PROVE UnderWay'
      BY <1>1, <1>2, MovedView DEF UnderWay
  <2>2. \A i \in DOMAIN up : i # 1 => /\ i - 1 \in DOMAIN up' /\ up'[i - 1] = up[i]
                                      /\ (Asks(i) => Asks(i - 1)') /\ (Generates(i) => Generates(i - 1)')
      BY <1>1, <1>2 DEF Moved, Asks, Generates, Is, Mine
  <2>3. (Waits' <=> Waits) /\ \A i \in DOMAIN down : (Answers(i)' <=> Answers(i)) /\ (Generated(i)' <=> Generated(i))
      BY <1>1, Zenon DEF Waits, Answers, Generated, Says, Mine
  <2>4. ASSUME pendingGet # NoSlot
        PROVE (\E i \in DOMAIN up' : Asks(i)' /\ up'[i].key = dkey) \/ Waits' \/ (\E i \in DOMAIN down' : Answers(i)')
    <3>1. (\E i \in DOMAIN up : Asks(i) /\ up[i].key = dkey) \/ Waits \/ (\E i \in DOMAIN down : Answers(i))
        BY <2>1, <2>4, Zenon DEF DashInv, UnderWay
    <3> QED BY <1>1, <1>4, <2>2, <2>3, <3>1
  <2>5. ASSUME pendingGen # NoSlot
        PROVE \/ \E i \in DOMAIN up' : Generates(i)' /\ up'[i].key = dkey /\ up'[i].body.autogen
              \/ \E i \in DOMAIN down' : Generated(i)' /\ down'[i].body.autogen
    <3>1. \/ \E i \in DOMAIN up : Generates(i) /\ up[i].key = dkey /\ up[i].body.autogen
          \/ \E i \in DOMAIN down : Generated(i) /\ down[i].body.autogen
        BY <2>1, <2>5, Zenon DEF DashInv, UnderWay
    <3> QED BY <1>1, <1>4, <2>2, <2>3, <3>1
  <2> QED BY <1>1, <2>4, <2>5, Zenon DEF UnderWay
<1> QED BY <1>3, <1>5, <1>6, UpGone DEF DashInv

\* A line that the device opens is under its key, with encryption on; or in the clear, with it off.
\* From the page that is open it is no DISCONNECT, and after it the device is no longer fresh.
LEMMA Opened ==
  ASSUME DashInv, Moved(1), 1 \in DOMAIN up, ~Is(up[1], "DH_INIT"),
         IF up[1].key = Plain THEN ~active ELSE up[1].key = dkey, UNCHANGED dkey
  PROVE  /\ up[1].key = IF active THEN dkey ELSE Plain
         /\ up[1].key \in LineKeys /\ up[1].body \in Commands
         /\ active => dkey # Plain /\ up[1].key # Plain
         /\ ~bare /\ up[1].key = Plain => Is(up[1], "DISCONNECT")
         /\ open /\ dkey[1] = pageNo => active /\ ~Is(up[1], "DISCONNECT") /\ ~Fresh'
         /\ open /\ dkey[1] = pageNo /\ Is(up[1], "RESTART_SYSTEM") => wait = "ready"
         /\ Mine(up[1]) /\ open => active /\ dkey[1] = pageNo
<1>1. UNCHANGED <<open, pageNo, hkey, bare>>
    BY DEF Moved, pageState
<1>2. up[1].key \in LineKeys /\ up[1].body \in Commands
  <2>1. up[1] \in Lines
      BY DEF DashInv, DashTypes
  <2> QED BY <2>1 DEF Lines
<1>3. active => dkey # Plain
    BY KeyIs DEF DashInv, KeysNumbered
<1>4. up[1].key = (IF active THEN dkey ELSE Plain) /\ (active => up[1].key # Plain)
  <2>1. CASE up[1].key = Plain
      BY <1>3, <2>1, Zenon
  <2>2. CASE up[1].key # Plain
    <3>1. active
        BY <2>2, KeyIs DEF DashInv, Disconnected
    <3> QED BY <2>2, <3>1
  <2> QED BY <2>1, <2>2
<1>5. ~bare /\ up[1].key = Plain => Is(up[1], "DISCONNECT")
    BY DEF DashInv, ClearText, Is
<1>6. open /\ dkey[1] = pageNo => active
  <2>1. SUFFICES ASSUME open, dkey[1] = pageNo, ~active PROVE FALSE
      OBVIOUS
  <2>2. dkey # Plain
      BY <2>1, KeyIs DEF DashInv, KeysNumbered
  <2> QED BY <2>1, <2>2 DEF DashInv, Disconnected
<1>7. open /\ dkey[1] = pageNo => ~Is(up[1], "DISCONNECT")
    BY <1>3, <1>4, <1>6 DEF DashInv, UpLines, UpEnds
<1>8. open /\ dkey[1] = pageNo => ~Fresh' /\ (Is(up[1], "RESTART_SYSTEM") => wait = "ready")
  <2>1. SUFFICES ASSUME open, dkey[1] = pageNo
                 PROVE  ~Fresh' /\ (Is(up[1], "RESTART_SYSTEM") => wait = "ready")
      OBVIOUS
  <2>2. up[1].key = dkey /\ dkey # Plain
      BY <1>3, <1>4, <1>6, <2>1
  <2>3. hkey = dkey
    <3>1. up[1].key[2] <= hkey[2]
        BY <2>1, <2>2 DEF DashInv, UpLines, UpKeyed
    <3>2. dkey[2] = pairs /\ pairs # 0 /\ pairs \in Nat /\ dkey \in LineKeys /\ hkey \in LineKeys
        BY <2>2 DEF DashInv, DashTypes, KeysNumbered
    <3>3. hkey # Plain
        BY <2>2, <3>1, <3>2, KeyIs
    <3>4. hkey[1] = pageNo /\ hkey[2] \in 1..pairs
        BY <3>3 DEF DashInv, KeysNumbered
    <3> QED BY <2>1, <2>2, <3>1, <3>2, <3>4, KeyIs
  <2>4. ASSUME NEW i \in DOMAIN up', up'[i].body.cmd = "RESTART_SYSTEM", up'[i].key = dkey PROVE FALSE
    <3>1. i \in Nat /\ i + 1 \in DOMAIN up /\ up'[i] = up[i + 1] /\ 1 < i + 1
      <4>1. up' \in Seq(Lines)
          BY DEF Moved
      <4> QED BY <4>1 DEF Moved
    <3>2. Is(up[i + 1], "RESTART_SYSTEM") /\ up[i + 1].key = dkey
        BY <2>4, <3>1 DEF Is
    <3>3. Fresh
        BY <3>1, <3>2, Zenon DEF Fresh
    <3>4. up[1].key # dkey
        BY <2>1, <3>1, <3>2, <3>3 DEF DashInv, NotHeardYet
    <3> QED BY <2>2, <3>4
  <2>5. ~Fresh'
      BY <1>1, <2>3, <2>4 DEF Fresh, Is
  <2>6. Is(up[1], "RESTART_SYSTEM") => wait = "ready"
      BY <2>1, <2>2, Zenon DEF DashInv, NotHeardYet, Fresh
  <2> QED BY <2>5, <2>6
<1>9. Mine(up[1]) /\ open => active /\ dkey[1] = pageNo
  <2>1. SUFFICES ASSUME up[1].key[1] = pageNo, open PROVE active /\ dkey[1] = pageNo
      BY DEF Mine
  <2>2. up[1].key # Plain
      BY <2>1, KeyIs DEF DashInv, KeysNumbered
  <2> QED BY <1>4, <2>1, <2>2
<1> QED BY <1>2, <1>3, <1>4, <1>5, <1>6, <1>7, <1>8, <1>9

\* The device says something under its key, or in the clear, and its keys stay.
Replied(d, K, ev) ==
  /\ Moved(d) /\ down' = Append(down, [key |-> K, body |-> ev])
  /\ K \in {Plain, dkey} /\ ev \in Replies /\ ev.ev # "DH_ACK"
  /\ d = 1 => 1 \in DOMAIN up /\ ~Is(up[1], "DH_INIT")
  /\ UNCHANGED <<dkey, pairs>> /\ unanswered \subseteq unanswered'
  /\ recs' \subseteq Recs /\ wait' \in {"ready", "get", "update"} /\ waitKey' \in {waitKey, Plain, dkey}
  /\ session' \in BOOLEAN /\ active' \in BOOLEAN /\ (active' => active)

\* What it says is sealed unless the page uses no key, and it is no longer fresh.
LEMMA ReplyKeepsLine ==
  ASSUME DashInv, NEW d \in {0, 1}, NEW K, NEW ev, Replied(d, K, ev),
         K = Plain => bare \/ ev.ev = "DISCONNECTED",
         ~bare /\ ~active' => ~session' /\ wait' = "ready",
         open /\ dkey[1] = pageNo => ~Fresh',
         ev.ev \in {"TRANSMITTED", "SAVED"} => K \in {ev.asked, Plain}
  PROVE  /\ DashTypes' /\ DashFlags' /\ KeysNumbered' /\ UpLines' /\ DownLines' /\ ClearText' /\ Acked'
         /\ NotHeardYet' /\ StillUnknown' /\ SecretsSealed' /\ SlotHeld' /\ FilledIsAsked' /\ AskedByPage'
<1>1. /\ UNCHANGED <<dkey, pairs>> /\ (active' => active) /\ Moved(d)
      /\ UNCHANGED <<open, pageNo, hkey, authState, pendingGet, pendingGen, filled, meddled, bare, losses>>
      /\ ev \in Replies /\ ev.ev # "DH_ACK"
    BY DEF Replied, Moved, pageState
<1>2. /\ K \in LineKeys /\ K[1] <= dkey[1] /\ (K = Plain \/ K = dkey) /\ dkey[1] \in Nat
      /\ waitKey' \in LineKeys /\ waitKey'[1] <= dkey[1] /\ waitKey'[1] \in Nat
  <2>1. dkey \in LineKeys /\ waitKey \in LineKeys /\ dkey[1] \in Nat /\ waitKey[1] <= dkey[1]
      BY KeyIs DEF DashInv, DashTypes, KeysNumbered
  <2>2. K \in {Plain, dkey} /\ waitKey' \in {waitKey, Plain, dkey}
      BY DEF Replied
  <2> QED BY <2>1, <2>2, KeyIs
<1>3. /\ down' \in Seq(Answer)
      /\ \E n \in DOMAIN down' :
           /\ n \in Nat /\ down'[n].key = K /\ down'[n].body = ev
           /\ \A i \in DOMAIN down : i \in DOMAIN down' /\ down'[i] = down[i] /\ i < n /\ i \in Nat
           /\ \A i \in DOMAIN down' : i \in DOMAIN down \/ i = n
    BY <1>1, <1>2, ToldLine DEF Replied
<1>4. PICK n \in DOMAIN down' :
           /\ n \in Nat /\ down'[n].key = K /\ down'[n].body = ev
           /\ \A i \in DOMAIN down : i \in DOMAIN down' /\ down'[i] = down[i] /\ i < n /\ i \in Nat
           /\ \A i \in DOMAIN down' : i \in DOMAIN down \/ i = n
    BY <1>3
<1>5. DashTypes' /\ DashFlags'
  <2>1. up' \in Seq(Lines)
      BY <1>1 DEF Moved
  <2>2. recs' \subseteq Recs /\ wait' \in {"ready", "get", "update"} /\ session' \in BOOLEAN /\ active' \in BOOLEAN
      BY DEF Replied
  <2>3. DashTypes'
      BY <1>1, <1>2, <1>3, <2>1, <2>2, Zenon DEF DashInv, DashTypes
  <2>4. DashFlags'
      BY <1>1, <2>2, Zenon DEF DashInv, DashFlags
  <2> QED BY <2>3, <2>4
<1>6. KeysNumbered'
    BY <1>1, <1>2 DEF DashInv, KeysNumbered
<1>7. UpLines' /\ SlotHeld' /\ FilledIsAsked' /\ AskedByPage'
    BY <1>1, MovedKeepsUp DEF UpLines
<1>8. DownLines'
  <2>1. SUFFICES ASSUME NEW i \in DOMAIN down'
                 PROVE  /\ down'[i].key[1] <= dkey[1]
                        /\ down'[i].key[1] = dkey[1] /\ down'[i].key # Plain => down'[i].key = dkey
                        /\ down'[i].body.ev = "DH_ACK" =>
                             /\ down'[i].key = Plain /\ down'[i].body.pair \in (hkey[2] + 1)..pairs
                             /\ \A j \in DOMAIN down' : j > i /\ down'[j].body.ev = "DH_ACK" =>
                                  down'[j].body.pair > down'[i].body.pair
      BY <1>1 DEF DownLines, Says
  <2>2. CASE i = n
      BY <1>1, <1>2, <1>4, <2>2
  <2>3. CASE i \in DOMAIN down
      BY <1>1, <1>4, <2>3 DEF DashInv, DownLines, Says
  <2> QED BY <1>4, <2>2, <2>3
<1>9. ClearText'
  <2>1. ~bare => \A i \in DOMAIN up' : up'[i].key = Plain => up'[i].body.cmd \in {"DH_INIT", "DISCONNECT"}
      BY <1>1 DEF DashInv, ClearText, Moved
  <2>2. ~bare => \A i \in DOMAIN down' : down'[i].key = Plain => down'[i].body.ev \in {"DH_ACK", "DISCONNECTED"}
      BY <1>4 DEF DashInv, ClearText
  <2>3. ~bare /\ hkey = Plain => authState = "UNKNOWN"
      BY DEF DashInv, ClearText
  <2> QED BY <1>1, <2>1, <2>2, <2>3, Zenon DEF ClearText
<1>10. Acked'
  <2>1. SUFFICES ASSUME losses = 0, open PROVE Acked'
      BY <1>1 DEF Acked
  <2>2. CASE \E i \in DOMAIN up : Is(up[i], "DH_INIT") /\ up[i].body.page = pageNo
    <3>1. PICK i \in DOMAIN up : Is(up[i], "DH_INIT") /\ up[i].body.page = pageNo
        BY <2>2
    <3>2. i # d
      <4>1. CASE d = 1
          BY <3>1, <4>1 DEF Replied
      <4>2. CASE d = 0
        <5>1. 0 \notin DOMAIN up
          <6>1. up \in Seq(Lines)
              BY DEF DashInv, DashTypes
          <6> QED BY <6>1
        <5> QED BY <4>2, <5>1
      <4> QED BY <4>1, <4>2
    <3>3. i - d \in DOMAIN up' /\ up'[i - d] = up[i]
        BY <1>1, <3>1, <3>2 DEF Moved
    <3> QED BY <1>1, <3>1, <3>3, Zenon DEF Acked, Is
  <2>3. CASE dkey[1] = pageNo /\ \E i \in DOMAIN down : Says(down[i], "DH_ACK") /\ down[i].body.pair = dkey[2]
      BY <1>1, <1>4, <2>3, Zenon DEF Acked, Says
  <2>4. CASE dkey[1] = pageNo /\ hkey = dkey /\ \A i \in DOMAIN down : ~Says(down[i], "DH_ACK")
      BY <1>1, <1>4, <2>4, Zenon DEF Acked, Says
  <2> QED BY <2>1, <2>2, <2>3, <2>4, Zenon DEF DashInv, Acked
<1>11. NotHeardYet' /\ StillUnknown'
    BY <1>1, Zenon DEF DashInv, NotHeardYet, StillUnknown
<1>12. SecretsSealed'
    BY <1>1, <1>4 DEF DashInv, SecretsSealed
<1> QED BY <1>5, <1>6, <1>7, <1>8, <1>9, <1>10, <1>11, <1>12

\* A tab's request becomes a wait for the finger or an answer, and the wait an answer.
Answering(K, ev)  == (ev.ev = "TRANSMITTED" \/ ev.ev = "NOT_FOUND") /\ K[1] = pageNo
Generating(K, ev) == ev.ev = "SAVED" /\ K[1] = pageNo
Passes(d, K, ev) ==
  /\ Waits' => /\ ~Answering(K, ev)
               /\ \/ Waits /\ wait' = wait /\ waitRec' = waitRec
                  \/ d = 1 /\ Asks(1) /\ wait' = "get" /\ waitRec' = up[1].body.rec
  /\ Answering(K, ev) => \/ Waits /\ (ev.ev = "TRANSMITTED" => ev.rec = waitRec)
                         \/ d = 1 /\ Asks(1) /\ ev.ev = "NOT_FOUND"
  /\ Generating(K, ev) => d = 1 /\ Generates(1) /\ ev.rec = up[1].body.rec
  /\ unanswered' = {} =>
       /\ Waits \/ (d = 1 /\ Asks(1)) => Waits' \/ Answering(K, ev)
       /\ d = 1 /\ Generates(1) /\ up[1].body.autogen => Generating(K, ev) /\ ev.autogen

\* Then the slots still say whose request is under way, and that it is.
LEMMA ReplyKeepsSlots ==
  ASSUME DashInv, NEW d \in {0, 1}, NEW K \in LineKeys, NEW ev, Replied(d, K, ev), Alike => Passes(d, K, ev)
  PROVE  OneFetch' /\ OneGenerate' /\ UnderWay'
<1>1. /\ UNCHANGED <<dkey, pairs>> /\ Moved(d) /\ unanswered \subseteq unanswered' /\ (d = 1 => 1 \in DOMAIN up)
      /\ UNCHANGED <<open, pageNo, hkey, authState, pendingGet, pendingGen, filled, meddled, bare, losses>>
    BY DEF Replied, Moved, pageState
<1>2. /\ down' \in Seq(Answer)
      /\ \E n \in DOMAIN down' :
           /\ n \in Nat /\ down'[n].key = K /\ down'[n].body = ev
           /\ \A i \in DOMAIN down : i \in DOMAIN down' /\ down'[i] = down[i] /\ i < n /\ i \in Nat
           /\ \A i \in DOMAIN down' : i \in DOMAIN down \/ i = n
    BY ToldLine DEF Replied
<1>3. PICK n \in DOMAIN down' :
           /\ n \in Nat /\ down'[n].key = K /\ down'[n].body = ev
           /\ \A i \in DOMAIN down : i \in DOMAIN down' /\ down'[i] = down[i] /\ i < n /\ i \in Nat
           /\ \A i \in DOMAIN down' : i \in DOMAIN down \/ i = n
    BY <1>2
<1>4. /\ (Alike' <=> Alike)
      /\ \A i \in DOMAIN up' : /\ i \in Nat /\ i + d \in DOMAIN up /\ up'[i] = up[i + d] /\ (d = 1 => i + d # 1)
                               /\ (Asks(i)' <=> Asks(i + d)) /\ (Generates(i)' <=> Generates(i + d))
                               /\ (Mine(up[i])' <=> Mine(up[i + d]))
      /\ \A i \in DOMAIN up : i \in Nat /\ (i # d => i - d \in DOMAIN up' /\ up'[i - d] = up[i] /\ (i - d) + d = i)
  <2>1. up' \in Seq(Lines)
      BY <1>1 DEF Moved
  <2>2. \A i \in DOMAIN up' : i \in Nat /\ i + d \in DOMAIN up /\ up'[i] = up[i + d] /\ (d = 1 => i + d # 1)
      BY <1>1, <2>1 DEF Moved
  <2>3. \A i \in DOMAIN up : i \in Nat /\ (i # d => i - d \in DOMAIN up' /\ up'[i - d] = up[i] /\ (i - d) + d = i)
      BY <1>1 DEF Moved
  <2> QED BY <1>1, <2>2, <2>3, MovedView
<1>5. /\ \A i \in DOMAIN down : (Answers(i)' <=> Answers(i)) /\ (Generated(i)' <=> Generated(i))
      /\ (Answers(n)' <=> Answering(K, ev)) /\ (Generated(n)' <=> Generating(K, ev))
    BY <1>1, <1>3 DEF Answers, Generated, Answering, Generating, Says, Mine
<1>6. OneFetch'
  <2>1. SUFFICES ASSUME Alike PROVE OneFetch'
      BY <1>4 DEF OneFetch
  <2>2. Passes(d, K, ev)
      BY <2>1
  <2>3. ASSUME NEW i \in DOMAIN up', Asks(i)'
        PROVE  /\ pendingGet # NoSlot /\ up'[i].body.rec = pendingGet.rec /\ ~Waits'
               /\ \A j \in DOMAIN up' : Asks(j)' => i = j
               /\ \A j \in DOMAIN down' : ~Answers(j)'
    <3>1. /\ pendingGet # NoSlot /\ up[i + d].body.rec = pendingGet.rec /\ ~Waits
          /\ \A j \in DOMAIN up : Asks(j) => i + d = j
          /\ \A j \in DOMAIN down : ~Answers(j)
        BY <1>4, <2>1, <2>3 DEF DashInv, OneFetch
    <3>2. ~(d = 1 /\ Asks(1))
        BY <1>1, <1>4, <3>1
    <3>3. ~Waits' /\ ~Answering(K, ev)
        BY <2>2, <3>1, <3>2 DEF Passes
    <3>4. \A j \in DOMAIN up' : Asks(j)' => i = j
        BY <1>4, <3>1
    <3>5. \A j \in DOMAIN down' : ~Answers(j)'
        BY <1>3, <1>5, <3>1, <3>3
    <3> QED BY <1>4, <3>1, <3>3, <3>4, <3>5
  <2>4. ASSUME Waits'
        PROVE  /\ wait' = "get" /\ pendingGet # NoSlot /\ waitRec' = pendingGet.rec
               /\ \A j \in DOMAIN down' : ~Answers(j)'
    <3>1. ~Answering(K, ev)
        BY <2>2, <2>4 DEF Passes
    <3>2. CASE Waits /\ wait' = wait /\ waitRec' = waitRec
        BY <1>3, <1>5, <2>1, <3>1, <3>2 DEF DashInv, OneFetch
    <3>3. CASE d = 1 /\ Asks(1) /\ wait' = "get" /\ waitRec' = up[1].body.rec
        BY <1>1, <1>3, <1>5, <2>1, <3>1, <3>3 DEF DashInv, OneFetch
    <3> QED BY <2>2, <2>4, <3>2, <3>3 DEF Passes
  <2>5. ASSUME NEW i \in DOMAIN down', Answers(i)'
        PROVE  /\ pendingGet # NoSlot /\ (down'[i].body.ev = "TRANSMITTED" => down'[i].body.rec = pendingGet.rec)
               /\ \A j \in DOMAIN down' : Answers(j)' => i = j
    <3>1. CASE Answering(K, ev)
      <4>1. pendingGet # NoSlot /\ \A j \in DOMAIN down : ~Answers(j)
          BY <1>1, <2>1, <2>2, <3>1 DEF Passes, DashInv, OneFetch
      <4>2. ev.ev = "TRANSMITTED" => ev.rec = pendingGet.rec
          BY <2>1, <2>2, <3>1 DEF Passes, DashInv, OneFetch
      <4> QED BY <1>3, <1>5, <2>5, <4>1, <4>2
    <3>2. CASE ~Answering(K, ev)
      <4>1. i \in DOMAIN down /\ Answers(i) /\ down'[i] = down[i]
          BY <1>3, <1>5, <2>5, <3>2
      <4>2. /\ pendingGet # NoSlot /\ (Says(down[i], "TRANSMITTED") => down[i].body.rec = pendingGet.rec)
            /\ \A j \in DOMAIN down : Answers(j) => i = j
          BY <2>1, <4>1 DEF DashInv, OneFetch
      <4> QED BY <1>3, <1>5, <3>2, <4>1, <4>2 DEF Says
    <3> QED BY <3>1, <3>2
  <2>6. \A i \in DOMAIN up' : Mine(up[i])' => up'[i].body.cmd \notin {"UPDATE_PASS", "DELETE_PASS"}
      BY <1>4, <2>1 DEF DashInv, OneFetch
  <2> QED BY <1>1, <2>3, <2>4, <2>5, <2>6 DEF OneFetch, Says
<1>7. OneGenerate'
  <2>1. SUFFICES ASSUME Alike PROVE OneGenerate'
      BY <1>4 DEF OneGenerate
  <2>2. Generating(K, ev) => d = 1 /\ Generates(1) /\ ev.rec = up[1].body.rec
      BY <2>1 DEF Passes
  <2>3. ASSUME NEW i \in DOMAIN up', Generates(i)'
        PROVE  /\ pendingGen # NoSlot /\ up'[i].body.rec = pendingGen.rec
               /\ \A j \in DOMAIN up' : Generates(j)' => i = j
               /\ \A j \in DOMAIN down' : ~Generated(j)'
    <3>1. /\ pendingGen # NoSlot /\ up[i + d].body.rec = pendingGen.rec
          /\ \A j \in DOMAIN up : Generates(j) => i + d = j
          /\ \A j \in DOMAIN down : ~Generated(j)
        BY <1>4, <2>1, <2>3 DEF DashInv, OneGenerate
    <3>2. ~Generating(K, ev)
        BY <1>1, <1>4, <2>2, <3>1
    <3>3. \A j \in DOMAIN up' : Generates(j)' => i = j
        BY <1>4, <3>1
    <3>4. \A j \in DOMAIN down' : ~Generated(j)'
        BY <1>3, <1>5, <3>1, <3>2
    <3> QED BY <1>4, <3>1, <3>3, <3>4
  <2>4. ASSUME NEW i \in DOMAIN down', Generated(i)'
        PROVE  /\ pendingGen # NoSlot /\ down'[i].body.rec = pendingGen.rec
               /\ \A j \in DOMAIN down' : Generated(j)' => i = j
    <3>1. CASE Generating(K, ev)
      <4>1. /\ pendingGen # NoSlot /\ up[1].body.rec = pendingGen.rec /\ \A j \in DOMAIN down : ~Generated(j)
          BY <1>1, <2>1, <2>2, <3>1 DEF DashInv, OneGenerate
      <4> QED BY <1>3, <1>5, <2>2, <2>4, <3>1, <4>1
    <3>2. CASE ~Generating(K, ev)
      <4>1. i \in DOMAIN down /\ Generated(i) /\ down'[i] = down[i]
          BY <1>3, <1>5, <2>4, <3>2
      <4>2. /\ pendingGen # NoSlot /\ down[i].body.rec = pendingGen.rec
            /\ \A j \in DOMAIN down : Generated(j) => i = j
          BY <2>1, <4>1 DEF DashInv, OneGenerate
      <4> QED BY <1>3, <1>5, <3>2, <4>1, <4>2
    <3> QED BY <3>1, <3>2
  <2> QED BY <1>1, <2>3, <2>4 DEF OneGenerate
<1>8. UnderWay'
  <2>1. SUFFICES ASSUME Alike, losses = 0, unanswered' = {} PROVE UnderWay'
      BY <1>1, <1>4 DEF UnderWay
  <2>2. Passes(d, K, ev) /\ unanswered = {}
      BY <1>1, <2>1
  <2>3. 0 \notin DOMAIN up
    <3>1. up \in Seq(Lines)
        BY DEF DashInv, DashTypes
    <3> QED BY <3>1
  <2>4. ASSUME pendingGet # NoSlot
        PROVE (\E i \in DOMAIN up' : Asks(i)' /\ up'[i].key = dkey) \/ Waits' \/ (\E i \in DOMAIN down' : Answers(i)')
    <3>1. (\E i \in DOMAIN up : Asks(i) /\ up[i].key = dkey) \/ Waits \/ (\E i \in DOMAIN down : Answers(i))
        BY <2>1, <2>2, <2>4, Zenon DEF DashInv, UnderWay
    <3>2. CASE Waits \/ (d = 1 /\ Asks(1))
      <4>1. Waits' \/ Answering(K, ev)
          BY <2>1, <2>2, <3>2 DEF Passes
      <4> QED BY <1>3, <1>5, <4>1
    <3>3. ASSUME NEW i \in DOMAIN up, Asks(i), up[i].key = dkey, ~(d = 1 /\ Asks(1))
          PROVE  \E j \in DOMAIN up' : Asks(j)' /\ up'[j].key = dkey
      <4>1. i # d
          BY <2>3, <3>3
      <4>2. i - d \in DOMAIN up' /\ up'[i - d] = up[i] /\ Asks(i - d)'
          BY <1>4, <3>3, <4>1
      <4> QED BY <3>3, <4>2
    <3>4. ASSUME NEW i \in DOMAIN down, Answers(i) PROVE \E j \in DOMAIN down' : Answers(j)'
        BY <1>3, <1>5, <3>4
    <3> QED BY <3>1, <3>2, <3>3, <3>4
  <2>5. ASSUME pendingGen # NoSlot
        PROVE \/ \E i \in DOMAIN up' : Generates(i)' /\ up'[i].key = dkey /\ up'[i].body.autogen
              \/ \E i \in DOMAIN down' : Generated(i)' /\ down'[i].body.autogen
    <3>1. \/ \E i \in DOMAIN up : Generates(i) /\ up[i].key = dkey /\ up[i].body.autogen
          \/ \E i \in DOMAIN down : Generated(i) /\ down[i].body.autogen
        BY <2>1, <2>2, <2>5, Zenon DEF DashInv, UnderWay
    <3>2. CASE d = 1 /\ Generates(1) /\ up[1].body.autogen
      <4>1. Generating(K, ev) /\ ev.autogen
          BY <2>1, <2>2, <3>2 DEF Passes
      <4> QED BY <1>3, <1>5, <4>1
    <3>3. ASSUME NEW i \in DOMAIN up, Generates(i), up[i].key = dkey, up[i].body.autogen,
                 ~(d = 1 /\ Generates(1) /\ up[1].body.autogen)
          PROVE  \E j \in DOMAIN up' : Generates(j)' /\ up'[j].key = dkey /\ up'[j].body.autogen
      <4>1. i # d
          BY <2>3, <3>3
      <4>2. i - d \in DOMAIN up' /\ up'[i - d] = up[i] /\ Generates(i - d)'
          BY <1>4, <3>3, <4>1
      <4> QED BY <3>3, <4>2
    <3>4. ASSUME NEW i \in DOMAIN down, Generated(i), down[i].body.autogen
          PROVE  \E j \in DOMAIN down' : Generated(j)' /\ down'[j].body.autogen
        BY <1>3, <1>5, <3>4
    <3> QED BY <3>1, <3>2, <3>3, <3>4
  <2> QED BY <1>1, <2>4, <2>5, Zenon DEF UnderWay
<1> QED BY <1>6, <1>7, <1>8

\* While a tab waits for a finger the device has the key of its page.
LEMMA WaitsMine == ASSUME DashInv, Alike, Waits PROVE active /\ dkey[1] = pageNo /\ wait # "ready"
<1>1. ~bare /\ wait # "ready" /\ waitKey[1] = pageNo
    BY DEF Alike, Waits
<1>2. active
    BY <1>1, Zenon DEF DashInv, ClearText
<1>3. waitKey = dkey
    BY <1>1, <1>2, Zenon DEF DashInv, WaitIsMine
<1> QED BY <1>1, <1>2, <1>3

\* The device opens a line that is no handshake.
DeviceOpens ==
  /\ up # <<>> /\ up' = Tail(up) /\ ~Is(up[1], "DH_INIT")
  /\ IF up[1].key = Plain THEN ~active ELSE up[1].key = dkey
  /\ UNCHANGED dkey /\ UNCHANGED pageState

\* RESTART_SYSTEM is what a page sends first, before anything waits; DISCONNECT what it sends last.
LEMMA RestartKeeps ==
  ASSUME DashInv, DeviceOpens, up[1].body.cmd \in {"RESTART_SYSTEM", "DISCONNECT"},
         RestartOrDisconnect(up[1].body)
  PROVE  DashInv'
<1> DEFINE c  == up[1].body
           K  == IF c.cmd = "RESTART_SYSTEM" THEN up[1].key ELSE Plain
           ev == [ev |-> IF c.cmd = "RESTART_SYSTEM" THEN "BOOT" ELSE "DISCONNECTED"]
<1>1. /\ Moved(1) /\ 1 \in DOMAIN up /\ UNCHANGED dkey /\ ~Is(up[1], "DH_INIT")
      /\ IF up[1].key = Plain THEN ~active ELSE up[1].key = dkey
      /\ UNCHANGED <<open, pageNo, hkey, authState, pendingGet, pendingGen, filled, meddled, bare, losses>>
    BY HasMoved DEF DeviceOpens, pageState
<1>2. /\ session' = FALSE /\ wait' = "ready" /\ (active' <=> active /\ c.cmd = "RESTART_SYSTEM")
      /\ active' = (active /\ c.cmd = "RESTART_SYSTEM")
      /\ UNCHANGED <<recs, dkey, waitRec, waitKey, pairs, unanswered>>
    BY DEF RestartOrDisconnect, SayEv
<1>3. /\ up[1].key = IF active THEN dkey ELSE Plain
      /\ up[1].key \in LineKeys /\ up[1].body \in Commands
      /\ active => dkey # Plain /\ up[1].key # Plain
      /\ ~bare /\ up[1].key = Plain => Is(up[1], "DISCONNECT")
      /\ open /\ dkey[1] = pageNo => active /\ ~Is(up[1], "DISCONNECT") /\ ~Fresh'
      /\ open /\ dkey[1] = pageNo /\ Is(up[1], "RESTART_SYSTEM") => wait = "ready"
    BY <1>1, Opened
<1>4. down' = Append(down, [key |-> K, body |-> ev])
  <2>1. CASE c.cmd = "RESTART_SYSTEM"
      BY <1>3, <2>1 DEF RestartOrDisconnect, SayEv, Say
  <2>2. CASE c.cmd # "RESTART_SYSTEM"
      BY <2>2 DEF RestartOrDisconnect
  <2> QED BY <2>1, <2>2
<1>5. ev \in Replies /\ ev.ev \in {"BOOT", "DISCONNECTED"} /\ (c.cmd = "DISCONNECT" => ev.ev = "DISCONNECTED")
    BY DEF Replies
<1>6. K \in LineKeys /\ K \in {Plain, dkey} /\ (K = Plain => bare \/ ev.ev = "DISCONNECTED")
    BY <1>3, <1>5, KeyIs DEF Is
<1> HIDE DEF K, ev
<1>7. Replied(1, K, ev)
  <2>1. active' \in BOOLEAN /\ session' \in BOOLEAN
      BY <1>2, Zenon
  <2>2. recs' \subseteq Recs /\ wait' \in {"ready", "get", "update"} /\ waitKey' = waitKey
      BY <1>2 DEF DashInv, DashTypes
  <2> QED BY <1>1, <1>2, <1>4, <1>5, <1>6, <2>1, <2>2 DEF Replied
<1>8. /\ DashTypes' /\ DashFlags' /\ KeysNumbered' /\ UpLines' /\ DownLines' /\ ClearText' /\ Acked'
      /\ NotHeardYet' /\ StillUnknown' /\ SecretsSealed' /\ SlotHeld' /\ FilledIsAsked' /\ AskedByPage'
  <2>1. ~session' /\ wait' = "ready" /\ ev.ev \notin {"TRANSMITTED", "SAVED"}
      BY <1>2, <1>5
  <2> QED BY <1>3, <1>6, <1>7, <2>1, ReplyKeepsLine
<1>9. WaitIsMine'
    BY <1>2 DEF WaitIsMine
<1>10. Disconnected'
  <2>1. SUFFICES ASSUME ~active', dkey # Plain
                 PROVE  (open => pageNo # dkey[1]) /\ \A i \in DOMAIN up' : up'[i].key[1] # dkey[1]
      BY <1>1 DEF Disconnected
  <2>2. \A i \in DOMAIN up' : i + 1 \in DOMAIN up /\ up'[i] = up[i + 1] /\ i + 1 > 1
    <3>1. up' \in Seq(Lines)
        BY <1>1 DEF Moved
    <3> QED BY <1>1, <3>1 DEF Moved
  <2>3. CASE ~active
      BY <2>1, <2>2, <2>3 DEF DashInv, Disconnected
  <2>4. CASE active
    <3>1. up[1].key = dkey /\ Is(up[1], "DISCONNECT")
        BY <1>2, <1>3, <2>1, <2>4 DEF Is
    <3> QED BY <1>1, <2>1, <2>2, <3>1 DEF DashInv, UpLines, UpEnds
  <2> QED BY <2>3, <2>4
<1>11. Alike => Passes(1, K, ev)
  <2>1. SUFFICES ASSUME Alike PROVE Passes(1, K, ev)
      OBVIOUS
  <2>2. ~Waits' /\ ~Answering(K, ev) /\ ~Generating(K, ev) /\ ~Asks(1) /\ ~Generates(1)
      BY <1>2, <1>5 DEF Waits, Answering, Generating, Asks, Generates, Is
  <2>3. ~Waits
    <3>1. Waits => open /\ dkey[1] = pageNo /\ wait # "ready"
        BY <2>1, WaitsMine DEF Alike
    <3> QED BY <1>3, <3>1 DEF Is
  <2> QED BY <2>2, <2>3 DEF Passes
<1>12. OneFetch' /\ OneGenerate' /\ UnderWay'
    BY <1>6, <1>7, <1>11, ReplyKeepsSlots
<1> QED BY <1>8, <1>9, <1>10, <1>12 DEF DashInv

\* Any other line is answered under the key that it came under.
LEMMA AnswerKeeps ==
  ASSUME DashInv, DeviceOpens, up[1].body.cmd \notin {"RESTART_SYSTEM", "DISCONNECT"},
         NEW ev \in Replies, ev.ev # "DH_ACK", Say(ev), UNCHANGED <<active, pairs>>, unanswered \subseteq unanswered',
         recs' \subseteq Recs, session' \in BOOLEAN, wait' \in {"ready", "get", "update"},
         waitKey' \in {waitKey, up[1].key}, WaitIsMine',
         ev.ev \in {"TRANSMITTED", "SAVED"} => ev.asked = up[1].key,
         Alike => Passes(1, up[1].key, ev)
  PROVE  DashInv'
<1> DEFINE K == up[1].key
<1>1. /\ Moved(1) /\ 1 \in DOMAIN up /\ UNCHANGED dkey /\ ~Is(up[1], "DH_INIT")
      /\ IF up[1].key = Plain THEN ~active ELSE up[1].key = dkey
      /\ UNCHANGED <<open, pageNo, hkey, authState, pendingGet, pendingGen, filled, meddled, bare, losses>>
    BY HasMoved DEF DeviceOpens, pageState
<1>2. /\ up[1].key = IF active THEN dkey ELSE Plain
      /\ up[1].key \in LineKeys
      /\ active => dkey # Plain /\ up[1].key # Plain
      /\ ~bare /\ up[1].key = Plain => Is(up[1], "DISCONNECT")
      /\ open /\ dkey[1] = pageNo => active /\ ~Fresh'
    BY <1>1, Opened
<1>3. K \in LineKeys /\ K \in {Plain, dkey} /\ (K = Plain => bare) /\ (~active => bare)
    BY <1>2, KeyIs DEF Is
<1>4. Replied(1, K, ev)
  <2>1. active' \in BOOLEAN
      BY Zenon DEF DashInv, DashFlags
  <2>2. down' = Append(down, [key |-> K, body |-> ev])
      BY <1>2 DEF Say
  <2>3. waitKey' \in {waitKey, Plain, dkey}
      BY <1>3
  <2> QED BY <1>1, <1>3, <2>1, <2>2, <2>3 DEF Replied
<1>5. /\ DashTypes' /\ DashFlags' /\ KeysNumbered' /\ UpLines' /\ DownLines' /\ ClearText' /\ Acked'
      /\ NotHeardYet' /\ StillUnknown' /\ SecretsSealed' /\ SlotHeld' /\ FilledIsAsked' /\ AskedByPage'
  <2>1. ev.ev \in {"TRANSMITTED", "SAVED"} => K \in {ev.asked, Plain}
      OBVIOUS
  <2> QED BY <1>2, <1>3, <1>4, <2>1, ReplyKeepsLine
<1>6. Disconnected'
  <2>1. \A i \in DOMAIN up' : i + 1 \in DOMAIN up /\ up'[i] = up[i + 1]
      BY <1>1 DEF Moved
  <2> QED BY <1>1, <2>1 DEF DashInv, Disconnected
<1>7. OneFetch' /\ OneGenerate' /\ UnderWay'
    BY <1>3, <1>4, ReplyKeepsSlots
<1> QED BY <1>5, <1>6, <1>7 DEF DashInv

\* What a page that is open asks for comes under the device's key; and no tab asks for more than
\* is awaited.
LEMMA AskedNow ==
  ASSUME DashInv, DeviceOpens
  PROVE  /\ up[1].key \in LineKeys /\ up[1].body \in Commands /\ 1 \in DOMAIN up
         /\ up[1].key[1] = pageNo => Mine(up[1])
         /\ active => up[1].key = dkey
         /\ Alike /\ Waits => Mine(up[1]) /\ ~Asks(1)
         /\ Alike /\ Mine(up[1]) => up[1].body.cmd \notin {"UPDATE_PASS", "DELETE_PASS"}
<1>1. /\ Moved(1) /\ 1 \in DOMAIN up /\ UNCHANGED dkey /\ ~Is(up[1], "DH_INIT")
      /\ IF up[1].key = Plain THEN ~active ELSE up[1].key = dkey
    BY HasMoved DEF DeviceOpens
<1>2. /\ up[1].key = IF active THEN dkey ELSE Plain
      /\ up[1].key \in LineKeys /\ up[1].body \in Commands
    BY <1>1, Opened
<1>3. Alike /\ Waits => Mine(up[1]) /\ ~Asks(1)
  <2>1. SUFFICES ASSUME Alike, Waits PROVE Mine(up[1]) /\ ~Asks(1)
      OBVIOUS
  <2>2. up[1].key[1] = pageNo
      BY <1>2, <2>1, WaitsMine
  <2> QED BY <1>1, <2>1, <2>2 DEF DashInv, OneFetch, Mine
<1>4. Alike /\ Mine(up[1]) => up[1].body.cmd \notin {"UPDATE_PASS", "DELETE_PASS"}
    BY <1>1 DEF DashInv, OneFetch
<1> QED BY <1>1, <1>2, <1>3, <1>4 DEF Mine

\* A command before VERIFY_PIN, and VERIFY_PIN: no slot is answered.
LEMMA LogOnKeeps ==
  ASSUME DashInv, DeviceOpens, up[1].body.cmd \notin {"RESTART_SYSTEM", "DISCONNECT"}, LogOn(up[1].body)
  PROVE  DashInv'
<1> DEFINE c  == up[1].body
           ev == [ev |-> IF c.cmd = "VERIFY_PIN" THEN "PIN_OK" ELSE "PIN_REQ"]
<1>1. /\ Say(ev) /\ UNCHANGED <<recs, dkey, active, wait, waitRec, waitKey, pairs, pageNo>>
      /\ unanswered \subseteq unanswered' /\ (c.cmd # "VERIFY_PIN" => unanswered' # {})
    BY DEF LogOn, SayEv, SayBlank, DeviceOpens, pageState
<1>2. session' \in BOOLEAN
    BY Zenon DEF LogOn
<1>3. ev \in Replies /\ ev.ev \in {"PIN_OK", "PIN_REQ"}
    BY DEF Replies
<1> HIDE DEF ev
<1>4. WaitIsMine' /\ recs' \subseteq Recs /\ wait' \in {"ready", "get", "update"}
    BY <1>1 DEF DashInv, WaitIsMine, DashTypes
<1>5. Passes(1, up[1].key, ev)
  <2>1. /\ ~Answering(up[1].key, ev) /\ ~Generating(up[1].key, ev)
        /\ (Asks(1) \/ Generates(1) => c.cmd # "VERIFY_PIN") /\ (Waits' <=> Waits)
      BY <1>1, <1>3 DEF Waits, Answering, Generating, Asks, Generates, Is
  <2> QED BY <1>1, <2>1 DEF Passes
<1> QED BY <1>1, <1>2, <1>3, <1>4, <1>5, AnswerKeeps

\* SAVE_PASS: SAVED under the key that it came under, or ALREADY_EXISTS.

\* savePassword: the item is as the archive says, or its loss is paid for.
LEMMA SaveKeeps ==
  ASSUME DashInv, DeviceOpens, up[1].body.cmd = "SAVE_PASS", Dispatch(up[1].body, up[1].key),
         UNCHANGED <<dkey, active, session, pairs>>
  PROVE  DashInv'
<1> DEFINE c == up[1].body
           k == up[1].key
<1>1. UNCHANGED <<wait, waitRec, waitKey, pageNo>>
    BY DEF Dispatch, DeviceOpens, pageState
<1>2. k \in LineKeys /\ c.rec \in Recs /\ c.autogen \in BOOLEAN /\ (k[1] = pageNo => Mine(up[1]))
    BY AskedNow, Carried
<1>3. session' \in BOOLEAN
    BY Zenon DEF DashInv, DashFlags
<1>4. WaitIsMine' /\ wait' \in {"ready", "get", "update"} /\ (Waits' <=> Waits) /\ ~Asks(1)
    BY <1>1 DEF DashInv, WaitIsMine, DashTypes, Waits, Asks, Is
<1>5. CASE c.rec \in recs
  <2> DEFINE ev == [ev |-> "ALREADY_EXISTS"]
  <2>1. Say(ev) /\ unanswered' # {} /\ unanswered \subseteq unanswered' /\ recs' = recs
      BY <1>5 DEF Dispatch, SayBlank
  <2>2. ev \in Replies /\ ev.ev = "ALREADY_EXISTS"
      BY DEF Replies
  <2> HIDE DEF ev
  <2>3. Passes(1, k, ev)
      BY <1>1, <1>4, <2>1, <2>2 DEF Passes, Answering, Generating
  <2>4. recs' \subseteq Recs
      BY <2>1 DEF DashInv, DashTypes
  <2> QED BY <1>1, <1>3, <1>4, <2>1, <2>2, <2>3, <2>4, AnswerKeeps
<1>6. CASE c.rec \notin recs
  <2> DEFINE ev == [ev |-> "SAVED", rec |-> c.rec, autogen |-> c.autogen, asked |-> k]
  <2>1. Say(ev) /\ unanswered' = unanswered /\ recs' = recs \cup {c.rec}
      BY <1>6 DEF Dispatch, SayEv
  <2>2. ev \in Replies /\ ev.ev = "SAVED" /\ ev.rec = c.rec /\ ev.autogen = c.autogen /\ ev.asked = k
    <3> HIDE DEF c, k
    <3> QED BY <1>2 DEF Replies
  <2> HIDE DEF ev
  <2>3. Passes(1, k, ev)
    <3>1. ~Answering(k, ev) /\ (Generating(k, ev) <=> Generates(1))
        BY <1>2, <2>2 DEF Answering, Generating, Generates, Is, Mine
    <3> QED BY <1>1, <1>4, <2>1, <2>2, <3>1 DEF Passes
  <2>4. recs' \subseteq Recs
      BY <1>2, <2>1 DEF DashInv, DashTypes
  <2> QED BY <1>1, <1>3, <1>4, <2>1, <2>2, <2>3, <2>4, AnswerKeeps
<1> QED BY <1>5, <1>6

\* GET_PASS and UPDATE_PASS of a record that is there: the device waits for the finger.
LEMMA AwaitKeeps ==
  ASSUME DashInv, DeviceOpens, up[1].body.cmd \in {"GET_PASS", "UPDATE_PASS"}, up[1].body.rec \in recs,
         Dispatch(up[1].body, up[1].key), UNCHANGED <<dkey, active, session, pairs>>
  PROVE  DashInv'
<1> DEFINE c  == up[1].body
           k  == up[1].key
           ev == [ev |-> "AWAITING"]
<1>1. /\ wait' = (IF c.cmd = "GET_PASS" THEN "get" ELSE "update") /\ waitRec' = c.rec /\ waitKey' = k
      /\ Say(ev) /\ unanswered' = unanswered /\ recs' = recs /\ pageNo' = pageNo
    BY DEF Dispatch, SayEv, DeviceOpens, pageState
<1>2. /\ k \in LineKeys /\ c.rec \in Recs /\ (k[1] = pageNo => Mine(up[1])) /\ (active => k = dkey)
      /\ Alike /\ Waits => Mine(up[1]) /\ ~Asks(1)
      /\ Alike /\ Mine(up[1]) => c.cmd \notin {"UPDATE_PASS", "DELETE_PASS"}
    BY AskedNow, Carried
<1>3. session' \in BOOLEAN
    BY Zenon DEF DashInv, DashFlags
<1>4. ev \in Replies /\ ev.ev = "AWAITING"
    BY DEF Replies
<1> HIDE DEF ev
<1>5. WaitIsMine' /\ wait' \in {"ready", "get", "update"} /\ waitKey' \in {waitKey, k} /\ recs' \subseteq Recs
    BY <1>1, <1>2 DEF DashInv, WaitIsMine, DashTypes
<1>6. Alike => Passes(1, k, ev)
  <2>1. SUFFICES ASSUME Alike PROVE Passes(1, k, ev)
      OBVIOUS
  <2>2. ~Answering(k, ev) /\ ~Generating(k, ev) /\ ~Generates(1)
      BY <1>4 DEF Answering, Generating, Generates, Is
  <2>3. (Waits' <=> Mine(up[1])) /\ (Asks(1) <=> Mine(up[1]))
      BY <1>1, <1>2, <2>1 DEF Waits, Asks, Is, Mine
  <2>4. Waits' => wait' = "get" /\ waitRec' = c.rec
      BY <1>1, <1>2, <2>1, <2>3
  <2> QED BY <1>2, <2>1, <2>2, <2>3, <2>4 DEF Passes
<1> QED BY <1>1, <1>3, <1>4, <1>5, <1>6, AnswerKeeps

\* GET_PASS and UPDATE_PASS of a record that is not there, and DELETE_PASS.
LEMMA NotFoundKeeps ==
  ASSUME DashInv, DeviceOpens, 
         \/ up[1].body.cmd \in {"GET_PASS", "UPDATE_PASS"} /\ up[1].body.rec \notin recs
         \/ up[1].body.cmd = "DELETE_PASS",
         Dispatch(up[1].body, up[1].key), UNCHANGED <<dkey, active, session, pairs>>
  PROVE  DashInv'
<1> DEFINE c  == up[1].body
           k  == up[1].key
           ev == [ev |-> IF c.cmd = "DELETE_PASS" /\ c.rec \in recs THEN "DELETED" ELSE "NOT_FOUND"]
<1>1. /\ Say(ev) /\ unanswered' = unanswered /\ recs' \subseteq recs /\ UNCHANGED <<wait, waitRec, waitKey, pageNo>>
    BY DEF Dispatch, SayEv, DeviceOpens, pageState
<1>2. /\ k \in LineKeys /\ (k[1] = pageNo => Mine(up[1]))
      /\ Alike /\ Waits => Mine(up[1]) /\ ~Asks(1)
      /\ Alike /\ Mine(up[1]) => c.cmd \notin {"UPDATE_PASS", "DELETE_PASS"}
    BY AskedNow
<1>3. session' \in BOOLEAN
    BY Zenon DEF DashInv, DashFlags
<1>4. ev \in Replies /\ ev.ev \in {"DELETED", "NOT_FOUND"} /\ (c.cmd # "DELETE_PASS" => ev.ev = "NOT_FOUND")
    BY DEF Replies
<1> HIDE DEF ev
<1>5. WaitIsMine' /\ wait' \in {"ready", "get", "update"} /\ recs' \subseteq Recs
    BY <1>1 DEF DashInv, WaitIsMine, DashTypes
<1>6. Alike => Passes(1, k, ev)
  <2>1. SUFFICES ASSUME Alike PROVE Passes(1, k, ev)
      OBVIOUS
  <2>2. ~Generating(k, ev) /\ ~Generates(1) /\ (Waits' <=> Waits) /\ wait' = wait /\ waitRec' = waitRec
      BY <1>1, <1>4 DEF Waits, Generating, Generates, Is
  <2>3. Answering(k, ev) => Asks(1) /\ ev.ev = "NOT_FOUND"
      BY <1>2, <1>4, <2>1 DEF Answering, Asks, Is
  <2>4. Asks(1) => Answering(k, ev)
      BY <1>4 DEF Answering, Asks, Is, Mine
  <2> QED BY <1>2, <2>1, <2>2, <2>3, <2>4 DEF Passes
<1> QED BY <1>1, <1>3, <1>4, <1>5, <1>6, AnswerKeeps

\* Anything else within a session.
LEMMA UnknownKeeps ==
  ASSUME DashInv, DeviceOpens, up[1].body.cmd = "VERIFY_PIN",
         Dispatch(up[1].body, up[1].key), UNCHANGED <<dkey, active, session, pairs>>
  PROVE  DashInv'
<1> DEFINE ev == [ev |-> "UNKNOWN_CMD"]
<1>1. /\ Say(ev) /\ unanswered' # {} /\ unanswered \subseteq unanswered'
      /\ UNCHANGED <<recs, wait, waitRec, waitKey, pageNo>>
    BY DEF Dispatch, SayBlank, DeviceOpens, pageState
<1>2. session' \in BOOLEAN
    BY Zenon DEF DashInv, DashFlags
<1>3. ev \in Replies /\ ev.ev = "UNKNOWN_CMD"
    BY DEF Replies
<1> HIDE DEF ev
<1>4. WaitIsMine' /\ wait' \in {"ready", "get", "update"} /\ recs' \subseteq Recs
    BY <1>1 DEF DashInv, WaitIsMine, DashTypes
<1>5. Passes(1, up[1].key, ev)
    BY <1>1, <1>3 DEF Passes, Answering, Generating, Waits
<1> QED BY <1>1, <1>2, <1>3, <1>4, <1>5, AnswerKeeps

\* A line of the CLI task.
LEMMA CliKeeps == DashInv /\ CliTask => DashInv'
<1> SUFFICES ASSUME DashInv, CliTask PROVE DashInv'
    OBVIOUS
<1>1. up # <<>> /\ up' = Tail(up) /\ UNCHANGED pageState /\ Head(up) = up[1] /\ 1 \in DOMAIN up
    BY HasMoved DEF CliTask
<1> DEFINE c == up[1].body
           k == up[1].key
<1>2. c \in Commands
  <2>1. up[1] \in Lines
      BY <1>1 DEF DashInv, DashTypes
  <2> QED BY <2>1 DEF Lines
<1>3. CASE c.cmd = "DH_INIT"
  <2>1. Handshake(c) /\ Is(up[1], "DH_INIT")
      BY <1>1, <1>3 DEF CliTask, Is
  <2> QED BY <1>1, <2>1, HandshakeKeeps
<1>4. CASE c.cmd # "DH_INIT" /\ (IF k = Plain THEN active ELSE k # dkey)
  <2>1. UNCHANGED deviceVars /\ Silent /\ ~Is(up[1], "DH_INIT")
      BY <1>1, <1>4 DEF CliTask, Is
  <2> QED BY <1>1, <1>4, <2>1, IgnoredKeeps
<1>5. CASE c.cmd # "DH_INIT" /\ ~(IF k = Plain THEN active ELSE k # dkey)
  <2>1. /\ IF k = Plain THEN ~active ELSE k = dkey
        /\ IF c.cmd \in {"RESTART_SYSTEM", "DISCONNECT"} THEN RestartOrDisconnect(c)
           ELSE IF ~session THEN LogOn(c)
           ELSE Dispatch(c, k) /\ UNCHANGED <<dkey, active, session, pairs>>
      BY <1>1, <1>5 DEF CliTask
  <2>2. UNCHANGED dkey
      BY <2>1 DEF RestartOrDisconnect, LogOn
  <2>3. DeviceOpens
      BY <1>1, <1>5, <2>1, <2>2 DEF DeviceOpens, Is
  <2>4. CASE c.cmd \in {"RESTART_SYSTEM", "DISCONNECT"}
      BY <2>1, <2>3, <2>4, RestartKeeps
  <2>5. CASE c.cmd \notin {"RESTART_SYSTEM", "DISCONNECT"} /\ ~session
      BY <2>1, <2>3, <2>5, LogOnKeeps
  <2>6. CASE c.cmd \notin {"RESTART_SYSTEM", "DISCONNECT"} /\ session
    <3>1. Dispatch(c, k) /\ UNCHANGED <<dkey, active, session, pairs>>
        BY <2>1, <2>6
    <3>2. c.cmd \in {"VERIFY_PIN", "GET_PASS", "UPDATE_PASS", "DELETE_PASS", "SAVE_PASS"}
        BY <1>2, <1>5, <2>6, Carried
    <3>3. CASE c.cmd = "VERIFY_PIN"
        BY <2>3, <3>1, <3>3, UnknownKeeps
    <3>4. CASE c.cmd = "SAVE_PASS"
        BY <2>3, <3>1, <3>4, SaveKeeps
    <3>5. CASE c.cmd \in {"GET_PASS", "UPDATE_PASS"} /\ c.rec \in recs
        BY <2>3, <3>1, <3>5, AwaitKeeps
    <3>6. CASE (c.cmd \in {"GET_PASS", "UPDATE_PASS"} /\ c.rec \notin recs) \/ c.cmd = "DELETE_PASS"
        BY <2>3, <3>1, <3>6, NotFoundKeeps
    <3> QED BY <3>2, <3>3, <3>4, <3>5, <3>6
  <2> QED BY <2>4, <2>5, <2>6
<1> QED BY <1>3, <1>4, <1>5

\* The finger: the record goes to the page that waits; a replay answers nobody.
LEMMA FingerKeeps == DashInv /\ (Finger \/ Replay) => DashInv'
<1> SUFFICES ASSUME DashInv, Finger \/ Replay PROVE DashInv'
    OBVIOUS
<1> DEFINE K  == IF active THEN dkey ELSE Plain
           ev == IF Finger THEN IF wait = "get" THEN [ev |-> "TRANSMITTED", rec |-> waitRec, asked |-> waitKey]
                                ELSE [ev |-> "UPDATED"]
                 ELSE [ev |-> "REPLAY_DETECTED"]
<1>1. /\ wait # "ready" /\ wait' = "ready" /\ waitKey' \in {waitKey, Plain}
      /\ UNCHANGED <<dkey, active, session, pairs, up>> /\ UNCHANGED pageState
      /\ unanswered \subseteq unanswered' /\ (Finger \/ unanswered' # {})
      /\ down' = Append(down, [key |-> K, body |-> ev])
  <2>1. CASE Finger
      BY <2>1 DEF Finger, SayEv, Say
  <2>2. CASE ~Finger
      BY <2>2 DEF Replay, SayBlank, Say
  <2> QED BY <2>1, <2>2
<1>2. waitRec \in Recs /\ (active => waitKey = dkey) /\ dkey \in LineKeys /\ waitKey \in LineKeys
    BY <1>1 DEF DashInv, WaitIsMine, DashTypes
<1>3. /\ ev \in Replies /\ ev.ev \in {"TRANSMITTED", "UPDATED", "REPLAY_DETECTED"}
      /\ ev.ev = "TRANSMITTED" => Finger /\ wait = "get" /\ ev.rec = waitRec /\ ev.asked = waitKey
      /\ Finger /\ wait = "get" => ev.ev = "TRANSMITTED"
    BY <1>2 DEF Replies
<1>4. recs' \subseteq Recs
    BY <1>2 DEF Finger, Replay, DashInv, DashTypes
<1>5. ~active => bare
    BY <1>1, Zenon DEF DashInv, ClearText
<1>6. K \in LineKeys /\ K \in {Plain, dkey} /\ (K = Plain => bare) /\ K \in {waitKey, Plain} /\ (active => K = dkey)
    BY <1>2, <1>5, KeyIs DEF DashInv, KeysNumbered
<1> HIDE DEF K, ev
<1>7. Moved(0)
    BY <1>1, HasMoved
<1>8. Replied(0, K, ev)
  <2>1. active' \in BOOLEAN /\ session' \in BOOLEAN /\ (active' => active)
      BY <1>1, Zenon DEF DashInv, DashFlags
  <2> QED BY <1>1, <1>3, <1>4, <1>6, <1>7, <2>1 DEF Replied
<1>9. open /\ dkey[1] = pageNo => ~Fresh'
  <2>1. open /\ dkey[1] = pageNo => ~Fresh
      BY <1>1, Zenon DEF DashInv, NotHeardYet
  <2>2. Fresh' <=> Fresh
    <3>1. UNCHANGED <<hkey, dkey, up>>
        BY <1>1 DEF pageState
    <3> QED BY <3>1, Zenon DEF Fresh, Is
  <2> QED BY <2>1, <2>2
<1>10. /\ DashTypes' /\ DashFlags' /\ KeysNumbered' /\ UpLines' /\ DownLines' /\ ClearText' /\ Acked'
       /\ NotHeardYet' /\ StillUnknown' /\ SecretsSealed' /\ SlotHeld' /\ FilledIsAsked' /\ AskedByPage'
  <2>1. ~bare /\ ~active' => ~session' /\ wait' = "ready"
      BY <1>1, <1>5
  <2>2. ev.ev \in {"TRANSMITTED", "SAVED"} => K \in {ev.asked, Plain}
      BY <1>3, <1>6
  <2>3. K = Plain => bare \/ ev.ev = "DISCONNECTED"
      BY <1>6
  <2> QED BY <1>8, <1>9, <2>1, <2>2, <2>3, ReplyKeepsLine
<1>11. Disconnected' /\ WaitIsMine'
  <2>1. open' = open /\ pageNo' = pageNo
      BY <1>1 DEF pageState
  <2> QED BY <1>1, <2>1 DEF DashInv, Disconnected, WaitIsMine
<1>12. Alike => Passes(0, K, ev)
  <2>1. SUFFICES ASSUME Alike PROVE Passes(0, K, ev)
      OBVIOUS
  <2>2. ~Waits' /\ ~Generating(K, ev)
      BY <1>1, <1>3 DEF Waits, Generating
  <2>3. active /\ K = waitKey
      BY <1>2, <1>5, <1>6, <2>1 DEF Alike
  <2>4. Answering(K, ev) => Waits /\ ev.rec = waitRec
      BY <1>1, <1>3, <2>3 DEF Answering, Waits
  <2>5. Waits => wait = "get"
      BY <2>1 DEF DashInv, OneFetch
  <2>6. Waits /\ unanswered' = {} => Answering(K, ev)
      BY <1>1, <1>3, <2>3, <2>5 DEF Answering, Waits
  <2> QED BY <2>2, <2>4, <2>6 DEF Passes
<1>13. OneFetch' /\ OneGenerate' /\ UnderWay'
    BY <1>6, <1>8, <1>12, ReplyKeepsSlots
<1> QED BY <1>10, <1>11, <1>13 DEF DashInv

\* Every step keeps the page and the device in agreement.
LEMMA DashSteps == DashInv /\ [DashNext]_dashVars => DashInv'
<1> SUFFICES ASSUME DashInv, [DashNext]_dashVars PROVE DashInv'
    OBVIOUS
<1>1. CASE Connect \/ LeavePage \/ SubmitPin
    BY <1>1, ConnectKeeps, LeaveKeeps, PinKeeps
<1>2. CASE PageReads \/ NobodyReads \/ DropLine
    BY <1>2, PageKeeps, NobodyKeeps, DropKeeps
<1>3. CASE \E t \in Tabs, r \in Recs : GetPassword(t, r) \/ AutoGenerate(t, r)
    BY <1>3, GetKeeps, GenerateKeeps
<1>4. CASE \E c \in PopupCommands : Popup(c)
    BY <1>4, PopupKeeps
<1>5. CASE \E r \in Recs : TypeCommand(r)
    BY <1>5, TypeKeeps
<1>6. CASE CliTask \/ Finger \/ Replay
    BY <1>6, CliKeeps, FingerKeeps
<1>7. CASE UNCHANGED dashVars
  <2>1. /\ UNCHANGED <<recs, dkey, active, session, wait, waitRec, waitKey, pairs>>
        /\ UNCHANGED <<open, pageNo, hkey, authState, pendingGet, pendingGen, up, down, filled>>
        /\ UNCHANGED <<meddled, unanswered, bare, losses>>
      BY <1>7 DEF dashVars, deviceVars
  <2>2. DashTypes' /\ DashFlags' /\ KeysNumbered' /\ WaitIsMine'
      BY <2>1, Zenon DEF DashInv, DashTypes, DashFlags, KeysNumbered, WaitIsMine
  <2>3. UpLines' /\ DownLines'
      BY <2>1, Zenon DEF DashInv, UpLines, UpKeyed, UpStarts, UpEnds, DownLines, Is, Says
  <2>4. Disconnected' /\ ClearText' /\ SlotHeld' /\ FilledIsAsked' /\ SecretsSealed'
      BY <2>1, Zenon DEF DashInv, Disconnected, ClearText, SlotHeld, FilledIsAsked, SecretsSealed
  <2>5. Acked' /\ NotHeardYet' /\ StillUnknown'
      BY <2>1, Zenon DEF DashInv, Acked, NotHeardYet, StillUnknown, Fresh, Is, Says
  <2>6. /\ (Alike' <=> Alike) /\ (Waits' <=> Waits)
        /\ \A i \in DOMAIN up :
             (Asks(i)' <=> Asks(i)) /\ (Generates(i)' <=> Generates(i)) /\ (Mine(up[i])' <=> Mine(up[i]))
        /\ \A i \in DOMAIN down : (Answers(i)' <=> Answers(i)) /\ (Generated(i)' <=> Generated(i))
      BY <2>1, Zenon DEF Alike, Waits, Asks, Generates, Answers, Generated, Mine, Is, Says
  <2>7. OneFetch'
      BY <2>1, <2>6 DEF DashInv, OneFetch, Says
  <2>8. OneGenerate' /\ AskedByPage'
      BY <2>1, <2>6 DEF DashInv, OneGenerate, AskedByPage
  <2>9. UnderWay'
      BY <2>1, <2>6 DEF DashInv, UnderWay
  <2> QED BY <2>2, <2>3, <2>4, <2>5, <2>7, <2>8, <2>9 DEF DashInv
<1> QED BY <1>1, <1>2, <1>3, <1>4, <1>5, <1>6, <1>7 DEF DashNext

\* Throughout, the page and the device are in agreement.
LEMMA DashAlways == DashSpec => []DashInv
BY DashInitially, DashSteps, PTL DEF DashSpec

\* processHandshake, updateFingerprintAsync: a password is on the line only under the key of the
\* page that asked for it; and page and device have one key when the line is quiet and nothing was
\* lost.
THEOREM LineSealedHolds == DashSpec => []LineSealed
<1>1. ASSUME DashInv PROVE LineSealed
  <2>1. KeysAgree
    <3>1. SUFFICES ASSUME open, up = <<>>, down = <<>>, losses = 0 PROVE hkey = dkey
        BY DEF KeysAgree
    <3>2. DOMAIN up = {} /\ DOMAIN down = {}
        BY <3>1
    <3> QED BY <1>1, <3>1, <3>2 DEF DashInv, Acked
  <2> QED BY <1>1, <2>1 DEF DashInv, LineSealed
<1> QED BY <1>1, DashAlways, PTL

\* fillCredentialsInTab: a tab is filled with what it asked for, and its request is under way as
\* long as its slot is taken.
THEOREM FillsAsAskedHolds == DashSpec => []FillsAsAsked
<1>1. ASSUME DashInv PROVE FillsAsAsked
  <2>1. pendingGet # NoSlot \/ pendingGen # NoSlot => open
      BY <1>1, Zenon DEF DashInv, SlotHeld
  <2>2. ASSUME pendingGet # NoSlot, losses = 0, ~bare, meddled = {}, unanswered = {}
        PROVE  Sent("GET_PASS", pendingGet.rec) \/ (wait = "get" /\ waitRec = pendingGet.rec)
                 \/ Heard("TRANSMITTED") \/ Heard("NOT_FOUND")
    <3>1. Alike
        BY <2>1, <2>2, Zenon DEF Alike
    <3>2. (\E i \in DOMAIN up : Asks(i) /\ up[i].key = dkey) \/ Waits \/ (\E i \in DOMAIN down : Answers(i))
        BY <1>1, <2>2, <3>1, Zenon DEF DashInv, UnderWay
    <3> QED BY <1>1, <3>1, <3>2 DEF DashInv, OneFetch, Asks, Answers, Is, Says, Sent, Heard
  <2>3. ASSUME pendingGen # NoSlot, losses = 0, ~bare, meddled = {}, unanswered = {}
        PROVE  Sent("SAVE_PASS", pendingGen.rec) \/ Heard("SAVED")
    <3>1. Alike
        BY <2>1, <2>3, Zenon DEF Alike
    <3>2. (\E i \in DOMAIN up : Generates(i)) \/ (\E i \in DOMAIN down : Generated(i))
        BY <1>1, <2>3, <3>1, Zenon DEF DashInv, UnderWay
    <3> QED BY <1>1, <3>1, <3>2 DEF DashInv, OneGenerate, Generates, Generated, Is, Says, Sent, Heard
  <2>4. SlotAnswered
      BY <2>2, <2>3 DEF SlotAnswered
  <2> QED BY <1>1, <2>4 DEF DashInv, FillsAsAsked
<1> QED BY <1>1, DashAlways, PTL
=============================================================================
