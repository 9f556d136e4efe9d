--------------------------- MODULE Authenticator ---------------------------
(***************************************************************************)
(* The CTAP2 and U2F commands that make, use and forget credentials        *)
(* (src/FIDO2Manager.cpp), on the records and counters they keep           *)
(* (src/StorageManager.cpp).                                               *)
(*                                                                         *)
(* The FIDO task runs one command at a time; pc is where it is.  Between   *)
(* any two of its steps the CLI task may delete credentials or reset the   *)
(* device (each storage call holds storageMutex and is one step), and the  *)
(* power may be cut (Crash).  A credential is known by its number, its     *)
(* relying party, its user and its kind:                                   *)
(*   "rk"  a record in /passkeys.bin made by MakeCredential,               *)
(*   "u2f" a record made by U2F_REGISTER (its relying party is a hash),    *)
(*   "sl"  a stateless credential: nothing is stored, the identifier holds *)
(*         the key, wrapped under the stateless master secret.             *)
(* Cryptography is abstracted to who can use a credential; CBOR parsing,   *)
(* extensions and response layout are left out, a request that is refused  *)
(* before it changes anything is a request that is not made.  Most flash   *)
(* calls are not looked at: a record may be missing although its save was  *)
(* reported, a file may outlive its removal and a secret its rotation.     *)
(* What a failing copy or a cut deletion does to /passkeys.bin is the      *)
(* matter of PasskeyFile: here it loses records.                           *)
(***************************************************************************)
EXTENDS Integers, Sequences, FiniteSets

CONSTANTS
  Rps, Users,
  MaxUvAttempts,   \* MAX_FAILED_UV_ATTEMPTS (8)
  CountErased,     \* what an unwritten EEPROM reads as (0xFFFFFFFF)
  Failing,         \* the calls that may fail
  MaxCreds,        \* bound: credentials made
  MaxResets        \* bound: FIDO resets

NoUser == "no user"
NoCred == [n |-> 0]
NoReq  == [op |-> "none"]

\* "save" is refused and "delete" answers false; "flash" is a write that falls short
\* unnoticed, "remove" a file that stays, "nvs" a storage partition that does not open,
\* "find" and "uvRead" a file that does not open for reading.
Calls == {"keygen", "task", "save", "delete", "wrap", "sign", "attestation",
          "flash", "remove", "nvs", "find", "uvRead"}

\* getStatelessMasterSecret when NVS does not open: 32 zero bytes.
ZeroSecret == 0

ASSUME AuthAssumption ==
  /\ MaxUvAttempts \in Nat \ {0}
  /\ CountErased \in Nat \ {0}
  /\ Failing \subseteq Calls
  /\ MaxCreds \in Nat
  /\ MaxResets \in Nat
  /\ NoUser \notin Users

VARIABLES
  \* flash, EEPROM and NVS
  passkeys,        \* the records of /passkeys.bin
  secret,          \* the stateless master secret, by how often it was rotated
  signCount,       \* the EEPROM cell of the signature counter
  uvFails,         \* /fido_uv_fail.txt
  \* RAM
  uvCached,        \* lastFingerprintSuccessTime is less than 5 s ago
  next,            \* nextAssertionCreds, nextAssertionIdx, nextAssertionRpId
  pc, req, cred, matched, ctr,    \* the command in progress and its locals
  verified,        \* history: a finger was verified for it
  \* history
  made,            \* number of credentials made so far
  gone,            \* credentials whose record was removed, or not written whole
  doubled,         \* users whose old record was not found or not deleted
  unremoved,       \* records that a Reset did not remove
  unrotated,       \* master secrets that a Reset did not replace
  attested,        \* credentials a host was told of
  told,            \* the last signature count a host was told
  deleted,         \* credentials the FIDO task has deleted
  resetDone        \* number of resets a host was told of

flashVars == <<passkeys, secret, signCount, uvFails>>
ramVars   == <<uvCached, next>>
cmdVars   == <<pc, req, cred, matched, ctr, verified>>
faultVars == <<gone, doubled, unremoved, unrotated>>
histVars  == <<made, attested, told, deleted, resetDone, faultVars>>
vars      == <<flashVars, ramVars, cmdVars, histVars>>

Ok(call) == IF call \in Failing THEN BOOLEAN ELSE {TRUE}

\* What is in a file after SPIFFS.remove, whose result is not looked at.
Removed(old, empty) == IF "remove" \in Failing THEN {old, empty} ELSE {empty}

NoNext == [creds |-> <<>>, idx |-> 1, rp |-> NoUser, verified |-> FALSE]

Init ==
  /\ passkeys = {} /\ secret = 1 /\ signCount = CountErased /\ uvFails = 0
  /\ uvCached = FALSE /\ next = NoNext
  /\ pc = "idle" /\ req = NoReq /\ cred = NoCred /\ matched = <<>> /\ ctr = 0
  /\ verified = FALSE
  /\ made = 0 /\ attested = {} /\ told = 0 /\ deleted = {} /\ resetDone = 0
  /\ gone = {} /\ doubled = {} /\ unremoved = {} /\ unrotated = {}

\* What is left for GetNextAssertion.  A list that has come to its end is as good as none:
\* the answer is 0x2C.
Left(creds, idx, rp, uv) ==
  IF idx <= Len(creds) THEN [creds |-> creds, idx |-> idx, rp |-> rp, verified |-> uv] ELSE NoNext

\* The command is over: its locals are gone.
Finish ==
  /\ pc' = "idle" /\ req' = NoReq /\ cred' = NoCred /\ matched' = <<>> /\ ctr' = 0
  /\ verified' = FALSE

Goto(l) == pc' = l /\ UNCHANGED <<req, cred, matched, ctr, verified>>

-----------------------------------------------------------------------------
(* Looking credentials up.                                                 *)

\* getStatelessMasterSecret, with NVS open or not.
SecretRead(down) == IF down THEN ZeroSecret ELSE secret
NvsDown == IF "nvs" \in Failing THEN BOOLEAN ELSE {FALSE}

\* unwrapStatelessCredential: the identifier was wrapped under this secret for rp.
Unwraps(c, rp, down) == c.kind = "sl" /\ c.secret = SecretRead(down) /\ c.rp = rp

\* What the allow list, or without one the record file, offers for rp; NVS did not
\* open for the identifiers in down.
MatchedCreds(rp, allow, down) ==
  IF allow # {}
  THEN {c \in allow : Unwraps(c, rp, c \in down) \/ (c \in passkeys /\ c.rp = rp)}
  ELSE {c \in passkeys : c.rp = rp}

Orderings(S) == {s \in [1..Cardinality(S) -> S] :
                   \A i, j \in 1..Cardinality(S) : s[i] = s[j] => i = j}

\* Records are appended, so the file lists them in the order they were made.
InFileOrder(S) == {s \in Orderings(S) : \A i, j \in 1..Cardinality(S) : i < j => s[i].n < s[j].n}

-----------------------------------------------------------------------------
(* Waiting for a finger: fidoVerifyFingerprint and the 15 s loops.         *)

\* The commands that try for 15 s; the U2F commands try once.
WaitsForFinger == req.op \in {"make", "get", "reset", "manage"}

AfterUv == CASE req.op \in {"make", "u2fRegister"}    -> "keygen"
             [] req.op \in {"get", "u2fAuthenticate"} -> "count"
             [] req.op = "reset"                      -> "wipe"
             [] req.op = "manage"                     -> "listed"

\* getFailedUvAttempts: a file that does not open counts as none.
UvCount == {uvFails} \cup (IF "uvRead" \in Failing THEN {0} ELSE {})

UvOpen == \E n \in UvCount : n < MaxUvAttempts

\* The file of failed attempts is removed.
ResetFailedUvAttempts == uvFails' \in Removed(uvFails, 0)

\* incrementFailedUvAttempts: "w" empties the file before the count is printed.
IncrementFailedUvAttempts ==
  uvFails' \in {n + 1 : n \in UvCount} \cup (IF "flash" \in Failing THEN {0, uvFails} ELSE {})

\* The finger matches, or no template is enrolled and any touch will do.
\* GetAssertion and the management commands remember the time.
UvMatch ==
  /\ pc = "uv"
  /\ UvOpen
  /\ ResetFailedUvAttempts
  /\ uvCached' = (uvCached \/ req.op \in {"get", "manage"})
  /\ next' = IF req.op = "get" THEN Left(next.creds, next.idx, next.rp, TRUE) ELSE next
  /\ verified' = TRUE
  /\ pc' = AfterUv
  /\ UNCHANGED <<passkeys, secret, signCount, req, cred, matched, ctr, histVars>>

\* A touch that does not match is counted; a U2F command gives up at once.  (Whether a
\* template is enrolled, so that there is a match to fail, is BioEnroll's: here it may be.)
UvMismatch ==
  /\ pc = "uv"
  /\ UvOpen
  /\ IncrementFailedUvAttempts
  /\ IF WaitsForFinger THEN UNCHANGED cmdVars ELSE Finish
  /\ UNCHANGED <<passkeys, secret, signCount, ramVars, histVars>>

\* No finger (in time), a CANCEL, or too many mismatches: the command is refused.
UvWaitsForever ==                           \* mutant: no 15 s limit
  /\ pc = "uv"
  /\ ~WaitsForFinger
  /\ Finish
  /\ UNCHANGED <<flashVars, ramVars, histVars>>
UvGivesUp ==
  /\ pc = "uv"
  /\ Finish
  /\ UNCHANGED <<flashVars, ramVars, histVars>>

-----------------------------------------------------------------------------
(* authenticatorMakeCredential and U2F_REGISTER.                           *)

\* A credential of the exclude list is stored for this relying party (0x19).
\* Stateless credentials, which are not stored, are not recognised.
Excluded(rp, exclude) == \E c \in exclude : c \in passkeys /\ c.rp = rp

\* What the parser finds in a request.
MakeRequest(rp, user, rk, heavy) ==
  [op |-> "make", rp |-> rp, user |-> user, rk |-> rk, heavy |-> heavy]

MakeCredential(rp, user, rk, heavy, exclude) ==
  /\ pc = "idle"
  /\ made < MaxCreds
  /\ ~Excluded(rp, exclude)
  /\ req' = MakeRequest(rp, user, rk, heavy)
  /\ pc' = "uv"
  /\ verified' = FALSE
  /\ UNCHANGED <<flashVars, ramVars, cred, matched, ctr, histVars>>

U2fRegister(rp) ==
  /\ pc = "idle"
  /\ made < MaxCreds
  /\ req' = [op |-> "u2fRegister", rp |-> rp, user |-> NoUser, rk |-> TRUE, heavy |-> FALSE]
  /\ pc' = "uv"
  /\ verified' = FALSE
  /\ UNCHANGED <<flashVars, ramVars, cred, matched, ctr, histVars>>

\* RSA and ML-DSA keys are too long to be wrapped and are always resident.
Resident == req.rk \/ req.heavy

NewCred == [n |-> made + 1, rp |-> req.rp, user |-> req.user, secret |-> secret,
            born |-> resetDone,
            kind |-> CASE req.op = "u2fRegister" -> "u2f"
                       [] req.op = "make" /\ Resident -> "rk"
                       [] OTHER -> "sl"]

\* generateKeypairP256, and the generators of the other algorithms.
KeypairOk == Ok("keygen")

Keygen ==
  /\ pc = "keygen"
  /\ \E ok \in KeypairOk, batch \in Ok("attestation") :
       IF ok /\ (req.op = "u2fRegister" => batch)
       THEN /\ made' = made + 1
            /\ cred' = NewCred
            /\ pc' = CASE NewCred.kind = "u2f" -> "save"
                       [] NewCred.kind = "rk"  -> "findOld"
                       [] NewCred.kind = "sl"  -> "wrap"
            /\ UNCHANGED <<req, matched, ctr, verified>>
       ELSE Finish /\ UNCHANGED made
  /\ UNCHANGED <<flashVars, ramVars, attested, told, deleted, resetDone, faultVars>>

\* The worker task of a long computation could not be created: its result is
\* awaited without a limit, and the return code is not looked at.
WorkerMissing ==
  /\ "task" \in Failing
  /\ \/ pc = "keygen" /\ req.op = "make" /\ req.heavy
     \/ pc = "attest" /\ req.op = "make"
     \/ pc = "sign" /\ req.op # "u2fAuthenticate"
  /\ pc' = "hung" /\ req' = NoReq /\ cred' = NoCred /\ matched' = <<>> /\ ctr' = 0
  /\ verified' = FALSE
  /\ UNCHANGED <<flashVars, ramVars, histVars>>

OldRecords == {c \in passkeys : c.rp = req.rp /\ c.user = req.user}

\* The user keeps an old record beside the new one.
Doubled == doubled' = IF OldRecords # {} THEN doubled \cup {<<req.rp, req.user>>} ELSE doubled

\* findCredentialIdByRpAndUser: the first record for this relying party and user.
FindOld ==
  /\ pc = "findOld"
  /\ \/ OldRecords = {} /\ Goto("save") /\ UNCHANGED doubled
     \/ "find" \in Failing /\ Goto("save") /\ Doubled
     \/ /\ OldRecords # {}
        /\ \E s \in InFileOrder(OldRecords) : matched' = <<s[1]>>
        /\ pc' = "deleteOld"
        /\ UNCHANGED <<req, cred, ctr, verified, doubled>>
  /\ UNCHANGED <<flashVars, ramVars, made, attested, told, deleted, resetDone, gone,
                 unremoved, unrotated>>

\* The old record is deleted; whether that worked is not looked at.
DeleteOld ==
  /\ pc = "deleteOld"
  /\ \E ok \in Ok("delete") :
       IF ok THEN /\ passkeys' = passkeys \ {matched[1]}
                  /\ deleted' = deleted \cup {matched[1]}
                  /\ gone' = gone \cup {matched[1]}
                  /\ UNCHANGED doubled
             ELSE Doubled /\ UNCHANGED <<passkeys, deleted, gone>>
  /\ pc' = "save" /\ matched' = <<>>
  /\ UNCHANGED <<secret, signCount, uvFails, ramVars, req, cred, ctr, verified, made, attested,
                 told, resetDone, unremoved, unrotated>>

\* savePasskeyRecord answers false when the record cannot be encrypted or the file not
\* opened, and true when its bytes were written, in part or not at all: the results of
\* the writes are not looked at, and a record behind a torn one is not found either.
SaveUnchecked ==                            \* mutant: the result is not looked at
  /\ pc = "save"
  /\ \E ok \in Ok("save"), whole \in Ok("flash") :
       /\ passkeys' = IF ok /\ whole THEN passkeys \cup {cred} ELSE passkeys
       /\ gone' = IF ok /\ ~whole THEN gone \cup {cred} ELSE gone
  /\ Goto("attest")
  /\ UNCHANGED <<secret, signCount, uvFails, ramVars, made, attested, told, deleted, resetDone,
                 doubled, unremoved, unrotated>>
Save ==
  /\ pc = "save"
  /\ \/ passkeys' = passkeys \cup {cred} /\ Goto("attest") /\ UNCHANGED gone
     \/ "flash" \in Failing /\ gone' = gone \cup {cred} /\ Goto("attest") /\ UNCHANGED passkeys
     \/ "save" \in Failing /\ Finish /\ UNCHANGED <<passkeys, gone>>
  /\ UNCHANGED <<secret, signCount, uvFails, ramVars, made, attested, told, deleted, resetDone,
                 doubled, unremoved, unrotated>>

Wrap ==
  /\ pc = "wrap"
  /\ \E ok \in Ok("wrap"), down \in NvsDown :
       IF ok THEN cred' = [cred EXCEPT !.secret = SecretRead(down)] /\ pc' = "attest"
                  /\ UNCHANGED <<req, matched, ctr, verified>>
             ELSE Finish
  /\ UNCHANGED <<flashVars, ramVars, histVars>>

\* loadPersistedSignCount
LoadCount == IF signCount = CountErased THEN 0 ELSE signCount

\* The registration is signed and answered; MakeCredential's answer holds the
\* current signature count.
Attest ==
  /\ pc = "attest"
  /\ \E ok \in Ok("sign") :
       IF ok THEN /\ attested' = attested \cup {cred}
                  /\ told' = IF req.op = "make" THEN LoadCount ELSE told
             ELSE UNCHANGED <<attested, told>>
  /\ Finish
  /\ UNCHANGED <<flashVars, ramVars, made, deleted, resetDone, faultVars>>

-----------------------------------------------------------------------------
(* authenticatorGetAssertion, GetNextAssertion and U2F_AUTHENTICATE.       *)

\* Bound on the life of the counter.
CountLeft == LoadCount + 1 < CountErased

GetAssertion(rp, allow) ==
  /\ pc = "idle"
  /\ CountLeft
  /\ \E down \in IF "nvs" \in Failing THEN SUBSET allow ELSE {{}} :
       LET S == MatchedCreds(rp, allow, down) IN
         S # {} /\ matched' \in IF allow = {} THEN InFileOrder(S) ELSE Orderings(S)
  /\ req' = [op |-> "get", rp |-> rp]
  /\ pc' = "load"
  /\ verified' = FALSE
  /\ UNCHANGED <<flashVars, ramVars, cred, ctr, histVars>>

\* The first match is read again, and may be gone (0x2E).  The list for
\* GetNextAssertion is set before a finger is asked for.
LoadMatched ==
  /\ pc = "load"
  /\ \E down \in NvsDown :
       IF Unwraps(matched[1], req.rp, down) \/ matched[1] \in passkeys
       THEN /\ cred' = matched[1]
            /\ next' = Left(matched, 2, req.rp, uvCached)
            /\ verified' = uvCached
            /\ pc' = IF uvCached THEN "count" ELSE "uv"
            /\ matched' = <<>>
            /\ UNCHANGED <<req, ctr>>
       ELSE Finish /\ UNCHANGED next
  /\ UNCHANGED <<flashVars, uvCached, histVars>>

NextUnread ==                               \* mutant: the record is not read again
  /\ pc = "idle"
  /\ CountLeft
  /\ next.idx <= Len(next.creds)
  /\ next' = Left(next.creds, next.idx + 1, next.rp, next.verified)
  /\ cred' = next.creds[next.idx]
  /\ req' = [op |-> "next", rp |-> next.rp]
  /\ pc' = "count"
  /\ verified' = next.verified
  /\ UNCHANGED <<flashVars, uvCached, matched, ctr, histVars>>
GetNextAssertion ==
  /\ pc = "idle"
  /\ CountLeft
  /\ next.idx <= Len(next.creds)
  /\ next' = Left(next.creds, next.idx + 1, next.rp, next.verified)
  /\ \E down \in NvsDown : LET c == next.creds[next.idx] IN
       IF Unwraps(c, next.rp, down) \/ c \in passkeys
       THEN /\ cred' = c
            /\ req' = [op |-> "next", rp |-> next.rp]
            /\ pc' = "count"
            /\ verified' = next.verified
       ELSE UNCHANGED <<cred, req, pc, verified>>
  /\ UNCHANGED <<flashVars, uvCached, matched, ctr, histVars>>

U2fAuthenticate(c) ==
  /\ pc = "idle"
  /\ CountLeft
  /\ c \in passkeys
  /\ cred' = c
  /\ req' = [op |-> "u2fAuthenticate", rp |-> c.rp]
  /\ pc' = "uv"
  /\ verified' = FALSE
  /\ UNCHANGED <<flashVars, ramVars, matched, ctr, histVars>>

\* The counter is in flash before it is signed.
CountInRam ==                               \* mutant: saved only when it is sent
  /\ pc = "count"
  /\ ctr' = LoadCount + 1
  /\ pc' = "sign"
  /\ UNCHANGED <<flashVars, ramVars, req, cred, matched, verified, histVars>>
Count ==
  /\ pc = "count"
  /\ ctr' = LoadCount + 1
  /\ signCount' = LoadCount + 1
  /\ pc' = "sign"
  /\ UNCHANGED <<passkeys, secret, uvFails, ramVars, req, cred, matched, verified, histVars>>

Sign ==
  /\ pc = "sign"
  /\ \E ok \in Ok("sign") : IF ok THEN Goto("send") ELSE Finish
  /\ UNCHANGED <<flashVars, ramVars, histVars>>

\* GetAssertion and U2F_AUTHENTICATE answer with the count ...
Send ==
  /\ pc = "send" /\ req.op # "next"
  /\ told' = ctr
  /\ Finish
  /\ UNCHANGED <<flashVars, ramVars, made, attested, deleted, resetDone, faultVars>>

\* ... and so does GetNextAssertion, which has an answer of its own.
SendNext ==
  /\ pc = "send" /\ req.op = "next"
  /\ told' = ctr
  /\ Finish
  /\ UNCHANGED <<flashVars, ramVars, made, attested, deleted, resetDone, faultVars>>

\* Five seconds have passed since the last verified finger.
CacheExpires ==
  /\ uvCached
  /\ uvCached' = FALSE
  /\ UNCHANGED <<flashVars, next, cmdVars, histVars>>

-----------------------------------------------------------------------------
(* authenticatorReset and deleteCredential.                                *)

Reset ==
  /\ pc = "idle"
  /\ secret <= MaxResets /\ resetDone < MaxResets
  /\ req' = [op |-> "reset"]
  /\ pc' = "uv"
  /\ verified' = FALSE
  /\ UNCHANGED <<flashVars, ramVars, cred, matched, ctr, histVars>>

\* resetFido2System removes the files, then rotates the master secret, all
\* under storageMutex.
ResetFiles ==
  /\ pc = "wipe"
  /\ passkeys' \in Removed(passkeys, {})
  /\ uvFails' \in Removed(uvFails, 0)
  /\ unremoved' = unremoved \cup passkeys'
  /\ gone' = gone \cup (passkeys \ passkeys')
  /\ Goto("rotate")
  /\ UNCHANGED <<secret, signCount, ramVars, made, attested, told, deleted, resetDone, doubled,
                 unrotated>>

\* rotateStatelessMasterSecret: where NVS does not open, the old secret stays.
RotateSecret ==
  /\ pc = "rotate"
  /\ \/ secret' = secret + 1 /\ UNCHANGED unrotated
     \/ "nvs" \in Failing /\ unrotated' = unrotated \cup {secret} /\ UNCHANGED secret
  /\ Goto("resetEnd")
  /\ UNCHANGED <<passkeys, signCount, uvFails, ramVars, made, attested, told, deleted,
                 resetDone, gone, doubled, unremoved>>

ResetEnd ==
  /\ pc = "resetEnd"
  /\ resetDone' = resetDone + 1
  /\ Finish
  /\ UNCHANGED <<flashVars, ramVars, made, attested, told, deleted, faultVars>>

CredMgmtDelete(c) ==
  /\ pc = "idle"
  /\ c \in passkeys
  /\ passkeys' = passkeys \ {c}
  /\ deleted' = deleted \cup {c}
  /\ gone' = gone \cup {c}
  /\ UNCHANGED <<secret, signCount, uvFails, ramVars, cmdVars, made, attested, told, resetDone,
                 doubled, unremoved, unrotated>>

\* enumerateCredentialsBegin on protected credentials, and enumerateEnrollments:
\* a finger is asked for, unless one was verified in the last 5 s.
Manage ==
  /\ pc = "idle"
  /\ ~uvCached
  /\ req' = [op |-> "manage"]
  /\ pc' = "uv"
  /\ verified' = FALSE
  /\ UNCHANGED <<flashVars, ramVars, cred, matched, ctr, histVars>>

ManageEnd ==
  /\ pc = "listed"
  /\ Finish
  /\ UNCHANGED <<flashVars, ramVars, histVars>>

-----------------------------------------------------------------------------
(* The CLI task, and the power.                                            *)

StorageFree == pc # "rotate"

\* DELETE_FIDO: deleteFidoWebsite compares the stored field, which is a name for
\* "rk" records and a hash for "u2f" records.
CliDeleteSite(rp, kind) ==
  /\ StorageFree
  /\ \E c \in passkeys : c.rp = rp /\ c.kind = kind
  /\ passkeys' = {c \in passkeys : ~(c.rp = rp /\ c.kind = kind)}
  /\ gone' = gone \cup (passkeys \ passkeys')
  /\ UNCHANGED <<secret, signCount, uvFails, ramVars, cmdVars, made, attested, told, deleted, resetDone,
                 doubled, unremoved, unrotated>>

\* factoryResetSystem: the files go, the stateless master secret stays.
CliFactoryReset ==
  /\ StorageFree
  /\ passkeys' \in Removed(passkeys, {})
  /\ uvFails' \in Removed(uvFails, 0)
  /\ gone' = gone \cup (passkeys \ passkeys')
  /\ UNCHANGED <<secret, signCount, ramVars, cmdVars, made, attested, told, deleted, resetDone,
                 doubled, unremoved, unrotated>>

\* A power cut in a deletion, between removing the old file and renaming the new one,
\* takes the records along.
Crash ==
  /\ Finish
  /\ uvCached' = FALSE /\ next' = NoNext
  /\ passkeys' \in {passkeys, {}}
  /\ gone' = gone \cup (passkeys \ passkeys')
  /\ UNCHANGED <<secret, signCount, uvFails, made, attested, told, deleted, resetDone,
                 doubled, unremoved, unrotated>>

FidoStarts ==
  \/ \E rp \in Rps, user \in Users, rk, heavy \in BOOLEAN, exclude \in SUBSET attested :
       MakeCredential(rp, user, rk, heavy, exclude)
  \/ \E rp \in Rps : U2fRegister(rp)
  \/ \E rp \in Rps, allow \in SUBSET attested : GetAssertion(rp, allow)
  \/ GetNextAssertion
  \/ \E c \in attested : U2fAuthenticate(c)
  \/ Reset
  \/ \E c \in attested : CredMgmtDelete(c)
  \/ Manage

\* What ends a wait or goes on with a command.
FidoGoesOn ==
  \/ UvGivesUp
  \/ Keygen \/ WorkerMissing \/ FindOld \/ DeleteOld \/ Save \/ Wrap \/ Attest
  \/ LoadMatched \/ Count \/ Sign \/ Send \/ SendNext
  \/ ResetFiles \/ RotateSecret \/ ResetEnd \/ ManageEnd

FidoSteps == UvMatch \/ UvMismatch \/ FidoGoesOn

Others ==
  \/ CacheExpires
  \/ \E rp \in Rps, kind \in {"rk", "u2f"} : CliDeleteSite(rp, kind)
  \/ CliFactoryReset
  \/ Crash

Next == FidoStarts \/ FidoSteps \/ Others

Spec == Init /\ [][Next]_vars

\* The FIDO task is scheduled while it has something to do, and the 15 s of a
\* wait for a finger pass.
FairSpec == Spec /\ WF_vars(FidoGoesOn)

-----------------------------------------------------------------------------
(* Properties.                                                             *)

Credential == [n : Nat, rp : Rps, user : Users \cup {NoUser}, secret : Nat, born : Nat,
               kind : {"rk", "u2f", "sl"}]

Places == {"idle", "uv", "keygen", "findOld", "deleteOld", "save", "wrap", "attest", "load",
           "count", "sign", "send", "wipe", "rotate", "resetEnd", "listed", "hung"}

\* Every variable keeps its type; failed verifications are counted up to the
\* limit and never past it, whatever commands follow one another, as long as their
\* file can be read.
TypeOK ==
  /\ passkeys \subseteq Credential
  /\ attested \subseteq Credential /\ deleted \subseteq Credential
  /\ gone \subseteq Credential /\ unremoved \subseteq Credential
  /\ unrotated \subseteq Nat /\ doubled \subseteq Rps \X Users
  /\ secret \in Nat /\ resetDone \in Nat /\ made \in Nat
  /\ signCount \in Nat /\ ctr \in Nat /\ told \in Nat
  /\ uvFails \in Nat
  /\ "uvRead" \notin Failing => uvFails <= MaxUvAttempts
  /\ pc \in Places
  /\ cred \in Credential \cup {NoCred}
  /\ matched \in Seq(Credential)
  /\ next.creds \in Seq(Credential) /\ next.idx \in Nat
  /\ next.verified \in BOOLEAN
  /\ uvCached \in BOOLEAN /\ verified \in BOOLEAN

\* A resident or U2F credential that a host was told of is on file, until a command, a
\* Reset or a power cut removes it, whichever call fails: the firmware refuses "to attest
\* an unpersisted credential" (the log line of U2F_REGISTER), and a registration removes no
\* record but the one it replaces.  The one exception (also in gone): savePasskeyRecord
\* answers true for a write that fell short, and that credential is attested.
AttestedOnFile == \A c \in attested : c.kind # "sl" => c \in passkeys \cup gone

\* However registrations, deletions, resets and crashes interleave, the file
\* holds at most one record per relying party and user: MakeCredential deletes
\* the old one before it saves.  Excepted are users whose old record was there and
\* was not found or not deleted (doubled): neither result is looked at.
OneResidentPerUser ==
  \A c, d \in passkeys :
    c.kind = "rk" /\ d.kind = "rk" /\ c.rp = d.rp /\ c.user = d.user
      => c = d \/ <<c.rp, c.user>> \in doubled

\* No host is sent a signature count it has seen, also after a power cut at
\* any step: the count is in EEPROM before it is signed.
FreshCount == pc = "send" => ctr > told

\* What a Reset leaves behind when flash fails unnoticed: a file it did not remove, a
\* secret it did not replace; and what was wrapped under the zero secret is under none.
Survives(c) ==
  \/ c \in unremoved
  \/ c.kind = "sl" /\ (c.secret \in unrotated \/ c.secret = ZeroSecret)

\* A credential made before a Reset that was answered never signs again, not
\* even a stateless one, which no file lists, nor one of the list that
\* GetNextAssertion keeps across the Reset; except one that the Reset could not end,
\* and answered as if it had (Survives).
ResetForgets == pc = "send" => cred.born = resetDone \/ Survives(cred)

\* A credential the FIDO task deleted, by deleteCredential or by registering
\* the user anew, never signs again, although the list of GetNextAssertion may
\* still name it.
DeletedStaysDeleted == pc = "send" => cred \notin deleted

\* What savePasskey and the host know agree: failed verifications stop at the limit, a user
\* has one resident credential at a relying party, and what was attested was saved, with
\* the exceptions these name.
StoreSound == TypeOK /\ OneResidentPerUser /\ AttestedOnFile

\* A credential that was deleted, replaced or reset never signs again, from the file, from
\* its own key handle or from the list of GetNextAssertion, unless a Reset failed unnoticed.
NeverAgain == ResetForgets /\ DeletedStaysDeleted

\* alwaysUv: an assertion is answered only when a finger was verified for it or
\* in the 5 s before the GetAssertion it belongs to.
AssertionVerified == pc = "send" => verified

\* Every command is answered and the FIDO task becomes free again, except when the
\* task it waits for without a limit could not be created (lines of WorkerMissing).
OpEnds == (pc # "idle") ~> (pc \in {"idle", "hung"})
=============================================================================
