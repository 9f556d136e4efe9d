------------------------ MODULE AuthenticatorProofs ------------------------
(***************************************************************************)
(* Proofs about Authenticator, for any relying parties, users, failing     *)
(* calls and limits: whatever order commands, CLI deletions, resets and    *)
(* power cuts come in, no signature count is sent twice, no credential is  *)
(* attested without a record, and no deleted, replaced or reset credential *)
(* signs again, but for what an unnoticed failure of the flash leaves.     *)
(*                                                                         *)
(* The invariants the runs check speak of the moment an answer is sent;    *)
(* what makes them inductive is what the command in progress knows: the    *)
(* count it has saved (CountKnown), the age of the secret every known      *)
(* credential was wrapped under (Wrapped, Born), and that a credential in  *)
(* the making is younger than every record (Younger).                      *)
(***************************************************************************)
EXTENDS Authenticator, FiniteSetTheorems, TLAPS

\* The steps of a registration that have a credential, and those of an assertion.
Making == pc \in {"findOld", "deleteOld", "save", "wrap", "attest"}
InUse  == pc \in {"count", "sign", "send"} \/ (pc = "uv" /\ req.op \in {"get", "u2fAuthenticate"})

Registration ==
  /\ \/ req.op = "make" /\ req.user \in Users
     \/ req.op = "u2fRegister" /\ req.user = NoUser
  /\ req.rp \in Rps

\* TypeOK but for its flags: the counters and the place, the credentials, the list of
\* GetNextAssertion.
Numbers ==
  /\ secret \in Nat /\ resetDone \in Nat /\ made \in Nat
  /\ signCount \in Nat /\ ctr \in Nat /\ told \in Nat
  /\ uvFails \in Nat
  /\ "uvRead" \notin Failing => uvFails <= MaxUvAttempts
  /\ pc \in Places

Records ==
  /\ passkeys \subseteq Credential /\ gone \subseteq Credential
  /\ attested \subseteq Credential /\ deleted \subseteq Credential
  /\ unremoved \subseteq Credential
  /\ cred \in Credential \cup {NoCred}
  /\ matched \in Seq(Credential)

NextList ==
  /\ next = [creds |-> next.creds, idx |-> next.idx, rp |-> next.rp, verified |-> next.verified]
  /\ next.creds \in Seq(Credential) /\ next.idx \in Nat \ {0}

\* Whom the faults were about.
Faulted == unrotated \subseteq Nat /\ doubled \subseteq Rps \X Users

Types == Numbers /\ Records /\ NextList

\* The files are finite.
Finite == IsFiniteSet(passkeys) /\ IsFiniteSet(attested)

\* What the command in progress has at each place.
DataAtHand ==
  /\ pc = "uv" => Registration \/ req.op \in {"get", "u2fAuthenticate", "reset", "manage"}
  /\ pc = "keygen" \/ Making => Registration
  /\ pc = "load" => req.op = "get"
  /\ pc \in {"findOld", "deleteOld"} => req.op = "make"
  /\ Making \/ InUse => cred \in Credential
  /\ pc \in {"load", "deleteOld"} => matched # <<>>

\* The last count a host was told is in EEPROM; a command that counts has room to, and the
\* count it has saved is above it.
CountKnown ==
  /\ told <= LoadCount
  /\ pc = "load" \/ (InUse /\ pc \in {"uv", "count"}) => CountLeft
  /\ pc \in {"sign", "send"} => ctr = LoadCount /\ told < ctr

\* A registration reaches its answer with its record on file or accounted for, or without
\* need of one.
Written ==
  /\ pc = "wrap" => cred.kind = "sl"
  /\ pc = "attest" => cred.kind = "sl" \/ cred \in passkeys \cup gone

\* U2F records have no user.
Owned(c) ==
  \/ c.kind = "rk" /\ c.user \in Users
  \/ c.kind = "u2f" /\ c.user = NoUser

\* Where the record of a user is replaced: the first record found is the only one, unless
\* an old one was passed over before.
Replaced ==
  /\ \A c \in passkeys : Owned(c)
  /\ pc \in {"findOld", "deleteOld"} =>
       req.op = "make" /\ cred.kind = "rk" /\ cred.rp = req.rp /\ cred.user = req.user
  /\ pc = "deleteOld" =>
       \/ <<req.rp, req.user>> \in doubled
       \/ \A c \in passkeys : c.rp = req.rp /\ c.user = req.user => c = matched[1]
  /\ pc = "save" => Owned(cred)
  /\ pc = "save" /\ cred.kind = "rk" =>
       \/ <<cred.rp, cred.user>> \in doubled
       \/ \A c \in passkeys : ~(c.rp = cred.rp /\ c.user = cred.user)

\* A stateless credential under the master secret was made after the last Reset, or the
\* Reset did not replace the secret.
Fresh(c) ==
  /\ c.secret <= secret
  /\ c.kind = "sl" /\ c.secret = secret => c.born = resetDone \/ Survives(c)
  /\ c.kind = "sl" /\ pc = "resetEnd" => c.secret < secret \/ Survives(c)

Wrapped ==
  /\ \A c \in attested \cup passkeys : Fresh(c)
  /\ \A i \in 1..Len(matched) : Fresh(matched[i])
  /\ \A i \in 1..Len(next.creds) : Fresh(next.creds[i])

\* So were the records, but for those it did not remove, and the credential of the command
\* in progress.
Born ==
  /\ \A c \in passkeys : c.born = resetDone \/ c \in unremoved
  /\ pc \in {"rotate", "resetEnd"} => passkeys \subseteq unremoved
  /\ Making => cred.secret \in {secret, ZeroSecret} /\ cred.born = resetDone
  /\ InUse => cred.born = resetDone \/ Survives(cred)

\* A credential in the making is younger than every record, so none that was deleted comes back.
Younger ==
  /\ \A c \in passkeys \cup deleted : c.kind # "sl" /\ c.n <= made
  /\ passkeys \cap deleted = {}
  /\ pc \in {"findOld", "deleteOld", "save"} =>
       cred.kind # "sl" /\ cred.n = made /\ \A c \in passkeys \cup deleted : c.n < made
  /\ pc = "deleteOld" => matched[1].kind # "sl" /\ matched[1].n < made
  /\ InUse => cred \notin deleted

Flags == uvCached \in BOOLEAN /\ verified \in BOOLEAN /\ next.verified \in BOOLEAN

IInv == Types /\ Faulted /\ Flags /\ Finite /\ DataAtHand /\ CountKnown
        /\ Written /\ AttestedOnFile /\ Wrapped /\ Born /\ Younger

-----------------------------------------------------------------------------
(* Lists of credentials.                                                   *)

\* An ordering of a finite set is a sequence of its members, and has as many.
LEMMA OrderingIsList ==
  ASSUME NEW S, IsFiniteSet(S), NEW s \in Orderings(S)
  PROVE  /\ s \in Seq(S) /\ Len(s) = Cardinality(S)
         /\ \A i \in 1..Len(s) : s[i] \in S
         /\ S # {} => s # <<>> /\ s[1] \in S
<1>1. Cardinality(S) \in Nat
    BY FS_CardinalityType
<1>2. S # {} => Cardinality(S) # 0
    BY FS_EmptySet
<1> QED BY <1>1, <1>2 DEF Orderings

\* What GetAssertion finds are known credentials, finitely many.
LEMMA MatchedKnown ==
  ASSUME Finite, NEW rp, NEW allow \in SUBSET attested, NEW down
  PROVE  IsFiniteSet(MatchedCreds(rp, allow, down)) /\ MatchedCreds(rp, allow, down) \subseteq attested \cup passkeys
<1>1. IsFiniteSet(attested \cup passkeys)
    BY FS_Union DEF Finite
<1>2. MatchedCreds(rp, allow, down) \subseteq attested \cup passkeys
    BY DEF MatchedCreds
<1> QED BY <1>1, <1>2, FS_Subset

\* GetAssertion's list, in the order of the file or of the allow list.
LEMMA MatchedListed ==
  ASSUME Finite, NEW rp, NEW allow \in SUBSET attested, GetAssertion(rp, allow)
  PROVE  /\ matched' \in Seq(attested \cup passkeys)
         /\ matched' # <<>>
         /\ \A i \in 1..Len(matched') : matched'[i] \in attested \cup passkeys
<1>0. PICK down : MatchedCreds(rp, allow, down) # {} /\ matched' \in Orderings(MatchedCreds(rp, allow, down))
    BY DEF GetAssertion, InFileOrder
<1> DEFINE S == MatchedCreds(rp, allow, down)
<1>1. matched' \in Orderings(S) /\ S # {}
    BY <1>0
<1>2. IsFiniteSet(S) /\ S \subseteq attested \cup passkeys
    BY MatchedKnown
<1> HIDE DEF S
<1>3. matched' \in Seq(S) /\ matched' # <<>> /\ \A i \in 1..Len(matched') : matched'[i] \in S
    BY <1>1, <1>2, OrderingIsList
<1> QED BY <1>2, <1>3

-----------------------------------------------------------------------------
(* The outcomes of the steps that a failing call can send either way.      *)

\* The pair is generated and the registration goes on, or it is refused.
LEMMA KeygenOutcome ==
  ASSUME Keygen
  PROVE  /\ pc = "keygen"
         /\ UNCHANGED <<flashVars, ramVars, attested, told, deleted, resetDone, faultVars>>
         /\ \/ /\ made' = made + 1 /\ cred' = NewCred /\ UNCHANGED <<req, matched, ctr, verified>>
               /\ pc' = CASE NewCred.kind = "u2f" -> "save"
                          [] NewCred.kind = "rk"  -> "findOld"
                          [] NewCred.kind = "sl"  -> "wrap"
            \/ Finish /\ made' = made
BY Zenon DEF Keygen

\* The old record is deleted, or stays.
LEMMA DeleteOldOutcome ==
  ASSUME DeleteOld
  PROVE  /\ pc = "deleteOld" /\ pc' = "save" /\ matched' = <<>>
         /\ UNCHANGED <<secret, signCount, uvFails, ramVars, req, cred, ctr, verified, made, attested,
                        told, resetDone, unremoved, unrotated>>
         /\ \/ /\ passkeys' = passkeys \ {matched[1]} /\ deleted' = deleted \cup {matched[1]}
               /\ gone' = gone \cup {matched[1]} /\ doubled' = doubled
            \/ Doubled /\ UNCHANGED <<passkeys, deleted, gone>>
BY Zenon DEF DeleteOld

\* The record is written, written short, or refused.
LEMMA SaveOutcome ==
  ASSUME Save
  PROVE  /\ pc = "save"
         /\ UNCHANGED <<secret, signCount, uvFails, ramVars, made, attested, told, deleted, resetDone,
                        doubled, unremoved, unrotated>>
         /\ \/ passkeys' = passkeys \cup {cred} /\ gone' = gone /\ Goto("attest")
            \/ passkeys' = passkeys /\ gone' = gone \cup {cred} /\ Goto("attest")
            \/ Finish /\ UNCHANGED <<passkeys, gone>>
BY Zenon DEF Save

\* The identifier is wrapped, or the registration is refused.
LEMMA WrapOutcome ==
  ASSUME Wrap
  PROVE  /\ pc = "wrap" /\ UNCHANGED <<flashVars, ramVars, histVars>>
         /\ \/ /\ \E s \in {secret, ZeroSecret} : cred' = [cred EXCEPT !.secret = s]
               /\ pc' = "attest" /\ UNCHANGED <<req, matched, ctr, verified>>
            \/ Finish
<1>1. PICK ok \in Ok("wrap"), down \in NvsDown :
        IF ok THEN cred' = [cred EXCEPT !.secret = SecretRead(down)] /\ pc' = "attest"
                   /\ UNCHANGED <<req, matched, ctr, verified>>
              ELSE Finish
    BY Zenon DEF Wrap
<1>2. SecretRead(down) \in {secret, ZeroSecret}
    BY Zenon DEF SecretRead
<1>3. pc = "wrap" /\ UNCHANGED <<flashVars, ramVars, histVars>>
    BY Zenon DEF Wrap
<1> QED BY <1>1, <1>2, <1>3, Zenon

\* The host is told of the credential, or of an error.
LEMMA AttestOutcome ==
  ASSUME Attest
  PROVE  /\ pc = "attest" /\ Finish
         /\ UNCHANGED <<flashVars, ramVars, made, deleted, resetDone, faultVars>>
         /\ \/ attested' = attested \cup {cred} /\ told' = IF req.op = "make" THEN LoadCount ELSE told
            \/ UNCHANGED <<attested, told>>
BY Zenon DEF Attest

\* The assertion is signed, or refused.
LEMMA SignOutcome ==
  ASSUME Sign
  PROVE  pc = "sign" /\ UNCHANGED <<flashVars, ramVars, histVars>> /\ (Goto("send") \/ Finish)
BY Zenon DEF Sign

\* The first match is still there, or the command is refused.
LEMMA LoadOutcome ==
  ASSUME LoadMatched
  PROVE  /\ pc = "load" /\ UNCHANGED <<flashVars, uvCached, histVars>>
         /\ \/ /\ \E down \in BOOLEAN : Unwraps(matched[1], req.rp, down) \/ matched[1] \in passkeys
               /\ cred' = matched[1] /\ matched' = <<>> /\ UNCHANGED <<req, ctr>>
               /\ next' = Left(matched, 2, req.rp, uvCached)
               /\ verified' = uvCached
               /\ pc' \in {"count", "uv"}
            \/ Finish /\ next' = next
<1>1. PICK down \in NvsDown :
       IF Unwraps(matched[1], req.rp, down) \/ matched[1] \in passkeys
       THEN /\ cred' = matched[1]
            /\ next' = Left(matched, 2, req.rp, uvCached)
            /\ verified' = uvCached
            /\ pc' = IF uvCached THEN "count" ELSE "uv"
            /\ matched' = <<>>
            /\ UNCHANGED <<req, ctr>>
       ELSE Finish /\ UNCHANGED next
    BY Zenon DEF LoadMatched
<1>2. down \in BOOLEAN
    BY Zenon DEF NvsDown
<1>3. pc = "load" /\ UNCHANGED <<flashVars, uvCached, histVars>>
    BY Zenon DEF LoadMatched
<1>4. (IF uvCached THEN "count" ELSE "uv") \in {"count", "uv"}
    BY Zenon
<1> QED BY <1>1, <1>2, <1>3, <1>4, Zenon

\* The next of the list is still there, or the command is refused.
LEMMA NextOutcome ==
  ASSUME GetNextAssertion
  PROVE  /\ pc = "idle" /\ CountLeft /\ next.idx <= Len(next.creds)
         /\ next' = Left(next.creds, next.idx + 1, next.rp, next.verified)
         /\ UNCHANGED <<flashVars, uvCached, matched, ctr, histVars>>
         /\ \/ /\ \E down \in BOOLEAN :
                    \/ Unwraps(next.creds[next.idx], next.rp, down)
                    \/ next.creds[next.idx] \in passkeys
               /\ cred' = next.creds[next.idx] /\ req' = [op |-> "next", rp |-> next.rp]
               /\ pc' = "count" /\ verified' = next.verified
            \/ UNCHANGED <<cred, req, pc, verified>>
<1>1. PICK down \in NvsDown :
       IF Unwraps(next.creds[next.idx], next.rp, down) \/ next.creds[next.idx] \in passkeys
       THEN /\ cred' = next.creds[next.idx]
            /\ req' = [op |-> "next", rp |-> next.rp]
            /\ pc' = "count"
            /\ verified' = next.verified
       ELSE UNCHANGED <<cred, req, pc, verified>>
    BY Zenon DEF GetNextAssertion
<1>2. down \in BOOLEAN
    BY Zenon DEF NvsDown
<1>3. /\ pc = "idle" /\ CountLeft /\ next.idx <= Len(next.creds)
      /\ next' = Left(next.creds, next.idx + 1, next.rp, next.verified)
      /\ UNCHANGED <<flashVars, uvCached, matched, ctr, histVars>>
    BY Zenon DEF GetNextAssertion
<1> QED BY <1>1, <1>2, <1>3, Zenon

\* Where a finished command is, and one that goes on (but for what it verified).
LEMMA FinishIs ==
  ASSUME Finish
  PROVE  pc' = "idle" /\ req' = NoReq /\ cred' = NoCred /\ matched' = <<>> /\ ctr' = 0
BY Zenon DEF Finish

LEMMA GotoIs ==
  ASSUME NEW l, Goto(l)
  PROVE  pc' = l /\ req' = req /\ cred' = cred /\ matched' = matched /\ ctr' = ctr
BY Zenon DEF Goto

\* What is left of a list is the list, or nothing.
LEMMA LeftIs ==
  ASSUME NEW creds, NEW idx, NEW rp, NEW uv
  PROVE  Left(creds, idx, rp, uv).creds \in {creds, <<>>} /\ Left(creds, idx, rp, uv).verified \in {uv, FALSE}
BY DEF Left, NoNext

LEMMA LeftTyped ==
  ASSUME NEW creds \in Seq(Credential), NEW idx \in Nat \ {0}, NEW rp, NEW uv
  PROVE  /\ Left(creds, idx, rp, uv).creds \in Seq(Credential) /\ Left(creds, idx, rp, uv).idx \in Nat \ {0}
         /\ Left(creds, idx, rp, uv) = [creds |-> Left(creds, idx, rp, uv).creds, idx |-> Left(creds, idx, rp, uv).idx,
                                       rp |-> Left(creds, idx, rp, uv).rp, verified |-> Left(creds, idx, rp, uv).verified]
<1> DEFINE left == Left(creds, idx, rp, uv)
<1>1. left.creds \in Seq(Credential) /\ left.idx \in Nat \ {0}
    BY DEF Left, NoNext
<1>2. left = [creds |-> left.creds, idx |-> left.idx, rp |-> left.rp, verified |-> left.verified]
    BY DEF Left, NoNext
<1> QED BY <1>1, <1>2

\* What a Reset or a factory reset leaves of the records is all of them or none.
LEMMA RemovedIs ==
  ASSUME NEW old, NEW empty, NEW new \in Removed(old, empty)
  PROVE  new \in {old, empty}
BY DEF Removed

\* A new credential is for the relying party and the user of the request, and of this epoch.
LEMMA NewCredIs ==
  ASSUME Numbers, Registration
  PROVE  /\ NewCred \in Credential
         /\ NewCred.n = made + 1 /\ NewCred.rp = req.rp /\ NewCred.user = req.user
         /\ NewCred.secret = secret /\ NewCred.born = resetDone
         /\ \/ NewCred.kind = "u2f" /\ req.op = "u2fRegister"
            \/ NewCred.kind \in {"rk", "sl"} /\ req.op = "make"
<1>1. CASE req.op = "u2fRegister"
    <2>1. NewCred = [n |-> made + 1, rp |-> req.rp, user |-> req.user, secret |-> secret,
                     born |-> resetDone, kind |-> "u2f"]
        BY <1>1 DEF NewCred
    <2> QED BY <1>1, <2>1 DEF Numbers, Registration, Credential
<1>2. CASE req.op = "make" /\ Resident
    BY <1>2 DEF Numbers, Registration, NewCred, Credential
<1>3. CASE req.op = "make" /\ ~Resident
    BY <1>3 DEF Numbers, Registration, NewCred, Credential
<1> QED BY <1>1, <1>2, <1>3 DEF Registration

\* Wrapping changes the secret a credential is known by and nothing else.
LEMMA WrappedIs ==
  ASSUME NEW c \in Credential, NEW s \in Nat
  PROVE  /\ [c EXCEPT !.secret = s] \in Credential /\ [c EXCEPT !.secret = s].secret = s
         /\ [c EXCEPT !.secret = s].kind = c.kind /\ [c EXCEPT !.secret = s].born = c.born
BY DEF Credential

\* findCredentialIdByRpAndUser finds nothing, does not look, or finds one record of the user.
LEMMA FoundOld ==
  ASSUME Finite, FindOld
  PROVE  \/ Goto("save") /\ UNCHANGED doubled /\ \A c \in passkeys : ~(c.rp = req.rp /\ c.user = req.user)
         \/ Goto("save") /\ Doubled
         \/ /\ pc' = "deleteOld" /\ UNCHANGED <<req, cred, ctr, verified, doubled>>
            /\ \E c \in passkeys : c.rp = req.rp /\ c.user = req.user /\ matched' = <<c>>
<1>1. CASE OldRecords = {} /\ Goto("save") /\ UNCHANGED doubled
    BY <1>1 DEF OldRecords
<1>2. CASE Goto("save") /\ Doubled
    BY <1>2
<1>3. CASE /\ OldRecords # {} /\ pc' = "deleteOld" /\ UNCHANGED <<req, cred, ctr, verified, doubled>>
           /\ \E s \in InFileOrder(OldRecords) : matched' = <<s[1]>>
    <2>1. PICK s \in Orderings(OldRecords) : matched' = <<s[1]>>
        BY <1>3 DEF InFileOrder
    <2>2. IsFiniteSet(OldRecords)
        BY FS_Subset DEF Finite, OldRecords
    <2>3. s[1] \in OldRecords
        BY <1>3, <2>1, <2>2, OrderingIsList
    <2>4. s[1] \in passkeys /\ s[1].rp = req.rp /\ s[1].user = req.user
        BY <2>3 DEF OldRecords
    <2> QED BY <1>3, <2>1, <2>4
<1> QED BY <1>1, <1>2, <1>3 DEF FindOld

\* What DoubledOf says of the users.
LEMMA DoubledIs ==
  ASSUME Doubled
  PROVE  /\ doubled' \in {doubled, doubled \cup {<<req.rp, req.user>>}}
         /\ doubled \subseteq doubled'
         /\ <<req.rp, req.user>> \in doubled' \/ \A c \in passkeys : ~(c.rp = req.rp /\ c.user = req.user)
BY DEF Doubled, OldRecords

-----------------------------------------------------------------------------
(* Types.                                                                  *)

\* Every step counts in its range and leads to a place of the code.
LEMMA NumbersKept == Numbers /\ DataAtHand /\ [Next]_vars => Numbers'
<1> SUFFICES ASSUME Numbers /\ DataAtHand, [Next]_vars PROVE Numbers'
    OBVIOUS
<1> USE DEF Numbers, Places, flashVars, ramVars, cmdVars, histVars, faultVars
<1>1. ASSUME NEW rp \in Rps, NEW user \in Users, NEW rk \in BOOLEAN, NEW heavy \in BOOLEAN, NEW exclude \in SUBSET attested, MakeCredential(rp, user, rk, heavy, exclude) PROVE Numbers'
    BY <1>1, AuthAssumption DEF MakeCredential, MakeRequest
<1>2. ASSUME NEW rp \in Rps, U2fRegister(rp) PROVE Numbers'
    BY <1>2, AuthAssumption DEF U2fRegister
<1>3. ASSUME NEW rp \in Rps, NEW allow \in SUBSET attested, GetAssertion(rp, allow) PROVE Numbers'
    BY <1>3, AuthAssumption DEF GetAssertion, CountLeft, LoadCount
<1>4. CASE GetNextAssertion
    BY <1>4, NextOutcome, AuthAssumption DEF CountLeft, LoadCount
<1>5. ASSUME NEW c \in attested, U2fAuthenticate(c) PROVE Numbers'
    BY <1>5, AuthAssumption DEF U2fAuthenticate, CountLeft, LoadCount
<1>6. CASE Reset
    BY <1>6, AuthAssumption DEF Reset
<1>7. ASSUME NEW c \in attested, CredMgmtDelete(c) PROVE Numbers'
    BY <1>7, AuthAssumption DEF CredMgmtDelete
<1>8. CASE Manage
    BY <1>8, AuthAssumption DEF Manage
<1>9. CASE UvMatch
    BY <1>9, AuthAssumption DEF UvMatch, Goto, AfterUv, ResetFailedUvAttempts, Removed, DataAtHand, Registration
<1>10. CASE UvMismatch
    BY <1>10, AuthAssumption DEF UvMismatch, IncrementFailedUvAttempts, UvCount, UvOpen, Finish, WaitsForFinger
<1>11. CASE UvGivesUp
    BY <1>11, AuthAssumption DEF UvGivesUp, Finish
<1>12. CASE Keygen
    BY <1>12, KeygenOutcome, NewCredIs, FinishIs DEF DataAtHand
<1>13. CASE WorkerMissing
    BY <1>13, AuthAssumption DEF WorkerMissing, Goto
<1>14. CASE FindOld
    BY <1>14, AuthAssumption DEF FindOld, Goto
<1>15. CASE DeleteOld
    BY <1>15, DeleteOldOutcome, AuthAssumption DEF Goto
<1>16. CASE Save
    BY <1>16, SaveOutcome, GotoIs, FinishIs
<1>17. CASE Wrap
    BY <1>17, WrapOutcome, FinishIs
<1>18. CASE Attest
    BY <1>18, AttestOutcome, AuthAssumption DEF Finish, LoadCount
<1>19. CASE LoadMatched
    BY <1>19, LoadOutcome, FinishIs
<1>20. CASE Count
    BY <1>20, AuthAssumption DEF Count, LoadCount
<1>21. CASE Sign
    BY <1>21, SignOutcome, GotoIs, FinishIs
<1>22. CASE Send
    BY <1>22, AuthAssumption DEF Send, Finish
<1>23. CASE SendNext
    BY <1>23, AuthAssumption DEF SendNext, Finish
<1>24. CASE ResetFiles
    BY <1>24, AuthAssumption DEF ResetFiles, Goto, Removed
<1>25. CASE RotateSecret
    BY <1>25, AuthAssumption DEF RotateSecret, Goto
<1>26. CASE ResetEnd
    BY <1>26, AuthAssumption DEF ResetEnd, Finish
<1>27. CASE ManageEnd
    BY <1>27, AuthAssumption DEF ManageEnd, Finish
<1>28. CASE CacheExpires
    BY <1>28, AuthAssumption DEF CacheExpires
<1>29. ASSUME NEW rp \in Rps, NEW kind \in {"rk", "u2f"}, CliDeleteSite(rp, kind) PROVE Numbers'
    BY <1>29, AuthAssumption DEF CliDeleteSite, StorageFree
<1>30. CASE CliFactoryReset
    BY <1>30, AuthAssumption DEF CliFactoryReset, StorageFree, Removed
<1>32. CASE Crash
    BY <1>32, AuthAssumption DEF Crash, Finish, NoNext
<1>33. CASE UNCHANGED vars
    BY <1>33 DEF vars
<1> QED BY <1>1, <1>2, <1>3, <1>4, <1>5, <1>6, <1>7, <1>8, <1>9, <1>10, <1>11, <1>12, <1>13,
        <1>14, <1>15, <1>16, <1>17, <1>18, <1>19, <1>20, <1>21, <1>22, <1>23, <1>24, <1>25,
        <1>26, <1>27, <1>28, <1>29, <1>30, <1>32, <1>33 DEF Next, FidoStarts, FidoSteps,
        FidoGoesOn, Others

\* Every step keeps records and lists of credentials.
LEMMA RecordsKept == Numbers /\ Records /\ NextList /\ Finite /\ DataAtHand /\ [Next]_vars => Records'
<1> SUFFICES ASSUME Numbers /\ Records /\ NextList /\ Finite /\ DataAtHand, [Next]_vars PROVE Records'
    OBVIOUS
<1> USE DEF Records, flashVars, ramVars, cmdVars, histVars, faultVars
<1>1. ASSUME NEW rp \in Rps, NEW user \in Users, NEW rk \in BOOLEAN, NEW heavy \in BOOLEAN, NEW exclude \in SUBSET attested, MakeCredential(rp, user, rk, heavy, exclude) PROVE Records'
    BY <1>1 DEF MakeCredential, MakeRequest
<1>2. ASSUME NEW rp \in Rps, U2fRegister(rp) PROVE Records'
    BY <1>2 DEF U2fRegister
<1>3. ASSUME NEW rp \in Rps, NEW allow \in SUBSET attested, GetAssertion(rp, allow) PROVE Records'
    <2>1. matched' \in Seq(Credential)
        BY <1>3, MatchedListed
    <2> QED BY <1>3, <2>1 DEF GetAssertion
<1>4. CASE GetNextAssertion
    <2>1. next.creds[next.idx] \in Credential
        BY <1>4, NextOutcome DEF NextList
    <2>2. cred' \in Credential \cup {NoCred}
        BY <1>4, <2>1, NextOutcome
    <2> QED BY <1>4, <2>2, NextOutcome
<1>5. ASSUME NEW c \in attested, U2fAuthenticate(c) PROVE Records'
    BY <1>5 DEF U2fAuthenticate, CountLeft, LoadCount
<1>6. CASE Reset
    BY <1>6 DEF Reset
<1>7. ASSUME NEW c \in attested, CredMgmtDelete(c) PROVE Records'
    BY <1>7 DEF CredMgmtDelete
<1>8. CASE Manage
    BY <1>8 DEF Manage
<1>9. CASE UvMatch
    BY <1>9 DEF UvMatch, Goto, UvOpen, ResetFailedUvAttempts
<1>10. CASE UvMismatch
    <2>1. CASE WaitsForFinger
        BY <1>10, <2>1 DEF UvMismatch
    <2>2. CASE ~WaitsForFinger
        BY <1>10, <2>2 DEF UvMismatch, Finish
    <2> QED BY <2>1, <2>2
<1>11. CASE UvGivesUp
    BY <1>11 DEF UvGivesUp, Finish
<1>12. CASE Keygen
    <2>1. CASE Finish
        BY <1>12, <2>1, KeygenOutcome DEF Finish
    <2>2. CASE cred' = NewCred /\ UNCHANGED <<req, matched, ctr>>
        <3>1. Registration
            BY <1>12, KeygenOutcome DEF DataAtHand
        <3>2. cred' \in Credential
            BY <2>2, <3>1, NewCredIs
        <3> QED BY <1>12, <2>2, <3>2, KeygenOutcome
    <2> QED BY <1>12, <2>1, <2>2, KeygenOutcome
<1>13. CASE WorkerMissing
    BY <1>13 DEF WorkerMissing, Goto
<1>14. CASE FindOld
    <2>1. matched' \in Seq(Credential) /\ cred' = cred
        <3>1. CASE Goto("save")
            BY <3>1 DEF Goto
        <3>2. CASE cred' = cred /\ \E c \in passkeys : matched' = <<c>>
            BY <3>2
        <3> QED BY <1>14, <3>1, <3>2, FoundOld
    <2> QED BY <1>14, <2>1 DEF FindOld
<1>15. CASE DeleteOld
    <2>1. matched # <<>>
        BY <1>15, DeleteOldOutcome DEF DataAtHand
    <2>2. matched[1] \in Credential
        BY <2>1
    <2>3. passkeys' \subseteq Credential /\ deleted' \subseteq Credential
        BY <1>15, <2>2, DeleteOldOutcome
    <2> QED BY <1>15, <2>3, DeleteOldOutcome DEF Goto
<1>16. CASE Save
    <2>1. cred \in Credential
        BY <1>16, SaveOutcome DEF DataAtHand, Making
    <2>2. CASE Finish /\ UNCHANGED <<passkeys, gone>>
        BY <1>16, <2>2, SaveOutcome DEF Finish
    <2>3. CASE passkeys' = passkeys \cup {cred} /\ gone' = gone /\ Goto("attest")
        BY <1>16, <2>1, <2>3, SaveOutcome DEF Goto
    <2>4. CASE passkeys' = passkeys /\ gone' = gone \cup {cred} /\ Goto("attest")
        BY <1>16, <2>1, <2>4, SaveOutcome DEF Goto
    <2> QED BY <1>16, <2>2, <2>3, <2>4, SaveOutcome
<1>17. CASE Wrap
    <2>1. cred \in Credential
        BY <1>17, WrapOutcome DEF DataAtHand, Making
    <2>2. CASE Finish
        BY <1>17, <2>2, WrapOutcome DEF Finish
    <2>3. CASE (\E s \in {secret, ZeroSecret} : cred' = [cred EXCEPT !.secret = s]) /\ UNCHANGED <<req, matched, ctr>>
        <3>1. PICK s \in {secret, ZeroSecret} : cred' = [cred EXCEPT !.secret = s]
            BY <2>3
        <3>2. s \in Nat
            BY DEF Numbers, ZeroSecret
        <3>3. cred' \in Credential
            BY <2>1, <3>1, <3>2, WrappedIs
        <3> QED BY <1>17, <2>3, <3>3, WrapOutcome
    <2> QED BY <1>17, <2>2, <2>3, WrapOutcome
<1>18. CASE Attest
    <2>1. cred \in Credential
        BY <1>18, AttestOutcome DEF DataAtHand, Making
    <2>2. attested' \subseteq Credential
        BY <1>18, <2>1, AttestOutcome
    <2> QED BY <1>18, <2>2, AttestOutcome DEF Finish
<1>19. CASE LoadMatched
    <2>1. matched[1] \in Credential
        BY <1>19, LoadOutcome DEF DataAtHand
    <2>2. CASE Finish
        BY <1>19, <2>2, LoadOutcome DEF Finish
    <2>3. CASE cred' = matched[1] /\ matched' = <<>>
        BY <1>19, <2>1, <2>3, LoadOutcome
    <2> QED BY <1>19, <2>2, <2>3, LoadOutcome
<1>20. CASE Count
    BY <1>20 DEF Count, LoadCount
<1>21. CASE Sign
    <2>1. CASE Goto("send")
        BY <1>21, <2>1, SignOutcome DEF Goto
    <2>2. CASE Finish
        BY <1>21, <2>2, SignOutcome DEF Finish
    <2> QED BY <1>21, <2>1, <2>2, SignOutcome
<1>22. CASE Send
    BY <1>22 DEF Send, Finish
<1>23. CASE SendNext
    BY <1>23 DEF SendNext, Finish
<1>24. CASE ResetFiles
    BY <1>24 DEF ResetFiles, Goto, Removed
<1>25. CASE RotateSecret
    BY <1>25 DEF RotateSecret, Goto
<1>26. CASE ResetEnd
    BY <1>26 DEF ResetEnd, Finish
<1>27. CASE ManageEnd
    BY <1>27 DEF ManageEnd, Finish
<1>28. CASE CacheExpires
    BY <1>28 DEF CacheExpires
<1>29. ASSUME NEW rp \in Rps, NEW kind \in {"rk", "u2f"}, CliDeleteSite(rp, kind) PROVE Records'
    BY <1>29 DEF CliDeleteSite, StorageFree
<1>30. CASE CliFactoryReset
    BY <1>30 DEF CliFactoryReset, StorageFree, Removed
<1>32. CASE Crash
    BY <1>32 DEF Crash, Finish, NoNext
<1>33. CASE UNCHANGED vars
    BY <1>33 DEF vars
<1> QED BY <1>1, <1>2, <1>3, <1>4, <1>5, <1>6, <1>7, <1>8, <1>9, <1>10, <1>11, <1>12, <1>13,
        <1>14, <1>15, <1>16, <1>17, <1>18, <1>19, <1>20, <1>21, <1>22, <1>23, <1>24, <1>25,
        <1>26, <1>27, <1>28, <1>29, <1>30, <1>32, <1>33 DEF Next, FidoStarts, FidoSteps,
        FidoGoesOn, Others

\* So does what is kept for GetNextAssertion.
LEMMA NextListKept == Records /\ NextList /\ [Next]_vars => NextList'
<1> SUFFICES ASSUME Records /\ NextList, [Next]_vars PROVE NextList'
    OBVIOUS
<1> USE DEF Records, NextList, flashVars, ramVars, cmdVars, histVars, faultVars
<1>1. ASSUME NEW rp \in Rps, NEW user \in Users, NEW rk \in BOOLEAN, NEW heavy \in BOOLEAN, NEW exclude \in SUBSET attested, MakeCredential(rp, user, rk, heavy, exclude) PROVE NextList'
    BY <1>1 DEF MakeCredential, MakeRequest
<1>2. ASSUME NEW rp \in Rps, U2fRegister(rp) PROVE NextList'
    BY <1>2 DEF U2fRegister
<1>3. ASSUME NEW rp \in Rps, NEW allow \in SUBSET attested, GetAssertion(rp, allow) PROVE NextList'
    BY <1>3 DEF GetAssertion, CountLeft, LoadCount
<1>4. CASE GetNextAssertion
    <2> DEFINE left == Left(next.creds, next.idx + 1, next.rp, next.verified)
    <2>1. next' = next \/ next' = left
        BY <1>4, NextOutcome, Zenon
    <2>2. next.creds \in Seq(Credential) /\ next.idx + 1 \in Nat \ {0}
        OBVIOUS
    <2>3. /\ left.creds \in Seq(Credential) /\ left.idx \in Nat \ {0}
          /\ left = [creds |-> left.creds, idx |-> left.idx, rp |-> left.rp, verified |-> left.verified]
        BY <2>2, LeftTyped
    <2> HIDE DEF left
    <2> QED BY <2>1, <2>3, Zenon
<1>5. ASSUME NEW c \in attested, U2fAuthenticate(c) PROVE NextList'
    BY <1>5 DEF U2fAuthenticate, CountLeft, LoadCount
<1>6. CASE Reset
    BY <1>6 DEF Reset
<1>7. ASSUME NEW c \in attested, CredMgmtDelete(c) PROVE NextList'
    BY <1>7 DEF CredMgmtDelete
<1>8. CASE Manage
    BY <1>8 DEF Manage
<1>9. CASE UvMatch
    <2> DEFINE left == Left(next.creds, next.idx, next.rp, TRUE)
    <2>1. next' = next \/ next' = left
        BY <1>9, Zenon DEF UvMatch
    <2>2. next.creds \in Seq(Credential) /\ next.idx \in Nat \ {0}
        OBVIOUS
    <2>3. /\ left.creds \in Seq(Credential) /\ left.idx \in Nat \ {0}
          /\ left = [creds |-> left.creds, idx |-> left.idx, rp |-> left.rp, verified |-> left.verified]
        BY <2>2, LeftTyped
    <2> HIDE DEF left
    <2> QED BY <2>1, <2>3, Zenon
<1>10. CASE UvMismatch
    BY <1>10 DEF UvMismatch, Finish, WaitsForFinger, UvOpen
<1>11. CASE UvGivesUp
    BY <1>11 DEF UvGivesUp, Finish
<1>12. CASE Keygen
    BY <1>12, KeygenOutcome DEF Finish
<1>13. CASE WorkerMissing
    BY <1>13 DEF WorkerMissing, Goto
<1>14. CASE FindOld
    BY <1>14 DEF FindOld, Goto
<1>15. CASE DeleteOld
    BY <1>15, DeleteOldOutcome DEF Goto
<1>16. CASE Save
    BY <1>16, SaveOutcome, GotoIs, FinishIs
<1>17. CASE Wrap
    BY <1>17, WrapOutcome, FinishIs
<1>18. CASE Attest
    BY <1>18, AttestOutcome DEF Finish, LoadCount
<1>19. CASE LoadMatched
    <2> DEFINE left == Left(matched, 2, req.rp, uvCached)
    <2>1. next' = next \/ next' = left
        BY <1>19, LoadOutcome, Zenon
    <2>2. matched \in Seq(Credential) /\ 2 \in Nat \ {0}
        OBVIOUS
    <2>3. /\ left.creds \in Seq(Credential) /\ left.idx \in Nat \ {0}
          /\ left = [creds |-> left.creds, idx |-> left.idx, rp |-> left.rp, verified |-> left.verified]
        <3>1. \A rp, uv : /\ Left(matched, 2, rp, uv).creds \in Seq(Credential)
                         /\ Left(matched, 2, rp, uv).idx \in Nat \ {0}
                         /\ Left(matched, 2, rp, uv) = [creds |-> Left(matched, 2, rp, uv).creds,
                                idx |-> Left(matched, 2, rp, uv).idx, rp |-> Left(matched, 2, rp, uv).rp,
                                verified |-> Left(matched, 2, rp, uv).verified]
            BY <2>2, LeftTyped
        <3> QED BY <3>1, Zenon
    <2> HIDE DEF left
    <2> QED BY <2>1, <2>3, Zenon
<1>20. CASE Count
    BY <1>20 DEF Count, LoadCount
<1>21. CASE Sign
    BY <1>21, SignOutcome, GotoIs, FinishIs
<1>22. CASE Send
    BY <1>22 DEF Send, Finish
<1>23. CASE SendNext
    BY <1>23 DEF SendNext, Finish
<1>24. CASE ResetFiles
    BY <1>24 DEF ResetFiles, Goto, Removed
<1>25. CASE RotateSecret
    BY <1>25 DEF RotateSecret, Goto
<1>26. CASE ResetEnd
    BY <1>26 DEF ResetEnd, Finish
<1>27. CASE ManageEnd
    BY <1>27 DEF ManageEnd, Finish
<1>28. CASE CacheExpires
    BY <1>28 DEF CacheExpires
<1>29. ASSUME NEW rp \in Rps, NEW kind \in {"rk", "u2f"}, CliDeleteSite(rp, kind) PROVE NextList'
    BY <1>29 DEF CliDeleteSite, StorageFree
<1>30. CASE CliFactoryReset
    BY <1>30 DEF CliFactoryReset, StorageFree, Removed
<1>32. CASE Crash
    BY <1>32 DEF Crash, Finish, NoNext
<1>33. CASE UNCHANGED vars
    BY <1>33 DEF vars
<1> QED BY <1>1, <1>2, <1>3, <1>4, <1>5, <1>6, <1>7, <1>8, <1>9, <1>10, <1>11, <1>12, <1>13,
        <1>14, <1>15, <1>16, <1>17, <1>18, <1>19, <1>20, <1>21, <1>22, <1>23, <1>24, <1>25,
        <1>26, <1>27, <1>28, <1>29, <1>30, <1>32, <1>33 DEF Next, FidoStarts, FidoSteps,
        FidoGoesOn, Others

\* Flags are flags.
LEMMA FlagsKept == Records /\ NextList /\ Flags /\ [Next]_vars => Flags'
<1> SUFFICES ASSUME Records /\ NextList /\ Flags, [Next]_vars PROVE Flags'
    OBVIOUS
<1> USE DEF Flags, flashVars, ramVars, cmdVars, histVars, faultVars
<1>1. ASSUME NEW rp \in Rps, NEW user \in Users, NEW rk \in BOOLEAN, NEW heavy \in BOOLEAN, NEW exclude \in SUBSET attested, MakeCredential(rp, user, rk, heavy, exclude) PROVE Flags'
    BY <1>1, Zenon DEF MakeCredential
<1>2. ASSUME NEW rp \in Rps, U2fRegister(rp) PROVE Flags'
    BY <1>2, Zenon DEF U2fRegister
<1>3. ASSUME NEW rp \in Rps, NEW allow \in SUBSET attested, GetAssertion(rp, allow) PROVE Flags'
    BY <1>3, Zenon DEF GetAssertion
<1>4. CASE GetNextAssertion
    <2>1. next' = next \/ next' = Left(next.creds, next.idx + 1, next.rp, next.verified)
        BY <1>4, NextOutcome, Zenon
    <2>2. next'.verified \in {next.verified, FALSE}
        <3>1. Left(next.creds, next.idx + 1, next.rp, next.verified).verified \in {next.verified, FALSE}
            BY LeftIs, Zenon
        <3> QED BY <2>1, <3>1, Zenon
    <2>3. uvCached' \in BOOLEAN /\ verified' \in BOOLEAN
        BY <1>4, NextOutcome, Zenon
    <2> QED BY <2>2, <2>3, Zenon
<1>5. ASSUME NEW c \in attested, U2fAuthenticate(c) PROVE Flags'
    BY <1>5, Zenon DEF U2fAuthenticate
<1>6. CASE Reset
    BY <1>6, Zenon DEF Reset
<1>7. ASSUME NEW c \in attested, CredMgmtDelete(c) PROVE Flags'
    BY <1>7, Zenon DEF CredMgmtDelete
<1>8. CASE Manage
    BY <1>8, Zenon DEF Manage
<1>9. CASE UvMatch
    <2>1. next' = next \/ next' = Left(next.creds, next.idx, next.rp, TRUE)
        BY <1>9, Zenon DEF UvMatch
    <2>2. next'.verified \in {next.verified, TRUE, FALSE}
        <3>1. Left(next.creds, next.idx, next.rp, TRUE).verified \in {TRUE, FALSE}
            BY LeftIs, Zenon
        <3> QED BY <2>1, <3>1, Zenon
    <2>3. uvCached' \in BOOLEAN /\ verified' \in BOOLEAN
        BY <1>9, Zenon DEF UvMatch
    <2> QED BY <2>2, <2>3, Zenon
<1>10. CASE UvMismatch
    BY <1>10, Zenon DEF UvMismatch, Finish, Goto
<1>11. CASE UvGivesUp
    BY <1>11, Zenon DEF UvGivesUp, Finish, Goto
<1>12. CASE Keygen
    BY <1>12, KeygenOutcome, Zenon DEF Finish, Goto
<1>13. CASE WorkerMissing
    BY <1>13, Zenon DEF WorkerMissing, Finish, Goto
<1>14. CASE FindOld
    BY <1>14, Zenon DEF FindOld, Finish, Goto
<1>15. CASE DeleteOld
    BY <1>15, DeleteOldOutcome, Zenon
<1>16. CASE Save
    BY <1>16, SaveOutcome, Zenon DEF Finish, Goto
<1>17. CASE Wrap
    BY <1>17, WrapOutcome, Zenon DEF Finish, Goto
<1>18. CASE Attest
    BY <1>18, AttestOutcome, Zenon DEF Finish, Goto
<1>19. CASE LoadMatched
    <2>1. next' = next \/ next' = Left(matched, 2, req.rp, uvCached)
        BY <1>19, LoadOutcome, Zenon
    <2>2. next'.verified \in {next.verified, uvCached, FALSE}
        <3>1. Left(matched, 2, req.rp, uvCached).verified \in {uvCached, FALSE}
            BY LeftIs, Zenon
        <3> QED BY <2>1, <3>1, Zenon
    <2>3. uvCached' \in BOOLEAN /\ verified' \in BOOLEAN
        BY <1>19, LoadOutcome, Zenon DEF Finish
    <2> QED BY <2>2, <2>3, Zenon
<1>20. CASE Count
    BY <1>20, Zenon DEF Count
<1>21. CASE Sign
    BY <1>21, SignOutcome, Zenon DEF Finish, Goto
<1>22. CASE Send
    BY <1>22, Zenon DEF Send, Finish, Goto
<1>23. CASE SendNext
    BY <1>23, Zenon DEF SendNext, Finish, Goto
<1>24. CASE ResetFiles
    BY <1>24, Zenon DEF ResetFiles, Finish, Goto
<1>25. CASE RotateSecret
    BY <1>25, Zenon DEF RotateSecret, Finish, Goto
<1>26. CASE ResetEnd
    BY <1>26, Zenon DEF ResetEnd, Finish, Goto
<1>27. CASE ManageEnd
    BY <1>27, Zenon DEF ManageEnd, Finish, Goto
<1>28. CASE CacheExpires
    BY <1>28, Zenon DEF CacheExpires
<1>29. ASSUME NEW rp \in Rps, NEW kind \in {"rk", "u2f"}, CliDeleteSite(rp, kind) PROVE Flags'
    BY <1>29, Zenon DEF CliDeleteSite
<1>30. CASE CliFactoryReset
    BY <1>30, Zenon DEF CliFactoryReset
<1>32. CASE Crash
    <2>1. next'.verified = FALSE
        BY <1>32 DEF Crash, NextList, NoNext
    <2> QED BY <1>32, <2>1, Zenon DEF Crash, Finish
<1>33. CASE UNCHANGED vars
    BY <1>33, Zenon DEF vars
<1> QED BY <1>1, <1>2, <1>3, <1>4, <1>5, <1>6, <1>7, <1>8, <1>9, <1>10, <1>11, <1>12, <1>13,
        <1>14, <1>15, <1>16, <1>17, <1>18, <1>19, <1>20, <1>21, <1>22, <1>23, <1>24, <1>25,
        <1>26, <1>27, <1>28, <1>29, <1>30, <1>32, <1>33 DEF Next, FidoStarts, FidoSteps,
        FidoGoesOn, Others

\* The faults were about users and secrets.
LEMMA FaultedKept == Numbers /\ DataAtHand /\ Faulted /\ [Next]_vars => Faulted'
<1> SUFFICES ASSUME Numbers /\ DataAtHand /\ Faulted, [Next]_vars PROVE Faulted'
    OBVIOUS
<1> USE DEF Numbers, Faulted, flashVars, ramVars, cmdVars, histVars, faultVars
<1>1. ASSUME NEW rp \in Rps, NEW user \in Users, NEW rk \in BOOLEAN, NEW heavy \in BOOLEAN, NEW exclude \in SUBSET attested, MakeCredential(rp, user, rk, heavy, exclude) PROVE Faulted'
    BY <1>1 DEF MakeCredential
<1>2. ASSUME NEW rp \in Rps, U2fRegister(rp) PROVE Faulted'
    BY <1>2 DEF U2fRegister
<1>3. ASSUME NEW rp \in Rps, NEW allow \in SUBSET attested, GetAssertion(rp, allow) PROVE Faulted'
    BY <1>3 DEF GetAssertion
<1>4. CASE GetNextAssertion
    BY <1>4, NextOutcome
<1>5. ASSUME NEW c \in attested, U2fAuthenticate(c) PROVE Faulted'
    BY <1>5 DEF U2fAuthenticate
<1>6. CASE Reset
    BY <1>6 DEF Reset
<1>7. ASSUME NEW c \in attested, CredMgmtDelete(c) PROVE Faulted'
    BY <1>7 DEF CredMgmtDelete
<1>8. CASE Manage
    BY <1>8 DEF Manage
<1>9. CASE UvMatch
    BY <1>9 DEF UvMatch
<1>10. CASE UvMismatch
    BY <1>10 DEF UvMismatch
<1>11. CASE UvGivesUp
    BY <1>11 DEF UvGivesUp
<1>12. CASE Keygen
    BY <1>12, KeygenOutcome
<1>13. CASE WorkerMissing
    BY <1>13 DEF WorkerMissing
<1>14. CASE FindOld
    BY <1>14, DoubledIs DEF FindOld, DataAtHand, Making, Registration
<1>15. CASE DeleteOld
    <2>1. req.rp \in Rps /\ req.user \in Users
        BY <1>15, DeleteOldOutcome DEF DataAtHand, Making, Registration
    <2>2. doubled' \in {doubled, doubled \cup {<<req.rp, req.user>>}} /\ unrotated' = unrotated
        BY <1>15, DeleteOldOutcome, DoubledIs
    <2> QED BY <2>1, <2>2
<1>16. CASE Save
    BY <1>16, SaveOutcome
<1>17. CASE Wrap
    BY <1>17, WrapOutcome
<1>18. CASE Attest
    BY <1>18, AttestOutcome
<1>19. CASE LoadMatched
    BY <1>19, LoadOutcome
<1>20. CASE Count
    BY <1>20 DEF Count
<1>21. CASE Sign
    BY <1>21, SignOutcome
<1>22. CASE Send
    BY <1>22 DEF Send
<1>23. CASE SendNext
    BY <1>23 DEF SendNext
<1>24. CASE ResetFiles
    BY <1>24 DEF ResetFiles
<1>25. CASE RotateSecret
    BY <1>25 DEF RotateSecret
<1>26. CASE ResetEnd
    BY <1>26 DEF ResetEnd
<1>27. CASE ManageEnd
    BY <1>27 DEF ManageEnd
<1>28. CASE CacheExpires
    BY <1>28 DEF CacheExpires
<1>29. ASSUME NEW rp \in Rps, NEW kind \in {"rk", "u2f"}, CliDeleteSite(rp, kind) PROVE Faulted'
    BY <1>29 DEF CliDeleteSite
<1>30. CASE CliFactoryReset
    BY <1>30 DEF CliFactoryReset
<1>32. CASE Crash
    BY <1>32 DEF Crash
<1>33. CASE UNCHANGED vars
    BY <1>33 DEF vars
<1> QED BY <1>1, <1>2, <1>3, <1>4, <1>5, <1>6, <1>7, <1>8, <1>9, <1>10, <1>11, <1>12, <1>13,
        <1>14, <1>15, <1>16, <1>17, <1>18, <1>19, <1>20, <1>21, <1>22, <1>23, <1>24, <1>25,
        <1>26, <1>27, <1>28, <1>29, <1>30, <1>32, <1>33 DEF Next, FidoStarts, FidoSteps,
        FidoGoesOn, Others

\* The files stay finite.
LEMMA FiniteKept == Finite /\ [Next]_vars => Finite'
<1> SUFFICES ASSUME Finite, [Next]_vars PROVE Finite'
    OBVIOUS
<1> USE DEF Finite, flashVars, ramVars, cmdVars, histVars, faultVars
<1>1. ASSUME NEW rp \in Rps, NEW user \in Users, NEW rk \in BOOLEAN, NEW heavy \in BOOLEAN, NEW exclude \in SUBSET attested, MakeCredential(rp, user, rk, heavy, exclude) PROVE Finite'
    BY <1>1 DEF MakeCredential
<1>2. ASSUME NEW rp \in Rps, U2fRegister(rp) PROVE Finite'
    BY <1>2 DEF U2fRegister
<1>3. ASSUME NEW rp \in Rps, NEW allow \in SUBSET attested, GetAssertion(rp, allow) PROVE Finite'
    BY <1>3 DEF GetAssertion
<1>4. CASE GetNextAssertion
    BY <1>4, NextOutcome
<1>5. ASSUME NEW c \in attested, U2fAuthenticate(c) PROVE Finite'
    BY <1>5 DEF U2fAuthenticate
<1>6. CASE Reset
    BY <1>6 DEF Reset
<1>7. ASSUME NEW c \in attested, CredMgmtDelete(c) PROVE Finite'
    BY <1>7, FS_Subset DEF CredMgmtDelete
<1>8. CASE Manage
    BY <1>8 DEF Manage
<1>9. CASE UvMatch
    BY <1>9 DEF UvMatch
<1>10. CASE UvMismatch
    BY <1>10 DEF UvMismatch
<1>11. CASE UvGivesUp
    BY <1>11 DEF UvGivesUp
<1>12. CASE Keygen
    BY <1>12, KeygenOutcome
<1>13. CASE WorkerMissing
    BY <1>13 DEF WorkerMissing
<1>14. CASE FindOld
    BY <1>14 DEF FindOld
<1>15. CASE DeleteOld
    BY <1>15, DeleteOldOutcome, FS_Subset
<1>16. CASE Save
    <2>1. IsFiniteSet(passkeys \cup {cred})
        BY FS_AddElement
    <2> QED BY <1>16, <2>1, SaveOutcome
<1>17. CASE Wrap
    BY <1>17, WrapOutcome
<1>18. CASE Attest
    <2>1. IsFiniteSet(attested \cup {cred})
        BY FS_AddElement
    <2> QED BY <1>18, <2>1, AttestOutcome
<1>19. CASE LoadMatched
    BY <1>19, LoadOutcome
<1>20. CASE Count
    BY <1>20 DEF Count
<1>21. CASE Sign
    BY <1>21, SignOutcome
<1>22. CASE Send
    BY <1>22 DEF Send
<1>23. CASE SendNext
    BY <1>23 DEF SendNext
<1>24. CASE ResetFiles
    BY <1>24, FS_EmptySet DEF ResetFiles, Removed
<1>25. CASE RotateSecret
    BY <1>25 DEF RotateSecret
<1>26. CASE ResetEnd
    BY <1>26 DEF ResetEnd
<1>27. CASE ManageEnd
    BY <1>27 DEF ManageEnd
<1>28. CASE CacheExpires
    BY <1>28 DEF CacheExpires
<1>29. ASSUME NEW rp \in Rps, NEW kind \in {"rk", "u2f"}, CliDeleteSite(rp, kind) PROVE Finite'
    BY <1>29, FS_Subset DEF CliDeleteSite
<1>30. CASE CliFactoryReset
    BY <1>30, FS_EmptySet DEF CliFactoryReset, Removed
<1>32. CASE Crash
    BY <1>32, FS_EmptySet DEF Crash
<1>33. CASE UNCHANGED vars
    BY <1>33 DEF vars
<1> QED BY <1>1, <1>2, <1>3, <1>4, <1>5, <1>6, <1>7, <1>8, <1>9, <1>10, <1>11, <1>12, <1>13,
        <1>14, <1>15, <1>16, <1>17, <1>18, <1>19, <1>20, <1>21, <1>22, <1>23, <1>24, <1>25,
        <1>26, <1>27, <1>28, <1>29, <1>30, <1>32, <1>33 DEF Next, FidoStarts, FidoSteps,
        FidoGoesOn, Others

\* Each step hands the next what it needs.
LEMMA DataKept == Numbers /\ Records /\ NextList /\ Finite /\ DataAtHand /\ [Next]_vars => DataAtHand'
<1> SUFFICES ASSUME Numbers /\ Records /\ NextList /\ Finite /\ DataAtHand, [Next]_vars PROVE DataAtHand'
    OBVIOUS
<1> USE DEF DataAtHand, Making, InUse, Registration, flashVars, ramVars, cmdVars, histVars, faultVars
<1>1. ASSUME NEW rp \in Rps, NEW user \in Users, NEW rk \in BOOLEAN, NEW heavy \in BOOLEAN, NEW exclude \in SUBSET attested, MakeCredential(rp, user, rk, heavy, exclude) PROVE DataAtHand'
    BY <1>1 DEF MakeCredential, MakeRequest
<1>2. ASSUME NEW rp \in Rps, U2fRegister(rp) PROVE DataAtHand'
    BY <1>2 DEF U2fRegister
<1>3. ASSUME NEW rp \in Rps, NEW allow \in SUBSET attested, GetAssertion(rp, allow) PROVE DataAtHand'
    BY <1>3, MatchedListed DEF GetAssertion
<1>4. CASE GetNextAssertion
    <2>1. next.creds[next.idx] \in Credential
        BY <1>4, NextOutcome DEF NextList
    <2> QED BY <1>4, <2>1, NextOutcome
<1>5. ASSUME NEW c \in attested, U2fAuthenticate(c) PROVE DataAtHand'
    BY <1>5 DEF U2fAuthenticate, Records
<1>6. CASE Reset
    BY <1>6 DEF Reset
<1>7. ASSUME NEW c \in attested, CredMgmtDelete(c) PROVE DataAtHand'
    BY <1>7 DEF CredMgmtDelete
<1>8. CASE Manage
    BY <1>8 DEF Manage
<1>9. CASE UvMatch
    BY <1>9 DEF UvMatch, Goto, AfterUv, UvOpen, ResetFailedUvAttempts
<1>10. CASE UvMismatch
    BY <1>10 DEF UvMismatch, Finish, WaitsForFinger, UvOpen
<1>11. CASE UvGivesUp
    BY <1>11 DEF UvGivesUp, Finish
<1>12. CASE Keygen
    BY <1>12, KeygenOutcome, NewCredIs DEF Finish
<1>13. CASE WorkerMissing
    BY <1>13 DEF WorkerMissing, Goto
<1>14. CASE FindOld
    <2>1. CASE Goto("save")
        BY <1>14, <2>1 DEF FindOld, Goto
    <2>2. CASE pc' = "deleteOld" /\ UNCHANGED <<req, cred, ctr>> /\ \E c \in passkeys : matched' = <<c>>
        BY <1>14, <2>2 DEF FindOld
    <2> QED BY <1>14, <2>1, <2>2, FoundOld
<1>15. CASE DeleteOld
    BY <1>15, DeleteOldOutcome DEF Goto
<1>16. CASE Save
    BY <1>16, SaveOutcome, GotoIs, FinishIs
<1>17. CASE Wrap
    <2>1. cred \in Credential
        BY <1>17, WrapOutcome
    <2>2. \A s \in {secret, ZeroSecret} : [cred EXCEPT !.secret = s] \in Credential
        BY <2>1, WrappedIs DEF Numbers, ZeroSecret
    <2> QED BY <1>17, <2>2, WrapOutcome DEF Finish
<1>18. CASE Attest
    BY <1>18, AttestOutcome DEF Finish, LoadCount
<1>19. CASE LoadMatched
    <2>1. matched[1] \in Credential
        BY <1>19, LoadOutcome DEF Records
    <2> QED BY <1>19, <2>1, LoadOutcome DEF Finish
<1>20. CASE Count
    BY <1>20 DEF Count, LoadCount
<1>21. CASE Sign
    BY <1>21, SignOutcome, GotoIs, FinishIs
<1>22. CASE Send
    BY <1>22 DEF Send, Finish
<1>23. CASE SendNext
    BY <1>23 DEF SendNext, Finish
<1>24. CASE ResetFiles
    BY <1>24 DEF ResetFiles, Goto, Removed
<1>25. CASE RotateSecret
    BY <1>25 DEF RotateSecret, Goto
<1>26. CASE ResetEnd
    BY <1>26 DEF ResetEnd, Finish
<1>27. CASE ManageEnd
    BY <1>27 DEF ManageEnd, Finish
<1>28. CASE CacheExpires
    BY <1>28 DEF CacheExpires
<1>29. ASSUME NEW rp \in Rps, NEW kind \in {"rk", "u2f"}, CliDeleteSite(rp, kind) PROVE DataAtHand'
    BY <1>29 DEF CliDeleteSite, StorageFree
<1>30. CASE CliFactoryReset
    BY <1>30 DEF CliFactoryReset, StorageFree, Removed
<1>32. CASE Crash
    BY <1>32 DEF Crash, Finish, NoNext
<1>33. CASE UNCHANGED vars
    BY <1>33 DEF vars
<1> QED BY <1>1, <1>2, <1>3, <1>4, <1>5, <1>6, <1>7, <1>8, <1>9, <1>10, <1>11, <1>12, <1>13,
        <1>14, <1>15, <1>16, <1>17, <1>18, <1>19, <1>20, <1>21, <1>22, <1>23, <1>24, <1>25,
        <1>26, <1>27, <1>28, <1>29, <1>30, <1>32, <1>33 DEF Next, FidoStarts, FidoSteps,
        FidoGoesOn, Others

\* A count is saved before it is signed, and no count is told twice.
LEMMA CountKept == Numbers /\ DataAtHand /\ CountKnown /\ [Next]_vars => CountKnown'
<1> SUFFICES ASSUME Numbers /\ DataAtHand /\ CountKnown, [Next]_vars PROVE CountKnown'
    OBVIOUS
<1> USE DEF Numbers, DataAtHand, Making, InUse, Registration, CountKnown, LoadCount, CountLeft, flashVars, ramVars, cmdVars, histVars, faultVars
<1>1. ASSUME NEW rp \in Rps, NEW user \in Users, NEW rk \in BOOLEAN, NEW heavy \in BOOLEAN, NEW exclude \in SUBSET attested, MakeCredential(rp, user, rk, heavy, exclude) PROVE CountKnown'
    BY <1>1 DEF MakeCredential, MakeRequest
<1>2. ASSUME NEW rp \in Rps, U2fRegister(rp) PROVE CountKnown'
    BY <1>2 DEF U2fRegister
<1>3. ASSUME NEW rp \in Rps, NEW allow \in SUBSET attested, GetAssertion(rp, allow) PROVE CountKnown'
    BY <1>3 DEF GetAssertion, CountLeft, LoadCount
<1>4. CASE GetNextAssertion
    BY <1>4, NextOutcome DEF CountLeft, LoadCount
<1>5. ASSUME NEW c \in attested, U2fAuthenticate(c) PROVE CountKnown'
    BY <1>5 DEF U2fAuthenticate, CountLeft, LoadCount
<1>6. CASE Reset
    BY <1>6 DEF Reset
<1>7. ASSUME NEW c \in attested, CredMgmtDelete(c) PROVE CountKnown'
    BY <1>7 DEF CredMgmtDelete
<1>8. CASE Manage
    BY <1>8 DEF Manage
<1>9. CASE UvMatch
    BY <1>9 DEF UvMatch, Goto, AfterUv, UvOpen, ResetFailedUvAttempts
<1>10. CASE UvMismatch
    BY <1>10 DEF UvMismatch, Finish, WaitsForFinger, UvOpen
<1>11. CASE UvGivesUp
    BY <1>11 DEF UvGivesUp, Finish
<1>12. CASE Keygen
    BY <1>12, KeygenOutcome, NewCredIs DEF Finish, LoadCount, CountLeft
<1>13. CASE WorkerMissing
    BY <1>13 DEF WorkerMissing, Goto
<1>14. CASE FindOld
    BY <1>14 DEF FindOld, Goto
<1>15. CASE DeleteOld
    BY <1>15, DeleteOldOutcome DEF Goto
<1>16. CASE Save
    BY <1>16, SaveOutcome, GotoIs, FinishIs
<1>17. CASE Wrap
    BY <1>17, WrapOutcome, FinishIs
<1>18. CASE Attest
    BY <1>18, AttestOutcome DEF Finish, LoadCount
<1>19. CASE LoadMatched
    BY <1>19, LoadOutcome DEF Finish
<1>20. CASE Count
    BY <1>20 DEF Count, LoadCount
<1>21. CASE Sign
    BY <1>21, SignOutcome, GotoIs, FinishIs
<1>22. CASE Send
    BY <1>22 DEF Send, Finish
<1>23. CASE SendNext
    BY <1>23 DEF SendNext, Finish
<1>24. CASE ResetFiles
    BY <1>24 DEF ResetFiles, Goto, Removed
<1>25. CASE RotateSecret
    BY <1>25 DEF RotateSecret, Goto
<1>26. CASE ResetEnd
    BY <1>26 DEF ResetEnd, Finish
<1>27. CASE ManageEnd
    BY <1>27 DEF ManageEnd, Finish
<1>28. CASE CacheExpires
    BY <1>28 DEF CacheExpires
<1>29. ASSUME NEW rp \in Rps, NEW kind \in {"rk", "u2f"}, CliDeleteSite(rp, kind) PROVE CountKnown'
    BY <1>29 DEF CliDeleteSite, StorageFree
<1>30. CASE CliFactoryReset
    BY <1>30 DEF CliFactoryReset, StorageFree, Removed
<1>32. CASE Crash
    BY <1>32 DEF Crash, Finish, NoNext
<1>33. CASE UNCHANGED vars
    BY <1>33 DEF vars
<1> QED BY <1>1, <1>2, <1>3, <1>4, <1>5, <1>6, <1>7, <1>8, <1>9, <1>10, <1>11, <1>12, <1>13,
        <1>14, <1>15, <1>16, <1>17, <1>18, <1>19, <1>20, <1>21, <1>22, <1>23, <1>24, <1>25,
        <1>26, <1>27, <1>28, <1>29, <1>30, <1>32, <1>33 DEF Next, FidoStarts, FidoSteps,
        FidoGoesOn, Others

\* A record is written before its credential is attested.
LEMMA WrittenKept == Numbers /\ DataAtHand /\ Written /\ AttestedOnFile /\ [Next]_vars => (Written /\ AttestedOnFile)'
<1> SUFFICES ASSUME Numbers /\ DataAtHand /\ Written /\ AttestedOnFile, [Next]_vars PROVE (Written /\ AttestedOnFile)'
    OBVIOUS
<1> USE DEF Written, AttestedOnFile, flashVars, ramVars, cmdVars, histVars, faultVars
<1>1. ASSUME NEW rp \in Rps, NEW user \in Users, NEW rk \in BOOLEAN, NEW heavy \in BOOLEAN, NEW exclude \in SUBSET attested, MakeCredential(rp, user, rk, heavy, exclude) PROVE (Written /\ AttestedOnFile)'
    BY <1>1 DEF MakeCredential, MakeRequest
<1>2. ASSUME NEW rp \in Rps, U2fRegister(rp) PROVE (Written /\ AttestedOnFile)'
    BY <1>2 DEF U2fRegister
<1>3. ASSUME NEW rp \in Rps, NEW allow \in SUBSET attested, GetAssertion(rp, allow) PROVE (Written /\ AttestedOnFile)'
    BY <1>3 DEF GetAssertion, CountLeft, LoadCount
<1>4. CASE GetNextAssertion
    BY <1>4, NextOutcome DEF CountLeft, LoadCount
<1>5. ASSUME NEW c \in attested, U2fAuthenticate(c) PROVE (Written /\ AttestedOnFile)'
    BY <1>5 DEF U2fAuthenticate, CountLeft, LoadCount
<1>6. CASE Reset
    BY <1>6 DEF Reset
<1>7. ASSUME NEW c \in attested, CredMgmtDelete(c) PROVE (Written /\ AttestedOnFile)'
    BY <1>7 DEF CredMgmtDelete
<1>8. CASE Manage
    BY <1>8 DEF Manage
<1>9. CASE UvMatch
    BY <1>9 DEF UvMatch, Goto, AfterUv, DataAtHand, Registration
<1>10. CASE UvMismatch
    BY <1>10 DEF UvMismatch, Finish, WaitsForFinger, UvOpen
<1>11. CASE UvGivesUp
    BY <1>11 DEF UvGivesUp, Finish
<1>12. CASE Keygen
    BY <1>12, KeygenOutcome, NewCredIs, FinishIs DEF DataAtHand
<1>13. CASE WorkerMissing
    BY <1>13 DEF WorkerMissing, Goto
<1>14. CASE FindOld
    BY <1>14 DEF FindOld, Goto
<1>15. CASE DeleteOld
    BY <1>15, DeleteOldOutcome DEF Goto
<1>16. CASE Save
    BY <1>16, SaveOutcome, GotoIs, FinishIs
<1>17. CASE Wrap
    <2>1. cred \in Credential
        BY <1>17, WrapOutcome DEF DataAtHand, Making
    <2>2. \A s \in {secret, ZeroSecret} : [cred EXCEPT !.secret = s].kind = cred.kind
        BY <2>1, WrappedIs DEF Numbers, ZeroSecret
    <2> QED BY <1>17, <2>2, WrapOutcome DEF Finish
<1>18. CASE Attest
    BY <1>18, AttestOutcome DEF Finish, LoadCount
<1>19. CASE LoadMatched
    BY <1>19, LoadOutcome DEF Finish
<1>20. CASE Count
    BY <1>20 DEF Count, LoadCount
<1>21. CASE Sign
    BY <1>21, SignOutcome, GotoIs, FinishIs
<1>22. CASE Send
    BY <1>22 DEF Send, Finish
<1>23. CASE SendNext
    BY <1>23 DEF SendNext, Finish
<1>24. CASE ResetFiles
    BY <1>24 DEF ResetFiles, Goto, Removed
<1>25. CASE RotateSecret
    BY <1>25 DEF RotateSecret, Goto
<1>26. CASE ResetEnd
    BY <1>26 DEF ResetEnd, Finish
<1>27. CASE ManageEnd
    BY <1>27 DEF ManageEnd, Finish
<1>28. CASE CacheExpires
    BY <1>28 DEF CacheExpires
<1>29. ASSUME NEW rp \in Rps, NEW kind \in {"rk", "u2f"}, CliDeleteSite(rp, kind) PROVE (Written /\ AttestedOnFile)'
    BY <1>29 DEF CliDeleteSite, StorageFree
<1>30. CASE CliFactoryReset
    BY <1>30 DEF CliFactoryReset, StorageFree, Removed
<1>32. CASE Crash
    BY <1>32 DEF Crash, Finish, NoNext
<1>33. CASE UNCHANGED vars
    BY <1>33 DEF vars
<1> QED BY <1>1, <1>2, <1>3, <1>4, <1>5, <1>6, <1>7, <1>8, <1>9, <1>10, <1>11, <1>12, <1>13,
        <1>14, <1>15, <1>16, <1>17, <1>18, <1>19, <1>20, <1>21, <1>22, <1>23, <1>24, <1>25,
        <1>26, <1>27, <1>28, <1>29, <1>30, <1>32, <1>33 DEF Next, FidoStarts, FidoSteps,
        FidoGoesOn, Others

\* No known credential is wrapped under the master secret of another epoch.
LEMMA WrappedKept == Types /\ Finite /\ DataAtHand /\ Wrapped /\ Born /\ [Next]_vars => Wrapped'
<1> SUFFICES ASSUME Types /\ Finite /\ DataAtHand /\ Wrapped /\ Born, [Next]_vars PROVE Wrapped'
    OBVIOUS
<1> USE DEF Types, Numbers, Records, Wrapped, Fresh, Survives, ZeroSecret, Born, Making, flashVars, ramVars, cmdVars, histVars, faultVars
<1>1. ASSUME NEW rp \in Rps, NEW user \in Users, NEW rk \in BOOLEAN, NEW heavy \in BOOLEAN, NEW exclude \in SUBSET attested, MakeCredential(rp, user, rk, heavy, exclude) PROVE Wrapped'
    BY <1>1 DEF MakeCredential, MakeRequest
<1>2. ASSUME NEW rp \in Rps, U2fRegister(rp) PROVE Wrapped'
    BY <1>2 DEF U2fRegister
<1>3. ASSUME NEW rp \in Rps, NEW allow \in SUBSET attested, GetAssertion(rp, allow) PROVE Wrapped'
    BY <1>3, MatchedListed DEF GetAssertion
<1>4. CASE GetNextAssertion
    <2>1. next'.creds \in {next.creds, <<>>}
        <3>1. next' = Left(next.creds, next.idx + 1, next.rp, next.verified)
            BY <1>4, NextOutcome, Zenon
        <3>2. Left(next.creds, next.idx + 1, next.rp, next.verified).creds \in {next.creds, <<>>}
            BY LeftIs, Zenon
        <3> QED BY <3>1, <3>2, Zenon
    <2>2. UNCHANGED <<passkeys, attested, matched, secret, resetDone, unremoved, unrotated>> /\ pc' # "resetEnd"
        BY <1>4, NextOutcome
    <2> QED BY <2>1, <2>2
<1>5. ASSUME NEW c \in attested, U2fAuthenticate(c) PROVE Wrapped'
    BY <1>5 DEF U2fAuthenticate, CountLeft, LoadCount
<1>6. CASE Reset
    BY <1>6 DEF Reset
<1>7. ASSUME NEW c \in attested, CredMgmtDelete(c) PROVE Wrapped'
    BY <1>7 DEF CredMgmtDelete
<1>8. CASE Manage
    BY <1>8 DEF Manage
<1>9. CASE UvMatch
    <2>1. next'.creds \in {next.creds, <<>>} /\ pc' # "resetEnd"
        BY <1>9, LeftIs DEF UvMatch, Goto, AfterUv, DataAtHand, Registration
    <2>2. UNCHANGED <<passkeys, attested, matched, secret, resetDone, unremoved, unrotated>>
        BY <1>9 DEF UvMatch
    <2> QED BY <2>1, <2>2
<1>10. CASE UvMismatch
    BY <1>10 DEF UvMismatch, Finish, WaitsForFinger, UvOpen
<1>11. CASE UvGivesUp
    BY <1>11 DEF UvGivesUp, Finish
<1>12. CASE Keygen
    <2>1. pc' # "resetEnd"
        BY <1>12, KeygenOutcome, NewCredIs DEF Finish, DataAtHand
    <2> QED BY <1>12, <2>1, KeygenOutcome, FinishIs
<1>13. CASE WorkerMissing
    BY <1>13 DEF WorkerMissing, Goto
<1>14. CASE FindOld
    <2>1. CASE Goto("save")
        BY <1>14, <2>1 DEF FindOld, Goto
    <2>2. CASE pc' = "deleteOld" /\ \E c \in passkeys : matched' = <<c>>
        BY <1>14, <2>2 DEF FindOld
    <2> QED BY <1>14, <2>1, <2>2, FoundOld
<1>15. CASE DeleteOld
    BY <1>15, DeleteOldOutcome DEF Goto
<1>16. CASE Save
    BY <1>16, SaveOutcome, GotoIs, FinishIs
<1>17. CASE Wrap
    BY <1>17, WrapOutcome, FinishIs
<1>18. CASE Attest
    BY <1>18, AttestOutcome, FinishIs, SMTT(60)
<1>19. CASE LoadMatched
    <2>1. next'.creds \in {next.creds, matched, <<>>}
        <3>1. next' = next \/ next' = Left(matched, 2, req.rp, uvCached)
            BY <1>19, LoadOutcome, Zenon
        <3>2. Left(matched, 2, req.rp, uvCached).creds \in {matched, <<>>}
            BY LeftIs, Zenon
        <3> QED BY <3>1, <3>2, Zenon
    <2>2. /\ UNCHANGED <<passkeys, attested, secret, resetDone, unremoved, unrotated>>
          /\ matched' = <<>> /\ pc' # "resetEnd"
        BY <1>19, LoadOutcome DEF Finish
    <2> QED BY <2>1, <2>2
<1>20. CASE Count
    BY <1>20 DEF Count, LoadCount
<1>21. CASE Sign
    BY <1>21, SignOutcome, GotoIs, FinishIs
<1>22. CASE Send
    BY <1>22 DEF Send, Finish
<1>23. CASE SendNext
    BY <1>23 DEF SendNext, Finish
<1>24. CASE ResetFiles
    BY <1>24 DEF ResetFiles, Goto, Removed
<1>25. CASE RotateSecret
    <2>1. ASSUME NEW c \in Credential, Fresh(c) PROVE Fresh(c)'
        <3>1. c.secret \in Nat /\ c.secret <= secret
            BY <2>1 DEF Credential
        <3> QED BY <1>25, <3>1 DEF RotateSecret, Goto
    <2>2. UNCHANGED <<attested, passkeys, matched, next>>
        BY <1>25 DEF RotateSecret, Goto
    <2> HIDE DEF Fresh
    <2>3. \A c \in attested \cup passkeys : Fresh(c)'
        BY <2>1
    <2>4. ASSUME NEW i \in 1..Len(matched) PROVE Fresh(matched[i])'
        <3>1. matched[i] \in Credential /\ Fresh(matched[i])
            OBVIOUS
        <3> QED BY <2>1, <2>2, <3>1 DEF Fresh
    <2>5. ASSUME NEW i \in 1..Len(next.creds) PROVE Fresh(next.creds[i])'
        <3>1. next.creds[i] \in Credential /\ Fresh(next.creds[i])
            BY DEF NextList
        <3> QED BY <2>1, <2>2, <3>1 DEF Fresh
    <2> USE DEF Fresh
    <2> QED BY <2>2, <2>3, <2>4, <2>5
<1>26. CASE ResetEnd
    BY <1>26 DEF ResetEnd, Finish
<1>27. CASE ManageEnd
    BY <1>27 DEF ManageEnd, Finish
<1>28. CASE CacheExpires
    BY <1>28 DEF CacheExpires
<1>29. ASSUME NEW rp \in Rps, NEW kind \in {"rk", "u2f"}, CliDeleteSite(rp, kind) PROVE Wrapped'
    BY <1>29 DEF CliDeleteSite, StorageFree
<1>30. CASE CliFactoryReset
    BY <1>30 DEF CliFactoryReset, StorageFree, Removed
<1>32. CASE Crash
    BY <1>32 DEF Crash, Finish, NoNext
<1>33. CASE UNCHANGED vars
    BY <1>33 DEF vars
<1> QED BY ZenonT(60), <1>1, <1>2, <1>3, <1>4, <1>5, <1>6, <1>7, <1>8, <1>9, <1>10, <1>11, <1>12, <1>13,
        <1>14, <1>15, <1>16, <1>17, <1>18, <1>19, <1>20, <1>21, <1>22, <1>23, <1>24, <1>25,
        <1>26, <1>27, <1>28, <1>29, <1>30, <1>32, <1>33 DEF Next, FidoStarts, FidoSteps,
        FidoGoesOn, Others

\* What is on file, in the making or in use was made after the last Reset.
LEMMA BornKept == Types /\ DataAtHand /\ Wrapped /\ Born /\ [Next]_vars => Born'
<1> SUFFICES ASSUME Types /\ DataAtHand /\ Wrapped /\ Born, [Next]_vars PROVE Born'
    OBVIOUS
<1> USE DEF Types, Numbers, Records, Wrapped, Fresh, Survives, ZeroSecret, Born, Making, InUse, flashVars, ramVars, cmdVars, histVars, faultVars
<1>1. ASSUME NEW rp \in Rps, NEW user \in Users, NEW rk \in BOOLEAN, NEW heavy \in BOOLEAN, NEW exclude \in SUBSET attested, MakeCredential(rp, user, rk, heavy, exclude) PROVE Born'
    BY <1>1 DEF MakeCredential, MakeRequest
<1>2. ASSUME NEW rp \in Rps, U2fRegister(rp) PROVE Born'
    BY <1>2 DEF U2fRegister
<1>3. ASSUME NEW rp \in Rps, NEW allow \in SUBSET attested, GetAssertion(rp, allow) PROVE Born'
    BY <1>3 DEF GetAssertion, CountLeft, LoadCount, Unwraps
<1>4. CASE GetNextAssertion
    <2>1. Fresh(next.creds[next.idx])
        BY <1>4, NextOutcome DEF NextList
    <2> QED BY <1>4, <2>1, NextOutcome DEF Unwraps, SecretRead
<1>5. ASSUME NEW c \in attested, U2fAuthenticate(c) PROVE Born'
    BY <1>5 DEF U2fAuthenticate, CountLeft, LoadCount
<1>6. CASE Reset
    BY <1>6 DEF Reset
<1>7. ASSUME NEW c \in attested, CredMgmtDelete(c) PROVE Born'
    BY <1>7 DEF CredMgmtDelete
<1>8. CASE Manage
    BY <1>8 DEF Manage
<1>9. CASE UvMatch
    BY <1>9 DEF UvMatch, Goto, AfterUv, DataAtHand, Registration
<1>10. CASE UvMismatch
    BY <1>10 DEF UvMismatch, Finish, WaitsForFinger, UvOpen
<1>11. CASE UvGivesUp
    BY <1>11 DEF UvGivesUp, Finish
<1>12. CASE Keygen
    BY <1>12, KeygenOutcome, NewCredIs, FinishIs DEF DataAtHand
<1>13. CASE WorkerMissing
    BY <1>13 DEF WorkerMissing, Goto
<1>14. CASE FindOld
    BY <1>14 DEF FindOld, Goto
<1>15. CASE DeleteOld
    BY <1>15, DeleteOldOutcome DEF Goto
<1>16. CASE Save
    BY <1>16, SaveOutcome, GotoIs, FinishIs
<1>17. CASE Wrap
    <2>1. cred \in Credential
        BY <1>17, WrapOutcome DEF DataAtHand
    <2>2. \A s \in {secret, ZeroSecret} :
             [cred EXCEPT !.secret = s].secret = s /\ [cred EXCEPT !.secret = s].born = cred.born
        BY <2>1, WrappedIs
    <2> QED BY <1>17, <2>2, WrapOutcome DEF Finish
<1>18. CASE Attest
    BY <1>18, AttestOutcome DEF Finish, LoadCount
<1>19. CASE LoadMatched
    <2>1. Fresh(matched[1])
        BY <1>19, LoadOutcome DEF DataAtHand
    <2> QED BY <1>19, <2>1, LoadOutcome, FinishIs DEF Unwraps, SecretRead
<1>20. CASE Count
    BY <1>20 DEF Count, LoadCount
<1>21. CASE Sign
    BY <1>21, SignOutcome, GotoIs, FinishIs
<1>22. CASE Send
    BY <1>22 DEF Send, Finish
<1>23. CASE SendNext
    BY <1>23 DEF SendNext, Finish
<1>24. CASE ResetFiles
    BY <1>24 DEF ResetFiles, Goto, Removed
<1>25. CASE RotateSecret
    BY <1>25 DEF RotateSecret, Goto
<1>26. CASE ResetEnd
    BY <1>26 DEF ResetEnd, Finish
<1>27. CASE ManageEnd
    BY <1>27 DEF ManageEnd, Finish
<1>28. CASE CacheExpires
    BY <1>28 DEF CacheExpires
<1>29. ASSUME NEW rp \in Rps, NEW kind \in {"rk", "u2f"}, CliDeleteSite(rp, kind) PROVE Born'
    BY <1>29 DEF CliDeleteSite, StorageFree
<1>30. CASE CliFactoryReset
    BY <1>30 DEF CliFactoryReset, StorageFree, Removed
<1>32. CASE Crash
    BY <1>32 DEF Crash, Finish, NoNext
<1>33. CASE UNCHANGED vars
    BY <1>33 DEF vars
<1> QED BY <1>1, <1>2, <1>3, <1>4, <1>5, <1>6, <1>7, <1>8, <1>9, <1>10, <1>11, <1>12, <1>13,
        <1>14, <1>15, <1>16, <1>17, <1>18, <1>19, <1>20, <1>21, <1>22, <1>23, <1>24, <1>25,
        <1>26, <1>27, <1>28, <1>29, <1>30, <1>32, <1>33 DEF Next, FidoStarts, FidoSteps,
        FidoGoesOn, Others

\* A deleted record does not come back, and is not used.
LEMMA YoungerKept == Types /\ Finite /\ DataAtHand /\ Younger /\ [Next]_vars => Younger'
<1> SUFFICES ASSUME Types /\ Finite /\ DataAtHand /\ Younger, [Next]_vars PROVE Younger'
    OBVIOUS
<1> USE DEF Types, Numbers, Records, Younger, Making, InUse, flashVars, ramVars, cmdVars, histVars, faultVars
<1>1. ASSUME NEW rp \in Rps, NEW user \in Users, NEW rk \in BOOLEAN, NEW heavy \in BOOLEAN, NEW exclude \in SUBSET attested, MakeCredential(rp, user, rk, heavy, exclude) PROVE Younger'
    BY <1>1 DEF MakeCredential, MakeRequest
<1>2. ASSUME NEW rp \in Rps, U2fRegister(rp) PROVE Younger'
    BY <1>2 DEF U2fRegister
<1>3. ASSUME NEW rp \in Rps, NEW allow \in SUBSET attested, GetAssertion(rp, allow) PROVE Younger'
    BY <1>3 DEF GetAssertion, CountLeft, LoadCount, Unwraps
<1>4. CASE GetNextAssertion
    BY <1>4, NextOutcome DEF CountLeft, LoadCount, Unwraps
<1>5. ASSUME NEW c \in attested, U2fAuthenticate(c) PROVE Younger'
    BY <1>5 DEF U2fAuthenticate, CountLeft, LoadCount
<1>6. CASE Reset
    BY <1>6 DEF Reset
<1>7. ASSUME NEW c \in attested, CredMgmtDelete(c) PROVE Younger'
    BY <1>7 DEF CredMgmtDelete
<1>8. CASE Manage
    BY <1>8 DEF Manage
<1>9. CASE UvMatch
    BY <1>9 DEF UvMatch, Goto, AfterUv, DataAtHand, Registration
<1>10. CASE UvMismatch
    BY <1>10 DEF UvMismatch, Finish, WaitsForFinger, UvOpen
<1>11. CASE UvGivesUp
    BY <1>11 DEF UvGivesUp, Finish
<1>12. CASE Keygen
    <2>1. \A c \in passkeys \cup deleted : c.n \in Nat /\ c.n <= made /\ c.n < made + 1
        BY DEF Credential
    <2>2. CASE Finish /\ made' = made
        BY <1>12, <2>2, KeygenOutcome DEF Finish
    <2>3. CASE ~(Finish /\ made' = made)
        <3>1. Registration
            BY <1>12, KeygenOutcome DEF DataAtHand
        <3>2. /\ cred' = NewCred /\ made' = made + 1
              /\ UNCHANGED <<passkeys, deleted, matched>>
              /\ pc' = "save" \/ pc' = "findOld" \/ (pc' = "wrap" /\ NewCred.kind = "sl")
              /\ pc' \in {"save", "findOld"} => NewCred.kind # "sl"
            BY <1>12, <2>3, <3>1, KeygenOutcome, NewCredIs
        <3> QED BY <2>1, <3>1, <3>2, NewCredIs
    <2> QED BY <2>2, <2>3
<1>13. CASE WorkerMissing
    BY <1>13 DEF WorkerMissing, Goto
<1>14. CASE FindOld
    <2>1. CASE Goto("save")
        BY <1>14, <2>1 DEF FindOld, Goto
    <2>2. CASE pc' = "deleteOld" /\ UNCHANGED <<req, cred, ctr>> /\ \E c \in passkeys : matched' = <<c>>
        BY <1>14, <2>2 DEF FindOld
    <2> QED BY <1>14, <2>1, <2>2, FoundOld
<1>15. CASE DeleteOld
    <2>1. CASE passkeys' = passkeys \ {matched[1]} /\ deleted' = deleted \cup {matched[1]}
        <3>1. matched[1] \in Credential /\ matched[1].n < made
            BY <1>15, DeleteOldOutcome DEF DataAtHand
        <3>2. matched[1].n \in Nat /\ matched[1].n <= made
            BY <3>1 DEF Credential
        <3> QED BY <1>15, <2>1, <3>2, DeleteOldOutcome DEF Goto
    <2>2. CASE passkeys' = passkeys /\ deleted' = deleted
        BY <1>15, <2>2, DeleteOldOutcome DEF Goto
    <2> QED BY <1>15, <2>1, <2>2, DeleteOldOutcome
<1>16. CASE Save
    BY <1>16, SaveOutcome, GotoIs, FinishIs
<1>17. CASE Wrap
    BY <1>17, WrapOutcome, FinishIs
<1>18. CASE Attest
    BY <1>18, AttestOutcome DEF Finish, LoadCount
<1>19. CASE LoadMatched
    BY <1>19, LoadOutcome DEF Finish, Unwraps
<1>20. CASE Count
    BY <1>20 DEF Count, LoadCount
<1>21. CASE Sign
    BY <1>21, SignOutcome, GotoIs, FinishIs
<1>22. CASE Send
    BY <1>22 DEF Send, Finish
<1>23. CASE SendNext
    BY <1>23 DEF SendNext, Finish
<1>24. CASE ResetFiles
    BY <1>24 DEF ResetFiles, Goto, Removed
<1>25. CASE RotateSecret
    BY <1>25 DEF RotateSecret, Goto
<1>26. CASE ResetEnd
    BY <1>26 DEF ResetEnd, Finish
<1>27. CASE ManageEnd
    BY <1>27 DEF ManageEnd, Finish
<1>28. CASE CacheExpires
    BY <1>28 DEF CacheExpires
<1>29. ASSUME NEW rp \in Rps, NEW kind \in {"rk", "u2f"}, CliDeleteSite(rp, kind) PROVE Younger'
    BY <1>29 DEF CliDeleteSite, StorageFree
<1>30. CASE CliFactoryReset
    BY <1>30 DEF CliFactoryReset, StorageFree, Removed
<1>32. CASE Crash
    BY <1>32 DEF Crash, Finish, NoNext
<1>33. CASE UNCHANGED vars
    BY <1>33 DEF vars
<1> QED BY <1>1, <1>2, <1>3, <1>4, <1>5, <1>6, <1>7, <1>8, <1>9, <1>10, <1>11, <1>12, <1>13,
        <1>14, <1>15, <1>16, <1>17, <1>18, <1>19, <1>20, <1>21, <1>22, <1>23, <1>24, <1>25,
        <1>26, <1>27, <1>28, <1>29, <1>30, <1>32, <1>33 DEF Next, FidoStarts, FidoSteps,
        FidoGoesOn, Others

\* A user has one record at a relying party, or an old one was passed over.
LEMMA ReplacedKept == Numbers /\ Finite /\ DataAtHand /\ Replaced /\ OneResidentPerUser /\ [Next]_vars => (Replaced /\ OneResidentPerUser)'
<1> SUFFICES ASSUME Numbers /\ Finite /\ DataAtHand /\ Replaced /\ OneResidentPerUser, [Next]_vars PROVE (Replaced /\ OneResidentPerUser)'
    OBVIOUS
<1> USE DEF Replaced, Owned, OneResidentPerUser, flashVars, ramVars, cmdVars, histVars, faultVars
<1>1. ASSUME NEW rp \in Rps, NEW user \in Users, NEW rk \in BOOLEAN, NEW heavy \in BOOLEAN, NEW exclude \in SUBSET attested, MakeCredential(rp, user, rk, heavy, exclude) PROVE (Replaced /\ OneResidentPerUser)'
    BY <1>1 DEF MakeCredential, MakeRequest
<1>2. ASSUME NEW rp \in Rps, U2fRegister(rp) PROVE (Replaced /\ OneResidentPerUser)'
    BY <1>2 DEF U2fRegister
<1>3. ASSUME NEW rp \in Rps, NEW allow \in SUBSET attested, GetAssertion(rp, allow) PROVE (Replaced /\ OneResidentPerUser)'
    BY <1>3 DEF GetAssertion, CountLeft, LoadCount, Unwraps
<1>4. CASE GetNextAssertion
    BY <1>4, NextOutcome DEF CountLeft, LoadCount, Unwraps
<1>5. ASSUME NEW c \in attested, U2fAuthenticate(c) PROVE (Replaced /\ OneResidentPerUser)'
    BY <1>5 DEF U2fAuthenticate, CountLeft, LoadCount
<1>6. CASE Reset
    BY <1>6 DEF Reset
<1>7. ASSUME NEW c \in attested, CredMgmtDelete(c) PROVE (Replaced /\ OneResidentPerUser)'
    BY <1>7 DEF CredMgmtDelete
<1>8. CASE Manage
    BY <1>8 DEF Manage
<1>9. CASE UvMatch
    BY <1>9 DEF UvMatch, Goto, AfterUv, DataAtHand, Registration
<1>10. CASE UvMismatch
    BY <1>10 DEF UvMismatch, Finish, WaitsForFinger, UvOpen
<1>11. CASE UvGivesUp
    BY <1>11 DEF UvGivesUp, Finish
<1>12. CASE Keygen
    <2>1. CASE Finish /\ made' = made
        BY <1>12, <2>1, KeygenOutcome DEF Finish
    <2>2. CASE ~(Finish /\ made' = made)
        <3>1. Registration
            BY <1>12, KeygenOutcome DEF DataAtHand
        <3>2. /\ cred' = NewCred /\ UNCHANGED <<passkeys, matched, req, doubled>>
              /\ \/ pc' = "save" /\ NewCred.kind = "u2f"
                 \/ pc' = "findOld" /\ NewCred.kind = "rk"
                 \/ pc' = "wrap"
            BY <1>12, <2>2, <3>1, KeygenOutcome, NewCredIs
        <3>3. NewCred.kind = "u2f" => NewCred.user = NoUser
            BY <3>1, NewCredIs DEF Registration
        <3> QED BY <3>1, <3>2, <3>3, NewCredIs
    <2> QED BY <2>1, <2>2
<1>13. CASE WorkerMissing
    BY <1>13 DEF WorkerMissing, Goto
<1>14. CASE FindOld
    <2>1. /\ pc = "findOld" /\ passkeys' = passkeys /\ Owned(cred)
          /\ req.user \in Users /\ req.user # NoUser
        BY <1>14, AuthAssumption DEF FindOld, DataAtHand, Making, Registration
    <2>2. CASE Goto("save") /\ UNCHANGED doubled /\ \A c \in passkeys : ~(c.rp = req.rp /\ c.user = req.user)
        BY <2>1, <2>2 DEF Goto
    <2>3. CASE Goto("save") /\ Doubled
        BY <2>1, <2>3, DoubledIs DEF Goto
    <2>4. CASE /\ pc' = "deleteOld" /\ UNCHANGED <<req, cred, ctr, verified, doubled>>
               /\ \E c \in passkeys : c.rp = req.rp /\ c.user = req.user /\ matched' = <<c>>
        <3>1. PICK d \in passkeys : d.rp = req.rp /\ d.user = req.user /\ matched' = <<d>>
            BY <2>4
        <3>2. \/ <<req.rp, req.user>> \in doubled
              \/ \A c \in passkeys : c.rp = req.rp /\ c.user = req.user => c = d
            BY <2>1, <3>1 DEF OneResidentPerUser
        <3>3. matched'[1] = d
            BY <3>1
        <3> QED BY <2>1, <2>4, <3>2, <3>3
    <2> QED BY <1>14, <2>2, <2>3, <2>4, FoundOld
<1>15. CASE DeleteOld
    <2>1. /\ pc = "deleteOld" /\ pc' = "save" /\ cred' = cred /\ Owned(cred)
          /\ cred.kind = "rk" /\ cred.rp = req.rp /\ cred.user = req.user
        BY <1>15, DeleteOldOutcome DEF DataAtHand, Making, Registration
    <2>2. CASE passkeys' = passkeys \ {matched[1]} /\ doubled' = doubled
        BY <2>1, <2>2
    <2>3. CASE passkeys' = passkeys /\ Doubled
        BY <2>1, <2>3, DoubledIs
    <2> QED BY <1>15, <2>2, <2>3, DeleteOldOutcome
<1>16. CASE Save
    <2>1. CASE Finish /\ UNCHANGED <<passkeys, gone>>
        BY <1>16, <2>1, SaveOutcome DEF Finish
    <2>2. CASE passkeys' = passkeys \cup {cred} /\ Goto("attest")
        BY <1>16, <2>2, SaveOutcome DEF Goto
    <2>3. CASE passkeys' = passkeys /\ Goto("attest")
        BY <1>16, <2>3, SaveOutcome DEF Goto
    <2> QED BY <1>16, <2>1, <2>2, <2>3, SaveOutcome
<1>17. CASE Wrap
    BY <1>17, WrapOutcome, FinishIs
<1>18. CASE Attest
    BY <1>18, AttestOutcome DEF Finish, LoadCount
<1>19. CASE LoadMatched
    BY <1>19, LoadOutcome DEF Finish, Unwraps
<1>20. CASE Count
    BY <1>20 DEF Count, LoadCount
<1>21. CASE Sign
    BY <1>21, SignOutcome, GotoIs, FinishIs
<1>22. CASE Send
    BY <1>22 DEF Send, Finish
<1>23. CASE SendNext
    BY <1>23 DEF SendNext, Finish
<1>24. CASE ResetFiles
    BY <1>24 DEF ResetFiles, Goto, Removed
<1>25. CASE RotateSecret
    BY <1>25 DEF RotateSecret, Goto
<1>26. CASE ResetEnd
    BY <1>26 DEF ResetEnd, Finish
<1>27. CASE ManageEnd
    BY <1>27 DEF ManageEnd, Finish
<1>28. CASE CacheExpires
    BY <1>28 DEF CacheExpires
<1>29. ASSUME NEW rp \in Rps, NEW kind \in {"rk", "u2f"}, CliDeleteSite(rp, kind) PROVE (Replaced /\ OneResidentPerUser)'
    BY <1>29 DEF CliDeleteSite, StorageFree
<1>30. CASE CliFactoryReset
    BY <1>30 DEF CliFactoryReset, StorageFree, Removed
<1>32. CASE Crash
    BY <1>32 DEF Crash, Finish, NoNext
<1>33. CASE UNCHANGED vars
    BY <1>33 DEF vars
<1> QED BY <1>1, <1>2, <1>3, <1>4, <1>5, <1>6, <1>7, <1>8, <1>9, <1>10, <1>11, <1>12, <1>13,
        <1>14, <1>15, <1>16, <1>17, <1>18, <1>19, <1>20, <1>21, <1>22, <1>23, <1>24, <1>25,
        <1>26, <1>27, <1>28, <1>29, <1>30, <1>32, <1>33 DEF Next, FidoStarts, FidoSteps,
        FidoGoesOn, Others

-----------------------------------------------------------------------------
(* The theorems.                                                           *)

\* A device that has made no credential.
LEMMA Initially == Init => IInv /\ Replaced /\ OneResidentPerUser
<1> SUFFICES ASSUME Init PROVE IInv /\ Replaced /\ OneResidentPerUser
    OBVIOUS
<1>1. Numbers /\ Records /\ NextList
    BY AuthAssumption DEF Init, Numbers, Records, NextList, NoNext, Places
<1>2. Flags /\ Faulted
    <2>1. next.verified = FALSE
        BY DEF Init, NoNext
    <2> QED BY <2>1, Zenon DEF Init, Flags, Faulted
<1>3. Finite
    BY FS_EmptySet DEF Init, Finite
<1>4. DataAtHand /\ CountKnown /\ Written /\ AttestedOnFile /\ Replaced /\ OneResidentPerUser
    BY AuthAssumption DEF Init, DataAtHand, Making, InUse, CountKnown, LoadCount, Written, AttestedOnFile, Replaced,
           OneResidentPerUser
<1>5. Wrapped /\ Born /\ Younger
    BY DEF Init, NoNext, Wrapped, Born, Younger, Making, InUse
<1> QED BY <1>1, <1>2, <1>3, <1>4, <1>5 DEF IInv, Types

\* The invariant is inductive.
LEMMA Inductive == IInv /\ [Next]_vars => IInv'
<1> SUFFICES ASSUME IInv, [Next]_vars PROVE IInv'
    OBVIOUS
<1>1. Types'
    BY NumbersKept, RecordsKept, NextListKept, Zenon DEF IInv, Types
<1>2. Faulted' /\ Flags' /\ Finite' /\ DataAtHand'
    BY FaultedKept, FlagsKept, FiniteKept, DataKept, Zenon DEF IInv, Types
<1>3. CountKnown' /\ (Written /\ AttestedOnFile)'
    BY CountKept, WrittenKept, Zenon DEF IInv, Types
<1>4. Wrapped' /\ Born' /\ Younger'
    BY WrappedKept, BornKept, YoungerKept, Zenon DEF IInv
<1> QED BY <1>1, <1>2, <1>3, <1>4, Zenon DEF IInv

\* The invariant holds in every reachable state.
LEMMA Invariant == Spec => []IInv
BY Initially, Inductive, PTL DEF Spec

\* The signature counter: no host is told a count it was told before, whatever command is
\* cut short, whoever asks and whenever the power fails (persistSignCount runs first).
THEOREM FreshCountAlways == Spec => []FreshCount
<1>1. IInv => FreshCount
    BY DEF IInv, Types, Numbers, CountKnown, LoadCount, FreshCount
<1> QED BY Invariant, <1>1, PTL

\* deleteCredential, a registration that replaces, and authenticatorReset: a credential they
\* end never signs again, neither as a record, as a stateless handle nor from the list of
\* GetNextAssertion; but for one of a Reset whose removal or rotation failed unnoticed, or
\* that was wrapped under the zero secret (Survives).
THEOREM NeverAgainAlways == Spec => []NeverAgain
<1>1. IInv => NeverAgain
    BY DEF IInv, Born, Younger, InUse, NeverAgain, ResetForgets, DeletedStaysDeleted
<1> QED BY Invariant, <1>1, PTL

\* handleMakeCredential and U2F_REGISTER: whichever call fails, the record of a credential
\* a host was told of is on file, was removed since, or was written short (gone).
THEOREM AttestedAlways == Spec => []AttestedOnFile
<1>1. IInv => AttestedOnFile
    BY DEF IInv
<1> QED BY Invariant, <1>1, PTL

\* The store as a whole, whichever calls fail: types, the limit on failed verifications
\* while their file is readable, one record per user unless an old one was passed over
\* (doubled), and no attestation without a record, but for one written short.
THEOREM StoreSoundAlways == Spec => []StoreSound
<1> DEFINE I == IInv /\ Replaced /\ OneResidentPerUser
<1>1. Init => I
    BY Initially
<1>2. I /\ [Next]_vars => I'
    BY Inductive, ReplacedKept, Zenon DEF IInv, Types
<1>3. I => StoreSound
    <2> SUFFICES ASSUME I PROVE StoreSound
        OBVIOUS
    <2>1. TypeOK
        <3>1. next.idx \in Nat
            BY DEF IInv, Types, NextList
        <3> QED BY <3>1, Zenon DEF IInv, Types, Numbers, Records, NextList, Faulted, Flags, TypeOK
    <2> QED BY <2>1, Zenon DEF IInv, StoreSound
<1> HIDE DEF I
<1> QED BY <1>1, <1>2, <1>3, PTL DEF Spec
=============================================================================
