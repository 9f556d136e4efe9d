------------------------------- MODULE Manage -------------------------------
(***************************************************************************)
(* What processCborCommand keeps between the commands of several hosts in  *)
(* one set of statics (src/FIDO2Manager.cpp): the cursors of credential    *)
(* management (authenticatorCredentialManagement, lines 2631-2953) and the *)
(* key agreement of ClientPIN (lines 1895-2154).  The FIDO task runs one   *)
(* command at a time; the CLI task deletes records between its steps.      *)
(*                                                                         *)
(* A walk is what a host has learnt of an enumeration it began.            *)
(***************************************************************************)
EXTENDS Integers, SequencesExt

CONSTANTS
  Hosts, Rps, Creds, RpOf, Protected,   \* credentials, their RP, those with credProtect >= 2
  Stored,                               \* the records at first, in file order
  Pins, ShortPins, PinLimit,            \* PINs long enough and not; 10
  MaxCommands, MaxOthers                \* bounds: hosts' commands; CLI deletions, new
                                        \* credentials, fingers given elsewhere, crashes

NoPin   == "no PIN"
Garbage == "garbage"      \* what decryption with another key gives

ASSUME ManageAssumption ==
  /\ RpOf \in [Creds -> Rps] /\ Protected \subseteq Creds
  /\ Stored \in Seq(Creds) /\ IsInjective(Stored)
  /\ Garbage \notin Pins \cup ShortPins
  /\ PinLimit \in Nat /\ MaxCommands \in Nat /\ MaxOthers \in Nat

VARIABLES
  records,                                          \* /passkeys.bin: identifiers in file order
  enumRpList, enumRpIdx, enumCredList, enumCredIdx, \* statics
  verified,                                         \* lastFingerprintSuccessTime is under 5 s old
  task,                                             \* the enumeration command under way
  sessionKey, pin, fails,                           \* the agreed key (0: none), the PIN, its failures
  hostKey,                                          \* each host: the key it agreed last
  rpWalk, credWalk,                                 \* each host's walks
  released, refused,                                \* history of enumCredList: a finger was given for
                                                    \* it; the command that filled it was refused
  bare,                                             \* history: a protected credential was listed
                                                    \* with neither
  wrong,                                            \* history: wrong PINs since the last right one
  used, commands, others                            \* identifiers ever stored; counts

cursorVars == <<enumRpList, enumRpIdx, enumCredList, enumCredIdx, released, refused>>
pinVars    == <<sessionKey, pin, fails, hostKey, wrong>>
walkVars   == <<rpWalk, credWalk, bare>>
vars == <<records, cursorVars, verified, task, pinVars, walkVars, used, commands, others>>

NoTask == [on |-> "none"]
NoWalk == [active |-> FALSE]

Init ==
  /\ records = Stored /\ used = ToSet(Stored)
  /\ enumRpList = <<>> /\ enumRpIdx = 0 /\ enumCredList = <<>> /\ enumCredIdx = 0
  /\ verified = FALSE /\ task = NoTask
  /\ sessionKey = 0 /\ pin \in {NoPin} \cup Pins /\ fails = 0 /\ hostKey = [h \in Hosts |-> 0]
  /\ rpWalk = [h \in Hosts |-> NoWalk] /\ credWalk = [h \in Hosts |-> NoWalk]
  /\ released = FALSE /\ refused = FALSE /\ bare = FALSE /\ wrong = 0
  /\ commands = 0 /\ others = 0

\* A host's command reaches the FIDO task.
Command ==
  /\ task = NoTask /\ commands < MaxCommands
  /\ commands' = commands + 1
  /\ UNCHANGED <<records, used, others>>

-----------------------------------------------------------------------------
(* Walks.  There is one cursor: a host that begins or asks for the next    *)
(* disturbs the others' walks.                                             *)

\* The i-th element as a sequence, empty behind the end: list[idx++] or "no more".
ItemAt(s, i) == SubSeq(s, i, Min({i, Len(s)}))

\* Chosen(s, I)[n] is what the first n elements of s have at the indices I, in their order.
Chosen(s, I) ==
  LET chosen[n \in 0..Len(s)] ==
        IF n = 0 THEN <<>>
        ELSE IF n \in I THEN Append(chosen[n - 1], s[n]) ELSE chosen[n - 1]
  IN  chosen

Disturb(walk, h) ==
  [g \in Hosts |-> IF g # h /\ walk[g].active THEN [walk[g] EXCEPT !.clean = FALSE] ELSE walk[g]]

Begun(walk, h, snap, total, first) ==
  [Disturb(walk, h) EXCEPT ![h] = [active |-> TRUE, snap |-> snap, total |-> total, got |-> first,
                                   clean |-> TRUE, intact |-> TRUE, ended |-> first = <<>>]]

Went(walk, h, more) ==
  IF ~walk[h].active THEN Disturb(walk, h)
  ELSE [Disturb(walk, h) EXCEPT ![h].got = @ \o more, ![h].ended = @ \/ more = <<>>]

-----------------------------------------------------------------------------
(* Relying parties: sub-commands 2 and 3.                                  *)

\* getAllStoredRpIds: each once, in the order of the first record.
StoredRpIds ==
  LET rps == [i \in 1..Len(records) |-> RpOf[records[i]]]
  IN  Chosen(rps, {i \in 1..Len(rps) : \A j \in 1..i - 1 : rps[j] # rps[i]})[Len(rps)]

EnumerateRPsBegin(h) ==
  /\ Command
  /\ enumRpList' = StoredRpIds
  /\ enumRpIdx' = Min({1, Len(StoredRpIds)})
  /\ rpWalk' = Begun(rpWalk, h, {RpOf[c] : c \in ToSet(records)}, Len(StoredRpIds), ItemAt(StoredRpIds, 1))
  /\ UNCHANGED <<enumCredList, enumCredIdx, released, refused, verified, task, pinVars, credWalk, bare>>

EnumerateRPsGetNext(h) ==
  /\ Command
  /\ LET more == ItemAt(enumRpList, enumRpIdx + 1) IN
     /\ enumRpIdx' = enumRpIdx + Len(more)
     /\ rpWalk' = Went(rpWalk, h, more)
  /\ UNCHANGED <<enumRpList, enumCredList, enumCredIdx, released, refused, verified, task, pinVars, credWalk, bare>>

-----------------------------------------------------------------------------
(* Credentials of one relying party: sub-commands 4, 5 and 6.              *)

OfRp(s, rp) == Chosen(s, {i \in 1..Len(s) : RpOf[s[i]] = rp})[Len(s)]

\* The list of identifiers is read under the storage lock, then each record for itself.
EnumerateCredentialsBegin(h, rp) ==
  /\ Command
  /\ enumCredList' = <<>> /\ enumCredIdx' = 0 /\ released' = FALSE /\ refused' = FALSE
  /\ task' = [on |-> "collect", host |-> h, rp |-> rp, todo |-> records, guarded |-> FALSE]
  /\ credWalk' = Begun(credWalk, h, OfRp(records, rp), 0, <<>>)
  /\ UNCHANGED <<enumRpList, enumRpIdx, verified, pinVars, rpWalk, bare>>

RpHasProtected(c) == task.guarded \/ c \in Protected

Collect ==
  /\ task.on = "collect" /\ task.todo # <<>>
  /\ LET c == Head(task.todo)
         match == RpOf[c] = task.rp /\ c \in ToSet(records)
     IN  /\ enumCredList' = IF match THEN Append(enumCredList, c) ELSE enumCredList
         /\ task' = [task EXCEPT !.todo = Tail(@), !.guarded = IF match THEN RpHasProtected(c) ELSE @]
  /\ UNCHANGED <<records, enumRpList, enumRpIdx, enumCredIdx, released, refused, verified, pinVars,
                 walkVars, used, commands, others>>

\* The answer with the first credential and their number; getPasskeyRecord's result is not
\* looked at, so the credential need not be there any more.
AnswerFirst ==
  LET h == task.host IN
  /\ enumCredIdx' = 1
  /\ credWalk' = [credWalk EXCEPT ![h].got = <<enumCredList[1]>>, ![h].total = Len(enumCredList),
                                  ![h].ended = FALSE]
  /\ bare' = (bare \/ (enumCredList[1] \in Protected /\ ~released'))
  /\ task' = NoTask

Collected ==
  /\ task.on = "collect" /\ task.todo = <<>>
  /\ IF enumCredList = <<>>
     THEN task' = NoTask /\ UNCHANGED <<enumCredIdx, credWalk, bare, released>>    \* 0x2E
     ELSE IF task.guarded /\ ~verified
     THEN task' = [task EXCEPT !.on = "verify"] /\ UNCHANGED <<enumCredIdx, credWalk, bare, released>>
     ELSE released' = verified /\ AnswerFirst
  /\ UNCHANGED <<records, enumRpList, enumRpIdx, enumCredList, refused, verified, pinVars, rpWalk,
                 used, commands, others>>

FingerOk ==
  /\ task.on = "verify"
  /\ verified' = TRUE /\ released' = TRUE
  /\ AnswerFirst
  /\ UNCHANGED <<records, enumRpList, enumRpIdx, enumCredList, refused, pinVars, rpWalk, used, commands, others>>

\* Cancelled, or 15 s without a finger: the list stays as it is.
NoEnd ==                                           \* mutant: the wait has no end
  /\ task.on = "verify" /\ UNCHANGED vars
NotVerified ==
  /\ task.on = "verify"
  /\ task' = NoTask /\ refused' = TRUE
  /\ credWalk' = [credWalk EXCEPT ![task.host] = NoWalk]
  /\ UNCHANGED <<records, enumRpList, enumRpIdx, enumCredList, enumCredIdx, released, verified, pinVars,
                 rpWalk, bare, used, commands, others>>

\* The cursor of the one list, whoever asks.
RestartCursor  == IF enumCredIdx < Len(enumCredList) THEN ItemAt(enumCredList, 1) ELSE <<>>   \* mutant
NextCredential == ItemAt(enumCredList, enumCredIdx + 1)

EnumerateCredentialsGetNext(h) ==
  /\ Command
  /\ enumCredIdx' = enumCredIdx + Len(NextCredential)
  /\ credWalk' = Went(credWalk, h, NextCredential)
  /\ bare' = (bare \/ (~released /\ ~refused /\ \E c \in Protected : NextCredential = <<c>>))
  /\ UNCHANGED <<enumRpList, enumRpIdx, enumCredList, released, refused, verified, task, pinVars, rpWalk>>

Without(s, S) == Chosen(s, {i \in 1..Len(s) : s[i] \notin S})[Len(s)]

DeleteCredential(h, c) ==
  /\ task = NoTask /\ commands < MaxCommands
  /\ commands' = commands + 1
  /\ records' = Without(records, {c})
  /\ UNCHANGED <<cursorVars, verified, task, pinVars, walkVars, used, others>>

-----------------------------------------------------------------------------
(* ClientPIN: key agreement, setPIN and changePIN.                         *)

\* getKeyAgreement: a new key, for every host.
GetKeyAgreement(h) ==
  /\ Command
  /\ sessionKey' = 1 + sessionKey
  /\ hostKey' = [hostKey EXCEPT ![h] = sessionKey']
  /\ UNCHANGED <<cursorVars, verified, task, pin, fails, wrong, walkVars>>

\* pinAuth, an HMAC under the shared secret over what was encrypted.
AuthUnchecked(h) == sessionKey # 0                 \* mutant: pinAuth is not compared
PinAuthOk(h) == sessionKey # 0 /\ hostKey[h] = sessionKey

Decrypted(h, p) == IF hostKey[h] = sessionKey THEN p ELSE Garbage

\* createFidoPin: a PIN that is too short is refused.
CreatePin(q) == pin' = IF q \in ShortPins THEN pin ELSE q

SetPin(h, q) ==
  /\ Command
  /\ IF pin = NoPin /\ PinAuthOk(h) THEN CreatePin(Decrypted(h, q)) ELSE UNCHANGED pin
  /\ UNCHANGED <<cursorVars, verified, task, sessionKey, fails, hostKey, wrong, walkVars>>

ChangePin(h, p, q) ==
  /\ Command
  /\ IF pin = NoPin \/ fails >= PinLimit \/ ~PinAuthOk(h) THEN UNCHANGED <<pin, fails, wrong>>
     ELSE IF Decrypted(h, p) # pin
     THEN /\ fails' = fails + 1 /\ UNCHANGED pin
          /\ wrong' = IF p # pin THEN wrong + 1 ELSE wrong
     ELSE fails' = 0 /\ wrong' = 0 /\ CreatePin(Decrypted(h, q))
  /\ UNCHANGED <<cursorVars, verified, task, sessionKey, hostKey, walkVars>>

\* The two getPinToken sub-commands: a token is drawn, or the command refused (no PIN, too
\* many failures, no permissions); activeAuthToken, where it is kept, is never read.
GetPinToken(h) ==
  /\ Command
  /\ UNCHANGED <<cursorVars, verified, task, pinVars, walkVars>>

-----------------------------------------------------------------------------
(* The rest of the device.                                                 *)

Other ==
  /\ others < MaxOthers
  /\ others' = others + 1
  /\ UNCHANGED commands

\* The CLI task's deleteFidoWebsite, also while the list is collected.
CliDelete(rp) ==
  /\ Other
  /\ records' = Without(records, ToSet(OfRp(records, rp)))
  /\ credWalk' = IF task.on = "collect" THEN [credWalk EXCEPT ![task.host].intact = FALSE] ELSE credWalk
  /\ UNCHANGED <<cursorVars, verified, task, pinVars, rpWalk, bare, used>>

\* MakeCredential; identifiers are random.
MakeCredential(c) ==
  /\ task = NoTask /\ c \notin used
  /\ Other
  /\ records' = Append(records, c) /\ used' = used \cup {c}
  /\ UNCHANGED <<cursorVars, verified, task, pinVars, walkVars>>

\* GetAssertion or bio verification accepts a finger.
FingerElsewhere ==
  /\ task = NoTask
  /\ Other
  /\ verified' = TRUE
  /\ UNCHANGED <<records, cursorVars, task, pinVars, walkVars, used>>

FiveSecondsPass ==
  /\ verified /\ verified' = FALSE
  /\ UNCHANGED <<records, cursorVars, task, pinVars, walkVars, used, commands, others>>

Crash ==
  /\ Other
  /\ enumRpList' = <<>> /\ enumRpIdx' = 0 /\ enumCredList' = <<>> /\ enumCredIdx' = 0
  /\ released' = FALSE /\ refused' = FALSE /\ verified' = FALSE /\ task' = NoTask
  /\ sessionKey' = 0 /\ hostKey' = [h \in Hosts |-> 0]
  /\ rpWalk' = [h \in Hosts |-> NoWalk] /\ credWalk' = [h \in Hosts |-> NoWalk]
  /\ UNCHANGED <<records, pin, fails, wrong, bare, used>>

Next ==
  \/ Collect \/ Collected \/ FingerOk \/ NotVerified
  \/ \E h \in Hosts :
       \/ EnumerateRPsBegin(h) \/ EnumerateRPsGetNext(h)
       \/ EnumerateCredentialsGetNext(h) \/ \E rp \in Rps : EnumerateCredentialsBegin(h, rp)
       \/ \E c \in Creds : DeleteCredential(h, c)
       \/ GetKeyAgreement(h) \/ GetPinToken(h)
       \/ \E q \in Pins \cup ShortPins : SetPin(h, q) \/ \E p \in Pins : ChangePin(h, p, q)
  \/ \E rp \in Rps : CliDelete(rp)
  \/ \E c \in Creds : MakeCredential(c)
  \/ FingerElsewhere \/ FiveSecondsPass \/ Crash

Spec == Init /\ [][Next]_vars

\* The FIDO task runs, and its wait for a finger has a deadline.
FairSpec == Spec /\ WF_vars(Collect) /\ WF_vars(Collected) /\ WF_vars(NotVerified)

-----------------------------------------------------------------------------
(* Properties.                                                             *)

\* Every variable keeps its type; the cursors stay in their lists.
TypeOK ==
  /\ records \in Seq(Creds) /\ IsInjective(records) /\ ToSet(records) \subseteq used
  /\ enumRpIdx \in 0..Len(enumRpList) /\ enumCredIdx \in 0..Len(enumCredList)
  /\ task.on \in {"none", "collect", "verify"}
  /\ sessionKey \in Nat /\ pin \in {NoPin, Garbage} \cup Pins /\ fails \in 0..PinLimit

\* A host that no other host disturbed learns of the relying parties that were stored
\* when it began: each once, as many as were announced, and all when it is told
\* that there are no more.
RpWalkComplete ==
  \A h \in Hosts : LET w == rpWalk[h] IN
    w.active /\ w.clean => /\ w.total = Cardinality(w.snap)
                           /\ IsInjective(w.got) /\ ToSet(w.got) \subseteq w.snap
                           /\ w.ended => ToSet(w.got) = w.snap

\* The same for the credentials of a relying party, in the order of the file, whatever is deleted or made during
\* the walk; only a deletion while the list is being collected may shorten it.
CredWalkComplete ==
  \A h \in Hosts : LET w == credWalk[h] IN
    w.active /\ w.clean /\ (task = NoTask \/ task.host # h) =>
      IF w.intact THEN /\ IsPrefix(w.got, w.snap) /\ (w.got # <<>> => w.total = Len(w.snap))
                       /\ w.ended => w.got = w.snap
      ELSE IsInjective(w.got) /\ ToSet(w.got) \subseteq ToSet(w.snap) /\ Len(w.got) <= w.total

\* A protected credential is listed only after a finger was accepted for that list, or
\* from a list whose command was refused: the code leaves such a list in place.
FingerBeforeProtected == ~bare

\* Another host's key agreement makes a host's PIN command fail, and nothing else: no PIN
\* is set that nobody meant, and no right PIN is counted as wrong.
StaleKeyHarmless == pin # Garbage /\ fails = wrong

\* Both walks of credential management, through relying parties and through credentials, tell
\* an undisturbed host all that was stored when it began.
WalksComplete == TypeOK /\ RpWalkComplete /\ CredWalkComplete

\* What hosts share, the list of credentials and the key of the PIN protocol, does no harm
\* beyond a refused command: nothing protected is listed without a finger, no PIN is set that
\* nobody meant.
HostsKeptApart == FingerBeforeProtected /\ StaleKeyHarmless

\* Every enumeration command ends, whether or not a finger comes.
EnumerationEnds == (task # NoTask) ~> (task = NoTask)
=============================================================================
