---------------------------- MODULE PasskeyFile ----------------------------
(***************************************************************************)
(* The passkey records in flash (src/StorageManager.cpp): /passkeys.bin is *)
(* appended to by savePasskeyRecord, and rewritten by deletePasskeyRecord  *)
(* and deleteFidoWebsite through /passkeys.tmp: copy what is kept, remove  *)
(* the old file, rename the new one.  The FIDO task and the CLI task call  *)
(* these functions; storageMutex keeps their steps apart, and the power    *)
(* may be cut between any two of them.                                     *)
(*                                                                         *)
(* A record is whole or torn (its last bytes are missing).  Records have   *)
(* no framing of their own: a reader that meets a torn record takes bytes  *)
(* of what follows for its rest, and nothing behind it is found again.     *)
(***************************************************************************)
EXTENDS Naturals, Sequences, FiniteSets

CONSTANTS
  Tasks, Rps,
  Failing,      \* what may fail, a subset of Faults
  MaxSaves,     \* bound: records made
  MaxCalls,     \* bound: calls
  MaxCrashes    \* bound: power cuts

Nobody == "nobody"
Faults == {"open", "write", "memory"}

ASSUME FileAssumption ==
  /\ Nobody \notin Tasks
  /\ Failing \subseteq Faults
  /\ MaxSaves \in Nat /\ MaxCalls \in Nat /\ MaxCrashes \in Nat

NoFile == [exists |-> FALSE, recs |-> <<>>]
File(s) == [exists |-> TRUE, recs |-> s]
Ids    == 1..MaxSaves

VARIABLES
  bin, tmp,     \* /passkeys.bin and /passkeys.tmp
  lock,         \* who holds storageMutex
  pc, request,  \* where each task is, and the call it makes
  pos,          \* records it has read from bin
  answer,       \* what the call returns
  made, calls, crashes,
  gone,         \* history: the records removed
  intact        \* history: no write failed and the power was never cut

flashVars == <<bin, tmp>>
taskVars  == <<pc, request, pos, answer>>
histVars  == <<made, calls, crashes, gone, intact>>
vars      == <<flashVars, lock, taskVars, histVars>>

NoRequest == [op |-> "none"]
NoAnswer  == [ok |-> FALSE, seen |-> {}]
Refused   == NoAnswer

Rec(id, rp)  == [id |-> id, rp |-> rp, torn |-> FALSE]
Torn(r)      == [r EXCEPT !.torn = TRUE]
Fault(f)     == IF f \in Failing THEN BOOLEAN ELSE {FALSE}

\* The records a reader finds: those before the first torn one.
Readable(f) ==
  {f.recs[i] : i \in {k \in 1..Len(f.recs) : \A j \in 1..k : ~f.recs[j].torn}}

Seen(f) == {[id |-> r.id, rp |-> r.rp] : r \in Readable(f)}

Init ==
  /\ bin = NoFile /\ tmp = NoFile /\ lock = Nobody
  /\ pc = [t \in Tasks |-> "idle"] /\ request = [t \in Tasks |-> NoRequest]
  /\ pos = [t \in Tasks |-> 0] /\ answer = [t \in Tasks |-> NoAnswer]
  /\ made = 0 /\ calls = 0 /\ crashes = 0 /\ gone = {} /\ intact = TRUE

Goto(t, l) == pc' = [pc EXCEPT ![t] = l]

\* The result is known; storageMutex is still held.
Answer(t, ok, seen) ==
  /\ answer' = [answer EXCEPT ![t] = [ok |-> ok, seen |-> seen]]
  /\ Goto(t, "return")

-----------------------------------------------------------------------------
(* Calling, and storageMutex.                                              *)

Call(t, r) ==
  /\ pc[t] = "idle"
  /\ calls < MaxCalls
  /\ calls' = calls + 1
  /\ request' = [request EXCEPT ![t] = r]
  /\ Goto(t, "take")
  /\ UNCHANGED <<flashVars, lock, pos, answer, crashes, gone, intact>>

\* A new record has a random identifier: one that was never used.
CallSave(t, rp) ==
  /\ made < MaxSaves
  /\ Call(t, [op |-> "save", rec |-> [id |-> made + 1, rp |-> rp]])
  /\ made' = made + 1

CallDelete(t, id)     == Call(t, [op |-> "delete", id |-> id]) /\ UNCHANGED made
CallDeleteSite(t, rp) == Call(t, [op |-> "deleteSite", rp |-> rp]) /\ UNCHANGED made
CallList(t)           == Call(t, [op |-> "list"]) /\ UNCHANGED made
CallClear(t)          == Call(t, [op |-> "clear"]) /\ UNCHANGED made

TakeAnyway(t) ==                            \* mutant: the mutex is not waited for
  /\ pc[t] = "take"
  /\ lock' = t
  /\ Goto(t, request[t].op)
  /\ UNCHANGED <<flashVars, request, pos, answer, histVars>>
Take(t) ==
  /\ pc[t] = "take"
  /\ lock = Nobody
  /\ lock' = t
  /\ Goto(t, request[t].op)
  /\ UNCHANGED <<flashVars, request, pos, answer, histVars>>

\* storageMutex is given back and the call returns.
KeepLock(t) ==                              \* mutant: refused calls keep the mutex
  /\ pc[t] = "return"
  /\ lock' = IF answer[t] = Refused THEN lock ELSE Nobody
  /\ Goto(t, "idle")
  /\ request' = [request EXCEPT ![t] = NoRequest]
  /\ answer' = [answer EXCEPT ![t] = NoAnswer]
  /\ UNCHANGED <<flashVars, pos, histVars>>
Give(t) ==
  /\ pc[t] = "return"
  /\ lock' = Nobody
  /\ Goto(t, "idle")
  /\ request' = [request EXCEPT ![t] = NoRequest]
  /\ answer' = [answer EXCEPT ![t] = NoAnswer]
  /\ UNCHANGED <<flashVars, pos, histVars>>

-----------------------------------------------------------------------------
(* savePasskeyRecord.                                                      *)

\* The file could not be opened.
SaveRefused(t) ==
  /\ pc[t] = "save"
  /\ TRUE \in Fault("open")
  /\ Answer(t, FALSE, {})
  /\ intact' = FALSE
  /\ UNCHANGED <<flashVars, lock, request, pos, made, calls, crashes, gone>>

\* The record is appended; the results of the writes are not looked at.
SaveAppend(t) ==
  /\ pc[t] = "save"
  /\ \E cut \in Fault("write") :
       LET r == Rec(request[t].rec.id, request[t].rec.rp) IN
         /\ intact' = (intact /\ ~cut)
         /\ bin' = File(Append(bin.recs, IF cut THEN Torn(r) ELSE r))
  /\ Answer(t, TRUE, {})
  /\ UNCHANGED <<tmp, lock, request, pos, made, calls, crashes, gone>>

-----------------------------------------------------------------------------
(* deletePasskeyRecord and deleteFidoWebsite.                              *)

Deletes(t) == request[t].op \in {"delete", "deleteSite"}

Matches(t, r) ==
  /\ ~r.torn
  /\ CASE request[t].op = "delete"     -> r.id = request[t].id
       [] request[t].op = "deleteSite" -> r.rp = request[t].rp

DeleteRefused(t) ==
  /\ pc[t] \in {"delete", "deleteSite"}
  /\ ~bin.exists \/ TRUE \in Fault("open")
  /\ Answer(t, FALSE, {})
  /\ intact' = (intact /\ ~bin.exists)
  /\ UNCHANGED <<flashVars, lock, request, pos, made, calls, crashes, gone>>

\* The temporary file is opened for writing, which empties it.
TempAppended(t) ==                          \* mutant: opened for appending
  /\ pc[t] \in {"delete", "deleteSite"}
  /\ bin.exists
  /\ tmp' = File(tmp.recs)
  /\ pos' = [pos EXCEPT ![t] = 0]
  /\ answer' = [answer EXCEPT ![t] = NoAnswer]
  /\ Goto(t, "copy")
  /\ UNCHANGED <<bin, lock, request, histVars>>
OpenTemp(t) ==
  /\ pc[t] \in {"delete", "deleteSite"}
  /\ bin.exists
  /\ tmp' = File(<<>>)
  /\ pos' = [pos EXCEPT ![t] = 0]
  /\ answer' = [answer EXCEPT ![t] = NoAnswer]
  /\ Goto(t, "copy")
  /\ UNCHANGED <<bin, lock, request, histVars>>

\* One record is read, and written unless it is to be deleted.  A write cut
\* short, or a field for which no memory was left, leaves a torn copy.
CopyRecord(t) ==
  /\ pc[t] = "copy"
  /\ pos[t] < Len(bin.recs)
  /\ LET r == bin.recs[pos[t] + 1] IN
       IF Matches(t, r)
       THEN answer' = [answer EXCEPT ![t].ok = TRUE] /\ UNCHANGED <<tmp, intact>>
       ELSE /\ \E cut \in Fault("write"), short \in Fault("memory") :
                 /\ intact' = (intact /\ ~cut /\ ~short)
                 /\ tmp' = File(Append(tmp.recs, IF cut \/ short THEN Torn(r) ELSE r))
            /\ UNCHANGED answer
  /\ pos' = [pos EXCEPT ![t] = @ + 1]
  /\ UNCHANGED <<bin, lock, pc, request, made, calls, crashes, gone>>

\* Nothing was to be deleted: the copy is dropped.
DropTemp(t) ==
  /\ pc[t] = "copy"
  /\ pos[t] >= Len(bin.recs)
  /\ ~answer[t].ok
  /\ tmp' = NoFile
  /\ Goto(t, "return")
  /\ UNCHANGED <<bin, lock, request, pos, answer, histVars>>

RemoveOld(t) ==
  /\ pc[t] = "copy"
  /\ pos[t] >= Len(bin.recs)
  /\ answer[t].ok
  /\ gone' = gone \cup {[id |-> r.id, rp |-> r.rp] : r \in {q \in Readable(bin) : Matches(t, q)}}
  /\ bin' = NoFile
  /\ Goto(t, "rename")
  /\ UNCHANGED <<tmp, lock, request, pos, answer, made, calls, crashes, intact>>

RenameNew(t) ==
  /\ pc[t] = "rename"
  /\ bin' = tmp /\ tmp' = NoFile
  /\ Goto(t, "return")
  /\ UNCHANGED <<lock, request, pos, answer, histVars>>

-----------------------------------------------------------------------------
(* findAllCredentialsByRp, getAllStoredCredentialIds and the other readers *)
(* (one pass over bin under the mutex), and the functions that remove the  *)
(* files: PURGE_STORAGE removes bin only, the resets remove both.          *)

List(t) ==
  /\ pc[t] = "list"
  /\ Answer(t, TRUE, Seen(bin))
  /\ UNCHANGED <<flashVars, lock, request, pos, histVars>>

Clear(t) ==
  /\ pc[t] = "clear"
  /\ gone' = gone \cup Seen(bin)
  /\ bin' = NoFile
  /\ tmp' \in {tmp, NoFile}
  /\ Answer(t, TRUE, {})
  /\ UNCHANGED <<lock, request, pos, made, calls, crashes, intact>>

\* The power is cut: every task stops, and a record being written is torn.
Crash ==
  /\ crashes < MaxCrashes
  /\ crashes' = crashes + 1
  /\ lock' = Nobody
  /\ pc' = [t \in Tasks |-> "idle"] /\ request' = [t \in Tasks |-> NoRequest]
  /\ pos' = [t \in Tasks |-> 0] /\ answer' = [t \in Tasks |-> NoAnswer]
  /\ \/ UNCHANGED flashVars
     \/ \E t \in Tasks :
          /\ pc[t] = "save"
          /\ bin' = File(Append(bin.recs, Torn(Rec(request[t].rec.id, request[t].rec.rp))))
          /\ UNCHANGED tmp
     \/ \E t \in Tasks :
          /\ pc[t] = "copy" /\ pos[t] < Len(bin.recs)
          /\ tmp' = File(Append(tmp.recs, Torn(bin.recs[pos[t] + 1])))
          /\ UNCHANGED bin
  /\ intact' = FALSE
  /\ UNCHANGED <<made, calls, gone>>

Starts(t) ==
  \/ \E rp \in Rps : CallSave(t, rp) \/ CallDeleteSite(t, rp)
  \/ \E id \in Ids : CallDelete(t, id)
  \/ CallList(t)
  \/ CallClear(t)

Steps(t) ==
  \/ Take(t) \/ Give(t)
  \/ SaveRefused(t) \/ SaveAppend(t)
  \/ DeleteRefused(t) \/ OpenTemp(t) \/ CopyRecord(t) \/ DropTemp(t) \/ RemoveOld(t) \/ RenameNew(t)
  \/ List(t) \/ Clear(t)

Next == (\E t \in Tasks : Starts(t) \/ Steps(t)) \/ Crash

Spec == Init /\ [][Next]_vars

\* Every task is scheduled.
FairSpec == Spec /\ \A t \in Tasks : WF_vars(Steps(t))

-----------------------------------------------------------------------------
(* Properties.                                                             *)

\* The records as callers see them: between RemoveOld and RenameNew they are
\* in the temporary file.
Current == IF \E t \in Tasks : pc[t] = "rename" THEN Seen(tmp) ELSE Seen(bin)

Set == INSTANCE PasskeySet WITH
  creds <- Current,
  done <- {t \in Tasks : pc[t] \in {"return", "rename"}},
  answer <- [t \in Tasks |-> IF pc[t] \in {"return", "rename"} THEN answer[t] ELSE NoAnswer]

\* Every call, however the two tasks interleave, takes effect at one moment on one
\* set of records: no save is lost under another task's rewrite, no reader finds
\* the file missing.  After a failed write or a power cut records may be lost, and
\* still nothing that was deleted comes back.
ActsAsSet == Set!Spec

\* A record whose deletion took effect never comes back, also when a power cut
\* left an old temporary file behind: that file is emptied before it is used.
NoResurrection ==
  \A c \in gone : c \notin Seen(bin) /\ (\A t \in Tasks : pc[t] = "rename" => c \notin Seen(tmp))

\* No record is in the file twice, whatever was cut short.
NoDuplicates ==
  \A i, j \in 1..Len(bin.recs) : bin.recs[i].id = bin.recs[j].id => i = j

\* Whatever a power cut or a failed write left behind, the file holds no deleted record and
\* no record twice.
RecordsSound == NoResurrection /\ NoDuplicates

\* Every call returns: storageMutex is given back on every path.
CallReturns == \A t \in Tasks : pc[t] # "idle" ~> pc[t] = "idle"
=============================================================================
