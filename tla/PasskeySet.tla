----------------------------- MODULE PasskeySet -----------------------------
(***************************************************************************)
(* What the passkey functions of src/StorageManager.cpp promise to the     *)
(* tasks that call them: each call takes effect at once, at some moment    *)
(* between its start and its return, on one set of records.  After a write *)
(* that failed or a power cut the promise is weaker: records may be lost,  *)
(* but none appears that no save in progress has asked for, so nothing     *)
(* deleted comes back.                                                     *)
(***************************************************************************)
EXTENDS Naturals

CONSTANTS Tasks, Ids, Rps

Records  == [id : Ids, rp : Rps]
Requests == [op : {"save"}, rec : Records]
       \cup [op : {"delete"}, id : Ids]
       \cup [op : {"deleteSite"}, rp : Rps]
       \cup [op : {"list", "clear"}]

NoRequest == [op |-> "none"]
NoAnswer  == [ok |-> FALSE, seen |-> {}]

VARIABLES
  creds,       \* the records
  request,     \* what each task has asked for
  done,        \* the tasks whose request has taken effect
  answer,      \* its result
  intact       \* no write failed and the power was never cut

vars == <<creds, request, done, answer, intact>>

Init ==
  /\ creds = {}
  /\ request = [t \in Tasks |-> NoRequest]
  /\ done = {}
  /\ answer = [t \in Tasks |-> NoAnswer]
  /\ intact = TRUE

Call(t, r) ==
  /\ request[t] = NoRequest
  /\ request' = [request EXCEPT ![t] = r]
  /\ UNCHANGED <<creds, done, answer, intact>>

\* The records a request removes.
Removed(r) ==
  CASE r.op = "delete"     -> {c \in creds : c.id = r.id}
    [] r.op = "deleteSite" -> {c \in creds : c.rp = r.rp}
    [] r.op = "clear"      -> creds
    [] OTHER               -> {}

Added(r) == IF r.op = "save" THEN {r.rec} ELSE {}

\* A deletion succeeds when it removes something; a list names every record.
Result(r) ==
  [ok   |-> r.op \in {"delete", "deleteSite"} => Removed(r) # {},
   seen |-> IF r.op = "list" THEN creds ELSE {}]

TakeEffect(t) ==
  LET r == request[t] IN
    /\ r # NoRequest /\ t \notin done
    /\ creds' = (creds \ Removed(r)) \cup Added(r)
    /\ answer' = [answer EXCEPT ![t] = Result(r)]
    /\ done' = done \cup {t}
    /\ UNCHANGED <<request, intact>>

Return(t) ==
  /\ t \in done
  /\ done' = done \ {t}
  /\ request' = [request EXCEPT ![t] = NoRequest]
  /\ answer' = [answer EXCEPT ![t] = NoAnswer]
  /\ UNCHANGED <<creds, intact>>

Asked == {request[t].rec : t \in {u \in Tasks : request[u].op = "save"}}

\* A fault, and every step after one: calls may end early, records may go.
Degrade ==
  /\ intact' = FALSE
  /\ creds' \subseteq creds \cup Asked
  /\ request' \in [Tasks -> Requests \cup {NoRequest}]
  /\ done' \subseteq Tasks
  /\ answer' \in [Tasks -> [ok : BOOLEAN, seen : SUBSET Records]]

Next ==
  \/ \E t \in Tasks :
       \/ \E r \in Requests : Call(t, r)
       \/ TakeEffect(t)
       \/ Return(t)
  \/ Degrade

Spec == Init /\ [][Next]_vars
=============================================================================
