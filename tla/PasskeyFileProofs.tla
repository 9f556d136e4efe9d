-------------------------- MODULE PasskeyFileProofs --------------------------
(***************************************************************************)
(* Proofs about PasskeyFile, for any number of tasks, relying parties,     *)
(* records, calls, faults and power cuts: the file never holds a deleted   *)
(* record or a record twice (RecordsSound), and the functions that rewrite *)
(* it act as one set of records (ActsAsSet, the specification PasskeySet). *)
(*                                                                         *)
(* Both rest on what a rewrite has done so far: the records in the         *)
(* temporary file are copies, one each, of records read so far that are    *)
(* not to be deleted (Copies); a reader finds in it nothing that it would  *)
(* not find in the old file, torn records included (Prefix); and while     *)
(* nothing has failed it has them all (Complete).                          *)
(***************************************************************************)
EXTENDS PasskeyFile, TLAPS

Ops    == {"save", "delete", "deleteSite", "list", "clear"}
Places == Ops \cup {"idle", "take", "copy", "rename", "return"}

\* Bytes of a record, whole or torn; and what callers see of it.
Record == [id : Ids, rp : Rps, torn : BOOLEAN]
Shown  == [id : Ids, rp : Rps]
Proj(r) == [id |-> r.id, rp |-> r.rp]

IdsOf(s)  == {s[i].id : i \in 1..Len(s)}
Unique(s) == \A i, j \in 1..Len(s) : s[i].id = s[j].id => i = j
WholeUpTo(s, k) == \A j \in 1..k : ~s[j].torn

FilesOk ==
  /\ bin.recs \in Seq(Record) /\ tmp.recs \in Seq(Record)
  /\ ~bin.exists => bin.recs = <<>>
  /\ ~tmp.exists => tmp.recs = <<>>

TasksOk ==
  /\ pc \in [Tasks -> Places]
  /\ request \in [Tasks -> Set!Requests \cup {NoRequest}]
  /\ pos \in [Tasks -> Nat]
  /\ made \in Nat

\* What a task has at each place.
AtPlace(t) ==
  /\ pc[t] = "idle" => request[t] = NoRequest
  /\ pc[t] \in {"take", "return"} => request[t].op \in Ops
  /\ pc[t] \in Ops => request[t].op = pc[t]
  /\ pc[t] \in {"copy", "rename"} => request[t].op \in {"delete", "deleteSite"}

AtPlaces == \A t \in Tasks : AtPlace(t)

\* storageMutex keeps everyone else at its door.
Mutex == \A t \in Tasks : pc[t] \notin {"idle", "take"} => lock = t

-----------------------------------------------------------------------------
(* Records and files.                                                      *)

\* A torn record is the record it was.
LEMMA TornIs ==
  ASSUME NEW r \in Record
  PROVE  Torn(r) \in Record /\ Torn(r).torn /\ Torn(r).id = r.id /\ Torn(r).rp = r.rp
BY DEF Torn, Record

\* A new record is whole.
LEMMA RecIs ==
  ASSUME NEW c \in Shown
  PROVE  /\ Rec(c.id, c.rp) \in Record /\ ~Rec(c.id, c.rp).torn
         /\ Rec(c.id, c.rp).id = c.id /\ Rec(c.id, c.rp).rp = c.rp /\ Proj(Rec(c.id, c.rp)) = c
BY DEF Rec, Record, Shown, Proj

\* What callers see of a record.
LEMMA ProjIs ==
  ASSUME NEW r \in Record
  PROVE  Proj(r) \in Shown /\ Proj(r).id = r.id /\ Proj(r).rp = r.rp
BY DEF Proj, Record, Shown

\* A request is one of five, or none; and what it names.
LEMMA RequestIs ==
  ASSUME NEW r \in Set!Requests \cup {NoRequest}
  PROVE  /\ r.op \in Ops \cup {"none"} /\ (r.op = "none" <=> r = NoRequest)
         /\ r.op = "save" => r.rec \in Shown
BY DEF Set!Requests, Set!Records, NoRequest, Ops, Shown

\* No request is not a request.
LEMMA NoRequestIs == NoRequest \notin Set!Requests /\ NoRequest.op = "none"
BY DEF Set!Requests, NoRequest

\* What a reader finds.
LEMMA SeenIs ==
  ASSUME NEW f, f.recs \in Seq(Record), NEW c
  PROVE  c \in Seen(f) <=> \E k \in 1..Len(f.recs) : WholeUpTo(f.recs, k) /\ c = Proj(f.recs[k])
BY DEF Seen, Readable, WholeUpTo, Proj

\* An appended record: what it changes ...
LEMMA Appended ==
  ASSUME NEW s \in Seq(Record), NEW r \in Record
  PROVE  /\ Append(s, r) \in Seq(Record) /\ Len(Append(s, r)) = Len(s) + 1
         /\ \A i \in 1..Len(s) : Append(s, r)[i] = s[i]
         /\ Append(s, r)[Len(s) + 1] = r
         /\ IdsOf(Append(s, r)) = IdsOf(s) \cup {r.id}
         /\ Unique(s) /\ r.id \notin IdsOf(s) => Unique(Append(s, r))
<1>1. /\ Append(s, r) \in Seq(Record) /\ Len(Append(s, r)) = Len(s) + 1
      /\ \A i \in 1..Len(s) : Append(s, r)[i] = s[i]
      /\ Append(s, r)[Len(s) + 1] = r
    OBVIOUS
<1> DEFINE a == Append(s, r)
<1> HIDE DEF a
<1>2. IdsOf(a) = IdsOf(s) \cup {r.id}
    BY <1>1 DEF IdsOf, a
<1>3. Unique(s) /\ r.id \notin IdsOf(s) => Unique(a)
    BY <1>1 DEF IdsOf, Unique, a
<1> QED BY <1>1, <1>2, <1>3 DEF a

\* ... of its being whole ...
LEMMA WholeAppended ==
  ASSUME NEW s \in Seq(Record), NEW r \in Record
  PROVE  WholeUpTo(Append(s, r), Len(Append(s, r))) <=> WholeUpTo(s, Len(s)) /\ ~r.torn
<1> DEFINE a == Append(s, r)
           n == Len(s)
<1>1. Len(a) = n + 1 /\ n \in Nat /\ (\A i \in 1..n : a[i] = s[i]) /\ a[n + 1] = r
    BY Appended
<1> HIDE DEF a, n
<1>2. WholeUpTo(a, n + 1) <=> WholeUpTo(s, n) /\ ~r.torn
    BY <1>1 DEF WholeUpTo
<1> QED BY <1>1, <1>2 DEF a, n

\* ... and for a reader.
LEMMA SeenAppended ==
  ASSUME NEW f, NEW g, f.recs \in Seq(Record), NEW r \in Record, g.recs = Append(f.recs, r)
  PROVE  /\ Seen(f) \subseteq Seen(g) /\ Seen(g) \subseteq Seen(f) \cup {Proj(r)}
         /\ r.torn => Seen(g) = Seen(f)
         /\ WholeUpTo(f.recs, Len(f.recs)) /\ ~r.torn => Seen(g) = Seen(f) \cup {Proj(r)}
         /\ ~WholeUpTo(f.recs, Len(f.recs)) => Seen(g) = Seen(f)
<1> DEFINE s == f.recs
           a == g.recs
           n == Len(s)
<1>1. /\ a \in Seq(Record) /\ Len(a) = n + 1 /\ n \in Nat
      /\ \A i \in 1..n : a[i] = s[i]
      /\ a[n + 1] = r
    BY Appended
<1>2. \A k \in 1..n : WholeUpTo(a, k) <=> WholeUpTo(s, k)
    BY <1>1 DEF WholeUpTo
<1>3. WholeUpTo(a, n + 1) <=> WholeUpTo(s, n) /\ ~r.torn
    BY <1>1 DEF WholeUpTo
<1> HIDE DEF s, a, n
<1>4. ASSUME NEW c PROVE c \in Seen(f) <=> \E k \in 1..n : WholeUpTo(s, k) /\ c = Proj(s[k])
    BY SeenIs DEF s, n
<1>5. ASSUME NEW c PROVE c \in Seen(g) <=> \E k \in 1..(n + 1) : WholeUpTo(a, k) /\ c = Proj(a[k])
    <2>1. Len(g.recs) = n + 1 /\ g.recs \in Seq(Record)
        BY <1>1 DEF a
    <2> QED BY <2>1, SeenIs DEF a
<1>6. ASSUME NEW c
      PROVE  c \in Seen(g) <=> c \in Seen(f) \/ (WholeUpTo(s, n) /\ ~r.torn /\ c = Proj(r))
    BY <1>1, <1>2, <1>3, <1>4, <1>5
<1> QED BY <1>6 DEF s, n

\* An empty file shows nothing.
LEMMA SeenEmpty ==
  ASSUME NEW f, f.recs = <<>>
  PROVE  Seen(f) = {}
BY DEF Seen, Readable

-----------------------------------------------------------------------------
(* The steps.                                                              *)

\* A call: a save has the next identifier.
Asks(t, r) ==
  /\ Call(t, r)
  /\ IF r.op = "save" THEN r.rec.id = made + 1 /\ made' = made + 1 ELSE made' = made

\* Every call is a request.
LEMMA StartsIs ==
  ASSUME TasksOk, NEW t \in Tasks, Starts(t)
  PROVE  \E r \in Set!Requests : Asks(t, r)
<1>1. ASSUME NEW rp \in Rps, CallSave(t, rp) PROVE \E r \in Set!Requests : Asks(t, r)
    <2> DEFINE r == [op |-> "save", rec |-> [id |-> made + 1, rp |-> rp]]
    <2>1. made + 1 \in Ids
        BY <1>1, FileAssumption DEF CallSave, TasksOk, Ids
    <2>2. r \in Set!Requests
        BY <2>1 DEF Set!Requests, Set!Records
    <2>3. Asks(t, r)
        BY <1>1 DEF CallSave, Asks
    <2> QED BY <2>2, <2>3
<1>2. ASSUME NEW rp \in Rps, CallDeleteSite(t, rp) PROVE \E r \in Set!Requests : Asks(t, r)
    <2> DEFINE r == [op |-> "deleteSite", rp |-> rp]
    <2>1. r \in Set!Requests
        BY DEF Set!Requests
    <2>2. Asks(t, r)
        BY <1>2 DEF CallDeleteSite, Asks
    <2> QED BY <2>1, <2>2
<1>3. ASSUME NEW id \in Ids, CallDelete(t, id) PROVE \E r \in Set!Requests : Asks(t, r)
    <2> DEFINE r == [op |-> "delete", id |-> id]
    <2>1. r \in Set!Requests
        BY DEF Set!Requests
    <2>2. Asks(t, r)
        BY <1>3 DEF CallDelete, Asks
    <2> QED BY <2>1, <2>2
<1>4. ASSUME CallList(t) PROVE \E r \in Set!Requests : Asks(t, r)
    <2> DEFINE r == [op |-> "list"]
    <2>1. r \in Set!Requests
        BY DEF Set!Requests
    <2>2. Asks(t, r)
        BY <1>4 DEF CallList, Asks
    <2> QED BY <2>1, <2>2
<1>5. ASSUME CallClear(t) PROVE \E r \in Set!Requests : Asks(t, r)
    <2> DEFINE r == [op |-> "clear"]
    <2>1. r \in Set!Requests
        BY DEF Set!Requests
    <2>2. Asks(t, r)
        BY <1>5 DEF CallClear, Asks
    <2> QED BY <2>1, <2>2
<1> QED BY <1>1, <1>2, <1>3, <1>4, <1>5 DEF Starts

\* savePasskeyRecord appends the record it was given, whole or torn.
LEMMA SaveIs ==
  ASSUME TasksOk, AtPlaces, NEW t \in Tasks, SaveAppend(t)
  PROVE  \E r \in Record :
           /\ Proj(r) = request[t].rec /\ r.id = request[t].rec.id
           /\ bin' = File(Append(bin.recs, r))
           /\ intact' => intact /\ ~r.torn
<1> DEFINE w == Rec(request[t].rec.id, request[t].rec.rp)
<1>1. request[t].rec \in Shown
    BY RequestIs DEF SaveAppend, TasksOk, AtPlaces, AtPlace, Ops
<1>2. /\ w \in Record /\ ~w.torn /\ Proj(w) = request[t].rec /\ w.id = request[t].rec.id
      /\ w.rp = request[t].rec.rp
    BY <1>1, RecIs
<1>3. /\ Torn(w) \in Record /\ Torn(w).torn /\ Torn(w).id = w.id /\ Torn(w).rp = w.rp
    BY <1>2, TornIs
<1>4. Proj(Torn(w)) = Proj(w)
    BY <1>3 DEF Proj
<1>5. PICK cut \in Fault("write") :
        intact' = (intact /\ ~cut) /\ bin' = File(Append(bin.recs, IF cut THEN Torn(w) ELSE w))
    BY Zenon DEF SaveAppend
<1>6. CASE cut
    BY <1>2, <1>3, <1>4, <1>5, <1>6, Zenon
<1>7. CASE ~cut
    BY <1>2, <1>5, <1>7, Zenon
<1> QED BY <1>6, <1>7

\* One record is read: dropped, or copied, whole or torn.
Drops(t) ==
  /\ Matches(t, bin.recs[pos[t] + 1])
  /\ answer' = [answer EXCEPT ![t].ok = TRUE] /\ UNCHANGED <<tmp, intact>>

Copying(t, c) ==
  LET r == bin.recs[pos[t] + 1] IN
  /\ ~Matches(t, r)
  /\ c.id = r.id /\ c.rp = r.rp /\ (r.torn => c.torn)
  /\ tmp' = File(Append(tmp.recs, c)) /\ answer' = answer
  /\ intact' => intact /\ c = r

\* Those are the outcomes of reading one record.
LEMMA CopyIs ==
  ASSUME FilesOk, TasksOk, NEW t \in Tasks, CopyRecord(t)
  PROVE  Drops(t) \/ \E c \in Record : Copying(t, c)
<1> DEFINE r == bin.recs[pos[t] + 1]
<1>1. r \in Record
    BY DEF FilesOk, TasksOk, CopyRecord
<1>2. Torn(r) \in Record /\ Torn(r).torn /\ Torn(r).id = r.id /\ Torn(r).rp = r.rp
    BY <1>1, TornIs
<1>3. CASE Matches(t, r)
    BY <1>3, Zenon DEF CopyRecord, Drops
<1>4. CASE ~Matches(t, r)
    <2>1. PICK cut \in Fault("write"), short \in Fault("memory") :
            /\ intact' = (intact /\ ~cut /\ ~short)
            /\ tmp' = File(Append(tmp.recs, IF cut \/ short THEN Torn(r) ELSE r))
        BY <1>4, Zenon DEF CopyRecord
    <2>2. answer' = answer
        BY <1>4, Zenon DEF CopyRecord
    <2>3. CASE cut \/ short
        <3>1. Copying(t, Torn(r))
            BY <1>2, <1>4, <2>1, <2>2, <2>3, Zenon DEF Copying
        <3> QED BY <1>2, <3>1
    <2>4. CASE ~(cut \/ short)
        <3>1. Copying(t, r)
            BY <1>4, <2>1, <2>2, <2>4, Zenon DEF Copying
        <3> QED BY <1>1, <3>1
    <2> QED BY <2>3, <2>4
<1> QED BY <1>3, <1>4

\* After a power cut: nobody runs, and the file may end in a torn record.
LEMMA CrashIs ==
  ASSUME FilesOk, TasksOk, AtPlaces, Crash
  PROVE  /\ \/ bin' = bin
            \/ \E t \in Tasks, r \in Record :
                 /\ pc[t] = "save" /\ r.torn /\ Proj(r) = request[t].rec /\ r.id = request[t].rec.id
                 /\ bin' = File(Append(bin.recs, r))
         /\ tmp'.recs \in Seq(Record) /\ (~tmp'.exists => tmp'.recs = <<>>)
<1>1. CASE UNCHANGED flashVars
    BY <1>1 DEF FilesOk, flashVars
<1>2. ASSUME NEW t \in Tasks, pc[t] = "save", UNCHANGED tmp,
             bin' = File(Append(bin.recs, Torn(Rec(request[t].rec.id, request[t].rec.rp))))
      PROVE  /\ \E u \in Tasks, r \in Record :
                  /\ pc[u] = "save" /\ r.torn /\ Proj(r) = request[u].rec /\ r.id = request[u].rec.id
                  /\ bin' = File(Append(bin.recs, r))
             /\ tmp'.recs \in Seq(Record) /\ (~tmp'.exists => tmp'.recs = <<>>)
    <2> DEFINE w == Rec(request[t].rec.id, request[t].rec.rp)
    <2>1. request[t].rec \in Shown
        BY <1>2, RequestIs DEF TasksOk, AtPlaces, AtPlace, Ops
    <2>2. w \in Record /\ Proj(w) = request[t].rec /\ w.id = request[t].rec.id
        BY <2>1, RecIs
    <2>3. Torn(w) \in Record /\ Torn(w).torn /\ Torn(w).id = w.id /\ Torn(w).rp = w.rp
        BY <2>2, TornIs
    <2>4. Proj(Torn(w)) = Proj(w)
        BY <2>3 DEF Proj
    <2> QED BY <1>2, <2>2, <2>3, <2>4 DEF FilesOk
<1>3. ASSUME NEW t \in Tasks, pos[t] < Len(bin.recs), UNCHANGED bin,
             tmp' = File(Append(tmp.recs, Torn(bin.recs[pos[t] + 1])))
      PROVE  bin' = bin /\ tmp'.recs \in Seq(Record) /\ (~tmp'.exists => tmp'.recs = <<>>)
    <2>1. bin.recs[pos[t] + 1] \in Record
        BY <1>3 DEF FilesOk, TasksOk
    <2>2. Torn(bin.recs[pos[t] + 1]) \in Record
        BY <2>1, TornIs
    <2> QED BY <1>3, <2>2 DEF FilesOk, File
<1> QED BY <1>1, <1>2, <1>3 DEF Crash

-----------------------------------------------------------------------------
(* Types, places and the mutex.                                            *)

\* A file is a sequence of records, whole or torn.
LEMMA FilesKept == TasksOk /\ AtPlaces /\ FilesOk /\ [Next]_vars => FilesOk'
<1> SUFFICES ASSUME TasksOk /\ AtPlaces /\ FilesOk, [Next]_vars PROVE FilesOk'
    OBVIOUS
<1> USE DEF FilesOk, flashVars, taskVars, histVars
<1>1. ASSUME NEW t \in Tasks, NEW r \in Set!Requests, Asks(t, r) PROVE FilesOk'
    BY <1>1 DEF Asks, Call, Goto
<1>2. ASSUME NEW t \in Tasks, Take(t) PROVE FilesOk'
    BY <1>2 DEF Take, Goto
<1>3. ASSUME NEW t \in Tasks, Give(t) PROVE FilesOk'
    BY <1>3 DEF Give, Goto
<1>4. ASSUME NEW t \in Tasks, SaveRefused(t) PROVE FilesOk'
    BY <1>4 DEF SaveRefused, Answer, Goto
<1>5. ASSUME NEW t \in Tasks, SaveAppend(t) PROVE FilesOk'
    <2>1. PICK r \in Record : bin' = File(Append(bin.recs, r))
        BY <1>5, SaveIs
    <2> QED BY <1>5, <2>1 DEF SaveAppend, File
<1>6. ASSUME NEW t \in Tasks, DeleteRefused(t) PROVE FilesOk'
    BY <1>6 DEF DeleteRefused, Answer, Goto
<1>7. ASSUME NEW t \in Tasks, OpenTemp(t) PROVE FilesOk'
    BY <1>7 DEF OpenTemp, Goto, File
<1>8. ASSUME NEW t \in Tasks, CopyRecord(t) PROVE FilesOk'
    <2>1. CASE tmp' = tmp
        BY <1>8, <2>1 DEF CopyRecord
    <2>2. CASE \E c \in Record : tmp' = File(Append(tmp.recs, c))
        BY <1>8, <2>2 DEF CopyRecord, File
    <2> QED BY <1>8, <2>1, <2>2, CopyIs DEF Drops, Copying
<1>9. ASSUME NEW t \in Tasks, DropTemp(t) PROVE FilesOk'
    BY <1>9 DEF DropTemp, Goto, NoFile
<1>10. ASSUME NEW t \in Tasks, RemoveOld(t) PROVE FilesOk'
    BY <1>10 DEF RemoveOld, Goto, NoFile
<1>11. ASSUME NEW t \in Tasks, RenameNew(t) PROVE FilesOk'
    BY <1>11 DEF RenameNew, Goto, NoFile
<1>12. ASSUME NEW t \in Tasks, List(t) PROVE FilesOk'
    BY <1>12 DEF List, Answer, Goto
<1>13. ASSUME NEW t \in Tasks, Clear(t) PROVE FilesOk'
    <2>1. bin' = NoFile /\ (tmp' = tmp \/ tmp' = NoFile)
        BY <1>13 DEF Clear
    <2>2. CASE tmp' = tmp
        BY <2>1, <2>2 DEF NoFile
    <2>3. CASE tmp' = NoFile
        BY <2>1, <2>3 DEF NoFile
    <2> QED BY <2>1, <2>2, <2>3
<1>14. CASE Crash
    <2>1. CASE bin' = bin
        BY <1>14, <2>1, CrashIs
    <2>2. CASE \E r \in Record : bin' = File(Append(bin.recs, r))
        BY <1>14, <2>2, CrashIs DEF File
    <2> QED BY <1>14, <2>1, <2>2, CrashIs
<1>15. CASE UNCHANGED vars
    BY <1>15 DEF vars
<1> QED BY <1>1, <1>2, <1>3, <1>4, <1>5, <1>6, <1>7, <1>8, <1>9, <1>10, <1>11, <1>12, <1>13,
        <1>14, <1>15, StartsIs DEF Next, Steps

\* Every task makes a request and is at a place of the code.
LEMMA TasksKept == TasksOk /\ AtPlaces /\ [Next]_vars => (TasksOk /\ AtPlaces)'
<1> SUFFICES ASSUME TasksOk /\ AtPlaces, [Next]_vars PROVE (TasksOk /\ AtPlaces)'
    OBVIOUS
<1> USE DEF TasksOk, AtPlaces, AtPlace, Places, Ops, flashVars, taskVars, histVars
<1>1. ASSUME NEW t \in Tasks, NEW r \in Set!Requests, Asks(t, r) PROVE (TasksOk /\ AtPlaces)'
    <2>1. /\ pc' = [pc EXCEPT ![t] = "take"] /\ request' = [request EXCEPT ![t] = r] /\ pos' = pos
          /\ made' = made \/ made' = made + 1
        BY <1>1 DEF Asks, Call, Goto
    <2>2. request' \in [Tasks -> Set!Requests \cup {NoRequest}]
        BY <2>1
    <2>3. request'[t] = r /\ r.op \in Ops
        BY <2>1, RequestIs, NoRequestIs
    <2> QED BY <2>1, <2>2, <2>3
<1>2. ASSUME NEW t \in Tasks, Take(t) PROVE (TasksOk /\ AtPlaces)'
    BY <1>2, RequestIs DEF Take, Goto
<1>3. ASSUME NEW t \in Tasks, Give(t) PROVE (TasksOk /\ AtPlaces)'
    BY <1>3, RequestIs DEF Give, Goto, NoRequest
<1>4. ASSUME NEW t \in Tasks, SaveRefused(t) PROVE (TasksOk /\ AtPlaces)'
    BY <1>4, RequestIs DEF SaveRefused, Answer, Goto
<1>5. ASSUME NEW t \in Tasks, SaveAppend(t) PROVE (TasksOk /\ AtPlaces)'
    BY <1>5, RequestIs DEF SaveAppend, Answer, Goto
<1>6. ASSUME NEW t \in Tasks, DeleteRefused(t) PROVE (TasksOk /\ AtPlaces)'
    BY <1>6, RequestIs DEF DeleteRefused, Answer, Goto
<1>7. ASSUME NEW t \in Tasks, OpenTemp(t) PROVE (TasksOk /\ AtPlaces)'
    BY <1>7, RequestIs DEF OpenTemp, Goto
<1>8. ASSUME NEW t \in Tasks, CopyRecord(t) PROVE (TasksOk /\ AtPlaces)'
    BY <1>8, RequestIs DEF CopyRecord
<1>9. ASSUME NEW t \in Tasks, DropTemp(t) PROVE (TasksOk /\ AtPlaces)'
    BY <1>9, RequestIs DEF DropTemp, Goto
<1>10. ASSUME NEW t \in Tasks, RemoveOld(t) PROVE (TasksOk /\ AtPlaces)'
    BY <1>10, RequestIs DEF RemoveOld, Goto
<1>11. ASSUME NEW t \in Tasks, RenameNew(t) PROVE (TasksOk /\ AtPlaces)'
    BY <1>11, RequestIs DEF RenameNew, Goto
<1>12. ASSUME NEW t \in Tasks, List(t) PROVE (TasksOk /\ AtPlaces)'
    BY <1>12, RequestIs DEF List, Answer, Goto
<1>13. ASSUME NEW t \in Tasks, Clear(t) PROVE (TasksOk /\ AtPlaces)'
    BY <1>13, RequestIs DEF Clear, Answer, Goto
<1>14. CASE Crash
    BY <1>14, RequestIs DEF Crash, NoRequest
<1>15. CASE UNCHANGED vars
    BY <1>15 DEF vars
<1> QED BY <1>1, <1>2, <1>3, <1>4, <1>5, <1>6, <1>7, <1>8, <1>9, <1>10, <1>11, <1>12, <1>13,
        <1>14, <1>15, StartsIs DEF Next, Steps

\* One task at a time is past the mutex.
LEMMA MutexKept == TasksOk /\ Mutex /\ [Next]_vars => Mutex'
<1> SUFFICES ASSUME TasksOk /\ Mutex, [Next]_vars PROVE Mutex'
    OBVIOUS
<1> USE DEF TasksOk, Mutex, flashVars, taskVars, histVars
<1>1. ASSUME NEW t \in Tasks, NEW r \in Set!Requests, Asks(t, r) PROVE Mutex'
    BY <1>1, FileAssumption DEF Asks, Call, Goto
<1>2. ASSUME NEW t \in Tasks, Take(t) PROVE Mutex'
    BY <1>2, FileAssumption DEF Take, Goto
<1>3. ASSUME NEW t \in Tasks, Give(t) PROVE Mutex'
    BY <1>3, FileAssumption DEF Give, Goto
<1>4. ASSUME NEW t \in Tasks, SaveRefused(t) PROVE Mutex'
    BY <1>4, FileAssumption DEF SaveRefused, Answer, Goto
<1>5. ASSUME NEW t \in Tasks, SaveAppend(t) PROVE Mutex'
    BY <1>5, FileAssumption DEF SaveAppend, Answer, Goto
<1>6. ASSUME NEW t \in Tasks, DeleteRefused(t) PROVE Mutex'
    BY <1>6, FileAssumption DEF DeleteRefused, Answer, Goto
<1>7. ASSUME NEW t \in Tasks, OpenTemp(t) PROVE Mutex'
    BY <1>7, FileAssumption DEF OpenTemp, Goto
<1>8. ASSUME NEW t \in Tasks, CopyRecord(t) PROVE Mutex'
    BY <1>8, FileAssumption DEF CopyRecord
<1>9. ASSUME NEW t \in Tasks, DropTemp(t) PROVE Mutex'
    BY <1>9, FileAssumption DEF DropTemp, Goto
<1>10. ASSUME NEW t \in Tasks, RemoveOld(t) PROVE Mutex'
    BY <1>10, FileAssumption DEF RemoveOld, Goto
<1>11. ASSUME NEW t \in Tasks, RenameNew(t) PROVE Mutex'
    BY <1>11, FileAssumption DEF RenameNew, Goto
<1>12. ASSUME NEW t \in Tasks, List(t) PROVE Mutex'
    BY <1>12, FileAssumption DEF List, Answer, Goto
<1>13. ASSUME NEW t \in Tasks, Clear(t) PROVE Mutex'
    BY <1>13, FileAssumption DEF Clear, Answer, Goto
<1>14. CASE Crash
    BY <1>14, FileAssumption DEF Crash
<1>15. CASE UNCHANGED vars
    BY <1>15 DEF vars
<1> QED BY <1>1, <1>2, <1>3, <1>4, <1>5, <1>6, <1>7, <1>8, <1>9, <1>10, <1>11, <1>12, <1>13,
        <1>14, <1>15, StartsIs DEF Next, Steps

-----------------------------------------------------------------------------
(* No record twice, and none that was deleted.                             *)

\* Matches, of a request.
Hit(q, r) ==
  /\ ~r.torn
  /\ CASE q.op = "delete"     -> r.id = q.id
       [] q.op = "deleteSite" -> r.rp = q.rp

\* The copies made so far: of records read so far, one each, none to be deleted.
Copies ==
  /\ Unique(bin.recs)
  /\ \A t \in Tasks : pc[t] = "copy" =>
       /\ pos[t] <= Len(bin.recs) /\ Unique(tmp.recs)
       /\ \A n \in IdsOf(tmp.recs) :
            \E i \in 1..pos[t] : bin.recs[i].id = n /\ ~Hit(request[t], bin.recs[i])
  /\ \A t \in Tasks : pc[t] = "rename" => Unique(tmp.recs) /\ bin.recs = <<>>

Renaming == \E t \in Tasks : pc[t] = "rename"

\* The identifiers of the records on file, and of the deleted ones.
OnFile == IdsOf(bin.recs) \cup (IF Renaming THEN IdsOf(tmp.recs) ELSE {})
Gone   == {c.id : c \in gone}

\* A deleted record is not on file.
StaysGone == OnFile \cap Gone = {}

Wants(t) == pc[t] \in {"take", "save"} /\ request[t].op = "save"

\* The record that is to be saved is on file nowhere, and nobody else saves it.
Numbered ==
  /\ \A n \in OnFile \cup Gone : n <= made
  /\ \A t \in Tasks : Wants(t) =>
       /\ request[t].rec.id <= made /\ request[t].rec.id \notin OnFile \cup Gone
       /\ \A u \in Tasks \ {t} : Wants(u) => request[u].rec.id # request[t].rec.id

GoneOk == gone \subseteq Shown

Basics == FilesOk /\ TasksOk /\ AtPlaces /\ Mutex

\* Nobody runs beside the task that holds the mutex.
LEMMA Alone ==
  ASSUME TasksOk, Mutex, NEW t \in Tasks, pc[t] \notin {"idle", "take"}, NEW u \in Tasks \ {t}
  PROVE  pc[u] \in {"idle", "take"} /\ lock = t
BY DEF TasksOk, Mutex

\* A rewrite copies what it keeps.
LEMMA CopiesKept == Basics /\ Copies /\ Numbered /\ [Next]_vars => Copies'
<1> SUFFICES ASSUME Basics /\ Copies /\ Numbered, [Next]_vars PROVE Copies'
    OBVIOUS
<1> USE DEF Basics, TasksOk, Copies, flashVars, taskVars, histVars
<1>1. ASSUME NEW t \in Tasks, NEW r \in Set!Requests, Asks(t, r) PROVE Copies'
    BY <1>1, Alone DEF Asks, Call, Goto
<1>2. ASSUME NEW t \in Tasks, Take(t) PROVE Copies'
    BY <1>2, Alone DEF Take, Goto, AtPlaces, AtPlace, Ops
<1>3. ASSUME NEW t \in Tasks, Give(t) PROVE Copies'
    BY <1>3, Alone DEF Give, Goto
<1>4. ASSUME NEW t \in Tasks, SaveRefused(t) PROVE Copies'
    BY <1>4, Alone DEF SaveRefused, Answer, Goto
<1>5. ASSUME NEW t \in Tasks, SaveAppend(t) PROVE Copies'
    <2>1. PICK r \in Record : r.id = request[t].rec.id /\ bin' = File(Append(bin.recs, r))
        BY <1>5, SaveIs
    <2>2. r.id \notin IdsOf(bin.recs)
        BY <1>5, <2>1 DEF SaveAppend, Numbered, Wants, OnFile, AtPlaces, AtPlace, Ops
    <2>3. Unique(bin'.recs)
        BY <2>1, <2>2, Appended DEF File, FilesOk
    <2>4. \A u \in Tasks : pc'[u] \notin {"copy", "rename"}
        BY <1>5, Alone DEF SaveAppend, Answer, Goto
    <2> QED BY <2>3, <2>4
<1>6. ASSUME NEW t \in Tasks, DeleteRefused(t) PROVE Copies'
    BY <1>6, Alone DEF DeleteRefused, Answer, Goto
<1>7. ASSUME NEW t \in Tasks, OpenTemp(t) PROVE Copies'
    <2>1. \A u \in Tasks : pc'[u] \in {"copy", "rename"} => u = t
        BY <1>7, Alone DEF OpenTemp, Goto
    <2>2. IdsOf(tmp'.recs) = {} /\ Unique(tmp'.recs)
        BY <1>7 DEF OpenTemp, File, IdsOf, Unique
    <2>3. bin' = bin /\ pc'[t] = "copy" /\ pos'[t] = 0 /\ Len(bin.recs) \in Nat
        BY <1>7 DEF OpenTemp, Goto, FilesOk
    <2> QED BY <2>1, <2>2, <2>3
<1>8. ASSUME NEW t \in Tasks, CopyRecord(t) PROVE Copies'
    <2> DEFINE n == pos[t]
               r == bin.recs[n + 1]
    <2>1. /\ pc[t] = "copy" /\ pc' = pc /\ bin' = bin /\ request' = request /\ pos'[t] = n + 1
          /\ n \in Nat /\ n + 1 <= Len(bin.recs)
        BY <1>8 DEF CopyRecord
    <2>2. \A u \in Tasks : pc'[u] = "copy" => u = t
        BY <2>1, Alone
    <2>3. \A u \in Tasks : pc'[u] # "rename"
        BY <2>1, Alone
    <2>4. CASE tmp' = tmp
        BY <2>1, <2>2, <2>3, <2>4
    <2>5. ASSUME NEW c \in Record, Copying(t, c)
          PROVE  /\ Unique(tmp'.recs)
                 /\ \A m \in IdsOf(tmp'.recs) :
                      \E i \in 1..(n + 1) : bin.recs[i].id = m /\ ~Hit(request[t], bin.recs[i])
        <3>1. c.id = r.id /\ tmp'.recs = Append(tmp.recs, c) /\ ~Hit(request[t], r)
            BY <2>5 DEF Copying, File, Matches, Hit
        <3>2. r.id \notin IdsOf(tmp.recs)
            BY <2>1 DEF Unique, FilesOk
        <3>3. Unique(tmp'.recs) /\ IdsOf(tmp'.recs) = IdsOf(tmp.recs) \cup {r.id}
            BY <2>1, <3>1, <3>2, Appended DEF FilesOk
        <3> QED BY <2>1, <3>1, <3>3
    <2>6. CASE \E c \in Record : Copying(t, c)
        BY <2>1, <2>2, <2>3, <2>5, <2>6
    <2> QED BY <1>8, <2>4, <2>6, CopyIs DEF Drops
<1>9. ASSUME NEW t \in Tasks, DropTemp(t) PROVE Copies'
    BY <1>9, Alone DEF DropTemp, Goto
<1>10. ASSUME NEW t \in Tasks, RemoveOld(t) PROVE Copies'
    <2>1. \A u \in Tasks : pc'[u] \in {"copy", "rename"} => u = t
        BY <1>10, Alone DEF RemoveOld, Goto
    <2>2. bin'.recs = <<>> /\ Unique(bin'.recs) /\ tmp' = tmp /\ pc[t] = "copy" /\ pc'[t] = "rename"
        BY <1>10 DEF RemoveOld, Goto, NoFile, Unique
    <2> QED BY <2>1, <2>2
<1>11. ASSUME NEW t \in Tasks, RenameNew(t) PROVE Copies'
    <2>1. \A u \in Tasks : pc'[u] \notin {"copy", "rename"}
        BY <1>11, Alone DEF RenameNew, Goto
    <2>2. bin' = tmp /\ pc[t] = "rename"
        BY <1>11 DEF RenameNew
    <2> QED BY <2>1, <2>2
<1>12. ASSUME NEW t \in Tasks, List(t) PROVE Copies'
    BY <1>12, Alone DEF List, Answer, Goto
<1>13. ASSUME NEW t \in Tasks, Clear(t) PROVE Copies'
    <2>1. \A u \in Tasks : pc'[u] \notin {"copy", "rename"}
        BY <1>13, Alone DEF Clear, Answer, Goto
    <2>2. Unique(bin'.recs)
        BY <1>13 DEF Clear, NoFile, Unique
    <2> QED BY <2>1, <2>2
<1>14. CASE Crash
    <2>1. \A u \in Tasks : pc'[u] = "idle"
        BY <1>14 DEF Crash
    <2>2. CASE bin' = bin
        BY <2>1, <2>2
    <2>3. ASSUME NEW t \in Tasks, NEW r \in Record, pc[t] = "save", r.id = request[t].rec.id,
                 bin' = File(Append(bin.recs, r))
          PROVE  Unique(bin'.recs)
        <3>1. r.id \notin IdsOf(bin.recs)
            BY <2>3 DEF Numbered, Wants, OnFile, AtPlaces, AtPlace, Ops
        <3> QED BY <2>3, <3>1, Appended DEF File, FilesOk
    <2> QED BY <1>14, <2>1, <2>2, <2>3, CrashIs
<1>15. CASE UNCHANGED vars
    BY <1>15 DEF vars
<1> QED BY <1>1, <1>2, <1>3, <1>4, <1>5, <1>6, <1>7, <1>8, <1>9, <1>10, <1>11, <1>12, <1>13,
        <1>14, <1>15, StartsIs DEF Next, Steps

\* A step that puts no record on file that was not, and makes no request, keeps both.
LEMMA SoundAfter ==
  ASSUME StaysGone, Numbered, made' = made,
         OnFile' \cap Gone' = {}, OnFile' \cup Gone' \subseteq OnFile \cup Gone,
         \A u \in Tasks : Wants(u)' => Wants(u) /\ request'[u] = request[u]
  PROVE  (StaysGone /\ Numbered)'
BY DEF StaysGone, Numbered

\* An identifier on file is a number.
LEMMA NumbersOnFile ==
  ASSUME FilesOk, Numbered, GoneOk
  PROVE  \A n \in OnFile \cup Gone : n \in Nat
<1>1. \A r \in Record : r.id \in Nat
    BY DEF Record, Ids
<1>2. \A c \in gone : c.id \in Nat
    BY DEF GoneOk, Shown, Ids
<1>3. \A n \in IdsOf(bin.recs) \cup IdsOf(tmp.recs) : n \in Nat
    BY <1>1 DEF FilesOk, IdsOf
<1> QED BY <1>2, <1>3 DEF OnFile, Gone

\* What was deleted were records.
LEMMA GoneKept == FilesOk /\ TasksOk /\ GoneOk /\ [Next]_vars => GoneOk'
<1> SUFFICES ASSUME FilesOk /\ TasksOk /\ GoneOk, [Next]_vars PROVE GoneOk'
    OBVIOUS
<1> USE DEF FilesOk, GoneOk, flashVars, taskVars, histVars
<1>1. ASSUME NEW t \in Tasks, NEW r \in Set!Requests, Asks(t, r) PROVE GoneOk'
    BY <1>1 DEF Asks, Call, Goto
<1>2. ASSUME NEW t \in Tasks, Take(t) PROVE GoneOk'
    BY <1>2 DEF Take, Goto
<1>3. ASSUME NEW t \in Tasks, Give(t) PROVE GoneOk'
    BY <1>3 DEF Give, Goto
<1>4. ASSUME NEW t \in Tasks, SaveRefused(t) PROVE GoneOk'
    BY <1>4 DEF SaveRefused, Answer, Goto
<1>5. ASSUME NEW t \in Tasks, SaveAppend(t) PROVE GoneOk'
    BY <1>5 DEF SaveAppend, Answer, Goto
<1>6. ASSUME NEW t \in Tasks, DeleteRefused(t) PROVE GoneOk'
    BY <1>6 DEF DeleteRefused, Answer, Goto
<1>7. ASSUME NEW t \in Tasks, OpenTemp(t) PROVE GoneOk'
    BY <1>7 DEF OpenTemp, Goto
<1>8. ASSUME NEW t \in Tasks, CopyRecord(t) PROVE GoneOk'
    BY <1>8 DEF CopyRecord
<1>9. ASSUME NEW t \in Tasks, DropTemp(t) PROVE GoneOk'
    BY <1>9 DEF DropTemp, Goto
<1>10. ASSUME NEW t \in Tasks, RemoveOld(t) PROVE GoneOk'
    <2>1. Readable(bin) \subseteq Record
        BY DEF Readable
    <2>2. \A q \in Readable(bin) : [id |-> q.id, rp |-> q.rp] \in Shown
        BY <2>1, ProjIs DEF Proj
    <2> QED BY <1>10, <2>2 DEF RemoveOld
<1>11. ASSUME NEW t \in Tasks, RenameNew(t) PROVE GoneOk'
    BY <1>11 DEF RenameNew, Goto
<1>12. ASSUME NEW t \in Tasks, List(t) PROVE GoneOk'
    BY <1>12 DEF List, Answer, Goto
<1>13. ASSUME NEW t \in Tasks, Clear(t) PROVE GoneOk'
    <2>1. Readable(bin) \subseteq Record
        BY DEF Readable
    <2>2. \A q \in Readable(bin) : [id |-> q.id, rp |-> q.rp] \in Shown
        BY <2>1, ProjIs DEF Proj
    <2> QED BY <1>13, <2>2 DEF Clear, Seen
<1>14. CASE Crash
    BY <1>14 DEF Crash
<1>15. CASE UNCHANGED vars
    BY <1>15 DEF vars
<1> QED BY <1>1, <1>2, <1>3, <1>4, <1>5, <1>6, <1>7, <1>8, <1>9, <1>10, <1>11, <1>12, <1>13,
        <1>14, <1>15, StartsIs DEF Next, Steps

\* A deleted record does not come back, and a new one is new.
LEMMA SoundKept == Basics /\ Copies /\ GoneOk /\ StaysGone /\ Numbered /\ [Next]_vars => (StaysGone /\ Numbered)'
<1> SUFFICES ASSUME Basics /\ Copies /\ GoneOk /\ StaysGone /\ Numbered, [Next]_vars PROVE (StaysGone /\ Numbered)'
    OBVIOUS
<1> USE DEF Basics, TasksOk, flashVars, taskVars, histVars
<1>1. ASSUME NEW t \in Tasks, NEW r \in Set!Requests, Asks(t, r) PROVE (StaysGone /\ Numbered)'
    <2>1. OnFile' = OnFile /\ Gone' = Gone
        BY <1>1 DEF Asks, Call, Goto, OnFile, Gone, Renaming
    <2>2. \A u \in Tasks \ {t} : (Wants(u)' <=> Wants(u)) /\ request'[u] = request[u]
        BY <1>1 DEF Asks, Call, Goto, Wants
    <2>3. StaysGone'
        BY <2>1 DEF StaysGone
    <2>4. CASE r.op # "save"
        <3>1. ~Wants(t)' /\ made' = made
            BY <1>1, <2>4 DEF Asks, Call, Goto, Wants
        <3> QED BY <2>1, <2>2, <2>3, <3>1 DEF Numbered
    <2>5. CASE r.op = "save"
        <3>1. request'[t] = r /\ r.rec.id = made + 1 /\ made' = made + 1
            BY <1>1, <2>5 DEF Asks, Call
        <3>2. \A n \in OnFile \cup Gone : n \in Nat /\ n <= made
            BY NumbersOnFile DEF Numbered
        <3>3. \A u \in Tasks : Wants(u) => request[u].rec.id \in Nat
            BY RequestIs DEF Wants, Shown, Ids
        <3> QED BY <2>1, <2>2, <2>3, <3>1, <3>2, <3>3 DEF Numbered
    <2> QED BY <2>4, <2>5
<1>2. ASSUME NEW t \in Tasks, Take(t) PROVE (StaysGone /\ Numbered)'
    <2>1. bin' = bin /\ gone' = gone /\ made' = made
        BY <1>2 DEF Take
    <2>2. \A u \in Tasks : (pc'[u] = "rename" <=> pc[u] = "rename")
        BY <1>2 DEF Take, Goto, AtPlaces, AtPlace, Ops
    <2>3. OnFile' = OnFile /\ Gone' = Gone
        BY <1>2, <2>1, <2>2, Alone DEF Take, OnFile, Gone, Renaming
    <2>4. \A u \in Tasks : Wants(u)' => Wants(u) /\ request'[u] = request[u]
        BY <1>2 DEF Take, Goto, Wants, AtPlaces, AtPlace, Ops
    <2> QED BY <2>1, <2>3, <2>4, SoundAfter DEF StaysGone
<1>3. ASSUME NEW t \in Tasks, Give(t) PROVE (StaysGone /\ Numbered)'
    <2>1. bin' = bin /\ gone' = gone /\ made' = made
        BY <1>3 DEF Give
    <2>2. \A u \in Tasks : (pc'[u] = "rename" <=> pc[u] = "rename")
        BY <1>3 DEF Give, Goto
    <2>3. OnFile' = OnFile /\ Gone' = Gone
        BY <1>3, <2>1, <2>2, Alone DEF Give, OnFile, Gone, Renaming
    <2>4. \A u \in Tasks : Wants(u)' => Wants(u) /\ request'[u] = request[u]
        BY <1>3 DEF Give, Goto, Wants
    <2> QED BY <2>1, <2>3, <2>4, SoundAfter DEF StaysGone
<1>4. ASSUME NEW t \in Tasks, SaveRefused(t) PROVE (StaysGone /\ Numbered)'
    <2>1. bin' = bin /\ gone' = gone /\ made' = made
        BY <1>4 DEF SaveRefused
    <2>2. \A u \in Tasks : (pc'[u] = "rename" <=> pc[u] = "rename")
        BY <1>4 DEF SaveRefused, Answer, Goto
    <2>3. OnFile' = OnFile /\ Gone' = Gone
        BY <1>4, <2>1, <2>2, Alone DEF SaveRefused, OnFile, Gone, Renaming
    <2>4. \A u \in Tasks : Wants(u)' => Wants(u) /\ request'[u] = request[u]
        BY <1>4 DEF SaveRefused, Answer, Goto, Wants
    <2> QED BY <2>1, <2>3, <2>4, SoundAfter DEF StaysGone
<1>5. ASSUME NEW t \in Tasks, SaveAppend(t) PROVE (StaysGone /\ Numbered)'
    <2>1. PICK r \in Record : r.id = request[t].rec.id /\ bin' = File(Append(bin.recs, r))
        BY <1>5, SaveIs
    <2>2. IdsOf(bin'.recs) = IdsOf(bin.recs) \cup {r.id}
        BY <2>1, Appended DEF File, FilesOk
    <2>3. pc[t] = "save" /\ gone' = gone /\ made' = made /\ request' = request /\ pc' = [pc EXCEPT ![t] = "return"]
        BY <1>5 DEF SaveAppend, Answer, Goto
    <2>4. OnFile' = OnFile \cup {r.id} /\ Gone' = Gone
        BY <2>2, <2>3, Alone DEF OnFile, Gone, Renaming
    <2>5. Wants(t) /\ ~Wants(t)' /\ \A u \in Tasks : Wants(u)' => Wants(u)
        BY <2>3 DEF Wants, AtPlaces, AtPlace, Ops
    <2> QED BY <2>1, <2>3, <2>4, <2>5 DEF StaysGone, Numbered
<1>6. ASSUME NEW t \in Tasks, DeleteRefused(t) PROVE (StaysGone /\ Numbered)'
    <2>1. bin' = bin /\ gone' = gone /\ made' = made
        BY <1>6 DEF DeleteRefused
    <2>2. \A u \in Tasks : (pc'[u] = "rename" <=> pc[u] = "rename")
        BY <1>6 DEF DeleteRefused, Answer, Goto
    <2>3. OnFile' = OnFile /\ Gone' = Gone
        BY <1>6, <2>1, <2>2, Alone DEF DeleteRefused, OnFile, Gone, Renaming
    <2>4. \A u \in Tasks : Wants(u)' => Wants(u) /\ request'[u] = request[u]
        BY <1>6 DEF DeleteRefused, Answer, Goto, Wants
    <2> QED BY <2>1, <2>3, <2>4, SoundAfter DEF StaysGone
<1>7. ASSUME NEW t \in Tasks, OpenTemp(t) PROVE (StaysGone /\ Numbered)'
    <2>1. bin' = bin /\ gone' = gone /\ made' = made
        BY <1>7 DEF OpenTemp
    <2>2. \A u \in Tasks : (pc'[u] = "rename" <=> pc[u] = "rename")
        BY <1>7 DEF OpenTemp, Goto
    <2>3. OnFile' = OnFile /\ Gone' = Gone
        BY <1>7, <2>1, <2>2, Alone DEF OpenTemp, OnFile, Gone, Renaming
    <2>4. \A u \in Tasks : Wants(u)' => Wants(u) /\ request'[u] = request[u]
        BY <1>7 DEF OpenTemp, Goto, Wants
    <2> QED BY <2>1, <2>3, <2>4, SoundAfter DEF StaysGone
<1>8. ASSUME NEW t \in Tasks, CopyRecord(t) PROVE (StaysGone /\ Numbered)'
    <2>1. bin' = bin /\ gone' = gone /\ made' = made
        BY <1>8 DEF CopyRecord
    <2>2. \A u \in Tasks : (pc'[u] = "rename" <=> pc[u] = "rename")
        BY <1>8 DEF CopyRecord
    <2>3. OnFile' = OnFile /\ Gone' = Gone
        BY <1>8, <2>1, <2>2, Alone DEF CopyRecord, OnFile, Gone, Renaming
    <2>4. \A u \in Tasks : Wants(u)' => Wants(u) /\ request'[u] = request[u]
        BY <1>8 DEF CopyRecord, Wants
    <2> QED BY <2>1, <2>3, <2>4, SoundAfter DEF StaysGone
<1>9. ASSUME NEW t \in Tasks, DropTemp(t) PROVE (StaysGone /\ Numbered)'
    <2>1. bin' = bin /\ gone' = gone /\ made' = made
        BY <1>9 DEF DropTemp
    <2>2. \A u \in Tasks : (pc'[u] = "rename" <=> pc[u] = "rename")
        BY <1>9 DEF DropTemp, Goto
    <2>3. OnFile' = OnFile /\ Gone' = Gone
        BY <1>9, <2>1, <2>2, Alone DEF DropTemp, OnFile, Gone, Renaming
    <2>4. \A u \in Tasks : Wants(u)' => Wants(u) /\ request'[u] = request[u]
        BY <1>9 DEF DropTemp, Goto, Wants
    <2> QED BY <2>1, <2>3, <2>4, SoundAfter DEF StaysGone
<1>10. ASSUME NEW t \in Tasks, RemoveOld(t) PROVE (StaysGone /\ Numbered)'
    <2>1. /\ pc[t] = "copy" /\ pc' = [pc EXCEPT ![t] = "rename"] /\ bin'.recs = <<>> /\ tmp' = tmp
          /\ made' = made /\ request' = request
        BY <1>10 DEF RemoveOld, Goto, NoFile
    <2>2. OnFile' = IdsOf(tmp.recs)
        BY <2>1 DEF OnFile, Renaming, IdsOf
    <2>3. ASSUME NEW n \in Gone' PROVE n \in Gone \/ \E i \in 1..Len(bin.recs) : bin.recs[i].id = n /\ Hit(request[t], bin.recs[i])
        <3>1. gone' = gone \cup {[id |-> q.id, rp |-> q.rp] : q \in {p \in Readable(bin) : Matches(t, p)}}
            BY <1>10 DEF RemoveOld
        <3>2. n \in Gone \/ \E q \in Readable(bin) : n = q.id /\ Matches(t, q)
            BY <3>1 DEF Gone
        <3>3. \A q \in Readable(bin) : \E i \in 1..Len(bin.recs) : q = bin.recs[i]
            BY DEF Readable
        <3>4. \A q : Matches(t, q) => Hit(request[t], q)
            BY DEF Matches, Hit
        <3> QED BY <3>2, <3>3, <3>4
    <2>4. \A n \in IdsOf(tmp.recs) : \E i \in 1..Len(bin.recs) : bin.recs[i].id = n /\ ~Hit(request[t], bin.recs[i])
        <3>1. pos[t] \in Nat /\ Len(bin.recs) \in Nat /\ pos[t] <= Len(bin.recs)
            BY <2>1 DEF Copies, FilesOk
        <3> QED BY <2>1, <3>1 DEF Copies
    <2>5. \A n \in Gone' : n \in Gone \/ n \in IdsOf(bin.recs)
        BY <2>3 DEF IdsOf
    <2>6. IdsOf(tmp.recs) \subseteq IdsOf(bin.recs) /\ IdsOf(bin.recs) \subseteq OnFile
        BY <2>4 DEF IdsOf, OnFile
    <2>7. OnFile' \cap Gone' = {}
        <3> SUFFICES ASSUME NEW n \in IdsOf(tmp.recs), n \in Gone' PROVE FALSE
            BY <2>2
        <3>1. n \notin Gone
            BY <2>6 DEF StaysGone
        <3> QED BY <2>3, <2>4, <3>1 DEF Copies, Unique
    <2>8. \A u \in Tasks : Wants(u)' => Wants(u) /\ request'[u] = request[u]
        BY <2>1 DEF Wants
    <2> QED BY <2>1, <2>2, <2>5, <2>6, <2>7, <2>8, SoundAfter
<1>11. ASSUME NEW t \in Tasks, RenameNew(t) PROVE (StaysGone /\ Numbered)'
    <2>1. /\ pc[t] = "rename" /\ pc' = [pc EXCEPT ![t] = "return"] /\ bin' = tmp /\ gone' = gone
          /\ made' = made /\ request' = request
        BY <1>11 DEF RenameNew, Goto
    <2>2. \A u \in Tasks : pc'[u] # "rename"
        BY <2>1, Alone
    <2>3. OnFile' = IdsOf(tmp.recs) /\ Gone' = Gone /\ IdsOf(tmp.recs) \subseteq OnFile
        BY <2>1, <2>2 DEF OnFile, Renaming, Gone
    <2>4. \A u \in Tasks : Wants(u)' => Wants(u) /\ request'[u] = request[u]
        BY <2>1 DEF Wants
    <2> QED BY <2>1, <2>3, <2>4, SoundAfter DEF StaysGone
<1>12. ASSUME NEW t \in Tasks, List(t) PROVE (StaysGone /\ Numbered)'
    <2>1. bin' = bin /\ gone' = gone /\ made' = made
        BY <1>12 DEF List
    <2>2. \A u \in Tasks : (pc'[u] = "rename" <=> pc[u] = "rename")
        BY <1>12 DEF List, Answer, Goto
    <2>3. OnFile' = OnFile /\ Gone' = Gone
        BY <1>12, <2>1, <2>2, Alone DEF List, OnFile, Gone, Renaming
    <2>4. \A u \in Tasks : Wants(u)' => Wants(u) /\ request'[u] = request[u]
        BY <1>12 DEF List, Answer, Goto, Wants
    <2> QED BY <2>1, <2>3, <2>4, SoundAfter DEF StaysGone
<1>13. ASSUME NEW t \in Tasks, Clear(t) PROVE (StaysGone /\ Numbered)'
    <2>1. /\ pc[t] = "clear" /\ pc' = [pc EXCEPT ![t] = "return"] /\ bin'.recs = <<>>
          /\ gone' = gone \cup Seen(bin) /\ made' = made /\ request' = request
        BY <1>13 DEF Clear, Answer, Goto, NoFile
    <2>2. \A u \in Tasks : pc'[u] # "rename"
        BY <2>1, Alone
    <2>3. OnFile' = {}
        BY <2>1, <2>2 DEF OnFile, Renaming, IdsOf
    <2>4. \A c \in Seen(bin) : c.id \in IdsOf(bin.recs)
        BY DEF Seen, Readable, IdsOf
    <2>5. Gone' \subseteq Gone \cup OnFile
        BY <2>1, <2>4 DEF Gone, OnFile
    <2>6. \A u \in Tasks : Wants(u)' => Wants(u) /\ request'[u] = request[u]
        BY <2>1 DEF Wants
    <2> QED BY <2>1, <2>3, <2>5, <2>6, SoundAfter
<1>14. CASE Crash
    <2>1. gone' = gone /\ made' = made /\ \A u \in Tasks : pc'[u] = "idle"
        BY <1>14 DEF Crash
    <2>2. OnFile' = IdsOf(bin'.recs) /\ Gone' = Gone /\ \A u \in Tasks : ~Wants(u)'
        BY <2>1 DEF OnFile, Gone, Renaming, Wants
    <2>3. CASE bin' = bin
        BY <2>1, <2>2, <2>3 DEF StaysGone, Numbered, OnFile
    <2>4. ASSUME NEW t \in Tasks, NEW r \in Record, pc[t] = "save", r.id = request[t].rec.id,
                 bin' = File(Append(bin.recs, r))
          PROVE  (StaysGone /\ Numbered)'
        <3>1. IdsOf(bin'.recs) = IdsOf(bin.recs) \cup {r.id}
            BY <2>4, Appended DEF File, FilesOk
        <3>2. r.id <= made /\ r.id \notin Gone
            BY <2>4 DEF Numbered, Wants, AtPlaces, AtPlace, Ops
        <3> QED BY <2>1, <2>2, <3>1, <3>2 DEF StaysGone, Numbered, OnFile
    <2> QED BY <1>14, <2>3, <2>4, CrashIs
<1>15. CASE UNCHANGED vars
    BY <1>15 DEF vars, StaysGone, Numbered, OnFile, Gone, Renaming, Wants
<1> QED BY <1>1, <1>2, <1>3, <1>4, <1>5, <1>6, <1>7, <1>8, <1>9, <1>10, <1>11, <1>12, <1>13,
        <1>14, <1>15, StartsIs DEF Next, Steps

-----------------------------------------------------------------------------
(* The file as a set of records.                                           *)

\* What a call returns is known when it has taken effect, and not before.
Answers ==
  /\ answer \in [Tasks -> [ok : BOOLEAN, seen : SUBSET Shown]]
  /\ \A t \in Tasks :
       /\ pc[t] \in Ops \cup {"idle", "take"} => answer[t] = NoAnswer
       /\ pc[t] = "copy" => answer[t].seen = {}
       /\ pc[t] = "rename" => answer[t] = [ok |-> TRUE, seen |-> {}]

\* A reader of the copy finds nothing that a reader of the file does not.
Prefix ==
  \A t \in Tasks : pc[t] = "copy" =>
    /\ WholeUpTo(tmp.recs, Len(tmp.recs)) => WholeUpTo(bin.recs, pos[t])
    /\ Seen(tmp) \subseteq Seen(bin)

\* While nothing has failed, the copy has every record read so far but those to be deleted,
\* and the call knows whether there was one.
Complete ==
  intact =>
    /\ WholeUpTo(bin.recs, Len(bin.recs))
    /\ \A t \in Tasks : pc[t] \in {"copy", "rename"} => WholeUpTo(tmp.recs, Len(tmp.recs))
    /\ \A t \in Tasks : pc[t] = "copy" =>
         /\ \A i \in 1..pos[t] : ~Hit(request[t], bin.recs[i]) => Proj(bin.recs[i]) \in Seen(tmp)
         /\ \A c \in Seen(tmp) : \E i \in 1..pos[t] : c = Proj(bin.recs[i]) /\ ~Hit(request[t], bin.recs[i])
         /\ answer[t].ok <=> \E i \in 1..pos[t] : Hit(request[t], bin.recs[i])

\* What readers see are records.
LEMMA SeenShown ==
  ASSUME NEW f, f.recs \in Seq(Record)
  PROVE  Seen(f) \subseteq Shown
<1>1. Readable(f) \subseteq Record
    BY DEF Readable
<1> QED BY <1>1, ProjIs DEF Seen, Proj

\* An answer is given once, by the step the call takes effect at.
LEMMA AnswersKept == FilesOk /\ TasksOk /\ AtPlaces /\ Answers /\ [Next]_vars => Answers'
<1> SUFFICES ASSUME FilesOk /\ TasksOk /\ AtPlaces /\ Answers, [Next]_vars PROVE Answers'
    OBVIOUS
<1> USE DEF Answers, TasksOk, NoAnswer, Ops, flashVars, taskVars, histVars
<1>1. ASSUME NEW t \in Tasks, NEW r \in Set!Requests, Asks(t, r) PROVE Answers'
    BY <1>1 DEF Asks, Call, Goto
<1>2. ASSUME NEW t \in Tasks, Take(t) PROVE Answers'
    BY <1>2 DEF Take, Goto, AtPlaces, AtPlace
<1>3. ASSUME NEW t \in Tasks, Give(t) PROVE Answers'
    BY <1>3 DEF Give, Goto
<1>4. ASSUME NEW t \in Tasks, SaveRefused(t) PROVE Answers'
    BY <1>4 DEF SaveRefused, Answer, Goto
<1>5. ASSUME NEW t \in Tasks, SaveAppend(t) PROVE Answers'
    BY <1>5 DEF SaveAppend, Answer, Goto
<1>6. ASSUME NEW t \in Tasks, DeleteRefused(t) PROVE Answers'
    BY <1>6 DEF DeleteRefused, Answer, Goto
<1>7. ASSUME NEW t \in Tasks, OpenTemp(t) PROVE Answers'
    BY <1>7 DEF OpenTemp, Goto
<1>8. ASSUME NEW t \in Tasks, CopyRecord(t) PROVE Answers'
    <2>1. pc[t] = "copy" /\ pc' = pc
        BY <1>8 DEF CopyRecord
    <2>2. CASE answer' = answer
        BY <2>1, <2>2
    <2>3. CASE answer' = [answer EXCEPT ![t].ok = TRUE]
        BY <2>1, <2>3
    <2> QED BY <1>8, <2>2, <2>3, CopyIs DEF Drops, Copying
<1>9. ASSUME NEW t \in Tasks, DropTemp(t) PROVE Answers'
    BY <1>9 DEF DropTemp, Goto
<1>10. ASSUME NEW t \in Tasks, RemoveOld(t) PROVE Answers'
    BY <1>10 DEF RemoveOld, Goto
<1>11. ASSUME NEW t \in Tasks, RenameNew(t) PROVE Answers'
    BY <1>11 DEF RenameNew, Goto
<1>12. ASSUME NEW t \in Tasks, List(t) PROVE Answers'
    <2>1. Seen(bin) \subseteq Shown
        BY SeenShown DEF FilesOk
    <2> QED BY <1>12, <2>1 DEF List, Answer, Goto
<1>13. ASSUME NEW t \in Tasks, Clear(t) PROVE Answers'
    BY <1>13 DEF Clear, Answer, Goto
<1>14. CASE Crash
    BY <1>14 DEF Crash
<1>15. CASE UNCHANGED vars
    BY <1>15 DEF vars
<1> QED BY <1>1, <1>2, <1>3, <1>4, <1>5, <1>6, <1>7, <1>8, <1>9, <1>10, <1>11, <1>12, <1>13,
        <1>14, <1>15, StartsIs DEF Next, Steps

\* The flag that says whether anything failed is a flag.
LEMMA FlagKept == TasksOk /\ intact \in BOOLEAN /\ [Next]_vars => (intact \in BOOLEAN)'
<1> SUFFICES ASSUME TasksOk /\ intact \in BOOLEAN, [Next]_vars PROVE (intact \in BOOLEAN)'
    OBVIOUS
<1> USE DEF histVars, flashVars, taskVars, histVars
<1>1. ASSUME NEW t \in Tasks, NEW r \in Set!Requests, Asks(t, r) PROVE (intact \in BOOLEAN)'
    BY <1>1 DEF Asks, Call, Goto
<1>2. ASSUME NEW t \in Tasks, Take(t) PROVE (intact \in BOOLEAN)'
    BY <1>2 DEF Take, Goto
<1>3. ASSUME NEW t \in Tasks, Give(t) PROVE (intact \in BOOLEAN)'
    BY <1>3 DEF Give, Goto
<1>4. ASSUME NEW t \in Tasks, SaveRefused(t) PROVE (intact \in BOOLEAN)'
    BY <1>4, Zenon DEF SaveRefused
<1>5. ASSUME NEW t \in Tasks, SaveAppend(t) PROVE (intact \in BOOLEAN)'
    BY <1>5, Zenon DEF SaveAppend
<1>6. ASSUME NEW t \in Tasks, DeleteRefused(t) PROVE (intact \in BOOLEAN)'
    BY <1>6, Zenon DEF DeleteRefused
<1>7. ASSUME NEW t \in Tasks, OpenTemp(t) PROVE (intact \in BOOLEAN)'
    BY <1>7 DEF OpenTemp, Goto
<1>8. ASSUME NEW t \in Tasks, CopyRecord(t) PROVE (intact \in BOOLEAN)'
    BY <1>8, Zenon DEF CopyRecord
<1>9. ASSUME NEW t \in Tasks, DropTemp(t) PROVE (intact \in BOOLEAN)'
    BY <1>9 DEF DropTemp, Goto
<1>10. ASSUME NEW t \in Tasks, RemoveOld(t) PROVE (intact \in BOOLEAN)'
    BY <1>10 DEF RemoveOld, Goto
<1>11. ASSUME NEW t \in Tasks, RenameNew(t) PROVE (intact \in BOOLEAN)'
    BY <1>11 DEF RenameNew, Goto
<1>12. ASSUME NEW t \in Tasks, List(t) PROVE (intact \in BOOLEAN)'
    BY <1>12 DEF List, Answer, Goto
<1>13. ASSUME NEW t \in Tasks, Clear(t) PROVE (intact \in BOOLEAN)'
    BY <1>13 DEF Clear, Answer, Goto
<1>14. CASE Crash
    BY <1>14, Zenon DEF Crash
<1>15. CASE UNCHANGED vars
    BY <1>15 DEF vars
<1> QED BY <1>1, <1>2, <1>3, <1>4, <1>5, <1>6, <1>7, <1>8, <1>9, <1>10, <1>11, <1>12, <1>13,
        <1>14, <1>15, StartsIs DEF Next, Steps

\* The copy shows no more than the file.
LEMMA PrefixKept == Basics /\ Prefix /\ [Next]_vars => Prefix'
<1> SUFFICES ASSUME Basics /\ Prefix, [Next]_vars PROVE Prefix'
    OBVIOUS
<1> USE DEF Basics, TasksOk, Prefix, flashVars, taskVars, histVars
<1>1. ASSUME NEW t \in Tasks, NEW r \in Set!Requests, Asks(t, r) PROVE Prefix'
    BY <1>1, Alone DEF Asks, Call, Goto
<1>2. ASSUME NEW t \in Tasks, Take(t) PROVE Prefix'
    BY <1>2, Alone DEF Take, Goto, AtPlaces, AtPlace, Ops
<1>3. ASSUME NEW t \in Tasks, Give(t) PROVE Prefix'
    BY <1>3, Alone DEF Give, Goto
<1>4. ASSUME NEW t \in Tasks, SaveRefused(t) PROVE Prefix'
    BY <1>4, Alone DEF SaveRefused, Answer, Goto
<1>5. ASSUME NEW t \in Tasks, SaveAppend(t) PROVE Prefix'
    <2>1. \A u \in Tasks : pc'[u] # "copy"
        BY <1>5, Alone DEF SaveAppend, Answer, Goto
    <2> QED BY <2>1
<1>6. ASSUME NEW t \in Tasks, DeleteRefused(t) PROVE Prefix'
    BY <1>6, Alone DEF DeleteRefused, Answer, Goto
<1>7. ASSUME NEW t \in Tasks, OpenTemp(t) PROVE Prefix'
    <2>1. \A u \in Tasks : pc'[u] = "copy" => u = t
        BY <1>7, Alone DEF OpenTemp, Goto
    <2>2. Seen(tmp') = {}
        BY <1>7, SeenEmpty DEF OpenTemp, File
    <2>3. WholeUpTo(bin'.recs, pos'[t])
        BY <1>7 DEF OpenTemp, WholeUpTo
    <2> QED BY <2>1, <2>2, <2>3
<1>8. ASSUME NEW t \in Tasks, CopyRecord(t) PROVE Prefix'
    <2> DEFINE n == pos[t]
               r == bin.recs[n + 1]
    <2>1. /\ pc[t] = "copy" /\ pc' = pc /\ bin' = bin /\ pos'[t] = n + 1
          /\ n \in Nat /\ n + 1 \in 1..Len(bin.recs) /\ r \in Record
        BY <1>8 DEF CopyRecord, FilesOk
    <2>2. \A u \in Tasks : pc'[u] = "copy" => u = t
        BY <2>1, Alone
    <2>3. WholeUpTo(bin.recs, n) /\ ~r.torn => WholeUpTo(bin.recs, n + 1)
        BY <2>1 DEF WholeUpTo
    <2>4. CASE Drops(t)
        <3>1. ~r.torn /\ tmp' = tmp
            BY <2>4 DEF Drops, Matches
        <3> QED BY <2>1, <2>2, <2>3, <3>1
    <2>5. ASSUME NEW c \in Record, Copying(t, c)
          PROVE  /\ WholeUpTo(tmp'.recs, Len(tmp'.recs)) => WholeUpTo(bin.recs, n + 1)
                 /\ Seen(tmp') \subseteq Seen(bin)
        <3>1. tmp'.recs = Append(tmp.recs, c) /\ Proj(c) = Proj(r) /\ (r.torn => c.torn)
            BY <2>5 DEF Copying, File, Proj
        <3>2. WholeUpTo(tmp'.recs, Len(tmp'.recs)) => WholeUpTo(tmp.recs, Len(tmp.recs)) /\ ~c.torn
            BY <3>1, WholeAppended DEF FilesOk
        <3>3. WholeUpTo(tmp'.recs, Len(tmp'.recs)) => WholeUpTo(bin.recs, n + 1)
            BY <2>1, <2>3, <3>1, <3>2
        <3>4. WholeUpTo(tmp.recs, Len(tmp.recs)) /\ ~c.torn => Proj(c) \in Seen(bin)
            <4>1. WholeUpTo(bin.recs, n + 1) => Proj(r) \in Seen(bin)
                BY <2>1, SeenIs DEF FilesOk
            <4> QED BY <2>1, <2>3, <3>1, <4>1
        <3>5. Seen(tmp') \subseteq Seen(bin)
            <4>1. ~(WholeUpTo(tmp.recs, Len(tmp.recs)) /\ ~c.torn) => Seen(tmp') = Seen(tmp)
                BY <3>1, SeenAppended DEF FilesOk
            <4>2. Seen(tmp') \subseteq Seen(tmp) \cup {Proj(c)}
                BY <3>1, SeenAppended DEF FilesOk
            <4> QED BY <2>1, <3>4, <4>1, <4>2
        <3> QED BY <3>3, <3>5
    <2> QED BY <1>8, <2>1, <2>2, <2>4, <2>5, CopyIs
<1>9. ASSUME NEW t \in Tasks, DropTemp(t) PROVE Prefix'
    <2>1. \A u \in Tasks : pc'[u] # "copy"
        BY <1>9, Alone DEF DropTemp, Goto
    <2> QED BY <2>1
<1>10. ASSUME NEW t \in Tasks, RemoveOld(t) PROVE Prefix'
    <2>1. \A u \in Tasks : pc'[u] # "copy"
        BY <1>10, Alone DEF RemoveOld, Goto
    <2> QED BY <2>1
<1>11. ASSUME NEW t \in Tasks, RenameNew(t) PROVE Prefix'
    <2>1. \A u \in Tasks : pc'[u] # "copy"
        BY <1>11, Alone DEF RenameNew, Goto
    <2> QED BY <2>1
<1>12. ASSUME NEW t \in Tasks, List(t) PROVE Prefix'
    BY <1>12, Alone DEF List, Answer, Goto
<1>13. ASSUME NEW t \in Tasks, Clear(t) PROVE Prefix'
    <2>1. \A u \in Tasks : pc'[u] # "copy"
        BY <1>13, Alone DEF Clear, Answer, Goto
    <2> QED BY <2>1
<1>14. CASE Crash
    <2>1. \A u \in Tasks : pc'[u] # "copy"
        BY <1>14, Alone DEF Crash
    <2> QED BY <2>1
<1>15. CASE UNCHANGED vars
    BY <1>15 DEF vars
<1> QED BY <1>1, <1>2, <1>3, <1>4, <1>5, <1>6, <1>7, <1>8, <1>9, <1>10, <1>11, <1>12, <1>13,
        <1>14, <1>15, StartsIs DEF Next, Steps

\* While nothing fails, the copy is complete.
LEMMA CompleteKept == Basics /\ Answers /\ Complete /\ [Next]_vars => Complete'
<1> SUFFICES ASSUME Basics /\ Answers /\ Complete, [Next]_vars PROVE Complete'
    OBVIOUS
<1> USE DEF Basics, TasksOk, Complete, flashVars, taskVars, histVars
<1>1. ASSUME NEW t \in Tasks, NEW r \in Set!Requests, Asks(t, r) PROVE Complete'
    <2>1. \A u \in Tasks : pc'[u] \in {"copy", "rename"} => pc[u] = pc'[u] /\ request'[u] = request[u]
        BY <1>1 DEF Asks, Call, Goto
    <2>2. UNCHANGED <<bin, tmp, pos, answer, intact>>
        BY <1>1 DEF Asks, Call
    <2> QED BY <2>1, <2>2
<1>2. ASSUME NEW t \in Tasks, Take(t) PROVE Complete'
    BY <1>2, Alone DEF Take, Goto, AtPlaces, AtPlace, Ops
<1>3. ASSUME NEW t \in Tasks, Give(t) PROVE Complete'
    <2>1. \A u \in Tasks : pc'[u] \notin {"copy", "rename"}
        BY <1>3, Alone DEF Give, Goto
    <2>2. bin' = bin /\ (intact' => intact)
        BY <1>3 DEF Give
    <2> QED BY <2>1, <2>2
<1>4. ASSUME NEW t \in Tasks, SaveRefused(t) PROVE Complete'
    <2>1. \A u \in Tasks : pc'[u] \notin {"copy", "rename"}
        BY <1>4, Alone DEF SaveRefused, Answer, Goto
    <2>2. bin' = bin /\ (intact' => intact)
        BY <1>4 DEF SaveRefused
    <2> QED BY <2>1, <2>2
<1>5. ASSUME NEW t \in Tasks, SaveAppend(t) PROVE Complete'
    <2>1. PICK r \in Record : bin' = File(Append(bin.recs, r)) /\ (intact' => intact /\ ~r.torn)
        BY <1>5, SaveIs
    <2>2. \A u \in Tasks : pc'[u] \notin {"copy", "rename"}
        BY <1>5, Alone DEF SaveAppend, Answer, Goto
    <2>3. intact' => WholeUpTo(bin'.recs, Len(bin'.recs))
        BY <2>1, WholeAppended DEF File, FilesOk
    <2> QED BY <2>2, <2>3
<1>6. ASSUME NEW t \in Tasks, DeleteRefused(t) PROVE Complete'
    <2>1. \A u \in Tasks : pc'[u] \notin {"copy", "rename"}
        BY <1>6, Alone DEF DeleteRefused, Answer, Goto
    <2>2. bin' = bin /\ (intact' => intact)
        BY <1>6 DEF DeleteRefused
    <2> QED BY <2>1, <2>2
<1>7. ASSUME NEW t \in Tasks, OpenTemp(t) PROVE Complete'
    <2>1. \A u \in Tasks : pc'[u] \in {"copy", "rename"} => u = t
        BY <1>7, Alone DEF OpenTemp, Goto
    <2>2. Seen(tmp') = {} /\ WholeUpTo(tmp'.recs, Len(tmp'.recs))
        BY <1>7, SeenEmpty DEF OpenTemp, File, WholeUpTo
    <2>3. bin' = bin /\ intact' = intact /\ pos'[t] = 0 /\ ~answer'[t].ok
        BY <1>7 DEF OpenTemp, NoAnswer, Answers
    <2> QED BY <2>1, <2>2, <2>3
<1>8. ASSUME NEW t \in Tasks, CopyRecord(t) PROVE Complete'
    <2> DEFINE n == pos[t]
               r == bin.recs[n + 1]
    <2>1. /\ pc[t] = "copy" /\ pc' = pc /\ bin' = bin /\ request' = request /\ pos'[t] = n + 1
          /\ n \in Nat /\ n + 1 \in 1..Len(bin.recs) /\ r \in Record
        BY <1>8 DEF CopyRecord, FilesOk
    <2>2. \A u \in Tasks : pc'[u] \in {"copy", "rename"} => u = t
        BY <2>1, Alone
    <2> SUFFICES ASSUME intact' PROVE Complete'
        OBVIOUS
    <2>3. CASE Drops(t)
        <3>1. Hit(request[t], r) /\ tmp' = tmp /\ answer'[t].ok /\ intact
            <4>1. Hit(request[t], r) /\ tmp' = tmp /\ intact
                BY <2>3 DEF Drops, Matches, Hit
            <4>2. answer'[t].ok
                BY <2>3 DEF Drops, Answers
            <4> QED BY <4>1, <4>2
        <3> QED BY <2>1, <2>2, <3>1
    <2>4. ASSUME NEW c \in Record, Copying(t, c) PROVE Complete'
        <3>1. /\ intact /\ c = r /\ tmp'.recs = Append(tmp.recs, r) /\ answer' = answer
              /\ ~Hit(request[t], r)
            BY <2>4 DEF Copying, File, Matches, Hit
        <3>2. ~r.torn
            BY <2>1, <3>1 DEF WholeUpTo
        <3>3. WholeUpTo(tmp.recs, Len(tmp.recs)) /\ tmp.recs \in Seq(Record)
            BY <2>1, <3>1 DEF FilesOk
        <3>4. WholeUpTo(tmp'.recs, Len(tmp'.recs))
            BY <2>1, <3>1, <3>2, <3>3, WholeAppended
        <3>5. Seen(tmp') = Seen(tmp) \cup {Proj(r)}
            <4>1. ~c.torn /\ tmp'.recs = Append(tmp.recs, c)
                BY <3>1, <3>2
            <4>2. Seen(tmp') = Seen(tmp) \cup {Proj(c)}
                BY <3>3, <4>1, SeenAppended
            <4> QED BY <3>1, <4>2
        <3>6. \A i \in 1..(n + 1) : ~Hit(request[t], bin.recs[i]) => Proj(bin.recs[i]) \in Seen(tmp')
            BY <2>1, <3>1, <3>5
        <3>7. \A d \in Seen(tmp') : \E i \in 1..(n + 1) : d = Proj(bin.recs[i]) /\ ~Hit(request[t], bin.recs[i])
            BY <2>1, <3>1, <3>5
        <3>8. answer'[t].ok <=> \E i \in 1..(n + 1) : Hit(request[t], bin.recs[i])
            BY <2>1, <3>1
        <3> QED BY <2>1, <2>2, <3>1, <3>4, <3>6, <3>7, <3>8
    <2> QED BY <1>8, <2>3, <2>4, CopyIs
<1>9. ASSUME NEW t \in Tasks, DropTemp(t) PROVE Complete'
    <2>1. \A u \in Tasks : pc'[u] \notin {"copy", "rename"}
        BY <1>9, Alone DEF DropTemp, Goto
    <2>2. bin' = bin /\ (intact' => intact)
        BY <1>9 DEF DropTemp
    <2> QED BY <2>1, <2>2
<1>10. ASSUME NEW t \in Tasks, RemoveOld(t) PROVE Complete'
    <2>1. \A u \in Tasks : pc'[u] \in {"copy", "rename"} => u = t
        BY <1>10, Alone DEF RemoveOld, Goto
    <2>2. /\ bin'.recs = <<>> /\ tmp' = tmp /\ intact' = intact /\ pc[t] = "copy" /\ pc'[t] = "rename"
          /\ WholeUpTo(bin'.recs, Len(bin'.recs))
        BY <1>10 DEF RemoveOld, Goto, NoFile, WholeUpTo
    <2> QED BY <2>1, <2>2
<1>11. ASSUME NEW t \in Tasks, RenameNew(t) PROVE Complete'
    <2>1. \A u \in Tasks : pc'[u] \notin {"copy", "rename"}
        BY <1>11, Alone DEF RenameNew, Goto
    <2>2. bin' = tmp /\ intact' = intact /\ pc[t] = "rename"
        BY <1>11 DEF RenameNew
    <2> QED BY <2>1, <2>2
<1>12. ASSUME NEW t \in Tasks, List(t) PROVE Complete'
    <2>1. \A u \in Tasks : pc'[u] \notin {"copy", "rename"}
        BY <1>12, Alone DEF List, Answer, Goto
    <2>2. bin' = bin /\ (intact' => intact)
        BY <1>12 DEF List
    <2> QED BY <2>1, <2>2
<1>13. ASSUME NEW t \in Tasks, Clear(t) PROVE Complete'
    <2>1. \A u \in Tasks : pc'[u] \notin {"copy", "rename"}
        BY <1>13, Alone DEF Clear, Answer, Goto
    <2>2. WholeUpTo(bin'.recs, Len(bin'.recs)) /\ intact' = intact
        BY <1>13 DEF Clear, NoFile, WholeUpTo
    <2> QED BY <2>1, <2>2
<1>14. CASE Crash
    BY <1>14 DEF Crash
<1>15. CASE UNCHANGED vars
    BY <1>15 DEF vars
<1> QED BY <1>1, <1>2, <1>3, <1>4, <1>5, <1>6, <1>7, <1>8, <1>9, <1>10, <1>11, <1>12, <1>13,
        <1>14, <1>15, StartsIs DEF Next, Steps

-----------------------------------------------------------------------------
(* The theorems.                                                           *)

Sound == GoneOk /\ StaysGone /\ Numbered

IInv == Basics /\ Copies /\ Sound /\ Answers /\ Prefix /\ Complete /\ intact \in BOOLEAN

\* A device without a file.
LEMMA Initially == Init => IInv
<1> SUFFICES ASSUME Init PROVE IInv
    OBVIOUS
<1>1. Basics
    BY DEF Init, Basics, FilesOk, TasksOk, AtPlaces, AtPlace, Mutex, NoFile, Places, Ops, NoRequest
<1>2. bin.recs = <<>> /\ \A t \in Tasks : pc[t] = "idle"
    BY DEF Init, NoFile
<1>3. Copies /\ Prefix /\ Complete
    BY <1>2 DEF Copies, Prefix, Complete, Unique, WholeUpTo
<1>4. Sound
    BY <1>2 DEF Init, Sound, GoneOk, StaysGone, Numbered, OnFile, Gone, Renaming, Wants, IdsOf
<1>5. answer = [t \in Tasks |-> NoAnswer] /\ NoAnswer \in [ok : BOOLEAN, seen : SUBSET Shown]
    BY DEF Init, NoAnswer
<1>6. Answers
    BY <1>2, <1>5 DEF Answers
<1>7. intact \in BOOLEAN
    BY Zenon DEF Init
<1> QED BY <1>1, <1>3, <1>4, <1>6, <1>7 DEF IInv

\* The invariant is inductive.
LEMMA Inductive == IInv /\ [Next]_vars => IInv'
<1> SUFFICES ASSUME IInv, [Next]_vars PROVE IInv'
    OBVIOUS
<1>1. Basics'
    BY FilesKept, TasksKept, MutexKept, Zenon DEF IInv, Basics
<1>2. Copies' /\ Sound'
    BY CopiesKept, GoneKept, SoundKept, Zenon DEF IInv, Basics, Sound
<1>3. Answers' /\ Prefix' /\ Complete'
    BY AnswersKept, PrefixKept, CompleteKept, Zenon DEF IInv, Basics
<1>4. (intact \in BOOLEAN)'
    BY FlagKept, Zenon DEF IInv, Basics
<1> QED BY <1>1, <1>2, <1>3, <1>4, Zenon DEF IInv

\* The invariant holds in every reachable state.
LEMMA Invariant == Spec => []IInv
BY Initially, Inductive, PTL DEF Spec

\* savePasskeyRecord, deletePasskeyRecord, deleteFidoWebsite and the resets: whatever fails
\* and whenever the power is cut, /passkeys.bin holds no deleted record and none twice.
THEOREM RecordsSoundAlways == Spec => []RecordsSound
<1>1. IInv => RecordsSound
    <2> SUFFICES ASSUME IInv PROVE RecordsSound
        OBVIOUS
    <2>1. NoDuplicates
        BY DEF IInv, Copies, Unique, NoDuplicates
    <2>2. ASSUME NEW f, NEW c \in Seen(f) PROVE c.id \in IdsOf(f.recs)
        BY DEF Seen, Readable, IdsOf
    <2>3. NoResurrection
        <3> SUFFICES ASSUME NEW c \in gone
                     PROVE  c \notin Seen(bin) /\ \A t \in Tasks : pc[t] = "rename" => c \notin Seen(tmp)
            BY DEF NoResurrection
        <3>1. c.id \notin OnFile
            BY DEF IInv, Sound, StaysGone, Gone
        <3> QED BY <2>2, <3>1 DEF OnFile, Renaming
    <2> QED BY <2>1, <2>3 DEF RecordsSound
<1> QED BY Invariant, <1>1, PTL

-----------------------------------------------------------------------------
(* The refinement: what PasskeySet sees of a state, and of a step.         *)

Ended == {t \in Tasks : pc[t] \in {"return", "rename"}}
Told  == [t \in Tasks |-> IF pc[t] \in {"return", "rename"} THEN answer[t] ELSE NoAnswer]

\* The records are in the file, except between its removal and the renaming.
LEMMA CurrentIs ==
  ASSUME Basics, NEW t \in Tasks, pc[t] \notin {"idle", "take"}
  PROVE  Current = IF pc[t] = "rename" THEN Seen(tmp) ELSE Seen(bin)
BY Alone DEF Current, Basics

\* A step after which a call has its answer.
LEMMA EffectIs ==
  ASSUME TasksOk, Answers, NEW t \in Tasks, NEW l \in {"return", "rename"}, NEW a,
         pc[t] \notin {"return", "rename"}, pc' = [pc EXCEPT ![t] = l],
         answer'[t] = a, \A u \in Tasks \ {t} : answer'[u] = answer[u]
  PROVE  t \notin Ended /\ Ended' = Ended \cup {t} /\ Told' = [Told EXCEPT ![t] = a]
<1>1. t \notin Ended /\ Ended' = Ended \cup {t}
    BY DEF TasksOk, Ended
<1>2. Told' = [u \in Tasks |-> IF u = t THEN a ELSE Told[u]]
    BY DEF TasksOk, Told
<1>3. [Told EXCEPT ![t] = a] = [u \in Tasks |-> IF u = t THEN a ELSE Told[u]]
    BY DEF Told
<1> QED BY <1>1, <1>2, <1>3

\* A step of the abstract specification, in terms of this one.
LEMMA TakesEffect ==
  ASSUME NEW t \in Tasks, request[t].op \in Ops, request' = request, intact' = intact,
         t \notin Ended, Ended' = Ended \cup {t},
         Told' = [Told EXCEPT ![t] = Set!Result(request[t])],
         Current' = (Current \ Set!Removed(request[t])) \cup Set!Added(request[t])
  PROVE  Set!TakeEffect(t)
BY DEF Set!TakeEffect, Ended, Told, Set!NoRequest, Set!NoAnswer, NoAnswer, Ops

\* A save adds its record.
LEMMA SaveEffect ==
  ASSUME NEW r, r.op = "save"
  PROVE  Set!Removed(r) = {} /\ Set!Added(r) = {r.rec} /\ Set!Result(r) = [ok |-> TRUE, seen |-> {}]
BY DEF Set!Removed, Set!Added, Set!Result

\* A list removes and adds nothing and shows everything.
LEMMA ListEffect ==
  ASSUME NEW r, r.op = "list"
  PROVE  Set!Removed(r) = {} /\ Set!Added(r) = {} /\ Set!Result(r) = [ok |-> TRUE, seen |-> Current]
BY DEF Set!Removed, Set!Added, Set!Result

\* PURGE_STORAGE and the resets remove everything.
LEMMA ClearEffect ==
  ASSUME NEW r, r.op = "clear"
  PROVE  Set!Removed(r) = Current /\ Set!Added(r) = {} /\ Set!Result(r) = [ok |-> TRUE, seen |-> {}]
BY DEF Set!Removed, Set!Added, Set!Result

\* A deletion removes by identifier or by relying party, and fails if there is nothing.
HitShown(q, c) == IF q.op = "delete" THEN c.id = q.id ELSE c.rp = q.rp

\* Its effect, and its answer.
LEMMA DeleteEffect ==
  ASSUME NEW r, r.op \in {"delete", "deleteSite"}
  PROVE  /\ Set!Removed(r) = {c \in Current : HitShown(r, c)} /\ Set!Added(r) = {}
         /\ Set!Removed(r) # {} => Set!Result(r) = [ok |-> TRUE, seen |-> {}]
         /\ Set!Removed(r) = {} => Set!Result(r) = NoAnswer
<1>1. Set!Removed(r) = {c \in Current : HitShown(r, c)} /\ Set!Added(r) = {}
    BY DEF Set!Removed, Set!Added, HitShown
<1> QED BY <1>1 DEF Set!Result, NoAnswer

\* No step shows a record that was not there and no save has asked for.
LEMMA NothingAppears ==
  IInv /\ [Next]_vars => Current' \subseteq Current \cup Set!Asked
<1> SUFFICES ASSUME IInv, [Next]_vars PROVE Current' \subseteq Current \cup Set!Asked
    OBVIOUS
<1> USE DEF IInv, Basics, TasksOk, flashVars, taskVars, histVars
<1>1. ASSUME NEW t \in Tasks, NEW r \in Set!Requests, Asks(t, r) PROVE Current' = Current
    BY <1>1 DEF Asks, Call, Goto, Current
<1>2. ASSUME NEW t \in Tasks, Take(t) PROVE Current' = Current
    BY <1>2 DEF Take, Goto, Current, AtPlaces, AtPlace, Ops
<1>3. ASSUME NEW t \in Tasks, pc[t] \notin {"idle", "take", "rename"}, bin' = bin,
             Give(t) \/ SaveRefused(t) \/ DeleteRefused(t) \/ OpenTemp(t) \/ CopyRecord(t) \/ DropTemp(t) \/ List(t)
      PROVE  Current' = Current
    <2>1. \A u \in Tasks : pc'[u] # "rename"
        BY <1>3, Alone DEF Give, SaveRefused, DeleteRefused, OpenTemp, CopyRecord, DropTemp, List, Answer, Goto
    <2> QED BY <1>3, <2>1, CurrentIs DEF Current
<1>4. ASSUME NEW t \in Tasks, SaveAppend(t) PROVE Current' \subseteq Current \cup Set!Asked
    <2>1. PICK r \in Record : Proj(r) = request[t].rec /\ bin' = File(Append(bin.recs, r))
        BY <1>4, SaveIs
    <2>2. Seen(bin') \subseteq Seen(bin) \cup {request[t].rec}
        <3>1. bin'.recs = Append(bin.recs, r) /\ bin.recs \in Seq(Record)
            BY <2>1 DEF File, FilesOk
        <3>2. Seen(bin') \subseteq Seen(bin) \cup {Proj(r)}
            BY <3>1, SeenAppended
        <3> QED BY <2>1, <3>2
    <2>3. pc[t] = "save" /\ \A u \in Tasks : pc'[u] # "rename"
        BY <1>4, Alone DEF SaveAppend, Answer, Goto
    <2>4. Current = Seen(bin) /\ Current' = Seen(bin')
        BY <2>3, CurrentIs DEF Current
    <2>5. request[t].rec \in Set!Asked
        BY <2>3 DEF Set!Asked, AtPlaces, AtPlace, Ops
    <2> QED BY <2>2, <2>4, <2>5
<1>5. ASSUME NEW t \in Tasks, RemoveOld(t) PROVE Current' \subseteq Current
    <2>1. pc[t] = "copy" /\ pc'[t] = "rename" /\ tmp' = tmp
        BY <1>5 DEF RemoveOld, Goto
    <2>2. Current = Seen(bin) /\ Current' = Seen(tmp)
        BY <2>1, CurrentIs DEF Current
    <2> QED BY <2>1, <2>2 DEF Prefix
<1>6. ASSUME NEW t \in Tasks, RenameNew(t) PROVE Current' = Current
    <2>1. pc[t] = "rename" /\ bin' = tmp /\ \A u \in Tasks : pc'[u] # "rename"
        BY <1>6, Alone DEF RenameNew, Goto
    <2> QED BY <2>1, CurrentIs DEF Current
<1>7. ASSUME NEW t \in Tasks, Clear(t) PROVE Current' = {}
    <2>1. \A u \in Tasks : pc'[u] # "rename"
        BY <1>7, Alone DEF Clear, Answer, Goto
    <2>2. Seen(bin') = {}
        BY <1>7, SeenEmpty DEF Clear, NoFile
    <2> QED BY <2>1, <2>2 DEF Current
<1>8. CASE Crash
    <2>1. Current' = Seen(bin')
        BY <1>8 DEF Crash, Current
    <2>2. Seen(bin) \subseteq Current
        <3>1. Renaming => Seen(bin) = {}
            BY SeenEmpty DEF Renaming, Copies
        <3> QED BY <3>1 DEF Current, Renaming
    <2>3. ASSUME NEW r \in Record, r.torn, bin' = File(Append(bin.recs, r)) PROVE Seen(bin') = Seen(bin)
        BY <2>3, SeenAppended DEF File, FilesOk
    <2>4. Seen(bin') = Seen(bin)
        BY <1>8, <2>3, CrashIs
    <2> QED BY <2>1, <2>2, <2>4
<1>9. CASE UNCHANGED vars
    BY <1>9 DEF vars, Current, Seen, Readable
<1>10. ASSUME NEW t \in Tasks, Steps(t) PROVE Current' \subseteq Current \cup Set!Asked
    <2>1. CASE Give(t) \/ SaveRefused(t) \/ DeleteRefused(t) \/ OpenTemp(t) \/ CopyRecord(t) \/ DropTemp(t) \/ List(t)
        <3>1. pc[t] \notin {"idle", "take", "rename"} /\ bin' = bin
            BY <2>1 DEF Give, SaveRefused, DeleteRefused, OpenTemp, CopyRecord, DropTemp, List
        <3> QED BY <1>3, <2>1, <3>1
    <2> QED BY <1>2, <1>4, <1>5, <1>6, <1>7, <1>10, <2>1 DEF Steps
<1> QED BY <1>1, <1>8, <1>9, <1>10, StartsIs DEF Next

\* A step at which something fails, or after something has, is a degraded one.
LEMMA Degrades ==
  IInv /\ IInv' /\ [Next]_vars /\ ~intact' => Set!Degrade
<1> SUFFICES ASSUME IInv, IInv', [Next]_vars, ~intact' PROVE Set!Degrade
    OBVIOUS
<1>1. intact' = FALSE
    BY Zenon DEF IInv
<1>2. Current' \subseteq Current \cup Set!Asked
    BY NothingAppears
<1>3. request' \in [Tasks -> Set!Requests \cup {Set!NoRequest}]
    BY DEF IInv, Basics, TasksOk, NoRequest, Set!NoRequest
<1>4. Ended' \subseteq Tasks
    BY DEF Ended
<1>5. Told' \in [Tasks -> [ok : BOOLEAN, seen : SUBSET Set!Records]]
    <2>1. NoAnswer \in [ok : BOOLEAN, seen : SUBSET Shown] /\ Shown = Set!Records
        BY DEF NoAnswer, Shown, Set!Records
    <2>2. answer' \in [Tasks -> [ok : BOOLEAN, seen : SUBSET Shown]]
        BY DEF IInv, Answers
    <2> QED BY <2>1, <2>2 DEF Told
<1> QED BY <1>1, <1>2, <1>3, <1>4, <1>5 DEF Set!Degrade, Ended, Told

\* The copy without the records to be deleted, when nothing has failed.
LEMMA CopyEffect ==
  ASSUME IInv, intact, NEW t \in Tasks, pc[t] = "copy", pos[t] >= Len(bin.recs)
  PROVE  /\ Current = Seen(bin)
         /\ Seen(tmp) = Seen(bin) \ {c \in Seen(bin) : HitShown(request[t], c)}
         /\ answer[t].ok <=> {c \in Seen(bin) : HitShown(request[t], c)} # {}
<1> DEFINE n == Len(bin.recs)
<1>1. /\ bin.recs \in Seq(Record) /\ n \in Nat /\ pos[t] = n /\ WholeUpTo(bin.recs, n)
      /\ request[t].op \in {"delete", "deleteSite"}
    BY DEF IInv, Basics, FilesOk, TasksOk, Copies, Complete, AtPlaces, AtPlace
<1>2. ASSUME NEW i \in 1..n PROVE Hit(request[t], bin.recs[i]) <=> HitShown(request[t], Proj(bin.recs[i]))
    <2>1. bin.recs[i] \in Record /\ ~bin.recs[i].torn
        BY <1>1 DEF WholeUpTo
    <2> QED BY <1>1, <2>1, ProjIs DEF Hit, HitShown
<1>3. ASSUME NEW c PROVE c \in Seen(bin) <=> \E i \in 1..n : c = Proj(bin.recs[i])
    <2>1. \A i \in 1..n : WholeUpTo(bin.recs, i)
        BY <1>1 DEF WholeUpTo
    <2> QED BY <1>1, <2>1, SeenIs
<1>4. /\ \A i \in 1..n : ~Hit(request[t], bin.recs[i]) => Proj(bin.recs[i]) \in Seen(tmp)
      /\ \A c \in Seen(tmp) : \E i \in 1..n : c = Proj(bin.recs[i]) /\ ~Hit(request[t], bin.recs[i])
      /\ answer[t].ok <=> \E i \in 1..n : Hit(request[t], bin.recs[i])
    BY <1>1 DEF IInv, Complete
<1> HIDE DEF n
<1>5. Seen(tmp) = Seen(bin) \ {c \in Seen(bin) : HitShown(request[t], c)}
    BY <1>2, <1>3, <1>4
<1>6. answer[t].ok <=> {c \in Seen(bin) : HitShown(request[t], c)} # {}
    BY <1>2, <1>3, <1>4
<1>7. Current = Seen(bin)
    BY CurrentIs DEF IInv
<1> QED BY <1>5, <1>6, <1>7

\* While nothing fails, every step is a step of the set or leaves it alone.
LEMMA StepOfSet ==
  IInv /\ IInv' /\ [Next]_vars /\ intact' => [Set!Next]_(Set!vars)
<1> SUFFICES ASSUME IInv, IInv', [Next]_vars, intact' PROVE Set!Next \/ UNCHANGED Set!vars
    OBVIOUS
<1> USE DEF IInv, Basics, TasksOk, flashVars, taskVars, histVars
<1> DEFINE Same == UNCHANGED <<Current, request, Ended, Told, intact>>
<1>0. Same => UNCHANGED Set!vars
    BY DEF Set!vars, Ended, Told
<1>1. ASSUME NEW t \in Tasks, NEW r \in Set!Requests, Asks(t, r) PROVE Set!Call(t, r)
    <2>1. request[t] = Set!NoRequest /\ request' = [request EXCEPT ![t] = r] /\ intact' = intact
        BY <1>1 DEF Asks, Call, AtPlaces, AtPlace, NoRequest, Set!NoRequest
    <2>2. Current' = Current
        BY <1>1 DEF Asks, Call, Goto, Current
    <2>3. Ended' = Ended
        BY <1>1 DEF Asks, Call, Goto, Ended
    <2>4. Told' = Told
        BY <1>1 DEF Asks, Call, Goto, Told
    <2> QED BY <2>1, <2>2, <2>3, <2>4 DEF Set!Call, Ended, Told
<1>2. ASSUME NEW t \in Tasks, Take(t) PROVE Same
    <2>1. Current' = Current
        BY <1>2 DEF Take, Goto, Current, AtPlaces, AtPlace, Ops
    <2>2. Ended' = Ended
        BY <1>2 DEF Take, Goto, Ended, AtPlaces, AtPlace, Ops
    <2>3. Told' = Told
        BY <1>2 DEF Take, Goto, Told, AtPlaces, AtPlace, Ops
    <2> QED BY <1>2, <2>1, <2>2, <2>3 DEF Take
<1>3. ASSUME NEW t \in Tasks, Give(t) PROVE Set!Return(t)
    <2>1. pc[t] = "return" /\ pc' = [pc EXCEPT ![t] = "idle"] /\ bin' = bin /\ intact' = intact
        BY <1>3 DEF Give, Goto
    <2>2. Current' = Current
        BY <2>1, Alone DEF Current
    <2>3. t \in Ended /\ Ended' = Ended \ {t}
        BY <2>1 DEF Ended
    <2>4. Told' = [u \in Tasks |-> IF u = t THEN NoAnswer ELSE Told[u]]
        BY <1>3, <2>1 DEF Give, Told, Answers
    <2>5. Told' = [Told EXCEPT ![t] = NoAnswer]
        BY <2>4 DEF Told
    <2>6. request' = [request EXCEPT ![t] = NoRequest]
        BY <1>3 DEF Give
    <2> QED BY <2>1, <2>2, <2>3, <2>5, <2>6 DEF Set!Return, Ended, Told, NoRequest, NoAnswer, Set!NoRequest, Set!NoAnswer
<1>4. ASSUME NEW t \in Tasks, SaveAppend(t) PROVE Set!TakeEffect(t)
    <2>1. PICK r \in Record : /\ Proj(r) = request[t].rec /\ bin' = File(Append(bin.recs, r))
                              /\ (intact' => intact /\ ~r.torn)
        BY <1>4, SaveIs
    <2>2. /\ pc[t] = "save" /\ pc' = [pc EXCEPT ![t] = "return"] /\ request' = request
          /\ request[t].op = "save"
        BY <1>4 DEF SaveAppend, Answer, Goto, AtPlaces, AtPlace, Ops
    <2>3. answer'[t] = [ok |-> TRUE, seen |-> {}] /\ \A u \in Tasks \ {t} : answer'[u] = answer[u]
        BY <1>4 DEF SaveAppend, Answer, Answers
    <2>4. bin'.recs = Append(bin.recs, r) /\ bin.recs \in Seq(Record) /\ ~r.torn /\ WholeUpTo(bin.recs, Len(bin.recs))
        BY <2>1 DEF File, FilesOk, Complete
    <2>5. Seen(bin') = Seen(bin) \cup {Proj(r)}
        BY <2>4, SeenAppended
    <2>6. Current = Seen(bin) /\ Current' = Seen(bin')
        <3>1. \A u \in Tasks : pc'[u] # "rename"
            BY <2>2, Alone
        <3> QED BY <2>2, <3>1, CurrentIs DEF Current
    <2>7. Current' = (Current \ Set!Removed(request[t])) \cup Set!Added(request[t])
        BY <2>1, <2>2, <2>5, <2>6, SaveEffect
    <2>8. t \notin Ended /\ Ended' = Ended \cup {t} /\ Told' = [Told EXCEPT ![t] = Set!Result(request[t])]
        BY <2>2, <2>3, EffectIs, SaveEffect
    <2>9. intact' = intact
        <3>1. intact
            BY <2>1
        <3> QED BY <3>1, Zenon
    <2> QED BY <2>2, <2>7, <2>8, <2>9, TakesEffect DEF Ops
<1>5. ASSUME NEW t \in Tasks, DeleteRefused(t) PROVE Set!TakeEffect(t)
    <2>1. /\ pc[t] \in {"delete", "deleteSite"} /\ pc' = [pc EXCEPT ![t] = "return"] /\ request' = request
          /\ bin' = bin /\ request[t].op \in {"delete", "deleteSite"}
        BY <1>5 DEF DeleteRefused, Answer, Goto, AtPlaces, AtPlace, Ops
    <2>2. answer'[t] = NoAnswer /\ \A u \in Tasks \ {t} : answer'[u] = answer[u]
        BY <1>5 DEF DeleteRefused, Answer, Answers, NoAnswer
    <2>3. intact /\ ~bin.exists
        BY <1>5 DEF DeleteRefused
    <2>4. Seen(bin) = {}
        BY <2>3, SeenEmpty DEF FilesOk
    <2>5. Current = {} /\ Current' = {}
        <3>1. \A u \in Tasks : pc'[u] # "rename"
            BY <2>1, Alone
        <3>2. Current = Seen(bin)
            BY <2>1, CurrentIs
        <3> QED BY <2>1, <2>4, <3>1, <3>2 DEF Current
    <2>6. Set!Removed(request[t]) = {} /\ Set!Added(request[t]) = {} /\ Set!Result(request[t]) = NoAnswer
        BY <2>1, <2>5, DeleteEffect
    <2>7. t \notin Ended /\ Ended' = Ended \cup {t} /\ Told' = [Told EXCEPT ![t] = Set!Result(request[t])]
        BY <2>1, <2>2, <2>6, EffectIs
    <2>8. intact' = intact
        BY <2>3, Zenon
    <2> QED BY <2>1, <2>5, <2>6, <2>7, <2>8, TakesEffect DEF Ops
<1>6. ASSUME NEW t \in Tasks, OpenTemp(t) \/ CopyRecord(t) PROVE Same
    <2>1. pc[t] \in {"copy", "delete", "deleteSite"} /\ pc'[t] = "copy" /\ bin' = bin /\ request' = request
        BY <1>6 DEF OpenTemp, CopyRecord, Goto
    <2>2. \A u \in Tasks \ {t} : pc'[u] = pc[u] /\ answer'[u] = answer[u]
        <3>1. CASE OpenTemp(t)
            BY <3>1 DEF OpenTemp, Goto, Answers
        <3>2. CASE CopyRecord(t)
            <4>1. pc' = pc
                BY <3>2 DEF CopyRecord
            <4>2. answer' = answer \/ answer' = [answer EXCEPT ![t].ok = TRUE]
                BY <3>2, CopyIs DEF Drops, Copying
            <4> QED BY <4>1, <4>2 DEF Answers
        <3> QED BY <1>6, <3>1, <3>2
    <2>3. Current' = Current
        <3>1. \A u \in Tasks : pc[u] # "rename" /\ pc'[u] # "rename"
            BY <2>1, <2>2, Alone
        <3> QED BY <2>1, <3>1 DEF Current, Seen, Readable
    <2>4. Ended' = Ended
        BY <2>1, <2>2 DEF Ended
    <2>5. Told' = Told
        BY <2>1, <2>2 DEF Told
    <2>6. intact' = intact
        <3>1. intact
            BY <1>6, CopyIs DEF OpenTemp, Drops, Copying
        <3> QED BY <3>1, Zenon
    <2> QED BY <2>1, <2>3, <2>4, <2>5, <2>6
<1>7. ASSUME NEW t \in Tasks, DropTemp(t) PROVE Set!TakeEffect(t)
    <2>1. /\ pc[t] = "copy" /\ pc' = [pc EXCEPT ![t] = "return"] /\ request' = request /\ answer' = answer
          /\ bin' = bin /\ intact' = intact /\ ~answer[t].ok /\ pos[t] >= Len(bin.recs)
        BY <1>7 DEF DropTemp, Goto
    <2>2. answer[t] = NoAnswer
        <3>1. answer[t] \in [ok : BOOLEAN, seen : SUBSET Shown] /\ answer[t].seen = {}
            BY <2>1 DEF Answers
        <3>2. answer[t].ok = FALSE
            BY <2>1, <3>1
        <3> QED BY <3>1, <3>2 DEF NoAnswer
    <2>3. Current = Seen(bin) /\ {c \in Seen(bin) : HitShown(request[t], c)} = {}
        BY <2>1, CopyEffect
    <2>4. Current' = Current
        <3>1. \A u \in Tasks : pc'[u] # "rename"
            BY <2>1, Alone
        <3> QED BY <2>1, <2>3, <3>1 DEF Current
    <2>5. request[t].op \in {"delete", "deleteSite"}
        BY <2>1 DEF AtPlaces, AtPlace
    <2>6. Set!Removed(request[t]) = {} /\ Set!Added(request[t]) = {} /\ Set!Result(request[t]) = NoAnswer
        BY <2>3, <2>5, DeleteEffect
    <2>7. t \notin Ended /\ Ended' = Ended \cup {t} /\ Told' = [Told EXCEPT ![t] = Set!Result(request[t])]
        BY <2>1, <2>2, <2>6, EffectIs
    <2> QED BY <2>1, <2>4, <2>5, <2>6, <2>7, TakesEffect DEF Ops
<1>8. ASSUME NEW t \in Tasks, RemoveOld(t) PROVE Set!TakeEffect(t)
    <2>1. /\ pc[t] = "copy" /\ pc' = [pc EXCEPT ![t] = "rename"] /\ request' = request /\ answer' = answer
          /\ tmp' = tmp /\ intact' = intact /\ answer[t].ok /\ pos[t] >= Len(bin.recs)
        BY <1>8 DEF RemoveOld, Goto
    <2>2. answer[t] = [ok |-> TRUE, seen |-> {}]
        <3>1. answer'[t] = [ok |-> TRUE, seen |-> {}]
            BY <2>1 DEF Answers
        <3> QED BY <2>1, <3>1
    <2>3. /\ Current = Seen(bin) /\ {c \in Seen(bin) : HitShown(request[t], c)} # {}
          /\ Seen(tmp) = Seen(bin) \ {c \in Seen(bin) : HitShown(request[t], c)}
        BY <2>1, CopyEffect
    <2>4. Current' = Seen(tmp)
        <3>1. pc'[t] = "rename"
            BY <2>1
        <3> QED BY <2>1, <3>1 DEF Current
    <2>5. request[t].op \in {"delete", "deleteSite"}
        BY <2>1 DEF AtPlaces, AtPlace
    <2>6. /\ Set!Removed(request[t]) = {c \in Seen(bin) : HitShown(request[t], c)}
          /\ Set!Added(request[t]) = {} /\ Set!Result(request[t]) = [ok |-> TRUE, seen |-> {}]
        BY <2>3, <2>5, DeleteEffect
    <2>7. t \notin Ended /\ Ended' = Ended \cup {t} /\ Told' = [Told EXCEPT ![t] = Set!Result(request[t])]
        BY <2>1, <2>2, <2>6, EffectIs
    <2> QED BY <2>1, <2>3, <2>4, <2>5, <2>6, <2>7, TakesEffect DEF Ops
<1>9. ASSUME NEW t \in Tasks, RenameNew(t) PROVE Same
    <2>1. /\ pc[t] = "rename" /\ pc' = [pc EXCEPT ![t] = "return"] /\ bin' = tmp
          /\ request' = request /\ answer' = answer /\ intact' = intact
        BY <1>9 DEF RenameNew, Goto
    <2>2. Current' = Current
        <3>1. \A u \in Tasks : pc'[u] # "rename"
            BY <2>1, Alone
        <3> QED BY <2>1, <3>1, CurrentIs DEF Current
    <2>3. Ended' = Ended
        BY <2>1 DEF Ended
    <2>4. Told' = Told
        BY <2>1 DEF Told
    <2> QED BY <2>1, <2>2, <2>3, <2>4
<1>10. ASSUME NEW t \in Tasks, List(t) PROVE Set!TakeEffect(t)
    <2>1. /\ pc[t] = "list" /\ pc' = [pc EXCEPT ![t] = "return"] /\ request' = request
          /\ bin' = bin /\ intact' = intact /\ request[t].op = "list"
        BY <1>10 DEF List, Answer, Goto, AtPlaces, AtPlace, Ops
    <2>2. answer'[t] = [ok |-> TRUE, seen |-> Seen(bin)] /\ \A u \in Tasks \ {t} : answer'[u] = answer[u]
        BY <1>10 DEF List, Answer, Answers
    <2>3. Current = Seen(bin) /\ Current' = Seen(bin)
        <3>1. \A u \in Tasks : pc'[u] # "rename"
            BY <2>1, Alone
        <3> QED BY <2>1, <3>1, CurrentIs DEF Current
    <2>4. /\ Set!Removed(request[t]) = {} /\ Set!Added(request[t]) = {}
          /\ Set!Result(request[t]) = [ok |-> TRUE, seen |-> Seen(bin)]
        BY <2>1, <2>3, ListEffect
    <2>5. t \notin Ended /\ Ended' = Ended \cup {t} /\ Told' = [Told EXCEPT ![t] = Set!Result(request[t])]
        BY <2>1, <2>2, <2>4, EffectIs
    <2> QED BY <2>1, <2>3, <2>4, <2>5, TakesEffect DEF Ops
<1>11. ASSUME NEW t \in Tasks, Clear(t) PROVE Set!TakeEffect(t)
    <2>1. /\ pc[t] = "clear" /\ pc' = [pc EXCEPT ![t] = "return"] /\ request' = request
          /\ bin'.recs = <<>> /\ intact' = intact /\ request[t].op = "clear"
        BY <1>11 DEF Clear, Answer, Goto, AtPlaces, AtPlace, Ops, NoFile
    <2>2. answer'[t] = [ok |-> TRUE, seen |-> {}] /\ \A u \in Tasks \ {t} : answer'[u] = answer[u]
        BY <1>11 DEF Clear, Answer, Answers
    <2>3. Current' = {}
        <3>1. \A u \in Tasks : pc'[u] # "rename"
            BY <2>1, Alone
        <3> QED BY <2>1, <3>1, SeenEmpty DEF Current
    <2>4. /\ Set!Removed(request[t]) = Current /\ Set!Added(request[t]) = {}
          /\ Set!Result(request[t]) = [ok |-> TRUE, seen |-> {}]
        BY <2>1, ClearEffect
    <2>5. t \notin Ended /\ Ended' = Ended \cup {t} /\ Told' = [Told EXCEPT ![t] = Set!Result(request[t])]
        BY <2>1, <2>2, <2>4, EffectIs
    <2> QED BY <2>1, <2>3, <2>4, <2>5, TakesEffect DEF Ops
<1>12. ASSUME NEW t \in Tasks, SaveRefused(t) PROVE FALSE
    BY <1>12 DEF SaveRefused
<1>13. CASE Crash
    BY <1>13 DEF Crash
<1>14. CASE UNCHANGED vars
    <2>1. Current' = Current
        BY <1>14 DEF vars, Current, Seen, Readable
    <2>2. Ended' = Ended /\ Told' = Told
        BY <1>14 DEF vars, Ended, Told
    <2> QED BY <1>0, <1>14, <2>1, <2>2 DEF vars
<1>15. ASSUME NEW t \in Tasks, Steps(t) PROVE Same \/ Set!TakeEffect(t) \/ Set!Return(t)
    <2> HIDE DEF Same
    <2> QED BY <1>2, <1>3, <1>4, <1>5, <1>6, <1>7, <1>8, <1>9, <1>10, <1>11, <1>12, <1>15 DEF Steps
<1> HIDE DEF Same
<1> QED BY <1>0, <1>1, <1>13, <1>14, <1>15, StartsIs DEF Next, Set!Next

\* A device without a file is an empty set.
LEMMA SetInit == Init => Set!Init
<1> SUFFICES ASSUME Init PROVE Set!Init
    OBVIOUS
<1>1. \A t \in Tasks : pc[t] = "idle"
    BY DEF Init
<1>2. Current = {}
    BY <1>1, SeenEmpty DEF Init, Current, NoFile
<1>3. Ended = {} /\ Told = [t \in Tasks |-> NoAnswer]
    BY <1>1 DEF Ended, Told
<1> QED BY <1>2, <1>3 DEF Init, Set!Init, Ended, Told, NoRequest, NoAnswer, Set!NoRequest, Set!NoAnswer

\* The functions on /passkeys.bin, taken one file access at a time by any number of tasks,
\* with failed writes and power cuts, implement the set of records PasskeySet.
THEOREM ActsAsSetAlways == Spec => ActsAsSet
<1>1. IInv /\ IInv' /\ [Next]_vars => [Set!Next]_(Set!vars)
    <2> SUFFICES ASSUME IInv, IInv', [Next]_vars PROVE [Set!Next]_(Set!vars)
        OBVIOUS
    <2>1. CASE intact'
        BY <2>1, StepOfSet
    <2>2. CASE ~intact'
        BY <2>2, Degrades DEF Set!Next
    <2> QED BY <2>1, <2>2
<1> QED BY SetInit, Invariant, <1>1, PTL DEF Spec, ActsAsSet, Set!Spec
=============================================================================
