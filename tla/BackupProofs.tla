---------------------------- MODULE BackupProofs ----------------------------
(***************************************************************************)
(* Proofs about Backup: a restore, item by item, of an archive of any      *)
(* size, and what the page says of it and of every backup, with any number *)
(* of operations, edits and faults around it.                              *)
(*                                                                         *)
(* Every item of the archive is done or to do (Restoring), and the one     *)
(* password between delete and save is the only one that may be lost       *)
(* without a mishap (LossesPaid); an archive that no Reset fell into has   *)
(* what the vault had when the export began (Untorn, Exporting).           *)
(*                                                                         *)
(* What the page reports is so because the line keeps the order of the     *)
(* operations: behind what is about the newest one nothing is about an     *)
(* earlier one (InTurn), so what the page waits for is its own unless it   *)
(* took an IMPORT_READY or EXPORT_START for its own that was not (Opening, *)
(* Sending, Saving).  A restore that nothing disturbs goes through three   *)
(* phases, and ends in a report (Announced, Receiving, Decided).           *)
(*                                                                         *)
(* An import is ended by the COMMIT or ABORT that follows its BEGIN on the *)
(* line, with all announced pieces between (Finishes, Closed).             *)
(***************************************************************************)
EXTENDS Backup, FiniteSetTheorems, SequenceTheorems, TLAPS

\* One more message at the end of a line.
LEMMA OneMore ==
  ASSUME NEW S, NEW s \in Seq(S), NEW x \in S
  PROVE  LET t == Append(s, x)  n == Len(s) + 1 IN
         /\ t \in Seq(S) /\ n \in DOMAIN t /\ t[n] = x /\ n \in Nat /\ t # <<>>
         /\ \A i \in DOMAIN s : i \in DOMAIN t /\ t[i] = s[i] /\ i < n /\ i \in Nat
         /\ \A i \in DOMAIN t : i \in DOMAIN s \/ i = n
<1>1. /\ Append(s, x) \in Seq(S) /\ Len(Append(s, x)) = Len(s) + 1 /\ Append(s, x)[Len(s) + 1] = x
      /\ \A i \in 1..Len(s) : Append(s, x)[i] = s[i]
    BY AppendProperties
<1>2. Len(s) \in Nat /\ DOMAIN s = 1..Len(s) /\ DOMAIN Append(s, x) = 1..(Len(s) + 1)
    BY <1>1
<1> QED BY <1>1, <1>2

\* What is left of the line when its first message is taken.
LEMMA OneLess ==
  ASSUME NEW S, NEW s \in Seq(S), s # <<>>
  PROVE  LET t == Tail(s) IN
         /\ t \in Seq(S) /\ 1 \in DOMAIN s /\ Head(s) = s[1] /\ s[1] \in S
         /\ \A i \in DOMAIN t : i \in Nat /\ i + 1 \in DOMAIN s /\ t[i] = s[i + 1]
         /\ \A i \in DOMAIN s : i \in Nat /\ i >= 1 /\ (i # 1 => i - 1 \in DOMAIN t /\ t[i - 1] = s[i])
<1>1. /\ Len(s) \in Nat \ {0} /\ DOMAIN s = 1..Len(s) /\ Tail(s) \in Seq(S) /\ Len(Tail(s)) = Len(s) - 1
      /\ Head(s) = s[1] /\ Head(s) \in S
    BY EmptySeq, HeadTailProperties
<1>2. DOMAIN Tail(s) = 1..Len(Tail(s))
    BY <1>1
<1>3. \A i \in 1..Len(Tail(s)) : Tail(s)[i] = s[i + 1]
    BY HeadTailProperties
<1> QED BY <1>1, <1>2, <1>3

Piece    == Nat \X Nat
Hex      == Seq(Piece)
Contents == [Items -> Vals \cup {0}]
Entries  == [Items -> [val : Vals \cup {0}, key : Keys \cup {0}]]
Made     == [content : Contents, phrase : Phrases, snap : Contents, torn : BOOLEAN]
Requests ==
  [cmd : {"export"}, phrase : Phrases, op : Nat]
    \cup [cmd : {"begin"}, len : Nat, sha : Hex, op : Nat]
    \cup [cmd : {"chunk"}, data : Hex]
    \cup [cmd : {"commit"}, phrase : Phrases, over : BOOLEAN, op : Nat]
    \cup [cmd : {"abort", "restart", "connect"}]
Events ==
  [ev : {"error", "IMPORT_ABORTED", "EXPORT_DONE", "BOOT"}]
    \cup [ev : {"EXPORT_START"}, len : Nat, sha : Hex \ {<<>>}, op : Nat]
    \cup [ev : {"EXPORT_CHUNK"}, seq : Nat, data : Piece]
    \cup [ev : {"IMPORT_READY", "IMPORT_DONE"}, op : Nat]
Pages ==
  [at : {"idle", "connecting"}]
    \cup [at : BusyAt, phrase : Phrases, file : Hex, over : BOOLEAN, n : Nat]
Results ==
  [kind : {"none"}] \cup [kind : {"export", "import"}, ok : BOOLEAN, file : Hex, phrase : Phrases]

JobTyped ==
  \/ job = NoJob
  \/ job \in [at : {"totp"}, phrase : Phrases, snap : Contents, mishaps : Nat, op : Nat, content : Contents]
  \/ job \in [at : {"next", "save"}, arch : DOMAIN archives, todo : SUBSET Items, over : BOOLEAN, op : Nat,
              item : Items, key : Keys]
FilesTyped == vault \in Entries /\ skey \in Keys \cup {NoKey} /\ before \in Entries
CountsTyped == mishaps \in Nat /\ ops \in Nat /\ edits \in Nat /\ faults \in Nat
LinesTyped == toDev \in Seq(Requests) /\ toHost \in Seq(Events)
ImportTyped ==
  /\ imp \in [on : BOOLEAN, acc : Hex, len : Nat, sha : Hex]
  /\ imp.len <= MaxImport /\ Len(imp.acc) <= imp.len
PageTyped ==
  /\ page \in Pages /\ files \subseteq Hex \ {<<>>} /\ result \in Results
  /\ buf.on => buf.sha \in Hex \ {<<>>}
FlagsTyped == authed \in BOOLEAN /\ resetting \in BOOLEAN
ArchivesTyped == archives \in Seq(Made)

BackupTypes ==
  /\ FilesTyped /\ CountsTyped /\ LinesTyped /\ ImportTyped /\ PageTyped /\ FlagsTyped /\ ArchivesTyped /\ JobTyped

\* The pieces of an archive.
LEMMA BlobOf ==
  ASSUME NEW c \in Contents, NEW a \in Nat
  PROVE  LET blob == [n \in 1..BlobLen(c) |-> <<a, n>>] IN
         BlobLen(c) \in Nat \ {0} /\ blob \in Hex \ {<<>>} /\ Len(blob) = BlobLen(c)
<1>1. BlobLen(c) \in Nat \ {0}
  <2> DEFINE N == {i \in Logins \cup Names : c[i] # 0}
  <2>1. IsFiniteSet(Logins \cup Names)
      BY BackupAssumption, FS_Union
  <2>2. IsFiniteSet(N)
      BY <2>1, FS_Subset
  <2>3. Cardinality(N) \in Nat
      BY <2>2, FS_CardinalityType
  <2> QED BY <2>3 DEF BlobLen
<1> DEFINE k == BlobLen(c)
<1>2. [n \in 1..k |-> <<a, n>>] \in Hex /\ Len([n \in 1..k |-> <<a, n>>]) = k
  <2> HIDE DEF k
  <2>1. k \in Nat
      BY <1>1 DEF k
  <2> QED BY <2>1 DEF Hex, Piece
<1> QED BY <1>1, <1>2

\* ... of one that was made.
LEMMA BlobTyped == ASSUME ArchivesTyped, NEW a \in DOMAIN archives PROVE Blob(a) \in Hex \ {<<>>}
<1>1. a \in Nat /\ archives[a] \in Made
    BY DEF ArchivesTyped
<1>2. archives[a].content \in Contents
    BY <1>1 DEF Made
<1> QED BY <1>1, <1>2, BlobOf DEF Blob

\* Values and Items.
LEMMA ItemsAre ==
  /\ Alg \in Items /\ Alg \notin Logins /\ Alg \notin Names /\ Logins \cap Names = {}
  /\ Logins \subseteq Items /\ Names \subseteq Items /\ Default \in [val : Vals \cup {0}, key : Keys \cup {0}]
  /\ Gone \in [val : Vals \cup {0}, key : Keys \cup {0}] /\ Empty \in Entries /\ Full \in Entries /\ NoKey \notin Keys
  /\ \A l \in Logins : Empty[l].val = 0
BY BackupAssumption DEF Items, Alg, Default, Gone, Entries, Empty, Full, Keys, NoKey

\* The device and the browser begin with the vault of one of the two starts.
LEMMA TypesInitially == BackupInit => BackupTypes
<1> SUFFICES ASSUME BackupInit PROVE BackupTypes
    OBVIOUS
<1>1. PICK start \in {<<Empty, Some>>, <<Full, Logins>>} :
        LET c == [i \in Items |-> IF i \in start[2] \cup {Alg} THEN 2 ELSE 0]
        IN  /\ vault = start[1]
            /\ archives = <<[content |-> c, phrase |-> CHOOSE p \in Phrases : TRUE, snap |-> c, torn |-> FALSE]>>
    BY Zenon DEF BackupInit
<1> DEFINE c == [i \in Items |-> IF i \in start[2] \cup {Alg} THEN 2 ELSE 0]
           p == CHOOSE p \in Phrases : TRUE
<1>2. c \in Contents /\ p \in Phrases /\ FALSE \in BOOLEAN
  <2>1. c \in Contents
      BY BackupAssumption DEF Contents
  <2>2. p \in Phrases
      BY BackupAssumption
  <2> QED BY <2>1, <2>2, Zenon
<1>3. archives = <<[content |-> c, phrase |-> p, snap |-> c, torn |-> FALSE]>>
    BY <1>1
<1>4. vault \in Entries
    BY <1>1, ItemsAre
<1> HIDE DEF c, p
<1>5. ArchivesTyped /\ 1 \in DOMAIN archives
    BY <1>2, <1>3 DEF ArchivesTyped, Made
<1>6. FilesTyped /\ CountsTyped /\ LinesTyped
    BY <1>4, ItemsAre DEF BackupInit, FilesTyped, CountsTyped, LinesTyped, Keys
<1>7. ImportTyped
    BY <1>2, BackupAssumption DEF BackupInit, ImportTyped, NoImport, Hex
<1>8. PageTyped
    BY <1>5, BlobTyped DEF BackupInit, PageTyped, NoPage, NoBuf, NoResult, Pages, Results
<1>9. FlagsTyped
    BY Zenon DEF BackupInit, FlagsTyped
<1>10. JobTyped
    BY DEF BackupInit, JobTyped
<1> QED BY <1>5, <1>6, <1>7, <1>8, <1>9, <1>10 DEF BackupTypes

\* What Tell leaves on the line.
LEMMA Told ==
  ASSUME NEW m \in Seq(Events), LinesTyped, Tell(m)
  PROVE  toHost' \in Seq(Events)
BY ConcatProperties DEF Tell, LinesTyped

\* One event at the end of the line.
LEMMA ToldOne ==
  ASSUME NEW e \in Events, LinesTyped, Tell(<<e>>)
  PROVE  toHost' \in Seq(Events) /\ toHost' = Append(toHost, e)
<1>1. toHost' = toHost \o <<e>> /\ <<e>> \in Seq(Events) /\ toHost \in Seq(Events)
    BY DEF Tell, LinesTyped
<1> QED BY <1>1, ConcatProperties, AppendIsConcat

\* The events that carry nothing but an operation.
LEMMA EventsAre ==
  /\ Error \in Events /\ Event("IMPORT_ABORTED") \in Events /\ Event("EXPORT_DONE") \in Events /\ Event("BOOT") \in Events
  /\ \A o \in Nat : EventOf("IMPORT_READY", o) \in Events /\ EventOf("IMPORT_DONE", o) \in Events
BY DEF Events, Error, Event, EventOf

\* What the page asks for stands behind what it asked for before.
LEMMA Asked ==
  ASSUME NEW m \in Requests, LinesTyped, Ask(m)
  PROVE  toDev' \in Seq(Requests)
BY DEF Ask, LinesTyped

\* The page's own steps keep the types.
LEMMA HostTypes == ASSUME BackupTypes, BackupHost PROVE BackupTypes'
<1> USE DEF BackupTypes
<1>0. NoPage \in Pages /\ NoResult \in Results /\ TRUE \in BOOLEAN /\ FALSE \in BOOLEAN /\ buf = buf
    BY Zenon DEF NoPage, NoResult, Pages, Results
<1>1. ASSUME NEW p \in Phrases, RunBackupExport(p) PROVE BackupTypes'
  <2>1. LinesTyped'
    <3>1. [cmd |-> "export", phrase |-> p, op |-> ops + 1] \in Requests
        BY DEF Requests, CountsTyped
    <3> QED BY <1>1, <3>1, Asked DEF RunBackupExport, LinesTyped
  <2>2. PageTyped'
      BY <1>0, <1>1, EmptySeq DEF RunBackupExport, PageTyped, Pages, NoBuf, Hex, BusyAt
  <2>3. FilesTyped' /\ CountsTyped'
      BY <1>1, ItemsAre DEF RunBackupExport, FilesTyped, CountsTyped, StartHistory, devVars
  <2>4. ImportTyped' /\ ArchivesTyped' /\ JobTyped' /\ FlagsTyped'
      BY <1>1, Zenon DEF RunBackupExport, devVars, ImportTyped, ArchivesTyped, JobTyped, FlagsTyped
  <2> QED BY <2>1, <2>2, <2>3, <2>4
<1>2. ASSUME NEW f \in files \cup Damaged, NEW p \in Phrases, NEW over \in BOOLEAN, RunBackupImport(f, p, over)
      PROVE  BackupTypes'
  <2>0. f \in Hex
    <3>1. \A g \in Hex : g # <<>> => Tail(g) \o <<Head(g)>> \in Hex
        BY HeadTailProperties, ConcatProperties DEF Hex
    <3>2. CASE f \in files
        BY <3>2 DEF PageTyped
    <3>3. CASE f \in Damaged
      <4>1. PICK g \in files : f = Tail(g) \o <<Head(g)>>
          BY <3>3 DEF Damaged
      <4> QED BY <3>1, <4>1 DEF PageTyped
    <3> QED BY <3>2, <3>3
  <2>1. LinesTyped'
    <3>1. [cmd |-> "begin", len |-> Len(f), sha |-> f, op |-> ops + 1] \in Requests
        BY <2>0 DEF Requests, CountsTyped, Hex
    <3> QED BY <1>2, <3>1, Asked DEF RunBackupImport, LinesTyped
  <2>2. PageTyped'
      BY <1>0, <1>2, <2>0 DEF RunBackupImport, PageTyped, Pages, BusyAt
  <2>3. FilesTyped' /\ CountsTyped'
      BY <1>2, ItemsAre DEF RunBackupImport, FilesTyped, CountsTyped, StartHistory, Picked, devVars
  <2>4. ImportTyped' /\ ArchivesTyped' /\ JobTyped' /\ FlagsTyped'
      BY <1>2, Zenon DEF RunBackupImport, devVars, ImportTyped, ArchivesTyped, JobTyped, FlagsTyped
  <2> QED BY <2>1, <2>2, <2>3, <2>4
<1>3. ASSUME WaitForBackupEvent PROVE BackupTypes'
  <2>1. PageTyped'
      BY <1>3 DEF WaitForBackupEvent, PageTyped, Pages, BusyAt, Waiting
  <2>2. FilesTyped' /\ CountsTyped' /\ LinesTyped' /\ ImportTyped' /\ ArchivesTyped' /\ JobTyped' /\ FlagsTyped'
      BY <1>3, Zenon DEF WaitForBackupEvent, devVars, histVars, FilesTyped, CountsTyped, LinesTyped, ImportTyped,
                  ArchivesTyped, JobTyped, FlagsTyped
  <2> QED BY <2>1, <2>2
<1>4. ASSUME SendChunk PROVE BackupTypes'
  <2>1. page.file \in Hex /\ page.n \in Nat /\ page.at = "chunks" /\ page.n < Len(page.file)
      BY <1>4 DEF SendChunk, PageTyped, Pages
  <2>2. <<page.file[page.n + 1]>> \in Hex
      BY <2>1 DEF Hex
  <2>3. PageTyped'
      BY <1>4, <2>1 DEF SendChunk, PageTyped, Pages
  <2>4. [cmd |-> "chunk", data |-> <<page.file[page.n + 1]>>] \in Requests
      BY <2>2 DEF Requests
  <2>5. LinesTyped'
      BY <1>4, <2>4, Asked DEF SendChunk, LinesTyped
  <2>6. FilesTyped' /\ CountsTyped' /\ ImportTyped' /\ ArchivesTyped' /\ JobTyped' /\ FlagsTyped'
      BY <1>4, Zenon DEF SendChunk, devVars, histVars, FilesTyped, CountsTyped, ImportTyped,
                  ArchivesTyped, JobTyped, FlagsTyped
  <2> QED BY <2>3, <2>5, <2>6
<1>5. ASSUME SendCommit PROVE BackupTypes'
  <2>1. page.at = "chunks" /\ page.phrase \in Phrases /\ page.over \in BOOLEAN
      BY <1>5 DEF SendCommit, PageTyped, Pages
  <2>2. PageTyped'
      BY <1>5, <2>1 DEF SendCommit, PageTyped, Pages, BusyAt
  <2>3. [cmd |-> "commit", phrase |-> page.phrase, over |-> page.over, op |-> ops] \in Requests
      BY <2>1 DEF Requests, CountsTyped
  <2>4. LinesTyped'
      BY <1>5, <2>3, Asked DEF SendCommit, LinesTyped
  <2>5. FilesTyped' /\ CountsTyped' /\ ImportTyped' /\ ArchivesTyped' /\ JobTyped' /\ FlagsTyped'
      BY <1>5, Zenon DEF SendCommit, devVars, histVars, FilesTyped, CountsTyped, ImportTyped,
                  ArchivesTyped, JobTyped, FlagsTyped
  <2> QED BY <2>2, <2>4, <2>5
<1>6. \A k : k \in {"export", "import"} /\ page.at \in BusyAt /\ Fail(k) => PageTyped' /\ toDev' \in Seq(Requests)
  <2> SUFFICES ASSUME NEW k \in {"export", "import"}, page.at \in BusyAt, Fail(k)
               PROVE  PageTyped' /\ toDev' \in Seq(Requests)
      OBVIOUS
  <2>1. page.file \in Hex /\ page.phrase \in Phrases
      BY DEF PageTyped, Pages, BusyAt
  <2>2. result' \in Results
      BY <1>0, <2>1 DEF Fail, Report, Results
  <2>3. PageTyped'
      BY <1>0, <2>2 DEF Fail, PageTyped, NoBuf
  <2>4. [cmd |-> "abort"] \in Requests
      BY DEF Requests
  <2>5. toDev' \in Seq(Requests)
      BY <2>4, Asked DEF Fail, LinesTyped
  <2> QED BY <2>3, <2>5
<1>7. ASSUME ReadLine PROVE BackupTypes'
  <2>1. Head(toHost) \in Events /\ toHost' \in Seq(Events)
      BY <1>7, OneLess DEF ReadLine, LinesTyped
  <2> DEFINE m == Head(toHost)
  <2>2. PageTyped' /\ toDev' \in Seq(Requests)
    <3>1. OnLine(m) /\ m \in Events
        BY <1>7, <2>1 DEF ReadLine
    <3> HIDE DEF m
    <3>2. CASE UNCHANGED <<page, buf, files, result, toDev>>
        BY <3>2 DEF PageTyped, LinesTyped
    <3>3. CASE page' = NoPage /\ UNCHANGED <<buf, files, result, toDev>>
        BY <1>0, <3>3 DEF PageTyped, LinesTyped
    <3>4. CASE m.ev = "EXPORT_START" /\ buf' = [on |-> TRUE, chunks |-> [n \in 1..m.len |-> <<>>], sha |-> m.sha]
               /\ UNCHANGED <<page, files, result, toDev>>
        BY <3>1, <3>4 DEF PageTyped, LinesTyped, Events
    <3>5. CASE buf' = [buf EXCEPT !.chunks = WithChunk(@, m.seq, m.data)] /\ UNCHANGED <<page, files, result, toDev>>
        BY <3>5 DEF PageTyped, LinesTyped
    <3>6. CASE page.at \in BusyAt /\ \E k \in {"export", "import"} : Fail(k)
        BY <1>6, <3>6
    <3>7. CASE page.at = "export" /\ TakeArchive
      <4>1. CASE ~(buf.on /\ hexBlob = buf.sha)
          BY <1>6, <3>7, <4>1 DEF TakeArchive, BusyAt
      <4>2. CASE buf.on /\ hexBlob = buf.sha
        <5>1. page.phrase \in Phrases /\ hexBlob \in Hex \ {<<>>}
            BY <3>7, <4>2 DEF PageTyped, Pages
        <5>2. result' = [kind |-> "export", ok |-> TRUE, phrase |-> page.phrase, file |-> hexBlob]
            BY <3>7, <4>2, Zenon DEF TakeArchive
        <5>3. result' \in Results
            BY <1>0, <5>1, <5>2 DEF Results
        <5> QED BY <1>0, <3>7, <4>2, <5>1, <5>3 DEF TakeArchive, PageTyped, LinesTyped, NoBuf
      <4> QED BY <4>1, <4>2
    <3>8. CASE page.at = "begin" /\ page' = [page EXCEPT !.at = "chunks"] /\ UNCHANGED <<buf, files, result, toDev>>
        BY <3>8 DEF PageTyped, LinesTyped, Pages, BusyAt
    <3>9. CASE page.at = "commit" /\ page' = NoPage /\ Report("import", TRUE) /\ UNCHANGED <<buf, files, toDev>>
      <4>1. page.file \in Hex /\ page.phrase \in Phrases
          BY <3>9 DEF PageTyped, Pages
      <4>2. result' \in Results
          BY <1>0, <3>9, <4>1 DEF Report, Results
      <4> QED BY <1>0, <3>9, <4>2 DEF PageTyped, LinesTyped
    <3> QED BY <3>1, <3>2, <3>3, <3>4, <3>5, <3>6, <3>7, <3>8, <3>9 DEF OnLine, Kind, BusyAt
  <2>3. FilesTyped' /\ CountsTyped' /\ ImportTyped' /\ ArchivesTyped' /\ JobTyped' /\ FlagsTyped'
      BY <1>7, Zenon DEF ReadLine, devVars, FilesTyped, CountsTyped, ImportTyped,
                  ArchivesTyped, JobTyped, FlagsTyped
  <2> QED BY <2>1, <2>2, <2>3 DEF LinesTyped
<1>8. ASSUME TimeOut PROVE BackupTypes'
  <2>1. PageTyped' /\ toDev' \in Seq(Requests)
      BY <1>6, <1>8 DEF TimeOut, Kind, BusyAt
  <2>2. toHost' \in Seq(Events)
      BY <1>8 DEF TimeOut, LinesTyped
  <2>3. FilesTyped' /\ CountsTyped' /\ ImportTyped' /\ ArchivesTyped' /\ JobTyped' /\ FlagsTyped'
      BY <1>8, Zenon DEF TimeOut, devVars, FilesTyped, CountsTyped, ImportTyped,
                  ArchivesTyped, JobTyped, FlagsTyped
  <2> QED BY <2>1, <2>2, <2>3 DEF LinesTyped
<1>9. ASSUME SendThrows PROVE BackupTypes'
  <2>1. PageTyped' /\ toDev' \in Seq(Requests)
      BY <1>6, <1>9 DEF SendThrows, BusyAt
  <2>2. toHost' \in Seq(Events) /\ CountsTyped'
      BY <1>9 DEF SendThrows, LinesTyped, CountsTyped
  <2>3. FilesTyped' /\ ImportTyped' /\ ArchivesTyped' /\ JobTyped' /\ FlagsTyped'
      BY <1>9, Zenon DEF SendThrows, devVars, FilesTyped, ImportTyped, ArchivesTyped, JobTyped, FlagsTyped
  <2> QED BY <2>1, <2>2, <2>3 DEF LinesTyped
<1>10. ASSUME ClosePage PROVE BackupTypes'
  <2>1. toDev' \in Seq(Requests)
    <3>1. [cmd |-> "restart"] \in Requests /\ [cmd |-> "connect"] \in Requests /\ toDev \in Seq(Requests)
        BY DEF Requests, LinesTyped
    <3>2. PICK bye \in {<<>>, <<[cmd |-> "restart"]>>} : toDev' = toDev \o bye \o <<[cmd |-> "connect"]>>
        BY <1>10 DEF ClosePage
    <3>3. \A r \in Requests : <<r>> \in Seq(Requests)
        OBVIOUS
    <3>4. <<[cmd |-> "restart"]>> \in Seq(Requests) /\ <<[cmd |-> "connect"]>> \in Seq(Requests)
        BY <3>1, <3>3, Zenon
    <3>5. bye \in Seq(Requests)
        BY <3>4, EmptySeq, Zenon
    <3> QED BY <3>1, <3>2, <3>4, <3>5, ConcatProperties, Zenon
  <2>2. PageTyped'
      BY <1>0, <1>10 DEF ClosePage, PageTyped, Pages, NoBuf
  <2>3. toHost' \in Seq(Events) /\ CountsTyped'
      BY <1>10 DEF ClosePage, LinesTyped, CountsTyped, histVars
  <2>4. FilesTyped' /\ ImportTyped' /\ ArchivesTyped' /\ JobTyped' /\ FlagsTyped'
      BY <1>10, Zenon DEF ClosePage, devVars, histVars, FilesTyped, ImportTyped, ArchivesTyped, JobTyped, FlagsTyped
  <2> QED BY <2>1, <2>2, <2>3, <2>4 DEF LinesTyped
<1>11. ASSUME LoseLine PROVE BackupTypes'
  <2>1. LinesTyped'
      BY <1>11, OneLess DEF LoseLine, LinesTyped
  <2>2. CountsTyped'
      BY <1>11 DEF LoseLine, CountsTyped
  <2>3. PageTyped' /\ FilesTyped' /\ ImportTyped' /\ ArchivesTyped' /\ JobTyped' /\ FlagsTyped'
      BY <1>11, Zenon DEF LoseLine, devVars, pageVars, PageTyped, FilesTyped, ImportTyped, ArchivesTyped, JobTyped, FlagsTyped
  <2> QED BY <2>1, <2>2, <2>3
<1> QED BY <1>1, <1>2, <1>3, <1>4, <1>5, <1>7, <1>8, <1>9, <1>10, <1>11 DEF BackupHost

\* The command that the device takes, and what is left of the line.
LEMMA TakenTyped ==
  ASSUME LinesTyped, toDev # <<>>
  PROVE  Head(toDev) \in Requests /\ Tail(toDev) \in Seq(Requests)
BY OneLess DEF LinesTyped

\* importVaultPlaintext: the item of a step, and what a write leaves.
LEMMA NextIs ==
  ASSUME NEW g \in 1..3, NEW i \in NextOf(g)
  PROVE  i \in job.todo /\ i \in Order[g] /\ \A h \in 1..(g - 1) : job.todo \cap Order[h] = {}
BY DEF NextOf

\* A write that may fail leaves a vault of the same kind.
LEMMA Written ==
  ASSUME NEW v \in Entries, FilesTyped, CountsTyped, Write(v)
  PROVE  vault' \in Entries /\ faults' \in Nat /\ mishaps' \in Nat
BY DEF Write, FilesTyped, CountsTyped

\* The commands of the session and those that change the vault.
LEMMA SessionTypes ==
  ASSUME BackupTypes, EndSession \/ Refuse \/ LogIn \/ Edit \/ ResetFiles \/ ResetKey \/ PowerCut
  PROVE  BackupTypes'
<1> USE DEF BackupTypes
<1>1. ASSUME EndSession PROVE BackupTypes'
  <2>1. LinesTyped'
    <3>1. toDev' \in Seq(Requests)
        BY <1>1, TakenTyped DEF EndSession, Command, Taken
    <3>2. toHost' \in Seq(Events)
        BY <1>1, ToldOne, EventsAre DEF EndSession, LinesTyped
    <3> QED BY <3>1, <3>2 DEF LinesTyped
  <2>2. FilesTyped' /\ CountsTyped'
      BY <1>1 DEF EndSession, FilesTyped, CountsTyped, devHist
  <2>3. FlagsTyped'
      BY <1>1, Zenon DEF EndSession, FlagsTyped
  <2>4. PageTyped' /\ ImportTyped' /\ ArchivesTyped' /\ JobTyped'
      BY <1>1, Zenon DEF EndSession, pageVars, devHist, PageTyped, ImportTyped, ArchivesTyped, JobTyped
  <2> QED BY <2>1, <2>2, <2>3, <2>4
<1>2. ASSUME Refuse PROVE BackupTypes'
  <2>1. LinesTyped'
      BY <1>2, TakenTyped DEF Refuse, Taken, LinesTyped
  <2>2. FilesTyped' /\ CountsTyped' /\ FlagsTyped' /\ PageTyped' /\ ImportTyped' /\ ArchivesTyped' /\ JobTyped'
      BY <1>2, Zenon DEF Refuse, devVars, pageVars, devHist, FilesTyped, CountsTyped, FlagsTyped, PageTyped, ImportTyped,
                  ArchivesTyped, JobTyped
  <2> QED BY <2>1, <2>2
<1>3. ASSUME LogIn PROVE BackupTypes'
  <2>1. FilesTyped' /\ CountsTyped' /\ LinesTyped'
      BY <1>3 DEF LogIn, FilesTyped, CountsTyped, LinesTyped, devHist
  <2>2. FlagsTyped'
      BY <1>3, Zenon DEF LogIn, FlagsTyped
  <2>3. PageTyped' /\ ImportTyped' /\ ArchivesTyped' /\ JobTyped'
      BY <1>3, Zenon DEF LogIn, pageVars, devHist, PageTyped, ImportTyped, ArchivesTyped, JobTyped
  <2> QED BY <2>1, <2>2, <2>3
<1>4. ASSUME Edit PROVE BackupTypes'
  <2>1. vault' \in Entries /\ skey' \in Keys \cup {NoKey}
    <3>1. CASE \E i \in Items, v \in Vals \cup {0} :
                  /\ v # 0 => skey # NoKey \/ i = Alg
                  /\ vault' = [vault EXCEPT ![i] = IF v = 0 THEN Gone
                                                    ELSE [val |-> v, key |-> IF i = Alg THEN 0 ELSE skey]]
                  /\ UNCHANGED skey
        BY <3>1, ItemsAre DEF FilesTyped, Entries, NoKey
    <3>2. CASE (\E i \in Names : DeleteTotpSecret(i)) /\ UNCHANGED skey
        BY <3>2, ItemsAre DEF FilesTyped, Entries, DeleteTotpSecret
    <3>3. CASE vault' = [i \in Items |-> IF i \in Logins THEN Gone ELSE vault[i]] /\ skey' = NoKey
        BY <3>3, ItemsAre DEF FilesTyped, Entries
    <3>4. CASE skey' \in Keys \ {skey} /\ UNCHANGED vault
        BY <3>4 DEF FilesTyped
    <3> QED BY <1>4, <3>1, <3>2, <3>3, <3>4 DEF Edit
  <2>2. FilesTyped' /\ CountsTyped' /\ LinesTyped'
      BY <1>4, <2>1, ItemsAre DEF Edit, FilesTyped, CountsTyped, LinesTyped
  <2>3. FlagsTyped' /\ PageTyped' /\ ImportTyped' /\ ArchivesTyped' /\ JobTyped'
      BY <1>4, Zenon DEF Edit, pageVars, FlagsTyped, PageTyped, ImportTyped, ArchivesTyped, JobTyped
  <2> QED BY <2>2, <2>3
<1>5. ASSUME ResetFiles PROVE BackupTypes'
  <2>1. FilesTyped' /\ CountsTyped' /\ LinesTyped'
      BY <1>5, ItemsAre DEF ResetFiles, FilesTyped, CountsTyped, LinesTyped
  <2>2. FlagsTyped'
      BY <1>5, Zenon DEF ResetFiles, FlagsTyped
  <2>3. PageTyped' /\ ImportTyped' /\ ArchivesTyped' /\ JobTyped'
      BY <1>5, Zenon DEF ResetFiles, pageVars, PageTyped, ImportTyped, ArchivesTyped, JobTyped
  <2> QED BY <2>1, <2>2, <2>3
<1>6. ASSUME ResetKey PROVE BackupTypes'
  <2>1. FilesTyped' /\ CountsTyped' /\ LinesTyped'
      BY <1>6, ItemsAre DEF ResetKey, FilesTyped, CountsTyped, LinesTyped
  <2>2. FlagsTyped'
      BY <1>6, Zenon DEF ResetKey, FlagsTyped
  <2>3. PageTyped' /\ ImportTyped' /\ ArchivesTyped' /\ JobTyped'
      BY <1>6, Zenon DEF ResetKey, pageVars, PageTyped, ImportTyped, ArchivesTyped, JobTyped
  <2> QED BY <2>1, <2>2, <2>3
<1>7. ASSUME PowerCut PROVE BackupTypes'
  <2>1. FilesTyped' /\ CountsTyped'
      BY <1>7, ItemsAre DEF PowerCut, FilesTyped, CountsTyped, Entries
  <2>2. LinesTyped' /\ JobTyped' /\ ArchivesTyped'
      BY <1>7, EmptySeq DEF PowerCut, LinesTyped, JobTyped, ArchivesTyped
  <2>3. FlagsTyped'
      BY <1>7, Zenon DEF PowerCut, FlagsTyped
  <2>4. ImportTyped'
    <3>1. FALSE \in BOOLEAN
        BY Zenon
    <3> QED BY <1>7, <3>1, EmptySeq, BackupAssumption DEF PowerCut, ImportTyped, NoImport, Hex
  <2>5. PageTyped'
      BY <1>7 DEF PowerCut, PageTyped, NoPage, NoBuf, NoResult, Pages, Results
  <2> QED BY <2>1, <2>2, <2>3, <2>4, <2>5
<1> QED BY <1>1, <1>2, <1>3, <1>4, <1>5, <1>6, <1>7

\* BACKUP_EXPORT.
LEMMA ExportTypes == ASSUME BackupTypes, ExportPasswords \/ ExportTotp PROVE BackupTypes'
<1> USE DEF BackupTypes
<1>1. Visible \in Contents
    BY BackupAssumption DEF Visible, Contents, FilesTyped, Entries
<1>2. ASSUME ExportPasswords PROVE BackupTypes'
  <2>1. Head(toDev) \in Requests /\ toDev' \in Seq(Requests) /\ Head(toDev).cmd = "export"
      BY <1>2, TakenTyped DEF ExportPasswords, Served, Command, Taken
  <2>2. toHost' \in Seq(Events)
      BY <1>2, ToldOne, EventsAre DEF ExportPasswords, LinesTyped
  <2>3. JobTyped'
    <3>1. CASE skey = NoKey
        BY <1>2, <3>1, Zenon DEF ExportPasswords, JobTyped, devHist
    <3>2. CASE skey # NoKey
      <4>1. job' = [at |-> "totp", phrase |-> Head(toDev).phrase, snap |-> Visible, mishaps |-> mishaps,
                    op |-> Head(toDev).op,
                    content |-> [i \in Items |-> IF i \in Logins THEN Visible[i] ELSE 0]]
          BY <1>2, <3>2, Zenon DEF ExportPasswords
      <4>2. Head(toDev).phrase \in Phrases /\ Head(toDev).op \in Nat
          BY <2>1 DEF Requests
      <4>3. [i \in Items |-> IF i \in Logins THEN Visible[i] ELSE 0] \in Contents
          BY <1>1 DEF Contents
      <4>4. job' \in [at : {"totp"}, phrase : Phrases, snap : Contents, mishaps : Nat, op : Nat, content : Contents]
          BY <1>1, <4>1, <4>2, <4>3 DEF CountsTyped
      <4> QED BY <4>4 DEF JobTyped
    <3> QED BY <3>1, <3>2
  <2>4. FilesTyped' /\ CountsTyped' /\ FlagsTyped' /\ PageTyped' /\ ImportTyped' /\ ArchivesTyped'
      BY <1>2, Zenon DEF ExportPasswords, pageVars, devHist, FilesTyped, CountsTyped, FlagsTyped, PageTyped, ImportTyped,
                  ArchivesTyped
  <2> QED BY <2>1, <2>2, <2>3, <2>4 DEF LinesTyped
<1>3. ASSUME ExportTotp PROVE BackupTypes'
  <2> DEFINE c == [i \in Items |-> IF i \in Logins THEN job.content[i] ELSE Visible[i]]
             a == Len(archives) + 1
             made == [content |-> c, phrase |-> job.phrase, snap |-> job.snap, torn |-> mishaps # job.mishaps]
             blob == [n \in 1..BlobLen(c) |-> <<a, n>>]
  <2>1. job \in [at : {"totp"}, phrase : Phrases, snap : Contents, mishaps : Nat, op : Nat, content : Contents]
      BY <1>3 DEF ExportTotp, JobTyped, NoJob
  <2>2. made \in Made
    <3>1. (mishaps # job.mishaps) \in BOOLEAN
        BY Zenon
    <3>2. c \in Contents
        BY <1>1, <2>1 DEF Contents
    <3> HIDE DEF c
    <3> QED BY <2>1, <3>1, <3>2 DEF Made
  <2>3. archives' = Append(archives, made)
      BY <1>3 DEF ExportTotp
  <2>4. ArchivesTyped' /\ a \in DOMAIN archives' /\ archives'[a] = made /\ a \in Nat /\ DOMAIN archives = 1..(a - 1)
        /\ DOMAIN archives' = 1..a
    <3> HIDE DEF made
    <3>1. archives \in Seq(Made)
        BY DEF ArchivesTyped
    <3> QED BY <2>2, <2>3, <3>1 DEF ArchivesTyped
  <2>5. blob \in Hex \ {<<>>} /\ Len(blob) \in Nat /\ DOMAIN blob \subseteq Nat
    <3>1. c \in Contents
        BY <1>1, <2>1 DEF Contents
    <3> HIDE DEF c
    <3>2. BlobLen(c) \in Nat \ {0} /\ blob \in Hex \ {<<>>} /\ Len(blob) = BlobLen(c)
        BY <2>4, <3>1, BlobOf
    <3> QED BY <3>2
  <2>6. toHost' \in Seq(Events)
    <3> DEFINE start == [ev |-> "EXPORT_START", len |-> Len(blob), sha |-> blob, op |-> job.op]
               chunks == [n \in DOMAIN blob |-> [ev |-> "EXPORT_CHUNK", seq |-> n, data |-> blob[n]]]
    <3>1. start \in Events
      <4> HIDE DEF blob
      <4> QED BY <2>1, <2>5 DEF Events
    <3>2. chunks \in Seq(Events)
      <4>1. \A n \in DOMAIN blob : [ev |-> "EXPORT_CHUNK", seq |-> n, data |-> blob[n]] \in Events
        <5> HIDE DEF blob
        <5> QED BY <2>5 DEF Events, Hex
      <4>2. DOMAIN blob = 1..Len(blob) /\ Len(blob) \in Nat
        <5> HIDE DEF blob
        <5> QED BY <2>5 DEF Hex
      <4> HIDE DEF blob
      <4> QED BY <4>1, <4>2
    <3>3. Tell(<<start>> \o chunks \o <<Event("EXPORT_DONE")>>)
        BY <1>3 DEF ExportTotp
    <3>4. <<start>> \in Seq(Events) /\ <<Event("EXPORT_DONE")>> \in Seq(Events)
      <4> HIDE DEF start
      <4> QED BY <3>1, EventsAre
    <3> HIDE DEF start, chunks
    <3>5. <<start>> \o chunks \o <<Event("EXPORT_DONE")>> \in Seq(Events)
        BY <3>2, <3>4, ConcatProperties
    <3> QED BY <3>3, <3>5, Told
  <2>7. JobTyped' /\ toDev' \in Seq(Requests)
      BY <1>3 DEF ExportTotp, JobTyped, LinesTyped
  <2>8. FilesTyped' /\ CountsTyped' /\ FlagsTyped' /\ PageTyped' /\ ImportTyped'
      BY <1>3, Zenon DEF ExportTotp, pageVars, FilesTyped, CountsTyped, FlagsTyped, PageTyped, ImportTyped
  <2> QED BY <2>4, <2>6, <2>7, <2>8 DEF LinesTyped
<1> QED BY <1>2, <1>3

\* BACKUP_IMPORT_BEGIN, _CHUNK, _ABORT and _COMMIT up to the restore.
LEMMA ImportTypes ==
  ASSUME BackupTypes, BackupImportBegin \/ BackupImportChunk \/ BackupImportAbort \/ BackupImportCommit
  PROVE  BackupTypes'
<1> USE DEF BackupTypes
<1>0. NoImport \in [on : BOOLEAN, acc : Hex, len : Nat, sha : Hex] /\ NoImport.len = 0 /\ Len(NoImport.acc) = 0
  <2>1. FALSE \in BOOLEAN /\ TRUE \in BOOLEAN
      BY Zenon
  <2> QED BY <2>1, EmptySeq DEF NoImport, Hex
<1>1. ASSUME BackupImportBegin PROVE BackupTypes'
  <2>1. Head(toDev) \in Requests /\ toDev' \in Seq(Requests) /\ Head(toDev).cmd = "begin"
      BY <1>1, TakenTyped DEF BackupImportBegin, Served, Command, Taken
  <2>2. Head(toDev).len \in Nat /\ Head(toDev).sha \in Hex /\ Head(toDev).op \in Nat
      BY <2>1 DEF Requests
  <2>3. toHost' \in Seq(Events)
      BY <1>1, <2>2, ToldOne, EventsAre DEF BackupImportBegin
  <2>4. ImportTyped'
    <3>1. TRUE \in BOOLEAN
        BY Zenon
    <3>2. CASE imp' = NoImport
        BY <1>0, <3>2, BackupAssumption DEF ImportTyped
    <3>3. CASE /\ Head(toDev).len <= MaxImport
               /\ imp' = [on |-> TRUE, acc |-> <<>>, len |-> Head(toDev).len, sha |-> Head(toDev).sha]
      <4>1. <<>> \in Hex /\ Len(<<>>) = 0
          BY EmptySeq DEF Hex
      <4> QED BY <2>2, <3>1, <3>3, <4>1 DEF ImportTyped
    <3>4. MaxImport \in Nat
        BY BackupAssumption
    <3> QED BY <1>1, <2>2, <3>2, <3>3, <3>4 DEF BackupImportBegin
  <2>5. FilesTyped' /\ CountsTyped' /\ FlagsTyped' /\ PageTyped' /\ ArchivesTyped' /\ JobTyped'
      BY <1>1, Zenon DEF BackupImportBegin, pageVars, devHist, FilesTyped, CountsTyped, FlagsTyped, PageTyped,
                  ArchivesTyped, JobTyped
  <2> QED BY <2>1, <2>3, <2>4, <2>5 DEF LinesTyped
<1>2. ASSUME BackupImportChunk PROVE BackupTypes'
  <2>1. Head(toDev) \in Requests /\ toDev' \in Seq(Requests) /\ Head(toDev).cmd = "chunk"
      BY <1>2, TakenTyped DEF BackupImportChunk, Served, Command, Taken
  <2>2. Head(toDev).data \in Hex
      BY <2>1 DEF Requests
  <2>3. toHost' \in Seq(Events)
      BY <1>2, ToldOne, EventsAre DEF BackupImportChunk, LinesTyped
  <2>4. ImportTyped'
    <3>1. CASE UNCHANGED imp
        BY <3>1 DEF ImportTyped
    <3>2. CASE imp' = NoImport
        BY <1>0, <3>2, BackupAssumption DEF ImportTyped
    <3>3. CASE Len(imp.acc) + Len(Head(toDev).data) <= imp.len /\ imp' = [imp EXCEPT !.acc = @ \o Head(toDev).data]
      <4>1. imp.acc \o Head(toDev).data \in Hex
            /\ Len(imp.acc \o Head(toDev).data) = Len(imp.acc) + Len(Head(toDev).data)
          BY <2>2, ConcatProperties DEF ImportTyped, Hex
      <4> QED BY <3>3, <4>1 DEF ImportTyped
    <3>4. Len(imp.acc) \in Nat /\ Len(Head(toDev).data) \in Nat /\ imp.len \in Nat
        BY <2>2 DEF ImportTyped, Hex
    <3>5. CASE ~imp.on
        BY <1>2, <3>1, <3>5, Zenon DEF BackupImportChunk
    <3>6. CASE imp.on /\ Len(imp.acc) + Len(Head(toDev).data) > imp.len
        BY <1>2, <3>2, <3>6, Zenon DEF BackupImportChunk
    <3>7. CASE imp.on /\ ~(Len(imp.acc) + Len(Head(toDev).data) > imp.len)
      <4>1. imp' = [imp EXCEPT !.acc = @ \o Head(toDev).data]
          BY <1>2, <3>7, Zenon DEF BackupImportChunk
      <4>2. \A x, y, z \in Nat : ~(x + y > z) => x + y <= z
          OBVIOUS
      <4>3. Len(imp.acc) + Len(Head(toDev).data) <= imp.len
          BY <3>4, <3>7, <4>2, Zenon
      <4> QED BY <3>3, <4>1, <4>3, Zenon
    <3> QED BY <3>5, <3>6, <3>7
  <2>5. FilesTyped' /\ CountsTyped' /\ FlagsTyped' /\ PageTyped' /\ ArchivesTyped' /\ JobTyped'
      BY <1>2, Zenon DEF BackupImportChunk, pageVars, devHist, FilesTyped, CountsTyped, FlagsTyped, PageTyped,
                  ArchivesTyped, JobTyped
  <2> QED BY <2>1, <2>3, <2>4, <2>5 DEF LinesTyped
<1>3. ASSUME BackupImportAbort PROVE BackupTypes'
  <2>1. toDev' \in Seq(Requests)
      BY <1>3, TakenTyped DEF BackupImportAbort, Served, Command, Taken
  <2>2. toHost' \in Seq(Events)
      BY <1>3, ToldOne, EventsAre DEF BackupImportAbort
  <2>3. ImportTyped'
      BY <1>0, <1>3, BackupAssumption DEF BackupImportAbort, ImportTyped
  <2>4. FilesTyped' /\ CountsTyped' /\ FlagsTyped' /\ PageTyped' /\ ArchivesTyped' /\ JobTyped'
      BY <1>3, Zenon DEF BackupImportAbort, pageVars, devHist, FilesTyped, CountsTyped, FlagsTyped, PageTyped,
                  ArchivesTyped, JobTyped
  <2> QED BY <2>1, <2>2, <2>3, <2>4 DEF LinesTyped
<1>4. ASSUME BackupImportCommit PROVE BackupTypes'
  <2>1. Head(toDev) \in Requests /\ toDev' \in Seq(Requests) /\ Head(toDev).cmd = "commit"
      BY <1>4, TakenTyped DEF BackupImportCommit, Served, Command, Taken
  <2>2. Head(toDev).phrase \in Phrases /\ Head(toDev).over \in BOOLEAN /\ Head(toDev).op \in Nat
      BY <2>1 DEF Requests
  <2>3. \/ /\ Tell(<<Error>>) /\ imp' \in {imp, NoImport} /\ UNCHANGED <<job, before, mishaps, done>>
        \/ /\ \E a \in DOMAIN archives :
                job' = [at |-> "next", arch |-> a, todo |-> {i \in Items : archives[a].content[i] # 0},
                        over |-> Head(toDev).over, op |-> Head(toDev).op, item |-> Alg, key |-> skey]
           /\ skey # NoKey /\ imp' = NoImport /\ before' = vault /\ mishaps' = 0 /\ UNCHANGED toHost
      BY <1>4 DEF BackupImportCommit, DecryptsTo
  <2>4. toHost' \in Seq(Events)
      BY <2>3, ToldOne, EventsAre DEF LinesTyped
  <2>5. ImportTyped'
      BY <1>0, <2>3, BackupAssumption DEF ImportTyped
  <2>6. FilesTyped' /\ CountsTyped'
      BY <1>4, <2>3 DEF BackupImportCommit, FilesTyped, CountsTyped
  <2>7. FlagsTyped' /\ PageTyped' /\ ArchivesTyped' /\ archives' = archives
      BY <1>4, Zenon DEF BackupImportCommit, pageVars, FlagsTyped, PageTyped, ArchivesTyped
  <2>8. JobTyped'
    <3>1. CASE UNCHANGED job
        BY <2>7, <3>1 DEF JobTyped
    <3>2. ASSUME NEW a \in DOMAIN archives, skey # NoKey,
                 job' = [at |-> "next", arch |-> a, todo |-> {i \in Items : archives[a].content[i] # 0},
                         over |-> Head(toDev).over, op |-> Head(toDev).op, item |-> Alg, key |-> skey]
          PROVE  JobTyped'
      <4>1. {i \in Items : archives[a].content[i] # 0} \in SUBSET Items
          OBVIOUS
      <4>2. skey \in Keys /\ a \in DOMAIN archives' /\ Alg \in Items
          BY <2>7, <3>2, ItemsAre DEF FilesTyped
      <4>3. job' \in [at : {"next", "save"}, arch : DOMAIN archives', todo : SUBSET Items, over : BOOLEAN, op : Nat,
                      item : Items, key : Keys]
          BY <2>2, <3>2, <4>1, <4>2
      <4> QED BY <4>3 DEF JobTyped
    <3> QED BY <2>3, <3>1, <3>2
  <2> QED BY <2>1, <2>4, <2>5, <2>6, <2>7, <2>8 DEF LinesTyped
<1> QED BY <1>1, <1>2, <1>3, <1>4

\* importVaultPlaintext, item after item.
LEMMA RestoreTypes ==
  ASSUME BackupTypes, ImportPassword \/ SavePassword \/ ImportTotp \/ ImportAlg \/ ImportDone
  PROVE  BackupTypes'
<1> USE DEF BackupTypes
<1> DEFINE Jobs == [at : {"next", "save"}, arch : DOMAIN archives, todo : SUBSET Items, over : BOOLEAN, op : Nat,
                    item : Items, key : Keys]
<1>0. job \in Jobs /\ job.arch \in DOMAIN archives /\ job.todo \subseteq Items /\ job.op \in Nat
  <2>1. job.at \in {"next", "save"}
      BY DEF ImportPassword, SavePassword, ImportTotp, ImportAlg, ImportDone
  <2> QED BY <2>1 DEF JobTyped, NoJob
<1>1. \A i \in Items : Imported(i).val \in Vals \cup {0} /\ Imported(i).key = skey
  <2>1. archives[job.arch] \in Made
      BY <1>0 DEF ArchivesTyped
  <2>2. archives[job.arch].content \in Contents
      BY <2>1 DEF Made
  <2> QED BY <2>2 DEF Imported, Contents
<1>2. \A i \in Items : Finished(i) => job' \in Jobs
  <2> SUFFICES ASSUME NEW i \in Items, Finished(i) PROVE job' \in Jobs
      OBVIOUS
  <2>1. job.todo \ {i} \in SUBSET Items /\ Alg \in Items
      BY <1>0, ItemsAre
  <2>2. job' = [job EXCEPT !.at = "next", !.todo = job.todo \ {i}, !.item = Alg]
      BY Zenon DEF Finished
  <2> QED BY <1>0, <2>1, <2>2
<1>3. \A i \in job.todo : [vault EXCEPT ![i] = Gone] \in Entries /\ [vault EXCEPT ![i] = Imported(i)] \in Entries
                           /\ [vault EXCEPT ![i] = [val |-> Imported(i).val, key |-> 0]] \in Entries
  <2> SUFFICES ASSUME NEW i \in job.todo
               PROVE  /\ [vault EXCEPT ![i] = Gone] \in Entries /\ [vault EXCEPT ![i] = Imported(i)] \in Entries
                      /\ [vault EXCEPT ![i] = [val |-> Imported(i).val, key |-> 0]] \in Entries
      OBVIOUS
  <2>1. Imported(i) \in [val : Vals \cup {0}, key : Keys \cup {0}]
      BY <1>0, <1>1 DEF Imported, FilesTyped, NoKey
  <2> QED BY <1>0, <1>1, <2>1, ItemsAre DEF FilesTyped, Entries
<1>4. JobTyped' <=> job' = NoJob \/ job' \in [at : {"totp"}, phrase : Phrases, snap : Contents, mishaps : Nat, op : Nat, content : Contents]
         \/ job' \in Jobs
  <2>1. archives' = archives
      BY DEF ImportPassword, SavePassword, ImportTotp, ImportAlg, ImportDone
  <2> QED BY <2>1, Zenon DEF JobTyped
<1> HIDE DEF Jobs
<1>5. CASE ImportPassword
  <2>1. PICK l \in NextOf(1) :
          IF vault[l].val # 0 /\ ~job.over
          THEN Finished(l) /\ UNCHANGED <<vault, faults, mishaps>>
          ELSE /\ job' = [job EXCEPT !.at = "save", !.item = l]
               /\ IF vault[l].val # 0 THEN DeletePassword(l) ELSE UNCHANGED <<vault, faults, mishaps>>
      BY <1>5 DEF ImportPassword
  <2>2. l \in job.todo /\ l \in Items
      BY <1>0, NextIs
  <2>3. job' \in Jobs
    <3>1. [job EXCEPT !.at = "save", !.item = l] \in Jobs
        BY <1>0, <2>2 DEF Jobs
    <3> QED BY <1>2, <2>1, <2>2, <3>1
  <2>4. vault' \in Entries /\ faults' \in Nat /\ mishaps' \in Nat
      BY <1>3, <2>1, <2>2, Written DEF DeletePassword, FilesTyped, CountsTyped
  <2>5. FilesTyped' /\ CountsTyped' /\ JobTyped'
      BY <1>4, <1>5, <2>3, <2>4 DEF ImportPassword, FilesTyped, CountsTyped
  <2>6. FlagsTyped' /\ PageTyped' /\ ImportTyped' /\ LinesTyped' /\ ArchivesTyped'
      BY <1>5, Zenon DEF ImportPassword, pageVars, FlagsTyped, PageTyped, ImportTyped, LinesTyped, ArchivesTyped
  <2> QED BY <2>5, <2>6
<1>6. CASE SavePassword
  <2>1. job' \in Jobs
      BY <1>0, <1>2, <1>6, ItemsAre DEF SavePassword, Jobs
  <2>2. vault' \in Entries /\ faults' \in Nat /\ mishaps' \in Nat
    <3>1. job.item \in Items
        BY <1>0 DEF Jobs
    <3>2. Imported(job.item) \in [val : Vals \cup {0}, key : Keys \cup {0}]
        BY <1>1, <3>1 DEF Imported, FilesTyped, NoKey
    <3>3. [vault EXCEPT ![job.item] = Imported(job.item)] \in Entries
        BY <3>1, <3>2 DEF FilesTyped, Entries
    <3> QED BY <1>6, <3>3, Written DEF SavePassword, FilesTyped, CountsTyped
  <2>3. FilesTyped' /\ CountsTyped' /\ JobTyped'
      BY <1>4, <1>6, <2>1, <2>2 DEF SavePassword, FilesTyped, CountsTyped
  <2>4. FlagsTyped' /\ PageTyped' /\ ImportTyped' /\ LinesTyped' /\ ArchivesTyped'
      BY <1>6, Zenon DEF SavePassword, pageVars, FlagsTyped, PageTyped, ImportTyped, LinesTyped, ArchivesTyped
  <2> QED BY <2>3, <2>4
<1>7. CASE ImportTotp
  <2>1. PICK i \in NextOf(2) :
          /\ IF skey # NoKey /\ (job.over \/ ~Opens(i))
             THEN Write([vault EXCEPT ![i] = Imported(i)])
             ELSE UNCHANGED <<vault, faults, mishaps>>
          /\ Finished(i)
      BY <1>7 DEF ImportTotp
  <2>2. i \in job.todo /\ i \in Items
      BY <1>0, NextIs
  <2>3. vault' \in Entries /\ faults' \in Nat /\ mishaps' \in Nat
      BY <1>3, <2>1, <2>2, Written DEF FilesTyped, CountsTyped
  <2>4. FilesTyped' /\ CountsTyped' /\ JobTyped'
      BY <1>2, <1>4, <1>7, <2>1, <2>2, <2>3 DEF ImportTotp, FilesTyped, CountsTyped
  <2>5. FlagsTyped' /\ PageTyped' /\ ImportTyped' /\ LinesTyped' /\ ArchivesTyped'
      BY <1>7, Zenon DEF ImportTotp, pageVars, FlagsTyped, PageTyped, ImportTyped, LinesTyped, ArchivesTyped
  <2> QED BY <2>4, <2>5
<1>8. CASE ImportAlg
  <2>1. PICK i \in NextOf(3) : Write([vault EXCEPT ![i] = [val |-> Imported(i).val, key |-> 0]]) /\ Finished(i)
      BY <1>8 DEF ImportAlg
  <2>2. i \in job.todo /\ i \in Items
      BY <1>0, NextIs
  <2>3. vault' \in Entries /\ faults' \in Nat /\ mishaps' \in Nat
      BY <1>3, <2>1, <2>2, Written DEF FilesTyped, CountsTyped
  <2>4. FilesTyped' /\ CountsTyped' /\ JobTyped'
      BY <1>2, <1>4, <1>8, <2>1, <2>2, <2>3 DEF ImportAlg, FilesTyped, CountsTyped
  <2>5. FlagsTyped' /\ PageTyped' /\ ImportTyped' /\ LinesTyped' /\ ArchivesTyped'
      BY <1>8, Zenon DEF ImportAlg, pageVars, FlagsTyped, PageTyped, ImportTyped, LinesTyped, ArchivesTyped
  <2> QED BY <2>4, <2>5
<1>9. CASE ImportDone
  <2>1. LinesTyped'
      BY <1>0, <1>9, ToldOne, EventsAre DEF ImportDone, LinesTyped
  <2>2. FilesTyped' /\ CountsTyped' /\ JobTyped'
      BY <1>4, <1>9 DEF ImportDone, FilesTyped, CountsTyped
  <2>3. FlagsTyped' /\ PageTyped' /\ ImportTyped' /\ ArchivesTyped'
      BY <1>9, Zenon DEF ImportDone, pageVars, FlagsTyped, PageTyped, ImportTyped, ArchivesTyped
  <2> QED BY <2>1, <2>2, <2>3
<1> QED BY <1>5, <1>6, <1>7, <1>8, <1>9

\* Every step of the page, the line and the device keeps the types.
LEMMA BackupTypesKept == BackupTypes /\ [BackupNext]_backupVars => BackupTypes'
<1> SUFFICES ASSUME BackupTypes, [BackupNext]_backupVars PROVE BackupTypes'
    OBVIOUS
<1>1. CASE UNCHANGED backupVars
    BY <1>1, Zenon DEF backupVars, devVars, pageVars, histVars, BackupTypes, FilesTyped, CountsTyped, LinesTyped,
                ImportTyped, PageTyped, FlagsTyped, ArchivesTyped, JobTyped
<1> QED BY <1>1, HostTypes, SessionTypes, ExportTypes, ImportTypes, RestoreTypes DEF BackupNext, BackupDevice

\* importVaultPlaintext is at an item of the archive, and its key is there unless a Reset came.
AtRestore == job.at \in {"next", "save"}
LostLogins == {l \in Logins : before[l].val # 0 /\ vault[l].val = 0}
TodoHolds ==
  AtRestore =>
    /\ \A i \in job.todo : archives[job.arch].content[i] # 0
    /\ job.at = "save" => job.item \in Logins \cap job.todo
    /\ skey = NoKey => \A l \in Logins : before[l].val = 0
    /\ ~done.on

\* What is lost is paid for by a mishap, but for the password that is being replaced.
LossesPaid ==
  IF job.at = "save" THEN Cardinality(LostLogins \ {job.item}) <= mishaps ELSE Cardinality(LostLogins) <= mishaps

\* While nothing has gone wrong the items that were dealt with are as the archive says, the one
\* that is being replaced is gone, and the others are as they were.
Restored(i, a, over, key) ==
  LET new == archives[a].content[i]
      readable == before[i].val # 0 /\ (i \in Logins \/ before[i].key = key)
  IN  vault[i] = IF new = 0 THEN before[i] ELSE
                   IF i # Alg /\ ~over /\ readable THEN before[i]
                   ELSE [val |-> new, key |-> IF i = Alg THEN 0 ELSE key]
Restoring ==
  AtRestore /\ mishaps = 0 =>
    /\ skey = job.key
    /\ \A i \in Items \ job.todo : Restored(i, job.arch, job.over, job.key)
    /\ \A i \in job.todo : (job.at = "save" => i # job.item) => vault[i] = before[i]
    /\ job.at = "save" => vault[job.item].val = 0 /\ (job.over \/ before[job.item].val = 0)
DoneHolds ==
  done.on => /\ done.arch \in DOMAIN archives
             /\ mishaps = 0 => \A i \in Items : Restored(i, done.arch, done.over, done.key)

\* An archive that was not torn has what the vault had when the export began.
Untorn == \A a \in DOMAIN archives : ~archives[a].torn => archives[a].content = archives[a].snap
Exporting ==
  job.at = "totp" =>
    /\ job.mishaps <= mishaps
    /\ \A i \in Logins : job.content[i] = job.snap[i]
    /\ job.mishaps = mishaps => \A i \in Items \ Logins : job.snap[i] = Visible[i]

RestoreInv == TodoHolds /\ LossesPaid /\ Restoring /\ DoneHolds /\ Untorn /\ Exporting

\* Of fewer logins there are not more.
LEMMA FewerLost ==
  ASSUME NEW A \in SUBSET Logins, NEW C \in SUBSET A
  PROVE  Cardinality(C) \in Nat /\ Cardinality(A) \in Nat /\ Cardinality(C) <= Cardinality(A)
<1>1. IsFiniteSet(A)
    BY BackupAssumption, FS_Subset
<1>2. IsFiniteSet(C)
    BY <1>1, FS_Subset
<1> QED BY <1>1, <1>2, FS_Subset, FS_CardinalityType

\* Nothing is lost when there was nothing, or all that there was is there.
LEMMA NothingLost ==
  ASSUME BackupTypes, (\A l \in Logins : before[l].val = 0) \/ before = vault, job.at # "save"
  PROVE  LossesPaid
<1>1. LostLogins = {}
    BY DEF LostLogins
<1> QED BY <1>1, FS_EmptySet DEF LossesPaid, BackupTypes, CountsTyped

\* Nothing has been restored yet, and the archive of an earlier session is whole.
LEMMA RestoreInitially == BackupInit => RestoreInv
<1> SUFFICES ASSUME BackupInit PROVE RestoreInv
    OBVIOUS
<1>1. BackupTypes
    BY TypesInitially
<1>2. job.at = "idle" /\ ~done.on /\ before = Empty
    BY DEF BackupInit, NoJob, NoDone
<1>3. LossesPaid
    BY <1>1, <1>2, ItemsAre, NothingLost
<1>4. Untorn
  <2>1. PICK start \in {<<Empty, Some>>, <<Full, Logins>>} :
          LET c == [i \in Items |-> IF i \in start[2] \cup {Alg} THEN 2 ELSE 0]
          IN  archives = <<[content |-> c, phrase |-> CHOOSE p \in Phrases : TRUE, snap |-> c, torn |-> FALSE]>>
      BY Zenon DEF BackupInit
  <2> DEFINE c == [i \in Items |-> IF i \in start[2] \cup {Alg} THEN 2 ELSE 0]
             p == CHOOSE p \in Phrases : TRUE
  <2>2. archives = <<[content |-> c, phrase |-> p, snap |-> c, torn |-> FALSE]>>
      BY <2>1
  <2> HIDE DEF c, p
  <2> QED BY <2>2 DEF Untorn
<1>5. TodoHolds /\ Restoring /\ DoneHolds /\ Exporting
    BY <1>2 DEF TodoHolds, Restoring, DoneHolds, Exporting, AtRestore
<1> QED BY <1>3, <1>4, <1>5 DEF RestoreInv

\* A step that is not about the vault while a restore or an export is under way; a new operation of
\* the page may forget what was before.
Aside ==
  /\ UNCHANGED <<vault, job, archives>>
  /\ skey' = skey \/ job = NoJob
  /\ \/ UNCHANGED <<before, mishaps, done>>
     \/ job = NoJob /\ before' = Empty /\ mishaps' = 0 /\ done' = NoDone

\* All that the page and the line do is aside.
LEMMA HostAside == BackupHost => Aside
<1> SUFFICES ASSUME BackupHost PROVE Aside
    OBVIOUS
<1>1. UNCHANGED <<vault, skey, job, archives>>
    BY Zenon DEF BackupHost, RunBackupExport, RunBackupImport, WaitForBackupEvent, SendChunk, SendCommit, ReadLine, TimeOut,
                 SendThrows, ClosePage, LoseLine, devVars, histVars
<1>2. UNCHANGED <<before, mishaps, done>> \/ (job = NoJob /\ before' = Empty /\ mishaps' = 0 /\ done' = NoDone)
    BY Zenon DEF BackupHost, RunBackupExport, RunBackupImport, WaitForBackupEvent, SendChunk, SendCommit, ReadLine, TimeOut,
                 SendThrows, ClosePage, LoseLine, devVars, histVars, StartHistory
<1> QED BY <1>1, <1>2 DEF Aside

\* ... and what the device does before it touches the vault.
LEMMA DeviceAside ==
  EndSession \/ Refuse \/ LogIn \/ BackupImportBegin \/ BackupImportChunk \/ BackupImportAbort => Aside
<1> SUFFICES ASSUME EndSession \/ Refuse \/ LogIn \/ BackupImportBegin \/ BackupImportChunk \/ BackupImportAbort
             PROVE  Aside
    OBVIOUS
<1>1. UNCHANGED <<vault, job, archives, before, mishaps, done>>
    BY Zenon DEF EndSession, Refuse, LogIn, BackupImportBegin, BackupImportChunk, BackupImportAbort, devVars, devHist
<1>2. skey' = skey \/ job = NoJob
    BY Zenon DEF EndSession, Refuse, LogIn, BackupImportBegin, BackupImportChunk, BackupImportAbort, devVars, devHist, Command
<1> QED BY <1>1, <1>2, Zenon DEF Aside

\* Such a step leaves a restore where it was.
LEMMA AsideKeeps == ASSUME BackupTypes, BackupTypes', RestoreInv, Aside PROVE RestoreInv'
<1> USE DEF RestoreInv
<1>1. job.at \in {"idle", "totp", "next", "save"}
    BY DEF BackupTypes, JobTyped, NoJob
<1>2. CASE UNCHANGED <<skey, before, mishaps, done>>
  <2>1. TodoHolds' /\ LossesPaid' /\ Restoring' /\ DoneHolds' /\ Untorn' /\ Exporting'
      BY <1>2, Zenon DEF Aside, TodoHolds, LossesPaid, Restoring, DoneHolds, Untorn, Exporting, AtRestore, LostLogins,
                         Restored, Visible, Opens
  <2> QED BY <2>1
<1>3. CASE job = NoJob
  <2>1. job'.at = "idle"
      BY <1>3 DEF Aside, NoJob
  <2>2. TodoHolds' /\ Restoring' /\ Exporting' /\ Untorn'
      BY <2>1 DEF Aside, TodoHolds, Restoring, Exporting, AtRestore, Untorn
  <2>3. CASE UNCHANGED <<before, mishaps, done>>
    <3>1. LossesPaid' /\ DoneHolds'
        BY <2>3, Zenon DEF Aside, LossesPaid, DoneHolds, LostLogins, Restored
    <3> QED BY <2>2, <3>1
  <2>4. CASE before' = Empty /\ mishaps' = 0 /\ done' = NoDone
    <3>1. \A l \in Logins : before'[l].val = 0
        BY <2>4, ItemsAre
    <3>2. LostLogins' = {}
        BY <3>1 DEF LostLogins
    <3>3. LossesPaid'
        BY <2>1, <2>4, <3>2, FS_EmptySet DEF LossesPaid
    <3>4. DoneHolds'
        BY <2>4 DEF DoneHolds, NoDone
    <3> QED BY <2>2, <3>3, <3>4
  <2> QED BY <2>3, <2>4 DEF Aside
<1> QED BY <1>2, <1>3 DEF Aside

\* Resets, power cuts and the commands that change the vault: the history knows of them.
LEMMA UpsetKeeps ==
  ASSUME BackupTypes, BackupTypes', RestoreInv, Edit \/ ResetFiles \/ ResetKey \/ PowerCut
  PROVE  RestoreInv'
<1> USE DEF RestoreInv
<1>1. /\ archives' = archives /\ mishaps \in Nat /\ mishaps' \in Nat
      /\ \A l \in Logins : Empty[l].val = 0
    BY ItemsAre DEF Edit, ResetFiles, ResetKey, PowerCut, BackupTypes, CountsTyped
<1>2. Untorn'
    BY <1>1 DEF Untorn
<1>3. CASE Edit
  <2>1. job' = job /\ job = NoJob /\ before' = Empty /\ done' = NoDone /\ mishaps' = mishaps
      BY <1>3, Zenon DEF Edit
  <2>2. job'.at = "idle" /\ ~done'.on
      BY <2>1 DEF NoJob, NoDone
  <2>3. LossesPaid'
    <3>1. LostLogins' = {}
        BY <1>1, <2>1 DEF LostLogins
    <3> QED BY <1>1, <2>2, <3>1, FS_EmptySet DEF LossesPaid
  <2>4. TodoHolds' /\ Restoring' /\ DoneHolds' /\ Exporting'
      BY <2>2 DEF TodoHolds, Restoring, DoneHolds, Exporting, AtRestore
  <2> QED BY <1>2, <2>3, <2>4
<1>4. CASE ResetFiles \/ ResetKey
  <2>1. job' = job /\ before' = Empty /\ done' = NoDone /\ mishaps' = mishaps + 1
      BY <1>4, Zenon DEF ResetFiles, ResetKey
  <2>2. ~done'.on
      BY <2>1 DEF NoDone
  <2>3. LossesPaid'
    <3>1. LostLogins' = {} /\ LostLogins' \ {job'.item} = {}
        BY <1>1, <2>1 DEF LostLogins
    <3> QED BY <1>1, <3>1, FS_EmptySet DEF LossesPaid
  <2>4. TodoHolds'
      BY <1>1, <2>1, <2>2 DEF TodoHolds, AtRestore
  <2>5. Restoring' /\ DoneHolds'
      BY <1>1, <2>1, <2>2 DEF Restoring, DoneHolds
  <2>6. Exporting'
    <3>1. CASE job.at = "totp"
      <4>1. job.mishaps \in Nat
          BY <3>1 DEF BackupTypes, JobTyped, NoJob
      <4> QED BY <1>1, <2>1, <3>1, <4>1 DEF Exporting
    <3>2. CASE job.at # "totp"
        BY <2>1, <3>2 DEF Exporting
    <3> QED BY <3>1, <3>2
  <2> QED BY <1>2, <2>3, <2>4, <2>5, <2>6
<1>5. CASE PowerCut
  <2>1. job'.at = "idle" /\ mishaps' = mishaps + 1
      BY <1>5 DEF PowerCut, NoJob
  <2>2. \/ before' = before /\ done' = done /\ \A l \in Logins : vault'[l] = vault[l]
        \/ before' = Empty /\ done' = NoDone
    <3>1. PICK torn \in {{}, Writing} :
            /\ vault' = [i \in Items |-> IF i \in torn THEN Gone ELSE vault[i]]
            /\ before' = IF torn = {} THEN before ELSE Empty
            /\ done' = IF torn = {} THEN done ELSE NoDone
        BY <1>5 DEF PowerCut
    <3> QED BY <3>1, ItemsAre
  <2>3. TodoHolds' /\ Restoring' /\ Exporting'
      BY <2>1 DEF TodoHolds, Restoring, Exporting, AtRestore
  <2>4. DoneHolds'
      BY <1>1, <2>1, <2>2 DEF DoneHolds, NoDone
  <2>5. LossesPaid'
    <3>1. CASE before' = before /\ \A l \in Logins : vault'[l] = vault[l]
      <4>1. LostLogins' = LostLogins
          BY <3>1 DEF LostLogins
      <4>2. Cardinality(LostLogins) <= mishaps + 1
        <5>1. CASE job.at # "save"
          <6>1. LostLogins \in SUBSET Logins
              BY DEF LostLogins
          <6> QED BY <1>1, <5>1, <6>1, FewerLost DEF LossesPaid
        <5>2. CASE job.at = "save"
          <6>1. LostLogins \in SUBSET Logins /\ IsFiniteSet(LostLogins \ {job.item}) /\ LostLogins \ {job.item} \in SUBSET LostLogins
              BY BackupAssumption, FS_Subset DEF LostLogins
          <6>2. Cardinality(LostLogins) <= Cardinality(LostLogins \ {job.item}) + 1
            <7>1. IsFiniteSet(LostLogins)
                BY <6>1, BackupAssumption, FS_Subset
            <7>2. CASE job.item \in LostLogins
                BY <6>1, <7>1, <7>2, FS_RemoveElement, FewerLost
            <7>3. CASE job.item \notin LostLogins
              <8>1. LostLogins \ {job.item} = LostLogins
                  BY <7>3
              <8> QED BY <6>1, <8>1, FewerLost
            <7> QED BY <7>2, <7>3
          <6> QED BY <1>1, <5>2, <6>1, <6>2, FewerLost DEF LossesPaid
        <5> QED BY <5>1, <5>2
      <4> QED BY <2>1, <4>1, <4>2 DEF LossesPaid
    <3>2. CASE before' = Empty
      <4>1. LostLogins' = {}
          BY <1>1, <3>2 DEF LostLogins
      <4> QED BY <1>1, <2>1, <4>1, FS_EmptySet DEF LossesPaid
    <3> QED BY <2>2, <3>1, <3>2
  <2> QED BY <1>2, <2>3, <2>4, <2>5
<1> QED BY <1>3, <1>4, <1>5

\* An export adds an archive, and leaves the vault and what is known of it alone.
LEMMA ExportKeeps ==
  ASSUME BackupTypes, BackupTypes', RestoreInv, ExportPasswords \/ ExportTotp
  PROVE  RestoreInv'
<1> USE DEF RestoreInv
<1>1. UNCHANGED <<vault, skey, before, mishaps, done>> /\ job'.at \in {"idle", "totp"} /\ job.at \in {"idle", "totp"}
  <2>1. UNCHANGED <<vault, skey, before, mishaps, done>>
      BY Zenon DEF ExportPasswords, ExportTotp, devHist
  <2>2. job.at \in {"idle", "totp"}
      BY DEF ExportPasswords, ExportTotp, Served, Command, NoJob
  <2>3. job'.at \in {"idle", "totp"}
      BY <2>2 DEF ExportPasswords, ExportTotp, NoJob
  <2> QED BY <2>1, <2>2, <2>3
<1>2. TodoHolds' /\ Restoring'
    BY <1>1 DEF TodoHolds, Restoring, AtRestore
<1>3. LossesPaid'
  <2>1. LostLogins' = LostLogins
      BY <1>1, Zenon DEF LostLogins
  <2> QED BY <1>1, <2>1 DEF LossesPaid
<1>4. CASE ExportPasswords
  <2>1. archives' = archives /\ Untorn' /\ DoneHolds'
      BY <1>1, <1>4, Zenon DEF ExportPasswords, devHist, Untorn, DoneHolds, Restored
  <2>2. Exporting'
    <3>1. CASE skey = NoKey
      <4>1. job' = job /\ job = NoJob
          BY <1>4, <3>1, Zenon DEF ExportPasswords, Served, Command
      <4> QED BY <4>1 DEF Exporting, NoJob
    <3>2. CASE skey # NoKey
      <4>1. job' = [at |-> "totp", phrase |-> Head(toDev).phrase, snap |-> Visible, mishaps |-> mishaps,
                    op |-> Head(toDev).op,
                    content |-> [i \in Items |-> IF i \in Logins THEN Visible[i] ELSE 0]]
          BY <1>4, <3>2, Zenon DEF ExportPasswords
      <4>2. Visible' = Visible
          BY <1>1, Zenon DEF Visible, Opens
      <4>3. job'.mishaps = mishaps /\ job'.snap = Visible /\ \A i \in Logins : job'.content[i] = Visible[i]
          BY <4>1, ItemsAre
      <4>4. mishaps \in Nat
          BY DEF BackupTypes, CountsTyped
      <4> QED BY <1>1, <4>2, <4>3, <4>4 DEF Exporting
    <3> QED BY <3>1, <3>2
  <2> QED BY <1>2, <1>3, <2>1, <2>2
<1>5. CASE ExportTotp
  <2> DEFINE c == [i \in Items |-> IF i \in Logins THEN job.content[i] ELSE Visible[i]]
             made == [content |-> c, phrase |-> job.phrase, snap |-> job.snap, torn |-> mishaps # job.mishaps]
  <2>1. archives' = Append(archives, made) /\ archives \in Seq(Made) /\ job.at = "totp"
      BY <1>5 DEF ExportTotp, BackupTypes, ArchivesTyped
  <2>2. made.torn \/ made.content = made.snap
    <3>1. CASE mishaps # job.mishaps
        BY <3>1
    <3>2. CASE mishaps = job.mishaps
      <4>1. job.snap \in [Items -> Vals \cup {0}]
          BY <2>1 DEF BackupTypes, JobTyped, NoJob, Contents
      <4>2. \A i \in Items : c[i] = job.snap[i]
          BY <2>1, <3>2 DEF Exporting
      <4>3. c = job.snap
          BY <4>1, <4>2
      <4> QED BY <4>3
    <3> QED BY <3>1, <3>2
  <2>3. \A a \in DOMAIN archives' : (a \in DOMAIN archives /\ archives'[a] = archives[a]) \/ archives'[a] = made
    <3> HIDE DEF made
    <3> QED BY <2>1
  <2>4. \A a \in DOMAIN archives : a \in DOMAIN archives' /\ archives'[a] = archives[a]
    <3> HIDE DEF made
    <3> QED BY <2>1
  <2>5. Untorn'
    <3> HIDE DEF made
    <3> QED BY <2>2, <2>3, Zenon DEF Untorn
  <2>6. DoneHolds'
      BY <1>1, <2>4, Zenon DEF DoneHolds, Restored
  <2>7. Exporting'
      BY <1>5 DEF ExportTotp, Exporting, NoJob
  <2> QED BY <1>2, <1>3, <2>5, <2>6, <2>7
<1> QED BY <1>4, <1>5

\* A restore begins with the vault as it is and every item of the archive to do.
LEMMA CommitKeeps ==
  ASSUME BackupTypes, BackupTypes', RestoreInv, BackupImportCommit
  PROVE  RestoreInv'
<1> USE DEF RestoreInv
<1>1. UNCHANGED <<vault, skey, archives>>
    BY Zenon DEF BackupImportCommit
<1>2. CASE UNCHANGED <<job, before, mishaps, done>>
    BY <1>1, <1>2, AsideKeeps DEF Aside
<1>3. CASE /\ \E a \in DecryptsTo(imp.acc, Head(toDev).phrase) :
                job' = [at |-> "next", arch |-> a, todo |-> {i \in Items : archives[a].content[i] # 0},
                        over |-> Head(toDev).over, op |-> Head(toDev).op, item |-> Alg, key |-> skey]
           /\ before' = vault /\ mishaps' = 0 /\ done' = NoDone /\ skey # NoKey
  <2>1. PICK a \in DOMAIN archives :
          job' = [at |-> "next", arch |-> a, todo |-> {i \in Items : archives[a].content[i] # 0},
                  over |-> Head(toDev).over, op |-> Head(toDev).op, item |-> Alg, key |-> skey]
      BY <1>3 DEF DecryptsTo
  <2>2. /\ job'.at = "next" /\ job'.arch = a /\ job'.todo = {i \in Items : archives[a].content[i] # 0}
        /\ job'.over = Head(toDev).over /\ job'.key = skey
      BY <2>1
  <2>3. ~done'.on
      BY <1>3 DEF NoDone
  <2>4. TodoHolds'
      BY <1>1, <1>3, <2>2, <2>3 DEF TodoHolds, AtRestore
  <2>5. LossesPaid'
    <3>1. LostLogins' = {}
        BY <1>1, <1>3 DEF LostLogins
    <3> QED BY <1>3, <2>2, <3>1, FS_EmptySet DEF LossesPaid
  <2>6. Restoring'
      BY <1>1, <1>3, <2>2 DEF Restoring, Restored, AtRestore
  <2>7. DoneHolds' /\ Exporting' /\ Untorn'
      BY <1>1, <2>2, <2>3 DEF DoneHolds, Exporting, Untorn
  <2> QED BY <2>4, <2>5, <2>6, <2>7
<1> QED BY <1>2, <1>3, Zenon DEF BackupImportCommit

\* The job of a restore, and what its steps make of it.
LEMMA RestoreJob ==
  ASSUME BackupTypes, ImportPassword \/ SavePassword \/ ImportTotp \/ ImportAlg \/ ImportDone
  PROVE  /\ job.at \in {"next", "save"} /\ job.todo \subseteq Items /\ job.item \in Items /\ job.key \in Keys
         /\ job.arch \in DOMAIN archives
         /\ \A i \in Items :
              [job EXCEPT !.at = "save", !.item = i] = job' =>
                job'.at = "save" /\ job'.item = i /\ job'.todo = job.todo
                /\ job'.arch = job.arch /\ job'.over = job.over /\ job'.key = job.key /\ job'.op = job.op
         /\ \A i \in Items : Finished(i) =>
                job'.at = "next" /\ job'.todo = job.todo \ {i}
                /\ job'.arch = job.arch /\ job'.over = job.over /\ job'.key = job.key /\ job'.op = job.op
<1>1. job.at \in {"next", "save"}
    BY DEF ImportPassword, SavePassword, ImportTotp, ImportAlg, ImportDone
<1>2. job \in [at : {"next", "save"}, arch : DOMAIN archives, todo : SUBSET Items, over : BOOLEAN, op : Nat,
               item : Items, key : Keys]
    BY <1>1 DEF BackupTypes, JobTyped, NoJob
<1> QED BY <1>1, <1>2 DEF Finished

\* Removing one login more or less from what is lost.
LEMMA OneLost ==
  ASSUME NEW A \in SUBSET Logins, NEW l
  PROVE  Cardinality(A) <= Cardinality(A \ {l}) + 1 /\ Cardinality(A) \in Nat /\ Cardinality(A \ {l}) \in Nat
<1>1. IsFiniteSet(A)
    BY BackupAssumption, FS_Subset
<1>2. A \ {l} \in SUBSET A /\ A \in SUBSET A
    OBVIOUS
<1>3. CASE l \in A
  <2>1. Cardinality(A \ {l}) = Cardinality(A) - 1
      BY <1>1, <1>3, FS_RemoveElement
  <2>2. Cardinality(A \ {l}) \in Nat /\ Cardinality(A) \in Nat
      BY <1>2, FewerLost
  <2> QED BY <2>1, <2>2
<1>4. CASE l \notin A
  <2>1. A \ {l} = A
      BY <1>4
  <2> QED BY <1>2, <2>1, FewerLost
<1> QED BY <1>3, <1>4

\* isPasswordExists and deletePassword: from here to savePassword the item is neither old nor new.
LEMMA PasswordKeeps ==
  ASSUME BackupTypes, BackupTypes', RestoreInv, ImportPassword
  PROVE  RestoreInv'
<1> USE DEF RestoreInv
<1>1. /\ job.at = "next" /\ job.todo \subseteq Items /\ UNCHANGED <<skey, before, done, archives>>
      /\ mishaps \in Nat /\ vault \in Entries /\ AtRestore
    BY RestoreJob DEF ImportPassword, BackupTypes, CountsTyped, FilesTyped, AtRestore
<1>2. PICK l \in NextOf(1) :
        IF vault[l].val # 0 /\ ~job.over
        THEN Finished(l) /\ UNCHANGED <<vault, faults, mishaps>>
        ELSE /\ job' = [job EXCEPT !.at = "save", !.item = l]
             /\ IF vault[l].val # 0 THEN DeletePassword(l) ELSE UNCHANGED <<vault, faults, mishaps>>
    BY DEF ImportPassword
<1>3. l \in job.todo /\ l \in Logins /\ l \in Items /\ l # Alg
    BY <1>1, NextIs, ItemsAre DEF Order
<1>4. CASE vault[l].val # 0 /\ ~job.over
  <2>1. Finished(l) /\ UNCHANGED <<vault, mishaps>>
      BY <1>2, <1>4
  <2>2. /\ job'.at = "next" /\ job'.todo = job.todo \ {l}
        /\ job'.arch = job.arch /\ job'.over = job.over /\ job'.key = job.key
      BY <1>3, <2>1, RestoreJob
  <2>3. TodoHolds'
      BY <1>1, <2>2 DEF TodoHolds, AtRestore
  <2>4. LossesPaid'
    <3>1. LostLogins' = LostLogins
        BY <1>1, <2>1 DEF LostLogins
    <3> QED BY <1>1, <2>1, <2>2, <3>1 DEF LossesPaid
  <2>5. Restoring'
    <3> SUFFICES ASSUME mishaps' = 0 PROVE Restoring'
        BY DEF Restoring
    <3>1. /\ skey = job.key /\ \A i \in Items \ job.todo : Restored(i, job.arch, job.over, job.key)
          /\ \A i \in job.todo : vault[i] = before[i]
        BY <1>1, <2>1 DEF Restoring
    <3>2. Restored(l, job.arch, job.over, job.key)
        BY <1>1, <1>3, <1>4, <3>1 DEF Restored, TodoHolds
    <3>3. \A i \in Items \ job'.todo : Restored(i, job.arch, job.over, job.key)
        BY <2>2, <3>1, <3>2
    <3> QED BY <1>1, <2>1, <2>2, <3>1, <3>3 DEF Restoring, Restored
  <2>6. DoneHolds' /\ Untorn' /\ Exporting'
      BY <1>1, <2>2 DEF DoneHolds, Untorn, Exporting, TodoHolds
  <2> QED BY <2>3, <2>4, <2>5, <2>6
<1>5. CASE ~(vault[l].val # 0 /\ ~job.over)
  <2>1. job' = [job EXCEPT !.at = "save", !.item = l]
      BY <1>2, <1>5
  <2>2. /\ job'.at = "save" /\ job'.item = l /\ job'.todo = job.todo
        /\ job'.arch = job.arch /\ job'.over = job.over /\ job'.key = job.key
      BY <1>3, <2>1, RestoreJob, Zenon
  <2>3. /\ \A i \in Items : i # l => vault'[i] = vault[i]
        /\ mishaps' \in {mishaps, mishaps + 1}
        /\ mishaps' = mishaps => vault'[l].val = 0 /\ (job.over \/ vault[l].val = 0)
    <3>1. CASE vault[l].val # 0
      <4>1. Write([vault EXCEPT ![l] = Gone])
          BY <1>2, <1>5, <3>1 DEF DeletePassword
      <4> QED BY <1>1, <1>3, <1>5, <3>1, <4>1 DEF Write, Entries, Gone
    <3>2. CASE vault[l].val = 0
        BY <1>2, <1>5, <3>2
    <3> QED BY <3>1, <3>2
  <2>4. TodoHolds'
      BY <1>1, <1>3, <2>2 DEF TodoHolds, AtRestore
  <2>5. LossesPaid'
    <3>1. LostLogins' \ {l} \in SUBSET LostLogins /\ LostLogins \in SUBSET Logins
        BY <1>1, <2>3, ItemsAre DEF LostLogins
    <3>2. Cardinality(LostLogins' \ {l}) <= Cardinality(LostLogins) /\ Cardinality(LostLogins' \ {l}) \in Nat
          /\ Cardinality(LostLogins) \in Nat
        BY <3>1, FewerLost
    <3>3. Cardinality(LostLogins) <= mishaps
        BY <1>1 DEF LossesPaid
    <3>4. Cardinality(LostLogins' \ {l}) <= mishaps'
        BY <1>1, <2>3, <3>2, <3>3
    <3> QED BY <2>2, <3>4 DEF LossesPaid
  <2>6. Restoring'
    <3> SUFFICES ASSUME mishaps' = 0 PROVE Restoring'
        BY DEF Restoring
    <3>0. mishaps = 0 /\ mishaps' = mishaps
        BY <1>1, <2>3
    <3>1. /\ skey = job.key /\ \A i \in Items \ job.todo : Restored(i, job.arch, job.over, job.key)
          /\ \A i \in job.todo : vault[i] = before[i]
        BY <1>1, <3>0 DEF Restoring
    <3>2. \A i \in Items \ job.todo : Restored(i, job.arch, job.over, job.key)'
        BY <1>1, <1>3, <2>2, <2>3, <3>1 DEF Restored
    <3> QED BY <1>1, <1>3, <2>2, <2>3, <3>0, <3>1, <3>2 DEF Restoring, Restored
  <2>7. DoneHolds' /\ Untorn' /\ Exporting'
      BY <1>1, <2>2 DEF DoneHolds, Untorn, Exporting, TodoHolds
  <2> QED BY <2>4, <2>5, <2>6, <2>7
<1> QED BY <1>4, <1>5

\* A step that deals with item i for good: as the archive says if nothing goes wrong.
LEMMA ItemKeeps ==
  ASSUME BackupTypes, BackupTypes', RestoreInv, AtRestore, NEW i \in job.todo,
         UNCHANGED <<skey, before, done, archives>>,
         job'.at = "next", job'.todo = job.todo \ {i}, job'.arch = job.arch, job'.over = job.over, job'.key = job.key,
         \A j \in Items : j # i => vault'[j] = vault[j], mishaps' >= mishaps,
         job.at = "save" => job.item = i,
         Cardinality(LostLogins') <= mishaps',
         mishaps' = 0 => Restored(i, job.arch, job.over, job.key)'
  PROVE  RestoreInv'
<1> USE DEF RestoreInv
<1>1. job.todo \subseteq Items /\ mishaps \in Nat /\ mishaps' \in Nat
  <2>1. job.todo \subseteq Items
      BY DEF BackupTypes, JobTyped, AtRestore, NoJob
  <2> QED BY <2>1 DEF BackupTypes, CountsTyped
<1>2. TodoHolds'
    BY DEF TodoHolds, AtRestore
<1>3. LossesPaid'
    BY DEF LossesPaid
<1>4. Restoring'
  <2> SUFFICES ASSUME mishaps' = 0 PROVE Restoring'
      BY DEF Restoring
  <2>1. mishaps = 0
      BY <1>1
  <2>2. /\ skey = job.key /\ \A j \in Items \ job.todo : Restored(j, job.arch, job.over, job.key)
        /\ \A j \in job.todo : j # i => vault[j] = before[j]
      BY <2>1 DEF Restoring
  <2>3. \A j \in Items \ job.todo : Restored(j, job.arch, job.over, job.key)'
      BY <1>1, <2>2 DEF Restored
  <2>4. \A j \in Items \ job'.todo : Restored(j, job.arch, job.over, job.key)'
    <3>1. \A j \in Items \ job'.todo : j \in Items \ job.todo \/ j = i
        OBVIOUS
    <3> QED BY <2>3, <3>1
  <2>5. \A j \in job'.todo : vault'[j] = before'[j]
      BY <1>1, <2>2
  <2> QED BY <2>2, <2>4, <2>5 DEF Restoring, Restored
<1>5. DoneHolds' /\ Untorn' /\ Exporting'
    BY DEF DoneHolds, Untorn, Exporting, TodoHolds
<1> QED BY <1>2, <1>3, <1>4, <1>5

\* savePassword: the item is as the archive says, or its loss is paid for.
LEMMA SaveKeeps ==
  ASSUME BackupTypes, BackupTypes', RestoreInv, SavePassword
  PROVE  RestoreInv'
<1> USE DEF RestoreInv
<1>0. job.at = "save" /\ AtRestore /\ job.item \in Logins \cap job.todo
    BY DEF SavePassword, AtRestore, TodoHolds
<1>00. PICK l \in job.todo : l = job.item /\ l \in Logins
    BY <1>0
<1>1. /\ job.at = "save" /\ l \in job.todo /\ l \in Logins /\ l \in Items /\ l # Alg
      /\ UNCHANGED <<skey, before, done, archives>>
      /\ mishaps \in Nat /\ vault \in Entries /\ AtRestore /\ job.key \in Keys
    BY <1>0, <1>00, RestoreJob, ItemsAre DEF SavePassword, BackupTypes, CountsTyped, FilesTyped
<1>2. /\ job'.at = "next" /\ job'.todo = job.todo \ {l}
      /\ job'.arch = job.arch /\ job'.over = job.over /\ job'.key = job.key
    BY <1>00, <1>1, RestoreJob DEF SavePassword
<1>3. \/ skey # NoKey /\ vault[l].val = 0 /\ vault' = [vault EXCEPT ![l] = Imported(l)] /\ mishaps' = mishaps
      \/ skey # NoKey /\ vault[l].val = 0 /\ vault' = vault /\ mishaps' = mishaps + 1
      \/ ~(skey # NoKey /\ vault[l].val = 0) /\ vault' = vault /\ mishaps' = mishaps
    BY <1>00, Zenon DEF SavePassword, Write
<1>4. Imported(l).val # 0 /\ Imported(l).key = skey /\ Imported(l).val = archives[job.arch].content[l]
    BY <1>1 DEF Imported, TodoHolds
<1>5. LostLogins \in SUBSET Logins /\ Cardinality(LostLogins \ {l}) <= mishaps
    BY <1>00, <1>1 DEF LostLogins, LossesPaid
<1>6. /\ Cardinality(LostLogins) <= Cardinality(LostLogins \ {l}) + 1
      /\ Cardinality(LostLogins) \in Nat /\ Cardinality(LostLogins \ {l}) \in Nat
    BY <1>5, OneLost
<1>7. Cardinality(LostLogins') <= mishaps'
  <2>1. CASE vault[l].val = 0 /\ vault' = [vault EXCEPT ![l] = Imported(l)] /\ mishaps' = mishaps
    <3>1. LostLogins' \in SUBSET (LostLogins \ {l})
        BY <1>1, <1>4, <2>1, ItemsAre DEF LostLogins, Entries
    <3>2. LostLogins \ {l} \in SUBSET Logins
        BY <1>5
    <3> QED BY <1>1, <1>5, <1>6, <2>1, <3>1, <3>2, FewerLost
  <2>2. CASE vault' = vault /\ mishaps' = mishaps + 1
    <3>1. LostLogins' = LostLogins
        BY <1>1, <2>2 DEF LostLogins
    <3> QED BY <1>1, <1>5, <1>6, <2>2, <3>1
  <2>3. CASE ~(skey # NoKey /\ vault[l].val = 0) /\ vault' = vault /\ mishaps' = mishaps
    <3>1. LostLogins' = LostLogins /\ LostLogins = LostLogins \ {l}
        BY <1>1, <2>3 DEF LostLogins, TodoHolds
    <3> QED BY <1>1, <1>5, <2>3, <3>1
  <2> QED BY <1>3, <2>1, <2>2, <2>3
<1>8. mishaps' = 0 => Restored(l, job.arch, job.over, job.key)'
  <2> SUFFICES ASSUME mishaps' = 0 PROVE Restored(l, job.arch, job.over, job.key)'
      OBVIOUS
  <2>1. mishaps = 0
      BY <1>1, <1>3
  <2>2. skey = job.key /\ vault[l].val = 0 /\ (job.over \/ before[l].val = 0)
      BY <1>00, <1>1, <2>1 DEF Restoring
  <2>3. skey # NoKey
      BY <1>1, <2>2, ItemsAre
  <2>4. vault' = [vault EXCEPT ![l] = Imported(l)]
      BY <1>3, <2>1, <2>2, <2>3
  <2>5. vault'[l] = [val |-> archives[job.arch].content[l], key |-> skey]
      BY <1>1, <2>4 DEF Imported, Entries
  <2>6. CASE job.over
      BY <1>1, <1>2, <1>4, <2>2, <2>5, <2>6 DEF Restored
  <2>7. CASE before[l].val = 0
      BY <1>1, <1>2, <1>4, <2>2, <2>5, <2>7 DEF Restored
  <2> QED BY <2>2, <2>6, <2>7
<1>9. \A j \in Items : j # l => vault'[j] = vault[j]
    BY <1>1, <1>3 DEF Entries
<1>10. mishaps' >= mishaps
    BY <1>1, <1>3
<1> QED BY <1>00, <1>1, <1>2, <1>7, <1>8, <1>9, <1>10, ItemKeeps

\* The secrets and the algorithm: no password is touched.
LEMMA OthersKeep ==
  ASSUME BackupTypes, BackupTypes', RestoreInv, ImportTotp \/ ImportAlg
  PROVE  RestoreInv'
<1> USE DEF RestoreInv
<1>1. /\ job.at = "next" /\ job.todo \subseteq Items /\ UNCHANGED <<skey, before, done, archives>>
      /\ mishaps \in Nat /\ vault \in Entries /\ AtRestore
    BY RestoreJob DEF ImportTotp, ImportAlg, BackupTypes, CountsTyped, FilesTyped, AtRestore
<1>2. \A i \in Names \cup {Alg} :
        i \in job.todo /\ Finished(i) /\ (\A j \in Items : j # i => vault'[j] = vault[j])
        /\ mishaps' \in {mishaps, mishaps + 1} /\ (mishaps' = 0 => Restored(i, job.arch, job.over, job.key)')
        => RestoreInv'
  <2> SUFFICES ASSUME NEW i \in Names \cup {Alg}, i \in job.todo, Finished(i), \A j \in Items : j # i => vault'[j] = vault[j],
                      mishaps' \in {mishaps, mishaps + 1}, mishaps' = 0 => Restored(i, job.arch, job.over, job.key)'
               PROVE  RestoreInv'
      OBVIOUS
  <2>1. /\ job'.at = "next" /\ job'.todo = job.todo \ {i}
        /\ job'.arch = job.arch /\ job'.over = job.over /\ job'.key = job.key
      BY <1>1, RestoreJob
  <2>2. LostLogins' = LostLogins
      BY <1>1, ItemsAre DEF LostLogins
  <2>3. LostLogins \in SUBSET Logins /\ Cardinality(LostLogins) <= mishaps
      BY <1>1 DEF LostLogins, LossesPaid
  <2>4. Cardinality(LostLogins) \in Nat
      BY <2>3, FewerLost
  <2>5. Cardinality(LostLogins') <= mishaps' /\ mishaps' >= mishaps
      BY <1>1, <2>2, <2>3, <2>4
  <2> QED BY <1>1, <2>1, <2>5, ItemKeeps
<1>3. CASE ImportTotp
  <2>1. PICK i \in NextOf(2) :
          /\ IF skey # NoKey /\ (job.over \/ ~Opens(i))
             THEN Write([vault EXCEPT ![i] = Imported(i)])
             ELSE UNCHANGED <<vault, faults, mishaps>>
          /\ Finished(i)
      BY <1>3 DEF ImportTotp
  <2>2. i \in job.todo /\ i \in Names /\ i \in Items /\ i # Alg /\ i \notin Logins
      BY <1>1, NextIs, ItemsAre DEF Order
  <2>3. (\A j \in Items : j # i => vault'[j] = vault[j]) /\ mishaps' \in {mishaps, mishaps + 1}
      BY <1>1, <2>1, <2>2 DEF Write, Entries
  <2>4. ASSUME mishaps' = 0 PROVE Restored(i, job.arch, job.over, job.key)'
    <3>1. mishaps = 0 /\ mishaps' # mishaps + 1
        BY <1>1, <2>3, <2>4
    <3>2. skey = job.key /\ vault[i] = before[i] /\ skey # NoKey
        BY <1>1, <2>2, <3>1, RestoreJob, ItemsAre, <1>3 DEF Restoring
    <3>3. archives[job.arch].content[i] # 0
        BY <1>1, <2>2 DEF TodoHolds
    <3>4. /\ job'.arch = job.arch /\ job'.over = job.over /\ job'.key = job.key
        BY <1>3, <2>1, <2>2, RestoreJob
    <3>5. CASE job.over \/ ~Opens(i)
      <4>1. vault' = [vault EXCEPT ![i] = Imported(i)]
          BY <2>1, <3>1, <3>2, <3>5 DEF Write
      <4>2. vault'[i] = [val |-> archives[job.arch].content[i], key |-> skey]
          BY <1>1, <2>2, <4>1 DEF Imported, Entries
      <4> QED BY <1>1, <2>2, <3>2, <3>3, <3>4, <3>5, <4>2 DEF Restored, Opens
    <3>6. CASE ~(job.over \/ ~Opens(i))
      <4>1. vault' = vault
          BY <2>1, <3>6
      <4> QED BY <1>1, <2>2, <3>2, <3>3, <3>4, <3>6, <4>1 DEF Restored, Opens
    <3> QED BY <3>5, <3>6
  <2> QED BY <1>2, <2>1, <2>2, <2>3, <2>4
<1>4. CASE ImportAlg
  <2>1. PICK i \in NextOf(3) : Write([vault EXCEPT ![i] = [val |-> Imported(i).val, key |-> 0]]) /\ Finished(i)
      BY <1>4 DEF ImportAlg
  <2>2. i \in job.todo /\ i = Alg /\ i \in Items /\ i \notin Logins
      BY <1>1, NextIs, ItemsAre DEF Order
  <2>3. (\A j \in Items : j # i => vault'[j] = vault[j]) /\ mishaps' \in {mishaps, mishaps + 1}
      BY <1>1, <2>1, <2>2 DEF Write, Entries
  <2>4. ASSUME mishaps' = 0 PROVE Restored(i, job.arch, job.over, job.key)'
    <3>1. mishaps' # mishaps + 1
        BY <1>1, <2>4
    <3>2. archives[job.arch].content[i] # 0
        BY <1>1, <2>2 DEF TodoHolds
    <3>3. /\ job'.arch = job.arch /\ job'.over = job.over /\ job'.key = job.key
        BY <1>4, <2>1, <2>2, RestoreJob
    <3>4. vault'[i] = [val |-> archives[job.arch].content[i], key |-> 0]
        BY <1>1, <2>1, <2>2, <3>1 DEF Write, Imported, Entries
    <3> QED BY <1>1, <2>2, <3>2, <3>3, <3>4 DEF Restored
  <2> QED BY <1>2, <2>1, <2>2, <2>3, <2>4
<1> QED BY <1>3, <1>4

\* The restore is over: every item is as the archive says if nothing went wrong.
LEMMA DoneKeeps ==
  ASSUME BackupTypes, BackupTypes', RestoreInv, ImportDone
  PROVE  RestoreInv'
<1> USE DEF RestoreInv
<1>1. /\ job.at = "next" /\ job.todo = {} /\ UNCHANGED <<vault, before, mishaps, archives>> /\ AtRestore
      /\ job'.at = "idle" /\ job.arch \in DOMAIN archives
      /\ done' = [on |-> TRUE, arch |-> job.arch, over |-> job.over, key |-> job.key]
    BY RestoreJob DEF ImportDone, AtRestore, NoJob
<1>2. done'.arch = job.arch /\ done'.over = job.over /\ done'.key = job.key
    BY <1>1
<1>3. mishaps = 0 => \A i \in Items : Restored(i, job.arch, job.over, job.key)
    BY <1>1 DEF Restoring
<1>4. DoneHolds'
    BY <1>1, <1>2, <1>3 DEF DoneHolds, Restored
<1>5. LossesPaid'
  <2>1. LostLogins' = LostLogins
      BY <1>1 DEF LostLogins
  <2> QED BY <1>1, <2>1 DEF LossesPaid
<1>6. TodoHolds' /\ Restoring' /\ Exporting' /\ Untorn'
    BY <1>1 DEF TodoHolds, Restoring, Exporting, Untorn, AtRestore
<1> QED BY <1>4, <1>5, <1>6

\* Every step keeps what a restore relies on.
LEMMA RestoreKept == BackupTypes /\ BackupTypes' /\ RestoreInv /\ [BackupNext]_backupVars => RestoreInv'
<1> SUFFICES ASSUME BackupTypes, BackupTypes', RestoreInv, [BackupNext]_backupVars PROVE RestoreInv'
    OBVIOUS
<1>1. CASE UNCHANGED backupVars
  <2>1. Aside
      BY <1>1, Zenon DEF Aside, backupVars, devVars, histVars
  <2> QED BY <2>1, AsideKeeps
<1> QED BY <1>1, HostAside, DeviceAside, AsideKeeps, UpsetKeeps, ExportKeeps, CommitKeeps, PasswordKeeps, SaveKeeps,
           OthersKeep, DoneKeeps DEF BackupNext, BackupDevice

\* So it holds in every state.
LEMMA RestoreAlways == BackupSpec => [](BackupTypes /\ RestoreInv)
<1>1. BackupInit => BackupTypes /\ RestoreInv
    BY TypesInitially, RestoreInitially
<1>2. (BackupTypes /\ RestoreInv) /\ [BackupNext]_backupVars => (BackupTypes /\ RestoreInv)'
    BY BackupTypesKept, RestoreKept
<1> QED BY <1>1, <1>2, PTL DEF BackupSpec

\* LosesAtMostOne: however many passwords there are, importVaultPlaintext loses no more of them
\* than there were failed writes, resets and power cuts, and the one it is replacing.
THEOREM LosesAtMostOneHolds == BackupSpec => []LosesAtMostOne
<1>1. BackupTypes /\ RestoreInv => LosesAtMostOne
  <2> SUFFICES ASSUME BackupTypes, RestoreInv PROVE LosesAtMostOne
      OBVIOUS
  <2>1. LostLogins \in SUBSET Logins /\ mishaps \in Nat /\ LossesPaid
      BY DEF LostLogins, BackupTypes, CountsTyped, RestoreInv
  <2>2. CASE job.at # "save"
    <3>1. Cardinality(LostLogins) <= mishaps + 0
        BY <2>1, <2>2 DEF LossesPaid
    <3> QED BY <2>2, <3>1, Zenon DEF LosesAtMostOne, LostLogins
  <2>3. CASE job.at = "save"
    <3>0. Cardinality(LostLogins \ {job.item}) <= mishaps
        BY <2>1, <2>3 DEF LossesPaid
    <3>1. /\ Cardinality(LostLogins) <= Cardinality(LostLogins \ {job.item}) + 1
          /\ Cardinality(LostLogins) \in Nat /\ Cardinality(LostLogins \ {job.item}) \in Nat
        BY <2>1, OneLost, Zenon
    <3>2. \A x, y, z \in Nat : x <= y + 1 /\ y <= z => x <= z + 1
        OBVIOUS
    <3>3. Cardinality(LostLogins) <= mishaps + 1
        BY <2>1, <3>0, <3>1, <3>2, Zenon
    <3> QED BY <2>3, <3>3, Zenon DEF LosesAtMostOne, LostLogins
  <2> QED BY <2>2, <2>3
<1> QED BY <1>1, RestoreAlways, PTL

\* RoundTrip: whatever is in the vault and in the archive, a restore nothing went wrong in leaves
\* what exportVaultPlaintext found, item by item, up to those the user chose to keep.
THEOREM RoundTripHolds == BackupSpec => []RoundTrip
<1>1. BackupTypes /\ RestoreInv => RoundTrip
  <2> SUFFICES ASSUME BackupTypes, RestoreInv, done.on, mishaps = 0, ~archives[done.arch].torn
               PROVE  \A i \in Items :
                        LET old == archives[done.arch].snap[i]
                            readable == before[i].val # 0 /\ (i \in Logins \/ before[i].key = done.key)
                        IN  vault[i] = IF old = 0 THEN before[i] ELSE
                                       IF i # Alg /\ ~done.over /\ readable THEN before[i]
                                       ELSE [val |-> old, key |-> IF i = Alg THEN 0 ELSE done.key]
      BY Zenon DEF RoundTrip
  <2>1. done.arch \in DOMAIN archives /\ \A i \in Items : Restored(i, done.arch, done.over, done.key)
      BY DEF RestoreInv, DoneHolds
  <2>2. archives[done.arch].content = archives[done.arch].snap
      BY <2>1 DEF RestoreInv, Untorn
  <2> QED BY <2>1, <2>2, Zenon DEF Restored
<1> QED BY <1>1, RestoreAlways, PTL

\* The commands and answers that are about an operation; the page's newest one is number ops.
Asks(m)  == m.cmd \in {"export", "begin", "commit"}
Tells(m) == m.ev \in {"EXPORT_START", "IMPORT_READY", "IMPORT_DONE"}
NowAsked(i) == Asks(toDev[i]) /\ toDev[i].op = ops
OldAsked(i) == Asks(toDev[i]) /\ toDev[i].op # ops
NowTold(i)  == Tells(toHost[i]) /\ toHost[i].op = ops
OldTold(i)  == Tells(toHost[i]) /\ toHost[i].op # ops
NowJob == job.at # "idle" /\ job.op = ops
OldJob == job.at # "idle" /\ job.op # ops

\* Operations are numbered as they come, and the line to the device, its task and the line to the
\* page keep the order: behind what is about the newest operation nothing is about an earlier one.
Numbered ==
  /\ \A i \in DOMAIN toDev : Asks(toDev[i]) => toDev[i].op <= ops
  /\ job.at # "idle" => job.op <= ops
  /\ \A i \in DOMAIN toHost : Tells(toHost[i]) => toHost[i].op <= ops
InTurn ==
  /\ \A i, j \in DOMAIN toDev : i < j /\ NowAsked(i) => ~OldAsked(j)
  /\ \A i, j \in DOMAIN toHost : i < j /\ NowTold(i) => ~OldTold(j)
  /\ NowJob => \A j \in DOMAIN toDev : ~OldAsked(j)
  /\ \A i \in DOMAIN toHost : NowTold(i) => ~OldJob /\ \A j \in DOMAIN toDev : ~OldAsked(j)

\* The page waits to be told that it may send: its BEGIN is the last command, or it was taken and
\* the import that it opened is the one that is open.
Opening ==
  page.at \in {"beginSent", "begin"} =>
    /\ \A i \in DOMAIN toDev : NowAsked(i) => toDev[i].cmd = "begin" /\ toDev[i].sha = page.file /\ i = Len(toDev)
    /\ ~NowJob
    /\ \A i \in DOMAIN toHost : NowTold(i) =>
         toHost[i].ev = "IMPORT_READY" /\ toDev = <<>> /\ (imp.on => imp.sha = page.file)

\* It sends, having taken its own IMPORT_READY: all that is on the way is about this restore.
IsFile(a) == a \in DOMAIN archives /\ Blob(a) = page.file
Sending ==
  page.at \in {"chunks", "commitSent", "commit"} /\ ~late =>
    /\ \A i \in DOMAIN toDev : ~OldAsked(i) /\ toDev[i].cmd # "begin"
    /\ imp.on => imp.sha = page.file
    /\ ~OldJob /\ (job.at \in {"next", "save"} => IsFile(job.arch))
    /\ \A i \in DOMAIN toHost : ~OldTold(i) /\ (toHost[i].ev = "IMPORT_DONE" => \E a \in restored : IsFile(a))

\* An export under way has the passphrase just typed.
OpensWith(sha, p) == \E a \in DOMAIN archives : sha = Blob(a) /\ archives[a].phrase = p
Saving ==
  page.at \in {"exportSent", "export"} =>
    /\ \A i \in DOMAIN toDev : NowAsked(i) => toDev[i].cmd = "export" /\ toDev[i].phrase = page.phrase
    /\ NowJob => job.at = "totp" /\ job.phrase = page.phrase
    /\ \A i \in DOMAIN toHost : NowTold(i) =>
         toHost[i].ev = "EXPORT_START" /\ OpensWith(toHost[i].sha, page.phrase)
    /\ buf.on /\ ~late => OpensWith(buf.sha, page.phrase)
WholeArchives ==
  /\ \A i \in DOMAIN toHost : toHost[i].ev = "EXPORT_START" => \E a \in DOMAIN archives : toHost[i].sha = Blob(a)
  /\ buf.on => \E a \in DOMAIN archives : buf.sha = Blob(a)

ReportInv == Numbered /\ InTurn /\ Opening /\ Sending /\ Saving /\ WholeArchives /\ DoneIsMine /\ SavedFileOpens


\* What is on the lines is typed, and numbered with naturals.
LEMMA LinesAre ==
  ASSUME BackupTypes
  PROVE  /\ ops \in Nat
         /\ \A i \in DOMAIN toDev : toDev[i] \in Requests /\ (Asks(toDev[i]) => toDev[i].op \in Nat)
         /\ \A i \in DOMAIN toHost : toHost[i] \in Events /\ (Tells(toHost[i]) => toHost[i].op \in Nat)
         /\ job.at # "idle" => job.op \in Nat
<1>1. ops \in Nat /\ toDev \in Seq(Requests) /\ toHost \in Seq(Events)
    BY DEF BackupTypes, CountsTyped, LinesTyped
<1>2. \A m \in Requests : Asks(m) => m.op \in Nat
    BY DEF Requests, Asks
<1>3. \A m \in Events : Tells(m) => m.op \in Nat
    BY DEF Events, Tells
<1>4. job.at # "idle" => job.op \in Nat
    BY DEF BackupTypes, JobTyped, NoJob
<1> QED BY <1>1, <1>2, <1>3, <1>4

\* Archives are only added.
Kept == \A a \in DOMAIN archives : a \in DOMAIN archives' /\ archives'[a] = archives[a]

\* Then the archives there were have the blobs they had.
LEMMA BlobKept ==
  ASSUME Kept
  PROVE  \A a \in DOMAIN archives : a \in DOMAIN archives' /\ Blob(a)' = Blob(a) /\ archives'[a].phrase = archives[a].phrase
BY Zenon DEF Kept, Blob, BlobLen

\* ... and open with the passphrases they opened with.
LEMMA OpensKept == ASSUME Kept, NEW s, NEW p, OpensWith(s, p) PROVE OpensWith(s, p)'
<1>1. PICK a \in DOMAIN archives : s = Blob(a) /\ archives[a].phrase = p
    BY DEF OpensWith
<1>2. a \in DOMAIN archives' /\ Blob(a)' = s /\ archives'[a].phrase = p
    BY <1>1, BlobKept, Zenon
<1> QED BY <1>2, Zenon DEF OpensWith

\* Nothing is asked or told at the start.
LEMMA ReportInitially == BackupInit => ReportInv
<1> SUFFICES ASSUME BackupInit PROVE ReportInv
    OBVIOUS
<1>1. /\ toDev = <<>> /\ toHost = <<>> /\ job.at = "idle" /\ page.at = "idle" /\ ~buf.on /\ result.kind = "none"
    BY DEF BackupInit, NoJob, NoPage, NoBuf, NoResult
<1> QED BY <1>1 DEF ReportInv, Numbered, InTurn, Opening, Sending, Saving, WholeArchives, DoneIsMine, SavedFileOpens,
                    NowJob, OldJob

\* What the user was told stays true while archives are only added and nothing is forgotten.
LEMMA ResultKept ==
  ASSUME ReportInv, Kept, result' = result, late' <=> late, restored \subseteq restored'
  PROVE  DoneIsMine' /\ SavedFileOpens'
<1>1. DoneIsMine'
  <2> SUFFICES ASSUME result.kind = "import", result.ok, ~late
               PROVE  \E a \in DOMAIN archives' : Blob(a)' = result.file /\ a \in restored'
      BY Zenon DEF DoneIsMine
  <2>1. PICK a \in DOMAIN archives : Blob(a) = result.file /\ a \in restored
      BY Zenon DEF ReportInv, DoneIsMine
  <2>2. a \in DOMAIN archives' /\ Blob(a)' = Blob(a) /\ a \in restored'
      BY <2>1, BlobKept
  <2> QED BY <2>1, <2>2, Zenon
<1>2. SavedFileOpens'
  <2> SUFFICES ASSUME result.kind = "export", result.ok
               PROVE  \E a \in DOMAIN archives' : result.file = Blob(a)' /\ (late \/ archives'[a].phrase = result.phrase)
      BY Zenon DEF SavedFileOpens
  <2>1. PICK a \in DOMAIN archives : result.file = Blob(a) /\ (late \/ archives[a].phrase = result.phrase)
      BY Zenon DEF ReportInv, SavedFileOpens
  <2>2. a \in DOMAIN archives' /\ Blob(a)' = Blob(a) /\ archives'[a].phrase = archives[a].phrase
      BY <2>1, BlobKept, Zenon
  <2> QED BY <2>1, <2>2, Zenon
<1> QED BY <1>1, <1>2

\* A new operation is the only one of its number.
LEMMA NewOperation ==
  ASSUME BackupTypes, ReportInv, NEW m \in Requests, Asks(m), m.op = ops + 1, ops' = ops + 1,
         toDev' = Append(toDev, m), UNCHANGED <<toHost, job>>
  PROVE  /\ Numbered' /\ InTurn'
         /\ \A i \in DOMAIN toDev' : NowAsked(i)' => toDev'[i] = m /\ i = Len(toDev')
         /\ ~NowJob' /\ \A i \in DOMAIN toHost' : ~NowTold(i)'
<1>1. toDev \in Seq(Requests)
    BY DEF BackupTypes, LinesTyped
<1>2. \A i \in DOMAIN toDev' : (i \in DOMAIN toDev /\ toDev'[i] = toDev[i]) \/ (i = Len(toDev') /\ toDev'[i] = m)
    BY <1>1
<1>3. \A i \in DOMAIN toDev' : i \in Nat /\ i <= Len(toDev')
    BY <1>1
<1>4. \A i \in DOMAIN toDev : ~(Asks(toDev[i]) /\ toDev[i].op = ops')
  <2>1. \A x, y \in Nat : x <= y => x # y + 1
      OBVIOUS
  <2> QED BY <2>1, LinesAre DEF ReportInv, Numbered
<1>5. \A i \in DOMAIN toDev' : NowAsked(i)' => toDev'[i] = m /\ i = Len(toDev')
    BY <1>2, <1>4 DEF NowAsked
<1>6. ~NowJob'
    BY LinesAre DEF ReportInv, Numbered, NowJob
<1>7. \A i \in DOMAIN toHost' : ~NowTold(i)'
    BY LinesAre DEF ReportInv, Numbered, NowTold
<1>8. Numbered'
  <2>1. \A x, y \in Nat : x <= y => x <= y + 1
      OBVIOUS
  <2>2. \A i \in DOMAIN toDev' : Asks(toDev'[i]) => toDev'[i].op <= ops'
      BY <1>2, <2>1, LinesAre DEF ReportInv, Numbered
  <2>3. job'.at # "idle" => job'.op <= ops'
      BY <2>1, LinesAre DEF ReportInv, Numbered
  <2>4. \A i \in DOMAIN toHost' : Tells(toHost'[i]) => toHost'[i].op <= ops'
      BY <2>1, LinesAre DEF ReportInv, Numbered
  <2> QED BY <2>2, <2>3, <2>4 DEF Numbered
<1>9. InTurn'
    BY <1>3, <1>5, <1>6, <1>7 DEF InTurn
<1> QED BY <1>5, <1>6, <1>7, <1>8, <1>9

\* The line to the page, but for its first: a line is taken away, by its reader or by a loss.
Shrinks == UNCHANGED toHost \/ (toHost # <<>> /\ toHost' = Tail(toHost))

\* The order of what is left is the order there was.
LEMMA Shrunk ==
  ASSUME BackupTypes, ReportInv, Shrinks, ops' = ops
  PROVE  /\ \A i \in DOMAIN toHost' : \E j \in DOMAIN toHost : toHost'[i] = toHost[j]
         /\ \A i, j \in DOMAIN toHost' : i < j /\ NowTold(i)' => ~OldTold(j)'
<1>1. CASE UNCHANGED toHost
    BY <1>1 DEF ReportInv, InTurn, NowTold, OldTold
<1>2. CASE toHost # <<>> /\ toHost' = Tail(toHost)
  <2>1. \A i \in DOMAIN toHost' : i \in Nat /\ i + 1 \in DOMAIN toHost /\ toHost'[i] = toHost[i + 1]
      BY <1>2, OneLess DEF BackupTypes, LinesTyped
  <2>2. \A i \in DOMAIN toHost' : (NowTold(i)' => NowTold(i + 1)) /\ (OldTold(i)' => OldTold(i + 1))
      BY <2>1 DEF NowTold, OldTold
  <2>3. \A i, j \in DOMAIN toHost' : i < j => i + 1 < j + 1
      BY <2>1
  <2>4. \A i, j \in DOMAIN toHost' : i < j /\ NowTold(i)' => ~OldTold(j)'
      BY <2>1, <2>2, <2>3 DEF ReportInv, InTurn
  <2> QED BY <2>1, <2>4
<1> QED BY <1>1, <1>2 DEF Shrinks

\* Commands that are about no operation, or about the newest, take their turn.
LEMMA MoreAsked ==
  ASSUME BackupTypes, ReportInv, NEW m \in Requests, Asks(m) => m.op = ops,
         toDev' = Append(toDev, m), Shrinks, UNCHANGED <<job, ops>>
  PROVE  /\ Numbered' /\ InTurn'
         /\ \A i \in DOMAIN toDev' : (i \in DOMAIN toDev /\ toDev'[i] = toDev[i]) \/ toDev'[i] = m
<1>1. toDev \in Seq(Requests)
    BY DEF BackupTypes, LinesTyped
<1>2. \A i \in DOMAIN toDev' : /\ (i \in DOMAIN toDev /\ toDev'[i] = toDev[i]) \/ (i = Len(toDev') /\ toDev'[i] = m)
                               /\ i \in Nat /\ i <= Len(toDev')
    BY <1>1
<1>3. \A i \in DOMAIN toDev' : OldAsked(i)' => i \in DOMAIN toDev /\ OldAsked(i)
    BY <1>2 DEF OldAsked
<1>4. \A i, j \in DOMAIN toDev' : i < j /\ j \in DOMAIN toDev => i \in DOMAIN toDev /\ toDev'[i] = toDev[i]
    BY <1>1
<1>5. Numbered'
    BY <1>2, LinesAre, Shrunk DEF ReportInv, Numbered
<1>6. InTurn'
  <2>1. \A i, j \in DOMAIN toDev' : i < j /\ NowAsked(i)' => ~OldAsked(j)'
    <3> SUFFICES ASSUME NEW i \in DOMAIN toDev', NEW j \in DOMAIN toDev', i < j, NowAsked(i)', OldAsked(j)' PROVE FALSE
        OBVIOUS
    <3>1. j \in DOMAIN toDev /\ OldAsked(j)
        BY <1>3
    <3>2. i \in DOMAIN toDev /\ toDev'[i] = toDev[i]
        BY <1>4, <3>1
    <3>3. NowAsked(i)
        BY <3>2 DEF NowAsked
    <3> QED BY <3>1, <3>2, <3>3 DEF ReportInv, InTurn
  <2>2. \A i, j \in DOMAIN toHost' : i < j /\ NowTold(i)' => ~OldTold(j)'
      BY Shrunk
  <2>3. NowJob' => \A j \in DOMAIN toDev' : ~OldAsked(j)'
      BY <1>3 DEF ReportInv, InTurn, NowJob
  <2>4. \A i \in DOMAIN toHost' : NowTold(i)' => ~OldJob' /\ \A j \in DOMAIN toDev' : ~OldAsked(j)'
    <3>1. \A i \in DOMAIN toHost' : \E j \in DOMAIN toHost : NowTold(i)' => NowTold(j)
        BY Shrunk DEF NowTold
    <3> QED BY <1>3, <3>1 DEF ReportInv, InTurn, OldJob
  <2> QED BY <2>1, <2>2, <2>3, <2>4 DEF InTurn
<1> QED BY <1>2, <1>5, <1>6

\* The page gives up: what is on the way is nobody's any more.
LEMMA GivenUp ==
  ASSUME ReportInv, Numbered', InTurn', page'.at \in {"idle", "connecting"},
         \A i \in DOMAIN toHost' : \E j \in DOMAIN toHost : toHost'[i] = toHost[j],
         archives' = archives, buf' = buf \/ ~buf'.on, DoneIsMine', SavedFileOpens'
  PROVE  ReportInv'
<1>1. Opening' /\ Sending' /\ Saving'
    BY DEF Opening, Sending, Saving
<1>2. Kept
    BY DEF Kept
<1>3. WholeArchives'
  <2>1. \A a \in DOMAIN archives : a \in DOMAIN archives' /\ Blob(a)' = Blob(a)
      BY <1>2, BlobKept
  <2> QED BY <2>1 DEF ReportInv, WholeArchives
<1> QED BY <1>1, <1>3 DEF ReportInv

\* ... and its own operation fails, with an ABORT at the end of the line.
LEMMA FailKeepsReport ==
  ASSUME BackupTypes, ReportInv, NEW k \in {"export", "import"}, Fail(k),
         Shrinks, UNCHANGED <<job, ops, archives>>
  PROVE  ReportInv'
<1>1. Numbered' /\ InTurn'
  <2>1. CASE k = "export"
    <3>1. UNCHANGED toDev
        BY <2>1 DEF Fail
    <3>2. Numbered'
        BY <3>1, Shrunk DEF ReportInv, Numbered
    <3>3. \A i \in DOMAIN toHost' : \E j \in DOMAIN toHost : NowTold(i)' => NowTold(j)
        BY Shrunk DEF NowTold
    <3>4. InTurn'
        BY <3>1, <3>3, Shrunk DEF ReportInv, InTurn, NowAsked, OldAsked, NowJob, OldJob
    <3> QED BY <3>2, <3>4
  <2>2. CASE k # "export"
    <3>1. [cmd |-> "abort"] \in Requests /\ ~Asks([cmd |-> "abort"])
        BY DEF Requests, Asks
    <3> QED BY <2>2, <3>1, MoreAsked DEF Fail, Ask
  <2> QED BY <2>1, <2>2
<1>2. page'.at = "idle" /\ (buf' = buf \/ ~buf'.on)
    BY DEF Fail, NoPage, NoBuf
<1>3. result'.kind = k /\ ~result'.ok
    BY DEF Fail, Report
<1>4. DoneIsMine' /\ SavedFileOpens'
    BY <1>3 DEF DoneIsMine, SavedFileOpens
<1> QED BY <1>1, <1>2, <1>4, GivenUp, Shrunk

\* The steps of the page but for the reading.
LEMMA PageKeepsReport ==
  ASSUME BackupTypes, ReportInv,
         \/ \E p \in Phrases : RunBackupExport(p)
         \/ \E f \in files \cup Damaged, p \in Phrases, over \in BOOLEAN : RunBackupImport(f, p, over)
         \/ WaitForBackupEvent \/ SendChunk \/ SendCommit \/ TimeOut \/ SendThrows
  PROVE  ReportInv'
<1>0. Kept \/ archives' # archives
    BY DEF Kept
<1>1. ASSUME NEW p \in Phrases, RunBackupExport(p) PROVE ReportInv'
  <2> DEFINE m == [cmd |-> "export", phrase |-> p, op |-> ops + 1]
  <2>1. m \in Requests /\ Asks(m) /\ m.op = ops + 1 /\ m.cmd = "export" /\ m.phrase = p
      BY LinesAre DEF Requests, Asks
  <2>2. /\ toDev' = Append(toDev, m) /\ ops' = ops + 1 /\ UNCHANGED <<toHost, job, archives>>
        /\ page'.at = "exportSent" /\ page'.phrase = p /\ ~buf'.on /\ result'.kind = "none"
      BY <1>1 DEF RunBackupExport, Ask, devVars, NoBuf, NoResult
  <2> HIDE DEF m
  <2>3. /\ Numbered' /\ InTurn' /\ \A i \in DOMAIN toDev' : NowAsked(i)' => toDev'[i] = m
        /\ ~NowJob' /\ \A i \in DOMAIN toHost' : ~NowTold(i)'
      BY <2>1, <2>2, NewOperation
  <2>4. Opening' /\ Sending' /\ Saving'
      BY <2>1, <2>2, <2>3 DEF Opening, Sending, Saving
  <2>5. WholeArchives'
      BY <1>0, <2>2, BlobKept DEF ReportInv, WholeArchives
  <2>6. DoneIsMine' /\ SavedFileOpens'
      BY <2>2 DEF DoneIsMine, SavedFileOpens
  <2> QED BY <2>3, <2>4, <2>5, <2>6 DEF ReportInv
<1>2. ASSUME NEW f \in files \cup Damaged, NEW p \in Phrases, NEW over \in BOOLEAN, RunBackupImport(f, p, over)
      PROVE  ReportInv'
  <2> DEFINE m == [cmd |-> "begin", len |-> Len(f), sha |-> f, op |-> ops + 1]
  <2>1. m \in Requests
    <3>1. toDev' \in Seq(Requests) /\ toDev \in Seq(Requests)
        BY <1>2, HostTypes DEF BackupTypes, LinesTyped, BackupHost
    <3>2. toDev' = Append(toDev, m)
        BY <1>2 DEF RunBackupImport, Ask
    <3>3. Len(toDev') \in DOMAIN toDev' /\ toDev'[Len(toDev')] = m
      <4> HIDE DEF m
      <4> QED BY <3>1, <3>2
    <3> QED BY <3>1, <3>3
  <2>2. Asks(m) /\ m.op = ops + 1 /\ m.cmd = "begin" /\ m.sha = f
      BY DEF Asks
  <2>3. /\ toDev' = Append(toDev, m) /\ ops' = ops + 1 /\ UNCHANGED <<toHost, job, archives, buf>>
        /\ page'.at = "beginSent" /\ page'.file = f /\ result'.kind = "none"
      BY <1>2 DEF RunBackupImport, Ask, devVars, NoResult
  <2> HIDE DEF m
  <2>4. /\ Numbered' /\ InTurn' /\ \A i \in DOMAIN toDev' : NowAsked(i)' => toDev'[i] = m /\ i = Len(toDev')
        /\ ~NowJob' /\ \A i \in DOMAIN toHost' : ~NowTold(i)'
      BY <2>1, <2>2, <2>3, NewOperation
  <2>5. Opening' /\ Sending' /\ Saving'
      BY <2>2, <2>3, <2>4 DEF Opening, Sending, Saving
  <2>6. WholeArchives'
      BY <1>0, <2>3, BlobKept DEF ReportInv, WholeArchives
  <2>7. DoneIsMine' /\ SavedFileOpens'
      BY <2>3 DEF DoneIsMine, SavedFileOpens
  <2> QED BY <2>4, <2>5, <2>6, <2>7 DEF ReportInv
<1>3. ASSUME WaitForBackupEvent PROVE ReportInv'
  <2>1. /\ UNCHANGED <<toDev, toHost, job, ops, late, imp, archives, restored, buf, result>>
        /\ \/ page.at = "exportSent" /\ page'.at = "export"
           \/ page.at = "beginSent" /\ page'.at = "begin"
           \/ page.at = "commitSent" /\ page'.at = "commit"
        /\ page'.file = page.file /\ page'.phrase = page.phrase
    <3>1. UNCHANGED <<toDev, toHost, job, ops, late, imp, archives, restored, buf, result>>
        BY <1>3, Zenon DEF WaitForBackupEvent, devVars, histVars
    <3>2. page.at \in {"exportSent", "beginSent", "commitSent"} /\ page' = [page EXCEPT !.at = Waiting[page.at]]
        BY <1>3 DEF WaitForBackupEvent, Waiting
    <3>3. page \in [at : BusyAt, phrase : Phrases, file : Hex, over : BOOLEAN, n : Nat]
        BY <3>2 DEF BackupTypes, PageTyped, Pages
    <3>4. page'.at = Waiting[page.at] /\ page'.file = page.file /\ page'.phrase = page.phrase
        BY <3>2, <3>3
    <3>5. /\ page.at = "exportSent" => page' = [page EXCEPT !.at = "export"]
          /\ page.at = "beginSent" => page' = [page EXCEPT !.at = "begin"]
          /\ page.at = "commitSent" => page' = [page EXCEPT !.at = "commit"]
        BY <3>2 DEF Waiting
    <3>6. \/ page.at = "exportSent" /\ page'.at = "export"
          \/ page.at = "beginSent" /\ page'.at = "begin"
          \/ page.at = "commitSent" /\ page'.at = "commit"
      <4>1. CASE page.at = "exportSent"
          BY <4>1, <3>3, <3>5
      <4>2. CASE page.at = "beginSent"
          BY <4>2, <3>3, <3>5
      <4>3. CASE page.at = "commitSent"
          BY <4>3, <3>3, <3>5
      <4> QED BY <3>2, <4>1, <4>2, <4>3
    <3> QED BY <3>1, <3>4, <3>6
  <2>2. Kept /\ \A a : Blob(a)' = Blob(a)
      BY <2>1, Zenon DEF Kept, Blob, BlobLen
  <2>3. Numbered' /\ InTurn'
      BY <2>1, Zenon DEF ReportInv, Numbered, InTurn, NowAsked, OldAsked, NowTold, OldTold, NowJob, OldJob
  <2>4. Opening'
      BY <2>1 DEF ReportInv, Opening, NowAsked, NowJob, NowTold
  <2>5. Sending'
      BY <2>1, <2>2 DEF ReportInv, Sending, OldAsked, OldJob, OldTold, IsFile
  <2>6. Saving'
      BY <2>1, <2>2 DEF ReportInv, Saving, NowAsked, NowJob, NowTold, OpensWith
  <2>7. WholeArchives'
      BY <2>1, <2>2 DEF ReportInv, WholeArchives
  <2> QED BY <2>1, <2>2, <2>3, <2>4, <2>5, <2>6, <2>7, ResultKept DEF ReportInv
<1>4. ASSUME NEW m \in Requests, m.cmd \in {"chunk", "commit"}, m.cmd = "commit" => m.op = ops, toDev' = Append(toDev, m),
             page.at = "chunks", page'.at \in {"chunks", "commitSent"}, page'.file = page.file,
             UNCHANGED <<toHost, job, ops, late, imp, archives, restored, buf, result>>
      PROVE  ReportInv'
  <2>1. /\ Numbered' /\ InTurn'
        /\ \A i \in DOMAIN toDev' : (i \in DOMAIN toDev /\ toDev'[i] = toDev[i]) \/ toDev'[i] = m
      BY <1>4, MoreAsked DEF Asks, Shrinks
  <2>2. Kept /\ \A a : Blob(a)' = Blob(a)
      BY <1>4, Zenon DEF Kept, Blob, BlobLen
  <2>3. \A i \in DOMAIN toDev' : OldAsked(i)' => i \in DOMAIN toDev /\ OldAsked(i)
      BY <1>4, <2>1 DEF OldAsked, Asks
  <2>4. Sending'
    <3> SUFFICES ASSUME ~late PROVE Sending'
        BY <1>4 DEF Sending
    <3>1. /\ \A i \in DOMAIN toDev : ~OldAsked(i) /\ toDev[i].cmd # "begin"
          /\ imp.on => imp.sha = page.file
          /\ ~OldJob /\ (job.at \in {"next", "save"} => IsFile(job.arch))
          /\ \A i \in DOMAIN toHost : ~OldTold(i) /\ (toHost[i].ev = "IMPORT_DONE" => \E a \in restored : IsFile(a))
        BY <1>4 DEF ReportInv, Sending
    <3>2. \A i \in DOMAIN toDev' : ~OldAsked(i)' /\ toDev'[i].cmd # "begin"
        BY <1>4, <2>1, <2>3, <3>1
    <3>3. ~OldJob' /\ \A i \in DOMAIN toHost' : ~OldTold(i)'
        BY <1>4, <3>1 DEF OldJob, OldTold
    <3>4. \A a : IsFile(a) => IsFile(a)'
        BY <1>4, <2>2 DEF IsFile
    <3> QED BY <1>4, <3>1, <3>2, <3>3, <3>4 DEF Sending
  <2>5. Opening' /\ Saving'
      BY <1>4 DEF Opening, Saving
  <2>6. WholeArchives'
      BY <1>4, <2>2 DEF ReportInv, WholeArchives
  <2> QED BY <1>4, <2>1, <2>2, <2>4, <2>5, <2>6, ResultKept DEF ReportInv
<1>5. ASSUME SendChunk PROVE ReportInv'
  <2> DEFINE m == [cmd |-> "chunk", data |-> <<page.file[page.n + 1]>>]
  <2>1. page.file \in Hex /\ page.n \in Nat /\ page.n < Len(page.file) /\ page.at = "chunks"
      BY <1>5 DEF SendChunk, BackupTypes, PageTyped, Pages
  <2>2. m \in Requests /\ m.cmd = "chunk"
      BY <2>1 DEF Requests, Hex
  <2>3. page' = [page EXCEPT !.n = @ + 1] /\ toDev' = Append(toDev, m)
        /\ UNCHANGED <<toHost, job, ops, late, imp, archives, restored, buf, result>>
      BY <1>5, Zenon DEF SendChunk, Ask, devVars, histVars
  <2>4. page'.at = "chunks" /\ page'.file = page.file
      BY <2>1, <2>3 DEF BackupTypes, PageTyped, Pages
  <2> HIDE DEF m
  <2> QED BY <1>4, <2>1, <2>2, <2>3, <2>4
<1>6. ASSUME SendCommit PROVE ReportInv'
  <2> DEFINE m == [cmd |-> "commit", phrase |-> page.phrase, over |-> page.over, op |-> ops]
  <2>1. page.at = "chunks" /\ page.phrase \in Phrases /\ page.over \in BOOLEAN
      BY <1>6 DEF SendCommit, BackupTypes, PageTyped, Pages
  <2>2. m \in Requests /\ m.cmd = "commit" /\ m.op = ops
      BY <2>1, LinesAre DEF Requests
  <2>3. page' = [page EXCEPT !.at = "commitSent"] /\ toDev' = Append(toDev, m)
        /\ UNCHANGED <<toHost, job, ops, late, imp, archives, restored, buf, result>>
      BY <1>6, Zenon DEF SendCommit, Ask, devVars, histVars
  <2>4. page'.at = "commitSent" /\ page'.file = page.file
      BY <2>1, <2>3 DEF BackupTypes, PageTyped, Pages
  <2> HIDE DEF m
  <2> QED BY <1>4, <2>1, <2>2, <2>3, <2>4
<1>7. ASSUME TimeOut \/ SendThrows PROVE ReportInv'
  <2>1. (\E k \in {"export", "import"} : Fail(k)) /\ UNCHANGED <<toHost, job, ops, archives>>
      BY <1>7, Zenon DEF TimeOut, SendThrows, Kind, devVars
  <2> QED BY <2>1, FailKeepsReport DEF Shrinks
<1> QED BY <1>1, <1>2, <1>3, <1>5, <1>6, <1>7

\* A line that is taken away, by its reader or by a loss, leaves the others in their order.
LEMMA TakenFromHost ==
  ASSUME BackupTypes, ReportInv, toHost # <<>>, toHost' = Tail(toHost), UNCHANGED <<toDev, job, ops>>
  PROVE  /\ Numbered' /\ InTurn' /\ 1 \in DOMAIN toHost /\ Head(toHost) = toHost[1]
         /\ \A i \in DOMAIN toHost' : i + 1 \in DOMAIN toHost /\ toHost'[i] = toHost[i + 1] /\ 1 < i + 1
<1>1. /\ 1 \in DOMAIN toHost /\ Head(toHost) = toHost[1]
      /\ \A i \in DOMAIN toHost' : i \in Nat /\ i + 1 \in DOMAIN toHost /\ toHost'[i] = toHost[i + 1]
    BY OneLess DEF BackupTypes, LinesTyped
<1>2. \A i \in DOMAIN toHost' : (NowTold(i)' => NowTold(i + 1)) /\ (OldTold(i)' => OldTold(i + 1))
    BY <1>1 DEF NowTold, OldTold
<1>3. \A i, j \in DOMAIN toHost' : i < j => i + 1 < j + 1
    BY <1>1
<1>4. \A i \in DOMAIN toHost' : 1 < i + 1
  <2>1. \A i \in DOMAIN toHost' : i \in 1..Len(toHost')
      BY OneLess DEF BackupTypes, LinesTyped
  <2> QED BY <2>1
<1>5. Numbered'
    BY <1>1 DEF ReportInv, Numbered
<1>6. InTurn'
  <2>1. \A i, j \in DOMAIN toDev' : i < j /\ NowAsked(i)' => ~OldAsked(j)'
      BY DEF ReportInv, InTurn, NowAsked, OldAsked
  <2>2. \A i, j \in DOMAIN toHost' : i < j /\ NowTold(i)' => ~OldTold(j)'
      BY <1>1, <1>2, <1>3 DEF ReportInv, InTurn
  <2>3. NowJob' => \A j \in DOMAIN toDev' : ~OldAsked(j)'
      BY DEF ReportInv, InTurn, NowJob, OldAsked
  <2>4. \A i \in DOMAIN toHost' : NowTold(i)' => ~OldJob' /\ \A j \in DOMAIN toDev' : ~OldAsked(j)'
      BY <1>1, <1>2 DEF ReportInv, InTurn, OldJob, OldAsked
  <2> QED BY <2>1, <2>2, <2>3, <2>4 DEF InTurn
<1> QED BY <1>1, <1>4, <1>5, <1>6

\* The page, its archive and its history, when a line is gone and nothing else has changed.
LEMMA LostFromHost ==
  ASSUME BackupTypes, ReportInv, toHost # <<>>, toHost' = Tail(toHost),
         UNCHANGED <<toDev, job, ops, page, imp, archives, restored, result>>,
         buf' = buf \/ (buf.on /\ buf'.on /\ buf'.sha = buf.sha)
  PROVE  ((late' <=> late) => ReportInv') /\ Opening' /\ WholeArchives' /\ Numbered' /\ InTurn'
<1>1. /\ Numbered' /\ InTurn' /\ \A i \in DOMAIN toHost' : i + 1 \in DOMAIN toHost /\ toHost'[i] = toHost[i + 1]
    BY TakenFromHost
<1>2. Kept /\ \A a : Blob(a)' = Blob(a)
    BY Zenon DEF Kept, Blob, BlobLen
<1>3. \A i \in DOMAIN toHost' : (NowTold(i)' => NowTold(i + 1)) /\ (OldTold(i)' => OldTold(i + 1))
    BY <1>1 DEF NowTold, OldTold
<1>4. Opening'
    BY <1>1, <1>3 DEF ReportInv, Opening, NowAsked, NowJob
<1>5. WholeArchives'
    BY <1>1, <1>2 DEF ReportInv, WholeArchives
<1>6. ASSUME late' <=> late PROVE ReportInv'
  <2>1. Sending'
    <3> SUFFICES ASSUME page.at \in {"chunks", "commitSent", "commit"}, ~late PROVE Sending'
        BY <1>6 DEF Sending
    <3>1. /\ \A i \in DOMAIN toDev : ~OldAsked(i) /\ toDev[i].cmd # "begin"
          /\ imp.on => imp.sha = page.file
          /\ ~OldJob /\ (job.at \in {"next", "save"} => IsFile(job.arch))
          /\ \A i \in DOMAIN toHost : ~OldTold(i) /\ (toHost[i].ev = "IMPORT_DONE" => \E a \in restored : IsFile(a))
        BY DEF ReportInv, Sending
    <3>2. \A a : IsFile(a) => IsFile(a)'
        BY <1>2 DEF IsFile
    <3>3. \A i \in DOMAIN toHost' : ~OldTold(i)' /\ (toHost'[i].ev = "IMPORT_DONE" => \E a \in restored' : IsFile(a)')
        BY <1>1, <1>3, <3>1, <3>2
    <3>4. ~OldJob' /\ (\A i \in DOMAIN toDev' : ~OldAsked(i)' /\ toDev'[i].cmd # "begin")
        BY <3>1 DEF OldJob, OldAsked
    <3> QED BY <3>1, <3>2, <3>3, <3>4 DEF Sending
  <2>2. Saving'
    <3>1. \A s, p : OpensWith(s, p) => OpensWith(s, p)'
        BY <1>2, OpensKept
    <3> QED BY <1>1, <1>3, <1>6, <3>1 DEF ReportInv, Saving, NowAsked, NowJob
  <2> QED BY <1>1, <1>2, <1>4, <1>5, <1>6, <2>1, <2>2, ResultKept DEF ReportInv
<1> QED BY <1>1, <1>4, <1>5, <1>6

\* The device takes its next command: the others move up.
LEMMA TakenFromDev ==
  ASSUME BackupTypes, ReportInv, toDev # <<>>, toDev' = Tail(toDev), UNCHANGED <<toHost, job, ops>>
  PROVE  /\ Numbered' /\ InTurn'
         /\ \A i \in DOMAIN toDev' : i + 1 \in DOMAIN toDev /\ toDev'[i] = toDev[i + 1]
         /\ Len(toDev') = Len(toDev) - 1
<1>1. /\ \A i \in DOMAIN toDev' : i \in Nat /\ i + 1 \in DOMAIN toDev /\ toDev'[i] = toDev[i + 1]
      /\ Len(toDev') = Len(toDev) - 1
    BY OneLess, HeadTailProperties DEF BackupTypes, LinesTyped
<1>2. \A i \in DOMAIN toDev' : (NowAsked(i)' => NowAsked(i + 1)) /\ (OldAsked(i)' => OldAsked(i + 1))
    BY <1>1 DEF NowAsked, OldAsked
<1>3. \A i, j \in DOMAIN toDev' : i < j => i + 1 < j + 1
    BY <1>1
<1>4. Numbered'
    BY <1>1 DEF ReportInv, Numbered
<1>5. InTurn'
  <2>1. \A i, j \in DOMAIN toDev' : i < j /\ NowAsked(i)' => ~OldAsked(j)'
      BY <1>1, <1>2, <1>3 DEF ReportInv, InTurn
  <2>2. \A i, j \in DOMAIN toHost' : i < j /\ NowTold(i)' => ~OldTold(j)'
      BY DEF ReportInv, InTurn, NowTold, OldTold
  <2>3. NowJob' => \A j \in DOMAIN toDev' : ~OldAsked(j)'
      BY <1>1, <1>2 DEF ReportInv, InTurn, NowJob
  <2>4. \A i \in DOMAIN toHost' : NowTold(i)' => ~OldJob' /\ \A j \in DOMAIN toDev' : ~OldAsked(j)'
      BY <1>1, <1>2 DEF ReportInv, InTurn, OldJob, NowTold
  <2> QED BY <2>1, <2>2, <2>3, <2>4 DEF InTurn
<1> QED BY <1>1, <1>4, <1>5

\* A command is lost on its way.
LEMMA LostFromDev ==
  ASSUME BackupTypes, ReportInv, toDev # <<>>, toDev' = Tail(toDev),
         UNCHANGED <<toHost, job, ops, page, imp, archives, restored, result, late, buf>>
  PROVE  ReportInv'
<1>1. /\ Numbered' /\ InTurn' /\ \A i \in DOMAIN toDev' : i + 1 \in DOMAIN toDev /\ toDev'[i] = toDev[i + 1]
      /\ Len(toDev') = Len(toDev) - 1 /\ Len(toDev) \in Nat
    BY TakenFromDev DEF BackupTypes, LinesTyped
<1>2. Kept /\ \A a : Blob(a)' = Blob(a)
    BY Zenon DEF Kept, Blob, BlobLen
<1>3. \A i \in DOMAIN toDev' : i \in Nat /\ (NowAsked(i)' => NowAsked(i + 1)) /\ (OldAsked(i)' => OldAsked(i + 1))
  <2>1. toDev' \in Seq(Requests)
      BY OneLess DEF BackupTypes, LinesTyped
  <2> QED BY <1>1, <2>1 DEF NowAsked, OldAsked
<1>4. Opening'
  <2> SUFFICES ASSUME page.at \in {"beginSent", "begin"} PROVE Opening'
      BY DEF Opening
  <2>1. /\ \A i \in DOMAIN toDev : NowAsked(i) => toDev[i].cmd = "begin" /\ toDev[i].sha = page.file /\ i = Len(toDev)
        /\ ~NowJob
        /\ \A i \in DOMAIN toHost : NowTold(i) =>
             toHost[i].ev = "IMPORT_READY" /\ toDev = <<>> /\ (imp.on => imp.sha = page.file)
      BY DEF ReportInv, Opening
  <2>2. ~NowJob' /\ \A i \in DOMAIN toHost' : ~NowTold(i)'
      BY <2>1 DEF NowJob, NowTold
  <2>3. \A i \in DOMAIN toDev' : NowAsked(i)' => toDev'[i].cmd = "begin" /\ toDev'[i].sha = page.file /\ i = Len(toDev')
      BY <1>1, <1>3, <2>1
  <2> QED BY <2>2, <2>3 DEF Opening
<1>5. Sending'
  <2> SUFFICES ASSUME page.at \in {"chunks", "commitSent", "commit"}, ~late PROVE Sending'
      BY DEF Sending
  <2>1. /\ \A i \in DOMAIN toDev : ~OldAsked(i) /\ toDev[i].cmd # "begin"
        /\ imp.on => imp.sha = page.file
        /\ ~OldJob /\ (job.at \in {"next", "save"} => IsFile(job.arch))
        /\ \A i \in DOMAIN toHost : ~OldTold(i) /\ (toHost[i].ev = "IMPORT_DONE" => \E a \in restored : IsFile(a))
      BY DEF ReportInv, Sending
  <2>2. \A a : IsFile(a) => IsFile(a)'
      BY <1>2 DEF IsFile
  <2>3. \A i \in DOMAIN toDev' : ~OldAsked(i)' /\ toDev'[i].cmd # "begin"
      BY <1>1, <1>3, <2>1
  <2>4. ~OldJob' /\ \A i \in DOMAIN toHost' : ~OldTold(i)'
      BY <2>1 DEF OldJob, OldTold
  <2> QED BY <2>1, <2>2, <2>3, <2>4 DEF Sending
<1>6. Saving'
  <2>1. \A s, p : OpensWith(s, p) => OpensWith(s, p)'
      BY <1>2, OpensKept
  <2> QED BY <1>1, <1>3, <2>1 DEF ReportInv, Saving, NowJob, NowTold
<1>7. WholeArchives'
    BY <1>2 DEF ReportInv, WholeArchives
<1> QED BY <1>1, <1>2, <1>4, <1>5, <1>6, <1>7, ResultKept DEF ReportInv

\* The page reads a line.
LEMMA ReadKeepsReport == ASSUME BackupTypes, ReportInv, ReadLine PROVE ReportInv'
<1> DEFINE m == Head(toHost)
<1>1. /\ toHost # <<>> /\ toHost' = Tail(toHost) /\ OnLine(m) /\ (late' <=> (late \/ Belated(m)))
      /\ UNCHANGED <<job, ops, imp, archives, restored>> /\ Shrinks
    BY Zenon DEF ReadLine, devVars, Shrinks
<1>2. m = toHost[1] /\ 1 \in DOMAIN toHost /\ m \in Events
    BY <1>1, OneLess, LinesAre DEF BackupTypes, LinesTyped
<1> HIDE DEF m
<1>3. Kept /\ \A a : Blob(a)' = Blob(a)
    BY <1>1, Zenon DEF Kept, Blob, BlobLen
<1>4. UNCHANGED toDev => /\ Numbered' /\ InTurn'
                         /\ \A i \in DOMAIN toHost' : i + 1 \in DOMAIN toHost /\ toHost'[i] = toHost[i + 1] /\ 1 < i + 1
    BY <1>1, TakenFromHost
\* Nothing for the page, or pieces of the archive it is told.
<1>5. ASSUME UNCHANGED <<page, result, toDev>>, buf' = buf \/ (buf.on /\ buf'.on /\ buf'.sha = buf.sha) PROVE ReportInv'
  <2>1. ((late' <=> late) => ReportInv') /\ Opening' /\ WholeArchives' /\ Numbered' /\ InTurn'
      BY <1>1, <1>5, LostFromHost
  <2>2. CASE ~Belated(m)
      BY <1>1, <2>1, <2>2
  <2>3. CASE Belated(m)
    <3>1. late'
        BY <1>1, <2>3
    <3>2. Sending'
        BY <3>1 DEF Sending
    <3>3. Saving'
      <4> SUFFICES ASSUME page.at \in {"exportSent", "export"} PROVE Saving'
          BY <1>5 DEF Saving
      <4>1. /\ \A i \in DOMAIN toDev : NowAsked(i) => toDev[i].cmd = "export" /\ toDev[i].phrase = page.phrase
            /\ NowJob => job.at = "totp" /\ job.phrase = page.phrase
            /\ \A i \in DOMAIN toHost : NowTold(i) =>
                 toHost[i].ev = "EXPORT_START" /\ OpensWith(toHost[i].sha, page.phrase)
          BY DEF ReportInv, Saving
      <4>2. \A s, p : OpensWith(s, p) => OpensWith(s, p)'
          BY <1>3, OpensKept
      <4>3. \A i \in DOMAIN toHost' : NowTold(i)' =>
              toHost'[i].ev = "EXPORT_START" /\ OpensWith(toHost[i].sha, page.phrase)'
          BY <1>1, <1>4, <1>5, <4>1, <4>2 DEF NowTold
      <4>4. \A i \in DOMAIN toDev' : NowAsked(i)' => toDev'[i].cmd = "export" /\ toDev'[i].phrase = page'.phrase
          BY <1>1, <1>5, <4>1 DEF NowAsked
      <4>5. NowJob' => job'.at = "totp" /\ job'.phrase = page'.phrase
          BY <1>1, <1>5, <4>1 DEF NowJob
      <4> QED BY <3>1, <4>3, <4>4, <4>5 DEF Saving
    <3>4. DoneIsMine'
        BY <3>1 DEF DoneIsMine
    <3>5. SavedFileOpens'
        BY <1>1, <1>3, <1>5, <3>1 DEF ReportInv, SavedFileOpens
    <3> QED BY <2>1, <3>2, <3>3, <3>4, <3>5 DEF ReportInv
  <2> QED BY <2>2, <2>3
\* The archive is announced.
<1>6. ASSUME m.ev = "EXPORT_START", buf'.on, buf'.sha = m.sha, UNCHANGED <<page, result, toDev>> PROVE ReportInv'
  <2>1. \A i \in DOMAIN toHost' : i + 1 \in DOMAIN toHost /\ toHost'[i] = toHost[i + 1]
      BY <1>4, <1>6
  <2>2. Numbered' /\ InTurn'
      BY <1>4, <1>6
  <2>3. Opening'
      BY <1>1, <1>6, <2>1 DEF ReportInv, Opening, NowAsked, NowJob, NowTold
  <2>4. WholeArchives'
      BY <1>1, <1>2, <1>3, <1>6, <2>1 DEF ReportInv, WholeArchives
  <2>5. Sending'
    <3> SUFFICES ASSUME page.at \in {"chunks", "commitSent", "commit"}, ~late PROVE Sending'
        BY <1>1, <1>6 DEF Sending
    <3>1. /\ \A i \in DOMAIN toDev : ~OldAsked(i) /\ toDev[i].cmd # "begin"
          /\ imp.on => imp.sha = page.file
          /\ ~OldJob /\ (job.at \in {"next", "save"} => IsFile(job.arch))
          /\ \A i \in DOMAIN toHost : ~OldTold(i) /\ (toHost[i].ev = "IMPORT_DONE" => \E a \in restored : IsFile(a))
        BY DEF ReportInv, Sending
    <3>2. \A a : IsFile(a) => IsFile(a)'
        BY <1>1, <1>3, <1>6 DEF IsFile
    <3>3. \A i \in DOMAIN toHost' : ~OldTold(i)' /\ (toHost'[i].ev = "IMPORT_DONE" => \E a \in restored' : IsFile(a)')
        BY <1>1, <2>1, <3>1, <3>2 DEF OldTold
    <3>4. ~OldJob' /\ (\A i \in DOMAIN toDev' : ~OldAsked(i)' /\ toDev'[i].cmd # "begin")
        BY <1>1, <1>6, <3>1 DEF OldJob, OldAsked
    <3> QED BY <1>1, <1>6, <3>1, <3>2, <3>3, <3>4 DEF Sending
  <2>6. Saving'
    <3> SUFFICES ASSUME page.at \in {"exportSent", "export"} PROVE Saving'
        BY <1>6 DEF Saving
    <3>1. /\ \A i \in DOMAIN toDev : NowAsked(i) => toDev[i].cmd = "export" /\ toDev[i].phrase = page.phrase
          /\ NowJob => job.at = "totp" /\ job.phrase = page.phrase
          /\ \A i \in DOMAIN toHost : NowTold(i) =>
               toHost[i].ev = "EXPORT_START" /\ OpensWith(toHost[i].sha, page.phrase)
        BY DEF ReportInv, Saving
    <3>2. \A s, p : OpensWith(s, p) => OpensWith(s, p)'
        BY <1>3, OpensKept
    <3>3. \A i \in DOMAIN toHost' : NowTold(i)' =>
            toHost'[i].ev = "EXPORT_START" /\ OpensWith(toHost[i].sha, page.phrase)'
        BY <1>1, <1>6, <2>1, <3>1, <3>2 DEF NowTold
    <3>4. ~late' => NowTold(1)
        BY <1>1, <1>2, <1>6 DEF Belated, NowTold, Tells
    <3>5. ~late' => OpensWith(buf.sha, page.phrase)'
        BY <1>2, <1>6, <3>1, <3>2, <3>4
    <3>6. \A i \in DOMAIN toDev' : NowAsked(i)' => toDev'[i].cmd = "export" /\ toDev'[i].phrase = page'.phrase
        BY <1>1, <1>6, <3>1 DEF NowAsked
    <3>7. NowJob' => job'.at = "totp" /\ job'.phrase = page'.phrase
        BY <1>1, <1>6, <3>1 DEF NowJob
    <3> QED BY <3>3, <3>5, <3>6, <3>7 DEF Saving
  <2>7. DoneIsMine'
      BY <1>1, <1>3, <1>6 DEF ReportInv, DoneIsMine
  <2>8. SavedFileOpens'
      BY <1>1, <1>3, <1>6 DEF ReportInv, SavedFileOpens
  <2> QED BY <2>2, <2>3, <2>4, <2>5, <2>6, <2>7, <2>8 DEF ReportInv
\* The answer is no, or not what was promised.
<1>7. ASSUME NEW k \in {"export", "import"}, Fail(k) PROVE ReportInv'
    BY <1>1, <1>7, FailKeepsReport
\* The page is done with the operation.
<1>8. ASSUME UNCHANGED toDev, page'.at \in {"idle", "connecting"}, buf' = buf \/ ~buf'.on, DoneIsMine', SavedFileOpens'
      PROVE  ReportInv'
    BY <1>1, <1>4, <1>8, GivenUp, Shrunk
<1>9. ASSUME m.ev = "EXPORT_DONE", page.at = "export", TakeArchive PROVE ReportInv'
  <2>1. CASE ~(buf.on /\ hexBlob = buf.sha)
      BY <1>7, <1>9, <2>1 DEF TakeArchive
  <2>2. CASE buf.on /\ hexBlob = buf.sha
    <3>1. /\ page' = NoPage /\ buf' = NoBuf /\ UNCHANGED toDev
          /\ result'.kind = "export" /\ result'.phrase = page.phrase /\ result'.file = buf.sha
        BY <1>9, <2>2 DEF TakeArchive
    <3>2. page'.at = "idle" /\ ~buf'.on
        BY <3>1 DEF NoPage, NoBuf
    <3>3. \E a \in DOMAIN archives : buf.sha = Blob(a) /\ (late \/ archives[a].phrase = page.phrase)
        BY <1>9, <2>2 DEF ReportInv, Saving, WholeArchives, OpensWith
    <3>4. SavedFileOpens'
        BY <1>1, <1>3, <3>1, <3>3 DEF SavedFileOpens
    <3>5. DoneIsMine'
        BY <3>1 DEF DoneIsMine
    <3> QED BY <1>8, <3>1, <3>2, <3>4, <3>5
  <2> QED BY <2>1, <2>2
\* The page is told to send.
<1>10. ASSUME m.ev = "IMPORT_READY", page.at = "begin", page' = [page EXCEPT !.at = "chunks"],
              UNCHANGED <<buf, result, toDev>> PROVE ReportInv'
  <2>1. \A i \in DOMAIN toHost' : i + 1 \in DOMAIN toHost /\ toHost'[i] = toHost[i + 1] /\ 1 < i + 1
      BY <1>4, <1>10
  <2>2. Numbered' /\ InTurn'
      BY <1>4, <1>10
  <2>3. page'.at = "chunks" /\ page'.file = page.file
    <3>1. page \in [at : BusyAt, phrase : Phrases, file : Hex, over : BOOLEAN, n : Nat]
        BY <1>10 DEF BackupTypes, PageTyped, Pages
    <3> QED BY <1>10, <3>1
  <2>4. Opening' /\ Saving'
      BY <2>3 DEF Opening, Saving
  <2>5. WholeArchives'
      BY <1>1, <1>3, <1>10, <2>1 DEF ReportInv, WholeArchives
  <2>6. Sending'
    <3>1. CASE m.op # ops
      <4>1. late'
          BY <1>1, <1>10, <3>1 DEF Belated
      <4> QED BY <4>1 DEF Sending
    <3>2. CASE m.op = ops
      <4>1. NowTold(1)
          BY <1>2, <1>10, <3>2 DEF NowTold, Tells
      <4>2. toDev = <<>> /\ (imp.on => imp.sha = page.file) /\ ~NowJob
          BY <1>2, <1>10, <4>1 DEF ReportInv, Opening
      <4>3. ~OldJob /\ \A j \in DOMAIN toHost : 1 < j => ~OldTold(j)
          BY <1>2, <4>1 DEF ReportInv, InTurn
      <4>4. job.at = "idle"
          BY <4>2, <4>3 DEF NowJob, OldJob
      <4>5. \A j \in DOMAIN toHost : 1 < j => toHost[j].ev # "IMPORT_DONE"
          BY <1>10, <4>3 DEF ReportInv, Opening, NowTold, OldTold, Tells
      <4>6. \A i \in DOMAIN toHost' : ~OldTold(i)' /\ toHost'[i].ev # "IMPORT_DONE"
          BY <1>1, <2>1, <4>3, <4>5 DEF OldTold
      <4>7. DOMAIN toDev' = {} /\ ~OldJob' /\ job'.at = "idle" /\ (imp'.on => imp'.sha = page'.file)
          BY <1>1, <1>10, <2>3, <4>2, <4>4 DEF OldJob
      <4> QED BY <4>6, <4>7 DEF Sending
    <3> QED BY <3>1, <3>2
  <2>7. DoneIsMine'
      BY <1>1, <1>3, <1>10 DEF ReportInv, DoneIsMine
  <2>8. SavedFileOpens'
      BY <1>1, <1>3, <1>10 DEF ReportInv, SavedFileOpens
  <2> QED BY <2>2, <2>4, <2>5, <2>6, <2>7, <2>8 DEF ReportInv
\* The page is told that the restore is done.
<1>11. ASSUME m.ev = "IMPORT_DONE", page.at = "commit", page' = NoPage, Report("import", TRUE), UNCHANGED <<buf, toDev>>
       PROVE  ReportInv'
  <2>1. page'.at = "idle" /\ result'.kind = "import" /\ result'.file = page.file
      BY <1>11 DEF NoPage, Report
  <2>2. ~late' => \E a \in restored : IsFile(a)
      BY <1>1, <1>2, <1>11 DEF ReportInv, Sending
  <2>3. DoneIsMine'
      BY <1>1, <1>3, <2>1, <2>2 DEF DoneIsMine, IsFile
  <2>4. SavedFileOpens'
      BY <2>1 DEF SavedFileOpens
  <2> QED BY <1>8, <1>11, <2>1, <2>3, <2>4
\* A page that is opened again has nothing under way.
<1>12. ASSUME page.at = "connecting", page' \in {page, NoPage}, UNCHANGED <<buf, result, toDev>> PROVE ReportInv'
  <2>1. page'.at \in {"idle", "connecting"}
      BY <1>12 DEF NoPage
  <2>2. DoneIsMine'
      BY <1>1, <1>3, <1>12 DEF ReportInv, DoneIsMine
  <2>3. SavedFileOpens'
      BY <1>1, <1>3, <1>12 DEF ReportInv, SavedFileOpens
  <2> QED BY <1>8, <1>12, <2>1, <2>2, <2>3
<1>13. ASSUME buf.on, buf' = [buf EXCEPT !.chunks = WithChunk(@, m.seq, m.data)], UNCHANGED <<page, result, toDev>> PROVE ReportInv'
  <2>1. buf'.on /\ buf'.sha = buf.sha
      BY <1>13
  <2> QED BY <1>5, <1>13, <2>1
<1>14. ASSUME m.ev = "EXPORT_START", buf' = [on |-> TRUE, chunks |-> [n \in 1..m.len |-> <<>>], sha |-> m.sha],
              UNCHANGED <<page, result, toDev>> PROVE ReportInv'
    BY <1>6, <1>14
<1>15. ASSUME UNCHANGED <<page, buf, result, toDev>> PROVE ReportInv'
    BY <1>5, <1>15
<1>16. CASE page.at = "connecting"
  <2>1. page' = (IF m.ev = "BOOT" THEN NoPage ELSE page) /\ UNCHANGED <<buf, result, toDev>>
      BY <1>1, <1>16 DEF OnLine
  <2>2. page' \in {page, NoPage}
      BY <2>1
  <2> QED BY <1>12, <1>16, <2>1, <2>2
<1>17. CASE page.at # "connecting"
    BY <1>1, <1>7, <1>9, <1>10, <1>11, <1>13, <1>14, <1>15, <1>17 DEF OnLine, Kind
<1> QED BY <1>16, <1>17

\* The page goes away, and comes back to nothing.
LEMMA CloseKeepsReport == ASSUME BackupTypes, ReportInv, ClosePage PROVE ReportInv'
<1>1. PICK bye \in {<<>>, <<[cmd |-> "restart"]>>} : toDev' = toDev \o bye \o <<[cmd |-> "connect"]>>
    BY DEF ClosePage
<1>2. /\ UNCHANGED <<toHost, job, ops, archives>> /\ page' = [at |-> "connecting"] /\ buf' = NoBuf /\ result' = NoResult
    BY Zenon DEF ClosePage, devVars, histVars
<1>3. \A i \in DOMAIN toDev' : (i \in DOMAIN toDev /\ toDev'[i] = toDev[i]) \/ toDev'[i].cmd \in {"restart", "connect"}
  <2>1. toDev \in Seq(Requests)
      BY DEF BackupTypes, LinesTyped
  <2> QED BY <1>1, <2>1
<1>4. \A i, j \in DOMAIN toDev' : i < j /\ j \in DOMAIN toDev => i \in DOMAIN toDev /\ toDev'[i] = toDev[i]
  <2>1. toDev \in Seq(Requests)
      BY DEF BackupTypes, LinesTyped
  <2> QED BY <1>1, <2>1
<1>5. \A i \in DOMAIN toDev' : OldAsked(i)' => i \in DOMAIN toDev /\ OldAsked(i) /\ toDev'[i] = toDev[i]
    BY <1>2, <1>3 DEF OldAsked, Asks
<1>6. Numbered'
    BY <1>2, <1>3 DEF ReportInv, Numbered, Asks
<1>7. InTurn'
  <2>1. \A i, j \in DOMAIN toDev' : i < j /\ NowAsked(i)' => ~OldAsked(j)'
      BY <1>2, <1>4, <1>5 DEF ReportInv, InTurn, NowAsked
  <2>2. \A i, j \in DOMAIN toHost' : i < j /\ NowTold(i)' => ~OldTold(j)'
      BY <1>2 DEF ReportInv, InTurn, NowTold, OldTold
  <2>3. NowJob' => \A j \in DOMAIN toDev' : ~OldAsked(j)'
      BY <1>2, <1>5 DEF ReportInv, InTurn, NowJob
  <2>4. \A i \in DOMAIN toHost' : NowTold(i)' => ~OldJob' /\ \A j \in DOMAIN toDev' : ~OldAsked(j)'
      BY <1>2, <1>5 DEF ReportInv, InTurn, OldJob, NowTold
  <2> QED BY <2>1, <2>2, <2>3, <2>4 DEF InTurn
<1>8. DoneIsMine' /\ SavedFileOpens' /\ page'.at = "connecting" /\ ~buf'.on
    BY <1>2 DEF DoneIsMine, SavedFileOpens, NoResult, NoBuf
<1> QED BY <1>2, <1>6, <1>7, <1>8, GivenUp

\* Either line loses its first message.
LEMMA LossKeepsReport == ASSUME BackupTypes, ReportInv, LoseLine PROVE ReportInv'
<1>1. UNCHANGED <<job, ops, page, imp, archives, restored, result, late, buf>>
    BY Zenon DEF LoseLine, devVars, pageVars
<1>2. CASE toDev # <<>> /\ toDev' = Tail(toDev) /\ UNCHANGED toHost
    BY <1>1, <1>2, LostFromDev
<1>3. CASE toHost # <<>> /\ toHost' = Tail(toHost) /\ UNCHANGED toDev
    BY <1>1, <1>3, LostFromHost
<1> QED BY <1>2, <1>3 DEF LoseLine

\* The device takes a command: a task or an answer that is about an operation is about the
\* command's, and the import that is open was announced by it or is the one that was.
Commanded(c) ==
  /\ job = NoJob /\ toDev # <<>> /\ c = toDev[1] /\ toDev' = Tail(toDev)
  /\ UNCHANGED <<ops, page, buf, result, late, archives, restored>>
  /\ \/ UNCHANGED toHost
     \/ \E e \in Events :
          /\ toHost' = Append(toHost, e) /\ e.ev \notin {"EXPORT_START", "IMPORT_DONE"}
          /\ e.ev = "IMPORT_READY" => /\ c.cmd = "begin" /\ e.op = c.op /\ UNCHANGED job
                                      /\ imp'.on => imp'.sha = c.sha
  /\ imp'.on => (imp.on /\ imp'.sha = imp.sha) \/ (c.cmd = "begin" /\ imp'.sha = c.sha)
  /\ \/ UNCHANGED job
     \/ c.cmd = "export" /\ job'.at = "totp" /\ job'.phrase = c.phrase /\ job'.op = c.op
     \/ /\ c.cmd = "commit" /\ job'.at = "next" /\ job'.op = c.op
        /\ imp.on /\ job'.arch \in DOMAIN archives /\ Blob(job'.arch) = imp.sha

\* Such a command leaves the reports true.
LEMMA CommandKeepsReport == ASSUME BackupTypes, ReportInv, NEW c \in Requests, Commanded(c) PROVE ReportInv'
<1>1. /\ \A i \in DOMAIN toDev' : i \in Nat /\ i + 1 \in DOMAIN toDev /\ toDev'[i] = toDev[i + 1] /\ 1 < i + 1
      /\ Len(toDev') = Len(toDev) - 1 /\ 1 \in DOMAIN toDev /\ Len(toDev) \in Nat
  <2>1. toDev \in Seq(Requests) /\ toDev # <<>> /\ toDev' = Tail(toDev) /\ toDev' \in Seq(Requests)
      BY OneLess DEF Commanded, BackupTypes, LinesTyped
  <2>2. \A i \in DOMAIN toDev' : i \in Nat /\ i + 1 \in DOMAIN toDev /\ toDev'[i] = toDev[i + 1]
      BY <2>1, OneLess
  <2>3. \A i \in DOMAIN toDev' : i \in 1..Len(toDev')
      BY <2>1
  <2>4. \A i \in DOMAIN toDev' : 1 < i + 1
      BY <2>3
  <2>5. Len(toDev') = Len(toDev) - 1 /\ 1 \in DOMAIN toDev /\ Len(toDev) \in Nat
      BY <2>1, OneLess, HeadTailProperties
  <2> QED BY <2>2, <2>4, <2>5
<1>2. UNCHANGED <<ops, page, buf, result, late, archives, restored>> /\ c = toDev[1] /\ job = NoJob /\ toDev # <<>>
    BY DEF Commanded
<1>3. Kept /\ \A a : Blob(a)' = Blob(a)
    BY <1>2, Zenon DEF Kept, Blob, BlobLen
<1>4. \A i \in DOMAIN toDev' : (NowAsked(i)' => NowAsked(i + 1)) /\ (OldAsked(i)' => OldAsked(i + 1))
    BY <1>1, <1>2 DEF NowAsked, OldAsked
<1>5. \A i, j \in DOMAIN toDev' : i < j => i + 1 < j + 1
    BY <1>1
\* The newest line to the page.
<1>6. \A i \in DOMAIN toHost' :
        \/ i \in DOMAIN toHost /\ toHost'[i] = toHost[i]
        \/ /\ toHost'[i].ev \notin {"EXPORT_START", "IMPORT_DONE"}
           /\ Tells(toHost'[i]) => /\ toHost'[i].ev = "IMPORT_READY" /\ c.cmd = "begin" /\ toHost'[i].op = c.op /\ UNCHANGED job
                                   /\ imp'.on => imp'.sha = c.sha
  <2>1. toHost \in Seq(Events)
      BY DEF BackupTypes, LinesTyped
  <2>2. CASE UNCHANGED toHost
      BY <2>2
  <2>3. CASE ~UNCHANGED toHost
    <3>1. PICK e \in Events :
          /\ toHost' = Append(toHost, e) /\ e.ev \notin {"EXPORT_START", "IMPORT_DONE"}
          /\ e.ev = "IMPORT_READY" => /\ c.cmd = "begin" /\ e.op = c.op /\ UNCHANGED job
                                      /\ imp'.on => imp'.sha = c.sha
        BY <2>3 DEF Commanded
    <3>2. \A i \in DOMAIN toHost' : (i \in DOMAIN toHost /\ toHost'[i] = toHost[i]) \/ toHost'[i] = e
        BY <2>1, <3>1
    <3> QED BY <3>1, <3>2 DEF Tells
  <2> QED BY <2>2, <2>3
<1>7. \A i, j \in DOMAIN toHost' : i < j => i \in DOMAIN toHost /\ toHost'[i] = toHost[i]
  <2>1. toHost \in Seq(Events)
      BY DEF BackupTypes, LinesTyped
  <2>2. UNCHANGED toHost \/ \E e \in Events : toHost' = Append(toHost, e)
      BY DEF Commanded
  <2> QED BY <2>1, <2>2
\* The task, if the command starts one.
<1>8. /\ job.at = "idle" /\ ~NowJob /\ ~OldJob
      /\ \/ UNCHANGED job
         \/ c.cmd = "export" /\ job'.at = "totp" /\ job'.phrase = c.phrase /\ job'.op = c.op
         \/ /\ c.cmd = "commit" /\ job'.at = "next" /\ job'.op = c.op
            /\ imp.on /\ job'.arch \in DOMAIN archives /\ Blob(job'.arch) = imp.sha
    BY DEF Commanded, NoJob, NowJob, OldJob
<1>9. (NowJob' => NowAsked(1)) /\ (OldJob' => OldAsked(1))
    BY <1>2, <1>8 DEF NowJob, OldJob, NowAsked, OldAsked, Asks
<1>10. \A i \in DOMAIN toHost' : (NowTold(i)' => (i \in DOMAIN toHost /\ NowTold(i)) \/ (NowAsked(1) /\ c.cmd = "begin" /\ UNCHANGED job))
                              /\ (OldTold(i)' => (i \in DOMAIN toHost /\ OldTold(i)) \/ (OldAsked(1) /\ c.cmd = "begin"))
    BY <1>2, <1>6 DEF NowTold, OldTold, NowAsked, OldAsked, Asks
<1>11. Numbered'
  <2>1. \A i \in DOMAIN toDev' : Asks(toDev'[i]) => toDev'[i].op <= ops'
      BY <1>1, <1>2 DEF ReportInv, Numbered
  <2>2. job'.at # "idle" => job'.op <= ops'
      BY <1>1, <1>2, <1>8 DEF ReportInv, Numbered, Asks
  <2>3. \A i \in DOMAIN toHost' : Tells(toHost'[i]) => toHost'[i].op <= ops'
      BY <1>1, <1>2, <1>6 DEF ReportInv, Numbered, Asks
  <2> QED BY <2>1, <2>2, <2>3 DEF Numbered
<1>12. InTurn'
  <2>1. \A i, j \in DOMAIN toDev' : i < j /\ NowAsked(i)' => ~OldAsked(j)'
      BY <1>1, <1>4, <1>5 DEF ReportInv, InTurn
  <2>2. \A i, j \in DOMAIN toHost' : i < j /\ NowTold(i)' => ~OldTold(j)'
    <3> SUFFICES ASSUME NEW i \in DOMAIN toHost', NEW j \in DOMAIN toHost', i < j, NowTold(i)', OldTold(j)' PROVE FALSE
        OBVIOUS
    <3>1. i \in DOMAIN toHost /\ NowTold(i)
        BY <1>2, <1>7 DEF NowTold
    <3>2. (j \in DOMAIN toHost /\ OldTold(j)) \/ OldAsked(1)
        BY <1>10
    <3> QED BY <1>1, <3>1, <3>2 DEF ReportInv, InTurn
  <2>3. NowJob' => \A j \in DOMAIN toDev' : ~OldAsked(j)'
      BY <1>1, <1>4, <1>9 DEF ReportInv, InTurn
  <2>4. \A i \in DOMAIN toHost' : NowTold(i)' => ~OldJob' /\ \A j \in DOMAIN toDev' : ~OldAsked(j)'
    <3> SUFFICES ASSUME NEW i \in DOMAIN toHost', NowTold(i)' PROVE ~OldJob' /\ \A j \in DOMAIN toDev' : ~OldAsked(j)'
        OBVIOUS
    <3>1. CASE i \in DOMAIN toHost /\ NowTold(i)
        BY <1>1, <1>4, <1>9, <3>1 DEF ReportInv, InTurn
    <3>2. CASE NowAsked(1) /\ UNCHANGED job
      <4>1. ~OldJob'
          BY <1>8, <3>2 DEF OldJob
      <4> QED BY <1>1, <1>4, <3>2, <4>1 DEF ReportInv, InTurn
    <3> QED BY <1>10, <3>1, <3>2
  <2> QED BY <2>1, <2>2, <2>3, <2>4 DEF InTurn
<1>13. Opening'
  <2> SUFFICES ASSUME page.at \in {"beginSent", "begin"} PROVE Opening'
      BY <1>2 DEF Opening
  <2>1. /\ \A i \in DOMAIN toDev : NowAsked(i) => toDev[i].cmd = "begin" /\ toDev[i].sha = page.file /\ i = Len(toDev)
        /\ \A i \in DOMAIN toHost : ~NowTold(i)
      BY <1>2 DEF ReportInv, Opening
  <2>2. \A i \in DOMAIN toDev' : NowAsked(i)' => toDev'[i].cmd = "begin" /\ toDev'[i].sha = page.file /\ i = Len(toDev')
      BY <1>1, <1>4, <2>1
  <2>3. ~NowJob'
      BY <1>1, <1>2, <1>8, <1>9, <2>1 DEF NowJob
  <2>4. \A i \in DOMAIN toHost' : NowTold(i)' =>
          toHost'[i].ev = "IMPORT_READY" /\ toDev' = <<>> /\ (imp'.on => imp'.sha = page.file)
    <3> SUFFICES ASSUME NEW i \in DOMAIN toHost', NowTold(i)'
                 PROVE  toHost'[i].ev = "IMPORT_READY" /\ toDev' = <<>> /\ (imp'.on => imp'.sha = page.file)
        OBVIOUS
    <3>1. NowAsked(1) /\ ~(i \in DOMAIN toHost /\ toHost'[i] = toHost[i])
        BY <1>2, <1>10, <2>1 DEF NowTold
    <3>2. c.sha = page.file /\ Len(toDev) = 1
        BY <1>1, <1>2, <2>1, <3>1
    <3>3. toDev' = <<>>
      <4>1. Len(toDev') = 0
          BY <1>1, <3>2
      <4>2. toDev' \in Seq(Requests)
          BY OneLess DEF Commanded, BackupTypes, LinesTyped
      <4> QED BY <4>1, <4>2, EmptySeq
    <3> QED BY <1>6, <3>1, <3>2, <3>3 DEF NowTold
  <2> QED BY <1>2, <2>2, <2>3, <2>4 DEF Opening
<1>14. Sending'
  <2> SUFFICES ASSUME page.at \in {"chunks", "commitSent", "commit"}, ~late PROVE Sending'
      BY <1>2 DEF Sending
  <2>1. /\ \A i \in DOMAIN toDev : ~OldAsked(i) /\ toDev[i].cmd # "begin"
        /\ imp.on => imp.sha = page.file
        /\ \A i \in DOMAIN toHost : ~OldTold(i) /\ (toHost[i].ev = "IMPORT_DONE" => \E a \in restored : IsFile(a))
      BY DEF ReportInv, Sending
  <2>2. \A a : IsFile(a) => IsFile(a)'
      BY <1>2, <1>3 DEF IsFile
  <2>3. \A i \in DOMAIN toDev' : ~OldAsked(i)' /\ toDev'[i].cmd # "begin"
      BY <1>1, <1>4, <2>1
  <2>4. c.cmd # "begin" /\ ~OldAsked(1)
      BY <1>1, <1>2, <2>1
  <2>5. imp'.on => imp'.sha = page.file
      BY <2>1, <2>4 DEF Commanded
  <2>6. ~OldJob' /\ (job'.at \in {"next", "save"} => IsFile(job'.arch))
      BY <1>8, <1>9, <2>1, <2>4 DEF IsFile
  <2>7. \A i \in DOMAIN toHost' : ~OldTold(i)' /\ (toHost'[i].ev = "IMPORT_DONE" => \E a \in restored : IsFile(a))
      BY <1>6, <1>10, <2>1, <2>4
  <2> QED BY <1>2, <2>2, <2>3, <2>5, <2>6, <2>7 DEF Sending
<1>15. Saving'
  <2> SUFFICES ASSUME page.at \in {"exportSent", "export"} PROVE Saving'
      BY <1>2 DEF Saving
  <2>1. /\ \A i \in DOMAIN toDev : NowAsked(i) => toDev[i].cmd = "export" /\ toDev[i].phrase = page.phrase
        /\ \A i \in DOMAIN toHost : NowTold(i) =>
             toHost[i].ev = "EXPORT_START" /\ OpensWith(toHost[i].sha, page.phrase)
        /\ buf.on /\ ~late => OpensWith(buf.sha, page.phrase)
      BY DEF ReportInv, Saving
  <2>2. \A s, p : OpensWith(s, p) => OpensWith(s, p)'
      BY <1>3, OpensKept
  <2>3. \A i \in DOMAIN toDev' : NowAsked(i)' => toDev'[i].cmd = "export" /\ toDev'[i].phrase = page'.phrase
      BY <1>1, <1>2, <1>4, <2>1
  <2>4. NowJob' => job'.at = "totp" /\ job'.phrase = page'.phrase
      BY <1>1, <1>2, <1>8, <1>9, <2>1 DEF NowJob
  <2>5. \A i \in DOMAIN toHost' : NowTold(i)' => i \in DOMAIN toHost /\ NowTold(i) /\ toHost'[i] = toHost[i]
    <3>1. ~(NowAsked(1) /\ c.cmd = "begin")
        BY <1>1, <1>2, <2>1
    <3> QED BY <1>2, <1>6, <3>1 DEF NowTold, NowAsked, Asks
  <2>6. \A i \in DOMAIN toHost' : NowTold(i)' =>
          toHost'[i].ev = "EXPORT_START" /\ OpensWith(toHost[i].sha, page.phrase)'
      BY <1>2, <2>1, <2>2, <2>5
  <2>7. buf'.on /\ ~late' => OpensWith(buf.sha, page.phrase)'
      BY <1>2, <2>1, <2>2
  <2> QED BY <2>3, <2>4, <2>6, <2>7 DEF Saving
<1>16. WholeArchives'
    BY <1>2, <1>3, <1>6 DEF ReportInv, WholeArchives
<1> QED BY <1>2, <1>3, <1>11, <1>12, <1>13, <1>14, <1>15, <1>16, ResultKept DEF ReportInv

\* Steps that leave the lines and the page alone, and the operation of the task.
LEMMA AsideKeepsReport ==
  ASSUME BackupTypes, ReportInv, UNCHANGED <<toDev, toHost, ops, page, buf, result, late, archives, restored, imp>>,
         \/ UNCHANGED job
         \/ /\ job.at \in {"next", "save"} /\ job'.at \in {"next", "save"}
            /\ job'.op = job.op /\ job'.arch = job.arch
  PROVE  ReportInv'
<1>1. Kept /\ \A a : Blob(a)' = Blob(a)
    BY Zenon DEF Kept, Blob, BlobLen
<1>2. (NowJob' <=> NowJob) /\ (OldJob' <=> OldJob) /\ (job.at = "idle" <=> job'.at = "idle")
      /\ (job'.at \in {"next", "save"} => job.at \in {"next", "save"} /\ job'.arch = job.arch)
    BY DEF NowJob, OldJob
<1>3. Numbered'
    BY DEF ReportInv, Numbered
<1>4. InTurn'
    BY <1>2 DEF ReportInv, InTurn, NowAsked, OldAsked, NowTold, OldTold
<1>5. Opening'
    BY <1>2 DEF ReportInv, Opening, NowAsked, NowTold
<1>6. Sending'
  <2>1. \A a : IsFile(a)' <=> IsFile(a)
      BY <1>1 DEF IsFile
  <2> QED BY <1>2, <2>1 DEF ReportInv, Sending, OldAsked, OldTold
<1>7. Saving'
  <2>1. \A s, p : OpensWith(s, p) => OpensWith(s, p)'
      BY <1>1, OpensKept
  <2> SUFFICES ASSUME page.at \in {"exportSent", "export"} PROVE Saving'
      BY DEF Saving
  <2>3. /\ \A i \in DOMAIN toDev : NowAsked(i) => toDev[i].cmd = "export" /\ toDev[i].phrase = page.phrase
        /\ NowJob => job.at = "totp" /\ job.phrase = page.phrase
        /\ \A i \in DOMAIN toHost : NowTold(i) => toHost[i].ev = "EXPORT_START" /\ OpensWith(toHost[i].sha, page.phrase)
        /\ buf.on /\ ~late => OpensWith(buf.sha, page.phrase)
      BY DEF ReportInv, Saving
  <2>4. NowJob' => job'.at = "totp" /\ job'.phrase = page'.phrase
    <3>1. CASE UNCHANGED job
        BY <1>2, <2>3, <3>1
    <3>2. CASE job.at \in {"next", "save"}
        BY <1>2, <2>3, <3>2
    <3> QED BY <3>1, <3>2
  <2>5. \A i \in DOMAIN toHost' : NowTold(i)' => toHost'[i].ev = "EXPORT_START" /\ OpensWith(toHost[i].sha, page.phrase)'
      BY <2>1, <2>3 DEF NowTold
  <2>6. buf'.on /\ ~late' => OpensWith(buf.sha, page.phrase)'
      BY <2>1, <2>3
  <2>7. \A i \in DOMAIN toDev' : NowAsked(i)' => toDev'[i].cmd = "export" /\ toDev'[i].phrase = page'.phrase
      BY <2>3 DEF NowAsked
  <2> QED BY <2>4, <2>5, <2>6, <2>7 DEF Saving
<1>8. WholeArchives'
    BY <1>1 DEF ReportInv, WholeArchives
<1> QED BY <1>1, <1>3, <1>4, <1>5, <1>6, <1>7, <1>8, ResultKept DEF ReportInv

\* The task is done: what it tells is about its own operation.
Answered ==
  /\ job.at \in {"totp", "next"} /\ job' = NoJob
  /\ UNCHANGED <<toDev, ops, page, buf, result, late, imp>> /\ Kept /\ restored \subseteq restored'
  /\ \A i \in DOMAIN toHost' :
       \/ i \in DOMAIN toHost /\ toHost'[i] = toHost[i]
       \/ i \notin DOMAIN toHost /\ ~Tells(toHost'[i])
       \/ /\ i \notin DOMAIN toHost /\ toHost'[i].op = job.op
          /\ \/ toHost'[i].ev = "EXPORT_START" /\ job.at = "totp" /\ (\E p : p = job.phrase /\ OpensWith(toHost[i].sha, p)')
             \/ toHost'[i].ev = "IMPORT_DONE" /\ job.at = "next" /\ (job.op = ops => job.arch \in restored')
  /\ \A i, j \in DOMAIN toHost' : i < j /\ j \in DOMAIN toHost => i \in DOMAIN toHost

\* Such an answer leaves the reports true.
LEMMA AnswerKeepsReport == ASSUME BackupTypes, ReportInv, Answered PROVE ReportInv'
<1>1. /\ job.at \in {"totp", "next"} /\ job' = NoJob
      /\ UNCHANGED <<toDev, ops, page, buf, result, late, imp>> /\ Kept /\ restored \subseteq restored'
    BY DEF Answered
<1>2. \A i \in DOMAIN toHost' :
        \/ i \in DOMAIN toHost /\ toHost'[i] = toHost[i]
        \/ i \notin DOMAIN toHost /\ ~Tells(toHost'[i])
        \/ /\ i \notin DOMAIN toHost /\ toHost'[i].op = job.op
           /\ \/ toHost'[i].ev = "EXPORT_START" /\ job.at = "totp" /\ (\E p : p = job.phrase /\ OpensWith(toHost[i].sha, p)')
              \/ toHost'[i].ev = "IMPORT_DONE" /\ job.at = "next" /\ (job.op = ops => job.arch \in restored')
    BY DEF Answered
<1>3. \A i, j \in DOMAIN toHost' : i < j /\ j \in DOMAIN toHost => i \in DOMAIN toHost
    BY DEF Answered
<1>4. ~NowJob' /\ ~OldJob' /\ job'.at = "idle"
    BY <1>1 DEF NoJob, NowJob, OldJob
<1>5. \A i \in DOMAIN toHost' :
        /\ NowTold(i)' => ((i \in DOMAIN toHost /\ NowTold(i)) \/ (i \notin DOMAIN toHost /\ NowJob))
        /\ OldTold(i)' => ((i \in DOMAIN toHost /\ OldTold(i)) \/ (i \notin DOMAIN toHost /\ OldJob))
    BY <1>1, <1>2 DEF NowTold, OldTold, NowJob, OldJob
<1>6. Numbered'
    BY <1>1, <1>2, <1>4 DEF ReportInv, Numbered
<1>7. InTurn'
  <2>1. \A i, j \in DOMAIN toDev' : i < j /\ NowAsked(i)' => ~OldAsked(j)'
      BY <1>1 DEF ReportInv, InTurn, NowAsked, OldAsked
  <2>2. \A i, j \in DOMAIN toHost' : i < j /\ NowTold(i)' => ~OldTold(j)'
    <3>1. ~(NowJob /\ OldJob)
        BY DEF NowJob, OldJob
    <3> QED BY <1>3, <1>5, <3>1 DEF ReportInv, InTurn
  <2>3. \A i \in DOMAIN toHost' : NowTold(i)' => \A j \in DOMAIN toDev' : ~OldAsked(j)'
      BY <1>1, <1>5 DEF ReportInv, InTurn, OldAsked
  <2> QED BY <1>4, <2>1, <2>2, <2>3 DEF InTurn
<1>8. Opening'
  <2> SUFFICES ASSUME page.at \in {"beginSent", "begin"} PROVE Opening'
      BY <1>1 DEF Opening
  <2>1. /\ \A i \in DOMAIN toDev : NowAsked(i) => toDev[i].cmd = "begin" /\ toDev[i].sha = page.file /\ i = Len(toDev)
        /\ ~NowJob
        /\ \A i \in DOMAIN toHost : NowTold(i) =>
             toHost[i].ev = "IMPORT_READY" /\ toDev = <<>> /\ (imp.on => imp.sha = page.file)
      BY DEF ReportInv, Opening
  <2>2. \A i \in DOMAIN toHost' : NowTold(i)' =>
             toHost'[i].ev = "IMPORT_READY" /\ toDev = <<>> /\ (imp.on => imp.sha = page.file)
      BY <1>2, <1>5, <2>1
  <2> QED BY <1>1, <1>4, <2>1, <2>2 DEF Opening, NowAsked
<1>9. Sending'
  <2> SUFFICES ASSUME page.at \in {"chunks", "commitSent", "commit"}, ~late PROVE Sending'
      BY <1>1 DEF Sending
  <2>1. /\ \A i \in DOMAIN toDev : ~OldAsked(i) /\ toDev[i].cmd # "begin"
        /\ imp.on => imp.sha = page.file
        /\ ~OldJob /\ (job.at \in {"next", "save"} => IsFile(job.arch))
        /\ \A i \in DOMAIN toHost : ~OldTold(i) /\ (toHost[i].ev = "IMPORT_DONE" => \E a \in restored : IsFile(a))
      BY DEF ReportInv, Sending
  <2>2. \A a : IsFile(a) => IsFile(a)'
      BY <1>1, BlobKept DEF IsFile
  <2>3. job.op = ops
      BY <1>1, <2>1 DEF OldJob
  <2>4. \A i \in DOMAIN toHost' : ~OldTold(i)'
      BY <1>5, <2>1
  <2>5. \A i \in DOMAIN toHost' : toHost'[i].ev = "IMPORT_DONE" => \E a \in restored' : IsFile(a)'
    <3> SUFFICES ASSUME NEW i \in DOMAIN toHost', toHost'[i].ev = "IMPORT_DONE" PROVE \E a \in restored' : IsFile(a)'
        OBVIOUS
    <3>1. CASE i \in DOMAIN toHost
        BY <1>1, <1>2, <2>1, <2>2, <3>1
    <3>2. CASE i \notin DOMAIN toHost
      <4>1. job.at = "next" /\ job.arch \in restored'
          BY <1>2, <2>3, <3>2 DEF Tells
      <4> QED BY <2>1, <2>2, <4>1
    <3> QED BY <3>1, <3>2
  <2>6. \A i \in DOMAIN toDev' : ~OldAsked(i)' /\ toDev'[i].cmd # "begin"
      BY <1>1, <2>1 DEF OldAsked
  <2> QED BY <1>1, <1>4, <2>1, <2>4, <2>5, <2>6 DEF Sending
<1>10. Saving'
  <2> SUFFICES ASSUME page.at \in {"exportSent", "export"} PROVE Saving'
      BY <1>1 DEF Saving
  <2>1. \A s, p : OpensWith(s, p) => OpensWith(s, p)'
      BY <1>1, OpensKept
  <2>2. /\ \A i \in DOMAIN toDev : NowAsked(i) => toDev[i].cmd = "export" /\ toDev[i].phrase = page.phrase
        /\ NowJob => job.at = "totp" /\ job.phrase = page.phrase
        /\ \A i \in DOMAIN toHost : NowTold(i) => toHost[i].ev = "EXPORT_START" /\ OpensWith(toHost[i].sha, page.phrase)
        /\ buf.on /\ ~late => OpensWith(buf.sha, page.phrase)
      BY DEF ReportInv, Saving
  <2>3. \A i \in DOMAIN toHost' : NowTold(i)' => toHost'[i].ev = "EXPORT_START" /\ OpensWith(toHost[i].sha, page.phrase)'
    <3> SUFFICES ASSUME NEW i \in DOMAIN toHost', NowTold(i)'
                 PROVE  toHost'[i].ev = "EXPORT_START" /\ OpensWith(toHost[i].sha, page.phrase)'
        OBVIOUS
    <3>1. CASE i \in DOMAIN toHost
        BY <1>1, <1>2, <1>5, <2>1, <2>2, <3>1
    <3>2. CASE i \notin DOMAIN toHost
      <4>1. job.at = "totp" /\ job.phrase = page'.phrase
          BY <1>1, <1>5, <2>2, <3>2
      <4>2. toHost'[i].ev = "EXPORT_START" /\ \E p : p = page'.phrase /\ OpensWith(toHost[i].sha, p)'
          BY <1>2, <3>2, <4>1 DEF NowTold
      <4> QED BY <4>2
    <3> QED BY <3>1, <3>2
  <2>4. buf'.on /\ ~late' => OpensWith(buf.sha, page.phrase)'
      BY <1>1, <2>1, <2>2
  <2>5. \A i \in DOMAIN toDev' : NowAsked(i)' => toDev'[i].cmd = "export" /\ toDev'[i].phrase = page'.phrase
      BY <1>1, <2>2 DEF NowAsked
  <2> QED BY <1>4, <2>3, <2>4, <2>5 DEF Saving
<1>11. WholeArchives'
  <2>1. \A i \in DOMAIN toHost' : toHost'[i].ev = "EXPORT_START" => \E a \in DOMAIN archives' : toHost'[i].sha = Blob(a)'
    <3> SUFFICES ASSUME NEW i \in DOMAIN toHost', toHost'[i].ev = "EXPORT_START"
                 PROVE  \E a \in DOMAIN archives' : toHost'[i].sha = Blob(a)'
        OBVIOUS
    <3>1. CASE i \in DOMAIN toHost
        BY <1>1, <1>2, <3>1, BlobKept DEF ReportInv, WholeArchives
    <3>2. CASE i \notin DOMAIN toHost
        BY <1>2, <3>2 DEF Tells, OpensWith
    <3> QED BY <3>1, <3>2
  <2>2. buf'.on => \E a \in DOMAIN archives' : buf'.sha = Blob(a)'
      BY <1>1, BlobKept DEF ReportInv, WholeArchives
  <2> QED BY <2>1, <2>2 DEF WholeArchives
<1> QED BY <1>1, <1>6, <1>7, <1>8, <1>9, <1>10, <1>11, ResultKept DEF ReportInv

\* One sequence behind another.
LEMMA Joined ==
  ASSUME NEW T, NEW s \in Seq(T), NEW t \in Seq(T)
  PROVE  /\ \A i \in DOMAIN (s \o t) :
              /\ i \in DOMAIN s => (s \o t)[i] = s[i]
              /\ i \notin DOMAIN s => \E k \in DOMAIN t : (s \o t)[i] = t[k]
         /\ \A i, j \in DOMAIN (s \o t) : i < j /\ j \in DOMAIN s => i \in DOMAIN s
<1>1. \A i \in DOMAIN (s \o t) : i \in Nat /\ 1 <= i /\ i <= Len(s) + Len(t)
    OBVIOUS
<1>2. \A i \in DOMAIN (s \o t) : i \notin DOMAIN s => i - Len(s) \in DOMAIN t /\ (s \o t)[i] = t[i - Len(s)]
    OBVIOUS
<1>3. \A i \in DOMAIN (s \o t) : i \in DOMAIN s => (s \o t)[i] = s[i]
    OBVIOUS
<1>4. \A i, j \in DOMAIN (s \o t) : i < j /\ j \in DOMAIN s => i \in DOMAIN s
    BY <1>1
<1>5. \A i \in DOMAIN (s \o t) : i \notin DOMAIN s => \E k \in DOMAIN t : (s \o t)[i] = t[k]
    BY <1>2, Zenon
<1> QED BY <1>3, <1>4, <1>5, Zenon

\* The steps of the device.
LEMMA DeviceKeepsReport == ASSUME BackupTypes, BackupTypes', ReportInv, BackupDevice PROVE ReportInv'
<1>1. ASSUME toDev # <<>> PROVE Head(toDev) = toDev[1] /\ Head(toDev) \in Requests
    BY <1>1, OneLess DEF BackupTypes, LinesTyped
<1>2. /\ toHost \in Seq(Events) /\ Error \in Events /\ Event("BOOT") \in Events /\ Event("IMPORT_ABORTED") \in Events
      /\ \A o \in Nat : EventOf("IMPORT_READY", o) \in Events /\ EventOf("IMPORT_DONE", o) \in Events
      /\ \A e \in Events : Tell(<<e>>) => toHost' = Append(toHost, e)
    BY EventsAre, ToldOne DEF BackupTypes, LinesTyped
<1>3. imp \in [on : BOOLEAN, acc : Hex, len : Nat, sha : Hex]
    BY DEF BackupTypes, ImportTyped
<1>4. ASSUME EndSession \/ Refuse PROVE ReportInv'
  <2>1. /\ job = NoJob /\ toDev # <<>> /\ toDev' = Tail(toDev)
        /\ UNCHANGED <<ops, page, buf, result, late, archives, restored, imp, job>>
      BY <1>4, Zenon DEF EndSession, Refuse, Command, Taken, devVars, pageVars, devHist
  <2>2. UNCHANGED toHost \/ Tell(<<Event("BOOT")>>)
      BY <1>4, Zenon DEF EndSession, Refuse
  <2>3. Event("BOOT").ev = "BOOT"
      BY DEF Event
  <2>4. Commanded(Head(toDev))
      BY <1>1, <1>2, <2>1, <2>2, <2>3 DEF Commanded
  <2> QED BY <1>1, <2>1, <2>4, CommandKeepsReport
<1>5. ASSUME ExportPasswords PROVE ReportInv'
  <2>1. /\ job = NoJob /\ toDev # <<>> /\ toDev' = Tail(toDev) /\ Head(toDev).cmd = "export"
        /\ UNCHANGED <<ops, page, buf, result, late, archives, restored, imp>>
      BY <1>5, Zenon DEF ExportPasswords, Served, Command, Taken, pageVars, devHist
  <2>2. \/ Tell(<<Error>>) /\ UNCHANGED job
        \/ UNCHANGED toHost /\ job'.at = "totp" /\ job'.phrase = Head(toDev).phrase /\ job'.op = Head(toDev).op
      BY <1>5 DEF ExportPasswords
  <2>3. Error.ev = "error"
      BY DEF Error
  <2>4. Commanded(Head(toDev))
      BY <1>1, <1>2, <2>1, <2>2, <2>3 DEF Commanded
  <2> QED BY <1>1, <2>1, <2>4, CommandKeepsReport
<1>6. ASSUME BackupImportBegin PROVE ReportInv'
  <2>1. /\ job = NoJob /\ toDev # <<>> /\ toDev' = Tail(toDev) /\ Head(toDev).cmd = "begin"
        /\ UNCHANGED <<ops, page, buf, result, late, archives, restored, job>>
      BY <1>6, Zenon DEF BackupImportBegin, Served, Command, Taken, pageVars, devHist
  <2>2. Head(toDev).op \in Nat
      BY <1>1, <2>1 DEF Requests
  <2>3. \/ Tell(<<Error>>) /\ ~imp'.on
        \/ Tell(<<EventOf("IMPORT_READY", Head(toDev).op)>>) /\ imp'.sha = Head(toDev).sha
      BY <1>6 DEF BackupImportBegin, NoImport
  <2>4. Error.ev = "error" /\ \A o : EventOf("IMPORT_READY", o).ev = "IMPORT_READY" /\ EventOf("IMPORT_READY", o).op = o
      BY DEF Error, EventOf
  <2>5. Commanded(Head(toDev))
      BY <1>1, <1>2, <2>1, <2>2, <2>3, <2>4 DEF Commanded
  <2> QED BY <1>1, <2>1, <2>5, CommandKeepsReport
<1>7. ASSUME BackupImportChunk \/ BackupImportAbort PROVE ReportInv'
  <2>1. /\ job = NoJob /\ toDev # <<>> /\ toDev' = Tail(toDev)
        /\ UNCHANGED <<ops, page, buf, result, late, archives, restored, job>>
      BY <1>7, Zenon DEF BackupImportChunk, BackupImportAbort, Served, Command, Taken, pageVars, devHist
  <2>2. UNCHANGED toHost \/ Tell(<<Error>>) \/ Tell(<<Event("IMPORT_ABORTED")>>)
      BY <1>7 DEF BackupImportChunk, BackupImportAbort
  <2>3. imp'.on => imp.on /\ imp'.sha = imp.sha
      BY <1>3, <1>7 DEF BackupImportChunk, BackupImportAbort, NoImport
  <2>4. Error.ev = "error" /\ Event("IMPORT_ABORTED").ev = "IMPORT_ABORTED"
      BY DEF Error, Event
  <2>5. Commanded(Head(toDev))
      BY <1>1, <1>2, <2>1, <2>2, <2>3, <2>4 DEF Commanded
  <2> QED BY <1>1, <2>1, <2>5, CommandKeepsReport
<1>8. ASSUME BackupImportCommit PROVE ReportInv'
  <2>1. /\ job = NoJob /\ toDev # <<>> /\ toDev' = Tail(toDev) /\ Head(toDev).cmd = "commit"
        /\ UNCHANGED <<ops, page, buf, result, late, archives, restored>>
      BY <1>8, Zenon DEF BackupImportCommit, Served, Command, Taken, pageVars
  <2>2. \/ Tell(<<Error>>) /\ UNCHANGED job
        \/ /\ UNCHANGED toHost /\ job'.at = "next" /\ job'.op = Head(toDev).op
           /\ imp.on /\ job'.arch \in DOMAIN archives /\ Blob(job'.arch) = imp.sha
      BY <1>8 DEF BackupImportCommit, DecryptsTo
  <2>3. imp'.on => imp.on /\ imp'.sha = imp.sha
      BY <1>3, <1>8 DEF BackupImportCommit, NoImport
  <2>4. Error.ev = "error"
      BY DEF Error
  <2>5. Commanded(Head(toDev))
      BY <1>1, <1>2, <2>1, <2>2, <2>3, <2>4 DEF Commanded
  <2> QED BY <1>1, <2>1, <2>5, CommandKeepsReport
<1>9. ASSUME LogIn \/ Edit \/ ResetFiles \/ ResetKey PROVE ReportInv'
  <2>1. UNCHANGED <<toDev, toHost, ops, page, buf, result, late, archives, restored, imp, job>>
      BY <1>9, Zenon DEF LogIn, Edit, ResetFiles, ResetKey, pageVars, devHist
  <2> QED BY <2>1, AsideKeepsReport
<1>10. ASSUME PowerCut PROVE ReportInv'
  <2>1. toDev' = <<>> /\ toHost' = <<>> /\ job' = NoJob /\ page' = NoPage /\ buf' = NoBuf /\ result' = NoResult
      BY <1>10, Zenon DEF PowerCut
  <2>2. job'.at = "idle" /\ page'.at = "idle" /\ ~buf'.on /\ result'.kind = "none"
      BY <2>1 DEF NoJob, NoPage, NoBuf, NoResult
  <2> QED BY <2>1, <2>2 DEF ReportInv, Numbered, InTurn, Opening, Sending, Saving, WholeArchives, DoneIsMine, SavedFileOpens,
                          NowJob, OldJob
<1>11. ASSUME ExportTotp PROVE ReportInv'
  <2> DEFINE c == [i \in Items |-> IF i \in Logins THEN job.content[i] ELSE Visible[i]]
             a == Len(archives) + 1
             made == [content |-> c, phrase |-> job.phrase, snap |-> job.snap, torn |-> mishaps # job.mishaps]
             blob == [n \in 1..BlobLen(c) |-> <<a, n>>]
             start == [ev |-> "EXPORT_START", len |-> Len(blob), sha |-> blob, op |-> job.op]
             chunks == [n \in DOMAIN blob |-> [ev |-> "EXPORT_CHUNK", seq |-> n, data |-> blob[n]]]
             last == Event("EXPORT_DONE")
  <2>1. /\ job.at = "totp" /\ job' = NoJob /\ archives' = Append(archives, made) /\ archives \in Seq(Made)
        /\ Tell(<<start>> \o chunks \o <<last>>)
      BY <1>11 DEF ExportTotp, BackupTypes, ArchivesTyped
  <2>2. UNCHANGED <<toDev, ops, page, buf, result, late, imp, restored>>
      BY <1>11, Zenon DEF ExportTotp, pageVars
  <2>3. job \in [at : {"totp"}, phrase : Phrases, snap : Contents, mishaps : Nat, op : Nat, content : Contents]
      BY <2>1 DEF BackupTypes, JobTyped, NoJob
  <2>4. c \in Contents
    <3>1. Visible \in Contents
        BY BackupAssumption DEF Visible, Contents, BackupTypes, FilesTyped, Entries
    <3> QED BY <2>3, <3>1 DEF Contents
  <2>5. a \in Nat /\ a \in DOMAIN archives' /\ archives'[a] = made /\ Kept
    <3> HIDE DEF made
    <3> QED BY <2>1 DEF Kept
  <2>6. blob \in Hex \ {<<>>} /\ Len(blob) \in Nat /\ DOMAIN blob = 1..Len(blob)
    <3> HIDE DEF c
    <3>1. blob \in Hex \ {<<>>} /\ Len(blob) = BlobLen(c) /\ BlobLen(c) \in Nat
        BY <2>4, <2>5, BlobOf
    <3> HIDE DEF blob
    <3> QED BY <3>1 DEF Hex
  <2>7. \E p : p = job.phrase /\ \E b \in DOMAIN archives' : blob = Blob(b)' /\ archives'[b].phrase = p
    <3>1. PICK b \in DOMAIN archives' : b = a
        BY <2>5
    <3>2. archives'[b].phrase = job.phrase /\ archives'[b].content = c
        BY <2>5, <3>1
    <3>3. Blob(b)' = [n \in 1..BlobLen(archives'[b].content) |-> <<b, n>>]
        BY Zenon DEF Blob, BlobLen
    <3>4. blob = Blob(b)'
      <4> HIDE DEF c, a, made
      <4> QED BY <3>1, <3>2, <3>3
    <3> HIDE DEF blob, c, a, made
    <3> QED BY <3>2, <3>4, Zenon
  <2>8. start.ev = "EXPORT_START" /\ start.op = job.op /\ start.sha = blob /\ start \in Events
    <3> HIDE DEF blob
    <3> QED BY <2>3, <2>6 DEF Events
  <2>9. chunks \in Seq(Events) /\ \A n \in DOMAIN chunks : ~Tells(chunks[n])
    <3> HIDE DEF blob
    <3>1. \A n \in DOMAIN blob : [ev |-> "EXPORT_CHUNK", seq |-> n, data |-> blob[n]] \in Events
        BY <2>6 DEF Events, Hex
    <3> QED BY <2>6, <3>1 DEF Tells
  <2>10. last \in Events /\ ~Tells(last)
      BY EventsAre DEF Event, Tells
  <2> HIDE DEF start, chunks, last, blob, made, c, a
  <2>11. toHost' = toHost \o (<<start>> \o chunks \o <<last>>) /\ toHost \in Seq(Events)
      BY <1>2, <2>1 DEF Tell
  <2>12. <<start>> \in Seq(Events) /\ <<last>> \in Seq(Events)
         /\ DOMAIN <<start>> = {1} /\ DOMAIN <<last>> = {1} /\ <<start>>[1] = start /\ <<last>>[1] = last
      BY <2>8, <2>10
  <2>13. <<start>> \o chunks \in Seq(Events) /\ <<start>> \o chunks \o <<last>> \in Seq(Events)
      BY <2>9, <2>12, ConcatProperties
  <2>14. \A k \in DOMAIN (<<start>> \o chunks) : (<<start>> \o chunks)[k] = start \/ ~Tells((<<start>> \o chunks)[k])
      BY <2>9, <2>12, Joined
  <2>15. \A k \in DOMAIN (<<start>> \o chunks \o <<last>>) :
           (<<start>> \o chunks \o <<last>>)[k] = start \/ ~Tells((<<start>> \o chunks \o <<last>>)[k])
      BY <2>10, <2>12, <2>13, <2>14, Joined
  <2>16. \A i \in DOMAIN toHost' : \/ i \in DOMAIN toHost /\ toHost'[i] = toHost[i]
                                   \/ i \notin DOMAIN toHost /\ ~Tells(toHost'[i])
                                   \/ i \notin DOMAIN toHost /\ toHost'[i] = start
    <3> DEFINE lines == <<start>> \o chunks \o <<last>>
    <3>1. lines \in Seq(Events) /\ (\A k \in DOMAIN lines : lines[k] = start \/ ~Tells(lines[k])) /\ toHost' = toHost \o lines
        BY <2>11, <2>13, <2>15
    <3> HIDE DEF lines
    <3>2. \A i \in DOMAIN toHost' : \/ i \in DOMAIN toHost /\ toHost'[i] = toHost[i]
                                    \/ i \notin DOMAIN toHost /\ \E k \in DOMAIN lines : toHost'[i] = lines[k]
      <4>1. \A i \in DOMAIN (toHost \o lines) :
              /\ i \in DOMAIN toHost => (toHost \o lines)[i] = toHost[i]
              /\ i \notin DOMAIN toHost => \E k \in DOMAIN lines : (toHost \o lines)[i] = lines[k]
          BY <2>11, <3>1, Joined
      <4>2. toHost' = toHost \o lines
          BY <3>1
      <4>3. \A i : i \in DOMAIN toHost' => i \in DOMAIN (toHost \o lines) /\ toHost'[i] = (toHost \o lines)[i]
          BY <4>2
      <4> HIDE DEF lines
      <4> SUFFICES ASSUME NEW i \in DOMAIN toHost'
                   PROVE  \/ i \in DOMAIN toHost /\ toHost'[i] = toHost[i]
                          \/ i \notin DOMAIN toHost /\ \E k \in DOMAIN lines : toHost'[i] = lines[k]
          OBVIOUS
      <4>4. CASE i \in DOMAIN toHost
          BY <4>1, <4>3, <4>4, Zenon
      <4>5. CASE i \notin DOMAIN toHost
          BY <4>1, <4>3, <4>5, Zenon
      <4> QED BY <4>4, <4>5
    <3>3. \A k \in DOMAIN lines : lines[k] = start \/ ~Tells(lines[k])
        BY <3>1
    <3> QED BY <3>2, <3>3
  <2>17. \A i, j \in DOMAIN toHost' : i < j /\ j \in DOMAIN toHost => i \in DOMAIN toHost
      BY <2>11, <2>13, Joined
  <2>18. \A i \in DOMAIN toHost' : toHost'[i] = start =>
           /\ toHost'[i].op = job.op /\ toHost'[i].ev = "EXPORT_START"
           /\ \E p : p = job.phrase /\ OpensWith(toHost[i].sha, p)'
      BY <2>7, <2>8 DEF OpensWith
  <2>19. Answered
      BY <2>1, <2>2, <2>5, <2>16, <2>17, <2>18 DEF Answered
  <2> QED BY <2>19, AnswerKeepsReport
<1>12. ASSUME ImportPassword \/ SavePassword \/ ImportTotp \/ ImportAlg PROVE ReportInv'
  <2>1. UNCHANGED <<toDev, toHost, ops, page, buf, result, late, archives, restored, imp>>
      BY <1>12, Zenon DEF ImportPassword, SavePassword, ImportTotp, ImportAlg, pageVars
  <2>2. \E i \in Items : Finished(i) \/ job' = [job EXCEPT !.at = "save", !.item = i]
    <3>1. \A g \in {1, 2, 3} : NextOf(g) \subseteq Items
      <4>1. job.todo \subseteq Items
          BY <1>12, RestoreJob
      <4> QED BY <4>1 DEF NextOf
    <3>2. job.item \in Items
        BY <1>12, RestoreJob
    <3> QED BY <1>12, <3>1, <3>2, Zenon DEF ImportPassword, SavePassword, ImportTotp, ImportAlg
  <2>3. /\ job.at \in {"next", "save"} /\ job'.at \in {"next", "save"}
        /\ job'.op = job.op /\ job'.arch = job.arch
      BY <1>12, <2>2, RestoreJob
  <2> QED BY <2>1, <2>3, AsideKeepsReport
<1>13. ASSUME ImportDone PROVE ReportInv'
  <2> DEFINE e == EventOf("IMPORT_DONE", job.op)
  <2>1. /\ job.at = "next" /\ job' = NoJob /\ Tell(<<e>>)
        /\ restored' = IF job.op = ops THEN restored \cup {job.arch} ELSE restored
      BY <1>13 DEF ImportDone
  <2>2. UNCHANGED <<toDev, ops, page, buf, result, late, imp, archives>>
      BY <1>13, Zenon DEF ImportDone, pageVars
  <2>3. e \in Events /\ e.ev = "IMPORT_DONE" /\ e.op = job.op
      BY <1>2, <2>1, LinesAre DEF EventOf
  <2> HIDE DEF e
  <2>4. toHost' = Append(toHost, e) /\ toHost \in Seq(Events)
      BY <1>2, <2>1, <2>3
  <2>5. \A i \in DOMAIN toHost' : \/ i \in DOMAIN toHost /\ toHost'[i] = toHost[i]
                                  \/ i \notin DOMAIN toHost /\ toHost'[i] = e
      BY <2>3, <2>4
  <2>6. \A i, j \in DOMAIN toHost' : i < j /\ j \in DOMAIN toHost => i \in DOMAIN toHost
    <3>1. DOMAIN toHost' = 1..(Len(toHost) + 1) /\ DOMAIN toHost = 1..Len(toHost) /\ Len(toHost) \in Nat
        BY <2>3, <2>4
    <3> QED BY <3>1
  <2>7. Kept /\ restored \subseteq restored' /\ (job.op = ops => job.arch \in restored')
      BY <2>1, <2>2 DEF Kept
  <2>8. Answered
      BY <2>1, <2>2, <2>3, <2>5, <2>6, <2>7 DEF Answered
  <2> QED BY <2>8, AnswerKeepsReport
<1> QED BY <1>4, <1>5, <1>6, <1>7, <1>8, <1>9, <1>10, <1>11, <1>12, <1>13 DEF BackupDevice

\* Every step keeps the reports true.
LEMMA ReportKept == BackupTypes /\ BackupTypes' /\ ReportInv /\ [BackupNext]_backupVars => ReportInv'
<1> SUFFICES ASSUME BackupTypes, BackupTypes', ReportInv, [BackupNext]_backupVars PROVE ReportInv'
    OBVIOUS
<1>1. CASE BackupHost
    BY <1>1, PageKeepsReport, ReadKeepsReport, CloseKeepsReport, LossKeepsReport, Zenon DEF BackupHost
<1>2. CASE BackupDevice
    BY <1>2, DeviceKeepsReport
<1>3. CASE UNCHANGED backupVars
  <2>1. UNCHANGED <<toDev, toHost, ops, page, buf, result, late, archives, restored, imp, job>>
      BY <1>3, Zenon DEF backupVars, devVars, pageVars, histVars
  <2> QED BY <2>1, AsideKeepsReport
<1> QED BY <1>1, <1>2, <1>3 DEF BackupNext

\* A restore that nothing disturbs, phase by phase.
OneLine(e) == Len(toHost) = 1 /\ toHost[1].ev = e
Announced ==
  /\ page.at \in {"beginSent", "begin"} /\ page.n = 0 /\ job = NoJob
  /\ \/ /\ Len(toDev) = 1 /\ toDev[1].cmd = "begin" /\ toDev[1].len = Len(page.file) /\ toDev[1].sha = page.file
        /\ toHost = <<>>
     \/ /\ toDev = <<>>
        /\ \/ toHost = <<>>
           \/ OneLine("error") /\ Len(page.file) > MaxImport
           \/ OneLine("IMPORT_READY") /\ imp = [on |-> TRUE, acc |-> <<>>, len |-> Len(page.file), sha |-> page.file]
Receiving ==
  LET k == Len(imp.acc)
  IN  /\ page.at \in {"chunks", "commitSent", "commit"} /\ toHost = <<>> /\ job = NoJob
      /\ imp.on /\ imp.len = Len(page.file) /\ imp.sha = page.file
      /\ k <= page.n /\ page.n <= Len(page.file)
      /\ \A j \in 1..k : imp.acc[j] = page.file[j]
      /\ \A j \in 1..(page.n - k) : toDev[j].cmd = "chunk" /\ toDev[j].data = <<page.file[k + j]>>
      /\ page.at = "chunks" => Len(toDev) = page.n - k
      /\ page.at # "chunks" => /\ page.n = Len(page.file) /\ Len(toDev) = page.n - k + 1
                               /\ toDev[Len(toDev)].cmd = "commit" /\ toDev[Len(toDev)].phrase = page.phrase
Decided ==
  /\ page.at \in {"commitSent", "commit"} /\ toDev = <<>>
  /\ \/ job.at \in {"next", "save"} /\ toHost = <<>>
     \/ /\ job = NoJob
        /\ \/ toHost = <<>>
           \/ OneLine("IMPORT_DONE")
           \/ OneLine("error") /\ DecryptsTo(page.file, page.phrase) = {}
ImportAt == {"beginSent", "begin", "chunks", "commitSent", "commit"}
Undisturbed ==
  ~upset /\ page.at \in ImportAt => authed /\ skey # NoKey /\ (Announced \/ Receiving \/ Decided)
FailedAlone ==
  ~upset /\ result.kind = "import" /\ ~result.ok =>
    /\ page.at = "idle" /\ job = NoJob
    /\ \A i \in DOMAIN toDev : toDev[i].cmd = "abort"
    /\ Len(result.file) > MaxImport \/ DecryptsTo(result.file, result.phrase) = {}
GenuineInv == Undisturbed /\ FailedAlone

\* There is no restore at the start.
LEMMA GenuineInitially == BackupInit => GenuineInv
BY DEF BackupInit, GenuineInv, Undisturbed, FailedAlone, NoPage, NoResult, ImportAt

\* Steps that disturb the operation, or leave the page without one.
LEMMA DisturbedIsGenuine ==
  ASSUME upset' \/ (page'.at \notin ImportAt /\ (result'.kind = "import" => result'.ok))
  PROVE  GenuineInv'
BY DEF GenuineInv, Undisturbed, FailedAlone
\* Steps on which nothing of it depends.
LEMMA FailureKept ==
  ASSUME FailedAlone, UNCHANGED <<upset, result, page, job, archives>>, BackupTypes, UNCHANGED toDev \/ (toDev # <<>> /\ toDev' = Tail(toDev))
  PROVE  FailedAlone'
<1> SUFFICES ASSUME ~upset, result.kind = "import", ~result.ok PROVE FailedAlone'
    BY DEF FailedAlone
<1>1. /\ page.at = "idle" /\ job = NoJob
      /\ \A i \in DOMAIN toDev : toDev[i].cmd = "abort"
      /\ Len(result.file) > MaxImport \/ DecryptsTo(result.file, result.phrase) = {}
    BY DEF FailedAlone
<1>2. \A i \in DOMAIN toDev' : toDev'[i].cmd = "abort"
  <2>1. CASE UNCHANGED toDev
      BY <1>1, <2>1
  <2>2. CASE toDev # <<>> /\ toDev' = Tail(toDev)
      BY <1>1, <2>2, OneLess DEF BackupTypes, LinesTyped
  <2> QED BY <2>1, <2>2
<1>3. DecryptsTo(result.file, result.phrase)' = DecryptsTo(result.file, result.phrase)
    BY Zenon DEF DecryptsTo, Blob, BlobLen
<1> QED BY <1>1, <1>2, <1>3 DEF FailedAlone

\* What the page has is typed while it restores.
LEMMA PageIs ==
  ASSUME BackupTypes, page.at \in ImportAt
  PROVE  /\ page \in [at : BusyAt, phrase : Phrases, file : Hex, over : BOOLEAN, n : Nat]
         /\ Len(page.file) \in Nat /\ page.file \in Seq(Piece)
         /\ \A x : LET p == [page EXCEPT !.at = x]
                   IN  p.at = x /\ p.file = page.file /\ p.phrase = page.phrase /\ p.n = page.n
BY DEF BackupTypes, PageTyped, Pages, ImportAt, Hex

\* runBackupExport and runBackupImport begin.
LEMMA BeginIsGenuine ==
  ASSUME BackupTypes, GenuineInv,
         \/ \E p \in Phrases : RunBackupExport(p)
         \/ \E f \in files \cup Damaged, p \in Phrases, over \in BOOLEAN : RunBackupImport(f, p, over)
  PROVE  GenuineInv'
<1>1. CASE \E p \in Phrases : RunBackupExport(p)
  <2>1. page'.at = "exportSent" /\ result'.kind = "none"
      BY <1>1 DEF RunBackupExport, NoResult
  <2> QED BY <2>1, DisturbedIsGenuine DEF ImportAt
<1>2. ASSUME NEW f \in files \cup Damaged, NEW p \in Phrases, NEW over \in BOOLEAN, RunBackupImport(f, p, over)
      PROVE  GenuineInv'
  <2> DEFINE m == [cmd |-> "begin", len |-> Len(f), sha |-> f, op |-> ops + 1]
  <2>1. /\ page'.at = "beginSent" /\ page'.file = f /\ page'.n = 0 /\ result'.kind = "none"
        /\ toDev' = Append(toDev, m) /\ UNCHANGED <<toHost, job, authed, skey>>
      BY <1>2 DEF RunBackupImport, Ask, devVars, NoResult
  <2>2. ~upset' => ~Disturbed
      BY <1>2 DEF RunBackupImport, Picked
  <2>3. m.cmd = "begin" /\ m.len = Len(f) /\ m.sha = f
      OBVIOUS
  <2> HIDE DEF m
  <2>4. toDev = <<>> => Len(toDev') = 1 /\ toDev'[1] = m
      BY <2>1
  <2>5. ~upset' => authed' /\ skey' # NoKey /\ Announced'
      BY <2>1, <2>2, <2>3, <2>4 DEF Disturbed, Announced
  <2>6. FailedAlone'
      BY <2>1 DEF FailedAlone
  <2> QED BY <2>5, <2>6 DEF GenuineInv, Undisturbed
<1> QED BY <1>1, <1>2

\* The page's steps, one by one.
LEMMA WaitIs ==
  ASSUME BackupTypes, WaitForBackupEvent
  PROVE  /\ \/ page.at = "exportSent" /\ page'.at = "export"
            \/ page.at = "beginSent" /\ page'.at = "begin"
            \/ page.at = "commitSent" /\ page'.at = "commit"
         /\ page'.file = page.file /\ page'.phrase = page.phrase /\ page'.n = page.n
         /\ UNCHANGED <<toDev, toHost, job, ops, late, imp, archives, restored, buf, result, authed, skey, upset>>
<1>1. UNCHANGED <<toDev, toHost, job, ops, late, imp, archives, restored, buf, result, authed, skey, upset>>
    BY Zenon DEF WaitForBackupEvent, devVars, histVars
<1>2. page.at \in {"exportSent", "beginSent", "commitSent"} /\ page' = [page EXCEPT !.at = Waiting[page.at]]
    BY DEF WaitForBackupEvent, Waiting
<1>3. page \in [at : BusyAt, phrase : Phrases, file : Hex, over : BOOLEAN, n : Nat]
    BY <1>2 DEF BackupTypes, PageTyped, Pages
<1>4. /\ page.at = "exportSent" => page' = [page EXCEPT !.at = "export"]
      /\ page.at = "beginSent" => page' = [page EXCEPT !.at = "begin"]
      /\ page.at = "commitSent" => page' = [page EXCEPT !.at = "commit"]
    BY <1>2 DEF Waiting
<1>5. \/ page.at = "exportSent" /\ page'.at = "export"
      \/ page.at = "beginSent" /\ page'.at = "begin"
      \/ page.at = "commitSent" /\ page'.at = "commit"
    BY <1>2, <1>3, <1>4
<1>6. page'.file = page.file /\ page'.phrase = page.phrase /\ page'.n = page.n
    BY <1>2, <1>3
<1> QED BY <1>1, <1>5, <1>6

\* One more line of the archive, or the COMMIT.
LEMMA SendIs ==
  ASSUME BackupTypes, SendChunk \/ SendCommit
  PROVE  /\ page.at = "chunks" /\ page'.file = page.file /\ page'.phrase = page.phrase
         /\ UNCHANGED <<toHost, job, ops, late, imp, archives, restored, buf, result, authed, skey, upset>>
         /\ \E m \in Requests : toDev' = Append(toDev, m)
              /\ \/ /\ SendChunk /\ m.cmd = "chunk" /\ m.data = <<page.file[page.n + 1]>>
                    /\ page.n < Len(page.file) /\ page'.at = "chunks" /\ page'.n = page.n + 1
                 \/ /\ SendCommit /\ m.cmd = "commit" /\ m.phrase = page.phrase /\ m.op = ops
                    /\ page.n = Len(page.file) /\ page'.at = "commitSent" /\ page'.n = page.n
<1>1. UNCHANGED <<toHost, job, ops, late, imp, archives, restored, buf, result, authed, skey, upset>>
    BY Zenon DEF SendChunk, SendCommit, devVars, histVars
<1>2. page.at = "chunks"
    BY DEF SendChunk, SendCommit
<1>3. page \in [at : BusyAt, phrase : Phrases, file : Hex, over : BOOLEAN, n : Nat]
    BY <1>2 DEF BackupTypes, PageTyped, Pages
<1>4. CASE SendChunk
  <2> DEFINE m == [cmd |-> "chunk", data |-> <<page.file[page.n + 1]>>]
  <2>1. toDev' = Append(toDev, m) /\ page.n < Len(page.file) /\ page' = [page EXCEPT !.n = @ + 1]
      BY <1>4 DEF SendChunk, Ask
  <2>2. m \in Requests /\ m.cmd = "chunk" /\ m.data = <<page.file[page.n + 1]>>
      BY <1>3, <2>1 DEF Requests, Hex
  <2>3. page'.at = "chunks" /\ page'.file = page.file /\ page'.phrase = page.phrase /\ page'.n = page.n + 1
      BY <1>2, <1>3, <2>1
  <2> HIDE DEF m
  <2> QED BY <1>1, <1>2, <1>4, <2>1, <2>2, <2>3
<1>5. CASE SendCommit
  <2> DEFINE m == [cmd |-> "commit", phrase |-> page.phrase, over |-> page.over, op |-> ops]
  <2>1. toDev' = Append(toDev, m) /\ page.n = Len(page.file) /\ page' = [page EXCEPT !.at = "commitSent"]
      BY <1>5 DEF SendCommit, Ask
  <2>2. m \in Requests /\ m.cmd = "commit" /\ m.phrase = page.phrase /\ m.op = ops
      BY <1>3, LinesAre DEF Requests
  <2>3. page'.at = "commitSent" /\ page'.file = page.file /\ page'.phrase = page.phrase /\ page'.n = page.n
      BY <1>2, <1>3, <2>1
  <2> HIDE DEF m
  <2> QED BY <1>1, <1>2, <1>5, <2>1, <2>2, <2>3
<1> QED BY <1>4, <1>5

\* The page's steps lead from phase to phase.
LEMMA PageIsGenuine ==
  ASSUME BackupTypes, GenuineInv, WaitForBackupEvent \/ SendChunk \/ SendCommit
  PROVE  GenuineInv'
<1>1. UNCHANGED <<toHost, job, imp, archives, authed, skey, upset, result>>
    BY WaitIs, SendIs
<1>2. page.at # "idle" /\ page'.at # "idle" /\ page'.file = page.file /\ page'.phrase = page.phrase
    BY WaitIs, SendIs
<1>3. FailedAlone'
    BY <1>1, <1>2 DEF GenuineInv, FailedAlone
<1>4. Undisturbed'
  <2> SUFFICES ASSUME ~upset, page'.at \in ImportAt PROVE Undisturbed'
      BY <1>1 DEF Undisturbed
  <2>1. page.at \in ImportAt
      BY WaitIs, SendIs DEF ImportAt
  <2>2. authed /\ skey # NoKey /\ (Announced \/ Receiving \/ Decided)
      BY <2>1 DEF GenuineInv, Undisturbed
  <2>3. DecryptsTo(page.file, page.phrase)' = DecryptsTo(page.file, page.phrase)
      BY <1>1, <1>2, Zenon DEF DecryptsTo, Blob, BlobLen
  <2>4. toDev \in Seq(Requests) /\ imp.acc \in Seq(Piece) /\ page.file \in Seq(Piece) /\ page.n \in Nat
      BY <2>1, PageIs DEF BackupTypes, LinesTyped, ImportTyped, Hex
  <2>5. CASE WaitForBackupEvent
    <3>1. CASE Announced
      <4>1. page'.at = "begin"
          BY <2>5, <3>1, WaitIs DEF Announced
      <4> QED BY <1>1, <1>2, <2>2, <2>5, <3>1, <4>1, WaitIs DEF Announced, OneLine, Undisturbed
    <3>2. CASE Receiving
      <4>1. page.at # "chunks" /\ page'.at = "commit"
          BY <2>5, <3>2, WaitIs DEF Receiving
      <4> QED BY <1>1, <1>2, <2>2, <2>5, <3>2, <4>1, WaitIs DEF Receiving, Undisturbed
    <3>3. CASE Decided
      <4>1. page'.at = "commit"
          BY <2>5, <3>3, WaitIs DEF Decided
      <4> QED BY <1>1, <1>2, <2>2, <2>3, <2>5, <3>3, <4>1, WaitIs DEF Decided, OneLine, Undisturbed
    <3> QED BY <2>2, <3>1, <3>2, <3>3
  <2>6. CASE SendChunk \/ SendCommit
    <3>1. Receiving
        BY <2>2, <2>6, SendIs DEF Announced, Decided
    <3> DEFINE k == Len(imp.acc)
    <3>2. PICK m \in Requests : toDev' = Append(toDev, m)
              /\ \/ /\ SendChunk /\ m.cmd = "chunk" /\ m.data = <<page.file[page.n + 1]>>
                    /\ page.n < Len(page.file) /\ page'.at = "chunks" /\ page'.n = page.n + 1
                 \/ /\ SendCommit /\ m.cmd = "commit" /\ m.phrase = page.phrase /\ m.op = ops
                    /\ page.n = Len(page.file) /\ page'.at = "commitSent" /\ page'.n = page.n
        BY <2>6, SendIs
    <3>3. Len(toDev) = page.n - k /\ k \in Nat /\ k <= page.n
        BY <2>4, <2>6, <3>1, SendIs DEF Receiving
    <3>4. Len(toDev') = page.n - k + 1 /\ toDev'[page.n - k + 1] = m /\ \A j \in 1..(page.n - k) : toDev'[j] = toDev[j]
        BY <2>4, <3>2, <3>3
    <3>5. CASE SendChunk
      <4>1. page'.n = page.n + 1 /\ page'.at = "chunks" /\ m.cmd = "chunk" /\ m.data = <<page.file[page.n + 1]>> /\ page.n < Len(page.file)
          BY <3>2, <3>5 DEF SendChunk, SendCommit
      <4>2. k + (page.n - k + 1) = page.n + 1 /\ page'.n - k = page.n - k + 1
          BY <2>4, <3>3, <4>1
      <4>3. \A j \in 1..(page'.n - k) : j \in 1..(page.n - k) \/ j = page.n - k + 1
          BY <2>4, <3>3, <4>2
      <4>4. \A j \in 1..(page'.n - k) : toDev'[j].cmd = "chunk" /\ toDev'[j].data = <<page.file[k + j]>>
          BY <3>1, <3>4, <4>1, <4>2, <4>3 DEF Receiving
      <4>5. Len(imp'.acc) = k /\ Len(toDev') = page'.n - k /\ k <= page'.n /\ page'.n <= Len(page.file)
          BY <1>1, <2>4, <3>3, <3>4, <4>1, <4>2
      <4>6. Receiving'
          BY <1>1, <1>2, <3>1, <4>1, <4>4, <4>5 DEF Receiving
      <4> QED BY <1>1, <2>2, <4>6 DEF Undisturbed
    <3>6. CASE SendCommit
      <4>1. page'.n = page.n /\ page'.at = "commitSent" /\ m.cmd = "commit" /\ m.phrase = page.phrase /\ page.n = Len(page.file)
          BY <3>2, <3>6 DEF SendChunk, SendCommit
      <4>2. Len(imp'.acc) = k /\ Len(toDev') = page'.n - k + 1 /\ k <= page'.n /\ page'.n <= Len(page.file)
            /\ toDev'[Len(toDev')] = m
          BY <1>1, <2>4, <3>3, <3>4, <4>1
      <4>3. \A j \in 1..(page'.n - k) : toDev'[j].cmd = "chunk" /\ toDev'[j].data = <<page.file[k + j]>>
          BY <3>1, <3>4, <4>1 DEF Receiving
      <4>4. Receiving'
          BY <1>1, <1>2, <3>1, <4>1, <4>2, <4>3 DEF Receiving
      <4> QED BY <1>1, <2>2, <4>4 DEF Undisturbed
    <3> QED BY <2>6, <3>5, <3>6
  <2> QED BY <2>5, <2>6
<1> QED BY <1>3, <1>4 DEF GenuineInv

\* What the page reads is what the phase has on the line.
LEMMA ReadIsGenuine == ASSUME BackupTypes, GenuineInv, ReadLine PROVE GenuineInv'
<1> DEFINE m == Head(toHost)
<1>1. /\ toHost # <<>> /\ toHost' = Tail(toHost) /\ OnLine(m)
      /\ UNCHANGED <<job, imp, archives, authed, skey, upset>>
    BY Zenon DEF ReadLine, devVars
<1>2. m = toHost[1] /\ toHost \in Seq(Events)
    BY <1>1 DEF BackupTypes, LinesTyped
<1> HIDE DEF m
<1>3. CASE upset
    BY <1>1, <1>3, DisturbedIsGenuine
<1>4. CASE ~upset /\ page.at \notin ImportAt
  <2>1. page.at \in {"idle", "connecting", "exportSent", "export"}
      BY <1>4 DEF BackupTypes, PageTyped, Pages, BusyAt, ImportAt
  <2>3. CASE UNCHANGED <<page, result, toDev>>
    <3>1. FailedAlone'
        BY <1>1, <2>3, FailureKept DEF GenuineInv
    <3>2. page'.at \notin ImportAt
        BY <1>4, <2>3
    <3> QED BY <3>1, <3>2 DEF GenuineInv, Undisturbed
  <2>4. CASE page.at = "connecting"
    <3>1. UNCHANGED <<result, toDev>> /\ (page' = page \/ page' = NoPage)
        BY <1>1, <2>4 DEF OnLine
    <3>2. page'.at \notin ImportAt
        BY <1>4, <3>1 DEF NoPage, ImportAt
    <3>3. FailedAlone'
        BY <1>1, <2>4, <3>1 DEF GenuineInv, FailedAlone
    <3> QED BY <3>2, <3>3 DEF GenuineInv, Undisturbed
  <2>5. CASE page.at # "connecting" /\ ~UNCHANGED <<page, result, toDev>>
    <3>1. page.at = "export" /\ (Fail("export") \/ TakeArchive)
        BY <1>1, <1>4, <2>1, <2>5 DEF OnLine, Kind
    <3>2. page' = NoPage /\ result'.kind = "export"
        BY <3>1 DEF TakeArchive, Fail, Report
    <3> QED BY <3>2, DisturbedIsGenuine DEF NoPage, ImportAt
  <2> QED BY <2>3, <2>4, <2>5
<1>5. CASE ~upset /\ page.at \in ImportAt
  <2>1. authed /\ skey # NoKey /\ (Announced \/ Decided)
      BY <1>1, <1>5 DEF GenuineInv, Undisturbed, Receiving
  <2>2. ~(result.kind = "import" /\ ~result.ok)
      BY <1>5 DEF GenuineInv, FailedAlone, ImportAt
  <2>3. Len(toHost) = 1 /\ toHost' = <<>> /\ m.ev \in {"error", "IMPORT_READY", "IMPORT_DONE"}
        /\ toDev = <<>> /\ (job = NoJob)
    <3>1. \E e \in {"error", "IMPORT_READY", "IMPORT_DONE"} : OneLine(e)
        BY <1>1, <2>1 DEF Announced, Decided
    <3>2. Len(toHost) = 1 /\ m.ev \in {"error", "IMPORT_READY", "IMPORT_DONE"}
        BY <1>2, <3>1 DEF OneLine
    <3>3. toHost' = <<>>
        BY <1>1, <1>2, <3>2
    <3> QED BY <1>1, <2>1, <3>2, <3>3 DEF Announced, Decided
  <2>4. DecryptsTo(page.file, page.phrase)' = DecryptsTo(page'.file, page'.phrase)
      BY <1>1, Zenon DEF DecryptsTo, Blob, BlobLen
  <2>5. CASE UNCHANGED <<page, result, toDev>>
    <3>1. FailedAlone'
        BY <1>1, <2>2, <2>5 DEF FailedAlone
    <3>2. Announced' \/ Decided'
        BY <1>1, <2>1, <2>3, <2>5 DEF Announced, Decided
    <3> QED BY <1>1, <2>1, <3>1, <3>2 DEF GenuineInv, Undisturbed
  <2>6. CASE m.ev = "error" /\ page.at \in {"begin", "commit"} /\ Fail("import")
    <3>1. /\ page' = NoPage /\ toDev' = Append(toDev, [cmd |-> "abort"])
          /\ result' = [kind |-> "import", ok |-> FALSE, file |-> page.file, phrase |-> page.phrase]
        BY <2>6 DEF Fail, Report, Ask
    <3>2. page'.at = "idle" /\ job' = NoJob /\ \A i \in DOMAIN toDev' : toDev'[i].cmd = "abort"
        BY <1>1, <2>3, <3>1 DEF NoPage
    <3>3. Len(page.file) > MaxImport \/ DecryptsTo(page.file, page.phrase) = {}
        BY <1>1, <1>2, <2>1, <2>3, <2>6 DEF Announced, Decided, OneLine, NoJob
    <3>4. result'.file = page.file /\ result'.phrase = page.phrase
        BY <3>1
    <3>5. \A f, p : DecryptsTo(f, p)' = DecryptsTo(f, p)
        BY <1>1, Zenon DEF DecryptsTo, Blob, BlobLen
    <3>6. FailedAlone'
        BY <3>2, <3>3, <3>4, <3>5 DEF FailedAlone
    <3> QED BY <3>2, <3>6 DEF GenuineInv, Undisturbed, ImportAt
  <2>7. CASE m.ev = "IMPORT_READY" /\ page.at = "begin" /\ page' = [page EXCEPT !.at = "chunks"] /\ UNCHANGED <<result, toDev>>
    <3>1. page'.at = "chunks" /\ page'.file = page.file /\ page'.n = page.n /\ Len(page.file) \in Nat
        BY <1>5, <2>7, PageIs
    <3>2. imp = [on |-> TRUE, acc |-> <<>>, len |-> Len(page.file), sha |-> page.file] /\ page.n = 0
        BY <1>1, <1>2, <2>1, <2>3, <2>7 DEF Announced, Decided, OneLine, NoJob
    <3>3. Len(imp.acc) = 0 /\ imp.on /\ imp.len = Len(page.file) /\ imp.sha = page.file
        BY <3>2
    <3>4. Receiving'
        BY <1>1, <2>3, <2>7, <3>1, <3>2, <3>3 DEF Receiving
    <3>5. FailedAlone'
        BY <1>1, <2>2, <2>7 DEF FailedAlone
    <3> QED BY <1>1, <2>1, <3>4, <3>5 DEF GenuineInv, Undisturbed
  <2>8. CASE page' = NoPage /\ Report("import", TRUE)
    <3>1. result'.ok
        BY <2>8 DEF Report
    <3> QED BY <2>8, <3>1, DisturbedIsGenuine DEF NoPage, ImportAt
  <2> QED BY <1>1, <1>5, <2>3, <2>5, <2>6, <2>7, <2>8 DEF OnLine, Kind, ImportAt
<1> QED BY <1>3, <1>4, <1>5

\* The other steps of the page end its operation or disturb it.
LEMMA HostIsGenuine == ASSUME BackupTypes, GenuineInv, BackupHost PROVE GenuineInv'
<1>1. CASE TimeOut \/ SendThrows \/ LoseLine
  <2>1. upset'
      BY <1>1, Zenon DEF TimeOut, SendThrows, LoseLine
  <2> QED BY <2>1, DisturbedIsGenuine
<1>2. CASE ClosePage
  <2>1. page'.at = "connecting" /\ result'.kind = "none"
      BY <1>2 DEF ClosePage, NoResult
  <2> QED BY <2>1, DisturbedIsGenuine DEF ImportAt
<1> QED BY <1>1, <1>2, BeginIsGenuine, PageIsGenuine, ReadIsGenuine, Zenon DEF BackupHost

\* With no task, the head of the line decides what the device does.
LEMMA IdleSteps ==
  ASSUME BackupDevice, job = NoJob, ~(Edit \/ ResetFiles \/ ResetKey \/ PowerCut)
  PROVE  \/ LogIn
         \/ /\ toDev # <<>>
            /\ \/ Refuse
               \/ Head(toDev).cmd \in {"restart", "connect"} /\ EndSession
               \/ Head(toDev).cmd = "export" /\ ExportPasswords
               \/ Head(toDev).cmd = "begin" /\ BackupImportBegin
               \/ Head(toDev).cmd = "chunk" /\ BackupImportChunk
               \/ Head(toDev).cmd = "commit" /\ BackupImportCommit
               \/ Head(toDev).cmd = "abort" /\ BackupImportAbort
<1>1. job.at = "idle"
    BY DEF NoJob
<1>2. ~(ExportTotp \/ ImportPassword \/ SavePassword \/ ImportTotp \/ ImportAlg \/ ImportDone)
    BY <1>1 DEF ExportTotp, ImportPassword, SavePassword, ImportTotp, ImportAlg, ImportDone
<1>3. /\ EndSession => toDev # <<>> /\ Head(toDev).cmd \in {"restart", "connect"}
      /\ Refuse => toDev # <<>>
      /\ ExportPasswords => toDev # <<>> /\ Head(toDev).cmd = "export"
      /\ BackupImportBegin => toDev # <<>> /\ Head(toDev).cmd = "begin"
      /\ BackupImportChunk => toDev # <<>> /\ Head(toDev).cmd = "chunk"
      /\ BackupImportCommit => toDev # <<>> /\ Head(toDev).cmd = "commit"
      /\ BackupImportAbort => toDev # <<>> /\ Head(toDev).cmd = "abort"
    BY DEF EndSession, Refuse, ExportPasswords, BackupImportBegin, BackupImportChunk, BackupImportCommit, BackupImportAbort,
           Served, Command
<1> QED BY <1>2, <1>3 DEF BackupDevice

\* From phase to phase.
LEMMA AnnouncedNext ==
  ASSUME BackupTypes, Announced, authed, skey # NoKey, UNCHANGED page,
         BackupDevice, ~(Edit \/ ResetFiles \/ ResetKey \/ PowerCut)
  PROVE  authed' /\ skey' # NoKey /\ Announced'
<1>1. page.at \in {"beginSent", "begin"} /\ page.n = 0 /\ job = NoJob /\ toDev \in Seq(Requests) /\ toHost \in Seq(Events)
    BY DEF Announced, BackupTypes, LinesTyped
<1>2. toDev # <<>> => /\ Len(toDev) = 1 /\ toDev[1].cmd = "begin" /\ toDev[1].len = Len(page.file) /\ toDev[1].sha = page.file
                      /\ toHost = <<>> /\ Head(toDev) = toDev[1]
    BY <1>1 DEF Announced
<1>3. ~LogIn /\ ~Refuse
    BY DEF LogIn, Refuse
<1>4. BackupImportBegin /\ toDev # <<>>
    BY <1>1, <1>2, <1>3, IdleSteps
<1>5. /\ UNCHANGED <<skey, authed, job>> /\ toDev' = Tail(toDev)
      /\ \/ Head(toDev).len > MaxImport /\ Tell(<<Error>>)
         \/ /\ imp' = [on |-> TRUE, acc |-> <<>>, len |-> Head(toDev).len, sha |-> Head(toDev).sha]
            /\ Tell(<<EventOf("IMPORT_READY", Head(toDev).op)>>)
    BY <1>4, Zenon DEF BackupImportBegin, Taken
<1>6. toDev' = <<>>
    BY <1>1, <1>2, <1>4, <1>5
<1>7. \A e : Tell(<<e>>) => Len(toHost') = 1 /\ toHost'[1] = e
    BY <1>2, <1>4 DEF Tell
<1>8. Error.ev = "error" /\ \A o : EventOf("IMPORT_READY", o).ev = "IMPORT_READY"
    BY DEF Error, EventOf
<1>9. \/ OneLine("error")' /\ Len(page.file) > MaxImport
      \/ OneLine("IMPORT_READY")' /\ imp' = [on |-> TRUE, acc |-> <<>>, len |-> Len(page.file), sha |-> page.file]
    BY <1>2, <1>4, <1>5, <1>7, <1>8 DEF OneLine
<1> QED BY <1>1, <1>5, <1>6, <1>9 DEF Announced

\* Receiving', with n for what has come.
LEMMA ReceivingTo ==
  ASSUME NEW n, n = Len(imp'.acc),
         page'.at \in {"chunks", "commitSent", "commit"} /\ toHost' = <<>> /\ job' = NoJob,
         imp'.on /\ imp'.len = Len(page'.file) /\ imp'.sha = page'.file,
         n <= page'.n /\ page'.n <= Len(page'.file),
         \A j \in 1..n : imp'.acc[j] = page'.file[j],
         \A j \in 1..(page'.n - n) : toDev'[j].cmd = "chunk" /\ toDev'[j].data = <<page'.file[n + j]>>,
         page'.at = "chunks" => Len(toDev') = page'.n - n,
         page'.at # "chunks" => /\ page'.n = Len(page'.file) /\ Len(toDev') = page'.n - n + 1
                                /\ toDev'[Len(toDev')].cmd = "commit" /\ toDev'[Len(toDev')].phrase = page'.phrase
  PROVE  Receiving'
BY DEF Receiving

\* The device takes a chunk, or the COMMIT behind them all.
LEMMA ReceivingNext ==
  ASSUME BackupTypes, Receiving, authed, skey # NoKey, UNCHANGED page,
         BackupDevice, ~(Edit \/ ResetFiles \/ ResetKey \/ PowerCut)
  PROVE  authed' /\ skey' # NoKey /\ (Receiving' \/ Decided')
<1>0. PICK k : k = Len(imp.acc)
    OBVIOUS
<1>1. /\ page.at \in {"chunks", "commitSent", "commit"} /\ toHost = <<>> /\ job = NoJob
      /\ imp.on /\ imp.len = Len(page.file) /\ imp.sha = page.file
      /\ k <= page.n /\ page.n <= Len(page.file)
      /\ \A j \in 1..k : imp.acc[j] = page.file[j]
      /\ \A j \in 1..(page.n - k) : toDev[j].cmd = "chunk" /\ toDev[j].data = <<page.file[k + j]>>
      /\ page.at = "chunks" => Len(toDev) = page.n - k
      /\ page.at # "chunks" => /\ page.n = Len(page.file) /\ Len(toDev) = page.n - k + 1
                               /\ toDev[Len(toDev)].cmd = "commit" /\ toDev[Len(toDev)].phrase = page.phrase
    BY <1>0 DEF Receiving
<1>2. /\ toDev \in Seq(Requests) /\ imp.acc \in Seq(Piece) /\ page.file \in Seq(Piece) /\ page.n \in Nat /\ Len(page.file) \in Nat
      /\ imp \in [on : BOOLEAN, acc : Hex, len : Nat, sha : Hex]
    BY <1>1, PageIs DEF BackupTypes, LinesTyped, ImportTyped, Hex, ImportAt
<1>3. k \in Nat /\ Len(toDev) \in Nat /\ (toDev # <<>> => Head(toDev) = toDev[1] /\ Len(toDev) > 0)
    BY <1>0, <1>2
<1>4. ~LogIn /\ ~Refuse
    BY DEF LogIn, Refuse
<1>10. /\ k <= page.n /\ page.n <= Len(page.file) /\ page.n - k \in Nat
       /\ page.at = "chunks" => Len(toDev) = page.n - k
       /\ page.at # "chunks" => page.n = Len(page.file) /\ Len(toDev) = (page.n - k) + 1
    BY <1>1, <1>2, <1>3
<1>11. page.n \in Nat /\ k \in Nat /\ Len(toDev) \in Nat
    BY <1>2, <1>3
<1>5. page.n > k => toDev # <<>> /\ Head(toDev) = toDev[1] /\ toDev[1].cmd = "chunk" /\ toDev[1].data = <<page.file[k + 1]>>
  <2> SUFFICES ASSUME page.n > k
               PROVE  toDev # <<>> /\ Head(toDev) = toDev[1] /\ toDev[1].cmd = "chunk" /\ toDev[1].data = <<page.file[k + 1]>>
      OBVIOUS
  <2>1. 1 \in 1..(page.n - k)
      BY <1>2, <1>3
  <2>2. Len(toDev) > 0
      BY <1>1, <1>2, <1>3
  <2> QED BY <1>1, <1>2, <1>3, <2>1, <2>2
<1>6. toDev # <<>> /\ ~(page.n > k) => /\ page.at # "chunks" /\ Len(toDev) = 1 /\ Head(toDev).cmd = "commit"
                                       /\ Head(toDev).phrase = page.phrase /\ Len(page.file) = k
  <2> SUFFICES ASSUME toDev # <<>>, ~(page.n > k)
               PROVE  /\ page.at # "chunks" /\ Len(toDev) = 1 /\ Head(toDev).cmd = "commit"
                      /\ Head(toDev).phrase = page.phrase /\ Len(page.file) = k
      OBVIOUS
  <2>1. page.n - k = 0 /\ page.n = k
      BY <1>1, <1>2, <1>3
  <2>2. page.at # "chunks"
      BY <1>1, <1>3, <2>1
  <2>3. Len(page.file) = k
      BY <1>10, <2>1, <2>2
  <2>4. Len(toDev) = (page.n - k) + 1
      BY <1>10, <2>2
  <2>5. Len(toDev) = 1
      BY <1>11, <2>1, <2>4
  <2> QED BY <1>1, <1>3, <2>2, <2>3, <2>5
<1>7. (BackupImportChunk /\ page.n > k) \/ (BackupImportCommit /\ toDev # <<>> /\ ~(page.n > k))
    BY <1>1, <1>4, <1>5, <1>6, IdleSteps
<1>8. CASE BackupImportChunk /\ page.n > k
  <2>1. PICK x : x = page.file[k + 1]
      OBVIOUS
  <2>2. k + 1 \in 1..Len(page.file) /\ x \in Piece /\ Len(imp.acc) + Len(<<x>>) = k + 1
      BY <1>0, <1>1, <1>2, <1>3, <1>8, <2>1
  <2>3. ~(Len(imp.acc) + Len(<<x>>) > imp.len)
      BY <1>1, <1>2, <1>3, <2>2
  <2>4. /\ imp' = [imp EXCEPT !.acc = @ \o <<x>>] /\ toDev' = Tail(toDev)
        /\ UNCHANGED <<toHost, skey, authed, job>>
      BY <1>1, <1>5, <1>8, <2>1, <2>3, Zenon DEF BackupImportChunk, Taken
  <2>5. PICK t : t = imp.acc \o <<x>>
      OBVIOUS
  <2>6. Len(t) = k + 1 /\ t[k + 1] = x /\ \A j \in 1..k : t[j] = imp.acc[j]
      BY <1>0, <1>2, <1>3, <2>2, <2>5
  <2>7. imp'.on /\ imp'.len = imp.len /\ imp'.sha = imp.sha /\ imp'.acc = t
      BY <1>1, <1>2, <2>4, <2>5
  <2>8. \A j \in 1..(k + 1) : t[j] = page.file[j]
      BY <1>1, <1>3, <2>1, <2>6
  <2>9. Len(toDev') = Len(toDev) - 1 /\ \A j \in 1..Len(toDev') : toDev'[j] = toDev[j + 1]
      BY <1>2, <1>5, <1>8, <2>4, HeadTailProperties
  <2>10. k + 1 <= page.n
      BY <1>2, <1>3, <1>8
  <2>11. \A j \in 1..(page.n - (k + 1)) : toDev'[j].cmd = "chunk" /\ toDev'[j].data = <<page.file[k + 1 + j]>>
    <3> SUFFICES ASSUME NEW j \in 1..(page.n - (k + 1))
                 PROVE  toDev'[j].cmd = "chunk" /\ toDev'[j].data = <<page.file[k + 1 + j]>>
        OBVIOUS
    <3>1. j + 1 \in 1..(page.n - k) /\ k + (j + 1) = k + 1 + j /\ page.n - k <= Len(toDev)
        BY <1>2, <1>3, <1>10
    <3>2. j \in 1..Len(toDev')
        BY <1>2, <1>3, <2>9, <3>1
    <3>3. toDev[j + 1].cmd = "chunk" /\ toDev[j + 1].data = <<page.file[k + (j + 1)]>>
        BY <1>1, <3>1
    <3> QED BY <2>9, <3>1, <3>2, <3>3
  <2>12. page.at = "chunks" => Len(toDev') = page.n - (k + 1)
      BY <1>2, <1>3, <1>10, <2>9
  <2>13. page.at # "chunks" => Len(toDev') = page.n - (k + 1) + 1 /\ page.n = Len(page.file)
    <3> SUFFICES ASSUME page.at # "chunks" PROVE Len(toDev') = page.n - (k + 1) + 1 /\ page.n = Len(page.file)
        OBVIOUS
    <3>1. Len(toDev) = (page.n - k) + 1 /\ page.n = Len(page.file) /\ Len(toDev') = Len(toDev) - 1
        BY <1>10, <2>9
    <3> QED BY <1>11, <3>1
  <2>14. page.at # "chunks" => toDev'[Len(toDev')] = toDev[Len(toDev)]
      BY <1>2, <1>3, <2>9, <2>10, <2>13
  <2>15. page' = page /\ Len(imp'.acc) = k + 1 /\ Len(page'.file) = Len(page.file)
      BY <2>6, <2>7
  <2>16. /\ page'.at \in {"chunks", "commitSent", "commit"} /\ toHost' = <<>> /\ job' = NoJob
         /\ imp'.on /\ imp'.len = Len(page'.file) /\ imp'.sha = page'.file
         /\ k + 1 <= page'.n /\ page'.n <= Len(page'.file)
      BY <1>1, <2>4, <2>7, <2>10, <2>15
  <2>17. page'.at # "chunks" => /\ page'.n = Len(page'.file) /\ Len(toDev') = page'.n - (k + 1) + 1
                                /\ toDev'[Len(toDev')].cmd = "commit" /\ toDev'[Len(toDev')].phrase = page'.phrase
      BY <1>1, <2>13, <2>14, <2>15
  <2>18. \A j \in 1..(k + 1) : imp'.acc[j] = page'.file[j]
      BY <2>7, <2>8, <2>15
  <2>19. PICK n : n = k + 1
      OBVIOUS
  <2>20. n = Len(imp'.acc)
      BY <2>15, <2>19
  <2>21. Receiving'
    <3>1. /\ n <= page'.n /\ \A j \in 1..n : imp'.acc[j] = page'.file[j]
          /\ \A j \in 1..(page'.n - n) : toDev'[j].cmd = "chunk" /\ toDev'[j].data = <<page'.file[n + j]>>
          /\ page'.at = "chunks" => Len(toDev') = page'.n - n
          /\ page'.at # "chunks" => /\ page'.n = Len(page'.file) /\ Len(toDev') = page'.n - n + 1
                                    /\ toDev'[Len(toDev')].cmd = "commit" /\ toDev'[Len(toDev')].phrase = page'.phrase
        BY <2>11, <2>12, <2>15, <2>16, <2>17, <2>18, <2>19, Zenon
    <3> QED BY <2>16, <2>20, <3>1, ReceivingTo
  <2> QED BY <2>4, <2>21
<1>9. CASE BackupImportCommit /\ toDev # <<>> /\ ~(page.n > k)
  <2>1. imp.acc = page.file
      BY <1>0, <1>1, <1>2, <1>3, <1>6, <1>9, SeqEqual
  <2>2. PICK d : d = DecryptsTo(page.file, page.phrase)
      OBVIOUS
  <2>3. Len(imp.acc) = imp.len /\ imp.acc = imp.sha /\ DecryptsTo(imp.acc, Head(toDev).phrase) = d
      BY <1>0, <1>1, <1>6, <1>9, <2>1, <2>2
  <2>4. /\ toDev' = Tail(toDev) /\ UNCHANGED <<skey, authed, archives>>
        /\ \/ d = {} /\ Tell(<<Error>>) /\ UNCHANGED job
           \/ UNCHANGED toHost /\ job'.at = "next"
    <3>1. toDev' = Tail(toDev) /\ UNCHANGED <<skey, authed, archives>>
        BY <1>9, Zenon DEF BackupImportCommit, Taken
    <3>2. CASE d = {}
        BY <1>9, <2>3, <3>1, <3>2, Zenon DEF BackupImportCommit
    <3>3. CASE d # {}
      <4>1. UNCHANGED toHost /\ \E a \in d :
               job' = [at |-> "next", arch |-> a, todo |-> {i \in Items : archives[a].content[i] # 0},
                       over |-> Head(toDev).over, op |-> Head(toDev).op, item |-> Alg, key |-> skey]
          BY <1>1, <1>9, <2>3, <3>3, Zenon DEF BackupImportCommit
      <4>2. job'.at = "next"
          BY <4>1
      <4> QED BY <3>1, <4>1, <4>2
    <3> QED BY <3>2, <3>3
  <2>5. toDev' = <<>>
      BY <1>2, <1>6, <1>9, <2>4
  <2>6. page.at \in {"commitSent", "commit"}
      BY <1>1, <1>6, <1>9
  <2>7. d = DecryptsTo(page.file, page.phrase)'
      BY <2>2, <2>4, Zenon DEF DecryptsTo, Blob, BlobLen
  <2>8. CASE UNCHANGED toHost /\ job'.at = "next"
      BY <1>1, <2>4, <2>5, <2>6, <2>8 DEF Decided
  <2>9. CASE d = {} /\ Tell(<<Error>>) /\ UNCHANGED job
    <3>1. Len(toHost') = 1 /\ toHost'[1] = Error
        BY <1>1, <2>9 DEF Tell
    <3>2. OneLine("error")'
        BY <3>1 DEF OneLine, Error
    <3> QED BY <1>1, <2>4, <2>5, <2>6, <2>7, <2>9, <3>2 DEF Decided
  <2> QED BY <2>4, <2>8, <2>9
<1> QED BY <1>7, <1>8, <1>9

\* importVaultPlaintext runs to its end.
LEMMA DecidedNext ==
  ASSUME BackupTypes, Decided, authed, skey # NoKey, UNCHANGED page,
         BackupDevice, ~(Edit \/ ResetFiles \/ ResetKey \/ PowerCut)
  PROVE  authed' /\ skey' # NoKey /\ Decided'
<1>1. /\ page.at \in {"commitSent", "commit"} /\ toDev = <<>>
      /\ \/ job.at \in {"next", "save"} /\ toHost = <<>>
         \/ job = NoJob
    BY DEF Decided
<1>2. ~LogIn
    BY DEF LogIn
<1>3. job.at \in {"next", "save"} /\ toHost = <<>>
    BY <1>1, <1>2, IdleSteps
<1>4. ~(EndSession \/ Refuse \/ ExportPasswords \/ BackupImportBegin \/ BackupImportChunk \/ BackupImportCommit \/ BackupImportAbort)
    BY <1>1, Zenon DEF EndSession, Refuse, ExportPasswords, BackupImportBegin, BackupImportChunk, BackupImportCommit,
       BackupImportAbort, Served, Command
<1>5. ~ExportTotp
    BY <1>3 DEF ExportTotp
<1>6. ImportPassword \/ SavePassword \/ ImportTotp \/ ImportAlg \/ ImportDone
    BY <1>2, <1>4, <1>5, Zenon DEF BackupDevice
<1>7. UNCHANGED <<skey, authed, toDev>> /\ (~ImportDone => UNCHANGED toHost)
    BY <1>6, Zenon DEF ImportPassword, SavePassword, ImportTotp, ImportAlg, ImportDone
<1>8. CASE ImportDone
  <2>1. job' = NoJob /\ Tell(<<EventOf("IMPORT_DONE", job.op)>>)
      BY <1>8 DEF ImportDone
  <2>2. Len(toHost') = 1 /\ toHost'[1].ev = "IMPORT_DONE"
      BY <1>3, <2>1 DEF Tell, EventOf
  <2> QED BY <1>1, <1>7, <2>1, <2>2 DEF Decided, OneLine
<1>9. CASE ~ImportDone
  <2>1. job'.at \in {"next", "save"}
    <3>1. CASE ImportPassword
      <4>1. PICK l \in NextOf(1) : Finished(l) \/ job' = [job EXCEPT !.at = "save", !.item = l]
          BY <3>1 DEF ImportPassword
      <4>2. job.todo \subseteq Items
          BY <3>1, RestoreJob
      <4>3. l \in Items
          BY <4>2 DEF NextOf
      <4> QED BY <3>1, <4>1, <4>3, RestoreJob
    <3>2. CASE SavePassword
        BY <3>2, RestoreJob DEF SavePassword
    <3>3. CASE ImportTotp \/ ImportAlg
      <4>1. PICK l \in NextOf(2) \cup NextOf(3) : Finished(l)
          BY <3>3 DEF ImportTotp, ImportAlg
      <4>2. job.todo \subseteq Items
          BY <3>3, RestoreJob
      <4>3. l \in Items
          BY <4>2 DEF NextOf
      <4> QED BY <3>3, <4>1, <4>3, RestoreJob
    <3> QED BY <1>6, <1>9, <3>1, <3>2, <3>3
  <2> QED BY <1>1, <1>3, <1>7, <1>9, <2>1 DEF Decided
<1> QED BY <1>8, <1>9

\* The device's steps, when nothing disturbs the operation.
LEMMA DeviceIsGenuine == ASSUME BackupTypes, BackupTypes', GenuineInv, BackupDevice PROVE GenuineInv'
<1>1. CASE Edit \/ ResetFiles \/ ResetKey \/ PowerCut
  <2>1. upset'
      BY <1>1, Zenon DEF Edit, ResetFiles, ResetKey, PowerCut
  <2> QED BY <2>1, DisturbedIsGenuine
<1>2. CASE ~(Edit \/ ResetFiles \/ ResetKey \/ PowerCut)
  <2>1. UNCHANGED <<upset, page, result>>
      BY <1>2, Zenon DEF BackupDevice, EndSession, Refuse, LogIn, ExportPasswords, ExportTotp, BackupImportBegin, BackupImportChunk,
                         BackupImportCommit, BackupImportAbort, ImportPassword, SavePassword, ImportTotp, ImportAlg, ImportDone,
                         devHist, pageVars
  <2>2. CASE upset
      BY <2>1, <2>2, DisturbedIsGenuine
  <2>3. CASE ~upset /\ page.at \in ImportAt
    <3>1. authed /\ skey # NoKey /\ (Announced \/ Receiving \/ Decided)
        BY <2>3 DEF GenuineInv, Undisturbed
    <3>2. ~(result'.kind = "import" /\ ~result'.ok)
        BY <2>1, <2>3 DEF GenuineInv, FailedAlone, ImportAt
    <3>3. ASSUME authed' /\ skey' # NoKey /\ (Announced' \/ Receiving' \/ Decided') PROVE GenuineInv'
      <4>1. FailedAlone'
          BY <3>2 DEF FailedAlone
      <4> QED BY <3>3, <4>1 DEF GenuineInv, Undisturbed
    <3>4. CASE Announced
        BY <1>2, <2>1, <2>3, <3>1, <3>3, <3>4, AnnouncedNext
    <3>5. CASE Receiving
        BY <1>2, <2>1, <2>3, <3>1, <3>3, <3>5, ReceivingNext
    <3>6. CASE Decided
        BY <1>2, <2>1, <2>3, <3>1, <3>3, <3>6, DecidedNext
    <3> QED BY <3>1, <3>4, <3>5, <3>6
  <2>4. CASE ~upset /\ page.at \notin ImportAt
    <3>1. FailedAlone'
      <4> SUFFICES ASSUME result.kind = "import", ~result.ok PROVE FailedAlone'
          BY <2>1 DEF FailedAlone
      <4>1. job = NoJob /\ \A i \in DOMAIN toDev : toDev[i].cmd = "abort"
          BY <2>4 DEF GenuineInv, FailedAlone
      <4>2. toDev # <<>> => Head(toDev).cmd = "abort"
          BY <4>1, OneLess DEF BackupTypes, LinesTyped
      <4>3. BackupImportAbort \/ Refuse \/ LogIn
          BY <1>2, <4>1, <4>2, IdleSteps
      <4>4. UNCHANGED <<upset, result, page, job, archives>> /\ (UNCHANGED toDev \/ (toDev # <<>> /\ toDev' = Tail(toDev)))
          BY <2>1, <4>3, Zenon DEF BackupImportAbort, Refuse, LogIn, Served, Command, Taken, devHist, devVars
      <4> QED BY <4>4, FailureKept DEF GenuineInv
    <3> QED BY <2>1, <2>4, <3>1 DEF GenuineInv, Undisturbed
  <2> QED BY <2>2, <2>3, <2>4
<1> QED BY <1>1, <1>2

\* Every step keeps the phases.
LEMMA GenuineKept == BackupTypes /\ BackupTypes' /\ GenuineInv /\ [BackupNext]_backupVars => GenuineInv'
<1> SUFFICES ASSUME BackupTypes, BackupTypes', GenuineInv, [BackupNext]_backupVars PROVE GenuineInv'
    OBVIOUS
<1>1. CASE BackupHost
    BY <1>1, HostIsGenuine
<1>2. CASE BackupDevice
    BY <1>2, DeviceIsGenuine
<1>3. CASE UNCHANGED backupVars
  <2>1. UNCHANGED <<upset, page, result, job, archives, toDev, toHost, imp, authed, skey>>
      BY <1>3, Zenon DEF backupVars, devVars, pageVars, histVars
  <2>2. FailedAlone'
      BY <2>1, FailureKept DEF GenuineInv
  <2>3. DecryptsTo(page.file, page.phrase)' = DecryptsTo(page.file, page.phrase)
      BY <2>1, Zenon DEF DecryptsTo, Blob, BlobLen
  <2>4. Announced => Announced'
      BY <2>1, Zenon DEF Announced, OneLine
  <2>5. Receiving => Receiving'
      BY <2>1, Zenon DEF Receiving
  <2>6. Decided => Decided'
      BY <2>1, <2>3, Zenon DEF Decided, OneLine
  <2> QED BY <2>1, <2>2, <2>4, <2>5, <2>6, Zenon DEF GenuineInv, Undisturbed
<1> QED BY <1>1, <1>2, <1>3 DEF BackupNext

\* What the page tells the user is so.
THEOREM ReportsTrueHolds == BackupSpec => []ReportsTrue
<1>1. BackupInit => BackupTypes /\ ReportInv /\ GenuineInv
    BY TypesInitially, ReportInitially, GenuineInitially
<1>2. BackupTypes /\ ReportInv /\ GenuineInv /\ [BackupNext]_backupVars => (BackupTypes /\ ReportInv /\ GenuineInv)'
    BY BackupTypesKept, ReportKept, GenuineKept
<1>3. BackupTypes /\ ReportInv /\ GenuineInv => ReportsTrue
  <2> SUFFICES ASSUME BackupTypes, ReportInv, GenuineInv PROVE ReportsTrue
      OBVIOUS
  <2>1. BackupTypeOK
    <3>1. page.at \in BusyAt \cup {"idle", "connecting"}
        BY DEF BackupTypes, PageTyped, Pages
    <3>2. imp.on \in BOOLEAN /\ imp.len <= MaxImport /\ Len(imp.acc) <= imp.len
        BY DEF BackupTypes, ImportTyped
    <3> QED BY <3>1, <3>2 DEF BackupTypeOK, BackupTypes, FilesTyped, FlagsTyped, Entries
  <2>2. GenuineRestores
      BY DEF GenuineInv, FailedAlone, GenuineRestores
  <2> QED BY <2>1, <2>2 DEF ReportsTrue, ReportInv
<1> QED BY <1>1, <1>2, <1>3, PTL DEF BackupSpec

\* The line to the device, command by command: every BEGIN is followed by its chunks, and then by
\* its COMMIT or an ABORT, unless the page is still at it.
Owes == page.at \in {"beginSent", "begin", "chunks"}
Closes(m) == m.cmd \in {"commit", "abort"}

\* Before place i of the line the import that is open there has got k pieces of len.
Collected(i, k, len) ==
  \/ \E b \in 1..(i - 1) :
       /\ toDev[b].cmd = "begin" /\ toDev[b].len = len /\ k = i - 1 - b
       /\ \A j \in (b + 1)..(i - 1) : toDev[j].cmd = "chunk"
  \/ /\ \A j \in 1..(i - 1) : toDev[j].cmd = "chunk"
     /\ imp.on => imp.len = len /\ Len(imp.acc) + i - 1 = k
NoFault ==
  /\ authed /\ ~resetting /\ page.at # "connecting"
  /\ \A i \in DOMAIN toDev :
       toDev[i].cmd \notin {"restart", "connect"} /\ (toDev[i].cmd = "chunk" => Len(toDev[i].data) = 1)
Finishes ==
  /\ Owes => Collected(Len(toDev) + 1, page.n, Len(page.file)) /\ (page.at # "chunks" => page.n = 0)
  /\ \A i \in DOMAIN toDev : toDev[i].cmd = "commit" => \E len \in Nat : Collected(i, len, len)
Closed ==
  /\ imp.on => Owes \/ \E i \in DOMAIN toDev : Closes(toDev[i])
  /\ \A b \in DOMAIN toDev : toDev[b].cmd = "begin" => Owes \/ \E i \in DOMAIN toDev : i > b /\ Closes(toDev[i])
InOrderly == NoFault /\ Finishes /\ Closed
ClosedInv == faults = 0 => InOrderly

\* Nothing is open at the start.
LEMMA ClosedInitially == BackupInit => ClosedInv
BY DEF BackupInit, ClosedInv, InOrderly, NoFault, Finishes, Closed, Owes, NoPage, NoImport

\* What is before a place of the line says what has come there.
LEMMA CollectedStays ==
  ASSUME NEW i \in Nat, NEW k, NEW len, Collected(i, k, len), UNCHANGED imp,
         \A j \in 1..(i - 1) : toDev'[j] = toDev[j]
  PROVE  Collected(i, k, len)'
<1>1. CASE /\ \A j \in 1..(i - 1) : toDev[j].cmd = "chunk"
           /\ imp.on => imp.len = len /\ Len(imp.acc) + i - 1 = k
    BY <1>1 DEF Collected
<1>2. ASSUME NEW b \in 1..(i - 1), toDev[b].cmd = "begin", toDev[b].len = len, k = i - 1 - b,
             \A j \in (b + 1)..(i - 1) : toDev[j].cmd = "chunk"
      PROVE  Collected(i, k, len)'
  <2>1. \A j \in (b + 1)..(i - 1) : toDev'[j].cmd = "chunk"
      BY <1>2
  <2>2. toDev'[b] = toDev[b]
      OBVIOUS
  <2> QED BY <1>2, <2>1, <2>2 DEF Collected
<1> QED BY <1>1, <1>2 DEF Collected

\* Steps that leave the line and the open import alone.
LEMMA NothingAsked ==
  ASSUME BackupTypes, InOrderly, UNCHANGED <<toDev, imp, authed, resetting>>, page'.at # "connecting",
         Owes' <=> Owes,
         Owes => page'.n = page.n /\ page'.file = page.file /\ (page'.at # "chunks" => page.at # "chunks")
  PROVE  InOrderly'
<1>1. toDev \in Seq(Requests) /\ Len(toDev) \in Nat
    BY DEF BackupTypes, LinesTyped
<1>2. NoFault'
    BY DEF InOrderly, NoFault
<1>3. Closed'
    BY DEF InOrderly, Closed
<1>4. ASSUME NEW i \in Nat, NEW k, NEW len, Collected(i, k, len) PROVE Collected(i, k, len)'
    BY <1>4, CollectedStays
<1>5. ASSUME Owes' PROVE Collected(Len(toDev) + 1, page.n, Len(page.file))' /\ (page'.at # "chunks" => page'.n = 0)
  <2>0. PICK i \in Nat : i = Len(toDev) + 1
      BY <1>1
  <2>1. PICK n, len : n = page.n /\ len = Len(page.file)
      OBVIOUS
  <2>2. Collected(i, n, len) /\ (page.at # "chunks" => page.n = 0)
      BY <1>5, <2>0, <2>1 DEF InOrderly, Finishes
  <2>3. Collected(i, n, len)'
      BY <1>4, <2>2
  <2>4. i = Len(toDev') + 1 /\ n = page'.n /\ len = Len(page'.file)
      BY <1>5, <2>0, <2>1
  <2> QED BY <1>5, <2>2, <2>3, <2>4
<1>6. ASSUME NEW i \in DOMAIN toDev', toDev'[i].cmd = "commit" PROVE \E len \in Nat : Collected(i, len, len)'
  <2>1. PICK len \in Nat : Collected(i, len, len)
      BY <1>6 DEF InOrderly, Finishes
  <2> QED BY <1>1, <1>4, <2>1
<1>7. Finishes'
    BY <1>5, <1>6 DEF Finishes
<1> QED BY <1>2, <1>3, <1>7 DEF InOrderly

\* One more command.
LEMMA OneAsked ==
  ASSUME BackupTypes, InOrderly, UNCHANGED <<imp, authed, resetting>>, page'.at # "connecting",
         NEW m \in Requests, toDev' = Append(toDev, m),
         m.cmd \notin {"restart", "connect"}, m.cmd = "chunk" => Len(m.data) = 1,
         m.cmd = "begin" => Owes',
         m.cmd = "commit" => \E len \in Nat : Collected(Len(toDev) + 1, len, len),
         Owes' => Collected(Len(toDev) + 1, page.n, Len(page.file))' /\ (page'.at # "chunks" => page'.n = 0),
         Owes => Owes' \/ Closes(m)
  PROVE  InOrderly'
<1>1. toDev \in Seq(Requests) /\ Len(toDev) \in Nat
    BY DEF BackupTypes, LinesTyped
<1>2. /\ DOMAIN toDev = 1..Len(toDev) /\ DOMAIN toDev' = 1..(Len(toDev) + 1) /\ toDev'[Len(toDev) + 1] = m
      /\ \A j \in 1..Len(toDev) : toDev'[j] = toDev[j]
    BY <1>1, AppendProperties
<1>3. NoFault'
    BY <1>2 DEF InOrderly, NoFault
<1>4. Closed'
  <2>1. (Owes \/ \E i \in DOMAIN toDev : Closes(toDev[i])) => (Owes' \/ \E i \in DOMAIN toDev' : Closes(toDev'[i]))
      BY <1>1, <1>2
  <2>2. imp'.on => Owes' \/ \E i \in DOMAIN toDev' : Closes(toDev'[i])
      BY <2>1 DEF InOrderly, Closed
  <2>3. ASSUME NEW b \in DOMAIN toDev', toDev'[b].cmd = "begin"
        PROVE  Owes' \/ \E i \in DOMAIN toDev' : i > b /\ Closes(toDev'[i])
    <3>1. CASE b = Len(toDev) + 1
        BY <1>2, <2>3, <3>1
    <3>2. CASE b \in DOMAIN toDev
      <4>1. Owes \/ \E i \in DOMAIN toDev : i > b /\ Closes(toDev[i])
          BY <1>2, <2>3, <3>2 DEF InOrderly, Closed
      <4>2. CASE Owes
          BY <1>1, <1>2, <3>2, <4>2
      <4>3. ASSUME NEW i \in DOMAIN toDev, i > b, Closes(toDev[i])
            PROVE  \E h \in DOMAIN toDev' : h > b /\ Closes(toDev'[h])
          BY <1>1, <1>2, <4>3
      <4> QED BY <4>1, <4>2, <4>3
    <3> QED BY <1>1, <1>2, <3>1, <3>2
  <2> QED BY <2>2, <2>3, Zenon DEF Closed
<1>5. ASSUME NEW i \in 1..(Len(toDev) + 1), NEW k, NEW len, Collected(i, k, len) PROVE Collected(i, k, len)'
  <2>1. i \in Nat /\ \A j \in 1..(i - 1) : toDev'[j] = toDev[j]
      BY <1>1, <1>2
  <2> QED BY <1>5, <2>1, CollectedStays
<1>6. ASSUME NEW i \in DOMAIN toDev', toDev'[i].cmd = "commit" PROVE \E len \in Nat : Collected(i, len, len)'
  <2>1. \E len \in Nat : Collected(i, len, len)
    <3>1. CASE i = Len(toDev) + 1
        BY <1>2, <1>6, <3>1
    <3>2. CASE i \in DOMAIN toDev
        BY <1>2, <1>6, <3>2 DEF InOrderly, Finishes
    <3> QED BY <1>1, <1>2, <3>1, <3>2
  <2>2. PICK len \in Nat : Collected(i, len, len)
      BY <2>1
  <2> QED BY <1>2, <1>5, <2>2
<1>7. Finishes'
    BY <1>6 DEF Finishes
<1> QED BY <1>3, <1>4, <1>7 DEF InOrderly

\* The device takes its next command.
LEMMA OneTaken ==
  ASSUME BackupTypes, BackupTypes', InOrderly, UNCHANGED <<page, authed, resetting>>, toDev # <<>>, toDev' = Tail(toDev),
         toDev[1].cmd \in {"chunk", "begin", "commit", "abort", "export"},
         toDev[1].cmd = "chunk" /\ imp'.on => imp.on /\ imp'.len = imp.len /\ Len(imp'.acc) = Len(imp.acc) + 1,
         toDev[1].cmd = "begin" /\ imp'.on => imp'.len = toDev[1].len /\ imp'.acc = <<>>,
         toDev[1].cmd \in {"commit", "abort"} => ~imp'.on,
         toDev[1].cmd = "export" => imp' = imp
  PROVE  InOrderly'
<1>1. toDev \in Seq(Requests) /\ Len(toDev) \in Nat /\ 1 \in DOMAIN toDev /\ Len(toDev) > 0
    BY DEF BackupTypes, LinesTyped
<1>2. /\ DOMAIN toDev = 1..Len(toDev) /\ DOMAIN toDev' = 1..(Len(toDev) - 1) /\ Len(toDev') = Len(toDev) - 1
      /\ \A j \in 1..(Len(toDev) - 1) : toDev'[j] = toDev[j + 1]
    BY <1>1, HeadTailProperties
<1>3. NoFault'
  <2>1. \A i \in DOMAIN toDev' : i + 1 \in DOMAIN toDev /\ toDev'[i] = toDev[i + 1]
      BY <1>1, <1>2
  <2> QED BY <2>1 DEF InOrderly, NoFault
<1>4. \A i \in DOMAIN toDev : i # 1 => i - 1 \in DOMAIN toDev' /\ toDev'[i - 1] = toDev[i]
    BY <1>1, <1>2
<1>5. Closed'
  <2>1. ASSUME imp'.on PROVE Owes' \/ \E i \in DOMAIN toDev' : Closes(toDev'[i])
    <3>1. CASE toDev[1].cmd = "begin"
      <4>1. Owes \/ \E i \in DOMAIN toDev : i > 1 /\ Closes(toDev[i])
          BY <1>1, <3>1 DEF InOrderly, Closed
      <4> QED BY <1>4, <4>1 DEF Owes
    <3>2. CASE toDev[1].cmd # "begin"
      <4>1. imp.on /\ ~Closes(toDev[1])
          BY <2>1, <3>2 DEF Closes
      <4>2. Owes \/ \E i \in DOMAIN toDev : Closes(toDev[i])
          BY <4>1 DEF InOrderly, Closed
      <4> QED BY <1>4, <4>1, <4>2 DEF Owes
    <3> QED BY <3>1, <3>2
  <2>2. ASSUME NEW b \in DOMAIN toDev', toDev'[b].cmd = "begin"
        PROVE  Owes' \/ \E i \in DOMAIN toDev' : i > b /\ Closes(toDev'[i])
    <3>1. b \in Nat /\ b + 1 \in DOMAIN toDev /\ toDev[b + 1].cmd = "begin" /\ b > 0
        BY <1>1, <1>2, <2>2
    <3>2. Owes \/ \E i \in DOMAIN toDev : i > b + 1 /\ Closes(toDev[i])
        BY <3>1 DEF InOrderly, Closed
    <3>3. ASSUME NEW i \in DOMAIN toDev, i > b + 1, Closes(toDev[i]) PROVE \E h \in DOMAIN toDev' : h > b /\ Closes(toDev'[h])
      <4>1. i # 1 /\ i - 1 > b
          BY <1>2, <3>1, <3>3
      <4> QED BY <1>4, <3>3, <4>1
    <3> QED BY <3>2, <3>3 DEF Owes
  <2> QED BY <2>1, <2>2, Zenon DEF Closed
<1>6. ASSUME NEW h \in 1..Len(toDev), NEW k, NEW len, Collected(h + 1, k, len) PROVE Collected(h, k, len)'
  <2>1. h \in Nat /\ (h + 1) - 1 = h
      BY <1>1
  <2>2. CASE /\ \A j \in 1..h : toDev[j].cmd = "chunk"
             /\ imp.on => imp.len = len /\ Len(imp.acc) + h = k
    <3>1. toDev[1].cmd = "chunk"
        BY <1>1, <2>2
    <3>2. \A j \in 1..(h - 1) : toDev'[j].cmd = "chunk"
      <4> SUFFICES ASSUME NEW j \in 1..(h - 1) PROVE toDev'[j].cmd = "chunk"
          OBVIOUS
      <4>1. j \in 1..(Len(toDev) - 1) /\ j + 1 \in 1..h
          BY <1>1
      <4> QED BY <1>2, <2>2, <4>1
    <3>3. imp'.on => imp'.len = len /\ Len(imp'.acc) = Len(imp.acc) + 1 /\ Len(imp.acc) + h = k
        BY <2>2, <3>1
    <3>4. Len(imp.acc) \in Nat
        BY DEF BackupTypes, ImportTyped, Hex
    <3>5. imp'.on => imp'.len = len /\ Len(imp'.acc) + h - 1 = k
      <4> SUFFICES ASSUME imp'.on PROVE imp'.len = len /\ Len(imp'.acc) + h - 1 = k
          OBVIOUS
      <4>1. PICK n \in Nat : n = Len(imp.acc)
          BY <3>4
      <4>2. imp'.len = len /\ Len(imp'.acc) = n + 1 /\ n + h = k
          BY <3>3, <4>1
      <4>3. (n + 1) + h - 1 = n + h
          BY <2>1
      <4> QED BY <4>2, <4>3
    <3> QED BY <3>2, <3>5 DEF Collected
  <2>3. ASSUME NEW b \in 1..h, toDev[b].cmd = "begin", toDev[b].len = len, k = h - b,
               \A j \in (b + 1)..h : toDev[j].cmd = "chunk"
        PROVE  Collected(h, k, len)'
    <3>1. \A j \in 1..(h - 1) : j >= b => toDev'[j].cmd = "chunk"
      <4> SUFFICES ASSUME NEW j \in 1..(h - 1), j >= b PROVE toDev'[j].cmd = "chunk"
          OBVIOUS
      <4>1. j \in 1..(Len(toDev) - 1) /\ j + 1 \in (b + 1)..h
          BY <1>1
      <4> QED BY <1>2, <2>3, <4>1
    <3>2. CASE b = 1
      <4>1. \A j \in 1..(h - 1) : toDev'[j].cmd = "chunk"
        <5>1. \A j \in 1..(h - 1) : j >= b
            BY <2>1, <3>2
        <5> QED BY <3>1, <5>1
      <4>2. imp'.on => imp'.len = len /\ Len(imp'.acc) = 0
          BY <2>3, <3>2
      <4>3. imp'.on => imp'.len = len /\ Len(imp'.acc) + h - 1 = k
          BY <2>1, <2>3, <3>2, <4>2
      <4> QED BY <4>1, <4>3 DEF Collected
    <3>3. CASE b # 1
      <4>1. PICK c \in 1..(h - 1) : c + 1 = b
          BY <2>1, <3>3
      <4>2. toDev'[c] = toDev[b]
          BY <1>1, <1>2, <4>1
      <4>3. k = h - 1 - c
          BY <2>1, <2>3, <4>1
      <4>4. \A j \in (c + 1)..(h - 1) : toDev'[j].cmd = "chunk"
          BY <2>1, <3>1, <4>1
      <4> QED BY <2>3, <4>1, <4>2, <4>3, <4>4 DEF Collected
    <3> QED BY <3>2, <3>3
  <2>4. \/ \E b \in 1..h :
             /\ toDev[b].cmd = "begin" /\ toDev[b].len = len /\ k = h - b
             /\ \A j \in (b + 1)..h : toDev[j].cmd = "chunk"
        \/ /\ \A j \in 1..h : toDev[j].cmd = "chunk"
           /\ imp.on => imp.len = len /\ Len(imp.acc) + h = k
    <3>1. Len(imp.acc) \in Nat /\ (Len(imp.acc) + (h + 1)) - 1 = Len(imp.acc) + h
        BY <2>1 DEF BackupTypes, ImportTyped, Hex
    <3> QED BY <1>6, <2>1, <3>1 DEF Collected
  <2> QED BY <2>2, <2>3, <2>4
<1>7. ASSUME Owes' PROVE Collected(Len(toDev) + 1, page.n, Len(page.file))' /\ (page'.at # "chunks" => page'.n = 0)
  <2>1. PICK n, len : n = page.n /\ len = Len(page.file)
      OBVIOUS
  <2>2. Collected(Len(toDev) + 1, n, len) /\ (page.at # "chunks" => page.n = 0)
      BY <1>7, <2>1 DEF InOrderly, Finishes, Owes
  <2>3. Len(toDev) \in 1..Len(toDev)
      BY <1>1
  <2>4. PICK h \in 1..Len(toDev) : h = Len(toDev)
      BY <2>3
  <2>5. Collected(h, n, len)'
      BY <1>6, <2>2, <2>4
  <2>6. h = Len(toDev') + 1 /\ n = page'.n /\ len = Len(page'.file)
      BY <1>1, <1>2, <2>1, <2>4
  <2> QED BY <2>2, <2>5, <2>6
<1>8. ASSUME NEW i \in DOMAIN toDev', toDev'[i].cmd = "commit" PROVE \E len \in Nat : Collected(i, len, len)'
  <2>1. i \in 1..Len(toDev) /\ i + 1 \in DOMAIN toDev /\ toDev'[i] = toDev[i + 1]
      BY <1>1, <1>2
  <2>2. PICK len \in Nat : Collected(i + 1, len, len)
      BY <1>8, <2>1 DEF InOrderly, Finishes
  <2> QED BY <1>6, <2>1, <2>2
<1>9. Finishes'
    BY <1>7, <1>8 DEF Finishes
<1> QED BY <1>3, <1>5, <1>9 DEF InOrderly

\* Fail: an import is aborted, and an export owes the device nothing.
LEMMA FailIsClosed ==
  ASSUME BackupTypes, InOrderly, page.at \in BusyAt, NEW kind, Fail(kind), UNCHANGED <<imp, authed, resetting>>,
         kind = "export" => ~Owes
  PROVE  InOrderly'
<1>1. page'.at = "idle" /\ ~Owes'
    BY DEF Fail, NoPage, Owes
<1>2. CASE kind = "export"
  <2>1. UNCHANGED toDev
      BY <1>2 DEF Fail
  <2> QED BY <1>1, <1>2, <2>1, NothingAsked
<1>3. CASE kind # "export"
  <2>1. PICK m \in Requests : m = [cmd |-> "abort"]
      BY DEF Requests
  <2>2. toDev' = Append(toDev, m)
      BY <1>3, <2>1 DEF Fail, Ask
  <2>3. m.cmd = "abort"
      BY <2>1
  <2> QED BY <1>1, <2>2, <2>3, OneAsked DEF Closes
<1> QED BY <1>2, <1>3

\* The page begins and sends: each line of it is one command more.
LEMMA PageIsClosed ==
  ASSUME BackupTypes, InOrderly,
         \/ \E p \in Phrases : RunBackupExport(p)
         \/ \E f \in files \cup Damaged, p \in Phrases, over \in BOOLEAN : RunBackupImport(f, p, over)
         \/ WaitForBackupEvent \/ SendChunk \/ SendCommit
  PROVE  InOrderly'
<1>0. toDev \in Seq(Requests) /\ Len(toDev) \in Nat
    BY DEF BackupTypes, LinesTyped
<1>1. UNCHANGED <<imp, authed, resetting>>
    BY Zenon DEF RunBackupExport, RunBackupImport, WaitForBackupEvent, SendChunk, SendCommit, devVars
<1>2. ASSUME NEW p \in Phrases, RunBackupExport(p) PROVE InOrderly'
  <2>1. page.at = "idle" /\ page'.at = "exportSent"
      BY <1>2 DEF RunBackupExport
  <2>2. PICK m : m = [cmd |-> "export", phrase |-> p, op |-> ops + 1]
      OBVIOUS
  <2>3. m \in Requests /\ m.cmd = "export"
      BY <2>2 DEF Requests, BackupTypes, CountsTyped
  <2>4. toDev' = Append(toDev, m)
      BY <1>2, <2>2 DEF RunBackupExport, Ask
  <2> QED BY <1>1, <2>1, <2>3, <2>4, OneAsked DEF Owes
<1>3. ASSUME NEW f \in files \cup Damaged, NEW p \in Phrases, NEW over \in BOOLEAN, RunBackupImport(f, p, over)
      PROVE  InOrderly'
  <2>1. page.at = "idle" /\ page'.at = "beginSent" /\ page'.n = 0 /\ page'.file = f
      BY <1>3 DEF RunBackupImport
  <2>2. PICK m : m = [cmd |-> "begin", len |-> Len(f), sha |-> f, op |-> ops + 1]
      OBVIOUS
  <2>3. f \in Hex
    <3>1. files \subseteq Hex \ {<<>>}
        BY DEF BackupTypes, PageTyped
    <3>2. CASE f \in Damaged
      <4>1. PICK g \in files : f = Tail(g) \o <<Head(g)>>
          BY <3>2 DEF Damaged
      <4> QED BY <3>1, <4>1 DEF Hex
    <3> QED BY <3>1, <3>2
  <2>4. m \in Requests /\ m.cmd = "begin" /\ m.len = Len(f)
      BY <2>2, <2>3 DEF Requests, BackupTypes, CountsTyped, Hex
  <2>5. toDev' = Append(toDev, m)
      BY <1>3, <2>2 DEF RunBackupImport, Ask
  <2>6. PICK h \in Nat : h = Len(toDev) + 1
      BY <1>0
  <2>7. toDev'[h] = m /\ h \in 1..((h + 1) - 1) /\ 0 = (h + 1) - 1 - h /\ (h + 1)..((h + 1) - 1) = {}
      BY <1>0, <2>4, <2>5, <2>6
  <2>8. Len(toDev') + 1 = h + 1
      BY <1>0, <2>4, <2>5, <2>6
  <2>9. Collected(Len(toDev) + 1, page.n, Len(page.file))'
      BY <2>1, <2>4, <2>7, <2>8 DEF Collected
  <2> QED BY <1>1, <2>1, <2>4, <2>5, <2>9, OneAsked DEF Owes
<1>4. CASE WaitForBackupEvent
  <2>1. page'.n = page.n /\ page'.file = page.file /\ UNCHANGED toDev /\ (Owes' <=> Owes)
      BY <1>4, WaitIs DEF Owes
  <2>2. page'.at # "connecting" /\ page'.at # "chunks" /\ page.at # "chunks"
      BY <1>4, WaitIs
  <2> QED BY <1>1, <2>1, <2>2, NothingAsked
<1>5. ASSUME SendChunk PROVE InOrderly'
  <2>1. PICK m \in Requests : toDev' = Append(toDev, m) /\ m.cmd = "chunk" /\ m.data = <<page.file[page.n + 1]>>
                              /\ page'.at = "chunks" /\ page'.n = page.n + 1 /\ page'.file = page.file /\ page.at = "chunks"
    <3>1. page.n < Len(page.file) /\ page.at = "chunks"
        BY <1>5 DEF SendChunk
    <3>2. page.n \in Nat /\ Len(page.file) \in Nat
        BY <3>1, PageIs DEF ImportAt
    <3>3. page.n # Len(page.file)
        BY <3>1, <3>2
    <3> QED BY <1>5, <3>1, <3>3, SendIs
  <2>2. Len(m.data) = 1
      BY <2>1
  <2>3. page.n \in Nat
      BY <2>1, PageIs DEF ImportAt
  <2>4. PICK h \in Nat, n \in Nat : h = Len(toDev) + 1 /\ n = page.n
      BY <1>0, <2>3
  <2>5. PICK len : len = Len(page.file)
      OBVIOUS
  <2>6. Collected(h, n, len)
      BY <2>1, <2>4, <2>5 DEF InOrderly, Finishes, Owes
  <2>7. h - 1 = Len(toDev) /\ toDev'[h] = m /\ (\A j \in 1..(h - 1) : toDev'[j] = toDev[j]) /\ (h + 1) - 1 = h
      BY <1>0, <2>1, <2>4
  <2>8. Collected(h, n, len)'
      BY <1>1, <2>6, <2>7, CollectedStays
  <2>9. Collected(h + 1, n + 1, len)'
    <3>1. ASSUME NEW b \in 1..(h - 1), toDev'[b].cmd = "begin", toDev'[b].len = len, n = h - 1 - b,
                 \A j \in (b + 1)..(h - 1) : toDev'[j].cmd = "chunk"
          PROVE  Collected(h + 1, n + 1, len)'
      <4>1. b \in 1..((h + 1) - 1) /\ n + 1 = (h + 1) - 1 - b
          BY <2>4, <3>1
      <4>2. \A j \in (b + 1)..((h + 1) - 1) : j = h \/ j \in (b + 1)..(h - 1)
          OBVIOUS
      <4>3. \A j \in (b + 1)..((h + 1) - 1) : toDev'[j].cmd = "chunk"
          BY <2>1, <2>7, <3>1, <4>2
      <4> QED BY <3>1, <4>1, <4>3 DEF Collected
    <3>2. ASSUME \A j \in 1..(h - 1) : toDev'[j].cmd = "chunk", imp'.on => imp'.len = len /\ Len(imp'.acc) + h - 1 = n
          PROVE  Collected(h + 1, n + 1, len)'
      <4>1. \A j \in 1..((h + 1) - 1) : j = h \/ j \in 1..(h - 1)
          OBVIOUS
      <4>2. \A j \in 1..((h + 1) - 1) : toDev'[j].cmd = "chunk"
          BY <2>1, <2>7, <3>2, <4>1
      <4>3. Len(imp'.acc) \in Nat
          BY <1>1 DEF BackupTypes, ImportTyped, Hex
      <4>4. imp'.on => imp'.len = len /\ Len(imp'.acc) + (h + 1) - 1 = n + 1
        <5>1. PICK a \in Nat : a = Len(imp'.acc)
            BY <4>3
        <5>2. a + h - 1 = n => a + (h + 1) - 1 = n + 1
            OBVIOUS
        <5> QED BY <3>2, <5>1, <5>2
      <4> QED BY <4>2, <4>4 DEF Collected
    <3> QED BY <2>8, <3>1, <3>2 DEF Collected
  <2>10. Len(toDev') + 1 = h + 1 /\ page'.n = n + 1 /\ len = Len(page'.file)
      BY <1>0, <2>1, <2>4, <2>5
  <2>11. Collected(Len(toDev) + 1, page.n, Len(page.file))'
      BY <2>9, <2>10
  <2> QED BY <1>1, <2>1, <2>2, <2>11, OneAsked DEF Owes
<1>6. ASSUME SendCommit PROVE InOrderly'
  <2>1. PICK m \in Requests : toDev' = Append(toDev, m) /\ m.cmd = "commit" /\ page.n = Len(page.file)
                              /\ page'.at = "commitSent" /\ page.at = "chunks"
    <3>1. page.n = Len(page.file) /\ page.at = "chunks"
        BY <1>6 DEF SendCommit
    <3>2. page.n \in Nat /\ Len(page.file) \in Nat
        BY <3>1, PageIs DEF ImportAt
    <3>3. ~(page.n < Len(page.file))
        BY <3>1, <3>2
    <3> QED BY <1>6, <3>1, <3>3, SendIs
  <2>2. Len(page.file) \in Nat
      BY <2>1, PageIs DEF ImportAt
  <2>3. \E len \in Nat : Collected(Len(toDev) + 1, len, len)
      BY <2>1, <2>2 DEF InOrderly, Finishes, Owes
  <2> QED BY <1>1, <2>1, <2>3, OneAsked DEF Owes, Closes
<1> QED BY <1>2, <1>3, <1>4, <1>5, <1>6

\* A line that the page reads, or one that it stops waiting for.
LEMMA ReadIsClosed == ASSUME BackupTypes, InOrderly, ReadLine \/ TimeOut PROVE InOrderly'
<1>1. UNCHANGED <<imp, authed, resetting>>
    BY Zenon DEF ReadLine, TimeOut, devVars
<1>2. page.at # "connecting" /\ (Kind = "export" => ~Owes)
    BY DEF InOrderly, NoFault, Kind, Owes
<1>3. page.at \in {"export", "begin", "commit"} => page.at \in BusyAt
    BY DEF BusyAt
<1>4. CASE TimeOut
    BY <1>1, <1>2, <1>3, <1>4, FailIsClosed DEF TimeOut
<1>5. CASE ReadLine
  <2> DEFINE m == Head(toHost)
  <2>1. OnLine(m)
      BY <1>5 DEF ReadLine
  <2> HIDE DEF m
  <2>2. \/ UNCHANGED <<page, toDev>>
        \/ page.at \in {"export", "begin", "commit"} /\ Fail(Kind)
        \/ page.at = "export" /\ TakeArchive
        \/ page.at = "begin" /\ page' = [page EXCEPT !.at = "chunks"] /\ UNCHANGED toDev
        \/ page.at = "commit" /\ page' = NoPage /\ UNCHANGED toDev
      BY <1>2, <2>1, Zenon DEF OnLine
  <2>3. CASE UNCHANGED <<page, toDev>>
      BY <1>1, <1>2, <2>3, NothingAsked DEF Owes
  <2>4. CASE page.at \in {"export", "begin", "commit"} /\ Fail(Kind)
      BY <1>1, <1>2, <1>3, <2>4, FailIsClosed
  <2>5. CASE page.at = "export" /\ TakeArchive
    <3>1. (page' = NoPage /\ UNCHANGED toDev) \/ Fail("export")
        BY <2>5, Zenon DEF TakeArchive
    <3>2. CASE page' = NoPage /\ UNCHANGED toDev
      <4>1. page'.at = "idle" /\ page.at = "export"
          BY <2>5, <3>2 DEF NoPage
      <4> QED BY <1>1, <3>2, <4>1, NothingAsked DEF Owes
    <3>3. CASE Fail("export")
        BY <1>1, <1>3, <2>5, <3>3, FailIsClosed DEF Owes
    <3> QED BY <3>1, <3>2, <3>3
  <2>6. CASE page.at = "begin" /\ page' = [page EXCEPT !.at = "chunks"] /\ UNCHANGED toDev
    <3>1. page'.at = "chunks" /\ page'.n = page.n /\ page'.file = page.file
        BY <2>6, PageIs DEF ImportAt
    <3> QED BY <1>1, <2>6, <3>1, NothingAsked DEF Owes
  <2>7. CASE page.at = "commit" /\ page' = NoPage /\ UNCHANGED toDev
    <3>1. page'.at = "idle"
        BY <2>7 DEF NoPage
    <3> QED BY <1>1, <2>7, <3>1, NothingAsked DEF Owes
  <2> QED BY <2>2, <2>3, <2>4, <2>5, <2>6, <2>7
<1> QED BY <1>4, <1>5

\* The commands of a backup, as the device takes them.
LEMMA CommandIsClosed ==
  ASSUME BackupTypes, BackupTypes', InOrderly,
         \/ BackupImportBegin \/ BackupImportChunk \/ BackupImportCommit \/ BackupImportAbort \/ ExportPasswords
  PROVE  InOrderly'
<1>1. toDev # <<>> /\ Head(toDev) = toDev[1] /\ 1 \in DOMAIN toDev
  <2>1. toDev # <<>>
      BY Zenon DEF BackupImportBegin, BackupImportChunk, BackupImportCommit, BackupImportAbort, ExportPasswords, Served, Command
  <2> QED BY <2>1 DEF BackupTypes, LinesTyped
<1>2. UNCHANGED <<page, authed, resetting>> /\ toDev' = Tail(toDev)
    BY Zenon DEF BackupImportBegin, BackupImportChunk, BackupImportCommit, BackupImportAbort, ExportPasswords, Taken, pageVars
<1>3. CASE BackupImportBegin
  <2>1. toDev[1].cmd = "begin"
      BY <1>1, <1>3 DEF BackupImportBegin, Served, Command
  <2>2. imp' = NoImport \/ imp' = [on |-> TRUE, acc |-> <<>>, len |-> toDev[1].len, sha |-> toDev[1].sha]
      BY <1>1, <1>3, Zenon DEF BackupImportBegin
  <2>3. imp'.on => imp'.len = toDev[1].len /\ imp'.acc = <<>>
      BY <2>2 DEF NoImport
  <2> QED BY <1>1, <1>2, <2>1, <2>3, OneTaken
<1>4. CASE BackupImportChunk
  <2>1. toDev[1].cmd = "chunk"
      BY <1>1, <1>4 DEF BackupImportChunk, Served, Command
  <2>2. PICK d : d = toDev[1].data
      OBVIOUS
  <2>3. Len(d) = 1 /\ d \in Seq(Piece)
    <3>1. toDev[1] \in Requests
        BY <1>1 DEF BackupTypes, LinesTyped
    <3> QED BY <1>1, <2>1, <2>2, <3>1 DEF InOrderly, NoFault, Requests, Hex
  <2>4. \/ imp' = imp /\ ~imp.on
        \/ imp' = NoImport
        \/ imp.on /\ imp' = [imp EXCEPT !.acc = @ \o d]
      BY <1>1, <1>4, <2>2, Zenon DEF BackupImportChunk
  <2>5. imp'.on => imp.on /\ imp' = [imp EXCEPT !.acc = @ \o d]
      BY <2>4 DEF NoImport
  <2>6. imp \in [on : BOOLEAN, acc : Seq(Piece), len : Nat, sha : Hex]
      BY DEF BackupTypes, ImportTyped, Hex
  <2>7. imp'.on => imp.on /\ imp'.len = imp.len /\ Len(imp'.acc) = Len(imp.acc) + 1
    <3>0. imp.acc \in Seq(Piece)
        BY <2>6
    <3>1. Len(imp.acc \o d) = Len(imp.acc) + 1
      <4>1. PICK a \in Seq(Piece) : a = imp.acc
          BY <3>0
      <4>2. Len(a \o d) = Len(a) + Len(d)
          BY <2>3, <4>1, ConcatProperties, Zenon
      <4> QED BY <2>3, <4>1, <4>2
    <3>2. [imp EXCEPT !.acc = @ \o d].len = imp.len /\ [imp EXCEPT !.acc = @ \o d].acc = imp.acc \o d
        BY <2>6
    <3> QED BY <2>5, <3>1, <3>2, Zenon
  <2> QED BY <1>1, <1>2, <2>1, <2>7, OneTaken
<1>5. CASE BackupImportCommit
  <2>1. toDev[1].cmd = "commit"
      BY <1>1, <1>5 DEF BackupImportCommit, Served, Command
  <2>2. imp' = NoImport \/ (imp' = imp /\ imp.on /\ Len(imp.acc) # imp.len)
      BY <1>5, Zenon DEF BackupImportCommit
  <2>3. PICK len \in Nat : Collected(1, len, len)
      BY <1>1, <2>1 DEF InOrderly, Finishes
  <2>4. imp.on => imp.len = len /\ Len(imp.acc) + 1 - 1 = len
      BY <2>3 DEF Collected
  <2>5. Len(imp.acc) \in Nat
      BY DEF BackupTypes, ImportTyped, Hex
  <2>6. imp' = NoImport
      BY <2>2, <2>4, <2>5
  <2> QED BY <1>1, <1>2, <2>1, <2>6, OneTaken DEF NoImport
<1>6. CASE BackupImportAbort
  <2>1. toDev[1].cmd = "abort" /\ ~imp'.on
      BY <1>1, <1>6 DEF BackupImportAbort, Served, Command, NoImport
  <2> QED BY <1>1, <1>2, <2>1, OneTaken
<1>7. CASE ExportPasswords
  <2>1. toDev[1].cmd = "export" /\ imp' = imp
      BY <1>1, <1>7 DEF ExportPasswords, Served, Command
  <2> QED BY <1>1, <1>2, <2>1, OneTaken
<1> QED BY <1>3, <1>4, <1>5, <1>6, <1>7

\* Without faults the session lasts, and no step but these touches the line or the open import.
LEMMA ClosedKept == BackupTypes /\ BackupTypes' /\ ClosedInv /\ [BackupNext]_backupVars => ClosedInv'
<1> SUFFICES ASSUME BackupTypes, BackupTypes', ClosedInv, [BackupNext]_backupVars, faults' = 0 PROVE InOrderly'
    BY DEF ClosedInv
<1>1. faults \in Nat /\ \A n \in Nat : n + 1 # 0
    BY DEF BackupTypes, CountsTyped
<1>2. ~(SendThrows \/ ClosePage \/ LoseLine \/ ResetFiles \/ PowerCut)
  <2>1. faults' # faults + 1
      BY <1>1
  <2> QED BY <2>1, Zenon DEF SendThrows, ClosePage, LoseLine, ResetFiles, PowerCut
<1>3. faults = 0
  <2>1. faults' = faults \/ faults' = faults + 1
      BY <1>2, Zenon DEF BackupNext, BackupHost, BackupDevice, RunBackupExport, RunBackupImport, Picked, WaitForBackupEvent, SendChunk,
                  SendCommit, ReadLine, TimeOut, EndSession, Refuse, LogIn, Edit, ResetKey, ExportPasswords, ExportTotp,
                  BackupImportBegin, BackupImportChunk, BackupImportCommit, BackupImportAbort, ImportPassword, DeletePassword,
                  SavePassword, ImportTotp, ImportAlg, ImportDone, Write, backupVars
  <2> QED BY <1>1, <2>1
<1>4. InOrderly
    BY <1>3 DEF ClosedInv
<1>5. authed /\ ~resetting /\ (toDev # <<>> => Head(toDev).cmd \notin {"restart", "connect"})
  <2>1. toDev # <<>> => Head(toDev) = toDev[1] /\ 1 \in DOMAIN toDev
      BY DEF BackupTypes, LinesTyped
  <2> QED BY <1>4, <2>1 DEF InOrderly, NoFault
<1>6. ~(EndSession \/ Refuse \/ LogIn \/ ResetKey)
    BY <1>5 DEF EndSession, Refuse, LogIn, ResetKey, Command
<1>7. CASE BackupHost
    BY <1>2, <1>4, <1>7, PageIsClosed, ReadIsClosed, Zenon DEF BackupHost
<1>8. CASE BackupImportBegin \/ BackupImportChunk \/ BackupImportCommit \/ BackupImportAbort \/ ExportPasswords
    BY <1>4, <1>8, CommandIsClosed
<1>9. CASE \/ Edit \/ ExportTotp \/ ImportPassword \/ SavePassword \/ ImportTotp \/ ImportAlg \/ ImportDone
           \/ UNCHANGED backupVars
  <2>1. UNCHANGED <<toDev, imp, authed, resetting, page>>
      BY <1>9, Zenon DEF Edit, ExportTotp, ImportPassword, SavePassword, ImportTotp, ImportAlg, ImportDone, pageVars, backupVars, devVars
  <2>2. page.at # "connecting"
      BY <1>4 DEF InOrderly, NoFault
  <2> QED BY <1>4, <2>1, <2>2, NothingAsked DEF Owes
<1> QED BY <1>2, <1>6, <1>7, <1>8, <1>9, Zenon DEF BackupNext, BackupDevice

\* NoAbandonedImport: while nothing is lost, whatever the page gives up, however many operations
\* and chunks are on the line, a BACKUP_IMPORT_COMMIT that is taken finds the whole announced length,
\* and so either it or the ABORT ends the import.
THEOREM NoAbandonedImportHolds == BackupSpec => []NoAbandonedImport
<1>1. BackupInit => BackupTypes /\ ClosedInv
    BY TypesInitially, ClosedInitially
<1>2. BackupTypes /\ ClosedInv /\ [BackupNext]_backupVars => (BackupTypes /\ ClosedInv)'
    BY BackupTypesKept, ClosedKept
<1>3. BackupTypes /\ ClosedInv => NoAbandonedImport
  <2> SUFFICES ASSUME BackupTypes, ClosedInv, page.at = "idle", toDev = <<>>, imp.on PROVE faults > 0
      BY DEF NoAbandonedImport
  <2>1. ~InOrderly
      BY DEF InOrderly, Closed, Owes
  <2>2. faults \in Nat /\ faults # 0
      BY <2>1 DEF ClosedInv, BackupTypes, CountsTyped
  <2> QED BY <2>2
<1> QED BY <1>1, <1>2, <1>3, PTL DEF BackupSpec
=============================================================================
