------------------------------- MODULE Backup -------------------------------
(***************************************************************************)
(* Backup and restore: the browser's runBackupExport and runBackupImport   *)
(* (src/plugin/dashboard.js), the serial line, and on the device the CLI   *)
(* task's BACKUP_* commands (src/main.cpp, src/BackupManager.cpp) with the *)
(* vault files they read and write (src/StorageManager.cpp).  The FIDO     *)
(* task's Reset removes those files and the storage key at any moment.     *)
(*                                                                         *)
(* An archive is a sequence of pieces, each known by its archive and its   *)
(* place; a checksum is the sequence it was taken of; an archive opens     *)
(* when all of its pieces are there in order and the passphrase is right.  *)
(* A line is one message: both queues are first in, first out, and a line  *)
(* may be lost (the device's receive buffer is full, or it does not        *)
(* decrypt).  An item of the vault is its value and the key it is under.   *)
(* The op of a line is the page's operation it is about; it is there for   *)
(* the properties, and neither side has it.                                *)
(***************************************************************************)
EXTENDS Integers, Sequences, FiniteSets

CONSTANTS
  Logins,      \* password entries, all of one site
  Names,       \* TOTP entries
  Vals,        \* their values
  Phrases,     \* passphrases
  MaxImport,   \* MAX_BACKUP_HEX_LEN, in pieces
  MaxOps,      \* bound: backups and restores asked for
  MaxEdits,    \* bound: commands that change the vault between them
  MaxFaults    \* bound: lost lines, wrong files and passphrases, failed writes, resets, power cuts, closed pages

ASSUME BackupAssumption ==
  /\ IsFiniteSet(Logins) /\ IsFiniteSet(Names) /\ Logins \cap Names = {} /\ "alg" \notin Logins \cup Names
  /\ Logins # {} /\ Phrases # {} /\ Vals \subseteq Nat \ {0} /\ {1, 2} \subseteq Vals
  /\ MaxImport \in Nat /\ MaxOps \in Nat /\ MaxEdits \in Nat /\ MaxFaults \in Nat

Alg   == "alg"                       \* /crypto_alg.txt
Items == Logins \cup Names \cup {Alg}
NoKey == 0                           \* isStorageKeyLoaded is false
Keys  == 1..2                        \* the keys of two PINs

Gone   == [val |-> 0, key |-> 0]
Default == [val |-> 1, key |-> 0]    \* no /crypto_alg.txt: -7
Empty  == [i \in Items |-> IF i = Alg THEN Default ELSE Gone]

VARIABLES
  vault, skey, authed,        \* the files; storageKey and authenticated
  imp,                        \* the statics of backupImport*
  job,                        \* the CLI task: idle, or where in which command
  resetting,                  \* the FIDO task is between the two halves of a Reset
  archives,                   \* history: every archive made, with the vault it was made of
  toDev, toHost,              \* the serial line
  page, buf, files,           \* the dashboard: runBackup*, backupExportBuffer, saved files
  result,                     \* what the page last told the user
  upset, late,                \* history: something disturbed the page's operation; it took the
                              \* first answer to an earlier one for its own
  restored,                   \* history: archives the device has restored for this operation
  before, mishaps,            \* history: the vault when the last restore began, and what
                              \* went wrong since
  done,                       \* history: the restore just finished
  ops, edits, faults

devVars   == <<vault, skey, authed, imp, job, resetting>>
pageVars  == <<page, buf, files, result>>
histVars  == <<archives, upset, late, restored, before, mishaps, done>>
backupVars == <<devVars, toDev, toHost, pageVars, histVars, ops, edits, faults>>

NoImport == [on |-> FALSE, acc |-> <<>>, len |-> 0, sha |-> <<>>]
NoJob    == [at |-> "idle"]
NoPage   == [at |-> "idle"]
NoBuf    == [on |-> FALSE, chunks |-> <<>>, sha |-> <<>>]
NoResult == [kind |-> "none"]
NoDone   == [on |-> FALSE]

\* getPasswordFromStorage and getTotpSecret find what is under the loaded key.
Opens(i) == vault[i].val # 0 /\ (i = Alg \/ vault[i].key = skey)
Visible  == [i \in Items |-> IF Opens(i) THEN vault[i].val ELSE 0]

\* A piece for each password and secret; the first one has the small items too.
BlobLen(c) ==
  LET n == Cardinality({i \in Logins \cup Names : c[i] # 0}) IN IF n = 0 THEN 1 ELSE n
Blob(a)    == [n \in 1..BlobLen(archives[a].content) |-> <<a, n>>]

\* An archive of an earlier session is on the user's disk: of one password and the secrets when
\* the vault is empty, of all passwords when it is full.
Full == [i \in Items |-> IF i = Alg THEN Default ELSE [val |-> 1, key |-> 1]]
Some == Names \cup {CHOOSE l \in Logins : TRUE}
BackupInit ==
  /\ \E start \in {<<Empty, Some>>, <<Full, Logins>>} :
       LET c == [i \in Items |-> IF i \in start[2] \cup {Alg} THEN 2 ELSE 0]
       IN  /\ vault = start[1]
           /\ archives = <<[content |-> c, phrase |-> CHOOSE p \in Phrases : TRUE, snap |-> c, torn |-> FALSE]>>
  /\ skey = 1 /\ authed = TRUE /\ imp = NoImport /\ job = NoJob /\ resetting = FALSE
  /\ files = {Blob(1)}
  /\ toDev = <<>> /\ toHost = <<>> /\ page = NoPage /\ buf = NoBuf /\ result = NoResult
  /\ upset = FALSE /\ late = FALSE /\ restored = {} /\ before = Empty /\ mishaps = 0 /\ done = NoDone
  /\ ops = 0 /\ edits = 0 /\ faults = 0

Error  == [ev |-> "error"]
Event(e) == [ev |-> e]
EventOf(e, o) == [ev |-> e, op |-> o]
Tell(m) == toHost' = toHost \o m
Ask(m)  == toDev' = Append(toDev, m)

-----------------------------------------------------------------------------
(* The dashboard.                                                          *)

Report(kind, ok) == result' = [kind |-> kind, ok |-> ok,
                               file |-> page.file, phrase |-> page.phrase]

\* The state of the page's operation that a new one starts with.
Disturbed == toDev # <<>> \/ toHost # <<>> \/ job # NoJob \/ ~authed \/ skey = NoKey

\* The history starts again with a new operation, unless the device is still at the last one.
StartHistory ==
  /\ restored' = {} /\ late' = FALSE
  /\ IF job = NoJob THEN before' = Empty /\ mishaps' = 0 /\ done' = NoDone
     ELSE UNCHANGED <<before, mishaps, done>>

RunBackupExport(p) ==
  /\ page.at = "idle" /\ ops < MaxOps
  /\ page' = [at |-> "exportSent", phrase |-> p, file |-> <<>>, over |-> FALSE, n |-> 0]
  /\ buf' = NoBuf
  /\ Ask([cmd |-> "export", phrase |-> p, op |-> ops + 1])
  /\ result' = NoResult
  /\ ops' = ops + 1 /\ upset' = Disturbed /\ StartHistory
  /\ UNCHANGED <<devVars, toHost, files, archives, edits, faults>>

\* The user picks a saved file, or one that is not as it was saved, and may mistype its passphrase.
Damaged == {Tail(f) \o <<Head(f)>> : f \in files} \ files
Mistyped(f, p) == ~\E a \in DOMAIN archives : f = Blob(a) /\ archives[a].phrase = p
Picked(f, p) ==
  /\ f # <<>>
  /\ IF f \in Damaged \/ Mistyped(f, p) THEN faults < MaxFaults /\ faults' = faults + 1
     ELSE UNCHANGED faults
  /\ upset' = (Disturbed \/ f \in Damaged)
RunBackupImport(f, p, over) ==
  /\ page.at = "idle" /\ ops < MaxOps
  /\ Picked(f, p)
  /\ page' = [at |-> "beginSent", phrase |-> p, file |-> f, over |-> over, n |-> 0]
  /\ Ask([cmd |-> "begin", len |-> Len(f), sha |-> f, op |-> ops + 1])
  /\ result' = NoResult
  /\ ops' = ops + 1 /\ StartHistory
  /\ UNCHANGED <<devVars, toHost, buf, files, archives, edits>>

\* sendSecure has returned; only now is the listener there.
Waiting == [exportSent |-> "export", beginSent |-> "begin", commitSent |-> "commit"]
WaitForBackupEvent ==
  /\ page.at \in DOMAIN Waiting
  /\ page' = [page EXCEPT !.at = Waiting[page.at]]
  /\ UNCHANGED <<devVars, toDev, toHost, buf, files, result, histVars, ops, edits, faults>>

SendChunk ==
  /\ page.at = "chunks" /\ page.n < Len(page.file)
  /\ Ask([cmd |-> "chunk", data |-> <<page.file[page.n + 1]>>])
  /\ page' = [page EXCEPT !.n = @ + 1]
  /\ UNCHANGED <<devVars, toHost, buf, files, result, histVars, ops, edits, faults>>

SendCommit ==
  /\ page.at = "chunks" /\ page.n = Len(page.file)
  /\ Ask([cmd |-> "commit", phrase |-> page.phrase, over |-> page.over, op |-> ops])
  /\ page' = [page EXCEPT !.at = "commitSent"]
  /\ UNCHANGED <<devVars, toHost, buf, files, result, histVars, ops, edits, faults>>

\* The catch and finally of both functions.
NoAbort(kind) ==                            \* mutant: a failed restore is not aborted on the device
  /\ page' = NoPage /\ Report(kind, FALSE)
  /\ buf' = IF kind = "export" THEN NoBuf ELSE buf
  /\ UNCHANGED <<toDev, files>>
Fail(kind) ==
  /\ page' = NoPage /\ Report(kind, FALSE)
  /\ buf' = IF kind = "export" THEN NoBuf ELSE buf
  /\ IF kind = "export" THEN UNCHANGED toDev ELSE Ask([cmd |-> "abort"])
  /\ UNCHANGED files

\* EXPORT_DONE: the chunks are joined, and their length and checksum compared.
hexBlob == SelectSeq(buf.chunks, LAMBDA x : x # <<>>)
TakeArchive ==
  IF buf.on /\ hexBlob = buf.sha
  THEN /\ page' = NoPage /\ buf' = NoBuf /\ files' = files \cup {hexBlob}
       /\ result' = [kind |-> "export", ok |-> TRUE, phrase |-> page.phrase,
                     file |-> hexBlob]
       /\ UNCHANGED toDev
  ELSE Fail("export")

Kind == IF page.at \in {"export", "exportSent"} THEN "export" ELSE "import"

\* A chunk past the end makes the array longer; what is between is empty.
WithChunk(chunks, k, data) ==
  [n \in 1..(IF k > Len(chunks) THEN k ELSE Len(chunks)) |->
     IF n = k THEN data ELSE IF n \in DOMAIN chunks THEN chunks[n] ELSE <<>>]

\* processIncomingLine for the BACKUP module: one listener at most is there.
OnLine(m) ==
  IF page.at = "connecting"
  THEN /\ page' = IF m.ev = "BOOT" THEN NoPage ELSE page
       /\ UNCHANGED <<buf, files, result, toDev>>
  ELSE
  CASE m.ev = "EXPORT_START" ->
         /\ buf' = [on |-> TRUE, chunks |-> [n \in 1..m.len |-> <<>>], sha |-> m.sha]
         /\ UNCHANGED <<page, files, result, toDev>>
    [] m.ev = "EXPORT_CHUNK" /\ buf.on ->
         /\ buf' = [buf EXCEPT !.chunks = WithChunk(@, m.seq, m.data)]
         /\ UNCHANGED <<page, files, result, toDev>>
    [] m.ev = "error" /\ page.at \in {"export", "begin", "commit"} -> Fail(Kind)
    [] m.ev = "EXPORT_DONE" /\ page.at = "export" -> TakeArchive
    [] m.ev = "IMPORT_READY" /\ page.at = "begin" ->
         /\ page' = [page EXCEPT !.at = "chunks"]
         /\ UNCHANGED <<buf, files, result, toDev>>
    [] m.ev = "IMPORT_DONE" /\ page.at = "commit" ->
         /\ page' = NoPage /\ Report("import", TRUE)
         /\ UNCHANGED <<buf, files, toDev>>
    [] OTHER -> UNCHANGED <<page, buf, files, result, toDev>>

\* An answer that the page waited for in an earlier operation opens the next one's.
Belated(m) ==
  \/ m.ev = "EXPORT_START" /\ page.at \in {"exportSent", "export"} /\ m.op # ops
  \/ m.ev = "IMPORT_READY" /\ page.at = "begin" /\ m.op # ops

ReadLine ==
  /\ toHost # <<>>
  /\ toHost' = Tail(toHost)
  /\ OnLine(Head(toHost))
  /\ late' = (late \/ Belated(Head(toHost)))
  /\ UNCHANGED <<devVars, archives, upset, restored, before, mishaps, done, ops, edits, faults>>

\* 60, 15 and 30 s: the device may be deriving a key or writing flash.
TimeOut ==
  /\ page.at \in {"export", "begin", "commit"}
  /\ Fail(Kind)
  /\ upset' = TRUE
  /\ UNCHANGED <<devVars, toHost, archives, late, restored, before, mishaps, done, ops, edits, faults>>

\* getWriter throws: another command is being written.
SendThrows ==
  /\ page.at = "chunks" /\ faults < MaxFaults
  /\ Fail("import")
  /\ faults' = faults + 1 /\ upset' = TRUE
  /\ UNCHANGED <<devVars, toHost, archives, late, restored, before, mishaps, done, ops, edits>>

\* The page is closed, with or without a DISCONNECT, and opened again: its handshake ends the
\* session, and lines under the old key are nothing to it.
ClosePage ==
  /\ page.at # "idle" /\ faults < MaxFaults
  /\ page' = [at |-> "connecting"] /\ buf' = NoBuf /\ result' = NoResult
  /\ \E bye \in {<<>>, <<[cmd |-> "restart"]>>} : toDev' = toDev \o bye \o <<[cmd |-> "connect"]>>
  /\ faults' = faults + 1
  /\ UNCHANGED <<devVars, toHost, files, histVars, ops, edits>>

LoseLine ==
  /\ faults < MaxFaults
  /\ \/ toDev # <<>> /\ toDev' = Tail(toDev) /\ UNCHANGED toHost
     \/ toHost # <<>> /\ toHost' = Tail(toHost) /\ UNCHANGED toDev
  /\ faults' = faults + 1 /\ upset' = TRUE
  /\ UNCHANGED <<devVars, pageVars, archives, late, restored, before, mishaps, done, ops, edits>>

-----------------------------------------------------------------------------
(* The device: the command loop.                                           *)

Command(c) == job = NoJob /\ toDev # <<>> /\ Head(toDev).cmd = c
Served(c)  == Command(c) /\ authed
Taken      == toDev' = Tail(toDev)

devHist == <<archives, upset, late, restored, before, mishaps, done>>

\* RESTART_SYSTEM and DISCONNECT, and the handshake, which is followed by the former.
EndSession ==
  /\ Command("restart") \/ Command("connect")
  /\ Taken /\ authed' = FALSE /\ skey' = NoKey
  /\ IF Command("connect") THEN Tell(<<Event("BOOT")>>) ELSE UNCHANGED toHost
  /\ UNCHANGED <<vault, imp, job, resetting, pageVars, devHist, ops, edits, faults>>

\* Not logged in: the answer is PIN_REQ, which no backup waits for.
Refuse ==
  /\ job = NoJob /\ toDev # <<>> /\ ~authed /\ Head(toDev).cmd \notin {"restart", "connect"}
  /\ Taken
  /\ UNCHANGED <<devVars, toHost, pageVars, devHist, ops, edits, faults>>

\* VERIFY_PIN, after CREATE_PIN where there is no PIN.
LogIn ==
  /\ job = NoJob /\ toDev = <<>> /\ ~authed /\ ~resetting
  /\ \E k \in Keys : skey' = k /\ (k = 1 \/ edits > 0)
  /\ authed' = TRUE
  /\ UNCHANGED <<vault, imp, job, resetting, toDev, toHost, pageVars, devHist, ops, edits, faults>>

\* SAVE_PASS, DELETE_PASS, UPDATE_PASS, SAVE_TOTP, DELETE_TOTP, UPDATE_SETTINGS; PURGE_STORAGE;
\* UPDATE_PIN, which leaves every entry under the old key.  They come on the same line, so a
\* backup's command is sent before or after them.
\* deleteTotpSecret needs no key.
DeleteTotpSecret(i) ==
  /\ i \in Names /\ vault[i].val # 0
  /\ vault' = [vault EXCEPT ![i] = Gone]

Edit ==
  /\ job = NoJob /\ toDev = <<>> /\ authed /\ edits < MaxEdits
  /\ \/ \E i \in Items, v \in Vals \cup {0} :
          /\ i \in Logins => v = 0 \/ vault[i].val = 0
          /\ i \notin Logins => v # 0
          /\ v # 0 => skey # NoKey \/ i = Alg
          /\ vault' = [vault EXCEPT ![i] = IF v = 0 THEN Gone ELSE [val |-> v, key |-> IF i = Alg THEN 0 ELSE skey]]
          /\ UNCHANGED skey
     \/ \E i \in Names : DeleteTotpSecret(i) /\ UNCHANGED skey
     \/ vault' = [i \in Items |-> IF i \in Logins THEN Gone ELSE vault[i]] /\ skey' = NoKey
     \/ skey' \in Keys \ {skey} /\ skey # NoKey /\ UNCHANGED vault
  /\ edits' = edits + 1
  /\ before' = Empty /\ done' = NoDone /\ upset' = TRUE
  /\ UNCHANGED <<authed, imp, job, resetting, toDev, toHost, pageVars, archives, late, restored, mishaps, ops, faults>>

\* resetFido2System on the other core: the files, then the key and the session.
ResetFiles ==
  /\ ~resetting /\ faults < MaxFaults
  /\ vault' = Empty /\ resetting' = TRUE
  /\ faults' = faults + 1 /\ before' = Empty /\ done' = NoDone /\ upset' = TRUE
  /\ mishaps' = mishaps + 1
  /\ UNCHANGED <<skey, authed, imp, job, toDev, toHost, pageVars, archives, late, restored, ops, edits>>
ResetKey ==
  /\ resetting
  /\ skey' = NoKey /\ authed' = FALSE /\ resetting' = FALSE
  /\ mishaps' = mishaps + 1 /\ upset' = TRUE /\ before' = Empty /\ done' = NoDone
  /\ UNCHANGED <<vault, imp, job, toDev, toHost, pageVars, archives, late, restored, ops, edits, faults>>

\* A write may be cut by a power failure: the file was emptied when it was opened.
Writing ==
  CASE job.at = "save" -> Logins
    [] job.at = "next" /\ job.over /\ job.todo \cap Logins # {} -> Logins
    [] job.at = "next" /\ job.todo \cap Logins = {} /\ job.todo \cap Names # {} -> Names
    [] OTHER -> {}
PowerCut ==
  /\ faults < MaxFaults
  /\ \E torn \in {{}, Writing} :
       /\ vault' = [i \in Items |-> IF i \in torn THEN Gone ELSE vault[i]]
       /\ before' = IF torn = {} THEN before ELSE Empty
       /\ done' = IF torn = {} THEN done ELSE NoDone
  /\ skey' = NoKey /\ authed' = FALSE /\ imp' = NoImport /\ job' = NoJob /\ resetting' = FALSE
  /\ toDev' = <<>> /\ toHost' = <<>> /\ page' = NoPage /\ buf' = NoBuf /\ result' = NoResult
  /\ mishaps' = mishaps + 1 /\ upset' = TRUE /\ faults' = faults + 1
  /\ UNCHANGED <<files, archives, late, restored, ops, edits>>

-----------------------------------------------------------------------------
(* The device: BACKUP_EXPORT.                                              *)

\* exportVaultPlaintext, first half: the passwords that decrypt.
ExportPasswords ==
  /\ Served("export")
  /\ IF skey = NoKey
     THEN /\ Tell(<<Error>>) /\ Taken /\ UNCHANGED job
     ELSE /\ job' = [at |-> "totp", phrase |-> Head(toDev).phrase, snap |-> Visible, mishaps |-> mishaps,
                     op |-> Head(toDev).op,
                     content |-> [i \in Items |-> IF i \in Logins THEN Visible[i] ELSE 0]]
          /\ Taken /\ UNCHANGED toHost
  /\ UNCHANGED <<vault, skey, authed, imp, resetting, pageVars, devHist, ops, edits, faults>>

\* Second half, under the mutex again: the TOTP secrets and the algorithm; then the archive is
\* sealed and sent.
ExportTotp ==
  /\ job.at = "totp"
  /\ LET c == [i \in Items |-> IF i \in Logins THEN job.content[i] ELSE Visible[i]]
         a == Len(archives) + 1
         blob == [n \in 1..BlobLen(c) |-> <<a, n>>]
     IN  /\ archives' = Append(archives, [content |-> c, phrase |-> job.phrase, snap |-> job.snap,
                                          torn |-> mishaps # job.mishaps])
         /\ Tell(<<[ev |-> "EXPORT_START", len |-> Len(blob), sha |-> blob, op |-> job.op]>>
                 \o [n \in DOMAIN blob |-> [ev |-> "EXPORT_CHUNK", seq |-> n, data |-> blob[n]]]
                 \o <<Event("EXPORT_DONE")>>)
  /\ job' = NoJob
  /\ UNCHANGED <<vault, skey, authed, imp, resetting, toDev, pageVars, upset, late, restored, before, mishaps,
                 done, ops, edits, faults>>

-----------------------------------------------------------------------------
(* The device: BACKUP_IMPORT_*.                                            *)

BackupImportBegin ==
  /\ Served("begin")
  /\ LET c == Head(toDev) IN
     IF c.len > MaxImport
     THEN imp' = NoImport /\ Tell(<<Error>>)
     ELSE imp' = [on |-> TRUE, acc |-> <<>>, len |-> c.len, sha |-> c.sha] /\ Tell(<<EventOf("IMPORT_READY", c.op)>>)
  /\ Taken
  /\ UNCHANGED <<vault, skey, authed, job, resetting, pageVars, devHist, ops, edits, faults>>

OffByOne ==                                 \* mutant: the last chunk does not fit
  /\ Served("chunk")
  /\ LET d == Head(toDev).data IN
     CASE ~imp.on -> UNCHANGED imp /\ Tell(<<Error>>)
       [] imp.on /\ Len(imp.acc) + Len(d) >= imp.len -> imp' = NoImport /\ Tell(<<Error>>)
       [] OTHER -> imp' = [imp EXCEPT !.acc = @ \o d] /\ UNCHANGED toHost
  /\ Taken
  /\ UNCHANGED <<vault, skey, authed, job, resetting, pageVars, devHist, ops, edits, faults>>
BackupImportChunk ==
  /\ Served("chunk")
  /\ LET d == Head(toDev).data IN
     CASE ~imp.on -> UNCHANGED imp /\ Tell(<<Error>>)
       [] imp.on /\ Len(imp.acc) + Len(d) > imp.len -> imp' = NoImport /\ Tell(<<Error>>)
       [] OTHER -> imp' = [imp EXCEPT !.acc = @ \o d] /\ UNCHANGED toHost
  /\ Taken
  /\ UNCHANGED <<vault, skey, authed, job, resetting, pageVars, devHist, ops, edits, faults>>

BackupImportAbort ==
  /\ Served("abort")
  /\ imp' = NoImport /\ Tell(<<Event("IMPORT_ABORTED")>>) /\ Taken
  /\ UNCHANGED <<vault, skey, authed, job, resetting, pageVars, devHist, ops, edits, faults>>

\* backupDecryptBlob: the header of one archive, its length, and the tag under the passphrase.
DecryptsTo(acc, p) == {a \in DOMAIN archives : acc = Blob(a) /\ archives[a].phrase = p}

\* backupImportCommit up to the call of importVaultPlaintext.
BackupImportCommit ==
  /\ Served("commit")
  /\ LET c == Head(toDev)
         opened == DecryptsTo(imp.acc, c.phrase)
     IN  IF \/ ~imp.on \/ Len(imp.acc) # imp.len \/ imp.acc # imp.sha \/ opened = {} \/ skey = NoKey
         THEN /\ Tell(<<Error>>)
              /\ imp' = IF imp.on /\ Len(imp.acc) # imp.len THEN imp ELSE NoImport
              /\ UNCHANGED <<job, before, mishaps, done>>
         ELSE /\ \E a \in opened :
                   job' = [at |-> "next", arch |-> a, todo |-> {i \in Items : archives[a].content[i] # 0},
                           over |-> c.over, op |-> c.op, item |-> Alg, key |-> skey]
              /\ imp' = NoImport
              /\ before' = vault /\ mishaps' = 0 /\ done' = NoDone
              /\ UNCHANGED toHost
  /\ Taken
  /\ UNCHANGED <<vault, skey, authed, resetting, pageVars, archives, upset, late, restored, ops, edits, faults>>

\* importVaultPlaintext takes one item after the other: passwords, TOTP secrets, the algorithm,
\* each in the order of the archive.
Order == <<Logins, Names, {Alg}>>
NextOf(g) ==
  LET items == job.todo \cap Order[g]
  IN  IF items = {} \/ \E h \in 1..(g - 1) : job.todo \cap Order[h] # {} THEN {}
      ELSE {CHOOSE i \in items : TRUE}
Finished(i) == job' = [job EXCEPT !.at = "next", !.todo = @ \ {i}, !.item = Alg]

\* A write to flash that may fail, and is then as if it had not been tried.
Write(v) ==
  \/ vault' = v /\ UNCHANGED <<faults, mishaps>>
  \/ faults < MaxFaults /\ faults' = faults + 1 /\ mishaps' = mishaps + 1 /\ UNCHANGED vault

DeleteSite(l) ==                            \* mutant: the site goes with the login
  Write([i \in Items |-> IF i \in Logins THEN Gone ELSE vault[i]])
DeletePassword(l) == Write([vault EXCEPT ![l] = Gone])

\* isPasswordExists, and deletePassword when the restore overwrites.
ImportPassword ==
  /\ job.at = "next"
  /\ \E l \in NextOf(1) :
       IF vault[l].val # 0 /\ ~job.over
       THEN Finished(l) /\ UNCHANGED <<vault, faults, mishaps>>
       ELSE /\ job' = [job EXCEPT !.at = "save", !.item = l]
            /\ IF vault[l].val # 0 THEN DeletePassword(l) ELSE UNCHANGED <<vault, faults, mishaps>>
  /\ UNCHANGED <<skey, authed, imp, resetting, toDev, toHost, pageVars, archives, upset, late, restored, before,
                 done, ops, edits>>

Imported(i) == [val |-> archives[job.arch].content[i], key |-> skey]

\* savePassword: refused without a key, and when the entry is still there.
SavePassword ==
  /\ job.at = "save"
  /\ IF skey # NoKey /\ vault[job.item].val = 0
     THEN Write([vault EXCEPT ![job.item] = Imported(job.item)])
     ELSE UNCHANGED <<vault, faults, mishaps>>
  /\ Finished(job.item)
  /\ UNCHANGED <<skey, authed, imp, resetting, toDev, toHost, pageVars, archives, upset, late, restored, before,
                 done, ops, edits>>

\* getTotpSecret and saveTotpSecret: one that does not decrypt counts as absent.
AlwaysSkip ==                               \* mutant: a secret of any value is kept
  /\ job.at = "next"
  /\ \E i \in NextOf(2) :
       /\ IF skey # NoKey /\ vault[i].val = 0
          THEN Write([vault EXCEPT ![i] = Imported(i)])
          ELSE UNCHANGED <<vault, faults, mishaps>>
       /\ Finished(i)
  /\ UNCHANGED <<skey, authed, imp, resetting, toDev, toHost, pageVars, archives, upset, late, restored, before,
                 done, ops, edits>>
ImportTotp ==
  /\ job.at = "next"
  /\ \E i \in NextOf(2) :
       /\ IF skey # NoKey /\ (job.over \/ ~Opens(i))
          THEN Write([vault EXCEPT ![i] = Imported(i)])
          ELSE UNCHANGED <<vault, faults, mishaps>>
       /\ Finished(i)
  /\ UNCHANGED <<skey, authed, imp, resetting, toDev, toHost, pageVars, archives, upset, late, restored, before,
                 done, ops, edits>>

\* saveDefaultCryptoAlg: the file is replaced whether the restore overwrites or not.
ImportAlg ==
  /\ job.at = "next"
  /\ \E i \in NextOf(3) :
       Write([vault EXCEPT ![i] = [val |-> Imported(i).val, key |-> 0]]) /\ Finished(i)
  /\ UNCHANGED <<skey, authed, imp, resetting, toDev, toHost, pageVars, archives, upset, late, restored, before,
                 done, ops, edits>>

ImportDone ==
  /\ job.at = "next" /\ job.todo = {}
  /\ Tell(<<EventOf("IMPORT_DONE", job.op)>>)
  /\ restored' = IF job.op = ops THEN restored \cup {job.arch} ELSE restored
  /\ done' = [on |-> TRUE, arch |-> job.arch, over |-> job.over, key |-> job.key]
  /\ job' = NoJob
  /\ UNCHANGED <<vault, skey, authed, imp, resetting, toDev, pageVars, archives, upset, late, before, mishaps, ops,
                 edits, faults>>

-----------------------------------------------------------------------------
BackupHost ==
  \/ \E p \in Phrases : RunBackupExport(p)
  \/ \E f \in files \cup Damaged, p \in Phrases, over \in BOOLEAN : RunBackupImport(f, p, over)
  \/ WaitForBackupEvent \/ SendChunk \/ SendCommit \/ ReadLine \/ TimeOut
  \/ SendThrows \/ ClosePage \/ LoseLine

BackupDevice ==
  \/ EndSession \/ Refuse \/ LogIn \/ Edit \/ ResetFiles \/ ResetKey \/ PowerCut
  \/ ExportPasswords \/ ExportTotp
  \/ BackupImportBegin \/ BackupImportChunk \/ BackupImportCommit \/ BackupImportAbort
  \/ ImportPassword \/ SavePassword \/ ImportTotp \/ ImportAlg \/ ImportDone

BackupNext == BackupHost \/ BackupDevice

BackupSpec == BackupInit /\ [][BackupNext]_backupVars

-----------------------------------------------------------------------------
(* Properties.                                                             *)

BusyAt == {"exportSent", "export", "beginSent", "begin", "chunks", "commitSent", "commit"}

\* Types; and backupImportChunk never collects more than the announced length.
BackupTypeOK ==
  /\ vault \in [Items -> [val : Vals \cup {0}, key : Keys \cup {0}]]
  /\ skey \in Keys \cup {NoKey} /\ authed \in BOOLEAN /\ resetting \in BOOLEAN
  /\ page.at \in BusyAt \cup {"idle", "connecting"}
  /\ imp.on \in BOOLEAN /\ imp.len <= MaxImport /\ Len(imp.acc) <= imp.len

\* runBackupImport reports a restore done only when the device has restored this very file for
\* this very request, whatever was lost; unless it took the IMPORT_READY of an earlier restore for
\* its own, and may then take its IMPORT_DONE as well.
DoneIsMine ==
  result.kind = "import" /\ result.ok /\ ~late =>
    \E a \in DOMAIN archives : Blob(a) = result.file /\ a \in restored

\* runBackupExport saves one whole archive, never pieces of two; it opens with the passphrase
\* just typed, unless it is the answer to an earlier export.
SavedFileOpens ==
  result.kind = "export" /\ result.ok =>
    \E a \in DOMAIN archives : result.file = Blob(a) /\ (late \/ archives[a].phrase = result.phrase)

\* What importVaultPlaintext leaves is what exportVaultPlaintext found: every item of the archive
\* is there again, unless the user chose to keep one that was there, and no other is touched.
\* Excepted are a write that failed and a Reset.
RoundTrip ==
  done.on /\ mishaps = 0 /\ ~archives[done.arch].torn =>
    \A i \in Items :
      LET old == archives[done.arch].snap[i]
          readable == before[i].val # 0 /\ (i \in Logins \/ before[i].key = done.key)
      IN  vault[i] = IF old = 0 THEN before[i] ELSE
                     IF i # Alg /\ ~done.over /\ readable THEN before[i]
                     ELSE [val |-> old, key |-> IF i = Alg THEN 0 ELSE done.key]

\* An overwriting restore deletes before it saves: each failed write or power cut, and the step
\* in between, costs at most the one entry being replaced (or the whole file, when the cut falls
\* into its writing).  A Reset is meant to lose them all, and a restore that runs on after it
\* deletes what it can no longer save.
LosesAtMostOne ==
  Cardinality({l \in Logins : before[l].val # 0 /\ vault[l].val = 0})
    <= mishaps + (IF job.at = "save" THEN 1 ELSE 0)

\* A restore that nothing disturbs fails only for a reason: a wrong passphrase or file, or an
\* archive that backupExport made longer than backupImportBegin accepts.
GenuineRestores ==
  result.kind = "import" /\ ~result.ok /\ ~upset =>
    Len(result.file) > MaxImport \/ DecryptsTo(result.file, result.phrase) = {}

\* What the page tells the user is so: done means this file was restored for this request,
\* saved means it can be opened, and failed means there was a reason.
ReportsTrue == BackupTypeOK /\ DoneIsMine /\ SavedFileOpens /\ GenuineRestores

\* No import is left open on the device, its archive in memory, once the page has given up and
\* the line is quiet; unless a line was lost or the page went away.
NoAbandonedImport ==
  page.at = "idle" /\ toDev = <<>> /\ job = NoJob /\ imp.on => faults > 0
=============================================================================
