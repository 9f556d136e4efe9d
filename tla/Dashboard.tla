----------------------------- MODULE Dashboard -----------------------------
(***************************************************************************)
(* The browser extension's dashboard page (src/plugin/dashboard.js) and    *)
(* the CLI task behind the serial line (src/main.cpp): the key exchange,   *)
(* the session, and the passwords that are fetched for a browser tab and   *)
(* filled into it.  The page keeps one slot for a fetch and one for a      *)
(* generated password; the answer names neither the tab nor the record.    *)
(*                                                                         *)
(* A key is known by the two key pairs it was agreed between.  A line is   *)
(* its body and the key it is sealed under, and may be lost.  PINs, the    *)
(* password file and its failures are Vault's.                             *)
(***************************************************************************)
EXTENDS Naturals, Sequences

CONSTANTS
  Tabs,        \* browser tabs
  Recs,        \* records of the vault: a site and a login
  MaxPages,    \* bound: dashboard pages opened
  MaxAsks,     \* bound: commands asked for by tabs, the popup and the terminal
  MaxLoss      \* bound: lines lost

ASSUME DashboardAssumption ==
  MaxPages \in Nat /\ MaxAsks \in Nat /\ MaxLoss \in Nat /\ "none" \notin Tabs \cup Recs

Plain  == <<0, 0>>       \* not sealed; the page's aesKey is null
NoSlot == [tab |-> "none", rec |-> "none"]
NoFill == [tab |-> "none", asked |-> "none", rec |-> "none"]

VARIABLES
  recs,                     \* records in /passwords.json
  dkey, active, session,    \* aesKey, encryptionActive, authenticated
  wait, waitRec, waitKey,   \* currentCommandState, the pending record; history: the key it was asked under
  pairs,                    \* key pairs the device has generated
  open, pageNo, hkey,       \* the page: isConnected, its key pair, its aesKey
  authState, pendingGet, pendingGen,
  up, down,                 \* the serial line
  filled,                   \* the last password filled in: tab, its request, the record
  meddled,                  \* history: commands of this page that no tab asked for
  unanswered,               \* history: replies of this page that say nothing to a slot
  bare,                     \* history: the terminal sent a command before there was a key
  asks, losses

deviceVars == <<recs, dkey, active, session, wait, waitRec, waitKey, pairs>>
dashVars   == <<deviceVars, open, pageNo, hkey, authState, pendingGet, pendingGen, up, down, filled,
                meddled, unanswered, bare, asks, losses>>

DashInit ==
  /\ recs \in {{}, Recs} /\ dkey = Plain /\ active = FALSE /\ session = FALSE
  /\ wait = "ready" /\ waitRec = "none" /\ waitKey = Plain /\ pairs = 0
  /\ open = FALSE /\ pageNo = 0 /\ hkey = Plain /\ authState = "UNKNOWN"
  /\ pendingGet = NoSlot /\ pendingGen = NoSlot /\ up = <<>> /\ down = <<>>
  /\ filled = NoFill
  /\ meddled = {} /\ unanswered = {} /\ bare = FALSE /\ asks = 0 /\ losses = 0

-----------------------------------------------------------------------------
(* The page.                                                               *)

\* sendSecure: sealed once there is a key.
Secure(body) == Append(up, [key |-> hkey, body |-> body])

\* connect: a fresh key pair, and DH_INIT in the clear.
Connect ==
  /\ ~open /\ pageNo < MaxPages
  /\ open' = TRUE /\ pageNo' = pageNo + 1 /\ hkey' = Plain
  /\ up' = Append(up, [key |-> Plain, body |-> [cmd |-> "DH_INIT", page |-> pageNo + 1]])
  /\ meddled' = {} /\ unanswered' = {} /\ filled' = NoFill
  /\ UNCHANGED <<deviceVars, authState, pendingGet, pendingGen, down, bare, asks, losses>>

\* disconnect, which closes the window; or the window is closed, and nothing is said.
LeavePage ==
  /\ open
  /\ open' = FALSE /\ hkey' = Plain /\ authState' = "UNKNOWN"
  /\ pendingGet' = NoSlot /\ pendingGen' = NoSlot
  /\ up' \in {up, Secure([cmd |-> "DISCONNECT"])}
  /\ UNCHANGED <<deviceVars, pageNo, down, filled, meddled, unanswered, bare, asks, losses>>

Asked == asks < MaxAsks /\ asks' = asks + 1

\* GET_PASSWORD and AUTO_GENERATE from a tab.
GetUnlessReady(t, r) ==                     \* mutant: a second fetch takes the slot
  /\ open /\ authState = "READY"
  /\ Asked
  /\ pendingGet' = [tab |-> t, rec |-> r]
  /\ up' = Secure([cmd |-> "GET_PASS", rec |-> r])
  /\ UNCHANGED <<deviceVars, open, pageNo, hkey, authState, pendingGen, down, filled, meddled, unanswered, bare,
                 losses>>
GetPassword(t, r) ==
  /\ open /\ authState = "READY" /\ pendingGet = NoSlot
  /\ Asked
  /\ pendingGet' = [tab |-> t, rec |-> r]
  /\ up' = Secure([cmd |-> "GET_PASS", rec |-> r])
  /\ UNCHANGED <<deviceVars, open, pageNo, hkey, authState, pendingGen, down, filled, meddled, unanswered, bare,
                 losses>>

AutoGenerate(t, r) ==
  /\ open /\ authState = "READY" /\ pendingGen = NoSlot
  /\ Asked
  /\ pendingGen' = [tab |-> t, rec |-> r]
  /\ up' = Secure([cmd |-> "SAVE_PASS", rec |-> r, autogen |-> TRUE])
  /\ UNCHANGED <<deviceVars, open, pageNo, hkey, authState, pendingGet, down, filled, meddled, unanswered, bare,
                 losses>>

\* The popup's buttons.
Popup(c) ==
  /\ open /\ authState = "READY"
  /\ Asked
  /\ up' = Secure(c) /\ meddled' = meddled \cup {c.cmd}
  /\ UNCHANGED <<deviceVars, open, pageNo, hkey, authState, pendingGet, pendingGen, down, filled, unanswered, bare,
                 losses>>
PopupCommands ==
  {[cmd |-> "SAVE_PASS", rec |-> r, autogen |-> g] : r \in Recs, g \in BOOLEAN}
    \cup {[cmd |-> c, rec |-> r] : c \in {"UPDATE_PASS", "DELETE_PASS"}, r \in Recs}

\* The popup's PIN field is there when the device asks for it.
SubmitPin ==
  /\ open /\ authState = "PIN_REQ"
  /\ up' = Secure([cmd |-> "VERIFY_PIN"]) /\ authState' = "SENT"
  /\ UNCHANGED <<deviceVars, open, pageNo, hkey, pendingGet, pendingGen, down, filled, meddled, unanswered, bare,
                 asks, losses>>

\* handleSendAction: whatever is typed into the page's terminal.
TypeCommand(r) ==
  /\ open
  /\ Asked
  /\ up' = Secure([cmd |-> "GET_PASS", rec |-> r]) /\ meddled' = meddled \cup {"GET_PASS"}
  /\ bare' = (bare \/ hkey = Plain)
  /\ UNCHANGED <<deviceVars, open, pageNo, hkey, authState, pendingGet, pendingGen, down, filled, unanswered,
                 losses>>

\* fillCredentialsInTab.
Fill(slot, r) == filled' = [tab |-> slot.tab, asked |-> slot.rec, rec |-> r]

\* processIncomingLine, for events and errors.
ProcessIncomingLine(m) ==
  CASE m.ev = "TRANSMITTED" ->
         /\ authState' = "READY" /\ pendingGet' = NoSlot
         /\ IF pendingGet # NoSlot THEN Fill(pendingGet, m.rec) ELSE UNCHANGED filled
         /\ UNCHANGED pendingGen
    [] m.ev = "SAVED" ->
         /\ authState' = "READY"
         /\ IF m.autogen /\ pendingGen # NoSlot
            THEN pendingGen' = NoSlot /\ Fill(pendingGen, m.rec)
            ELSE UNCHANGED <<pendingGen, filled>>
         /\ UNCHANGED pendingGet
    [] m.ev = "NOT_FOUND" /\ pendingGet # NoSlot ->
         /\ authState' = "READY" /\ pendingGet' = NoSlot
         /\ UNCHANGED <<pendingGen, filled>>
    [] OTHER -> /\ authState' = (CASE m.ev = "BOOT" -> "PIN_REQ" [] m.ev = "PIN_REQ" -> "PIN_REQ"
                                  [] m.ev \in {"PIN_OK", "UPDATED"} -> "READY"
                                  [] m.ev = "AWAITING" -> "AWAITING" [] OTHER -> authState)
                /\ UNCHANGED <<pendingGet, pendingGen, filled>>

\* readLoop: a DH_ACK gives the key, and the session is started afresh under it; a sealed line
\* that does not open is dropped.
TakeAck(m) ==
  /\ hkey' = <<pageNo, m.pair>>
  /\ up' = Append(up, [key |-> hkey', body |-> [cmd |-> "RESTART_SYSTEM"]])

PageReads ==
  /\ open /\ down # <<>>
  /\ down' = Tail(down)
  /\ LET m == Head(down) IN
     CASE m.body.ev = "DH_ACK" -> TakeAck(m.body) /\ UNCHANGED <<authState, pendingGet, pendingGen, filled>>
       [] m.body.ev # "DH_ACK" /\ m.key \in {Plain, hkey} -> ProcessIncomingLine(m.body) /\ UNCHANGED <<hkey, up>>
       [] OTHER -> UNCHANGED <<hkey, up, authState, pendingGet, pendingGen, filled>>
  /\ UNCHANGED <<deviceVars, open, pageNo, meddled, unanswered, bare, asks, losses>>

\* Nobody reads the port.
NobodyReads ==
  /\ ~open /\ down # <<>>
  /\ down' = Tail(down)
  /\ UNCHANGED <<deviceVars, open, pageNo, hkey, authState, pendingGet, pendingGen, up, filled, meddled, unanswered,
                 bare, asks, losses>>

DropLine ==
  /\ losses < MaxLoss /\ losses' = losses + 1
  /\ \/ up # <<>> /\ up' = Tail(up) /\ UNCHANGED down
     \/ down # <<>> /\ down' = Tail(down) /\ UNCHANGED up
  /\ UNCHANGED <<deviceVars, open, pageNo, hkey, authState, pendingGet, pendingGen, filled, meddled, unanswered,
                 bare, asks>>

-----------------------------------------------------------------------------
(* The CLI task.                                                           *)

pageState == <<open, pageNo, hkey, authState, pendingGet, pendingGen, filled, meddled, bare, asks, losses>>

\* encryptMsg and SecureTerminal::flush.
Say(ev) == down' = Append(down, [key |-> IF active THEN dkey ELSE Plain, body |-> ev])
Silent  == UNCHANGED <<down, unanswered>>

\* A reply that frees no slot of the page: KEY_LOCKED, ALREADY_EXISTS, REPLAY_DETECTED and the like.
SayBlank(ev) == Say([ev |-> ev]) /\ unanswered' = unanswered \cup {ev}
SayEv(ev)    == Say(ev) /\ UNCHANGED unanswered

\* processHandshake, and the end of the session.
HandshakeKeepsWait(c) ==                    \* mutant: the pending fetch survives
  /\ dkey' = <<c.page, pairs + 1>> /\ pairs' = pairs + 1 /\ active' = TRUE
  /\ session' = FALSE
  /\ down' = Append(down, [key |-> Plain, body |-> [ev |-> "DH_ACK", pair |-> pairs + 1]])
  /\ UNCHANGED <<recs, wait, waitRec, waitKey, unanswered>>
Handshake(c) ==
  /\ dkey' = <<c.page, pairs + 1>> /\ pairs' = pairs + 1 /\ active' = TRUE
  /\ session' = FALSE /\ wait' = "ready"
  /\ down' = Append(down, [key |-> Plain, body |-> [ev |-> "DH_ACK", pair |-> pairs + 1]])
  /\ UNCHANGED <<recs, waitRec, waitKey, unanswered>>

\* RESTART_SYSTEM and DISCONNECT.
RestartOrDisconnect(c) ==
  /\ session' = FALSE /\ wait' = "ready"
  /\ active' = (active /\ c.cmd = "RESTART_SYSTEM")
  /\ IF c.cmd = "RESTART_SYSTEM" THEN SayEv([ev |-> "BOOT"])
     ELSE down' = Append(down, [key |-> Plain, body |-> [ev |-> "DISCONNECTED"]]) /\ UNCHANGED unanswered
  /\ UNCHANGED <<recs, dkey, waitRec, waitKey, pairs>>

\* A command before VERIFY_PIN, and VERIFY_PIN itself.
LogOn(c) ==
  /\ session' = (c.cmd = "VERIFY_PIN")
  /\ IF c.cmd = "VERIFY_PIN" THEN SayEv([ev |-> "PIN_OK"]) ELSE SayBlank("PIN_REQ")
  /\ UNCHANGED <<recs, dkey, active, wait, waitRec, waitKey, pairs>>

\* SAVE_PASS, GET_PASS, UPDATE_PASS and DELETE_PASS within a session.
Dispatch(c, k) ==
  CASE c.cmd = "SAVE_PASS" ->
         /\ IF c.rec \in recs THEN SayBlank("ALREADY_EXISTS") /\ UNCHANGED recs
            ELSE SayEv([ev |-> "SAVED", rec |-> c.rec, autogen |-> c.autogen, asked |-> k])
                 /\ recs' = recs \cup {c.rec}
         /\ UNCHANGED <<wait, waitRec, waitKey>>
    [] c.cmd = "GET_PASS" ->
         /\ IF c.rec \in recs
            THEN wait' = "get" /\ waitRec' = c.rec /\ waitKey' = k /\ SayEv([ev |-> "AWAITING"])
            ELSE SayEv([ev |-> "NOT_FOUND"]) /\ UNCHANGED <<wait, waitRec, waitKey>>
         /\ UNCHANGED recs
    [] c.cmd = "UPDATE_PASS" ->
         /\ IF c.rec \in recs
            THEN wait' = "update" /\ waitRec' = c.rec /\ waitKey' = k /\ SayEv([ev |-> "AWAITING"])
            ELSE SayEv([ev |-> "NOT_FOUND"]) /\ UNCHANGED <<wait, waitRec, waitKey>>
         /\ UNCHANGED recs
    [] c.cmd = "DELETE_PASS" ->
         /\ SayEv([ev |-> IF c.rec \in recs THEN "DELETED" ELSE "NOT_FOUND"])
         /\ recs' = recs \ {c.rec}
         /\ UNCHANGED <<wait, waitRec, waitKey>>
    [] OTHER -> SayBlank("UNKNOWN_CMD") /\ UNCHANGED <<recs, wait, waitRec, waitKey>>

\* One line of cliTask: a sealed line must open, a plain one is ignored once there is a key.
CliTask ==
  /\ up # <<>>
  /\ up' = Tail(up)
  /\ LET k == Head(up).key
         c == Head(up).body
     IN  CASE c.cmd = "DH_INIT" -> Handshake(c)
           [] c.cmd # "DH_INIT" /\ (IF k = Plain THEN active ELSE k # dkey) -> UNCHANGED deviceVars /\ Silent
           [] c.cmd # "DH_INIT" /\ (IF k = Plain THEN ~active ELSE k = dkey) ->
                IF c.cmd \in {"RESTART_SYSTEM", "DISCONNECT"} THEN RestartOrDisconnect(c)
                ELSE IF ~session THEN LogOn(c)
                ELSE Dispatch(c, k) /\ UNCHANGED <<dkey, active, session, pairs>>
  /\ UNCHANGED pageState

\* updateFingerprintAsync: a match sends or saves; a match of the same confidence as the last
\* one is taken for a replay.
Finger ==
  /\ wait # "ready"
  /\ wait' = "ready" /\ waitRec' = "none" /\ waitKey' = Plain
  /\ IF wait = "get" THEN SayEv([ev |-> "TRANSMITTED", rec |-> waitRec, asked |-> waitKey])
     ELSE SayEv([ev |-> "UPDATED"])
  /\ recs' = IF wait = "update" THEN recs \cup {waitRec} ELSE recs
  /\ UNCHANGED <<dkey, active, session, pairs, up, pageState>>
Replay ==
  /\ wait # "ready"
  /\ wait' = "ready" /\ SayBlank("REPLAY_DETECTED")
  /\ UNCHANGED <<recs, dkey, active, session, waitRec, waitKey, pairs, up, pageState>>

DashNext ==
  \/ Connect \/ LeavePage \/ SubmitPin \/ PageReads \/ NobodyReads \/ DropLine
  \/ \E t \in Tabs, r \in Recs : GetPassword(t, r) \/ AutoGenerate(t, r)
  \/ \E c \in PopupCommands : Popup(c)
  \/ \E r \in Recs : TypeCommand(r)
  \/ CliTask \/ Finger \/ Replay

DashSpec == DashInit /\ [][DashNext]_dashVars

-----------------------------------------------------------------------------
(* Properties.                                                             *)

\* A tab is filled with the password of the record it asked for: not with the answer to
\* another tab, to an earlier page, or to a request that failed.  Excepted is a page whose
\* terminal fetched, or whose popup saved, changed or deleted a password: the answer does not say
\* whom it is for, and NOT_FOUND for the popup frees the slot of a fetch that is under way, whose
\* answer then goes to the next one.  So is a terminal used without a key, whose answer outlives
\* its page.
FilledIsAsked ==
  filled.tab # "none" /\ meddled = {} /\ ~bare => filled.asked = filled.rec

Heard(e)  == \E n \in DOMAIN down : down[n].body.ev = e
Sent(c, r) == \E n \in DOMAIN up : up[n].body.cmd = c /\ up[n].body.rec = r

\* The page's fetch slot is never left behind: while it is taken the request, the wait for the
\* finger or the answer is under way.  Excepted are a lost line, a command from the popup or the
\* terminal, and the answers that the page does not understand (a replayed finger, no session).
SlotAnswered ==
  /\ pendingGet # NoSlot /\ losses = 0 /\ ~bare /\ meddled = {} /\ unanswered = {} =>
       Sent("GET_PASS", pendingGet.rec) \/ (wait = "get" /\ waitRec = pendingGet.rec)
         \/ Heard("TRANSMITTED") \/ Heard("NOT_FOUND")
  /\ pendingGen # NoSlot /\ losses = 0 /\ ~bare /\ meddled = {} /\ unanswered = {} =>
       Sent("SAVE_PASS", pendingGen.rec) \/ Heard("SAVED")

\* A tab's request is answered with its own password, or is still under way.
FillsAsAsked == FilledIsAsked /\ SlotAnswered

\* A password is on the line only under the key of the page that asked for it: the handshake of
\* another page ends the wait for the finger, and so does DISCONNECT, which turns encryption
\* off.  It is in the clear only when the terminal was used without a key.
SecretsSealed ==
  \A n \in DOMAIN down :
    down[n].body.ev \in {"TRANSMITTED", "SAVED"} =>
      /\ down[n].key \in {down[n].body.asked, Plain}
      /\ down[n].key = Plain => bare

\* When the line is quiet the page and the device have the same key, even if the page has first
\* read an answer meant for the page before it; unless a line was lost.
KeysAgree ==
  open /\ hkey # Plain /\ up = <<>> /\ down = <<>> /\ losses = 0 => hkey = dkey

\* The line between the page and the device: passwords under the key of the page that asked,
\* and one key on both sides once it is quiet.
LineSealed == SecretsSealed /\ KeysAgree
=============================================================================
