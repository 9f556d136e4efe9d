------------------------------ MODULE CtapHid ------------------------------
(***************************************************************************)
(* CTAPHID transport of the authenticator (src/FIDO2Manager.cpp).          *)
(*                                                                         *)
(* Two threads share one single-slot mailbox without a lock:               *)
(*   - the USB task runs _onOutput for every 64-byte report: it assembles  *)
(*     a message from an initialisation packet and continuation packets    *)
(*     and publishes it in pendingChannel/Cmd/Data/Len, setting            *)
(*     hasPendingCommand last;                                             *)
(*   - the FIDO task runs poll(): it reads the slot field by field, copies *)
(*     the data, clears hasPendingCommand and runs the command.  While a   *)
(*     command waits for a finger it looks into the slot for a CANCEL.     *)
(*                                                                         *)
(* _onOutput up to the first write into the mailbox is one step (nothing   *)
(* the FIDO task reads changes before); every later write of a mailbox     *)
(* field, and every read of poll(), is a step of its own.  Lengths are     *)
(* scaled by the constants InitData and ContData (57 and 59 in the code).  *)
(* The bytes of a message carry the host request they belong to, so that a *)
(* mixed or torn message can be told from a whole one.  The 500 ms timer   *)
(* is a choice made when a packet arrives (Bases).                         *)
(***************************************************************************)
EXTENDS Integers, Sequences

CONSTANTS
  Channels,       \* channel identifiers the hosts use
  Cancellers,     \* the channels that may send CTAPHID_CANCEL
  Lens,           \* byte counts announced in initialisation packets
  InitData,       \* payload bytes of an initialisation packet
  ContData,       \* payload bytes of a continuation packet
  MaxSeqNo,       \* largest sequence number a packet can carry (0x7F)
  MaxMsg,         \* largest accepted byte count (7609)
  AllocOutcomes,  \* the results malloc may give
  MaxTxn          \* bound on the requests a host starts on one channel

ASSUME HidAssumption ==
  /\ Cancellers \subseteq Channels
  /\ Lens \subseteq Nat
  /\ InitData \in Nat \ {0}
  /\ ContData \in Nat \ {0}
  /\ MaxSeqNo \in 0..127
  /\ MaxMsg = InitData + (MaxSeqNo + 1) * ContData
  /\ AllocOutcomes \subseteq BOOLEAN
  /\ MaxTxn \in Nat

Cmds == {"CBOR", "PING"}          \* a command that may wait for a finger, one that never does
NoCmd == "none"
NoChannel == "no channel"         \* activeChannelID 0: no packet seen yet

VARIABLES
  host,                \* the request each host last started: [txn, cmd, len]
  ctapExpectedLen, ctapReceivedLen, ctapExpectedSeq,
  ctapCurrentCmd, ctapCurrentChannel,
  ctapBuffer,          \* the bytes received so far of the message in assembly
  ctapBufferCapacity, ctapBufferNull,
  pendingChannel, pendingCmd, pendingData, pendingLen,
  pendingDataCapacity, pendingDataNull, hasPendingCommand,
  usbPc, usbChannel,   \* control state of _onOutput, its local variable
  fidoPc, pollChannel, pollCmd, pollLen, pollData,   \* poll() and its locals
  completed, answered, \* history: requests published whole, requests answered
  disturbed            \* history: a CANCEL came, or poll() had no memory for a copy

asmVars  == <<ctapExpectedLen, ctapReceivedLen, ctapExpectedSeq, ctapCurrentCmd,
              ctapCurrentChannel, ctapBuffer, ctapBufferCapacity, ctapBufferNull>>
slotVars == <<pendingChannel, pendingCmd, pendingData, pendingLen,
              pendingDataCapacity, pendingDataNull, hasPendingCommand>>
usbVars  == <<usbPc, usbChannel>>
pollVars == <<fidoPc, pollChannel, pollCmd, pollLen, pollData>>
histVars == <<completed, answered, disturbed>>
vars     == <<host, asmVars, slotVars, usbVars, pollVars, histVars>>

Txns     == 0..MaxTxn
Requests == [txn : Txns, cmd : Cmds \cup {NoCmd}, len : Lens \cup {0}]
Byte     == [chan : Channels, req : Requests, off : Nat]

Chunk(a, b) == IF a > b THEN b ELSE a       \* the code's (a > b) ? b : a

\* n bytes of host c's current request, from offset `from`
Payload(c, req, from, n) ==
  [i \in 1..n |-> [chan |-> c, req |-> req, off |-> from + i]]

Init ==
  /\ host = [c \in Channels |-> [txn |-> 0, cmd |-> NoCmd, len |-> 0]]
  /\ ctapExpectedLen = 0 /\ ctapReceivedLen = 0 /\ ctapExpectedSeq = 0
  /\ ctapCurrentCmd = NoCmd /\ ctapCurrentChannel = NoChannel
  /\ ctapBuffer = <<>> /\ ctapBufferCapacity = 0 /\ ctapBufferNull = TRUE
  /\ pendingChannel = NoChannel /\ pendingCmd = NoCmd
  /\ pendingData = <<>> /\ pendingLen = 0
  /\ pendingDataCapacity = 0 /\ pendingDataNull = TRUE
  /\ hasPendingCommand = FALSE
  /\ usbPc = "idle" /\ usbChannel = NoChannel
  /\ fidoPc = "idle" /\ pollChannel = NoChannel /\ pollCmd = NoCmd
  /\ pollLen = 0 /\ pollData = <<>>
  /\ completed = {} /\ answered = {} /\ disturbed = FALSE

-----------------------------------------------------------------------------
(* The USB task: _onOutput.                                                *)

\* Lines 3466-3470: a stalled assembly is forgotten when the next packet
\* arrives; the elapsed time is a choice.
Bases ==
  {[exp |-> ctapExpectedLen, rec |-> ctapReceivedLen, seq |-> ctapExpectedSeq]}
  \cup IF ctapExpectedLen > 0 THEN {[exp |-> 0, rec |-> 0, seq |-> 0]} ELSE {}

Assembly(e, r, s) ==
  /\ ctapExpectedLen' = e
  /\ ctapReceivedLen' = r
  /\ ctapExpectedSeq' = s

\* Whether malloc is needed for n bytes, and what the capacity field says after it.
AllocatedOnce(n, capacity) == n > 0 /\ capacity = 0    \* mutant: never grown again
NeedsGrowth(n, capacity) == n > capacity

\* Line 3499: 7609 = 57 + 128 * 59, the most that 128 continuation packets carry.
TooLong(n) == n > MaxMsg

\* Lines 3485 and 3489: a message is started only when the mailbox is empty.
AlwaysFree == TRUE                                     \* mutant: dropped guard
MailboxFree == ~hasPendingCommand

\* Lines 3477-3483: CANCEL is written straight into the mailbox.
RecvCancel(c) ==
  /\ usbPc = "idle"
  /\ c \in Cancellers
  /\ \E b \in Bases : Assembly(b.exp, b.rec, b.seq)
  /\ usbPc' = "cancelChannel" /\ usbChannel' = c
  /\ disturbed' = TRUE
  /\ UNCHANGED <<host, ctapCurrentCmd, ctapCurrentChannel, ctapBuffer,
                 ctapBufferCapacity, ctapBufferNull, slotVars, pollVars, completed, answered>>

CancelChannel ==
  /\ usbPc = "cancelChannel"
  /\ pendingChannel' = usbChannel
  /\ usbPc' = "cancelCmd"
  /\ UNCHANGED <<host, asmVars, pendingCmd, pendingData, pendingLen, pendingDataCapacity,
                 pendingDataNull, hasPendingCommand, usbChannel, pollVars, histVars>>

CancelCmd ==
  /\ usbPc = "cancelCmd"
  /\ pendingCmd' = "CANCEL"
  /\ usbPc' = "cancelLen"
  /\ UNCHANGED <<host, asmVars, pendingChannel, pendingData, pendingLen, pendingDataCapacity,
                 pendingDataNull, hasPendingCommand, usbChannel, pollVars, histVars>>

CancelLen ==
  /\ usbPc = "cancelLen"
  /\ pendingLen' = 0
  /\ usbPc' = "cancelFlag"
  /\ UNCHANGED <<host, asmVars, pendingChannel, pendingCmd, pendingData, pendingDataCapacity,
                 pendingDataNull, hasPendingCommand, usbChannel, pollVars, histVars>>

CancelFlag ==
  /\ usbPc = "cancelFlag"
  /\ hasPendingCommand' = TRUE
  /\ usbPc' = "idle"
  /\ UNCHANGED <<host, asmVars, pendingChannel, pendingCmd, pendingData, pendingLen,
                 pendingDataCapacity, pendingDataNull, usbChannel, pollVars, histVars>>

\* The host starts request cmd of n bytes on channel c.
HostStarts(c, cmd, n) ==
  /\ usbPc = "idle"
  /\ host[c].txn < MaxTxn
  /\ host' = [host EXCEPT ![c] = [txn |-> @.txn + 1, cmd |-> cmd, len |-> n]]

\* Lines 3485-3493: the mailbox is full, the packet is dropped (same channel)
\* or answered with ERROR 0x05 (another channel).
InitRejected(c, cmd, n) ==
  /\ HostStarts(c, cmd, n)
  /\ ~MailboxFree
  /\ \E b \in Bases : Assembly(b.exp, b.rec, b.seq)
  /\ UNCHANGED <<ctapCurrentCmd, ctapCurrentChannel, ctapBuffer, ctapBufferCapacity,
                 ctapBufferNull, slotVars, usbVars, pollVars, histVars>>

\* Lines 3495-3505: longer than the largest message.
InitTooLong(c, cmd, n) ==
  /\ HostStarts(c, cmd, n)
  /\ MailboxFree
  /\ TooLong(n)
  /\ \E b \in Bases : Assembly(0, 0, b.seq)
  /\ ctapCurrentCmd' = cmd /\ ctapCurrentChannel' = c
  /\ UNCHANGED <<ctapBuffer, ctapBufferCapacity, ctapBufferNull,
                 slotVars, usbVars, pollVars, histVars>>

\* Lines 3507-3514: malloc fails.  The old buffer is gone, the announced length
\* and the old capacity stay.
InitNoMemory(c, cmd, n) ==
  /\ HostStarts(c, cmd, n)
  /\ MailboxFree
  /\ ~TooLong(n)
  /\ NeedsGrowth(n, ctapBufferCapacity)
  /\ FALSE \in AllocOutcomes
  /\ \E b \in Bases : Assembly(n, b.rec, b.seq)
  /\ ctapCurrentCmd' = cmd /\ ctapCurrentChannel' = c
  /\ ctapBuffer' = <<>> /\ ctapBufferNull' = TRUE
  /\ UNCHANGED <<ctapBufferCapacity, slotVars, usbVars, pollVars, histVars>>

\* The buffer an accepted initialisation packet is written to (lines 3507-3516).
InitBuffer(n) ==
  IF NeedsGrowth(n, ctapBufferCapacity)
  THEN /\ TRUE \in AllocOutcomes
       /\ ctapBufferCapacity' = n
       /\ ctapBufferNull' = FALSE
  ELSE UNCHANGED <<ctapBufferCapacity, ctapBufferNull>>

\* Lines 3518-3524: the report is shorter than the payload it announces.
InitShort(c, cmd, n) ==
  /\ HostStarts(c, cmd, n)
  /\ MailboxFree
  /\ ~TooLong(n)
  /\ n > 0
  /\ InitBuffer(n)
  /\ \E b \in Bases : Assembly(0, 0, b.seq)
  /\ ctapCurrentCmd' = cmd /\ ctapCurrentChannel' = c
  /\ ctapBuffer' = <<>>
  /\ UNCHANGED <<slotVars, usbVars, pollVars, histVars>>

\* Lines 3526-3528: where an accepted initialisation packet leaves the assembly.
StartAssembly(n, received) == Assembly(n, received, 0)

\* Lines 3518-3529 and 3565: the packet opens a message, which is complete when
\* it fits into the packet.  A message of length 0 is never complete.
InitAccepted(c, cmd, n) ==
  LET received == Chunk(n, InitData) IN
  /\ HostStarts(c, cmd, n)
  /\ MailboxFree
  /\ ~TooLong(n)
  /\ InitBuffer(n)
  /\ StartAssembly(n, received)
  /\ ctapCurrentCmd' = cmd /\ ctapCurrentChannel' = c
  /\ ctapBuffer' = Payload(c, host'[c], 0, received)
  /\ usbChannel' = c
  /\ usbPc' = IF received > 0 /\ (received > ctapBufferCapacity' \/ ctapBufferNull')
              THEN "panic"
              ELSE IF n > 0 /\ received >= n THEN "pubChannel" ELSE "idle"
  /\ UNCHANGED <<slotVars, pollVars, histVars>>

\* Line 3531: nothing is being assembled, or another channel is.
ContIgnored(c) ==
  /\ usbPc = "idle"
  /\ \E b \in Bases :
       /\ b.exp = 0 \/ c # ctapCurrentChannel
       /\ Assembly(b.exp, b.rec, b.seq)
  /\ UNCHANGED <<host, ctapCurrentCmd, ctapCurrentChannel, ctapBuffer, ctapBufferCapacity,
                 ctapBufferNull, slotVars, usbVars, pollVars, histVars>>

\* Line 3533: the sequence number is the one awaited.
SeqAwaited(s) == s = ctapExpectedSeq

\* A continuation packet of the channel in assembly that did not time out.
ContPacket(c) ==
  /\ usbPc = "idle"
  /\ ctapExpectedLen > 0
  /\ c = ctapCurrentChannel

\* Lines 3533-3539: a sequence number out of order ends the assembly.
ContBadSeq(c, s) ==
  /\ ContPacket(c)
  /\ ~SeqAwaited(s)
  /\ Assembly(0, 0, ctapExpectedSeq)
  /\ UNCHANGED <<host, ctapCurrentCmd, ctapCurrentChannel, ctapBuffer, ctapBufferCapacity,
                 ctapBufferNull, slotVars, usbVars, pollVars, histVars>>

ContChunk == Chunk(ctapExpectedLen - ctapReceivedLen, ContData)

OutOfBounds ==
  \/ ctapReceivedLen > ctapBufferCapacity
  \/ ContChunk > ctapBufferCapacity - ctapReceivedLen

\* Lines 3541-3558: the chunk does not fit the buffer, or the report is too short.
ContRefused(c, s, short) ==
  /\ ContPacket(c)
  /\ SeqAwaited(s)
  /\ OutOfBounds \/ short
  /\ Assembly(0, 0, (ctapExpectedSeq + 1) % 256)
  /\ UNCHANGED <<host, ctapCurrentCmd, ctapCurrentChannel, ctapBuffer, ctapBufferCapacity,
                 ctapBufferNull, slotVars, usbVars, pollVars, histVars>>

\* Lines 3541-3565: the chunk is appended; the last one completes the message.
ContAppended(c, s) ==
  /\ ContPacket(c)
  /\ SeqAwaited(s)
  /\ ~OutOfBounds
  /\ Assembly(ctapExpectedLen, ctapReceivedLen + ContChunk, (ctapExpectedSeq + 1) % 256)
  /\ ctapBuffer' = ctapBuffer \o
                   Payload(c, host[c], InitData + s * ContData, ContChunk)
  /\ usbPc' = IF ctapBufferNull THEN "panic"
              ELSE IF ctapReceivedLen + ContChunk >= ctapExpectedLen
                   THEN "pubChannel" ELSE "idle"
  /\ usbChannel' = c
  /\ UNCHANGED <<host, ctapCurrentCmd, ctapCurrentChannel, ctapBufferCapacity,
                 ctapBufferNull, slotVars, pollVars, histVars>>

\* Lines 3566-3573: room for the data, then the channel.  Without memory the
\* message is dropped, but the capacity field keeps the new size.
PublishChannel ==
  /\ usbPc = "pubChannel"
  /\ IF NeedsGrowth(ctapExpectedLen, pendingDataCapacity)
     THEN /\ pendingDataCapacity' = ctapExpectedLen
          /\ pendingDataNull' \in {~ok : ok \in AllocOutcomes}
     ELSE UNCHANGED <<pendingDataCapacity, pendingDataNull>>
  /\ IF pendingDataNull'
     THEN /\ Assembly(0, 0, ctapExpectedSeq)
          /\ usbPc' = "idle"
          /\ UNCHANGED pendingChannel
     ELSE /\ pendingChannel' = usbChannel
          /\ usbPc' = "pubCmd"
          /\ UNCHANGED <<ctapExpectedLen, ctapReceivedLen, ctapExpectedSeq>>
  /\ UNCHANGED <<host, ctapCurrentCmd, ctapCurrentChannel, ctapBuffer, ctapBufferCapacity,
                 ctapBufferNull, pendingCmd, pendingData, pendingLen, hasPendingCommand,
                 usbChannel, pollVars, histVars>>

PublishOldCmd ==                                       \* mutant: the command of the
  /\ usbPc = "pubCmd"                                  \* message before stays
  /\ usbPc' = "pubData"
  /\ UNCHANGED <<host, asmVars, slotVars, usbChannel, pollVars, histVars>>

PublishCmd ==
  /\ usbPc = "pubCmd"
  /\ pendingCmd' = ctapCurrentCmd
  /\ usbPc' = "pubData"
  /\ UNCHANGED <<host, asmVars, pendingChannel, pendingData, pendingLen, pendingDataCapacity,
                 pendingDataNull, hasPendingCommand, usbChannel, pollVars, histVars>>

PublishData ==
  /\ usbPc = "pubData"
  /\ IF ctapExpectedLen <= ctapBufferCapacity /\ ctapExpectedLen <= pendingDataCapacity
     THEN pendingData' = SubSeq(ctapBuffer, 1, ctapExpectedLen) /\ usbPc' = "pubLen"
     ELSE usbPc' = "panic" /\ UNCHANGED pendingData
  /\ UNCHANGED <<host, asmVars, pendingChannel, pendingCmd, pendingLen, pendingDataCapacity,
                 pendingDataNull, hasPendingCommand, usbChannel, pollVars, histVars>>

PublishLen ==
  /\ usbPc = "pubLen"
  /\ pendingLen' = ctapExpectedLen
  /\ usbPc' = "pubFlag"
  /\ UNCHANGED <<host, asmVars, pendingChannel, pendingCmd, pendingData, pendingDataCapacity,
                 pendingDataNull, hasPendingCommand, usbChannel, pollVars, histVars>>

PublishFlag ==
  /\ usbPc = "pubFlag"
  /\ hasPendingCommand' = TRUE
  /\ Assembly(0, 0, ctapExpectedSeq)
  /\ completed' = completed \cup {<<usbChannel, ctapBuffer[1].req.txn>>}
  /\ usbPc' = "idle"
  /\ UNCHANGED <<host, ctapCurrentCmd, ctapCurrentChannel, ctapBuffer, ctapBufferCapacity,
                 ctapBufferNull, pendingChannel, pendingCmd, pendingData, pendingLen,
                 pendingDataCapacity, pendingDataNull, usbChannel, pollVars, answered, disturbed>>

UsbReceives ==
  \/ \E c \in Channels : RecvCancel(c)
  \/ \E c \in Channels, cmd \in Cmds, n \in Lens :
       \/ InitRejected(c, cmd, n)
       \/ InitTooLong(c, cmd, n)
       \/ InitNoMemory(c, cmd, n)
       \/ InitShort(c, cmd, n)
       \/ InitAccepted(c, cmd, n)
  \/ \E c \in Channels : ContIgnored(c)
  \/ \E c \in Channels, s \in 0..MaxSeqNo :
       \/ ContBadSeq(c, s)
       \/ \E short \in BOOLEAN : ContRefused(c, s, short)
       \/ ContAppended(c, s)

UsbPublishes ==
  \/ CancelChannel \/ CancelCmd \/ CancelLen \/ CancelFlag
  \/ PublishChannel \/ PublishCmd \/ PublishData \/ PublishLen \/ PublishFlag

-----------------------------------------------------------------------------
(* The FIDO task: poll(), processCtapCommand and its wait for a finger.    *)

PollChannel ==
  /\ fidoPc = "idle"
  /\ hasPendingCommand
  /\ pollChannel' = pendingChannel
  /\ fidoPc' = "readCmd"
  /\ UNCHANGED <<host, asmVars, slotVars, usbVars, pollCmd, pollLen, pollData, histVars>>

PollCmd ==
  /\ fidoPc = "readCmd"
  /\ pollCmd' = pendingCmd
  /\ fidoPc' = "readLen"
  /\ UNCHANGED <<host, asmVars, slotVars, usbVars, pollChannel, pollLen, pollData, histVars>>

PollLen ==
  /\ fidoPc = "readLen"
  /\ pollLen' = pendingLen
  /\ pollData' = <<>>
  /\ fidoPc' = IF pendingLen = 0 THEN "clear" ELSE "copy"
  /\ UNCHANGED <<host, asmVars, slotVars, usbVars, pollChannel, pollCmd, histVars>>

\* Lines 3598-3602: no memory for the copy, the request is dropped.
PollNoMemory ==
  /\ fidoPc = "copy"
  /\ FALSE \in AllocOutcomes
  /\ hasPendingCommand' = FALSE
  /\ fidoPc' = "idle"
  /\ disturbed' = TRUE
  /\ UNCHANGED <<host, asmVars, pendingChannel, pendingCmd, pendingData, pendingLen,
                 pendingDataCapacity, pendingDataNull, usbVars, pollChannel, pollCmd,
                 pollLen, pollData, completed, answered>>

PollCopy ==
  /\ fidoPc = "copy"
  /\ TRUE \in AllocOutcomes
  /\ IF pendingDataNull \/ pollLen > pendingDataCapacity
     THEN fidoPc' = "panic" /\ UNCHANGED pollData
     ELSE fidoPc' = "clear" /\ pollData' = SubSeq(pendingData, 1, pollLen)
  /\ UNCHANGED <<host, asmVars, slotVars, usbVars, pollChannel, pollCmd, pollLen, histVars>>

PollClear ==
  /\ fidoPc = "clear"
  /\ hasPendingCommand' = FALSE
  /\ fidoPc' = "process"
  /\ UNCHANGED <<host, asmVars, pendingChannel, pendingCmd, pendingData, pendingLen,
                 pendingDataCapacity, pendingDataNull, usbVars, pollChannel, pollCmd,
                 pollLen, pollData, histVars>>

\* The response goes to pollChannel: it answers the request only when the data
\* came from that channel.
Answered ==
  IF pollLen > 0 /\ pollData # <<>> /\ pollData[1].chan = pollChannel
  THEN answered \cup {<<pollChannel, pollData[1].req.txn>>}
  ELSE answered

\* processCtapCommand for everything that ends without waiting for a finger:
\* PING, a CBOR request that is refused or needs no touch, a leftover CANCEL.
ProcessNow ==
  /\ fidoPc = "process"
  /\ answered' = Answered
  /\ fidoPc' = "idle"
  /\ UNCHANGED <<host, asmVars, slotVars, usbVars, pollChannel, pollCmd, pollLen,
                 pollData, completed, disturbed>>

ProcessWaits ==
  /\ fidoPc = "process"
  /\ pollCmd = "CBOR" /\ pollLen > 0
  /\ fidoPc' = "uv"
  /\ UNCHANGED <<host, asmVars, slotVars, usbVars, pollChannel, pollCmd, pollLen,
                 pollData, histVars>>

\* Line 1041: the wait loop finds a CANCEL for its channel in the mailbox.
UvSeesCancel ==
  /\ fidoPc = "uv"
  /\ hasPendingCommand /\ pendingCmd = "CANCEL" /\ pendingChannel = pollChannel
  /\ fidoPc' = "uvCancel"
  /\ UNCHANGED <<host, asmVars, slotVars, usbVars, pollChannel, pollCmd, pollLen,
                 pollData, histVars>>

\* Lines 1042-1064: the CANCEL is taken, the request is answered with 0x2D.
UvCancelled ==
  /\ fidoPc = "uvCancel"
  /\ hasPendingCommand' = FALSE
  /\ answered' = Answered
  /\ fidoPc' = "idle"
  /\ UNCHANGED <<host, asmVars, pendingChannel, pendingCmd, pendingData, pendingLen,
                 pendingDataCapacity, pendingDataNull, usbVars, pollChannel, pollCmd,
                 pollLen, pollData, completed, disturbed>>

\* A finger was verified, or the 15 s passed: the request is answered.
UvEndsClearing ==                                      \* mutant: a request that arrived
  /\ fidoPc = "uv"                                     \* meanwhile is thrown away
  /\ answered' = Answered
  /\ hasPendingCommand' = FALSE
  /\ fidoPc' = "idle"
  /\ UNCHANGED <<host, asmVars, pendingChannel, pendingCmd, pendingData, pendingLen,
                 pendingDataCapacity, pendingDataNull, usbVars, pollChannel, pollCmd,
                 pollLen, pollData, completed, disturbed>>

UvEnds ==
  /\ fidoPc = "uv"
  /\ answered' = Answered
  /\ fidoPc' = "idle"
  /\ UNCHANGED <<host, asmVars, slotVars, usbVars, pollChannel, pollCmd, pollLen,
                 pollData, completed, disturbed>>

Fido ==
  \/ PollChannel \/ PollCmd \/ PollLen \/ PollNoMemory \/ PollCopy \/ PollClear
  \/ ProcessNow \/ ProcessWaits \/ UvSeesCancel \/ UvCancelled \/ UvEnds

Next == UsbReceives \/ UsbPublishes \/ Fido

Spec == Init /\ [][Next]_vars

\* Both tasks are scheduled whenever they can run (FreeRTOS, pinned tasks, the
\* poll every 10 ms); hosts send or stay silent as they like.
FairSpec == Spec /\ WF_vars(UsbPublishes) /\ WF_vars(Fido)
-----------------------------------------------------------------------------
(* Properties.                                                             *)

UsbPcs  == {"idle", "panic", "cancelChannel", "cancelCmd", "cancelLen", "cancelFlag",
            "pubChannel", "pubCmd", "pubData", "pubLen", "pubFlag"}
FidoPcs == {"idle", "panic", "readCmd", "readLen", "copy", "clear", "process", "uv",
            "uvCancel"}
AnyChannel == Channels \cup {NoChannel}

HostType ==
  /\ host \in [Channels -> Requests]
  /\ completed \subseteq Channels \X Txns
  /\ answered \subseteq Channels \X Txns

AssemblyType ==
  /\ ctapExpectedLen \in 0..MaxMsg
  /\ ctapReceivedLen \in 0..MaxMsg
  /\ ctapExpectedSeq \in 0..255
  /\ ctapCurrentCmd \in Cmds \cup {NoCmd}
  /\ ctapCurrentChannel \in AnyChannel
  /\ ctapBuffer \in Seq(Byte)
  /\ ctapBufferCapacity \in 0..MaxMsg

SlotType ==
  /\ pendingChannel \in AnyChannel
  /\ pendingCmd \in Cmds \cup {NoCmd, "CANCEL"}
  /\ pendingData \in Seq(Byte)
  /\ pendingLen \in 0..MaxMsg
  /\ pendingDataCapacity \in 0..MaxMsg

TaskType ==
  /\ usbPc \in UsbPcs
  /\ usbChannel \in AnyChannel
  /\ fidoPc \in FidoPcs
  /\ pollChannel \in AnyChannel
  /\ pollCmd \in Cmds \cup {NoCmd, "CANCEL"}
  /\ pollLen \in 0..MaxMsg
  /\ pollData \in Seq(Byte)

FlagType ==
  /\ ctapBufferNull \in BOOLEAN
  /\ pendingDataNull \in BOOLEAN
  /\ hasPendingCommand \in BOOLEAN
  /\ disturbed \in BOOLEAN

\* Every field keeps its type: the uint8 sequence counter, the uint16 lengths up
\* to the limit _onOutput enforces, and the mailbox and poll() locals.
TypeOK == HostType /\ AssemblyType /\ SlotType /\ TaskType /\ FlagType

\* No memcpy of _onOutput or poll() leaves its buffer, whatever packets arrive
\* and however the two tasks interleave: the capacity checks of lines 3507, 3544
\* and 3566 are enough for the writes behind them.  What they do not look at is
\* an assembly buffer that a failed malloc left null; poll() never meets one.
MemorySafe == (usbPc = "panic" => ctapBufferNull) /\ fidoPc # "panic"

\* While a message is in assembly (and has a buffer), the sequence number awaited and the length
\* received tell the same story, and the number still fits the seven bits a
\* continuation packet has: every accepted byte count can be completed.
SeqTracksReceived ==
  ctapExpectedLen > 0 /\ ~ctapBufferNull /\ usbPc = "idle" =>
    /\ ctapExpectedSeq <= MaxSeqNo
    /\ ctapReceivedLen = InitData + ctapExpectedSeq * ContData
    /\ ctapReceivedLen < ctapExpectedLen
    /\ Len(ctapBuffer) = ctapReceivedLen

\* The two memcpys on the mailbox data never run at the same time, whatever the
\* hosts send: _onOutput is not writing pendingData (line 3575) while poll()
\* copies it (line 3604), although no lock protects it.  (This is also why the
\* model may take each copy as one step.)
NoTornCopy == ~(usbPc = "pubData" /\ fidoPc = "copy")

Dispatching == fidoPc \in {"clear", "process", "uv", "uvCancel"}

\* Whatever CANCELs interleave with poll(), the data it dispatches are the bytes
\* of one channel, in order and without a gap.
DataInOrder ==
  Dispatching /\ pollLen > 0 =>
    /\ Len(pollData) = pollLen
    /\ \A i \in 1..pollLen :
         /\ pollData[i].off = i
         /\ pollData[i].chan = pollData[1].chan

\* As long as no CANCEL arrived, what poll() dispatches is one whole host request:
\* its channel, its command, its announced length and its bytes, although the
\* fields are read one by one without a lock.
WholeRequest ==
  Dispatching /\ ~disturbed =>
    /\ pollLen > 0
    /\ pollData = Payload(pollChannel, pollData[1].req, 0, pollLen)
    /\ pollData[1].req.cmd = pollCmd
    /\ pollData[1].req.len = pollLen

\* As long as no CANCEL arrived, a request is dispatched only once, after it was
\* published: the flag poll() clears is never the one of a request it has not copied.
DispatchedOnce ==
  Dispatching /\ ~disturbed =>
    /\ <<pollChannel, pollData[1].req.txn>> \in completed
    /\ <<pollChannel, pollData[1].req.txn>> \notin answered

\* A request reaches its handler as its host sent it: _onOutput's counters agree while it is
\* put together, and poll() dispatches its bytes in order, whole and once, although the two
\* tasks share the mailbox without a lock.
RequestIntact == TypeOK /\ SeqTracksReceived /\ DataInOrder /\ WholeRequest /\ DispatchedOnce

\* Every request that was received whole is answered eventually, unless a CANCEL
\* arrives (it overwrites the mailbox) or poll() finds no memory: the mailbox
\* itself loses no request, however long a command waits for its finger.
CompletedIsAnswered ==
  \A c \in Channels, t \in Txns :
    (<<c, t>> \in completed) ~> (<<c, t>> \in answered \/ disturbed)
=============================================================================
