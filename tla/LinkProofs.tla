----------------------------- MODULE LinkProofs -----------------------------
(***************************************************************************)
(* Proofs about the two framed links.  CtapHid: for any number of          *)
(* channels, any packet sizes, any CANCELs and any outcome of malloc.      *)
(* Accel: for any tasks and operations, any capabilities of the bitstream, *)
(* and any number of garbled frames, late answers, failed mallocs and FPGA *)
(* resets.                                                                 *)
(***************************************************************************)
EXTENDS CtapHid, Accel, TLAPS

-----------------------------------------------------------------------------
(* The CTAPHID transport.                                                  *)

Publishing == {"pubChannel", "pubCmd", "pubData", "pubLen", "pubFlag"}
Polling    == {"readCmd", "readLen", "copy", "clear"}

\* The bytes received never exceed the announced length or the buffer.
ReceivedFits ==
  /\ ctapReceivedLen <= ctapExpectedLen
  /\ ctapReceivedLen <= ctapBufferCapacity

\* What the buffer holds while a message is assembled and while it is published.
BufferHolds ==
  /\ ctapExpectedLen > 0 /\ ~ctapBufferNull => Len(ctapBuffer) = ctapReceivedLen
  /\ usbPc \in Publishing =>
       /\ usbChannel \in Channels
       /\ ctapExpectedLen > 0
       /\ Len(ctapBuffer) = ctapExpectedLen

\* The length in the mailbox is covered by its data, except between the two
\* writes of lines 3575 and 3576.
SlotCovered ==
  /\ usbPc # "pubLen" => pendingLen <= Len(pendingData)
  /\ usbPc = "pubLen" => Len(pendingData) = ctapExpectedLen
  /\ usbPc = "pubFlag" => pendingLen = ctapExpectedLen

\* A command is in the mailbox while a message is assembled only when it is a
\* CANCEL, which has no data: this is what keeps poll() from copying data that
\* _onOutput is about to overwrite.
OnlyCancelDuringAssembly ==
  hasPendingCommand /\ ctapExpectedLen > 0 /\ usbPc # "pubFlag" => pendingLen = 0

\* A CANCEL under way has cleared the length before it sets the flag.
CancelClearsLen == usbPc = "cancelFlag" => pendingLen = 0

\* While poll() reads the mailbox the flag stays up, and while it copies no
\* message is in assembly.
PollHoldsSlot ==
  /\ fidoPc \in Polling => hasPendingCommand
  /\ fidoPc = "copy" =>
       /\ ctapExpectedLen = 0 \/ usbPc = "pubFlag"
       /\ pollLen <= Len(pendingData)

Control ==
  /\ ReceivedFits
  /\ BufferHolds
  /\ SlotCovered
  /\ OnlyCancelDuringAssembly
  /\ CancelClearsLen
  /\ PollHoldsSlot

IInv == HostType /\ AssemblyType /\ SlotType /\ TaskType /\ Control

\* A buffer that is there is large enough for the message in assembly, and
\* publishing starts only with one.
AssemblySized ==
  /\ ctapExpectedLen > 0 /\ ~ctapBufferNull => ctapExpectedLen <= ctapBufferCapacity
  /\ usbPc \in Publishing => ~ctapBufferNull
  /\ usbPc = "panic" => ctapBufferNull

\* The mailbox data have room for the length beside them, also for the length
\* poll() has read, and are there whenever a request waits.
MailboxSized ==
  /\ pendingLen <= pendingDataCapacity
  /\ usbPc \in Publishing \ {"pubChannel"} =>
       ctapExpectedLen <= pendingDataCapacity /\ ~pendingDataNull
  /\ hasPendingCommand /\ pendingLen > 0 => ~pendingDataNull
  /\ fidoPc = "copy" => pollLen <= pendingDataCapacity /\ ~pendingDataNull
  /\ fidoPc # "panic"

-----------------------------------------------------------------------------
\* Chunk is the smaller of the remaining length and the packet's room.
LEMMA ChunkType ==
  ASSUME NEW a \in Nat, NEW b \in Nat
  PROVE  /\ Chunk(a, b) \in Nat
         /\ Chunk(a, b) <= a
         /\ Chunk(a, b) <= b
BY DEF Chunk

\* The payload of a packet is a sequence of n bytes.
LEMMA PayloadType ==
  ASSUME NEW c \in Channels, NEW r \in Requests, NEW from \in Nat, NEW n \in Nat
  PROVE  /\ Payload(c, r, from, n) \in Seq(Byte)
         /\ Len(Payload(c, r, from, n)) = n
BY DEF Payload, Byte

\* What most steps need of the constants.
LEMMA Sizes ==
  /\ Cancellers \subseteq Channels
  /\ Lens \subseteq Nat
  /\ InitData \in Nat /\ ContData \in Nat
  /\ MaxSeqNo \in Nat
  /\ MaxMsg \in Nat
  /\ AllocOutcomes \subseteq BOOLEAN
  /\ MaxTxn \in Nat
<1>1. (MaxSeqNo + 1) * ContData \in Nat
  BY HidAssumption
<1> QED
  BY <1>1, HidAssumption

\* A packet finds the assembly as it was, or timed out and empty.
LEMMA BasesType ==
  ASSUME AssemblyType, ReceivedFits, NEW b \in Bases
  PROVE  /\ b.exp \in 0..MaxMsg /\ b.rec \in 0..MaxMsg /\ b.seq \in 0..255
         /\ b.rec <= b.exp /\ b.rec <= ctapBufferCapacity
         /\ b.exp > 0 => b.exp = ctapExpectedLen /\ b.rec = ctapReceivedLen
<1>1. CASE b = [exp |-> ctapExpectedLen, rec |-> ctapReceivedLen, seq |-> ctapExpectedSeq]
  BY <1>1 DEF AssemblyType, ReceivedFits
<1>2. CASE b = [exp |-> 0, rec |-> 0, seq |-> 0]
  BY <1>2, Sizes DEF AssemblyType
<1> QED
  BY <1>1, <1>2 DEF Bases

\* An accepted initialisation packet has a buffer for its whole message.
LEMMA InitBufferFits ==
  ASSUME AssemblyType, NEW n \in Nat, ~TooLong(n), InitBuffer(n)
  PROVE  ctapBufferCapacity' \in 0..MaxMsg /\ n <= ctapBufferCapacity'
<1>1. CASE NeedsGrowth(n, ctapBufferCapacity)
  BY <1>1, Sizes DEF InitBuffer, TooLong
<1>2. CASE ~NeedsGrowth(n, ctapBufferCapacity)
  BY <1>2, Sizes DEF InitBuffer, TooLong, NeedsGrowth, AssemblyType
<1> QED
  BY <1>1, <1>2

\* Appending bytes to bytes.
LEMMA Appending ==
  ASSUME NEW s \in Seq(Byte), NEW t \in Seq(Byte)
  PROVE  s \o t \in Seq(Byte) /\ Len(s \o t) = Len(s) + Len(t)
OBVIOUS

\* A host's next request is a request.
LEMMA HostStartsType ==
  ASSUME HostType, NEW c \in Channels, NEW cmd \in Cmds, NEW n \in Lens,
         HostStarts(c, cmd, n)
  PROVE  host' \in [Channels -> Requests] /\ host'[c] \in Requests /\ n \in Nat
BY Sizes DEF HostType, HostStarts, Requests, Txns

\* What a command answers is a request some channel made.
LEMMA AnsweredType ==
  ASSUME HostType, TaskType
  PROVE  Answered \subseteq Channels \X Txns
<1>1. CASE pollLen > 0 /\ pollData # <<>> /\ pollData[1].chan = pollChannel
  <2>1. pollData[1] \in Byte
    BY <1>1 DEF TaskType
  <2>2. <<pollChannel, pollData[1].req.txn>> \in Channels \X Txns
    BY <1>1, <2>1 DEF Byte, Requests
  <2> QED
    BY <1>1, <2>2 DEF Answered, HostType
<1> QED
  BY <1>1 DEF Answered, HostType

\* The start state of the firmware.
LEMMA InitIInv == Init => IInv
<1> SUFFICES ASSUME Init PROVE IInv
  OBVIOUS
<1> USE Sizes DEF Init
<1>1. HostType
  BY DEF HostType, Requests, Txns
<1>2. AssemblyType /\ SlotType
  BY DEF AssemblyType, SlotType, AnyChannel
<1>3. TaskType
  BY DEF TaskType, AnyChannel, UsbPcs, FidoPcs
<1>4. Control
  BY DEF Control, ReceivedFits, BufferHolds, SlotCovered, OnlyCancelDuringAssembly,
         CancelClearsLen, PollHoldsSlot, Publishing, Polling
<1> QED
  BY <1>1, <1>2, <1>3, <1>4 DEF IInv

\* Every packet, every step of publishing, of poll() and of the commands keeps
\* the inductive invariant.
LEMMA StepIInv == IInv /\ [Next]_vars => IInv'
<1> SUFFICES ASSUME IInv, [Next]_vars PROVE IInv'
  OBVIOUS
<1> USE Sizes DEF IInv, asmVars, slotVars, usbVars, pollVars, histVars
<1>1. CASE \E c \in Channels : RecvCancel(c)
  <2> PICK c \in Channels : RecvCancel(c)
    BY <1>1
  <2> PICK b \in Bases : Assembly(b.exp, b.rec, b.seq)
    BY DEF RecvCancel
  <2>1. /\ b.exp \in 0..MaxMsg /\ b.rec \in 0..MaxMsg /\ b.seq \in 0..255
        /\ b.rec <= b.exp /\ b.rec <= ctapBufferCapacity
        /\ b.exp > 0 => b.exp = ctapExpectedLen /\ b.rec = ctapReceivedLen
    BY BasesType DEF Control
  <2>2. HostType'
    BY DEF HostType, RecvCancel, Assembly
  <2>3. AssemblyType'
    BY <2>1 DEF AssemblyType, AnyChannel, RecvCancel, Assembly
  <2>4. SlotType'
    BY DEF SlotType, TaskType, AnyChannel, RecvCancel, Assembly
  <2>5. TaskType'
    BY DEF TaskType, SlotType, AnyChannel, UsbPcs, FidoPcs, RecvCancel, Assembly
  <2>6. Control'
    BY <2>1 DEF AssemblyType, SlotType, TaskType, RecvCancel, Assembly,
        Control, ReceivedFits, BufferHolds, SlotCovered, OnlyCancelDuringAssembly,
        CancelClearsLen, PollHoldsSlot, Publishing, Polling
  <2> QED
    BY <2>2, <2>3, <2>4, <2>5, <2>6
<1>2. CASE CancelChannel
  <2>1. HostType'
    BY <1>2 DEF HostType, CancelChannel
  <2>2. AssemblyType'
    BY <1>2 DEF AssemblyType, AnyChannel, CancelChannel
  <2>3. SlotType'
    BY <1>2 DEF SlotType, TaskType, AnyChannel, CancelChannel
  <2>4. TaskType'
    BY <1>2 DEF TaskType, SlotType, AnyChannel, UsbPcs, FidoPcs, CancelChannel
  <2>5. Control'
    BY <1>2 DEF AssemblyType, SlotType, TaskType, CancelChannel,
        Control, ReceivedFits, BufferHolds, SlotCovered, OnlyCancelDuringAssembly,
        CancelClearsLen, PollHoldsSlot, Publishing, Polling
  <2> QED
    BY <2>1, <2>2, <2>3, <2>4, <2>5
<1>3. CASE CancelCmd
  <2>1. HostType'
    BY <1>3 DEF HostType, CancelCmd
  <2>2. AssemblyType'
    BY <1>3 DEF AssemblyType, AnyChannel, CancelCmd
  <2>3. SlotType'
    BY <1>3 DEF SlotType, TaskType, AnyChannel, CancelCmd
  <2>4. TaskType'
    BY <1>3 DEF TaskType, SlotType, AnyChannel, UsbPcs, FidoPcs, CancelCmd
  <2>5. Control'
    BY <1>3 DEF AssemblyType, SlotType, TaskType, CancelCmd,
        Control, ReceivedFits, BufferHolds, SlotCovered, OnlyCancelDuringAssembly,
        CancelClearsLen, PollHoldsSlot, Publishing, Polling
  <2> QED
    BY <2>1, <2>2, <2>3, <2>4, <2>5
<1>4. CASE CancelLen
  <2>1. HostType'
    BY <1>4 DEF HostType, CancelLen
  <2>2. AssemblyType'
    BY <1>4 DEF AssemblyType, AnyChannel, CancelLen
  <2>3. SlotType'
    BY <1>4 DEF SlotType, TaskType, AnyChannel, CancelLen
  <2>4. TaskType'
    BY <1>4 DEF TaskType, SlotType, AnyChannel, UsbPcs, FidoPcs, CancelLen
  <2>5. Control'
    BY <1>4 DEF AssemblyType, SlotType, TaskType, CancelLen,
        Control, ReceivedFits, BufferHolds, SlotCovered, OnlyCancelDuringAssembly,
        CancelClearsLen, PollHoldsSlot, Publishing, Polling
  <2> QED
    BY <2>1, <2>2, <2>3, <2>4, <2>5
<1>5. CASE CancelFlag
  <2>1. HostType'
    BY <1>5 DEF HostType, CancelFlag
  <2>2. AssemblyType'
    BY <1>5 DEF AssemblyType, AnyChannel, CancelFlag
  <2>3. SlotType'
    BY <1>5 DEF SlotType, TaskType, AnyChannel, CancelFlag
  <2>4. TaskType'
    BY <1>5 DEF TaskType, SlotType, AnyChannel, UsbPcs, FidoPcs, CancelFlag
  <2>5. Control'
    BY <1>5 DEF AssemblyType, SlotType, TaskType, CancelFlag,
        Control, ReceivedFits, BufferHolds, SlotCovered, OnlyCancelDuringAssembly,
        CancelClearsLen, PollHoldsSlot, Publishing, Polling
  <2> QED
    BY <2>1, <2>2, <2>3, <2>4, <2>5
<1>6. CASE \E c \in Channels, cmd \in Cmds, n \in Lens : InitRejected(c, cmd, n)
  <2> PICK c \in Channels, cmd \in Cmds, n \in Lens : InitRejected(c, cmd, n)
    BY <1>6
  <2> PICK b \in Bases : Assembly(b.exp, b.rec, b.seq)
    BY DEF InitRejected
  <2>1. /\ b.exp \in 0..MaxMsg /\ b.rec \in 0..MaxMsg /\ b.seq \in 0..255
        /\ b.rec <= b.exp /\ b.rec <= ctapBufferCapacity
        /\ b.exp > 0 => b.exp = ctapExpectedLen /\ b.rec = ctapReceivedLen
    BY BasesType DEF Control
  <2>2. host' \in [Channels -> Requests] /\ host'[c] \in Requests /\ n \in Nat
    BY HostStartsType DEF InitRejected
  <2>3. HostType'
    BY <2>2 DEF HostType, InitRejected, Assembly, HostStarts
  <2>4. AssemblyType'
    BY <2>1, <2>2 DEF AssemblyType, AnyChannel, InitRejected, Assembly, HostStarts
  <2>5. SlotType'
    BY DEF SlotType, TaskType, AnyChannel, InitRejected, Assembly, HostStarts
  <2>6. TaskType'
    BY DEF TaskType, SlotType, AnyChannel, UsbPcs, FidoPcs, InitRejected, Assembly, HostStarts
  <2>7. Control'
    BY <2>1, <2>2 DEF AssemblyType, SlotType, TaskType, InitRejected, Assembly, HostStarts,
        Control, ReceivedFits, BufferHolds, SlotCovered, OnlyCancelDuringAssembly,
        CancelClearsLen, PollHoldsSlot, Publishing, Polling
  <2> QED
    BY <2>3, <2>4, <2>5, <2>6, <2>7
<1>7. CASE \E c \in Channels, cmd \in Cmds, n \in Lens : InitTooLong(c, cmd, n)
  <2> PICK c \in Channels, cmd \in Cmds, n \in Lens : InitTooLong(c, cmd, n)
    BY <1>7
  <2> PICK b \in Bases : Assembly(0, 0, b.seq)
    BY DEF InitTooLong
  <2>1. /\ b.exp \in 0..MaxMsg /\ b.rec \in 0..MaxMsg /\ b.seq \in 0..255
        /\ b.rec <= b.exp /\ b.rec <= ctapBufferCapacity
        /\ b.exp > 0 => b.exp = ctapExpectedLen /\ b.rec = ctapReceivedLen
    BY BasesType DEF Control
  <2>2. host' \in [Channels -> Requests] /\ host'[c] \in Requests /\ n \in Nat
    BY HostStartsType DEF InitTooLong
  <2>3. HostType'
    BY <2>2 DEF HostType, InitTooLong, Assembly, HostStarts, MailboxFree
  <2>4. AssemblyType'
    BY <2>1, <2>2 DEF AssemblyType, AnyChannel, InitTooLong, Assembly, HostStarts, MailboxFree
  <2>5. SlotType'
    BY DEF SlotType, TaskType, AnyChannel, InitTooLong, Assembly, HostStarts, MailboxFree
  <2>6. TaskType'
    BY DEF TaskType, SlotType, AnyChannel, UsbPcs, FidoPcs, InitTooLong, Assembly, HostStarts, MailboxFree
  <2>7. Control'
    BY <2>1, <2>2 DEF AssemblyType, SlotType, TaskType, InitTooLong, Assembly, HostStarts, MailboxFree,
        Control, ReceivedFits, BufferHolds, SlotCovered, OnlyCancelDuringAssembly,
        CancelClearsLen, PollHoldsSlot, Publishing, Polling
  <2> QED
    BY <2>3, <2>4, <2>5, <2>6, <2>7
<1>8. CASE \E c \in Channels, cmd \in Cmds, n \in Lens : InitNoMemory(c, cmd, n)
  <2> PICK c \in Channels, cmd \in Cmds, n \in Lens : InitNoMemory(c, cmd, n)
    BY <1>8
  <2> PICK b \in Bases : Assembly(n, b.rec, b.seq)
    BY DEF InitNoMemory
  <2>1. /\ b.exp \in 0..MaxMsg /\ b.rec \in 0..MaxMsg /\ b.seq \in 0..255
        /\ b.rec <= b.exp /\ b.rec <= ctapBufferCapacity
        /\ b.exp > 0 => b.exp = ctapExpectedLen /\ b.rec = ctapReceivedLen
    BY BasesType DEF Control
  <2>2. host' \in [Channels -> Requests] /\ host'[c] \in Requests /\ n \in Nat
    BY HostStartsType DEF InitNoMemory
  <2>3. HostType'
    BY <2>2 DEF HostType, InitNoMemory, Assembly, HostStarts, MailboxFree, TooLong, NeedsGrowth
  <2>4. AssemblyType'
    BY <2>1, <2>2 DEF AssemblyType, AnyChannel, InitNoMemory, Assembly, HostStarts, MailboxFree, TooLong, NeedsGrowth
  <2>5. SlotType'
    BY DEF SlotType, TaskType, AnyChannel, InitNoMemory, Assembly, HostStarts, MailboxFree, TooLong, NeedsGrowth
  <2>6. TaskType'
    BY DEF TaskType, SlotType, AnyChannel, UsbPcs, FidoPcs, InitNoMemory, Assembly, HostStarts, MailboxFree, TooLong, NeedsGrowth
  <2>7. Control'
    BY <2>1, <2>2 DEF AssemblyType, SlotType, TaskType, InitNoMemory, Assembly, HostStarts, MailboxFree, TooLong, NeedsGrowth,
        Control, ReceivedFits, BufferHolds, SlotCovered, OnlyCancelDuringAssembly,
        CancelClearsLen, PollHoldsSlot, Publishing, Polling
  <2> QED
    BY <2>3, <2>4, <2>5, <2>6, <2>7
<1>9. CASE \E c \in Channels, cmd \in Cmds, n \in Lens : InitShort(c, cmd, n)
  <2> PICK c \in Channels, cmd \in Cmds, n \in Lens : InitShort(c, cmd, n)
    BY <1>9
  <2> PICK b \in Bases : Assembly(0, 0, b.seq)
    BY DEF InitShort
  <2>1. /\ b.exp \in 0..MaxMsg /\ b.rec \in 0..MaxMsg /\ b.seq \in 0..255
        /\ b.rec <= b.exp /\ b.rec <= ctapBufferCapacity
        /\ b.exp > 0 => b.exp = ctapExpectedLen /\ b.rec = ctapReceivedLen
    BY BasesType DEF Control
  <2>2. host' \in [Channels -> Requests] /\ host'[c] \in Requests /\ n \in Nat
    BY HostStartsType DEF InitShort
  <2>3. ctapBufferCapacity' \in 0..MaxMsg
    BY <2>2, InitBufferFits DEF InitShort
  <2>4. HostType'
    BY <2>2 DEF HostType, InitShort, Assembly, HostStarts, MailboxFree, TooLong
  <2>5. AssemblyType'
    BY <2>1, <2>2, <2>3 DEF AssemblyType, AnyChannel, InitShort, Assembly, HostStarts, MailboxFree, TooLong
  <2>6. SlotType'
    BY DEF SlotType, TaskType, AnyChannel, InitShort, Assembly, HostStarts, MailboxFree, TooLong
  <2>7. TaskType'
    BY DEF TaskType, SlotType, AnyChannel, UsbPcs, FidoPcs, InitShort, Assembly, HostStarts, MailboxFree, TooLong
  <2>8. Control'
    BY <2>1, <2>2, <2>3 DEF AssemblyType, SlotType, TaskType, InitShort, Assembly, HostStarts, MailboxFree, TooLong,
        Control, ReceivedFits, BufferHolds, SlotCovered, OnlyCancelDuringAssembly,
        CancelClearsLen, PollHoldsSlot, Publishing, Polling
  <2> QED
    BY <2>4, <2>5, <2>6, <2>7, <2>8
<1>10. CASE \E c \in Channels, cmd \in Cmds, n \in Lens : InitAccepted(c, cmd, n)
  <2> PICK c \in Channels, cmd \in Cmds, n \in Lens : InitAccepted(c, cmd, n)
    BY <1>10
  <2>1. host' \in [Channels -> Requests] /\ host'[c] \in Requests /\ n \in Nat
    BY HostStartsType DEF InitAccepted
  <2> DEFINE received == Chunk(n, InitData)
  <2>2. received \in Nat /\ received <= n /\ received <= InitData
    BY <2>1, ChunkType
  <2>3. ctapBuffer' \in Seq(Byte) /\ Len(ctapBuffer') = received
    BY <2>1, <2>2, PayloadType DEF InitAccepted
  <2>4. received <= ctapBufferCapacity' /\ ctapBufferCapacity' \in 0..MaxMsg
    BY <2>1, <2>2, InitBufferFits DEF InitAccepted, AssemblyType
  <2>5. /\ ctapExpectedLen' = n /\ ctapReceivedLen' = received /\ ctapExpectedSeq' = 0
        /\ ctapCurrentCmd' = cmd /\ ctapCurrentChannel' = c
        /\ n \in 0..MaxMsg
        /\ usbPc' \in Publishing => usbPc' = "pubChannel" /\ n > 0 /\ received >= n
        /\ usbPc' \in {"idle", "panic", "pubChannel"} /\ usbChannel' = c
        /\ ~hasPendingCommand
        /\ UNCHANGED <<slotVars, pollVars>>
    BY <2>1 DEF InitAccepted, HostStarts, StartAssembly, Assembly, TooLong, MailboxFree,
                Publishing
  <2> HIDE DEF received
  <2>6. HostType'
    BY <2>1 DEF HostType, InitAccepted, HostStarts, MailboxFree, TooLong, StartAssembly, Assembly
  <2>7. AssemblyType'
    BY <2>2, <2>3, <2>4, <2>5 DEF AssemblyType, AnyChannel, InitAccepted, HostStarts, MailboxFree, TooLong, StartAssembly, Assembly
  <2>8. SlotType'
    BY DEF SlotType, TaskType, AnyChannel, InitAccepted, HostStarts, MailboxFree, TooLong, StartAssembly, Assembly
  <2>9. TaskType'
    BY DEF TaskType, SlotType, AnyChannel, UsbPcs, FidoPcs, InitAccepted, HostStarts, MailboxFree, TooLong, StartAssembly, Assembly
  <2>10. Control'
    BY <2>2, <2>3, <2>4, <2>5 DEF AssemblyType, SlotType, TaskType, InitAccepted, HostStarts, MailboxFree, TooLong, StartAssembly, Assembly,
        Control, ReceivedFits, BufferHolds, SlotCovered, OnlyCancelDuringAssembly,
        CancelClearsLen, PollHoldsSlot, Publishing, Polling
  <2> QED
    BY <2>6, <2>7, <2>8, <2>9, <2>10
<1>11. CASE \E c \in Channels : ContIgnored(c)
  <2> PICK c \in Channels : ContIgnored(c)
    BY <1>11
  <2> PICK b \in Bases : Assembly(b.exp, b.rec, b.seq)
    BY DEF ContIgnored
  <2>1. /\ b.exp \in 0..MaxMsg /\ b.rec \in 0..MaxMsg /\ b.seq \in 0..255
        /\ b.rec <= b.exp /\ b.rec <= ctapBufferCapacity
        /\ b.exp > 0 => b.exp = ctapExpectedLen /\ b.rec = ctapReceivedLen
    BY BasesType DEF Control
  <2>2. HostType'
    BY DEF HostType, ContIgnored, Assembly
  <2>3. AssemblyType'
    BY <2>1 DEF AssemblyType, AnyChannel, ContIgnored, Assembly
  <2>4. SlotType'
    BY DEF SlotType, TaskType, AnyChannel, ContIgnored, Assembly
  <2>5. TaskType'
    BY DEF TaskType, SlotType, AnyChannel, UsbPcs, FidoPcs, ContIgnored, Assembly
  <2>6. Control'
    BY <2>1 DEF AssemblyType, SlotType, TaskType, ContIgnored, Assembly,
        Control, ReceivedFits, BufferHolds, SlotCovered, OnlyCancelDuringAssembly,
        CancelClearsLen, PollHoldsSlot, Publishing, Polling
  <2> QED
    BY <2>2, <2>3, <2>4, <2>5, <2>6
<1>12. CASE \E c \in Channels, s \in 0..MaxSeqNo : ContBadSeq(c, s)
  <2> PICK c \in Channels, s \in 0..MaxSeqNo : ContBadSeq(c, s)
    BY <1>12
  <2>1. HostType'
    BY DEF HostType, ContBadSeq, Assembly, ContPacket
  <2>2. AssemblyType'
    BY DEF AssemblyType, AnyChannel, ContBadSeq, Assembly, ContPacket
  <2>3. SlotType'
    BY DEF SlotType, TaskType, AnyChannel, ContBadSeq, Assembly, ContPacket
  <2>4. TaskType'
    BY DEF TaskType, SlotType, AnyChannel, UsbPcs, FidoPcs, ContBadSeq, Assembly, ContPacket
  <2>5. Control'
    BY DEF AssemblyType, SlotType, TaskType, ContBadSeq, Assembly, ContPacket,
        Control, ReceivedFits, BufferHolds, SlotCovered, OnlyCancelDuringAssembly,
        CancelClearsLen, PollHoldsSlot, Publishing, Polling
  <2> QED
    BY <2>1, <2>2, <2>3, <2>4, <2>5
<1>13. CASE \E c \in Channels, s \in 0..MaxSeqNo, short \in BOOLEAN : ContRefused(c, s, short)
  <2> PICK c \in Channels, s \in 0..MaxSeqNo, short \in BOOLEAN : ContRefused(c, s, short)
    BY <1>13
  <2>1. HostType'
    BY DEF HostType, ContRefused, Assembly, ContPacket
  <2>2. AssemblyType'
    BY DEF AssemblyType, AnyChannel, ContRefused, Assembly, ContPacket
  <2>3. SlotType'
    BY DEF SlotType, TaskType, AnyChannel, ContRefused, Assembly, ContPacket
  <2>4. TaskType'
    BY DEF TaskType, SlotType, AnyChannel, UsbPcs, FidoPcs, ContRefused, Assembly, ContPacket
  <2>5. Control'
    BY DEF AssemblyType, SlotType, TaskType, ContRefused, Assembly, ContPacket,
        Control, ReceivedFits, BufferHolds, SlotCovered, OnlyCancelDuringAssembly,
        CancelClearsLen, PollHoldsSlot, Publishing, Polling
  <2> QED
    BY <2>1, <2>2, <2>3, <2>4, <2>5
<1>14. CASE \E c \in Channels, s \in 0..MaxSeqNo : ContAppended(c, s)
  <2> PICK c \in Channels, s \in 0..MaxSeqNo : ContAppended(c, s)
    BY <1>14
  <2> DEFINE new == Payload(c, host[c], InitData + s * ContData, ContChunk)
  <2>1. ContChunk \in Nat /\ ContChunk <= ctapExpectedLen - ctapReceivedLen
    <3>1. ctapExpectedLen - ctapReceivedLen \in Nat
      BY DEF Control, ReceivedFits, AssemblyType
    <3> QED
      BY <3>1, ChunkType DEF ContChunk
  <2>2. InitData + s * ContData \in Nat /\ host[c] \in Requests
    BY DEF HostType
  <2>3. new \in Seq(Byte) /\ Len(new) = ContChunk
    BY <2>1, <2>2, PayloadType
  <2> HIDE DEF new
  <2>4. ctapBuffer' = ctapBuffer \o new
    BY DEF ContAppended, new
  <2>5. ctapBuffer' \in Seq(Byte) /\ Len(ctapBuffer') = Len(ctapBuffer) + ContChunk
    BY <2>3, <2>4, Appending DEF AssemblyType
  <2>6. ctapReceivedLen + ContChunk <= ctapBufferCapacity
    BY <2>1 DEF ContAppended, OutOfBounds, AssemblyType
  <2> DEFINE final == ctapReceivedLen + ContChunk >= ctapExpectedLen
  <2>0. /\ ctapExpectedLen' = ctapExpectedLen /\ ctapExpectedLen > 0
        /\ ctapReceivedLen' = ctapReceivedLen + ContChunk
        /\ usbPc' \in Publishing => usbPc' = "pubChannel" /\ final /\ ~ctapBufferNull
        /\ usbPc' \in {"idle", "panic", "pubChannel"} /\ usbChannel' = c
        /\ usbPc = "idle"
        /\ UNCHANGED <<ctapBufferCapacity, ctapBufferNull, slotVars, pollVars>>
    BY DEF ContAppended, ContPacket, Assembly, Publishing
  <2>7. HostType'
    BY DEF HostType, ContAppended, Assembly, ContPacket
  <2>8. AssemblyType'
    BY <2>1, <2>5, <2>6 DEF AssemblyType, AnyChannel, ContAppended, Assembly, ContPacket
  <2>9. SlotType'
    BY DEF SlotType, TaskType, AnyChannel, ContAppended, Assembly, ContPacket
  <2>10. TaskType'
    BY DEF TaskType, SlotType, AnyChannel, UsbPcs, FidoPcs, ContAppended, Assembly, ContPacket
  <2>11. ReceivedFits'
    BY <2>0, <2>1, <2>6 DEF Control, ReceivedFits, AssemblyType
  <2>12. BufferHolds'
    <3>1. (ctapExpectedLen > 0 /\ ~ctapBufferNull => Len(ctapBuffer) = ctapReceivedLen)'
      BY <2>0, <2>5 DEF Control, BufferHolds
    <3>2. ASSUME usbPc' \in Publishing PROVE Len(ctapBuffer') = ctapExpectedLen'
      BY <2>0, <2>1, <2>5, <3>2 DEF Control, BufferHolds, AssemblyType
    <3> QED
      BY <2>0, <3>1, <3>2 DEF BufferHolds, Publishing
  <2>13. (SlotCovered /\ OnlyCancelDuringAssembly /\ CancelClearsLen /\ PollHoldsSlot)'
    BY <2>0 DEF AssemblyType, Control, SlotCovered, OnlyCancelDuringAssembly,
                CancelClearsLen, PollHoldsSlot, Publishing, Polling
  <2>14. Control'
    BY <2>11, <2>12, <2>13 DEF Control
  <2> QED
    BY <2>7, <2>8, <2>9, <2>10, <2>14
<1>15. CASE PublishChannel
  <2>1. /\ pendingDataCapacity' \in 0..MaxMsg
        /\ UNCHANGED <<ctapCurrentCmd, ctapCurrentChannel, ctapBuffer, ctapBufferCapacity>>
        /\ \/ /\ ctapExpectedLen' = 0 /\ ctapReceivedLen' = 0 /\ ctapExpectedSeq' = ctapExpectedSeq
              /\ usbPc' = "idle" /\ pendingChannel' = pendingChannel
           \/ /\ UNCHANGED <<ctapExpectedLen, ctapReceivedLen, ctapExpectedSeq>>
              /\ usbPc' = "pubCmd" /\ pendingChannel' = usbChannel
    BY <1>15 DEF PublishChannel, NeedsGrowth, Assembly, AssemblyType, SlotType
  <2>2. HostType'
    BY <1>15 DEF HostType, PublishChannel, Assembly
  <2>3. AssemblyType'
    <3>1. CASE ctapExpectedLen' = 0 /\ ctapReceivedLen' = 0 /\ ctapExpectedSeq' = ctapExpectedSeq
      BY <2>1, <3>1 DEF AssemblyType, AnyChannel
    <3>2. CASE UNCHANGED <<ctapExpectedLen, ctapReceivedLen, ctapExpectedSeq>>
      BY <2>1, <3>2 DEF AssemblyType, AnyChannel
    <3> QED
      BY <2>1, <3>1, <3>2
  <2>4. SlotType'
    BY <1>15, <2>1 DEF SlotType, TaskType, AnyChannel, PublishChannel, Assembly
  <2>5. TaskType'
    BY <1>15, <2>1 DEF TaskType, SlotType, AnyChannel, UsbPcs, FidoPcs, PublishChannel, Assembly
  <2>6. Control'
    BY <1>15, <2>1 DEF AssemblyType, SlotType, TaskType, PublishChannel, Assembly,
        Control, ReceivedFits, BufferHolds, SlotCovered, OnlyCancelDuringAssembly,
        CancelClearsLen, PollHoldsSlot, Publishing, Polling
  <2> QED
    BY <2>2, <2>3, <2>4, <2>5, <2>6
<1>16. CASE PublishCmd
  <2>1. HostType'
    BY <1>16 DEF HostType, PublishCmd, Assembly
  <2>2. AssemblyType'
    BY <1>16 DEF AssemblyType, AnyChannel, PublishCmd, Assembly
  <2>3. SlotType'
    BY <1>16 DEF SlotType, TaskType, AnyChannel, PublishCmd, Assembly, AssemblyType, Control, BufferHolds, Publishing
  <2>4. TaskType'
    BY <1>16 DEF TaskType, SlotType, AnyChannel, UsbPcs, FidoPcs, PublishCmd, Assembly
  <2>5. Control'
    BY <1>16 DEF AssemblyType, SlotType, TaskType, PublishCmd, Assembly,
        Control, ReceivedFits, BufferHolds, SlotCovered, OnlyCancelDuringAssembly,
        CancelClearsLen, PollHoldsSlot, Publishing, Polling
  <2> QED
    BY <2>1, <2>2, <2>3, <2>4, <2>5
<1>17. CASE PublishData
  <2>1. HostType'
    BY <1>17 DEF HostType, PublishData, Assembly
  <2>2. AssemblyType'
    BY <1>17 DEF AssemblyType, AnyChannel, PublishData, Assembly
  <2>3. SlotType'
    BY <1>17 DEF SlotType, TaskType, AnyChannel, PublishData, Assembly, AssemblyType, Control, BufferHolds, Publishing
  <2>4. TaskType'
    BY <1>17 DEF TaskType, SlotType, AnyChannel, UsbPcs, FidoPcs, PublishData, Assembly
  <2>5. Control'
    BY <1>17 DEF AssemblyType, SlotType, TaskType, PublishData, Assembly,
        Control, ReceivedFits, BufferHolds, SlotCovered, OnlyCancelDuringAssembly,
        CancelClearsLen, PollHoldsSlot, Publishing, Polling
  <2> QED
    BY <2>1, <2>2, <2>3, <2>4, <2>5
<1>18. CASE PublishLen
  <2>1. HostType'
    BY <1>18 DEF HostType, PublishLen, Assembly
  <2>2. AssemblyType'
    BY <1>18 DEF AssemblyType, AnyChannel, PublishLen, Assembly
  <2>3. SlotType'
    BY <1>18 DEF SlotType, TaskType, AnyChannel, PublishLen, Assembly, AssemblyType, Control, BufferHolds, Publishing
  <2>4. TaskType'
    BY <1>18 DEF TaskType, SlotType, AnyChannel, UsbPcs, FidoPcs, PublishLen, Assembly
  <2>5. Control'
    BY <1>18 DEF AssemblyType, SlotType, TaskType, PublishLen, Assembly,
        Control, ReceivedFits, BufferHolds, SlotCovered, OnlyCancelDuringAssembly,
        CancelClearsLen, PollHoldsSlot, Publishing, Polling
  <2> QED
    BY <2>1, <2>2, <2>3, <2>4, <2>5
<1>19. CASE PublishFlag
  <2>1. usbChannel \in Channels /\ ctapBuffer[1] \in Byte
    BY <1>19 DEF PublishFlag, Control, BufferHolds, Publishing, AssemblyType
  <2>2. ctapBuffer[1].req.txn \in Txns
    BY <2>1 DEF Byte, Requests
  <2>3. HostType'
    BY <1>19, <2>1, <2>2 DEF HostType, PublishFlag, Assembly
  <2>4. AssemblyType'
    BY <1>19 DEF AssemblyType, AnyChannel, PublishFlag, Assembly
  <2>5. SlotType'
    BY <1>19 DEF SlotType, TaskType, AnyChannel, PublishFlag, Assembly
  <2>6. TaskType'
    BY <1>19 DEF TaskType, SlotType, AnyChannel, UsbPcs, FidoPcs, PublishFlag, Assembly
  <2>7. Control'
    BY <1>19 DEF AssemblyType, SlotType, TaskType, PublishFlag, Assembly,
        Control, ReceivedFits, BufferHolds, SlotCovered, OnlyCancelDuringAssembly,
        CancelClearsLen, PollHoldsSlot, Publishing, Polling
  <2> QED
    BY <2>3, <2>4, <2>5, <2>6, <2>7
<1>20. CASE PollChannel
  <2>1. HostType'
    BY <1>20 DEF HostType, PollChannel
  <2>2. AssemblyType'
    BY <1>20 DEF AssemblyType, AnyChannel, PollChannel
  <2>3. SlotType'
    BY <1>20 DEF SlotType, TaskType, AnyChannel, PollChannel
  <2>4. TaskType'
    BY <1>20 DEF TaskType, SlotType, AnyChannel, UsbPcs, FidoPcs, PollChannel
  <2>5. Control'
    BY <1>20 DEF AssemblyType, SlotType, TaskType, PollChannel,
        Control, ReceivedFits, BufferHolds, SlotCovered, OnlyCancelDuringAssembly,
        CancelClearsLen, PollHoldsSlot, Publishing, Polling
  <2> QED
    BY <2>1, <2>2, <2>3, <2>4, <2>5
<1>21. CASE PollCmd
  <2>1. HostType'
    BY <1>21 DEF HostType, PollCmd
  <2>2. AssemblyType'
    BY <1>21 DEF AssemblyType, AnyChannel, PollCmd
  <2>3. SlotType'
    BY <1>21 DEF SlotType, TaskType, AnyChannel, PollCmd
  <2>4. TaskType'
    BY <1>21 DEF TaskType, SlotType, AnyChannel, UsbPcs, FidoPcs, PollCmd
  <2>5. Control'
    BY <1>21 DEF AssemblyType, SlotType, TaskType, PollCmd,
        Control, ReceivedFits, BufferHolds, SlotCovered, OnlyCancelDuringAssembly,
        CancelClearsLen, PollHoldsSlot, Publishing, Polling
  <2> QED
    BY <2>1, <2>2, <2>3, <2>4, <2>5
<1>22. CASE PollLen
  <2>1. HostType'
    BY <1>22 DEF HostType, PollLen
  <2>2. AssemblyType'
    BY <1>22 DEF AssemblyType, AnyChannel, PollLen
  <2>3. SlotType'
    BY <1>22 DEF SlotType, TaskType, AnyChannel, PollLen
  <2>4. TaskType'
    BY <1>22 DEF TaskType, SlotType, AnyChannel, UsbPcs, FidoPcs, PollLen
  <2>5. Control'
    BY <1>22 DEF AssemblyType, SlotType, TaskType, PollLen,
        Control, ReceivedFits, BufferHolds, SlotCovered, OnlyCancelDuringAssembly,
        CancelClearsLen, PollHoldsSlot, Publishing, Polling
  <2> QED
    BY <2>1, <2>2, <2>3, <2>4, <2>5
<1>23. CASE PollNoMemory
  <2>1. HostType'
    BY <1>23 DEF HostType, PollNoMemory
  <2>2. AssemblyType'
    BY <1>23 DEF AssemblyType, AnyChannel, PollNoMemory
  <2>3. SlotType'
    BY <1>23 DEF SlotType, TaskType, AnyChannel, PollNoMemory
  <2>4. TaskType'
    BY <1>23 DEF TaskType, SlotType, AnyChannel, UsbPcs, FidoPcs, PollNoMemory
  <2>5. Control'
    BY <1>23 DEF AssemblyType, SlotType, TaskType, PollNoMemory,
        Control, ReceivedFits, BufferHolds, SlotCovered, OnlyCancelDuringAssembly,
        CancelClearsLen, PollHoldsSlot, Publishing, Polling
  <2> QED
    BY <2>1, <2>2, <2>3, <2>4, <2>5
<1>24. CASE PollCopy
  <2>1. HostType'
    BY <1>24 DEF HostType, PollCopy
  <2>2. AssemblyType'
    BY <1>24 DEF AssemblyType, AnyChannel, PollCopy
  <2>3. SlotType'
    BY <1>24 DEF SlotType, TaskType, AnyChannel, PollCopy
  <2>4. TaskType'
    BY <1>24 DEF TaskType, SlotType, AnyChannel, UsbPcs, FidoPcs, PollCopy, Control, PollHoldsSlot
  <2>5. Control'
    BY <1>24 DEF AssemblyType, SlotType, TaskType, PollCopy,
        Control, ReceivedFits, BufferHolds, SlotCovered, OnlyCancelDuringAssembly,
        CancelClearsLen, PollHoldsSlot, Publishing, Polling
  <2> QED
    BY <2>1, <2>2, <2>3, <2>4, <2>5
<1>25. CASE PollClear
  <2>1. HostType'
    BY <1>25 DEF HostType, PollClear
  <2>2. AssemblyType'
    BY <1>25 DEF AssemblyType, AnyChannel, PollClear
  <2>3. SlotType'
    BY <1>25 DEF SlotType, TaskType, AnyChannel, PollClear
  <2>4. TaskType'
    BY <1>25 DEF TaskType, SlotType, AnyChannel, UsbPcs, FidoPcs, PollClear
  <2>5. Control'
    BY <1>25 DEF AssemblyType, SlotType, TaskType, PollClear,
        Control, ReceivedFits, BufferHolds, SlotCovered, OnlyCancelDuringAssembly,
        CancelClearsLen, PollHoldsSlot, Publishing, Polling
  <2> QED
    BY <2>1, <2>2, <2>3, <2>4, <2>5
<1>26. CASE ProcessNow
  <2>1. HostType'
    BY <1>26, AnsweredType DEF HostType, ProcessNow
  <2>2. AssemblyType'
    BY <1>26 DEF AssemblyType, AnyChannel, ProcessNow
  <2>3. SlotType'
    BY <1>26 DEF SlotType, TaskType, AnyChannel, ProcessNow
  <2>4. TaskType'
    BY <1>26 DEF TaskType, SlotType, AnyChannel, UsbPcs, FidoPcs, ProcessNow
  <2>5. Control'
    BY <1>26 DEF AssemblyType, SlotType, TaskType, ProcessNow,
        Control, ReceivedFits, BufferHolds, SlotCovered, OnlyCancelDuringAssembly,
        CancelClearsLen, PollHoldsSlot, Publishing, Polling
  <2> QED
    BY <2>1, <2>2, <2>3, <2>4, <2>5
<1>27. CASE ProcessWaits
  <2>1. HostType'
    BY <1>27, AnsweredType DEF HostType, ProcessWaits
  <2>2. AssemblyType'
    BY <1>27 DEF AssemblyType, AnyChannel, ProcessWaits
  <2>3. SlotType'
    BY <1>27 DEF SlotType, TaskType, AnyChannel, ProcessWaits
  <2>4. TaskType'
    BY <1>27 DEF TaskType, SlotType, AnyChannel, UsbPcs, FidoPcs, ProcessWaits
  <2>5. Control'
    BY <1>27 DEF AssemblyType, SlotType, TaskType, ProcessWaits,
        Control, ReceivedFits, BufferHolds, SlotCovered, OnlyCancelDuringAssembly,
        CancelClearsLen, PollHoldsSlot, Publishing, Polling
  <2> QED
    BY <2>1, <2>2, <2>3, <2>4, <2>5
<1>28. CASE UvSeesCancel
  <2>1. HostType'
    BY <1>28, AnsweredType DEF HostType, UvSeesCancel
  <2>2. AssemblyType'
    BY <1>28 DEF AssemblyType, AnyChannel, UvSeesCancel
  <2>3. SlotType'
    BY <1>28 DEF SlotType, TaskType, AnyChannel, UvSeesCancel
  <2>4. TaskType'
    BY <1>28 DEF TaskType, SlotType, AnyChannel, UsbPcs, FidoPcs, UvSeesCancel
  <2>5. Control'
    BY <1>28 DEF AssemblyType, SlotType, TaskType, UvSeesCancel,
        Control, ReceivedFits, BufferHolds, SlotCovered, OnlyCancelDuringAssembly,
        CancelClearsLen, PollHoldsSlot, Publishing, Polling
  <2> QED
    BY <2>1, <2>2, <2>3, <2>4, <2>5
<1>29. CASE UvCancelled
  <2>1. HostType'
    BY <1>29, AnsweredType DEF HostType, UvCancelled
  <2>2. AssemblyType'
    BY <1>29 DEF AssemblyType, AnyChannel, UvCancelled
  <2>3. SlotType'
    BY <1>29 DEF SlotType, TaskType, AnyChannel, UvCancelled
  <2>4. TaskType'
    BY <1>29 DEF TaskType, SlotType, AnyChannel, UsbPcs, FidoPcs, UvCancelled
  <2>5. Control'
    BY <1>29 DEF AssemblyType, SlotType, TaskType, UvCancelled,
        Control, ReceivedFits, BufferHolds, SlotCovered, OnlyCancelDuringAssembly,
        CancelClearsLen, PollHoldsSlot, Publishing, Polling
  <2> QED
    BY <2>1, <2>2, <2>3, <2>4, <2>5
<1>30. CASE UvEnds
  <2>1. HostType'
    BY <1>30, AnsweredType DEF HostType, UvEnds
  <2>2. AssemblyType'
    BY <1>30 DEF AssemblyType, AnyChannel, UvEnds
  <2>3. SlotType'
    BY <1>30 DEF SlotType, TaskType, AnyChannel, UvEnds
  <2>4. TaskType'
    BY <1>30 DEF TaskType, SlotType, AnyChannel, UsbPcs, FidoPcs, UvEnds
  <2>5. Control'
    BY <1>30 DEF AssemblyType, SlotType, TaskType, UvEnds,
        Control, ReceivedFits, BufferHolds, SlotCovered, OnlyCancelDuringAssembly,
        CancelClearsLen, PollHoldsSlot, Publishing, Polling
  <2> QED
    BY <2>1, <2>2, <2>3, <2>4, <2>5
<1>31. CASE UNCHANGED vars
  BY <1>31
  DEF vars, HostType, AssemblyType, SlotType, TaskType, Control, ReceivedFits, BufferHolds, SlotCovered, OnlyCancelDuringAssembly, CancelClearsLen, PollHoldsSlot, Publishing, Polling
<1> QED
  BY <1>1, <1>2, <1>3, <1>4, <1>5, <1>6, <1>7, <1>8, <1>9, <1>10, <1>11, <1>12, <1>13, <1>14, <1>15, <1>16, <1>17, <1>18, <1>19, <1>20, <1>21, <1>22, <1>23, <1>24, <1>25, <1>26, <1>27, <1>28, <1>29, <1>30, <1>31
  DEF Next, UsbReceives, UsbPublishes, Fido

\* The four flags stay Boolean (a step of its own, for a prover of its own).
LEMMA StepFlags == FlagType /\ [Next]_vars => FlagType'
<1> SUFFICES ASSUME FlagType, [Next]_vars PROVE FlagType'
  OBVIOUS
<1> USE DEF FlagType, slotVars, asmVars, histVars
<1>1. CASE UsbReceives
  <2>1. ASSUME NEW n \in Lens, InitBuffer(n) PROVE ctapBufferNull' \in BOOLEAN
    BY <2>1, Zenon DEF InitBuffer
  <2>2. ASSUME NEW c \in Channels, NEW cmd \in Cmds, NEW n \in Lens,
               InitNoMemory(c, cmd, n) \/ InitShort(c, cmd, n) \/ InitAccepted(c, cmd, n)
        PROVE  FlagType'
    BY <2>1, <2>2, Zenon DEF InitNoMemory, InitShort, InitAccepted
  <2>3. ASSUME NEW c \in Channels, NEW cmd \in Cmds, NEW n \in Lens,
               InitRejected(c, cmd, n) \/ InitTooLong(c, cmd, n)
        PROVE  FlagType'
    BY <2>3, Zenon DEF InitRejected, InitTooLong
  <2>4. ASSUME NEW c \in Channels, RecvCancel(c) \/ ContIgnored(c) PROVE FlagType'
    BY <2>4, Zenon DEF RecvCancel, ContIgnored
  <2>5. ASSUME NEW c \in Channels, NEW s \in 0..MaxSeqNo, NEW short \in BOOLEAN,
               ContBadSeq(c, s) \/ ContRefused(c, s, short) \/ ContAppended(c, s)
        PROVE  FlagType'
    BY <2>5, Zenon DEF ContBadSeq, ContRefused, ContAppended
  <2> QED
    BY <1>1, <2>2, <2>3, <2>4, <2>5 DEF UsbReceives
<1>2. CASE PublishChannel
  <2>1. pendingDataNull' \in BOOLEAN
    BY <1>2, Zenon DEF PublishChannel
  <2> QED
    BY <1>2, <2>1, Zenon DEF PublishChannel
<1>3. CASE UsbPublishes
  BY <1>2, <1>3, Zenon
  DEF UsbPublishes, CancelChannel, CancelCmd, CancelLen, CancelFlag, PublishCmd,
      PublishData, PublishLen, PublishFlag
<1>4. CASE Fido
  BY <1>4, Zenon
  DEF Fido, PollChannel, PollCmd, PollLen, PollNoMemory, PollCopy, PollClear,
      ProcessNow, ProcessWaits, UvSeesCancel, UvCancelled, UvEnds
<1>5. CASE UNCHANGED vars
  BY <1>5, Zenon DEF vars
<1> QED
  BY <1>1, <1>3, <1>4, <1>5 DEF Next

\* TypeOK: every field of the transport keeps its type and its range.
THEOREM TypeCorrect == Spec => []TypeOK
<1>1. Init => FlagType
  BY Zenon DEF Init, FlagType
<1>2. IInv /\ FlagType => TypeOK
  BY DEF IInv, TypeOK
<1> QED
  BY <1>1, <1>2, StepFlags, InitIInv, StepIInv, PTL DEF Spec

\* NoTornCopy: the two copies of the mailbox data never overlap, for any number
\* of channels, any CANCELs and any malloc failures.
THEOREM NoTornCopyHolds == Spec => []NoTornCopy
<1>1. IInv => NoTornCopy
  BY DEF IInv, Control, NoTornCopy, PollHoldsSlot, BufferHolds, Publishing
<1> QED
  BY <1>1, InitIInv, StepIInv, PTL DEF Spec

\* The assembly buffer: each packet, and each step of publishing.
LEMMA StepAssemblySized ==
  IInv /\ AssemblySized /\ MailboxSized /\ [Next]_vars => AssemblySized'
<1> SUFFICES ASSUME IInv, AssemblySized, MailboxSized, [Next]_vars PROVE AssemblySized'
  OBVIOUS
<1> USE Sizes DEF IInv, AssemblySized, Publishing, AssemblyType
<1>1. ASSUME NEW c \in Channels, RecvCancel(c) \/ ContIgnored(c) PROVE AssemblySized'
  BY <1>1 DEF RecvCancel, ContIgnored, Bases, Assembly, usbVars
<1>2. ASSUME NEW c \in Channels, NEW cmd \in Cmds, NEW n \in Lens, InitRejected(c, cmd, n)
      PROVE  AssemblySized'
  BY <1>2 DEF InitRejected, HostStarts, Bases, Assembly, usbVars
<1>3. ASSUME NEW c \in Channels, NEW cmd \in Cmds, NEW n \in Lens,
             InitTooLong(c, cmd, n) \/ InitNoMemory(c, cmd, n) \/ InitShort(c, cmd, n)
      PROVE  AssemblySized'
  <2>1. usbPc = "idle" /\ usbPc' = usbPc
    BY <1>3 DEF InitTooLong, InitNoMemory, InitShort, HostStarts, usbVars
  <2>2. ctapExpectedLen' = 0 \/ ctapBufferNull'
    BY <1>3 DEF InitTooLong, InitNoMemory, InitShort, Assembly
  <2> QED
    BY <2>1, <2>2
<1>4. ASSUME NEW c \in Channels, NEW cmd \in Cmds, NEW n \in Lens, InitAccepted(c, cmd, n)
      PROVE  AssemblySized'
  <2>1. n \in Nat /\ ~TooLong(n) /\ InitBuffer(n)
    BY <1>4 DEF InitAccepted
  <2>2. ctapBufferCapacity' \in 0..MaxMsg /\ n <= ctapBufferCapacity'
    BY <2>1, InitBufferFits
  <2>3. Chunk(n, InitData) \in Nat /\ Chunk(n, InitData) <= n /\ (n > 0 => Chunk(n, InitData) > 0)
    BY <2>1, HidAssumption DEF Chunk
  <2>4. ctapExpectedLen' = n
    BY <1>4 DEF InitAccepted, StartAssembly, Assembly
  <2>5. usbPc' = IF Chunk(n, InitData) > 0 /\ ctapBufferNull' THEN "panic"
                 ELSE IF n > 0 /\ Chunk(n, InitData) >= n THEN "pubChannel" ELSE "idle"
    BY <1>4, <2>2, <2>3 DEF InitAccepted
  <2> QED
    BY <2>1, <2>2, <2>3, <2>4, <2>5
<1>5. ASSUME NEW c \in Channels, NEW s \in 0..MaxSeqNo, NEW short \in BOOLEAN,
             ContBadSeq(c, s) \/ ContRefused(c, s, short)
      PROVE  AssemblySized'
  BY <1>5 DEF ContBadSeq, ContRefused, Assembly, usbVars
<1>6. ASSUME NEW c \in Channels, NEW s \in 0..MaxSeqNo, ContAppended(c, s)
      PROVE  AssemblySized'
  BY <1>6 DEF ContAppended, Assembly
<1>7. CASE CancelChannel \/ CancelCmd \/ CancelLen \/ CancelFlag
  BY <1>7 DEF CancelChannel, CancelCmd, CancelLen, CancelFlag, asmVars
<1>8. CASE PublishChannel \/ PublishCmd \/ PublishLen \/ PublishFlag
  BY <1>8 DEF PublishChannel, PublishCmd, PublishLen, PublishFlag, Assembly, asmVars
<1>9. CASE PublishData
  BY <1>9 DEF PublishData, MailboxSized, Control, BufferHolds, asmVars
<1>10. CASE Fido \/ UNCHANGED vars
  <2>1. UNCHANGED <<asmVars, usbVars>>
    BY <1>10, Zenon
    DEF Fido, PollChannel, PollCmd, PollLen, PollNoMemory, PollCopy, PollClear, ProcessNow,
        ProcessWaits, UvSeesCancel, UvCancelled, UvEnds, vars
  <2> QED
    BY <2>1 DEF asmVars, usbVars
<1> QED
  BY <1>1, <1>2, <1>3, <1>4, <1>5, <1>6, <1>7, <1>8, <1>9, <1>10
  DEF Next, UsbReceives, UsbPublishes

\* The mailbox: while a message is assembled only a CANCEL, without data, can be
\* in it, so an allocation that fails takes nothing away from poll().
LEMMA StepMailboxSized ==
  IInv /\ MailboxSized /\ [Next]_vars => MailboxSized'
<1> SUFFICES ASSUME IInv, MailboxSized, [Next]_vars PROVE MailboxSized'
  OBVIOUS
<1> USE Sizes DEF IInv, MailboxSized, Publishing, SlotType
<1>1. ASSUME NEW c \in Channels, RecvCancel(c) \/ ContIgnored(c) PROVE MailboxSized'
  BY <1>1 DEF RecvCancel, ContIgnored, slotVars, usbVars, pollVars
<1>2. ASSUME NEW c \in Channels, NEW cmd \in Cmds, NEW n \in Lens,
             \/ InitRejected(c, cmd, n) \/ InitTooLong(c, cmd, n)
             \/ InitNoMemory(c, cmd, n) \/ InitShort(c, cmd, n) \/ InitAccepted(c, cmd, n)
      PROVE  MailboxSized'
  <2>1. UNCHANGED <<slotVars, pollVars>>
    BY <1>2, Zenon DEF InitRejected, InitTooLong, InitNoMemory, InitShort, InitAccepted
  <2>2. usbPc' \in {"idle", "pubChannel", "panic"}
    BY <1>2
    DEF InitRejected, InitTooLong, InitNoMemory, InitShort, InitAccepted, HostStarts, usbVars
  <2> QED
    BY <2>1, <2>2 DEF slotVars, pollVars
<1>3. ASSUME NEW c \in Channels, NEW s \in 0..MaxSeqNo, NEW short \in BOOLEAN,
             ContBadSeq(c, s) \/ ContRefused(c, s, short) \/ ContAppended(c, s)
      PROVE  MailboxSized'
  BY <1>3 DEF ContBadSeq, ContRefused, ContAppended, ContPacket, slotVars, usbVars, pollVars
<1>4. CASE CancelChannel \/ CancelCmd \/ CancelLen
  BY <1>4 DEF CancelChannel, CancelCmd, CancelLen, pollVars
<1>5. CASE CancelFlag
  BY <1>5 DEF CancelFlag, Control, CancelClearsLen, pollVars
<1>6. CASE PublishChannel
  <2>1. /\ ctapExpectedLen > 0 /\ usbPc = "pubChannel" /\ fidoPc # "copy"
        /\ hasPendingCommand => pendingLen = 0
    BY <1>6 DEF PublishChannel, Control, BufferHolds, OnlyCancelDuringAssembly, PollHoldsSlot
  <2>2. /\ pendingDataCapacity' \in Nat /\ pendingDataCapacity <= pendingDataCapacity'
        /\ ctapExpectedLen <= pendingDataCapacity'
    BY <1>6 DEF PublishChannel, NeedsGrowth, AssemblyType
  <2>3. pendingDataNull' \/ (ctapExpectedLen' = ctapExpectedLen /\ usbPc' = "pubCmd")
    BY <1>6 DEF PublishChannel
  <2>4. pendingDataNull' => usbPc' = "idle"
    BY <1>6 DEF PublishChannel
  <2>5. UNCHANGED <<pendingLen, hasPendingCommand, fidoPc, pollLen>>
    BY <1>6 DEF PublishChannel, pollVars
  <2> QED
    BY <2>1, <2>2, <2>3, <2>4, <2>5
<1>7. CASE PublishCmd \/ PublishData \/ PublishLen
  BY <1>7 DEF PublishCmd, PublishData, PublishLen, Control, BufferHolds, asmVars, pollVars
<1>8. CASE PublishFlag
  BY <1>8 DEF PublishFlag, pollVars
<1>9. CASE PollLen
  BY <1>9 DEF PollLen, Control, PollHoldsSlot, Polling, asmVars, slotVars, usbVars
<1>10. CASE PollCopy
  BY <1>10 DEF PollCopy, TaskType, asmVars, slotVars, usbVars
<1>11. CASE PollChannel \/ PollCmd \/ PollNoMemory \/ PollClear
  <2>1. CASE PollChannel
    BY <2>1 DEF PollChannel, asmVars, slotVars, usbVars
  <2>2. CASE PollCmd
    BY <2>2 DEF PollCmd, asmVars, slotVars, usbVars
  <2>3. CASE PollNoMemory
    BY <2>3 DEF PollNoMemory, asmVars, usbVars
  <2>4. CASE PollClear
    BY <2>4 DEF PollClear, asmVars, usbVars
  <2> QED
    BY <1>11, <2>1, <2>2, <2>3, <2>4
<1>12. CASE ProcessNow \/ ProcessWaits \/ UvSeesCancel \/ UvCancelled \/ UvEnds
  BY <1>12
  DEF ProcessNow, ProcessWaits, UvSeesCancel, UvCancelled, UvEnds, asmVars, slotVars, usbVars
<1>13. CASE UNCHANGED vars
  BY <1>13 DEF asmVars, slotVars, usbVars, pollVars, vars
<1> QED
  BY <1>1, <1>2, <1>3, <1>4, <1>5, <1>6, <1>7, <1>8, <1>9, <1>10, <1>11, <1>12, <1>13
  DEF Next, UsbReceives, UsbPublishes, Fido

\* MemorySafe: no memcpy leaves its buffer, and only _onOutput can meet a null
\* one, for any packets, any packet sizes and any outcomes of malloc.
THEOREM MemorySafeHolds == Spec => []MemorySafe
<1>1. Init => AssemblySized /\ MailboxSized
  BY DEF Init, AssemblySized, MailboxSized, Publishing
<1>2. AssemblySized /\ MailboxSized => MemorySafe
  BY DEF AssemblySized, MailboxSized, MemorySafe
<1> QED
  BY <1>1, <1>2, InitIInv, StepIInv, StepAssemblySized, StepMailboxSized, PTL DEF Spec

-----------------------------------------------------------------------------
(* RequestIntact.                                                          *)

Cancelling   == {"cancelChannel", "cancelCmd", "cancelLen", "cancelFlag"}
Working      == {"process", "uv", "uvCancel"}
InAssembly   == ctapExpectedLen > 0 /\ ~ctapBufferNull

\* The bytes of one channel, in order and without a gap.
InOrder(bytes) ==
  \A i \in 1..Len(bytes) : bytes[i].off = i /\ bytes[i].chan = bytes[1].chan

\* The sequence number awaited and the length received, also while a CANCEL is
\* written between two packets; the buffer has what was received, in order.
AssemblyOrdered ==
  InAssembly =>
    /\ \A i \in 1..Len(ctapBuffer) :
         ctapBuffer[i].off = i /\ ctapBuffer[i].chan = ctapCurrentChannel
    /\ usbPc \notin Publishing =>
         /\ ctapExpectedSeq <= MaxSeqNo
         /\ ctapReceivedLen = InitData + ctapExpectedSeq * ContData
         /\ ctapReceivedLen < ctapExpectedLen

\* What is copied into the mailbox, and out of it, stays in order, and poll()
\* goes on with as many bytes as it has read the length of.
CopiesOrdered ==
  /\ InOrder(pendingData)
  /\ InOrder(pollData)
  /\ Dispatching => Len(pollData) = pollLen

\* The bytes are one whole request of a channel, its command and its length.
IsWhole(chan, cmd, len, data) ==
  /\ len > 0
  /\ data = Payload(chan, data[1].req, 0, len)
  /\ data[1].req.cmd = cmd
  /\ data[1].req.len = len

\* The request a message belongs to.
RequestOf(chan, data) == <<chan, data[1].req.txn>>

\* Without a CANCEL, the mailbox is empty while a message is assembled.
OneAtATime ==
  ~disturbed =>
    /\ usbPc \notin Cancelling
    /\ hasPendingCommand => ctapExpectedLen = 0

\* What is in assembly is the request its host started last: a packet of a newer
\* one has begun a new assembly.  It was never published.
AssemblyCurrent ==
  ~disturbed /\ InAssembly =>
    /\ ctapCurrentChannel \in Channels
    /\ ctapBuffer = Payload(ctapCurrentChannel, host[ctapCurrentChannel], 0, Len(ctapBuffer))
    /\ host[ctapCurrentChannel].cmd = ctapCurrentCmd
    /\ host[ctapCurrentChannel].len = ctapExpectedLen
    /\ <<ctapCurrentChannel, host[ctapCurrentChannel].txn>> \notin completed
    /\ usbPc \in Publishing => usbChannel = ctapCurrentChannel

\* The fields of the mailbox, as _onOutput writes one after the other.
PublishedSoFar ==
  ~disturbed =>
    /\ usbPc \in Publishing \ {"pubChannel"} => pendingChannel = usbChannel
    /\ usbPc \in {"pubData", "pubLen", "pubFlag"} => pendingCmd = ctapCurrentCmd
    /\ usbPc \in {"pubLen", "pubFlag"} => pendingData = ctapBuffer

\* A request in the mailbox is whole, and published but not answered.
SlotWhole ==
  ~disturbed /\ hasPendingCommand =>
    /\ IsWhole(pendingChannel, pendingCmd, pendingLen, pendingData)
    /\ RequestOf(pendingChannel, pendingData) \in completed \ answered

\* The fields poll() has read are those of the mailbox still.
ReadSoFar ==
  ~disturbed =>
    /\ fidoPc \in Polling => pollChannel = pendingChannel
    /\ fidoPc \in {"readLen", "copy", "clear"} => pollCmd = pendingCmd
    /\ fidoPc \in {"copy", "clear"} => pollLen = pendingLen
    /\ fidoPc = "clear" => pollData = pendingData

\* The request being worked on is whole, not answered, and not the one that waits.
WorkWhole ==
  ~disturbed /\ fidoPc \in Working =>
    /\ IsWhole(pollChannel, pollCmd, pollLen, pollData)
    /\ RequestOf(pollChannel, pollData) \in completed \ answered
    /\ hasPendingCommand =>
         RequestOf(pollChannel, pollData) # RequestOf(pendingChannel, pendingData)

\* Only requests that were published are answered, and none is published before
\* its host started it.
HistoryHolds ==
  ~disturbed =>
    /\ answered \subseteq completed
    /\ \A c \in Channels, t \in Txns : <<c, t>> \in completed => t <= host[c].txn

Undisturbed ==
  /\ OneAtATime /\ AssemblyCurrent /\ PublishedSoFar /\ SlotWhole
  /\ ReadSoFar /\ WorkWhole /\ HistoryHolds

\* The bytes of a payload.
LEMMA PayloadBytes ==
  ASSUME NEW c, NEW r, NEW from \in Nat, NEW n \in Nat
  PROVE  /\ Len(Payload(c, r, from, n)) = n
         /\ \A i \in 1..n : /\ Payload(c, r, from, n)[i].chan = c
                            /\ Payload(c, r, from, n)[i].req = r
                            /\ Payload(c, r, from, n)[i].off = from + i
BY DEF Payload

\* The bytes of two sequences after each other.
LEMMA AppendedBytes ==
  ASSUME NEW s \in Seq(Byte), NEW t \in Seq(Byte), NEW i \in 1..Len(s \o t)
  PROVE  /\ Len(s \o t) = Len(s) + Len(t)
         /\ i <= Len(s) => i \in 1..Len(s) /\ (s \o t)[i] = s[i]
         /\ i > Len(s) => i - Len(s) \in 1..Len(t) /\ (s \o t)[i] = t[i - Len(s)]
OBVIOUS

\* The bytes of a beginning.
LEMMA Beginning ==
  ASSUME NEW s \in Seq(Byte), NEW k \in 0..Len(s)
  PROVE  /\ Len(SubSeq(s, 1, k)) = k
         /\ \A i \in 1..k : SubSeq(s, 1, k)[i] = s[i]
         /\ k = Len(s) => SubSeq(s, 1, k) = s
OBVIOUS

\* A beginning of bytes in order is in order.
LEMMA BeginningOrdered ==
  ASSUME NEW s \in Seq(Byte), NEW k \in 0..Len(s), InOrder(s)
  PROVE  InOrder(SubSeq(s, 1, k))
<1>1. Len(s) \in Nat
  OBVIOUS
<1>2. ASSUME NEW i \in 1..k PROVE i \in 1..Len(s) /\ 1 \in 1..k
  BY <1>1
<1> QED
  BY <1>2, Beginning DEF InOrder

\* The sequence number after a packet that does not complete its message: the
\* largest message is one byte count that MaxSeqNo numbers are enough for.
LEMMA NextSeqNo ==
  ASSUME NEW seq \in 0..MaxSeqNo, NEW rec \in Nat, rec = InitData + seq * ContData,
         rec + ContData < MaxMsg
  PROVE  /\ seq + 1 <= MaxSeqNo
         /\ (seq + 1) % 256 = seq + 1
         /\ rec + ContData = InitData + (seq + 1) * ContData
<1>1. InitData \in Nat /\ ContData \in Nat /\ ContData > 0 /\ MaxSeqNo \in 0..127
      /\ MaxMsg = InitData + (MaxSeqNo + 1) * ContData
  BY HidAssumption
<1>2. rec + ContData = InitData + (seq + 1) * ContData
  BY <1>1
<1>3. seq + 1 # MaxSeqNo + 1
  BY <1>1, <1>2
<1> QED
  BY <1>1, <1>2, <1>3

\* A packet changes neither the mailbox nor what poll() has read.
LEMMA ReceivingLeavesSlot ==
  ASSUME UsbReceives
  PROVE  UNCHANGED <<slotVars, pollVars, completed, answered>>
<1>1. ASSUME NEW c \in Channels, RecvCancel(c) \/ ContIgnored(c)
      PROVE  UNCHANGED <<slotVars, pollVars, completed, answered>>
  BY <1>1, Zenon DEF RecvCancel, ContIgnored, histVars
<1>2. ASSUME NEW c \in Channels, NEW cmd \in Cmds, NEW n \in Lens,
             InitRejected(c, cmd, n) \/ InitTooLong(c, cmd, n) \/ InitNoMemory(c, cmd, n)
      PROVE  UNCHANGED <<slotVars, pollVars, completed, answered>>
  BY <1>2, Zenon DEF InitRejected, InitTooLong, InitNoMemory, histVars
<1>3. ASSUME NEW c \in Channels, NEW cmd \in Cmds, NEW n \in Lens,
             InitShort(c, cmd, n) \/ InitAccepted(c, cmd, n)
      PROVE  UNCHANGED <<slotVars, pollVars, completed, answered>>
  BY <1>3, Zenon DEF InitShort, InitAccepted, histVars
<1>4. ASSUME NEW c \in Channels, NEW s \in 0..MaxSeqNo, NEW short \in BOOLEAN,
             ContBadSeq(c, s) \/ ContRefused(c, s, short) \/ ContAppended(c, s)
      PROVE  UNCHANGED <<slotVars, pollVars, completed, answered>>
  BY <1>4, Zenon DEF ContBadSeq, ContRefused, ContAppended, histVars
<1> QED
  BY <1>1, <1>2, <1>3, <1>4 DEF UsbReceives

\* The assembly: each packet, and each step of publishing.
LEMMA StepAssemblyOrdered ==
  IInv /\ AssemblySized /\ AssemblySized' /\ AssemblyOrdered /\ [Next]_vars => AssemblyOrdered'
<1> SUFFICES ASSUME IInv, AssemblySized, AssemblySized', AssemblyOrdered, [Next]_vars
             PROVE  AssemblyOrdered'
  OBVIOUS
<1> USE DEF AssemblyOrdered, InAssembly, Publishing
<1>1. ASSUME NEW c \in Channels, RecvCancel(c) \/ ContIgnored(c) PROVE AssemblyOrdered'
  <2>1. usbPc = "idle" /\ usbPc' \in {"idle", "cancelChannel"}
        /\ UNCHANGED <<ctapBuffer, ctapBufferNull, ctapCurrentChannel>>
        /\ \E b \in Bases : Assembly(b.exp, b.rec, b.seq)
    BY <1>1 DEF RecvCancel, ContIgnored, usbVars
  <2> QED
    BY <2>1 DEF Bases, Assembly
<1>2. ASSUME NEW c \in Channels, NEW cmd \in Cmds, NEW n \in Lens, InitRejected(c, cmd, n)
      PROVE  AssemblyOrdered'
  BY <1>2 DEF InitRejected, HostStarts, Bases, Assembly, usbVars
<1>3. ASSUME NEW c \in Channels, NEW cmd \in Cmds, NEW n \in Lens,
             InitTooLong(c, cmd, n) \/ InitNoMemory(c, cmd, n) \/ InitShort(c, cmd, n)
      PROVE  AssemblyOrdered'
  <2>1. ctapExpectedLen' = 0 \/ ctapBufferNull'
    BY <1>3 DEF InitTooLong, InitNoMemory, InitShort, Assembly
  <2> QED
    BY <2>1, Sizes
<1>4. ASSUME NEW c \in Channels, NEW cmd \in Cmds, NEW n \in Lens, InitAccepted(c, cmd, n)
      PROVE  AssemblyOrdered'
  <2>1. n \in Nat /\ InitData \in Nat /\ MaxSeqNo \in Nat /\ ContData \in Nat
    BY Sizes
  <2> DEFINE received == Chunk(n, InitData)
  <2>2. received \in Nat /\ (received < n => received = InitData) /\ (n > 0 => received > 0)
    BY <2>1, HidAssumption DEF Chunk
  <2>3. /\ ctapExpectedLen' = n /\ ctapReceivedLen' = received /\ ctapExpectedSeq' = 0
        /\ ctapCurrentChannel' = c /\ ctapBuffer' = Payload(c, host'[c], 0, received)
    BY <1>4 DEF InitAccepted, StartAssembly, Assembly
  <2>4. \A i \in 1..Len(ctapBuffer') :
           ctapBuffer'[i].off = i /\ ctapBuffer'[i].chan = ctapCurrentChannel'
    BY <2>2, <2>3, PayloadBytes
  <2>5. usbPc' \notin Publishing /\ ~ctapBufferNull' /\ n > 0 => received < n
    <3>1. usbPc' = IF received > 0 /\ (received > ctapBufferCapacity' \/ ctapBufferNull')
                   THEN "panic"
                   ELSE IF n > 0 /\ received >= n THEN "pubChannel" ELSE "idle"
      BY <1>4 DEF InitAccepted
    <3>2. usbPc' # "panic" \/ ctapBufferNull'
      BY DEF AssemblySized
    <3> QED
      BY <2>1, <2>2, <3>1, <3>2
  <2>6. InitData = InitData + 0 * ContData
    BY <2>1
  <2> HIDE DEF received
  <2> QED
    BY <2>1, <2>2, <2>3, <2>4, <2>5, <2>6
<1>5. ASSUME NEW c \in Channels, NEW s \in 0..MaxSeqNo, NEW short \in BOOLEAN,
             ContBadSeq(c, s) \/ ContRefused(c, s, short)
      PROVE  AssemblyOrdered'
  BY <1>5 DEF ContBadSeq, ContRefused, Assembly
<1>6. ASSUME NEW c \in Channels, NEW s \in 0..MaxSeqNo, ContAppended(c, s)
      PROVE  AssemblyOrdered'
  <2> SUFFICES ASSUME InAssembly' PROVE AssemblyOrdered'
    OBVIOUS
  <2>1. /\ usbPc = "idle" /\ InAssembly /\ c = ctapCurrentChannel /\ s = ctapExpectedSeq
        /\ ctapCurrentChannel' = c
        /\ ctapExpectedLen' = ctapExpectedLen
        /\ ctapReceivedLen' = ctapReceivedLen + ContChunk
        /\ ctapExpectedSeq' = (ctapExpectedSeq + 1) % 256
        /\ ctapBuffer' = ctapBuffer \o Payload(c, host[c], InitData + s * ContData, ContChunk)
        /\ usbPc' = IF ctapReceivedLen + ContChunk >= ctapExpectedLen THEN "pubChannel" ELSE "idle"
    BY <1>6 DEF ContAppended, ContPacket, SeqAwaited, Assembly
  <2>2. /\ ctapExpectedSeq \in 0..MaxSeqNo /\ ctapReceivedLen = InitData + ctapExpectedSeq * ContData
        /\ ctapReceivedLen \in Nat /\ ctapExpectedLen \in 0..MaxMsg
        /\ ctapReceivedLen < ctapExpectedLen /\ Len(ctapBuffer) = ctapReceivedLen
        /\ ctapBuffer \in Seq(Byte) /\ host[c] \in Requests
    BY <2>1, Sizes DEF IInv, AssemblyType, HostType, Control, BufferHolds
  <2>3. ContChunk \in Nat /\ (ctapReceivedLen + ContChunk < ctapExpectedLen => ContChunk = ContData)
    <3>1. MaxMsg \in Nat /\ ContData \in Nat
      BY Sizes
    <3> QED
      BY <2>2, <3>1 DEF ContChunk, Chunk
  <2> DEFINE new == Payload(c, host[c], ctapReceivedLen, ContChunk)
  <2>4. /\ new \in Seq(Byte) /\ Len(new) = ContChunk
        /\ \A i \in 1..ContChunk : new[i].off = ctapReceivedLen + i /\ new[i].chan = c
    <3>1. new \in Seq(Byte) /\ Len(new) = ContChunk
      BY <2>2, <2>3, PayloadType
    <3>2. \A i \in 1..ContChunk : new[i].off = ctapReceivedLen + i /\ new[i].chan = c
      BY <2>2, <2>3, PayloadBytes
    <3> QED
      BY <3>1, <3>2
  <2>5. ctapBuffer' = ctapBuffer \o new
    BY <2>1, <2>2
  <2> HIDE DEF new
  <2>6. ASSUME NEW i \in 1..Len(ctapBuffer')
        PROVE  ctapBuffer'[i].off = i /\ ctapBuffer'[i].chan = ctapCurrentChannel'
    <3>1. CASE i <= Len(ctapBuffer)
      BY <2>1, <2>2, <2>4, <2>5, <3>1, AppendedBytes
    <3>2. CASE i > Len(ctapBuffer)
      <4>1. i - Len(ctapBuffer) \in 1..ContChunk /\ ctapBuffer'[i] = new[i - Len(ctapBuffer)]
        BY <2>2, <2>4, <2>5, <3>2, AppendedBytes
      <4>2. ctapReceivedLen + (i - ctapReceivedLen) = i
        BY <2>2
      <4> QED
        BY <2>1, <2>2, <2>4, <4>1, <4>2
    <3> QED
      BY <2>2, <3>1, <3>2
  <2>7. usbPc' \notin Publishing =>
          /\ ctapExpectedSeq' <= MaxSeqNo
          /\ ctapReceivedLen' = InitData + ctapExpectedSeq' * ContData
          /\ ctapReceivedLen' < ctapExpectedLen'
    <3> SUFFICES ASSUME usbPc' \notin Publishing
                 PROVE  /\ ctapExpectedSeq' <= MaxSeqNo
                        /\ ctapReceivedLen' = InitData + ctapExpectedSeq' * ContData
                        /\ ctapReceivedLen' < ctapExpectedLen'
      OBVIOUS
    <3>1. ctapReceivedLen + ContChunk < ctapExpectedLen /\ ContChunk = ContData
      BY <2>1, <2>2, <2>3
    <3>2. ctapReceivedLen + ContData < MaxMsg
      BY <2>2, <2>3, <3>1, Sizes
    <3> QED
      BY <2>1, <2>2, <3>1, <3>2, NextSeqNo
  <2> QED
    BY <2>6, <2>7
<1>7. CASE CancelChannel \/ CancelCmd \/ CancelLen \/ CancelFlag
  BY <1>7 DEF CancelChannel, CancelCmd, CancelLen, CancelFlag, asmVars
<1>8. CASE PublishChannel
  BY <1>8 DEF PublishChannel, Assembly
<1>9. CASE PublishCmd \/ PublishLen
  BY <1>9 DEF PublishCmd, PublishLen, asmVars
<1>10. CASE PublishData
  <2>1. usbPc = "pubData" /\ usbPc' \in {"pubLen", "panic"} /\ UNCHANGED asmVars
    BY <1>10 DEF PublishData
  <2> QED
    BY <2>1 DEF asmVars, AssemblySized
<1>11. CASE PublishFlag
  BY <1>11 DEF PublishFlag, Assembly
<1>12. CASE Fido \/ UNCHANGED vars
  <2>1. UNCHANGED <<asmVars, usbVars>>
    BY <1>12, Zenon
    DEF Fido, PollChannel, PollCmd, PollLen, PollNoMemory, PollCopy, PollClear, ProcessNow,
        ProcessWaits, UvSeesCancel, UvCancelled, UvEnds, vars
  <2> QED
    BY <2>1 DEF asmVars, usbVars
<1> QED
  BY <1>1, <1>2, <1>3, <1>4, <1>5, <1>6, <1>7, <1>8, <1>9, <1>10, <1>11, <1>12
  DEF Next, UsbReceives, UsbPublishes

\* The copies: of the assembly into the mailbox, and of the mailbox by poll().
LEMMA StepCopiesOrdered ==
  IInv /\ AssemblySized /\ AssemblyOrdered /\ CopiesOrdered /\ [Next]_vars => CopiesOrdered'
<1> SUFFICES ASSUME IInv, AssemblySized, AssemblyOrdered, CopiesOrdered, [Next]_vars
             PROVE  CopiesOrdered'
  OBVIOUS
<1> USE DEF CopiesOrdered, Dispatching
<1>0. ASSUME UNCHANGED <<pendingData, pollData>> PROVE InOrder(pendingData)' /\ InOrder(pollData)'
  BY <1>0 DEF InOrder
<1>1. CASE UsbReceives \/ UNCHANGED vars
  <2>1. UNCHANGED <<slotVars, pollVars>>
    BY <1>1, ReceivingLeavesSlot DEF vars
  <2> QED
    BY <1>0, <2>1 DEF slotVars, pollVars
<1>2. CASE PublishData
  <2>1. /\ ctapBuffer \in Seq(Byte) /\ Len(ctapBuffer) = ctapExpectedLen
        /\ InAssembly
    BY <1>2 DEF PublishData, IInv, Control, BufferHolds, AssemblyType, AssemblySized,
                InAssembly, Publishing
  <2>2. InOrder(ctapBuffer)
    BY <2>1 DEF AssemblyOrdered, InOrder
  <2>3. pendingData' \in {pendingData, SubSeq(ctapBuffer, 1, ctapExpectedLen)}
        /\ UNCHANGED pollVars
    BY <1>2 DEF PublishData
  <2>4. InOrder(SubSeq(ctapBuffer, 1, ctapExpectedLen))
    BY <2>1, <2>2, BeginningOrdered
  <2> QED
    BY <2>3, <2>4 DEF pollVars, InOrder
<1>3. CASE CancelChannel \/ CancelCmd \/ CancelLen \/ CancelFlag
           \/ PublishChannel \/ PublishCmd \/ PublishLen \/ PublishFlag
  <2>1. UNCHANGED <<pendingData, pollVars>>
    BY <1>3, Zenon DEF CancelChannel, CancelCmd, CancelLen, CancelFlag, PublishChannel, PublishCmd,
                       PublishLen, PublishFlag
  <2> QED
    BY <1>0, <2>1 DEF pollVars
<1>4. CASE PollLen
  BY <1>4 DEF PollLen, InOrder, slotVars
<1>5. CASE PollCopy
  <2>1. /\ pendingData \in Seq(Byte) /\ pollLen \in 0..Len(pendingData)
    BY <1>5 DEF PollCopy, IInv, Control, PollHoldsSlot, SlotType, TaskType
  <2>2. /\ InOrder(SubSeq(pendingData, 1, pollLen))
        /\ Len(SubSeq(pendingData, 1, pollLen)) = pollLen
    BY <2>1, BeginningOrdered, Beginning
  <2>3. UNCHANGED <<pendingData, pollLen>>
        /\ \/ fidoPc' = "panic" /\ UNCHANGED pollData
           \/ pollData' = SubSeq(pendingData, 1, pollLen)
    BY <1>5 DEF PollCopy, slotVars
  <2> QED
    BY <2>2, <2>3 DEF InOrder
<1>6. CASE PollChannel \/ PollCmd \/ PollNoMemory \/ PollClear \/ ProcessNow \/ ProcessWaits
           \/ UvSeesCancel \/ UvCancelled \/ UvEnds
  <2>1. /\ UNCHANGED <<pendingData, pollLen, pollData>>
        /\ Dispatching' => Dispatching
    BY <1>6 DEF PollChannel, PollCmd, PollNoMemory, PollClear, ProcessNow, ProcessWaits,
                UvSeesCancel, UvCancelled, UvEnds, slotVars
  <2> QED
    BY <1>0, <2>1 DEF InOrder
<1> QED
  BY <1>1, <1>2, <1>3, <1>4, <1>5, <1>6 DEF Next, UsbPublishes, Fido

\* Two payloads of one request after each other are a payload.
LEMMA PayloadsAppended ==
  ASSUME NEW c \in Channels, NEW r \in Requests, NEW m \in Nat, NEW n \in Nat,
         NEW s, s = Payload(c, r, 0, m) \o Payload(c, r, m, n)
  PROVE  s = Payload(c, r, 0, Len(s))
<1> DEFINE a == Payload(c, r, 0, m)
           b == Payload(c, r, m, n)
           byte(i) == [chan |-> c, req |-> r, off |-> i]
<1>1. a \in Seq(Byte) /\ b \in Seq(Byte) /\ Len(a) = m /\ Len(b) = n
  BY PayloadType
<1>2. /\ \A i \in 1..m : a[i] = byte(i)
      /\ \A i \in 1..n : b[i] = byte(m + i)
  BY DEF Payload
<1> HIDE DEF a, b, byte
<1>3. s = a \o b
  BY DEF a, b
<1>4. s \in Seq(Byte) /\ Len(s) = m + n
  BY <1>1, <1>3, Appending
<1>5. ASSUME NEW i \in 1..Len(s) PROVE s[i] = byte(i)
  <2>1. CASE i <= m
    <3>0. i \in 1..m /\ i \in 1..Len(a \o b)
      BY <1>3, <1>4, <2>1
    <3>1. i \in 1..m /\ s[i] = a[i]
      BY <1>1, <1>3, <2>1, <3>0, AppendedBytes
    <3> QED
      BY <1>2, <3>1
  <2>2. CASE i > m
    <3>1. i - m \in 1..n /\ s[i] = b[i - m]
      BY <1>1, <1>3, <1>4, <2>2, AppendedBytes
    <3>2. m + (i - m) = i
      BY <1>4
    <3> QED
      BY <1>2, <3>1, <3>2
  <2> QED
    BY <1>4, <2>1, <2>2
<1>6. s = [i \in 1..Len(s) |-> byte(i)]
  <2>0. ASSUME NEW t \in Seq(Byte) PROVE t = [i \in 1..Len(t) |-> t[i]]
    OBVIOUS
  <2>1. s = [i \in 1..Len(s) |-> s[i]]
    BY <1>4, <2>0
  <2> QED
    BY <1>5, <2>1, Zenon
<1>7. Payload(c, r, 0, Len(s)) = [i \in 1..Len(s) |-> byte(i)]
  BY <1>4 DEF Payload, byte
<1> QED
  BY <1>6, <1>7

\* A host's next request has a new number; the other hosts' do not change.
LEMMA HostStartsNext ==
  ASSUME HostType, NEW c \in Channels, NEW cmd \in Cmds, NEW n \in Lens, HostStarts(c, cmd, n)
  PROVE  /\ host'[c].cmd = cmd /\ host'[c].len = n
         /\ host'[c].txn > host[c].txn
         /\ \A d \in Channels : host'[d].txn >= host[d].txn /\ host'[d].txn \in Nat
<1>1. host' = [host EXCEPT ![c] = [txn |-> host[c].txn + 1, cmd |-> cmd, len |-> n]]
  BY DEF HostStarts
<1>2. host \in [Channels -> Requests] /\ \A d \in Channels : host[d].txn \in Nat
  BY Sizes DEF HostType, Requests, Txns
<1> QED
  BY <1>1, <1>2

\* A whole message of a channel's request is found whole.
LEMMA PayloadIsWhole ==
  ASSUME NEW chan, NEW r, NEW len \in Nat, len > 0, r.len = len,
         NEW data, data = Payload(chan, r, 0, len)
  PROVE  IsWhole(chan, r.cmd, len, data) /\ RequestOf(chan, data) = <<chan, r.txn>>
<1>1. data[1].req = r
  BY PayloadBytes
<1> QED
  BY <1>1 DEF IsWhole, RequestOf

\* A packet that is no CANCEL leaves the mailbox, poll() and the history in order.
LEMMA ReceivingKeeps ==
  IInv /\ Undisturbed /\ UsbReceives /\ ~disturbed' =>
    OneAtATime' /\ PublishedSoFar' /\ SlotWhole' /\ ReadSoFar' /\ WorkWhole' /\ HistoryHolds'
<1> SUFFICES ASSUME IInv, Undisturbed, UsbReceives, ~disturbed'
             PROVE  OneAtATime' /\ PublishedSoFar' /\ SlotWhole' /\ ReadSoFar' /\ WorkWhole'
                    /\ HistoryHolds'
  OBVIOUS
<1>1. /\ ~disturbed /\ usbPc = "idle" /\ usbPc' \in {"idle", "pubChannel", "panic"}
      /\ hasPendingCommand => ctapExpectedLen' = 0
      /\ \A c \in Channels : host'[c].txn >= host[c].txn /\ host'[c].txn \in Nat
  <2> DEFINE Goal == /\ ~disturbed /\ usbPc = "idle" /\ usbPc' \in {"idle", "pubChannel", "panic"}
                     /\ hasPendingCommand => ctapExpectedLen' = 0
                     /\ \A c \in Channels : host'[c].txn >= host[c].txn /\ host'[c].txn \in Nat
  <2>0. /\ ~disturbed /\ hasPendingCommand => ctapExpectedLen = 0
        /\ \A c \in Channels : host[c].txn \in Nat
        /\ HostType
    BY Sizes DEF Undisturbed, OneAtATime, IInv, HostType, Requests, Txns
  <2>1. ASSUME NEW c \in Channels, RecvCancel(c) PROVE Goal
    BY <2>1, Zenon DEF RecvCancel
  <2>2. ASSUME NEW c \in Channels, ContIgnored(c) PROVE Goal
    BY <2>0, <2>2 DEF ContIgnored, Bases, Assembly, usbVars, histVars
  <2>3. ASSUME NEW c \in Channels, NEW cmd \in Cmds, NEW n \in Lens, InitRejected(c, cmd, n)
        PROVE  Goal
    <3>1. \A d \in Channels : host'[d].txn >= host[d].txn /\ host'[d].txn \in Nat
      BY <2>0, <2>3, HostStartsNext DEF InitRejected
    <3> QED
      BY <2>0, <2>3, <3>1 DEF InitRejected, HostStarts, Bases, Assembly, usbVars, histVars
  <2>4. ASSUME NEW c \in Channels, NEW cmd \in Cmds, NEW n \in Lens,
               \/ InitTooLong(c, cmd, n) \/ InitNoMemory(c, cmd, n) \/ InitShort(c, cmd, n)
               \/ InitAccepted(c, cmd, n)
        PROVE  Goal
    <3>1. HostStarts(c, cmd, n) /\ MailboxFree
      BY <2>4 DEF InitTooLong, InitNoMemory, InitShort, InitAccepted
    <3>2. \A d \in Channels : host'[d].txn >= host[d].txn /\ host'[d].txn \in Nat
      BY <2>0, <3>1, HostStartsNext
    <3>3. /\ usbPc = "idle" /\ ~hasPendingCommand
          /\ usbPc' \in {"idle", "pubChannel", "panic"} /\ disturbed' = disturbed
      BY <2>4, <3>1
      DEF InitTooLong, InitNoMemory, InitShort, InitAccepted, HostStarts, MailboxFree, usbVars, histVars
    <3> QED
      BY <3>2, <3>3
  <2>5. ASSUME NEW c \in Channels, NEW s \in 0..MaxSeqNo, NEW short \in BOOLEAN,
               ContBadSeq(c, s) \/ ContRefused(c, s, short) \/ ContAppended(c, s)
        PROVE  Goal
    BY <2>0, <2>5 DEF ContBadSeq, ContRefused, ContAppended, ContPacket, Assembly, usbVars, histVars
  <2> QED
    BY <2>1, <2>2, <2>3, <2>4, <2>5 DEF UsbReceives
<1>2. UNCHANGED <<slotVars, pollVars, completed, answered>>
  BY ReceivingLeavesSlot
<1>3. OneAtATime'
  BY <1>1, <1>2 DEF OneAtATime, Cancelling, slotVars
<1>4. PublishedSoFar'
  BY <1>1 DEF PublishedSoFar, Publishing
<1>5. SlotWhole' /\ ReadSoFar' /\ WorkWhole'
  BY <1>1, <1>2 DEF Undisturbed, SlotWhole, ReadSoFar, WorkWhole, IsWhole, RequestOf, Payload,
                    slotVars, pollVars
<1>6. HistoryHolds'
  <2>1. \A c \in Channels : host[c].txn \in Nat
    BY Sizes DEF IInv, HostType, Requests, Txns
  <2> QED
    BY <1>1, <1>2, <2>1, Sizes DEF Undisturbed, HistoryHolds, Txns
<1> QED
  BY <1>3, <1>4, <1>5, <1>6

\* What is in assembly stays its host's newest request.
LEMMA ReceivingKeepsCurrent ==
  ASSUME IInv, AssemblyOrdered, AssemblySized', Undisturbed, UsbReceives, ~disturbed'
  PROVE  AssemblyCurrent'
<1> USE DEF AssemblyCurrent, InAssembly
<1>0. completed' = completed
  BY ReceivingLeavesSlot
<1>1. ASSUME NEW c \in Channels, RecvCancel(c) PROVE FALSE
  BY <1>1, Zenon DEF RecvCancel
<1>2. ASSUME UNCHANGED <<host, ctapCurrentCmd, ctapCurrentChannel, ctapBuffer, ctapBufferNull>>,
             ctapExpectedLen' \in {0, ctapExpectedLen}, usbPc' = "idle", ~disturbed
      PROVE  AssemblyCurrent'
  BY <1>0, <1>2 DEF Undisturbed, Publishing, Payload
<1>3. ASSUME NEW c \in Channels, ContIgnored(c) PROVE AssemblyCurrent'
  BY <1>2, <1>3 DEF ContIgnored, Bases, Assembly, usbVars, histVars
<1>4. ASSUME NEW c \in Channels, NEW cmd \in Cmds, NEW n \in Lens, InitRejected(c, cmd, n)
      PROVE  AssemblyCurrent'
  BY <1>4 DEF InitRejected, MailboxFree, Undisturbed, OneAtATime, Bases, Assembly, histVars
<1>5. ASSUME NEW c \in Channels, NEW cmd \in Cmds, NEW n \in Lens,
             InitTooLong(c, cmd, n) \/ InitNoMemory(c, cmd, n) \/ InitShort(c, cmd, n)
      PROVE  AssemblyCurrent'
  <2>1. ctapExpectedLen' = 0 \/ ctapBufferNull'
    BY <1>5 DEF InitTooLong, InitNoMemory, InitShort, Assembly
  <2> QED
    BY <2>1
<1>6. ASSUME NEW c \in Channels, NEW cmd \in Cmds, NEW n \in Lens, InitAccepted(c, cmd, n)
      PROVE  AssemblyCurrent'
  <2> DEFINE received == Chunk(n, InitData)
  <2>1. n \in Nat /\ received \in Nat
    <3>1. n \in Nat /\ InitData \in Nat
      BY Sizes
    <3> QED
      BY <3>1, ChunkType
  <2>2. /\ ctapExpectedLen' = n /\ ctapCurrentChannel' = c /\ ctapCurrentCmd' = cmd
        /\ ctapBuffer' = Payload(c, host'[c], 0, received) /\ usbChannel' = c
        /\ HostStarts(c, cmd, n) /\ ~disturbed
    BY <1>6 DEF InitAccepted, StartAssembly, Assembly, histVars
  <2>3. Len(ctapBuffer') = received
    <3> HIDE DEF received
    <3> QED
      BY <2>1, <2>2 DEF Payload
  <2>4. host'[c].cmd = cmd /\ host'[c].len = n /\ host'[c].txn > host[c].txn
    BY <2>2, HostStartsNext DEF IInv
  <2>5. <<c, host'[c].txn>> \notin completed
    <3>1. host[c].txn \in Nat /\ host'[c].txn \in Nat
      BY <2>2, HostStartsType, Sizes DEF IInv, HostType, Requests, Txns
    <3>2. ASSUME <<c, host'[c].txn>> \in completed PROVE FALSE
      <4>1. host'[c].txn \in Txns
        BY <3>2 DEF IInv, HostType
      <4>2. host'[c].txn <= host[c].txn
        BY <2>2, <3>2, <4>1 DEF Undisturbed, HistoryHolds
      <4> QED
        BY <2>4, <3>1, <4>2
    <3> QED
      BY <3>2
  <2> HIDE DEF received
  <2> QED
    BY <1>0, <2>2, <2>3, <2>4, <2>5
<1>7. ASSUME NEW c \in Channels, NEW s \in 0..MaxSeqNo, NEW short \in BOOLEAN,
             ContBadSeq(c, s) \/ ContRefused(c, s, short)
      PROVE  AssemblyCurrent'
  BY <1>7 DEF ContBadSeq, ContRefused, Assembly
<1>8. ASSUME NEW c \in Channels, NEW s \in 0..MaxSeqNo, ContAppended(c, s)
      PROVE  AssemblyCurrent'
  <2> SUFFICES ASSUME ~ctapBufferNull', ctapExpectedLen' > 0 PROVE AssemblyCurrent'
    OBVIOUS
  <2>1. /\ usbPc = "idle" /\ InAssembly /\ c = ctapCurrentChannel /\ s = ctapExpectedSeq
        /\ UNCHANGED <<host, ctapCurrentCmd, ctapCurrentChannel, ctapExpectedLen, disturbed>>
        /\ usbChannel' = c
        /\ ctapBuffer' = ctapBuffer \o Payload(c, host[c], InitData + s * ContData, ContChunk)
    BY <1>8 DEF ContAppended, ContPacket, SeqAwaited, Assembly, histVars
  <2>2. /\ ctapReceivedLen = InitData + s * ContData
        /\ ctapReceivedLen \in Nat /\ ctapExpectedLen \in 0..MaxMsg
        /\ ctapReceivedLen < ctapExpectedLen /\ Len(ctapBuffer) = ctapReceivedLen
        /\ ctapBuffer \in Seq(Byte) /\ host[c] \in Requests
    BY <2>1, Sizes DEF IInv, AssemblyType, HostType, Control, BufferHolds, AssemblyOrdered, Publishing
  <2>3. ContChunk \in Nat
    <3>1. MaxMsg \in Nat /\ ContData \in Nat
      BY Sizes
    <3> QED
      BY <2>2, <3>1 DEF ContChunk, Chunk
  <2>4. ctapBuffer' = Payload(c, host[c], 0, Len(ctapBuffer'))
    <3>1. ctapBuffer = Payload(c, host[c], 0, ctapReceivedLen)
      BY <2>1, <2>2 DEF Undisturbed
    <3>2. ctapBuffer' = Payload(c, host[c], 0, ctapReceivedLen)
                          \o Payload(c, host[c], ctapReceivedLen, ContChunk)
      BY <2>1, <2>2, <3>1
    <3> QED
      BY <2>2, <2>3, <3>2, PayloadsAppended
  <2> QED
    BY <1>0, <2>1, <2>4 DEF Undisturbed
<1> QED
  BY <1>1, <1>3, <1>4, <1>5, <1>6, <1>7, <1>8 DEF UsbReceives

\* While a message is published the mailbox is empty and poll() does not read it.
LEMMA NobodyReads ==
  ASSUME IInv, AssemblySized, Undisturbed, ~disturbed, usbPc \in Publishing
  PROVE  /\ ~hasPendingCommand /\ fidoPc \notin Polling
         /\ InAssembly /\ ctapExpectedLen \in Nat /\ Len(ctapBuffer) = ctapExpectedLen
         /\ ctapBuffer \in Seq(Byte) /\ ctapCurrentChannel = usbChannel
<1>1. ctapExpectedLen \in Nat /\ ctapExpectedLen > 0 /\ Len(ctapBuffer) = ctapExpectedLen
      /\ ctapBuffer \in Seq(Byte) /\ ~ctapBufferNull
  BY Sizes DEF IInv, AssemblyType, Control, BufferHolds, AssemblySized
<1>2. ~hasPendingCommand
  BY <1>1 DEF Undisturbed, OneAtATime
<1>3. fidoPc \notin Polling
  BY <1>2 DEF IInv, Control, PollHoldsSlot
<1> QED
  BY <1>1, <1>2, <1>3 DEF InAssembly, Undisturbed, AssemblyCurrent

\* Each write of the mailbox up to the length.
LEMMA PublishingKeeps ==
  ASSUME IInv, AssemblySized, Undisturbed, ~disturbed',
         PublishChannel \/ PublishCmd \/ PublishData \/ PublishLen
  PROVE  Undisturbed'
<1>1. /\ ~disturbed /\ usbPc \in Publishing /\ usbPc' \notin Cancelling
      /\ UNCHANGED <<host, ctapCurrentCmd, ctapCurrentChannel, ctapBuffer, ctapBufferNull,
                     hasPendingCommand, usbChannel, pollVars, completed, answered>>
      /\ ctapExpectedLen' = 0 \/ ctapExpectedLen' = ctapExpectedLen
  BY DEF PublishChannel, PublishCmd, PublishData, PublishLen, Publishing, Cancelling, Assembly,
         asmVars, histVars
<1>2. /\ ~hasPendingCommand /\ fidoPc \notin Polling
      /\ InAssembly /\ ctapExpectedLen \in Nat /\ Len(ctapBuffer) = ctapExpectedLen
      /\ ctapBuffer \in Seq(Byte) /\ ctapCurrentChannel = usbChannel
  BY <1>1, NobodyReads
<1>3. OneAtATime' /\ SlotWhole'
  BY <1>1, <1>2 DEF OneAtATime, SlotWhole
<1>4. AssemblyCurrent'
  BY <1>1, <1>2 DEF Undisturbed, AssemblyCurrent, InAssembly, Payload
<1>5. PublishedSoFar'
  <2>1. SubSeq(ctapBuffer, 1, ctapExpectedLen) = ctapBuffer
    BY <1>2, Beginning
  <2>2. CASE PublishChannel
    BY <1>1, <2>2 DEF PublishChannel, PublishedSoFar, Publishing
  <2>3. CASE PublishCmd
    BY <1>1, <2>3 DEF PublishCmd, Undisturbed, PublishedSoFar, Publishing, asmVars
  <2>4. CASE PublishData
    BY <1>1, <2>1, <2>4 DEF PublishData, Undisturbed, PublishedSoFar, Publishing, asmVars
  <2>5. CASE PublishLen
    BY <1>1, <2>5 DEF PublishLen, Undisturbed, PublishedSoFar, Publishing, asmVars
  <2> QED
    BY <2>2, <2>3, <2>4, <2>5
<1>6. ReadSoFar'
  BY <1>1, <1>2 DEF ReadSoFar, Polling, pollVars
<1>7. WorkWhole'
  BY <1>1, <1>2 DEF Undisturbed, WorkWhole, IsWhole, RequestOf, Payload, pollVars
<1>8. HistoryHolds'
  BY <1>1 DEF Undisturbed, HistoryHolds
<1> QED
  BY <1>3, <1>4, <1>5, <1>6, <1>7, <1>8 DEF Undisturbed

\* The flag goes up over a whole request that was never published before.
LEMMA FlagKeeps ==
  ASSUME IInv, AssemblySized, Undisturbed, ~disturbed', PublishFlag
  PROVE  Undisturbed'
<1>1. /\ ~disturbed /\ usbPc = "pubFlag" /\ usbPc' = "idle" /\ hasPendingCommand'
      /\ ctapExpectedLen' = 0
      /\ completed' = completed \cup {<<usbChannel, ctapBuffer[1].req.txn>>}
      /\ UNCHANGED <<host, pendingChannel, pendingCmd, pendingData, pendingLen, pollVars, answered>>
  BY DEF PublishFlag, Assembly, asmVars
<1>2. /\ ~hasPendingCommand /\ fidoPc \notin Polling
      /\ InAssembly /\ ctapExpectedLen \in Nat /\ Len(ctapBuffer) = ctapExpectedLen
      /\ ctapBuffer \in Seq(Byte) /\ ctapCurrentChannel = usbChannel
  BY <1>1, NobodyReads DEF Publishing
<1> DEFINE r == host[usbChannel]
<1>3. /\ usbChannel \in Channels /\ r.cmd = ctapCurrentCmd /\ r.len = ctapExpectedLen
      /\ ctapBuffer = Payload(usbChannel, r, 0, ctapExpectedLen) /\ ctapExpectedLen > 0
      /\ <<usbChannel, r.txn>> \notin completed
  BY <1>1, <1>2 DEF Undisturbed, AssemblyCurrent, InAssembly
<1>4. /\ pendingChannel = usbChannel /\ pendingCmd = ctapCurrentCmd /\ pendingData = ctapBuffer
      /\ pendingLen = ctapExpectedLen
  BY <1>1 DEF Undisturbed, PublishedSoFar, Publishing, IInv, Control, SlotCovered
<1>5. IsWhole(usbChannel, r.cmd, ctapExpectedLen, ctapBuffer)
      /\ RequestOf(usbChannel, ctapBuffer) = <<usbChannel, r.txn>>
  <2> HIDE DEF r
  <2> QED
    BY <1>2, <1>3, PayloadIsWhole
<1>6. completed' = completed \cup {<<usbChannel, r.txn>>}
  BY <1>1, <1>5 DEF RequestOf
<1>7. <<usbChannel, r.txn>> \notin answered
  BY <1>1, <1>3 DEF Undisturbed, HistoryHolds
<1>8. /\ pendingChannel' = usbChannel /\ pendingCmd' = r.cmd
      /\ pendingLen' = ctapExpectedLen /\ pendingData' = ctapBuffer
  BY <1>1, <1>3, <1>4
<1>9. HistoryHolds'
  <2>1. r.txn <= host'[usbChannel].txn
    BY <1>1, <1>3, Sizes DEF IInv, HostType, Requests, Txns
  <2> HIDE DEF r
  <2> QED
    BY <1>1, <1>6, <2>1 DEF Undisturbed, HistoryHolds
<1> HIDE DEF r
<1>10. SlotWhole'
  <2>1. IsWhole(pendingChannel, pendingCmd, pendingLen, pendingData)'
    BY <1>5, <1>8, <1>3 DEF IsWhole
  <2>2. RequestOf(pendingChannel, pendingData)' = <<usbChannel, r.txn>>
    BY <1>5, <1>8 DEF RequestOf
  <2> QED
    BY <1>1, <1>6, <1>7, <2>1, <2>2 DEF SlotWhole
<1>11. OneAtATime' /\ AssemblyCurrent' /\ PublishedSoFar'
  BY <1>1 DEF OneAtATime, Cancelling, AssemblyCurrent, InAssembly, PublishedSoFar, Publishing
<1>12. ReadSoFar'
  BY <1>1, <1>2 DEF ReadSoFar, Polling, pollVars
<1>13. WorkWhole'
  <2> SUFFICES ASSUME fidoPc \in Working PROVE WorkWhole'
    BY <1>1 DEF WorkWhole, pollVars
  <2>1. /\ IsWhole(pollChannel, pollCmd, pollLen, pollData)
        /\ RequestOf(pollChannel, pollData) \in completed \ answered
    BY <1>1 DEF Undisturbed, WorkWhole
  <2>2. RequestOf(pollChannel, pollData) # <<usbChannel, r.txn>>
    BY <1>3, <2>1
  <2>3. RequestOf(pendingChannel, pendingData)' = <<usbChannel, r.txn>>
    BY <1>5, <1>8 DEF RequestOf
  <2>4. UNCHANGED <<pollChannel, pollCmd, pollLen, pollData, answered>>
    BY <1>1 DEF pollVars
  <2>5. IsWhole(pollChannel, pollCmd, pollLen, pollData)'
    BY <2>1, <2>4 DEF IsWhole, Payload
  <2>6. RequestOf(pollChannel, pollData)' = RequestOf(pollChannel, pollData)
    BY <2>4 DEF RequestOf
  <2> QED
    BY <1>6, <2>1, <2>2, <2>3, <2>4, <2>5, <2>6 DEF WorkWhole
<1> QED
  BY <1>9, <1>10, <1>11, <1>12, <1>13 DEF Undisturbed

\* The FIDO task touches neither the assembly nor the data of the mailbox.
LEMMA FidoLeaves ==
  ASSUME Fido, ~disturbed'
  PROVE  /\ ~disturbed
         /\ UNCHANGED <<host, asmVars, usbVars, pendingChannel, pendingCmd, pendingData, pendingLen,
                        completed>>
         /\ hasPendingCommand' => hasPendingCommand
         /\ answered' \in {answered, Answered}
<1> USE DEF slotVars, histVars
<1>1. CASE PollChannel
  BY <1>1 DEF PollChannel
<1>2. CASE PollCmd
  BY <1>2 DEF PollCmd
<1>3. CASE PollLen
  BY <1>3 DEF PollLen
<1>4. CASE PollNoMemory
  BY <1>4 DEF PollNoMemory
<1>5. CASE PollCopy
  BY <1>5 DEF PollCopy
<1>6. CASE PollClear
  BY <1>6 DEF PollClear
<1>7. CASE ProcessNow
  BY <1>7 DEF ProcessNow
<1>8. CASE ProcessWaits
  BY <1>8 DEF ProcessWaits
<1>9. CASE UvSeesCancel
  BY <1>9 DEF UvSeesCancel
<1>10. CASE UvCancelled
  BY <1>10 DEF UvCancelled
<1>11. CASE UvEnds
  BY <1>11 DEF UvEnds
<1> QED
  BY <1>1, <1>2, <1>3, <1>4, <1>5, <1>6, <1>7, <1>8, <1>9, <1>10, <1>11 DEF Fido

\* What the FIDO task does not touch stays as it must be.
LEMMA FidoKeepsAssembly ==
  ASSUME Undisturbed, Fido, ~disturbed'
  PROVE  OneAtATime' /\ AssemblyCurrent' /\ PublishedSoFar'
<1>1. /\ ~disturbed
      /\ UNCHANGED <<host, asmVars, usbVars, pendingChannel, pendingCmd, pendingData, pendingLen,
                     completed>>
      /\ hasPendingCommand' => hasPendingCommand
  BY FidoLeaves
<1>2. OneAtATime'
  BY <1>1 DEF Undisturbed, OneAtATime, asmVars, usbVars
<1>3. AssemblyCurrent'
  BY <1>1 DEF Undisturbed, AssemblyCurrent, InAssembly, Payload, asmVars, usbVars
<1>4. PublishedSoFar'
  BY <1>1 DEF Undisturbed, PublishedSoFar, asmVars, usbVars
<1> QED
  BY <1>2, <1>3, <1>4

\* poll() reads the mailbox field by field, and takes the request out of it.
LEMMA PollKeeps ==
  ASSUME IInv, MailboxSized, Undisturbed, ~disturbed',
         PollChannel \/ PollCmd \/ PollLen \/ PollCopy \/ PollClear
  PROVE  SlotWhole' /\ ReadSoFar' /\ WorkWhole' /\ HistoryHolds'
<1>1. /\ ~disturbed
      /\ UNCHANGED <<host, pendingChannel, pendingCmd, pendingData, pendingLen, completed>>
      /\ hasPendingCommand' => hasPendingCommand
  BY FidoLeaves DEF Fido
<1>2. answered' = answered /\ hasPendingCommand /\ fidoPc \notin Working
  BY DEF PollChannel, PollCmd, PollLen, PollCopy, PollClear, histVars, Working, Polling,
         IInv, Control, PollHoldsSlot
<1>3. SlotWhole'
  BY <1>1, <1>2 DEF Undisturbed, SlotWhole, IsWhole, RequestOf, Payload
<1>4. HistoryHolds'
  BY <1>1, <1>2 DEF Undisturbed, HistoryHolds
<1>5. pendingLen > 0 /\ pendingData \in Seq(Byte)
      /\ pendingLen \in Nat /\ Len(pendingData) = pendingLen
  <2>1. pendingLen > 0 /\ pendingLen \in Nat
        /\ pendingData = Payload(pendingChannel, pendingData[1].req, 0, pendingLen)
    BY <1>1, <1>2, Sizes DEF Undisturbed, SlotWhole, IsWhole, IInv, SlotType
  <2>2. Len(pendingData) = pendingLen
    BY <2>1, PayloadBytes
  <2> QED
    BY <2>1, <2>2 DEF IInv, SlotType
<1>6. CASE PollChannel
  BY <1>1, <1>3, <1>4, <1>6 DEF PollChannel, ReadSoFar, WorkWhole, Polling, Working
<1>7. CASE PollCmd
  BY <1>1, <1>3, <1>4, <1>7 DEF PollCmd, Undisturbed, ReadSoFar, WorkWhole, Polling, Working
<1>8. CASE PollLen
  BY <1>1, <1>3, <1>4, <1>5, <1>8 DEF PollLen, Undisturbed, ReadSoFar, WorkWhole, Polling, Working
<1>9. CASE PollCopy
  <2>1. fidoPc = "copy" /\ pollLen = pendingLen
    BY <1>1, <1>9 DEF PollCopy, Undisturbed, ReadSoFar
  <2>2. SubSeq(pendingData, 1, pollLen) = pendingData
    BY <1>5, <2>1, Beginning
  <2> QED
    BY <1>1, <1>3, <1>4, <1>9, <2>2
    DEF PollCopy, Undisturbed, ReadSoFar, WorkWhole, Polling, Working
<1>10. CASE PollClear
  <2>1. /\ fidoPc = "clear" /\ fidoPc' = "process" /\ ~hasPendingCommand'
        /\ UNCHANGED <<pollChannel, pollCmd, pollLen, pollData>>
    BY <1>10 DEF PollClear
  <2>2. /\ pollChannel = pendingChannel /\ pollCmd = pendingCmd
        /\ pollLen = pendingLen /\ pollData = pendingData
    BY <1>1, <2>1 DEF Undisturbed, ReadSoFar, Polling
  <2>3. /\ IsWhole(pollChannel, pollCmd, pollLen, pollData)
        /\ RequestOf(pollChannel, pollData) \in completed \ answered
    BY <1>1, <1>2, <2>2 DEF Undisturbed, SlotWhole
  <2>4. WorkWhole'
    BY <1>1, <1>2, <2>1, <2>3 DEF WorkWhole, IsWhole, RequestOf, Payload
  <2>5. ReadSoFar'
    BY <2>1 DEF ReadSoFar, Polling
  <2> QED
    BY <1>3, <1>4, <2>4, <2>5
<1> QED
  BY <1>6, <1>7, <1>8, <1>9, <1>10

\* A command that is answered, and one that goes on to wait for a finger.
LEMMA WorkKeeps ==
  ASSUME IInv, Undisturbed, ~disturbed',
         ProcessNow \/ ProcessWaits \/ UvSeesCancel \/ UvCancelled \/ UvEnds
  PROVE  SlotWhole' /\ ReadSoFar' /\ WorkWhole' /\ HistoryHolds'
<1>1. /\ ~disturbed
      /\ UNCHANGED <<host, pendingChannel, pendingCmd, pendingData, pendingLen, completed>>
      /\ hasPendingCommand' => hasPendingCommand
      /\ answered' \in {answered, Answered}
  BY FidoLeaves DEF Fido
<1>2. /\ fidoPc \in Working /\ fidoPc' \in {"idle", "uv", "uvCancel"}
      /\ UNCHANGED <<pollChannel, pollCmd, pollLen, pollData>>
      /\ fidoPc' = "idle" \/ answered' = answered
  BY DEF ProcessNow, ProcessWaits, UvSeesCancel, UvCancelled, UvEnds, Working, histVars
<1>3. /\ IsWhole(pollChannel, pollCmd, pollLen, pollData)
      /\ RequestOf(pollChannel, pollData) \in completed \ answered
      /\ hasPendingCommand =>
           RequestOf(pollChannel, pollData) # RequestOf(pendingChannel, pendingData)
  BY <1>1, <1>2 DEF Undisturbed, WorkWhole
<1>4. answered' \subseteq answered \cup {RequestOf(pollChannel, pollData)}
  BY <1>1 DEF Answered, RequestOf
<1>5. ReadSoFar'
  BY <1>2 DEF ReadSoFar, Polling
<1>6. HistoryHolds'
  BY <1>1, <1>3, <1>4 DEF Undisturbed, HistoryHolds
<1>7. SlotWhole'
  <2> SUFFICES ASSUME hasPendingCommand' PROVE SlotWhole'
    BY DEF SlotWhole
  <2>1. /\ IsWhole(pendingChannel, pendingCmd, pendingLen, pendingData)
        /\ RequestOf(pendingChannel, pendingData) \in completed \ answered
        /\ RequestOf(pollChannel, pollData) # RequestOf(pendingChannel, pendingData)
    BY <1>1, <1>3 DEF Undisturbed, SlotWhole
  <2>2. RequestOf(pendingChannel, pendingData) \notin answered'
    BY <1>4, <2>1
  <2>3. IsWhole(pendingChannel, pendingCmd, pendingLen, pendingData)'
    BY <1>1, <2>1 DEF IsWhole, Payload
  <2>4. RequestOf(pendingChannel, pendingData)' = RequestOf(pendingChannel, pendingData)
    BY <1>1 DEF RequestOf
  <2> QED
    BY <1>1, <2>1, <2>2, <2>3, <2>4 DEF SlotWhole
<1>8. WorkWhole'
  <2> SUFFICES ASSUME fidoPc' # "idle" PROVE WorkWhole'
    BY DEF WorkWhole, Working
  <2> QED
    BY <1>1, <1>2, <1>3 DEF WorkWhole, IsWhole, RequestOf, Payload
<1> QED
  BY <1>5, <1>6, <1>7, <1>8

\* Every step that leaves the device undisturbed.
LEMMA StepUndisturbed ==
  /\ IInv /\ AssemblySized /\ AssemblySized' /\ MailboxSized
  /\ AssemblyOrdered /\ Undisturbed /\ [Next]_vars
  => Undisturbed'
<1> SUFFICES ASSUME IInv, AssemblySized, AssemblySized', MailboxSized, AssemblyOrdered, Undisturbed,
                    [Next]_vars
             PROVE  Undisturbed'
  OBVIOUS
<1>1. CASE disturbed'
  BY <1>1 DEF Undisturbed, OneAtATime, AssemblyCurrent, PublishedSoFar, SlotWhole, ReadSoFar,
              WorkWhole, HistoryHolds
<1>2. CASE ~disturbed'
  <2>1. CASE UsbReceives
    BY <1>2, <2>1, ReceivingKeeps, ReceivingKeepsCurrent DEF Undisturbed
  <2>2. CASE CancelChannel \/ CancelCmd \/ CancelLen \/ CancelFlag
    BY <1>2, <2>2
    DEF CancelChannel, CancelCmd, CancelLen, CancelFlag, Undisturbed, OneAtATime, Cancelling, histVars
  <2>3. CASE PublishChannel \/ PublishCmd \/ PublishData \/ PublishLen \/ PublishFlag
    BY <1>2, <2>3, PublishingKeeps, FlagKeeps
  <2>4. CASE Fido
    <3>1. SlotWhole' /\ ReadSoFar' /\ WorkWhole' /\ HistoryHolds'
      <4>1. CASE PollChannel \/ PollCmd \/ PollLen \/ PollCopy \/ PollClear
        BY <1>2, <4>1, PollKeeps
      <4>2. CASE ProcessNow \/ ProcessWaits \/ UvSeesCancel \/ UvCancelled \/ UvEnds
        BY <1>2, <4>2, WorkKeeps
      <4>3. CASE PollNoMemory
        BY <1>2, <4>3 DEF PollNoMemory
      <4> QED
        BY <2>4, <4>1, <4>2, <4>3 DEF Fido
    <3> QED
      BY <1>2, <2>4, <3>1, FidoKeepsAssembly DEF Undisturbed
  <2>5. CASE UNCHANGED vars
    BY <2>5
    DEF Undisturbed, OneAtATime, AssemblyCurrent, PublishedSoFar, SlotWhole, ReadSoFar, WorkWhole,
        HistoryHolds, InAssembly, IsWhole, RequestOf, Payload,
        vars, asmVars, slotVars, usbVars, pollVars, histVars
  <2> QED
    BY <2>1, <2>2, <2>3, <2>4, <2>5 DEF Next, UsbPublishes
<1> QED
  BY <1>1, <1>2

\* The invariants are what a reader of a request needs.
LEMMA RequestIsIntact ==
  ASSUME IInv, FlagType, AssemblyOrdered, CopiesOrdered, Undisturbed
  PROVE  RequestIntact
<1>1. TypeOK
  BY DEF TypeOK, IInv
<1>2. SeqTracksReceived
  BY DEF SeqTracksReceived, AssemblyOrdered, InAssembly, Publishing, IInv, Control, BufferHolds
<1>3. DataInOrder
  BY DEF DataInOrder, CopiesOrdered, InOrder
<1>4. ASSUME Dispatching, ~disturbed
      PROVE  /\ IsWhole(pollChannel, pollCmd, pollLen, pollData)
             /\ RequestOf(pollChannel, pollData) \in completed \ answered
  <2>1. CASE fidoPc = "clear"
    <3>1. hasPendingCommand
      BY <2>1 DEF IInv, Control, PollHoldsSlot, Polling
    <3>2. /\ pollChannel = pendingChannel /\ pollCmd = pendingCmd
          /\ pollLen = pendingLen /\ pollData = pendingData
      BY <1>4, <2>1 DEF Undisturbed, ReadSoFar, Polling
    <3> QED
      BY <1>4, <3>1, <3>2 DEF Undisturbed, SlotWhole
  <2>2. CASE fidoPc \in Working
    BY <1>4, <2>2 DEF Undisturbed, WorkWhole
  <2> QED
    BY <1>4, <2>1, <2>2 DEF Dispatching, Working
<1>5. WholeRequest
  BY <1>4 DEF WholeRequest, IsWhole
<1>6. DispatchedOnce
  BY <1>4 DEF DispatchedOnce, RequestOf
<1> QED
  BY <1>1, <1>2, <1>3, <1>5, <1>6 DEF RequestIntact

\* RequestIntact: for any channels, packet sizes, largest messages and malloc
\* outcomes, _onOutput's counters agree with what it has received, and poll()
\* dispatches the bytes of one channel in order; without a CANCEL it dispatches
\* each published request whole, and once.
THEOREM RequestIntactHolds == Spec => []RequestIntact
<1>1. Init => AssemblySized /\ MailboxSized
  BY DEF Init, AssemblySized, MailboxSized, Publishing
<1>2. Init => FlagType
  BY Zenon DEF Init, FlagType
<1>3. Init => AssemblyOrdered /\ CopiesOrdered
  BY DEF Init, AssemblyOrdered, InAssembly, CopiesOrdered, InOrder, Dispatching
<1>4. Init => Undisturbed
  BY DEF Init, Undisturbed, OneAtATime, Cancelling, AssemblyCurrent, InAssembly, PublishedSoFar,
         Publishing, SlotWhole, ReadSoFar, Polling, WorkWhole, Working, HistoryHolds
<1> QED
  BY <1>1, <1>2, <1>3, <1>4, InitIInv, StepIInv, StepFlags, StepAssemblySized, StepMailboxSized,
     StepAssemblyOrdered, StepCopiesOrdered, StepUndisturbed, RequestIsIntact, PTL DEF Spec

-----------------------------------------------------------------------------
(* The accelerator: what holds of it.                                      *)

\* A task that uses the accelerator, or is about to; and one that has loaded its AES key.
Engaged(t) == pc[t] \notin {"idle", "lock", "software"}
KeyLoaded(t) == Engaged(t) /\ run[t].at = 2

Runs == [kind : {"op"}, op : DOMAIN Op, at : {1, 2}, genuine : BOOLEAN, back : {"has", "call"}]

\* The operation r of a task at p is one of the table and under way, a forged input is given
\* only to an operation that checks it, and only a decryption asks g_last for a verdict.
RunFits(r, p) ==
  p # "idle" =>
    /\ r \in Runs /\ r.at \in DOMAIN Op[r.op].calls
    /\ r.genuine \/ \E i \in DOMAIN Op[r.op].calls : Checked(Op[r.op].calls[i])
    /\ p = "lock" => r.at = 1
    /\ p = "verdict" => r.at = 2

\* The types, with what AccelTypeOK leaves open.
RunTyped ==
  /\ run \in [Tasks -> Runs \cup {None}]
  /\ \A t \in Tasks : RunFits(run[t], pc[t])
  /\ job # None => job.kind = "job" /\ job.by \in Tasks

\* g_tp_mx is held by the task that waits for an answer, g_mx by the task in an operation
\* that holds it throughout.
MutexesHeld ==
  /\ \A t \in Tasks : Waiting(t) <=> tp = t
  /\ \A t \in Tasks : Engaged(t) /\ Now(t).locked => mx = t

\* The FPGA computes only when it has nothing to send.
OneOrOther == job # None => out = None

\* What a task that waits for an answer on a link that is up finds at the other end is its own
\* request or the answer to it.
Outstanding(t) ==
  /\ job # None => job.by = t /\ job.cmd = Cmd(t) /\ job.genuine = run[t].genuine
  /\ out.kind = "frame" =>
       /\ out.by = t /\ out.cmd = Cmd(t)
       /\ out.status = "OK" =>
            /\ NeedsKey(Cmd(t)) => out.key = t
            /\ Checked(Cmd(t)) => run[t].genuine
            /\ Cmd(t) = "aes_set_key" => key \in {t, NoTask}
       /\ out.status = "AUTH_FAIL" /\ run[t].at = 2 => ~run[t].genuine

\* As long as no request went out on a link that failed in between: a link that is up and not
\* in use has no request and no answer on it, no answer is waited for on one that is down, and
\* from loading its key to using it no other key replaces a task's own, and g_last is no
\* failure of its own.
InStep ==
  /\ tp = NoTask /\ ~down => job = None /\ out.kind # "frame"
  /\ \A t \in Tasks : pc[t] = "wait" => ~down
  /\ \A t \in Tasks : tp = t /\ ~down => Outstanding(t)
  /\ \A t \in Tasks : KeyLoaded(t) => key \in {t, NoTask} /\ (job # None => job.cmd # "aes_set_key")
  /\ \A t \in Tasks :
       KeyLoaded(t) /\ run[t].genuine /\ pc[t] # "silent" => last # t

Typed == AccelTypeOK /\ RunTyped /\ MutexesHeld /\ OneOrOther

AccelIInv ==
  /\ Typed
  /\ raced \/ InStep
  /\ AnswerIsMine /\ GenuineOpens /\ ForgedNeverOpens

\* An operation is one call, or the loading of a key and its use under g_mx; what is checked is
\* checked by its last call.
Shaped(o) ==
  \/ \E c : o.calls = <<c>> /\ c # "aes_set_key" /\ c # "info" /\ ~NeedsKey(c)
  \/ \E c : o.locked /\ o.calls = <<"aes_set_key", c>> /\ c # "info" /\ NeedsKey(c)

-----------------------------------------------------------------------------
(* The table of operations.                                                *)

\* The calls that use the AES key are those of the three AES operations.
LEMMA KeyUsers == \A c : NeedsKey(c) <=> c \in {"aes_cbc", "aes_gcm_encrypt", "aes_gcm_decrypt"}
BY DEF NeedsKey, AesCalls

\* Two tables of shaped operations make one.
LEMMA MergedShaped ==
  ASSUME NEW f, NEW g, \A o \in DOMAIN f : Shaped(f[o]), \A o \in DOMAIN g : Shaped(g[o])
  PROVE  \A o \in DOMAIN (f ++ g) : Shaped((f ++ g)[o])
BY DEF ++

\* One call, and a key with its use.
LEMMA SingleShaped ==
  ASSUME NEW cap, NEW held, NEW sw, NEW c, c # "aes_set_key", c # "info", ~NeedsKey(c)
  PROVE  Shaped(Operation(cap, held, <<c>>, sw))
BY DEF Shaped, Operation

LEMMA KeyedShaped ==
  ASSUME NEW cap, NEW sw, NEW c, c # "info", NeedsKey(c)
  PROVE  Shaped(Operation(cap, TRUE, <<"aes_set_key", c>>, sw))
<1>1. Operation(cap, TRUE, <<"aes_set_key", c>>, sw).locked  BY DEF Operation
<1>2. Operation(cap, TRUE, <<"aes_set_key", c>>, sw).calls = <<"aes_set_key", c>>  BY DEF Operation
<1> QED  BY <1>1, <1>2 DEF Shaped

\* Every operation of the table is shaped so.
LEMMA OpsShaped == \A o \in DOMAIN Op : Shaped(Op[o])
<1>1. \A o \in DOMAIN HashOps : Shaped(HashOps[o])
  <2>1. DOMAIN HashOps = {"sha256", "hmac", "pbkdf2"}
    BY DEF HashOps
  <2>2. /\ HashOps["sha256"] = Operation("sym", TRUE, <<"sha256">>, TRUE)
        /\ HashOps["hmac"] = Operation("sym", TRUE, <<"hmac">>, TRUE)
        /\ HashOps["pbkdf2"] = Operation("sym", TRUE, <<"pbkdf2">>, TRUE)
    BY DEF HashOps
  <2>3. /\ Shaped(Operation("sym", TRUE, <<"sha256">>, TRUE))
        /\ Shaped(Operation("sym", TRUE, <<"hmac">>, TRUE))
        /\ Shaped(Operation("sym", TRUE, <<"pbkdf2">>, TRUE))
    BY SingleShaped, KeyUsers
  <2> QED  BY <2>1, <2>2, <2>3
<1>2. \A o \in DOMAIN AesOps : Shaped(AesOps[o])
  <2>1. DOMAIN AesOps = {"cbc", "gcm_encrypt", "gcm_decrypt"}
    BY DEF AesOps
  <2>2. /\ AesOps["cbc"] = Operation("aes", TRUE, <<"aes_set_key", "aes_cbc">>, TRUE)
        /\ AesOps["gcm_encrypt"] = Operation("aes", TRUE, <<"aes_set_key", "aes_gcm_encrypt">>, TRUE)
        /\ AesOps["gcm_decrypt"] = Operation("aes", TRUE, <<"aes_set_key", "aes_gcm_decrypt">>, TRUE)
    BY DEF AesOps
  <2>3. /\ Shaped(Operation("aes", TRUE, <<"aes_set_key", "aes_cbc">>, TRUE))
        /\ Shaped(Operation("aes", TRUE, <<"aes_set_key", "aes_gcm_encrypt">>, TRUE))
        /\ Shaped(Operation("aes", TRUE, <<"aes_set_key", "aes_gcm_decrypt">>, TRUE))
    BY KeyedShaped, KeyUsers
  <2> QED  BY <2>1, <2>2, <2>3
<1>3. \A o \in DOMAIN RandomOps : Shaped(RandomOps[o])
  <2>1. DOMAIN RandomOps = {"mix_random"}
    BY DEF RandomOps
  <2>2. /\ RandomOps["mix_random"] = Operation("any", TRUE, <<"random">>, TRUE)
    BY DEF RandomOps
  <2>3. /\ Shaped(Operation("any", TRUE, <<"random">>, TRUE))
    BY SingleShaped, KeyUsers
  <2> QED  BY <2>1, <2>2, <2>3
<1>4. \A o \in DOMAIN EcGenkeyOps : Shaped(EcGenkeyOps[o])
  <2>1. DOMAIN EcGenkeyOps = {"p256_key", "ed25519_key"}
    BY DEF EcGenkeyOps
  <2>2. /\ EcGenkeyOps["p256_key"] = Operation("asym", FALSE, <<"p256_genkey">>, TRUE)
        /\ EcGenkeyOps["ed25519_key"] = Operation("asym", FALSE, <<"ed25519_genkey">>, TRUE)
    BY DEF EcGenkeyOps
  <2>3. /\ Shaped(Operation("asym", FALSE, <<"p256_genkey">>, TRUE))
        /\ Shaped(Operation("asym", FALSE, <<"ed25519_genkey">>, TRUE))
    BY SingleShaped, KeyUsers
  <2> QED  BY <2>1, <2>2, <2>3
<1>5. \A o \in DOMAIN RsaGenkeyOps : Shaped(RsaGenkeyOps[o])
  <2>1. DOMAIN RsaGenkeyOps = {"rsa_key"}
    BY DEF RsaGenkeyOps
  <2>2. /\ RsaGenkeyOps["rsa_key"] = Operation("rsa", FALSE, <<"rsa_genkey">>, TRUE)
    BY DEF RsaGenkeyOps
  <2>3. /\ Shaped(Operation("rsa", FALSE, <<"rsa_genkey">>, TRUE))
    BY SingleShaped, KeyUsers
  <2> QED  BY <2>1, <2>2, <2>3
<1>6. \A o \in DOMAIN MldsaGenkeyOps : Shaped(MldsaGenkeyOps[o])
  <2>1. DOMAIN MldsaGenkeyOps = {"mldsa_key"}
    BY DEF MldsaGenkeyOps
  <2>2. /\ MldsaGenkeyOps["mldsa_key"] = Operation("pq", FALSE, <<"mldsa_genkey">>, TRUE)
    BY DEF MldsaGenkeyOps
  <2>3. /\ Shaped(Operation("pq", FALSE, <<"mldsa_genkey">>, TRUE))
    BY SingleShaped, KeyUsers
  <2> QED  BY <2>1, <2>2, <2>3
<1>7. \A o \in DOMAIN SignP256Ops : Shaped(SignP256Ops[o])
  <2>1. DOMAIN SignP256Ops = {"p256_wrapped"}
    BY DEF SignP256Ops
  <2>2. /\ SignP256Ops["p256_wrapped"] = Operation("asym", FALSE, <<"p256_sign">>, FALSE)
    BY DEF SignP256Ops
  <2>3. /\ Shaped(Operation("asym", FALSE, <<"p256_sign">>, FALSE))
    BY SingleShaped, KeyUsers
  <2> QED  BY <2>1, <2>2, <2>3
<1>8. \A o \in DOMAIN SignOps : Shaped(SignOps[o])
  <2>1. DOMAIN SignOps = {"ed25519_wrapped", "rsa_wrapped", "mldsa_wrapped"}
    BY DEF SignOps
  <2>2. /\ SignOps["ed25519_wrapped"] = Operation("asym", FALSE, <<"ed25519_sign">>, FALSE)
        /\ SignOps["rsa_wrapped"] = Operation("rsa", FALSE, <<"rsa_sign">>, FALSE)
        /\ SignOps["mldsa_wrapped"] = Operation("pq", FALSE, <<"mldsa_sign">>, FALSE)
    BY DEF SignOps
  <2>3. /\ Shaped(Operation("asym", FALSE, <<"ed25519_sign">>, FALSE))
        /\ Shaped(Operation("rsa", FALSE, <<"rsa_sign">>, FALSE))
        /\ Shaped(Operation("pq", FALSE, <<"mldsa_sign">>, FALSE))
    BY SingleShaped, KeyUsers
  <2> QED  BY <2>1, <2>2, <2>3
<1> DEFINE A == HashOps ++ AesOps
           B == A ++ RandomOps
           C == B ++ EcGenkeyOps
           D == C ++ RsaGenkeyOps
           E == D ++ MldsaGenkeyOps
           F == E ++ SignP256Ops
<1> HIDE DEF A, B, C, D, E, F
<1>11. \A o \in DOMAIN A : Shaped(A[o])  BY <1>1, <1>2, MergedShaped, Zenon DEF A
<1>12. \A o \in DOMAIN B : Shaped(B[o])  BY <1>11, <1>3, MergedShaped, Zenon DEF B
<1>13. \A o \in DOMAIN C : Shaped(C[o])  BY <1>12, <1>4, MergedShaped, Zenon DEF C
<1>14. \A o \in DOMAIN D : Shaped(D[o])  BY <1>13, <1>5, MergedShaped, Zenon DEF D
<1>15. \A o \in DOMAIN E : Shaped(E[o])  BY <1>14, <1>6, MergedShaped, Zenon DEF E
<1>16. \A o \in DOMAIN F : Shaped(F[o])  BY <1>15, <1>7, MergedShaped, Zenon DEF F
<1>17. Op = F ++ SignOps  BY Zenon DEF Op, A, B, C, D, E, F
<1> QED  BY <1>16, <1>8, <1>17, MergedShaped, Zenon

\* What a task in an operation is about to call.
CallFits(r) ==
  LET calls == Op[r.op].calls IN
    /\ calls[r.at] # "info"
    /\ r.at = Len(calls) \/ (r.at = 1 /\ Len(calls) = 2)
    /\ r.at = 1 /\ Len(calls) = 2 => calls[1] = "aes_set_key" /\ Op[r.op].locked
    /\ r.at = 1 => ~NeedsKey(calls[1])
    /\ r.at = 2 => Op[r.op].locked /\ NeedsKey(calls[2])
    /\ calls[r.at] = "aes_set_key" => r.at = 1 /\ Op[r.op].locked
    /\ r.at = Len(calls) /\ ~r.genuine => Checked(calls[r.at])

LEMMA CallsMade ==
  ASSUME NEW r, NEW p, RunFits(r, p), p # "idle"
  PROVE  CallFits(r)
<1>1. r \in Runs /\ r.at \in DOMAIN Op[r.op].calls /\ r.op \in DOMAIN Op /\ r.at \in {1, 2}
  BY DEF RunFits, Runs
<1>2. r.genuine \/ \E i \in DOMAIN Op[r.op].calls : Checked(Op[r.op].calls[i])
  BY DEF RunFits
<1>3. Shaped(Op[r.op])
  BY <1>1, OpsShaped
<1>4. CASE \E c : Op[r.op].calls = <<c>> /\ c # "aes_set_key" /\ c # "info" /\ ~NeedsKey(c)
  <2>1. PICK c : Op[r.op].calls = <<c>> /\ c # "aes_set_key" /\ c # "info" /\ ~NeedsKey(c)
    BY <1>4
  <2> QED  BY <1>1, <1>2, <2>1 DEF CallFits
<1>5. CASE \E c : Op[r.op].locked /\ Op[r.op].calls = <<"aes_set_key", c>> /\ c # "info" /\ NeedsKey(c)
  <2>1. PICK c : Op[r.op].locked /\ Op[r.op].calls = <<"aes_set_key", c>> /\ c # "info" /\ NeedsKey(c)
    BY <1>5
  <2>2. ~NeedsKey("aes_set_key") /\ ~Checked("aes_set_key") /\ c # "aes_set_key"
    BY <2>1, KeyUsers DEF Checked
  <2> QED  BY <1>1, <1>2, <2>1, <2>2 DEF CallFits
<1> QED  BY <1>3, <1>4, <1>5 DEF Shaped

-----------------------------------------------------------------------------
(* A step of a task that is not waiting for an answer.                     *)

Places == {"idle", "lock", "has", "call", "probe", "pwait", "answered", "silent", "send", "wait",
           "verdict", "software"}

\* It moves no one else, leaves the link alone, keeps g_mx as long as its operation needs it,
\* and forgets a failed probe.
Moves(t) ==
  /\ pc[t] \notin {"wait", "pwait"} /\ pc'[t] \in Places \ {"wait", "pwait"}
  /\ pc' = [pc EXCEPT ![t] = pc'[t]]
  /\ run' = [run EXCEPT ![t] = run'[t]] /\ run'[t] \in Runs \cup {None}
  /\ RunFits(run'[t], pc'[t])
  /\ mx' \in Tasks \cup {NoTask} /\ \A u \in Tasks \ {t} : mx = u => mx' = u
  /\ pc'[t] \notin {"idle", "lock", "software"} /\ Op[run'[t].op].locked => mx' = t
  /\ pc'[t] \notin {"idle", "lock", "software"} /\ run'[t].at = 2 =>
       /\ KeyLoaded(t) /\ run'[t].genuine = run[t].genuine
       /\ pc[t] = "silent" => last' = NoTask
  /\ last' \in {last, NoTask}
  /\ ok' \in BOOLEAN /\ retry' \in {"now", "later"} /\ faults' \in 0..MaxFaults
  /\ UNCHANGED <<tp, job, out, key, down, raced>>

LEMMA MovesTyped ==
  ASSUME Typed, NEW t \in Tasks, Moves(t)
  PROVE  Typed'
<1> USE DEF Typed
<1>1. /\ DOMAIN pc = Tasks /\ DOMAIN run = Tasks /\ pc' \in [Tasks -> Places]
      /\ run' \in [Tasks -> Runs \cup {None}]
  BY DEF AccelTypeOK, RunTyped, Moves, Places
<1>2. \A u \in Tasks : u # t => pc'[u] = pc[u] /\ run'[u] = run[u]
  BY <1>1 DEF Moves
<1>3. \A u \in Tasks : RunFits(run'[u], pc'[u])
  BY <1>2 DEF RunTyped, Moves
<1>4. RunTyped'
  BY <1>1, <1>3 DEF RunTyped, Moves
<1>5. AccelTypeOK'
  BY <1>1, <1>3, AccelAssumption DEF AccelTypeOK, RunFits, Moves, Places, Now
<1>6. \A u \in Tasks : Waiting(u)' <=> tp' = u
  BY <1>2 DEF MutexesHeld, Waiting, Moves
<1>7. \A u \in Tasks : (Engaged(u) /\ Now(u).locked)' => mx' = u
  BY <1>2 DEF MutexesHeld, Engaged, Now, Moves
<1> QED  BY <1>4, <1>5, <1>6, <1>7 DEF MutexesHeld, OneOrOther, Moves

LEMMA MovesInStep ==
  ASSUME Typed, InStep, NEW t \in Tasks, Moves(t)
  PROVE  InStep'
<1>1. DOMAIN pc = Tasks /\ DOMAIN run = Tasks
  BY DEF Typed, AccelTypeOK, RunTyped
<1>2. \A u \in Tasks : u # t => pc'[u] = pc[u] /\ run'[u] = run[u]
  BY <1>1 DEF Moves
<1>3. (tp = NoTask /\ ~down)' => job' = None /\ out'.kind # "frame"
  BY DEF InStep, Moves
<1>4. \A u \in Tasks : pc'[u] = "wait" => ~down'
  BY <1>2 DEF InStep, Moves
<1>5. \A u \in Tasks : (tp = u /\ ~down)' => Outstanding(u)'
  <2> SUFFICES ASSUME NEW u \in Tasks, tp = u, ~down
               PROVE  Outstanding(u)'
    BY DEF Moves
  <2>1. u # t
    BY DEF Typed, MutexesHeld, Waiting, Moves
  <2>2. Cmd(u)' = Cmd(u)
    BY <1>2, <2>1 DEF Cmd, Now
  <2> QED  BY <1>2, <2>1, <2>2 DEF InStep, Outstanding, Moves
<1>6. \A u \in Tasks : KeyLoaded(u)' => KeyLoaded(u)
  BY <1>2 DEF KeyLoaded, Engaged, Moves
<1>7. \A u \in Tasks : KeyLoaded(u)' => (key \in {u, NoTask} /\ (job # None => job.cmd # "aes_set_key"))'
  BY <1>6 DEF InStep, Moves
<1>8. \A u \in Tasks : (KeyLoaded(u) /\ run[u].genuine /\ pc[u] # "silent")' => last' # u
  BY <1>2, <1>6, AccelAssumption DEF InStep, KeyLoaded, Engaged, Moves
<1> QED  BY <1>3, <1>4, <1>5, <1>7, <1>8 DEF InStep

\* The steps of a task that is not waiting, one by one.
LEMMA StartMoves ==
  ASSUME Typed, NEW t \in Tasks, NEW o \in Ops[t], NEW g \in BOOLEAN, Start(t, o, g)
  PROVE  Moves(t)
<1> DEFINE r == [kind |-> "op", op |-> o, at |-> 1, genuine |-> g, back |-> "has"]
<1>1. DOMAIN pc = Tasks /\ DOMAIN run = Tasks /\ mx \in Tasks \cup {NoTask}
  BY DEF Typed, AccelTypeOK, RunTyped
<1>2. o \in DOMAIN Op
  BY AccelAssumption
<1>3. r \in Runs
  BY <1>2 DEF Runs
<1>4. 1 \in DOMAIN Op[o].calls
  BY <1>2, OpsShaped DEF Shaped
<1>5. RunFits(r, "lock")
  BY <1>3, <1>4 DEF Start, RunFits
<1>6. pc'[t] = "lock" /\ pc[t] = "idle" /\ run'[t] = r
  BY <1>1 DEF Start, Go
<1>7. run'[t].at = 1
  BY <1>6
<1> HIDE DEF r
<1> QED  BY <1>1, <1>3, <1>5, <1>6, <1>7
         DEF Start, Go, Moves, Places, Typed, AccelTypeOK, hostVars, fpgaVars

\* A step that leaves run alone and does not end the operation.
LEMMA Going ==
  ASSUME Typed, NEW t \in Tasks, NEW p \in Places \ {"idle", "lock", "wait", "pwait"},
         pc[t] \notin {"idle", "wait", "pwait"}, Go(t, p), UNCHANGED run,
         p = "verdict" => run[t].at = 2,
         mx' \in Tasks \cup {NoTask} /\ \A u \in Tasks \ {t} : mx = u => mx' = u,
         p # "software" /\ Now(t).locked => mx' = t,
         pc[t] # "software",
         pc[t] = "silent" => last' = NoTask,
         last' \in {last, NoTask},
         ok' \in BOOLEAN /\ retry' \in {"now", "later"} /\ faults' \in 0..MaxFaults,
         UNCHANGED <<tp, job, out, key, down, raced>>
  PROVE  Moves(t)
<1>1. DOMAIN pc = Tasks /\ run \in [Tasks -> Runs \cup {None}]
  BY DEF Typed, AccelTypeOK, RunTyped
<1>2. pc'[t] = p /\ run' = [run EXCEPT ![t] = run'[t]] /\ run'[t] = run[t]
  BY <1>1 DEF Go
<1>3. RunFits(run[t], p)
  BY DEF Typed, RunTyped, RunFits
<1>4. pc[t] = "lock" => run[t].at = 1
  BY DEF Typed, RunTyped, RunFits
<1> QED  BY <1>1, <1>2, <1>3, <1>4 DEF Go, Moves, Now, KeyLoaded, Engaged

\* A call that failed goes on to software, or to the verdict on a ciphertext.
LEMMA FailedPlace ==
  ASSUME Typed, NEW t \in Tasks, NEW place, pc[t] # "idle", Failed(t, place)
  PROVE  \/ Go(t, "verdict") /\ mx' = mx /\ run[t].at = 2
         \/ Go(t, "software") /\ Release(t)
<1>1. CallFits(run[t])
  BY CallsMade DEF Typed, RunTyped
<1>2. Now(t).calls[run[t].at] = "aes_gcm_decrypt" => run[t].at = 2
  <2>1. run[t].at \in {1, 2}
    BY DEF Typed, RunTyped, RunFits, Runs
  <2> QED  BY <1>1, <2>1, KeyUsers DEF CallFits, Now
<1> QED  BY <1>2 DEF Failed

LEMMA FailedMoves ==
  ASSUME Typed, NEW t \in Tasks, NEW place, pc[t] \in {"has", "call", "send", "answered", "silent"}, Failed(t, place),
         UNCHANGED run,
         pc[t] = "silent" => last' = NoTask,
         last' \in {last, NoTask},
         ok' \in BOOLEAN /\ retry' \in {"now", "later"} /\ faults' \in 0..MaxFaults,
         UNCHANGED <<tp, job, out, key, down, raced>>
  PROVE  Moves(t)
<1>1. mx \in Tasks \cup {NoTask} /\ (Now(t).locked => mx = t)
  BY DEF Typed, AccelTypeOK, MutexesHeld, Engaged
<1>2. CASE Go(t, "verdict") /\ mx' = mx /\ run[t].at = 2
  BY <1>1, <1>2, Going DEF Places
<1>3. CASE Go(t, "software") /\ Release(t)
  <2>1. mx' \in Tasks \cup {NoTask} /\ \A u \in Tasks \ {t} : mx = u => mx' = u
    BY <1>1, <1>3 DEF Release
  <2> QED  BY <1>1, <1>3, <2>1, Going DEF Places
<1> QED  BY <1>2, <1>3, FailedPlace

LEMMA LockMoves ==
  ASSUME Typed, NEW t \in Tasks, Lock(t)
  PROVE  Moves(t)
<1>1. /\ ok \in BOOLEAN /\ retry \in {"now", "later"} /\ faults \in 0..MaxFaults
      /\ pc[t] = "lock" /\ mx = NoTask /\ mx' = t
  BY DEF Lock, Typed, AccelTypeOK
<1>2. \A u \in Tasks \ {t} : mx = u => mx' = u
  BY <1>1, AccelAssumption
<1> QED  BY <1>1, <1>2, Going DEF Lock, Places, hostVars, fpgaVars

LEMMA AvailableMoves ==
  ASSUME Typed, NEW t \in Tasks, Available(t)
  PROVE  Moves(t)
<1>1. /\ ok \in BOOLEAN /\ retry \in {"now", "later"} /\ faults \in 0..MaxFaults
      /\ mx \in Tasks \cup {NoTask}
      /\ Now(t).locked => mx = t
  BY DEF Typed, AccelTypeOK, MutexesHeld, Engaged, Available
<1>2. CASE pc[t] = "has" /\ ~Has(Now(t).cap)
  <2>1. Failed(t, "has") /\ pc[t] = "has"
    BY <1>2 DEF Available
  <2> QED  BY <1>1, <2>1, FailedMoves DEF Available, hostVars, fpgaVars
<1>3. CASE ~(pc[t] = "has" /\ ~Has(Now(t).cap))
  <2>1. mx' \in Tasks \cup {NoTask} /\ \A u \in Tasks \ {t} : mx = u => mx' = u
    BY <1>1, <1>3 DEF Available, Release
  <2>2. Now(t).locked => mx' = t
    BY <1>1, <1>3 DEF Available
  <2>3. CASE pc[t] = "has"
    BY <1>1, <1>3, <2>1, <2>2, <2>3, Going DEF Available, Places, hostVars, fpgaVars
  <2>4. CASE pc[t] = "call"
    BY <1>1, <1>3, <2>1, <2>2, <2>4, Going DEF Available, Places, hostVars, fpgaVars
  <2> QED  BY <2>3, <2>4 DEF Available
<1> QED  BY <1>2, <1>3

LEMMA AbsentMoves ==
  ASSUME Typed, NEW t \in Tasks, Absent(t)
  PROVE  Moves(t)
BY FailedMoves DEF Absent, Typed, AccelTypeOK, fpgaVars

LEMMA NoMemoryMoves ==
  ASSUME Typed, NEW t \in Tasks, NoMemory(t)
  PROVE  Moves(t)
BY AccelAssumption, FailedMoves DEF NoMemory, Fault, Typed, AccelTypeOK, hostVars, fpgaVars

\* Setting where a probe returns to keeps the operation.
LEMMA BackKeeps ==
  ASSUME Typed, NEW t \in Tasks, NEW b \in {"has", "call"}, pc[t] # "idle",
         run' = [run EXCEPT ![t].back = b]
  PROVE  /\ run'[t] = [run[t] EXCEPT !.back = b] /\ run'[t] \in Runs
         /\ run' = [run EXCEPT ![t] = run'[t]]
         /\ run'[t].op = run[t].op /\ run'[t].at = run[t].at /\ run'[t].genuine = run[t].genuine
         /\ \A p : (p = "lock" => run[t].at = 1) /\ (p = "verdict" => run[t].at = 2)
                  => RunFits(run'[t], p)
<1>1. run \in [Tasks -> Runs \cup {None}] /\ run[t] \in Runs
  BY DEF Typed, RunTyped, RunFits
<1>2. run'[t] = [run[t] EXCEPT !.back = b] /\ run' = [run EXCEPT ![t] = run'[t]]
  BY <1>1
<1>3. run'[t] \in Runs /\ run'[t].op = run[t].op /\ run'[t].at = run[t].at /\ run'[t].genuine = run[t].genuine
  BY <1>1, <1>2 DEF Runs
<1>4. \A p : (p = "lock" => run[t].at = 1) /\ (p = "verdict" => run[t].at = 2) => RunFits(run'[t], p)
  BY <1>3 DEF Typed, RunTyped, RunFits
<1> QED  BY <1>2, <1>3, <1>4

LEMMA ProbeMoves ==
  ASSUME Typed, NEW t \in Tasks, Probe(t)
  PROVE  Moves(t)
<1>1. /\ ok \in BOOLEAN /\ retry \in {"now", "later"} /\ faults \in 0..MaxFaults
      /\ mx \in Tasks \cup {NoTask} /\ DOMAIN pc = Tasks
      /\ Now(t).locked => mx = t
  BY DEF Typed, AccelTypeOK, MutexesHeld, Engaged, Probe
<1>2. pc[t] \in {"has", "call"} /\ pc' = [pc EXCEPT ![t] = pc'[t]] /\ pc'[t] = "probe"
  BY <1>1 DEF Probe, Go
<1>3. /\ run'[t] \in Runs /\ run' = [run EXCEPT ![t] = run'[t]] /\ RunFits(run'[t], "probe")
      /\ run'[t].op = run[t].op /\ run'[t].at = run[t].at /\ run'[t].genuine = run[t].genuine
  BY <1>2, BackKeeps DEF Probe
<1> QED  BY <1>1, <1>2, <1>3 DEF Probe, Moves, Places, Now, KeyLoaded, Engaged, hostVars, fpgaVars

\* What a probe found out: the link is up and the task goes on, or it is not.
LEMMA ProbedMoves ==
  ASSUME Typed, NEW t \in Tasks, Probed(t)
  PROVE  Moves(t)
<1>1. /\ ok \in BOOLEAN /\ retry \in {"now", "later"} /\ faults \in 0..MaxFaults
      /\ mx \in Tasks \cup {NoTask} /\ DOMAIN pc = Tasks
      /\ Now(t).locked => mx = t
      /\ pc[t] \in {"answered", "silent"} /\ run[t].back \in {"has", "call"}
  BY DEF Typed, AccelTypeOK, MutexesHeld, Engaged, Probed, RunTyped, RunFits, Runs
<1>2. /\ run'[t] \in Runs /\ run' = [run EXCEPT ![t] = run'[t]]
      /\ run'[t].op = run[t].op /\ run'[t].at = run[t].at /\ run'[t].genuine = run[t].genuine
  BY <1>1, BackKeeps DEF Probed
<1>3. \A p : (p = "lock" => run[t].at = 1) /\ (p = "verdict" => run[t].at = 2) => RunFits(run'[t], p)
  BY <1>1, BackKeeps DEF Probed
<1>4. CASE pc[t] = "answered"
  <2>1. pc' = [pc EXCEPT ![t] = pc'[t]] /\ pc'[t] = run[t].back /\ mx' = mx /\ last' = last /\ ok' = TRUE /\ retry' = retry
    BY <1>1, <1>4 DEF Probed, Go
  <2>2. RunFits(run'[t], pc'[t])
    BY <1>1, <1>3, <2>1
  <2>3. UNCHANGED <<tp, job, out, key, down, raced, faults>>
    BY DEF Probed, fpgaVars
  <2> QED  BY <1>1, <1>2, <1>4, <2>1, <2>2, <2>3 DEF Moves, Places, Now, KeyLoaded, Engaged
<1>5. CASE pc[t] = "silent"
  <2>1. /\ Failed(t, run[t].back) /\ last' = NoTask /\ ok' = FALSE /\ retry' = "later"
        /\ UNCHANGED <<tp, job, out, key, down, raced, faults>>
    BY <1>5 DEF Probed, fpgaVars
  <2>2. CASE Go(t, "verdict") /\ mx' = mx /\ run[t].at = 2
    <3>1. pc' = [pc EXCEPT ![t] = pc'[t]] /\ pc'[t] = "verdict"
      BY <1>1, <2>2 DEF Go
    <3>2. RunFits(run'[t], "verdict")
      BY <1>3, <2>2
    <3> QED  BY <1>1, <1>2, <1>5, <2>1, <2>2, <3>1, <3>2 DEF Moves, Places, Now, KeyLoaded, Engaged
  <2>3. CASE Go(t, "software") /\ Release(t)
    <3>1. pc' = [pc EXCEPT ![t] = pc'[t]] /\ pc'[t] = "software"
      BY <1>1, <2>3 DEF Go
    <3>2. RunFits(run'[t], "software")
      BY <1>3
    <3> QED  BY <1>1, <1>2, <1>5, <2>1, <2>3, <3>1, <3>2 DEF Moves, Places, Release
  <2> QED  BY <1>1, <2>1, <2>2, <2>3, FailedPlace
<1> QED  BY <1>1, <1>4, <1>5

\* An operation that ends gives back what it holds of g_mx.
LEMMA ReturnMoves ==
  ASSUME Typed, NEW t \in Tasks, NEW r, pc[t] \in {"verdict", "software"}, Return(t, r),
         mx' = mx \/ Release(t), UNCHANGED <<hostVars, tp, fpgaVars, down, raced, faults>>
  PROVE  Moves(t)
<1>1. /\ ok \in BOOLEAN /\ retry \in {"now", "later"} /\ faults \in 0..MaxFaults
      /\ mx \in Tasks \cup {NoTask} /\ DOMAIN pc = Tasks /\ DOMAIN run = Tasks
  BY DEF Typed, AccelTypeOK, RunTyped
<1>2. pc' = [pc EXCEPT ![t] = pc'[t]] /\ pc'[t] = "idle" /\ run' = [run EXCEPT ![t] = run'[t]] /\ run'[t] = None
  BY <1>1 DEF Return, Go
<1>3. mx' \in Tasks \cup {NoTask} /\ \A u \in Tasks \ {t} : mx = u => mx' = u
  BY <1>1 DEF Release
<1> QED  BY <1>1, <1>2, <1>3 DEF Moves, Places, RunFits, hostVars, fpgaVars

LEMMA VerdictMoves ==
  ASSUME Typed, NEW t \in Tasks, Verdict(t)
  PROVE  Moves(t)
<1>1. CASE last # NoTask
  BY <1>1, ReturnMoves DEF Verdict
<1>2. CASE last = NoTask
  <2>1. /\ ok \in BOOLEAN /\ retry \in {"now", "later"} /\ faults \in 0..MaxFaults
        /\ mx \in Tasks \cup {NoTask} /\ pc[t] = "verdict" /\ Go(t, "software") /\ UNCHANGED run
    BY <1>2 DEF Typed, AccelTypeOK, Verdict
  <2>2. mx' \in Tasks \cup {NoTask} /\ \A u \in Tasks \ {t} : mx = u => mx' = u
    BY <2>1 DEF Verdict, Release
  <2> QED  BY <2>1, <2>2, Going DEF Verdict, Places, hostVars, fpgaVars
<1> QED  BY <1>1, <1>2

LEMMA SoftwareMoves ==
  ASSUME Typed, NEW t \in Tasks, Software(t)
  PROVE  Moves(t)
BY ReturnMoves DEF Software

-----------------------------------------------------------------------------
(* The end of an exchange.                                                 *)

\* The task stops waiting: it goes on or returns, and keeps g_mx as long as it needs it.
Leaves(t) ==
  /\ Waiting(t) /\ tp' = NoTask
  /\ pc'[t] \in Places \ {"wait", "pwait"} /\ pc' = [pc EXCEPT ![t] = pc'[t]]
  /\ run' = [run EXCEPT ![t] = run'[t]] /\ run'[t] \in Runs \cup {None}
  /\ RunFits(run'[t], pc'[t])
  /\ mx' \in Tasks \cup {NoTask} /\ \A u \in Tasks \ {t} : mx = u => mx' = u
  /\ pc'[t] \notin {"idle", "lock", "software"} /\ Op[run'[t].op].locked => mx' = t

\* What it leaves on the link, and what it knows of its key and of g_last.
Ends(t) ==
  /\ Leaves(t)
  /\ UNCHANGED <<job, key, raced>>
  /\ out'.kind \in {"none", "rest"} /\ (job # None => out' = None) /\ (job = None \/ down')
  /\ pc'[t] \notin {"idle", "lock", "software"} /\ run'[t].at = 2 =>
       \/ raced
       \/ /\ key \in {t, NoTask} /\ (job # None => job.cmd # "aes_set_key")
          /\ run'[t].genuine /\ pc'[t] # "silent" => last' # t
  /\ last' \in {t, NoTask} /\ down' \in BOOLEAN
  /\ ok' \in BOOLEAN /\ retry' \in {"now", "later"} /\ faults' \in 0..MaxFaults

LEMMA EndsTyped ==
  ASSUME Typed, NEW t \in Tasks, Ends(t)
  PROVE  Typed'
<1> USE DEF Typed
<1>1. /\ DOMAIN pc = Tasks /\ DOMAIN run = Tasks /\ pc' \in [Tasks -> Places]
      /\ run' \in [Tasks -> Runs \cup {None}]
  BY DEF AccelTypeOK, RunTyped, Ends, Leaves, Places
<1>2. \A u \in Tasks : u # t => pc'[u] = pc[u] /\ run'[u] = run[u]
  BY <1>1 DEF Ends, Leaves
<1>3. \A u \in Tasks : RunFits(run'[u], pc'[u])
  BY <1>2 DEF RunTyped, Ends, Leaves
<1>4. RunTyped'
  BY <1>1, <1>3 DEF RunTyped, Ends
<1>5. AccelTypeOK'
  <2>1. \A u \in Tasks : (pc[u] = "idle" \/ run[u].at \in DOMAIN Now(u).calls)'
    BY <1>3 DEF RunFits, Now
  <2> QED  BY <1>1, <2>1 DEF AccelTypeOK, Ends, Leaves, Places
<1>6. \A u \in Tasks : Waiting(u)' <=> tp' = u
  BY <1>2, AccelAssumption DEF MutexesHeld, Waiting, Ends, Leaves
<1>7. \A u \in Tasks : (Engaged(u) /\ Now(u).locked)' => mx' = u
  BY <1>2 DEF MutexesHeld, Engaged, Now, Ends, Leaves
<1> QED  BY <1>4, <1>5, <1>6, <1>7 DEF MutexesHeld, OneOrOther, Ends

LEMMA EndsInStep ==
  ASSUME Typed, ~raced, InStep, NEW t \in Tasks, Ends(t)
  PROVE  InStep'
<1>1. DOMAIN pc = Tasks /\ DOMAIN run = Tasks /\ tp = t
  BY DEF Typed, AccelTypeOK, RunTyped, MutexesHeld, Ends, Leaves
<1>2. \A u \in Tasks : u # t => pc'[u] = pc[u] /\ run'[u] = run[u]
  BY <1>1 DEF Ends, Leaves
<1>3. (tp = NoTask /\ ~down)' => job' = None /\ out'.kind # "frame"
  BY DEF Ends
<1>4. \A u \in Tasks : pc'[u] # "wait"
  BY <1>1, <1>2 DEF Typed, MutexesHeld, Waiting, Ends, Leaves
<1>5. \A u \in Tasks : tp' # u
  BY AccelAssumption DEF Ends, Leaves
<1>6. \A u \in Tasks : u # t /\ KeyLoaded(u)' => KeyLoaded(u)
  BY <1>2 DEF KeyLoaded, Engaged
<1>7. \A u \in Tasks : KeyLoaded(u)' => (key \in {u, NoTask} /\ (job # None => job.cmd # "aes_set_key"))'
  <2> TAKE u \in Tasks
  <2>1. CASE u # t
    BY <1>6, <2>1 DEF InStep, Ends
  <2>2. CASE u = t
    BY <2>2 DEF KeyLoaded, Engaged, Ends
  <2> QED  BY <2>1, <2>2
<1>8. \A u \in Tasks : (KeyLoaded(u) /\ run[u].genuine /\ pc[u] # "silent")' => last' # u
  <2> TAKE u \in Tasks
  <2>1. CASE u # t
    BY <2>1, AccelAssumption DEF Ends
  <2>2. CASE u = t
    BY <2>2 DEF KeyLoaded, Engaged, Ends
  <2> QED  BY <2>1, <2>2
<1> QED  BY <1>3, <1>4, <1>5, <1>7, <1>8 DEF InStep

\* An exchange that failed: a probe is over, an operation goes on without the FPGA.
LEMMA AfterFailure ==
  ASSUME Typed, NEW t \in Tasks, Waiting(t), After(t, FALSE)
  PROVE  /\ Leaves(t) /\ run'[t] = run[t] /\ result' = result
         /\ pc[t] = "pwait" => pc'[t] = "silent"
         /\ pc[t] # "pwait" => pc'[t] = "software" \/ (pc'[t] = "verdict" /\ run[t].at = 2)
<1>1. /\ DOMAIN pc = Tasks /\ run \in [Tasks -> Runs \cup {None}] /\ mx \in Tasks \cup {NoTask}
      /\ RunFits(run[t], pc[t]) /\ (Now(t).locked => mx = t)
  BY DEF Typed, AccelTypeOK, RunTyped, MutexesHeld, Engaged, Waiting
<1>2. tp' = NoTask /\ run' = run /\ result' = result
  BY DEF After
<1>3. run' = [run EXCEPT ![t] = run'[t]] /\ run'[t] = run[t]
  BY <1>1, <1>2
<1>4. CASE pc[t] = "pwait"
  <2>1. pc' = [pc EXCEPT ![t] = pc'[t]] /\ pc'[t] = "silent" /\ mx' = mx
    BY <1>1, <1>4 DEF After, Go
  <2> QED  BY <1>1, <1>2, <1>3, <1>4, <2>1 DEF Leaves, Places, RunFits, Now
<1>5. CASE pc[t] = "wait"
  <2>1. Failed(t, "call")
    BY <1>5 DEF After
  <2>2. CASE Go(t, "verdict") /\ mx' = mx /\ run[t].at = 2
    <3>1. pc' = [pc EXCEPT ![t] = pc'[t]] /\ pc'[t] = "verdict"
      BY <1>1, <2>2 DEF Go
    <3> QED  BY <1>1, <1>2, <1>3, <1>5, <2>2, <3>1 DEF Leaves, Places, RunFits, Now
  <2>3. CASE Go(t, "software") /\ Release(t)
    <3>1. pc' = [pc EXCEPT ![t] = pc'[t]] /\ pc'[t] = "software"
      BY <1>1, <2>3 DEF Go
    <3>2. mx' \in Tasks \cup {NoTask} /\ \A u \in Tasks \ {t} : mx = u => mx' = u
      BY <1>1, <2>3 DEF Release
    <3> QED  BY <1>1, <1>2, <1>3, <1>5, <3>1, <3>2 DEF Leaves, Places, RunFits
  <2> QED  BY <1>5, <2>1, <2>2, <2>3, FailedPlace
<1> QED  BY <1>4, <1>5 DEF Waiting

\* An exchange that succeeded: a probe was answered, or the next call follows, or the
\* operation returns what it was sent.
LEMMA AfterSuccess ==
  ASSUME Typed, NEW t \in Tasks, Waiting(t), After(t, TRUE)
  PROVE  /\ Leaves(t)
         /\ \/ pc[t] = "pwait" /\ pc'[t] = "answered" /\ run'[t] = run[t] /\ result' = result
            \/ /\ pc[t] = "wait" /\ Cmd(t) = "aes_set_key" /\ pc'[t] = "call"
               /\ run'[t].genuine = run[t].genuine /\ result' = result
            \/ /\ pc[t] = "wait" /\ pc'[t] = "idle" /\ run[t].at = Len(Now(t).calls)
               /\ result' = [kind |-> "fpga", genuine |-> run[t].genuine,
                             mine |-> out.by = t /\ out.cmd = Cmd(t) /\ (NeedsKey(Cmd(t)) => out.key = t)]
<1>1. /\ DOMAIN pc = Tasks /\ run \in [Tasks -> Runs \cup {None}] /\ mx \in Tasks \cup {NoTask}
      /\ RunFits(run[t], pc[t]) /\ (Now(t).locked => mx = t) /\ pc[t] # "idle"
  BY DEF Typed, AccelTypeOK, RunTyped, MutexesHeld, Engaged, Waiting
<1>2. CallFits(run[t])
  BY <1>1, CallsMade
<1>3. tp' = NoTask
  BY DEF After
<1>4. CASE pc[t] = "pwait"
  <2>1. pc' = [pc EXCEPT ![t] = pc'[t]] /\ pc'[t] = "answered" /\ mx' = mx /\ run' = run /\ result' = result
    BY <1>1, <1>4 DEF After, Go
  <2>2. run' = [run EXCEPT ![t] = run'[t]] /\ run'[t] = run[t]
    BY <1>1, <2>1
  <2> QED  BY <1>1, <1>3, <1>4, <2>1, <2>2 DEF Leaves, Places, RunFits, Now
<1>5. CASE pc[t] = "wait" /\ run[t].at < Len(Now(t).calls)
  <2>1. /\ run' = [run EXCEPT ![t].at = @ + 1] /\ Go(t, "call") /\ mx' = mx /\ result' = result
    BY <1>5 DEF After
  <2>2. run[t] \in Runs /\ run[t].at \in {1, 2}
    BY <1>1 DEF RunFits, Runs
  <2>3. run[t].at = 1 /\ Len(Now(t).calls) = 2
    BY <1>2, <1>5, <2>2 DEF CallFits, Now
  <2>4. /\ run'[t] = [run[t] EXCEPT !.at = 2] /\ run' = [run EXCEPT ![t] = run'[t]]
    BY <1>1, <2>1, <2>3
  <2>5. /\ run'[t] \in Runs /\ run'[t].at = 2 /\ run'[t].op = run[t].op /\ run'[t].genuine = run[t].genuine
    BY <2>2, <2>4 DEF Runs
  <2>6. Cmd(t) = "aes_set_key"
    BY <1>2, <1>5, <2>3 DEF CallFits, Now, Cmd
  <2>7. 2 \in DOMAIN Now(t).calls
    <3>1. run[t].op \in DOMAIN Op
      BY <2>2 DEF Runs
    <3>2. Shaped(Now(t))
      BY <3>1, OpsShaped DEF Now
    <3> QED  BY <2>3, <3>2 DEF Shaped
  <2>8. pc' = [pc EXCEPT ![t] = pc'[t]] /\ pc'[t] = "call"
    BY <1>1, <2>1 DEF Go
  <2>9. RunFits(run'[t], "call")
    BY <1>1, <2>5, <2>7 DEF RunFits, Now
  <2> QED  BY <1>1, <1>3, <1>5, <2>1, <2>4, <2>5, <2>6, <2>8, <2>9 DEF Leaves, Places, Now
<1>6. CASE pc[t] = "wait" /\ ~(run[t].at < Len(Now(t).calls))
  <2>1. /\ run[t].at = Len(Now(t).calls) /\ Release(t)
        /\ Return(t, [kind |-> "fpga", genuine |-> run[t].genuine,
                      mine |-> out.by = t /\ out.cmd = Cmd(t) /\ (NeedsKey(Cmd(t)) => out.key = t)])
    BY <1>6 DEF After
  <2>2. /\ pc' = [pc EXCEPT ![t] = pc'[t]] /\ pc'[t] = "idle"
        /\ run' = [run EXCEPT ![t] = run'[t]] /\ run'[t] = None
    BY <1>1, <2>1 DEF Return, Go
  <2>3. mx' \in Tasks \cup {NoTask} /\ \A u \in Tasks \ {t} : mx = u => mx' = u
    BY <1>1, <2>1 DEF Release
  <2>4. RunFits(run'[t], "idle")
    BY DEF RunFits
  <2>5. Leaves(t)
    BY <1>3, <1>6, <2>2, <2>3, <2>4 DEF Leaves, Places
  <2> QED  BY <1>6, <2>1, <2>2, <2>5 DEF Return
<1> QED  BY <1>4, <1>5, <1>6 DEF Waiting

\* What is left of a frame is no frame.
LEMMA RestKind == \A n : Rest(n).kind \in {"none", "rest"} /\ (n = 0 => Rest(n) = None)
BY DEF Rest, None

\* An answer that is on the link is the only thing there.
LEMMA AnswerAlone ==
  ASSUME Typed, out.kind # "none"
  PROVE  job = None
BY DEF Typed, OneOrOther, None

LEMMA TimeoutEnds ==
  ASSUME Typed, raced \/ InStep, NEW t \in Tasks, Timeout(t)
  PROVE  Ends(t) /\ result' = result
<1>1. /\ Waiting(t) /\ After(t, FALSE) /\ out' = None
      /\ ok' = FALSE /\ retry' = "later" /\ last' = NoTask /\ down' = TRUE /\ UNCHANGED <<job, key, raced>>
  BY DEF Timeout, io_fail
<1>2. faults' \in 0..MaxFaults
  BY AccelAssumption DEF Timeout, Fault, Typed, AccelTypeOK
<1>3. /\ Leaves(t) /\ run'[t] = run[t] /\ result' = result
      /\ pc'[t] \notin {"idle", "lock", "software"} => KeyLoaded(t) \/ run[t].at # 2
  BY <1>1, AfterFailure DEF KeyLoaded, Engaged, Waiting
<1> QED  BY <1>1, <1>2, <1>3, AccelAssumption DEF Ends, None, InStep

LEMMA ReadGarbageEnds ==
  ASSUME Typed, raced \/ InStep, NEW t \in Tasks, ReadGarbage(t)
  PROVE  Ends(t) /\ result' = result
<1>1. /\ Waiting(t) /\ After(t, FALSE) /\ last' = NoTask /\ UNCHANGED <<job, key, raced>> /\ job = None
      /\ out'.kind \in {"none", "rest"}
  BY RestKind, AnswerAlone DEF ReadGarbage, io_fail
<1>2. faults' \in 0..MaxFaults
  BY AccelAssumption DEF ReadGarbage, Fault, Typed, AccelTypeOK
<1>3. ok' \in BOOLEAN /\ retry' \in {"now", "later"} /\ down' \in BOOLEAN
  BY DEF ReadGarbage, io_fail, Typed, AccelTypeOK
<1>4. /\ Leaves(t) /\ run'[t] = run[t] /\ result' = result
      /\ pc'[t] \notin {"idle", "lock", "software"} => KeyLoaded(t) \/ run[t].at # 2
  BY <1>1, AfterFailure DEF KeyLoaded, Engaged, Waiting
<1> QED  BY <1>1, <1>2, <1>3, <1>4, AccelAssumption DEF Ends, InStep

LEMMA ReadEnds ==
  ASSUME Typed, raced \/ InStep, NEW t \in Tasks, Read(t)
  PROVE  /\ Ends(t)
         /\ \/ result' = result
            \/ /\ result'.kind = "fpga"
               /\ raced \/ (result'.mine /\ result'.genuine)
<1> DEFINE w == Call[Cmd(t)]
           good == /\ out.n = w.want /\ out.status = "OK"
                   /\ pc[t] = "pwait" => out.cmd = "info"
<1>1. /\ Waiting(t) /\ out.kind = "frame" /\ job = None /\ tp = t
      /\ last' = NoTask \/ (last' = t /\ out.status = "AUTH_FAIL")
      /\ out'.kind \in {"none", "rest"}
      /\ UNCHANGED <<ok, retry, job, key, raced, faults>>
  <2>1. Waiting(t) /\ out.kind = "frame"
    BY DEF Read
  <2>2. job = None /\ tp = t
    BY <2>1, AnswerAlone DEF Typed, MutexesHeld
  <2>3. last' = NoTask \/ (last' = t /\ out.status = "AUTH_FAIL")
    BY DEF Read
  <2>4. out'.kind \in {"none", "rest"}
    BY RestKind DEF Read, None
  <2> QED  BY <2>1, <2>2, <2>3, <2>4 DEF Read
<1>2. /\ ok' \in BOOLEAN /\ retry' \in {"now", "later"} /\ faults' \in 0..MaxFaults
  BY <1>1 DEF Typed, AccelTypeOK
<1>3. down' \in BOOLEAN
  BY DEF Read
<1>4. ~raced /\ pc[t] = "wait" => Outstanding(t)
  BY <1>1 DEF InStep
<1>5. RunFits(run[t], pc[t]) /\ CallFits(run[t])
  BY <1>1, CallsMade DEF Typed, RunTyped, Waiting
<1>6. CASE ~good
  <2>1. After(t, FALSE)
    BY <1>6 DEF Read, After
  <2>2. /\ Leaves(t) /\ run'[t] = run[t] /\ result' = result
        /\ pc[t] = "pwait" => pc'[t] = "silent"
        /\ pc[t] # "pwait" => pc'[t] = "software" \/ (pc'[t] = "verdict" /\ run[t].at = 2)
    BY <1>1, <2>1, AfterFailure
  <2>3. run[t].at = 2 => KeyLoaded(t)
    BY <1>1 DEF KeyLoaded, Engaged, Waiting
  <2>4. CASE pc[t] = "pwait"
    BY <1>1, <1>2, <1>3, <2>2, <2>3, <2>4 DEF Ends, InStep
  <2>5. CASE pc[t] = "wait"
    <3>1. ~raced /\ run[t].at = 2 /\ run[t].genuine => last' # t
      BY <1>1, <1>4, <2>5, AccelAssumption DEF Outstanding
    <3> QED  BY <1>1, <1>2, <1>3, <2>2, <2>3, <2>5, <3>1 DEF Ends, InStep
  <2> QED  BY <1>1, <2>2, <2>4, <2>5 DEF Waiting
<1>7. CASE good
  <2>1. After(t, TRUE)
    BY <1>7 DEF Read, After
  <2>2. last' = NoTask /\ out.status = "OK"
    BY <1>1, <1>7
  <2>3. CASE pc[t] = "pwait" /\ pc'[t] = "answered" /\ run'[t] = run[t] /\ result' = result
    <3>1. run[t].at = 2 => KeyLoaded(t)
      BY <2>3 DEF KeyLoaded, Engaged
    <3> QED  BY <1>1, <1>2, <1>3, <2>1, <2>2, <2>3, <3>1, AfterSuccess, AccelAssumption DEF Ends, InStep
  <2>4. CASE /\ pc[t] = "wait" /\ Cmd(t) = "aes_set_key" /\ pc'[t] = "call"
             /\ run'[t].genuine = run[t].genuine /\ result' = result
    <3>1. ~raced => key \in {t, NoTask}
      BY <1>1, <1>4, <2>2, <2>4 DEF Outstanding
    <3> QED  BY <1>1, <1>2, <1>3, <2>1, <2>2, <2>4, <3>1, AfterSuccess, AccelAssumption DEF Ends
  <2>5. CASE /\ pc[t] = "wait" /\ pc'[t] = "idle" /\ run[t].at = Len(Now(t).calls)
             /\ result' = [kind |-> "fpga", genuine |-> run[t].genuine,
                           mine |-> out.by = t /\ out.cmd = Cmd(t) /\ (NeedsKey(Cmd(t)) => out.key = t)]
    <3>1. ~raced => out.by = t /\ out.cmd = Cmd(t) /\ (NeedsKey(Cmd(t)) => out.key = t)
      BY <1>1, <1>4, <2>2, <2>5 DEF Outstanding
    <3>2. ~raced => run[t].genuine
      BY <1>1, <1>4, <1>5, <2>2, <2>5 DEF Outstanding, CallFits, Cmd, Now
    <3>3. Ends(t)
      BY <1>1, <1>2, <1>3, <2>1, <2>2, <2>5, AfterSuccess DEF Ends
    <3> QED  BY <2>5, <3>1, <3>2, <3>3
  <2> QED  BY <1>1, <2>1, <2>3, <2>4, <2>5, AfterSuccess
<1> QED  BY <1>6, <1>7

-----------------------------------------------------------------------------
(* The steps of the link.                                                  *)

\* The request of a task.
Request(t) == [kind |-> "job", by |-> t, cmd |-> Cmd(t), genuine |-> run[t].genuine]

\* What a request finds and what becomes of it: on a link with nothing on it, it is taken, or
\* garbled and refused or lost; else it may be lost.
LEMMA Sent ==
  ASSUME Typed, NEW t \in Tasks, Send(t)
  PROVE  /\ job' \in {job, Request(t)} /\ (job' # job => job = None) /\ (job' # None => out' = None)
         /\ out' = Reply(Request(t), "BAD_CRC") \/ out'.kind \in {"none", "rest"}
<1>1. Parts = 0 <=> out.kind = "none" \/ (out.kind = "rest" /\ out.parts = 0)
  BY DEF Parts
<1>2. CASE Receive(Request(t))
  <2>1. PICK parts \in 0..(IF out.kind = "frame" THEN 1 ELSE Parts) :
               /\ out' = Rest(parts)
               /\ job' = IF job = None /\ parts = 0 THEN Request(t) ELSE job
    BY <1>2 DEF Receive
  <2>2. job # None => parts = 0
    BY <2>1 DEF Typed, OneOrOther, None, Parts
  <2> QED  BY <2>1, <2>2, RestKind
<1>3. CASE /\ job' = job
           /\ out' \in IF job = None /\ out = None THEN {None, Reply(Request(t), "BAD_CRC")} ELSE {Rest(Parts)}
  <2>1. job # None => Parts = 0
    BY DEF Typed, OneOrOther, None, Parts
  <2> QED  BY <1>3, <2>1, RestKind DEF None
<1> QED  BY <1>2, <1>3 DEF Send, Request

LEMMA SendTyped ==
  ASSUME Typed, NEW t \in Tasks, Send(t)
  PROVE  Typed'
<1> USE DEF Typed
<1>1. /\ DOMAIN pc = Tasks /\ pc[t] \in {"send", "probe"} /\ tp = NoTask /\ tp' = t
      /\ pc' = [pc EXCEPT ![t] = pc'[t]] /\ pc'[t] = (IF pc[t] = "probe" THEN "pwait" ELSE "wait")
      /\ UNCHANGED <<hostVars, mx, run, key, result, down>>
  BY DEF AccelTypeOK, Send, Go
<1>2. \A u \in Tasks : u # t => pc'[u] = pc[u]
  BY <1>1
<1>3. \A u \in Tasks : RunFits(run[u], pc'[u])
  BY <1>1, <1>2 DEF RunTyped, RunFits
<1>4. /\ out'.kind \in {"none", "frame", "rest"}
      /\ job' # None => job'.kind = "job" /\ job'.by \in Tasks
      /\ job'.kind \in {"none", "job"}
  BY Sent DEF Request, Reply, None, RunTyped
<1>5. RunTyped'
  BY <1>1, <1>3, <1>4 DEF RunTyped
<1>6. AccelTypeOK'
  <2>1. faults' \in 0..MaxFaults
    BY AccelAssumption DEF Send, Fault, AccelTypeOK
  <2>2. raced' \in BOOLEAN
    BY DEF Send, AccelTypeOK
  <2>3. pc' \in [Tasks -> {"idle", "lock", "has", "call", "probe", "pwait", "answered", "silent",
                           "send", "wait", "verdict", "software"}]
    BY <1>1 DEF AccelTypeOK
  <2>4. \A u \in Tasks : (pc[u] = "idle" \/ run[u].at \in DOMAIN Now(u).calls)'
    BY <1>1, <1>3 DEF RunFits, Now
  <2> QED  BY <1>1, <1>4, <2>1, <2>2, <2>3, <2>4 DEF AccelTypeOK, hostVars
<1>7. \A u \in Tasks : Waiting(u)' <=> tp' = u
  BY <1>1, <1>2, AccelAssumption DEF MutexesHeld, Waiting
<1>8. \A u \in Tasks : (Engaged(u) /\ Now(u).locked)' => mx' = u
  BY <1>1, <1>2 DEF MutexesHeld, Engaged, Now
<1> QED  BY <1>5, <1>6, <1>7, <1>8, Sent DEF MutexesHeld, OneOrOther

LEMMA SendInStep ==
  ASSUME Typed, ~raced, InStep, NEW t \in Tasks, Send(t), ~raced'
  PROVE  InStep'
<1>1. /\ DOMAIN pc = Tasks /\ pc[t] \in {"send", "probe"} /\ tp = NoTask /\ tp' = t
      /\ pc' = [pc EXCEPT ![t] = pc'[t]] /\ pc'[t] = (IF pc[t] = "probe" THEN "pwait" ELSE "wait")
      /\ UNCHANGED <<hostVars, mx, run, key, result, down>>
      /\ pc[t] = "send" => ~down
  BY DEF Typed, AccelTypeOK, Send, Go
<1>2. \A u \in Tasks : u # t => pc'[u] = pc[u]
  BY <1>1
<1>3. \A u \in Tasks : pc'[u] = "wait" => ~down'
  BY <1>1, <1>2 DEF InStep
<1>4. Cmd(t)' = Cmd(t)
  BY <1>1 DEF Cmd, Now
<1>5. \A u \in Tasks : (tp = u /\ ~down)' => Outstanding(u)'
  <2> SUFFICES ASSUME ~down
               PROVE  Outstanding(t)'
    BY <1>1
  <2>1. job = None
    BY <1>1 DEF InStep
  <2>2. job' # None => job' = Request(t)
    BY <2>1, Sent
  <2>3. out'.kind = "frame" => out' = Reply(Request(t), "BAD_CRC")
    BY Sent
  <2> QED  BY <1>1, <1>4, <2>2, <2>3 DEF Outstanding, Request, Reply
<1>6. \A u \in Tasks : KeyLoaded(u)' => KeyLoaded(u)
  BY <1>1, <1>2 DEF KeyLoaded, Engaged
<1>7. \A u \in Tasks : KeyLoaded(u) => Request(t).cmd # "aes_set_key"
  <2> SUFFICES ASSUME NEW u \in Tasks, KeyLoaded(u), Cmd(t) = "aes_set_key"
               PROVE  FALSE
    BY DEF Request
  <2>1. CallFits(run[t]) /\ CallFits(run[u])
    BY <1>1, CallsMade DEF Typed, RunTyped, KeyLoaded, Engaged
  <2>2. run[t].at = 1 /\ Now(t).locked
    BY <2>1 DEF Cmd, CallFits, Now
  <2>3. mx = t
    BY <1>1, <2>2 DEF Typed, MutexesHeld, Engaged
  <2>4. mx = u
    BY <2>1 DEF Typed, MutexesHeld, KeyLoaded, CallFits, Now
  <2> QED  BY <2>2, <2>3, <2>4 DEF KeyLoaded
<1>8. \A u \in Tasks : KeyLoaded(u)' => (key \in {u, NoTask} /\ (job # None => job.cmd # "aes_set_key"))'
  BY <1>1, <1>6, <1>7, Sent DEF InStep
<1>9. \A u \in Tasks : (KeyLoaded(u) /\ run[u].genuine /\ pc[u] # "silent")' => last' # u
  BY <1>1, <1>2, <1>6 DEF InStep, hostVars
<1> QED  BY <1>1, <1>3, <1>5, <1>8, <1>9, AccelAssumption DEF InStep

\* A step that moves no task.
Still == UNCHANGED <<mx, tp, pc, run, last, down, raced>>

LEMMA StillTyped ==
  ASSUME Typed, Still,
         ok' \in BOOLEAN /\ retry' \in {"now", "later"} /\ faults' \in 0..MaxFaults,
         key' \in Tasks \cup {NoTask}, out'.kind \in {"none", "frame", "rest"},
         job' \in {job, None}, job' # None => out' = None
  PROVE  Typed'
<1> USE DEF Typed, Still
<1>1. AccelTypeOK'
  <2>1. job'.kind \in {"none", "job"}
    BY DEF AccelTypeOK, None
  <2>2. \A u \in Tasks : (pc[u] = "idle" \/ run[u].at \in DOMAIN Now(u).calls)'
    BY DEF AccelTypeOK, Now
  <2> QED  BY <2>1, <2>2 DEF AccelTypeOK
<1>2. RunTyped'
  BY DEF RunTyped
<1>3. MutexesHeld'
  BY DEF MutexesHeld, Waiting, Engaged, Now
<1> QED  BY <1>1, <1>2, <1>3 DEF OneOrOther

LEMMA StillInStep ==
  ASSUME Typed, InStep, Still, job' \in {job, None},
         tp = NoTask /\ ~down /\ job = None => out' = out \/ out'.kind # "frame",
         \A t \in Tasks : tp = t /\ ~down => Outstanding(t)',
         \A t \in Tasks : KeyLoaded(t) => key' \in {t, NoTask}
  PROVE  InStep'
<1> USE DEF Still
<1>1. \A t \in Tasks : KeyLoaded(t)' <=> KeyLoaded(t)
  BY DEF KeyLoaded, Engaged
<1> QED  BY <1>1 DEF InStep

\* The FPGA answers with the key it holds, which is the task's own if it has loaded one.
LEMMA FpgaKeeps ==
  ASSUME Typed, Work
  PROVE  Typed' /\ (InStep => InStep')
<1>1. /\ job.kind = "job" /\ out = None /\ out' = Reply(job, Status(job)) /\ job' = None
      /\ key' = IF job.cmd = "aes_set_key" THEN job.by ELSE key
      /\ UNCHANGED <<hostVars, mx, tp, pc, run, result, down, raced, faults>>
  BY DEF Work
<1>2. job # None /\ job.by \in Tasks
  BY <1>1 DEF None, Typed, RunTyped
<1>3. Still /\ ok' = ok /\ retry' = retry /\ faults' = faults
  BY <1>1 DEF Still, hostVars
<1>4. /\ ok' \in BOOLEAN /\ retry' \in {"now", "later"} /\ faults' \in 0..MaxFaults
      /\ key' \in Tasks \cup {NoTask}
  BY <1>1, <1>2, <1>3 DEF Typed, AccelTypeOK
<1>5. /\ out'.kind = "frame" /\ out'.by = job.by /\ out'.cmd = job.cmd /\ out'.status = Status(job) /\ out'.key = key
  BY <1>1 DEF Reply
<1>6. Typed'
  BY <1>1, <1>3, <1>4, <1>5, StillTyped
<1>7. ASSUME InStep
      PROVE  InStep'
  <2>1. \A t \in Tasks : tp = t /\ ~down => Outstanding(t)'
    <3> SUFFICES ASSUME NEW t \in Tasks, tp = t, ~down
                 PROVE  Outstanding(t)'
      OBVIOUS
    <3>1. job.by = t /\ job.cmd = Cmd(t) /\ job.genuine = run[t].genuine
      BY <1>2, <1>7 DEF InStep, Outstanding
    <3>2. Cmd(t)' = Cmd(t) /\ run'[t] = run[t] /\ Waiting(t)
      BY <1>3 DEF Still, Cmd, Now, Typed, MutexesHeld
    <3>3. CallFits(run[t]) /\ run[t].at \in {1, 2}
      BY <3>2, CallsMade DEF Typed, RunTyped, RunFits, Runs, Waiting
    <3>4. NeedsKey(Cmd(t)) => pc[t] = "wait" /\ KeyLoaded(t)
      BY <3>2, <3>3, KeyUsers DEF Cmd, CallFits, KeyLoaded, Engaged, Now, Waiting
    <3>5. NeedsKey(Cmd(t)) => key \in {t, NoTask}
      BY <1>7, <3>4 DEF InStep
    <3>6. Status(job) = "OK" => /\ NeedsKey(Cmd(t)) => key = t
                                /\ Checked(Cmd(t)) => run[t].genuine
      BY <3>1, <3>5 DEF Status
    <3>7. Cmd(t) = "aes_set_key" => key' = t
      BY <1>1, <3>1
    <3>8. Status(job) = "AUTH_FAIL" /\ run[t].at = 2 => ~run[t].genuine
      <4> SUFFICES ASSUME Status(job) = "AUTH_FAIL", run[t].at = 2
                   PROVE  ~run[t].genuine
        OBVIOUS
      <4>1. Checked(Cmd(t)) /\ (~run[t].genuine \/ (NeedsKey(Cmd(t)) /\ key # t /\ key # NoTask))
        BY <3>1 DEF Status
      <4> QED  BY <3>5, <4>1
    <3> QED  BY <1>1, <1>5, <3>1, <3>2, <3>6, <3>7, <3>8 DEF Outstanding
  <2>2. \A t \in Tasks : KeyLoaded(t) => key' \in {t, NoTask}
    BY <1>1, <1>2, <1>7 DEF InStep
  <2> QED  BY <1>1, <1>2, <1>3, <1>7, <2>1, <2>2, StillInStep
<1> QED  BY <1>6, <1>7

\* A reset FPGA has no key, no request and nothing to send.
LEMMA ResetKeeps ==
  ASSUME Typed, Reset
  PROVE  Typed' /\ (InStep => InStep')
<1>1. Still /\ job' = None /\ out' = None /\ key' = NoTask /\ UNCHANGED <<ok, retry>>
  BY DEF Reset, Still, hostVars
<1>2. faults' \in 0..MaxFaults
  BY AccelAssumption DEF Reset, Fault, Typed, AccelTypeOK
<1>3. Typed'
  BY <1>1, <1>2, StillTyped DEF Typed, AccelTypeOK, None
<1>4. \A t \in Tasks : Outstanding(t)'
  BY <1>1 DEF Outstanding, None
<1> QED  BY <1>1, <1>3, <1>4, StillInStep DEF None

\* The re-probe timer touches nothing else, and a step that changes nothing keeps everything.
LEMMA IdleKeeps ==
  ASSUME Typed, Tick \/ UNCHANGED accelVars
  PROVE  Typed' /\ (InStep => InStep')
<1>1. /\ Still /\ UNCHANGED <<ok, job, out, key, faults>> /\ retry' \in {"now", "later"}
  BY DEF Tick, Still, accelVars, hostVars, fpgaVars, Typed, AccelTypeOK
<1>2. Typed'
  BY <1>1, StillTyped DEF Typed, AccelTypeOK, OneOrOther
<1>3. \A t \in Tasks : Outstanding(t)' <=> Outstanding(t)
  BY <1>1 DEF Outstanding, Still, Cmd, Now
<1>4. InStep => InStep'
  BY <1>1, <1>3, StillInStep DEF InStep
<1> QED  BY <1>2, <1>4

-----------------------------------------------------------------------------
(* The invariant.                                                          *)

Results == AnswerIsMine /\ GenuineOpens /\ ForgedNeverOpens

\* An outcome stands until the next operation starts.
LEMMA ResultStands ==
  ASSUME Results, result' \in {result, None}, raced => raced'
  PROVE  Results'
BY DEF Results, AnswerIsMine, GenuineOpens, ForgedNeverOpens, None

LEMMA MovesKeep ==
  ASSUME AccelIInv, NEW t \in Tasks, Moves(t), Results'
  PROVE  AccelIInv'
<1>1. Typed' /\ raced' = raced
  BY MovesTyped DEF AccelIInv, Moves
<1>2. ~raced => InStep'
  BY MovesInStep DEF AccelIInv
<1> QED  BY <1>1, <1>2 DEF AccelIInv, Results

LEMMA EndsKeep ==
  ASSUME AccelIInv, NEW t \in Tasks, Ends(t), Results'
  PROVE  AccelIInv'
<1>1. Typed' /\ raced' = raced
  BY EndsTyped DEF AccelIInv, Ends
<1>2. ~raced => InStep'
  BY EndsInStep DEF AccelIInv
<1> QED  BY <1>1, <1>2 DEF AccelIInv, Results

LEMMA InitAccel == AccelInit => AccelIInv
<1> SUFFICES ASSUME AccelInit
             PROVE  AccelIInv
  OBVIOUS
<1>1. AccelTypeOK
  <2>1. faults \in 0..MaxFaults
    BY AccelAssumption DEF AccelInit
  <2>2. ok \in BOOLEAN /\ down \in BOOLEAN /\ raced \in BOOLEAN
    BY DEF AccelInit
  <2>3. pc \in [Tasks -> {"idle", "lock", "has", "call", "probe", "pwait", "answered", "silent",
                          "send", "wait", "verdict", "software"}]
    BY DEF AccelInit
  <2> QED  BY <2>1, <2>2, <2>3 DEF AccelInit, AccelTypeOK, None
<1>2. RunTyped
  BY DEF AccelInit, RunTyped, RunFits
<1>3. MutexesHeld
  BY AccelAssumption DEF AccelInit, MutexesHeld, Waiting, Engaged
<1>4. OneOrOther /\ InStep
  BY AccelAssumption DEF AccelInit, OneOrOther, InStep, KeyLoaded, Engaged, None
<1>5. Results
  BY DEF AccelInit, Results, AnswerIsMine, GenuineOpens, ForgedNeverOpens, None
<1> QED  BY <1>1, <1>2, <1>3, <1>4, <1>5 DEF AccelIInv, Typed, Results

\* A verdict is not the task's own failure to open a genuine ciphertext.
LEMMA VerdictResult ==
  ASSUME AccelIInv, NEW t \in Tasks, Verdict(t)
  PROVE  Results'
<1>1. Results /\ raced' = raced
  BY DEF AccelIInv, Results, Verdict
<1>2. CASE last # NoTask
  <2>1. result' = [kind |-> "forged", genuine |-> run[t].genuine, told |-> last = t]
    BY <1>2 DEF Verdict, Return
  <2>2. pc[t] = "verdict" /\ run[t].at = 2
    BY DEF AccelIInv, Typed, RunTyped, RunFits, Verdict
  <2>3. ~raced /\ run[t].genuine => last # t
    BY <2>2 DEF AccelIInv, InStep, KeyLoaded, Engaged
  <2> QED  BY <1>1, <2>1, <2>3 DEF Results, AnswerIsMine, GenuineOpens, ForgedNeverOpens
<1>3. CASE last = NoTask
  BY <1>1, <1>3, ResultStands DEF Verdict
<1> QED  BY <1>2, <1>3

LEMMA SoftwareResult ==
  ASSUME Results, NEW t \in Tasks, Software(t)
  PROVE  Results'
<1>1. result'.kind \in {"software", "failed"}
  BY DEF Software, Return
<1> QED  BY <1>1 DEF Results, AnswerIsMine, GenuineOpens, ForgedNeverOpens

LEMMA StepAccel == AccelIInv /\ [AccelNext]_accelVars => AccelIInv'
<1> SUFFICES ASSUME AccelIInv, [AccelNext]_accelVars
             PROVE  AccelIInv'
  OBVIOUS
<1> USE DEF AccelIInv
<1>0. Typed /\ (raced \/ InStep) /\ Results
  BY DEF Results
<1>1. ASSUME NEW t \in Tasks, NEW o \in Ops[t], NEW g \in BOOLEAN, Start(t, o, g)
      PROVE  AccelIInv'
  <2>1. Results'
    BY <1>0, <1>1, ResultStands DEF Start
  <2> QED  BY <1>0, <1>1, <2>1, StartMoves, MovesKeep
<1>2. ASSUME NEW t \in Tasks, Lock(t)
      PROVE  AccelIInv'
  <2>1. Results'
    BY <1>0, <1>2, ResultStands DEF Lock
  <2> QED  BY <1>0, <1>2, <2>1, LockMoves, MovesKeep
<1>3. ASSUME NEW t \in Tasks, Send(t)
      PROVE  AccelIInv'
  <2>1. Results' /\ (raced => raced')
    BY <1>0, <1>3, ResultStands DEF Send
  <2>2. Typed'
    BY <1>0, <1>3, SendTyped
  <2>3. ~raced' => InStep'
    BY <1>0, <1>3, <2>1, SendInStep
  <2> QED  BY <2>1, <2>2, <2>3 DEF Results
<1>4. ASSUME NEW t \in Tasks, NoMemory(t)
      PROVE  AccelIInv'
  <2>1. Results'
    BY <1>0, <1>4, ResultStands DEF NoMemory
  <2> QED  BY <1>0, <1>4, <2>1, NoMemoryMoves, MovesKeep
<1>5. ASSUME NEW t \in Tasks, Timeout(t)
      PROVE  AccelIInv'
  <2>1. Ends(t) /\ result' = result
    BY <1>0, <1>5, TimeoutEnds
  <2>2. Results'
    BY <1>0, <2>1, ResultStands DEF Ends
  <2> QED  BY <2>1, <2>2, EndsKeep
<1>6. ASSUME NEW t \in Tasks, Available(t)
      PROVE  AccelIInv'
  <2>1. Results'
    BY <1>0, <1>6, ResultStands DEF Available
  <2> QED  BY <1>0, <1>6, <2>1, AvailableMoves, MovesKeep
<1>7. ASSUME NEW t \in Tasks, Absent(t)
      PROVE  AccelIInv'
  <2>1. Results'
    BY <1>0, <1>7, ResultStands DEF Absent
  <2> QED  BY <1>0, <1>7, <2>1, AbsentMoves, MovesKeep
<1>8. ASSUME NEW t \in Tasks, Probe(t)
      PROVE  AccelIInv'
  <2>1. Results'
    BY <1>0, <1>8, ResultStands DEF Probe
  <2> QED  BY <1>0, <1>8, <2>1, ProbeMoves, MovesKeep
<1>9. ASSUME NEW t \in Tasks, Probed(t)
      PROVE  AccelIInv'
  <2>1. Results'
    BY <1>0, <1>9, ResultStands DEF Probed
  <2> QED  BY <1>0, <1>9, <2>1, ProbedMoves, MovesKeep
<1>10. ASSUME NEW t \in Tasks, Read(t)
       PROVE  AccelIInv'
  <2>1. Ends(t) /\ raced' = raced
    BY <1>0, <1>10, ReadEnds DEF Ends
  <2>2. CASE result' = result
    <3>1. Results'
      BY <1>0, <2>1, <2>2, ResultStands
    <3> QED  BY <2>1, <3>1, EndsKeep
  <2>3. CASE result'.kind = "fpga" /\ (raced \/ (result'.mine /\ result'.genuine))
    <3>1. Results'
      BY <2>1, <2>3 DEF Results, AnswerIsMine, GenuineOpens, ForgedNeverOpens
    <3> QED  BY <2>1, <3>1, EndsKeep
  <2> QED  BY <1>0, <1>10, <2>2, <2>3, ReadEnds
<1>11. ASSUME NEW t \in Tasks, ReadGarbage(t)
       PROVE  AccelIInv'
  <2>1. Ends(t) /\ result' = result
    BY <1>0, <1>11, ReadGarbageEnds
  <2>2. Results'
    BY <1>0, <2>1, ResultStands DEF Ends
  <2> QED  BY <2>1, <2>2, EndsKeep
<1>12. ASSUME NEW t \in Tasks, Verdict(t)
       PROVE  AccelIInv'
  BY <1>0, <1>12, VerdictResult, VerdictMoves, MovesKeep
<1>13. ASSUME NEW t \in Tasks, Software(t)
       PROVE  AccelIInv'
  BY <1>0, <1>13, SoftwareResult, SoftwareMoves, MovesKeep
<1>14. CASE Work
  <2>1. Results' /\ raced' = raced
    BY <1>0, <1>14, ResultStands DEF Work
  <2> QED  BY <1>0, <1>14, <2>1, FpgaKeeps DEF Results
<1>15. CASE Reset
  <2>1. Results' /\ raced' = raced
    BY <1>0, <1>15, ResultStands DEF Reset
  <2> QED  BY <1>0, <1>15, <2>1, ResetKeeps DEF Results
<1>16. CASE Tick \/ UNCHANGED accelVars
  <2>1. Results' /\ raced' = raced
    BY <1>0, <1>16, ResultStands DEF Tick, accelVars
  <2> QED  BY <1>0, <1>16, <2>1, IdleKeeps DEF Results
<1> QED
  BY <1>1, <1>2, <1>3, <1>4, <1>5, <1>6, <1>7, <1>8, <1>9, <1>10, <1>11, <1>12, <1>13, <1>14, <1>15, <1>16
     DEF AccelNext, Run

\* For every set of tasks, whatever operations they ask for, whatever the bitstream can do, and
\* however often a frame is garbled, an answer late or the FPGA reset: what an operation takes
\* from the accelerator answers its own request, under its own AES key, unless a request went
\* out on a link that failed in between.
THEOREM AnswerIsMineHolds == AccelSpec => []AnswerIsMine
<1>1. AccelIInv => AnswerIsMine
  BY DEF AccelIInv
<1> QED  BY InitAccel, StepAccel, <1>1, PTL DEF AccelSpec

\* Under the same terms a genuine ciphertext is not called forged by a task that was told nothing
\* of the kind, and what was forged is not taken from the FPGA as opened.
THEOREM VerdictTrueHolds == AccelSpec => []VerdictTrue
<1>1. AccelIInv => VerdictTrue
  BY DEF AccelIInv, Typed, VerdictTrue
<1> QED  BY InitAccel, StepAccel, <1>1, PTL DEF AccelSpec
=============================================================================
