-------------------------------- MODULE Wire --------------------------------
(***************************************************************************)
(* The FIDO task's side of the USB wire: the channel table and the         *)
(* dispatch of processCtapCommand, and sendCtapResponse, which cuts an     *)
(* answer into packets and gives up when the host does not take one within *)
(* 500 ms (src/FIDO2Manager.cpp).  The receiving half is CtapHid; what is  *)
(* in the answer of GetInfo and in the requests of authenticatorConfig is  *)
(* Codec's.                                                                *)
(*                                                                         *)
(* A packet carries which bytes of which answer it holds, not the bytes.   *)
(* Hosts are external: they follow the CTAPHID rules for assembling an     *)
(* answer, may give up waiting, and parse CBOR strictly.                   *)
(***************************************************************************)
EXTENDS Integers, Sequences, FiniteSetsExt

CONSTANTS
  Hosts,
  MaxChannels,        \* MAX_TRACKED_CHANNELS: 4
  InitData, ContData, \* payload of a packet: 57 and 59
  SeqNumbers,             \* sequence numbers of a packet: 128
  InfoLen,            \* bytes of the answer to GetInfo, without its status
  PingLens,           \* lengths of PING messages
  RawRequests,        \* authenticatorConfig requests of any bytes
  ProperRequests,     \* authenticatorConfig requests that hosts send
  Parsed,             \* what the device reads out of each request
  MaxRaw,             \* bound: they come among the first MaxRaw answers
  MaxInits,           \* bound: INITs
  MaxAnswers          \* bound: answers

ASSUME WireAssumption ==
  /\ MaxChannels \in Nat \ {0} /\ InitData \in Nat \ {0} /\ ContData \in Nat \ {0}
  /\ SeqNumbers \in Nat \ {0} /\ PingLens \subseteq Nat /\ InfoLen \in Nat
  /\ MaxRaw \in Nat /\ MaxInits \in Nat /\ MaxAnswers \in Nat

NoChannel == 0
Broadcast == -1       \* 0xFFFFFFFF

VARIABLES
  allocatedChannels, nextChannelSlot,
  forcePin, minPin,               \* /fido_force_pin.txt, /fido_min_pin.txt
  dev,                            \* the FIDO task: idle, or sending
  answer,                         \* the answer under way: number, kind, length, channel,
                                  \* and for INIT the nonce's host and the new channel
  offset, seq,                    \* locals of sendCtapResponse
  cid, waits, asm, taken,         \* each host: its channel, what it waits for, the answer it
                                  \* is assembling, the last one it took
  request,                        \* the request bytes last read
  handed,                         \* history: channels in the order they were entered
  answers

tableVars  == <<allocatedChannels, nextChannelSlot, handed>>
configVars == <<forcePin, minPin, request>>
sendVars   == <<answer, offset, seq>>
hostVars   == <<cid, waits, asm, taken>>
wireVars == <<tableVars, configVars, dev, sendVars, hostVars, answers>>

NoAnswer == [id |-> 0, kind |-> "none", len |-> 0, to |-> NoChannel,
             host |-> CHOOSE h \in Hosts : TRUE, new |-> NoChannel]
NoAsm    == [id |-> 0, len |-> 0, got |-> 0, next |-> 0, sound |-> TRUE]

WireInit ==
  /\ allocatedChannels = [i \in 0..MaxChannels - 1 |-> NoChannel] /\ nextChannelSlot = 0
  /\ handed = <<>>
  /\ forcePin = FALSE /\ minPin = 4 /\ request = <<>>
  /\ dev = "idle" /\ answer = NoAnswer /\ offset = 0 /\ seq = 0
  /\ cid = [h \in Hosts |-> NoChannel] /\ waits = [h \in Hosts |-> "no"]
  /\ asm = [h \in Hosts |-> NoAsm] /\ taken = [h \in Hosts |-> NoAsm]
  /\ answers = 0

-----------------------------------------------------------------------------
(* Channels.                                                               *)

IsChannelAllocated(c) ==
  c # NoChannel /\ \E i \in DOMAIN allocatedChannels : allocatedChannels[i] = c

\* rememberChannel: a new channel takes the oldest slot.
RememberAlways(c) ==                        \* mutant: a known channel takes another slot
  /\ allocatedChannels' = [allocatedChannels EXCEPT ![nextChannelSlot] = c]
  /\ nextChannelSlot' = (nextChannelSlot + 1) % MaxChannels
  /\ handed' = IF IsChannelAllocated(c) THEN handed ELSE Append(handed, c)
RememberChannel(c) ==
  IF \E i \in DOMAIN allocatedChannels : allocatedChannels[i] = c
  THEN UNCHANGED tableVars
  ELSE /\ allocatedChannels' = [allocatedChannels EXCEPT ![nextChannelSlot] = c]
       /\ nextChannelSlot' = (nextChannelSlot + 1) % MaxChannels
       /\ handed' = Append(handed, c)

\* The FIDO task takes a request of h and answers it on channel c.
Answers(h, c, kind, len, new) ==
  /\ dev = "idle" /\ waits[h] = "no" /\ answers < MaxAnswers
  /\ dev' = "sending"
  /\ answer' = [id |-> answers + 1, kind |-> kind, len |-> len, to |-> c, host |-> h, new |-> new]
  /\ offset' = 0 /\ seq' = 0 /\ answers' = answers + 1
  /\ waits' = [waits EXCEPT ![h] = kind]
  /\ UNCHANGED <<cid, asm, taken>>

\* CTAPHID_INIT on the broadcast channel, or on a channel the device has forgotten, gives
\* a new channel (esp_random is taken not to repeat one); otherwise the same again.  The
\* answer goes to the channel the request came on, with the host's nonce.
InitRequest(h, c) ==
  /\ c \in {Broadcast, cid[h]} \ {NoChannel}
  /\ Len(handed) < MaxInits
  /\ LET new == IF c = Broadcast \/ ~IsChannelAllocated(c) THEN Len(handed) + 1 ELSE c
     IN  RememberChannel(new) /\ Answers(h, c, "init", 17, new)
  /\ UNCHANGED configVars

\* The rest of processCtapCommand: PING needs no channel, the others an allocated one.
Ping(h, n) ==
  /\ cid[h] # NoChannel
  /\ Answers(h, cid[h], "ping", n, NoChannel)
  /\ UNCHANGED <<tableVars, configVars>>

Wink(h) ==
  /\ IsChannelAllocated(cid[h])
  /\ Answers(h, cid[h], "wink", 0, NoChannel)
  /\ UNCHANGED <<tableVars, configVars>>

Refused(h) ==
  /\ cid[h] # NoChannel /\ ~IsChannelAllocated(cid[h])
  /\ Answers(h, cid[h], "error", 1, NoChannel)
  /\ UNCHANGED <<tableVars, configVars>>

-----------------------------------------------------------------------------
(* Two commands of CTAPHID_CBOR: GetInfo and authenticatorConfig.          *)

GetInfo(h) ==
  /\ IsChannelAllocated(cid[h])
  /\ Answers(h, cid[h], "getInfo", 1 + InfoLen, NoChannel)
  /\ UNCHANGED <<tableVars, configVars>>

\* setMinPinLength keeps a byte, and getMinPinLength never returns less than 4.
MinPinLength(n) == Max({4, n % 256})

\* The mark is set and never cleared.
SetForcePinChange(p) == forcePin' = (forcePin \/ (p.ok /\ p.sub = 2))

Config(h, b) ==
  /\ IsChannelAllocated(cid[h])
  /\ LET p == Parsed[b] IN
     /\ Answers(h, cid[h], "config", IF p.ok /\ p.sub \in 1..3 THEN 2 ELSE 1, NoChannel)
     /\ SetForcePinChange(p)
     /\ minPin' = IF p.ok /\ p.sub = 3 THEN MinPinLength(p.minPin) ELSE minPin
     /\ request' = b
  /\ UNCHANGED tableVars

-----------------------------------------------------------------------------
(* sendCtapResponse, and the host's assembly.                              *)

OneSize == Min({ContData, answer.len - offset})     \* mutant: every packet counts for 59 bytes
Chunk == Min({IF offset = 0 THEN InitData ELSE ContData, answer.len - offset})

\* A host takes the packets of its own channel, and the INIT answer with its own nonce.
\* An initialisation packet begins an answer; a continuation must carry the next number
\* of the answer being assembled.
Addressed(h) == IF answer.kind = "init" THEN answer.host = h ELSE cid[h] = answer.to
Assembled(h, first) ==
  IF first THEN [id |-> answer.id, len |-> answer.len, got |-> Min({InitData, answer.len}), next |-> 0, sound |-> TRUE]
  ELSE IF asm[h].id # 0 /\ asm[h].next = seq % SeqNumbers /\ asm[h].next < SeqNumbers
  THEN [asm[h] EXCEPT !.got = Min({@ + ContData, asm[h].len}), !.next = @ + 1,
                      !.sound = @ /\ asm[h].id = answer.id /\ asm[h].got = offset]
  ELSE NoAsm
Receive(h, first) ==
  LET a == Assembled(h, first)
      whole == a.id # 0 /\ a.got >= a.len
  IN  /\ asm' = [asm EXCEPT ![h] = IF whole THEN NoAsm ELSE a]
      /\ taken' = [taken EXCEPT ![h] = IF whole THEN a ELSE @]
      /\ waits' = [waits EXCEPT ![h] = IF whole THEN "no" ELSE @]
      /\ cid' = [cid EXCEPT ![h] = IF whole /\ answer.kind = "init" THEN answer.new ELSE @]

\* The host polls, and SendReport succeeds.
SendPacket ==
  /\ dev = "sending"
  /\ \E h \in Hosts :
       /\ Addressed(h)
       /\ Receive(h, offset = 0)
  /\ offset' = offset + Chunk
  /\ seq' = IF offset = 0 THEN 0 ELSE seq + 1
  /\ dev' = IF offset' >= answer.len THEN "idle" ELSE "sending"
  /\ request' = IF offset' >= answer.len THEN <<>> ELSE request
  /\ UNCHANGED <<tableVars, forcePin, minPin, answer, answers>>

\* 500 ms without success: the rest of the answer is never sent.
RetryForEver ==                             \* mutant: no deadline
  /\ dev = "sending" /\ UNCHANGED wireVars
SendDeadline ==
  /\ dev = "sending"
  /\ dev' = "idle" /\ request' = <<>>
  /\ UNCHANGED <<tableVars, forcePin, minPin, sendVars, hostVars, answers>>

\* A host gives up; what it has assembled stays until the next initialisation packet.
HostGivesUp(h) ==
  /\ waits[h] # "no"
  /\ dev = "idle"
  /\ waits' = [waits EXCEPT ![h] = "no"]
  /\ UNCHANGED <<tableVars, configVars, dev, sendVars, cid, asm, taken, answers>>

WireNext ==
  \/ SendPacket \/ SendDeadline
  \/ \E h \in Hosts :
       \/ \E c \in {Broadcast, cid[h]} : InitRequest(h, c)
       \/ Wink(h) \/ Refused(h) \/ GetInfo(h) \/ HostGivesUp(h)
       \/ \E n \in PingLens : Ping(h, n)
       \/ \E b \in ProperRequests \cup (IF answers < MaxRaw THEN RawRequests ELSE {}) : Config(h, b)

WireSpec == WireInit /\ [][WireNext]_wireVars

\* The FIDO task runs, and each wait for the host has a deadline.
FairSpec == WireSpec /\ WF_wireVars(SendDeadline)

-----------------------------------------------------------------------------
(* Properties.                                                             *)

\* Every variable keeps its type.
WireTypeOK ==
  /\ allocatedChannels \in [0..MaxChannels - 1 -> 0..MaxInits] /\ nextChannelSlot \in 0..MaxChannels - 1
  /\ forcePin \in BOOLEAN /\ minPin \in 4..255
  /\ dev \in {"idle", "sending"} /\ offset \in 0..answer.len /\ seq \in Nat
  /\ \A h \in Hosts : cid[h] \in 0..MaxInits

\* An answer that a host takes as whole is one answer of the device, every byte in
\* its place, also after answers that were given up half way.
TakenIsSent == \A h \in Hosts : taken[h].sound

\* A channel is forgotten only for MaxChannels newer ones: hosts that ask again for
\* a channel they have push nobody out.
NewestKept ==
  \A i \in 1..Len(handed) : i > Len(handed) - MaxChannels => IsChannelAllocated(handed[i])

\* Every answer ends, sent or given up: a host that stops polling does not stop the
\* FIDO task.
SendEnds == (dev = "sending") ~> (dev = "idle")
=============================================================================
