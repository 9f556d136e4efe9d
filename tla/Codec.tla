------------------------------- MODULE Codec -------------------------------
(***************************************************************************)
(* What the answer of authenticatorGetInfo holds and what the device reads *)
(* out of the requests of authenticatorConfig (src/FIDO2Manager.cpp), both *)
(* with the encoder and the parser of Cbor.  Wire carries them.            *)
(***************************************************************************)
EXTENDS Wire, Cbor

CONSTANTS
  Capacity,           \* room for the CBOR of an answer: 8191
  MinPins, Extras     \* of a host's request: minPINLength, and the bytes of an item under another key

-----------------------------------------------------------------------------
(* authenticatorGetInfo.                                                   *)

\* The option names in the order they are written: rk, up, uv, alwaysUv, credMgmt,
\* bioEnroll, clientPin, largeBlobs, pinUvAuthToken, credentialMgmtPreview,
\* userVerificationMgmtPreview; each with its rank among the names of its length.
OptionKeys ==
  <<Text(2, 1), Text(2, 2), Text(2, 3), Text(8, 1), Text(8, 2), Text(9, 1), Text(9, 2),
    Text(10, 1), Text(14, 1), Text(21, 1), Text(27, 1)>>

\* The header of an array or a map and what is written behind it.
Holding(header, items) == <<header>> \o items

Algorithm(alg) == Holding(Map(2), <<Text(3, 1), NegInt(alg), Text(4, 1), Text(10, 1)>>)

InfoNames ==
  <<UInt(1)>> \o Holding(Array(3), <<Text(8, 1), Text(12, 1), Text(8, 2)>>)
  \o <<UInt(2)>> \o Holding(Array(4), <<Text(11, 1), Text(11, 2), Text(12, 1), Text(8, 1)>>)
  \o <<UInt(3), ByteString(16)>>

\* Each option with its value.
OptionEntries == [i \in 1..22 |-> IF i % 2 = 1 THEN OptionKeys[(i + 1) \div 2] ELSE Bool(TRUE)]

InfoOptions == <<UInt(4)>> \o Holding(Map(11), OptionEntries)

InfoLimits ==
  <<UInt(5), UInt(8192), UInt(6)>> \o Holding(Array(1), <<UInt(1)>>)
  \o <<UInt(7), UInt(8), UInt(8), UInt(224), UInt(9)>> \o Holding(Array(1), <<Text(3, 1)>>)

InfoAlgorithms ==
  <<UInt(10)>>
  \o Holding(Array(6), Algorithm(-7) \o Algorithm(-8) \o Algorithm(-257)
                       \o Algorithm(-48) \o Algorithm(-49) \o Algorithm(-50))
  \o <<UInt(11), UInt(4096), UInt(15), UInt(32)>>

AfterNames   == Encode(<<>>, <<Map(12)>> \o InfoNames, Capacity)
AfterOptions == Encode(AfterNames, InfoOptions, Capacity)
AfterLimits  == Encode(AfterOptions, InfoLimits, Capacity)
GetInfoBytes == Encode(AfterLimits, InfoAlgorithms, Capacity)

\* Wire's InfoLen.
GetInfoLen == Len(GetInfoBytes)

-----------------------------------------------------------------------------
(* authenticatorConfig.                                                    *)

\* What a host sends: the sub-command, an item the device does not know, the parameters.
HostRequest(sub, n, extra) ==
  HeadBytes(5, 3) \o <<1>> \o HeadBytes(0, sub) \o <<9>> \o extra
  \o <<2>> \o HeadBytes(5, 2) \o <<1>> \o extra \o <<2>> \o HeadBytes(0, n)

\* Wire's ProperRequests.
HostRequests == {HostRequest(sub, n, extra) : sub \in 1..4, n \in MinPins, extra \in Extras}

\* What the device reads out of a request, and Wire's Parsed: that for every request.
DeviceReads(b) == ParseConfig(b, 2 * Len(b) + 1)
EveryRequest == [b \in HostRequests \cup RawRequests |-> DeviceReads(b)]

\* The buffer of an answer has room for GetInfo, whose items are nested three deep and hold at
\* most 12; a host's items are one each, and its minPINLength is a number the device can read.
\* What Wire carries is what the encoder writes, what the hosts write, and what the parser reads.
ASSUME CodecAssumption ==
  /\ Capacity \in Nat /\ 32 * (1 + Len(InfoNames) + Len(InfoOptions) + Len(InfoLimits) + Len(InfoAlgorithms)) < Capacity
  /\ MaxDepth >= 3 /\ MaxElements >= 12
  /\ \A n \in MinPins : n \in Nat /\ n <= Huge - 256
  /\ RawRequests \subseteq Seq(0..255) /\ Extras \subseteq Seq(0..255)
  /\ \A extra \in Extras : RefItem(extra, MaxDepth)
  /\ InfoLen = GetInfoLen /\ ProperRequests = HostRequests /\ Parsed = EveryRequest

-----------------------------------------------------------------------------
(* Properties.                                                             *)

\* The answer of GetInfo is exactly one CBOR item (the maps and arrays hold as many items
\* as they announce, and no write failed), and the keys of its options are in the
\* canonical order that Chromium insists on: by length, then bytewise.
InfoIsCanonical ==
  answer.kind = "getInfo" /\ offset = 0 =>
    /\ SkipValue(GetInfoBytes, 0, 0) = [ok |-> TRUE, at |-> answer.len - 1]
    /\ \A i \in 1..Len(OptionKeys) - 1 :
         LET k == OptionKeys[i]  l == OptionKeys[i + 1]
         IN  k.n < l.n \/ (k.n = l.n /\ k.fill < l.fill)

\* Whatever bytes a request holds, the parser's offset stays within them, and a string
\* is never longer than the buffer it is read into, its NUL included.
ParserStaysInside ==
  /\ DeviceReads(request).at <= Len(request)
  /\ \A at \in 0..Len(request) :
       /\ SkipValue(request, at, 0).at <= Len(request)
       /\ \A max \in 1..2, major \in {2, 3} :
            LET s == ReadString(request, at, major, max)
            IN  s.at <= Len(request) /\ s.written <= max

\* skipValue passes over exactly one item, wherever one begins.
SkipsOneItem ==
  Len(request) < 8 => \A k \in 1..Len(request) :
    RefItem(SubSeq(request, 1, k), MaxDepth) => SkipValue(request, 0, 0) = [ok |-> TRUE, at |-> k]

\* A proper request means to the device what it means to the host, whatever items it
\* has that the device does not know.
ConfigUnderstood ==
  answer.kind = "config" =>
    \A sub \in 1..4, n \in MinPins, extra \in Extras :
      request = HostRequest(sub, n, extra) =>
        LET p == DeviceReads(request)
        IN  p.ok /\ p.sub = sub /\ p.minPin = n

\* The CBOR engine and its users: GetInfo is one canonical item, the parser stays inside any
\* request, skips one item at a time, and understands every proper Config request.
CodecSound == WireTypeOK /\ InfoIsCanonical /\ ParserStaysInside /\ SkipsOneItem /\ ConfigUnderstood
=============================================================================
