-------------------------------- MODULE Cbor --------------------------------
(***************************************************************************)
(* The CBOR encoder and parser of src/CborEngine.cpp, as operators on      *)
(* sequences of bytes.  An encoder is what it has written so far, a parser *)
(* the bytes and its offset (counted from 0, as in the code).  The         *)
(* contents of a string are one byte repeated, so that strings of one      *)
(* length compare like that byte.  RefItem is the reference: the grammar   *)
(* of RFC 8949 without tags.                                               *)
(***************************************************************************)
EXTENDS Integers, SequencesExt

CONSTANTS
  MaxDepth,           \* MAX_CBOR_DEPTH: 16
  MaxElements         \* MAX_CBOR_ELEMENTS: 256

ASSUME CborAssumption == MaxDepth \in Nat /\ MaxElements \in Nat

Huge == 2147483647    \* stands for every value that no buffer holds, and for "indefinite"

-----------------------------------------------------------------------------
(* The encoder.                                                            *)

UInt(n)       == [major |-> 0, n |-> n, fill |-> 0]
NegInt(n)     == [major |-> 1, n |-> -1 - n, fill |-> 0]
ByteString(n) == [major |-> 2, n |-> n, fill |-> 0]
Text(n, rank) == [major |-> 3, n |-> n, fill |-> rank]
Array(n)      == [major |-> 4, n |-> n, fill |-> 0]
Map(n)        == [major |-> 5, n |-> n, fill |-> 0]
Bool(b)       == [major |-> 7, n |-> IF b THEN 21 ELSE 20, fill |-> 0]

\* The initial byte and the argument behind it, in the fewest bytes.
HeadBytes(major, n) ==
  IF n < 24 THEN <<32 * major + n>>
  ELSE IF n <= 255 THEN <<32 * major + 24, n>>
  ELSE IF n <= 65535 THEN <<32 * major + 25, n \div 256, n % 256>>
  ELSE <<32 * major + 26, n \div 16777216, (n \div 65536) % 256, (n \div 256) % 256, n % 256>>

\* Strings and headers the encoder has no form for: it returns false.
Encodable(t) ==
  /\ t.major \in {3, 4} => t.n <= 255
  /\ t.major \in {2, 5} => t.n <= 65535

\* Room is checked before anything is written; a string asks for 3 bytes more than its own.
Room(t, at, capacity) ==
  /\ at < capacity
  /\ IF t.major \in {2, 3} THEN at + t.n + 3 < capacity
                           ELSE at + Len(HeadBytes(t.major, t.n)) <= capacity

Fill(t) == IF t.major \in {2, 3} THEN [i \in 1..t.n |-> t.fill] ELSE <<>>

\* One write: the callers do not look at its result, and a failed write writes nothing.
WriteItem(out, t, capacity) ==
  IF Encodable(t) /\ Room(t, Len(out), capacity)
  THEN out \o HeadBytes(t.major, t.n) \o Fill(t) ELSE out

Encode(out, tokens, capacity) ==
  LET written[i \in 0..Len(tokens)] ==
        IF i = 0 THEN out ELSE WriteItem(written[i - 1], tokens[i], capacity)
  IN  IF Len(out) < capacity THEN written[Len(tokens)] ELSE out

-----------------------------------------------------------------------------
(* The parser.                                                             *)

\* The bytes behind the initial one, and what they stand for, the first the highest.
HighFirst(acc, byte) == acc * 256 + byte
Grown(acc, byte) == IF acc >= Huge \div 256 THEN Huge - 1 ELSE HighFirst(acc, byte)
HeadShort(info) ==
  IF info \notin 24..27 THEN 0
  ELSE IF info = 24 THEN 1 ELSE IF info = 25 THEN 2 ELSE IF info = 26 THEN 4 ELSE 8
TwoBytes(b, acc, at)  == Grown(Grown(acc, b[at + 1]), b[at + 2])
FourBytes(b, acc, at) == TwoBytes(b, TwoBytes(b, acc, at), at + 2)
Argument(b, at, info) ==
  IF info < 24 THEN info
  ELSE IF info = 24 THEN b[at + 1]
  ELSE IF info = 25 THEN TwoBytes(b, 0, at)
  ELSE IF info = 26 THEN FourBytes(b, 0, at)
  ELSE IF info = 27 THEN FourBytes(b, FourBytes(b, 0, at), at + 4)
  ELSE Huge

\* readTypeAndValue; on failure the offset stays where the initial byte was read.
ReadHead(b, at) ==
  IF at >= Len(b) THEN [ok |-> FALSE, major |-> 0, value |-> 0, at |-> at]
  ELSE LET major == b[at + 1] \div 32
           info  == b[at + 1] % 32
           end   == at + 1 + HeadShort(info)
       IN  IF info \in 28..30 \/ end > Len(b)
           THEN [ok |-> FALSE, major |-> major, value |-> 0, at |-> at + 1]
           ELSE [ok |-> TRUE, major |-> major, value |-> Argument(b, at + 1, info), at |-> end]

\* n more bytes are there; written as a subtraction, which a huge n cannot overflow.
Fits(b, at, n) == n <= Len(b) - at

\* readByteString and readTextString into a buffer of max bytes (a text keeps one for its
\* NUL); on failure the offset is restored.
ReadString(b, at, major, max) ==
  LET h    == ReadHead(b, at)
      room == IF major = 3 THEN max - 1 ELSE max
  IN  IF h.ok /\ h.major = major /\ h.value <= room /\ Fits(b, h.at, h.value)
      THEN [ok |-> TRUE, at |-> h.at + h.value, written |-> h.value + (IF major = 3 THEN 1 ELSE 0)]
      ELSE [ok |-> FALSE, at |-> at, written |-> 0]

\* skipValue.  skip[rest] is what skipValue does with the last rest bytes: to one value
\* it passes over the values inside and behind it, whose bytes are fewer.  left values
\* come one after the other; then, for an indefinite length, groups of values up to the
\* break byte, which must come.  A failure ends it and leaves the offset where it is.
Calls == [depth : Nat, left : Nat, group : 0..2]

\* Strings of indefinite length are skipped like arrays: by their chunks.
SkipBody(b, skip, depth, h) ==
  LET open  == h.value = Huge
      width == IF h.major = 5 THEN 2 ELSE 1
  IN  IF ~h.ok \/ h.major = 6 \/ (h.major \in {4, 5} /\ ~open /\ h.value > MaxElements)
      THEN [ok |-> FALSE, at |-> h.at]
      ELSE IF h.major \in {0, 1, 7} THEN [ok |-> TRUE, at |-> h.at]
      ELSE IF h.major \in {2, 3} /\ ~open
      THEN LET fits == Fits(b, h.at, h.value) IN [ok |-> fits, at |-> h.at + IF fits THEN h.value ELSE 0]
      ELSE skip[Len(b) - h.at][[depth |-> depth + 1, left  |-> IF open THEN 0 ELSE h.value * width,
                                group |-> IF open THEN width ELSE 0]]

SkipOne(b, skip, at, depth) ==
  IF depth > MaxDepth \/ at >= Len(b) THEN [ok |-> FALSE, at |-> at]
  ELSE IF b[at + 1] = 255 THEN [ok |-> TRUE, at |-> at + 1]
  ELSE SkipBody(b, skip, depth, ReadHead(b, at))

AtEnd(b, at, c) == c.left = 0 /\ (c.group = 0 \/ at >= Len(b) \/ b[at + 1] = 255)

OneMore(b, skip, at, c) ==
  LET s    == SkipOne(b, skip, at, c.depth)
      left == IF c.left = 0 THEN c.group ELSE c.left
  IN  IF s.ok THEN skip[Len(b) - s.at][[c EXCEPT !.left = left - 1]] ELSE s

BreakLeft(b, skip, at, c) ==                           \* mutant: the break byte is left
  IF AtEnd(b, at, c) THEN [ok |-> c.group = 0 \/ at < Len(b), at |-> at] ELSE OneMore(b, skip, at, c)
SkipItems(b, skip, at, c) ==
  IF AtEnd(b, at, c)
  THEN [ok |-> c.group = 0 \/ at < Len(b), at |-> IF c.group # 0 /\ at < Len(b) THEN at + 1 ELSE at]
  ELSE OneMore(b, skip, at, c)

Skip(b) ==
  LET skip[rest \in 0..Len(b)] == [c \in Calls |-> SkipItems(b, skip, Len(b) - rest, c)]
  IN  skip

SkipValue(b, at, depth) == SkipOne(b, Skip(b), at, depth)

\* The request of authenticatorConfig: unsigned keys are looked at, the value of key 1 is
\* the sub-command, key 2 holds a map with minPINLength under key 2, and anything else is
\* skipped.  A step reads one entry of the inner map, when it is open, or of the request: key is
\* its first head and val the head behind that.
Known(key, k) == key.ok /\ key.major = 0 /\ key.value = k

ConfigEntry(b, p, key, val) ==
  LET top  == p.inner = 0
      rest == IF top THEN [p EXCEPT !.left = @ - 1] ELSE [p EXCEPT !.inner = @ - 1]
      open == Known(key, 2) /\ top /\ val.ok /\ val.major = 5
      sub  == Known(key, 1) /\ top
      pin  == Known(key, 2) /\ ~top
  IN  IF open \/ sub \/ pin
      THEN [rest EXCEPT !.at = val.at, !.inner = IF open THEN val.value ELSE @,
                        !.sub = IF sub /\ val.ok THEN val.value ELSE @,
                        !.minPin = IF pin /\ val.ok THEN val.value ELSE @]
      ELSE [rest EXCEPT !.at = SkipValue(b, IF Known(key, 2) THEN val.at ELSE key.at, 0).at]

ConfigStart(b) ==
  LET root == ReadHead(b, 0)
  IN  [ok |-> root.ok /\ root.major = 5, at |-> root.at, left |-> root.value, inner |-> 0, sub |-> 0, minPin |-> 0]

ConfigStep(b, p) ==
  LET key == ReadHead(b, p.at)
  IN  IF p.ok /\ (p.left > 0 \/ p.inner > 0) THEN ConfigEntry(b, p, key, ReadHead(b, key.at)) ELSE p

\* No request goes through more than count entries in the model.
ParseConfig(b, count) ==
  LET run[i \in 0..count] == IF i = 0 THEN ConfigStart(b) ELSE ConfigStep(b, run[i - 1])
  IN  run[count]

-----------------------------------------------------------------------------
(* The reference.  ref[m] tells of m bytes behind from whether they are n  *)
(* items, nested at most to depth.                                         *)

Spans == [from : Nat, n : Nat, depth : Int]

RefOne(s, ref, from, m, depth) ==
  /\ m > 0 /\ depth >= 0
  /\ LET major == s[from + 1] \div 32
         info  == s[from + 1] % 32
         head  == 1 + HeadShort(info)
         value == ReadHead(s, from).value
     IN  /\ m >= head /\ major # 6 /\ info \notin 28..30
         /\ IF info = 31
            THEN /\ major \in 2..5 /\ m >= 2 /\ s[from + m] = 255
                 /\ \E n \in 0..m - 2 : /\ major # 5 \/ n % 2 = 0
                                       /\ ref[m - 2][[from |-> from + 1, n |-> n, depth |-> depth - 1]]
            ELSE /\ major \in {0, 1, 7} => m = head
                 /\ major \in {2, 3} => m - head = value
                 /\ major \in {4, 5} =>
                      /\ value <= MaxElements
                      /\ ref[m - head][[from |-> from + head, depth |-> depth - 1,
                                        n |-> IF major = 5 THEN 2 * value ELSE value]]

RefItems(s, ref, m, c) ==
  IF c.n = 0 THEN m = 0
  ELSE \E k \in 1..m : /\ RefOne(s, ref, c.from, k, c.depth)
                        /\ ref[m - k][[from |-> c.from + k, n |-> c.n - 1, depth |-> c.depth]]

Ref(s) ==
  LET ref[m \in 0..Len(s)] == [c \in Spans |-> RefItems(s, ref, m, c)]
  IN  ref

\* s is exactly one item.
RefItem(s, depth) == RefOne(s, Ref(s), 0, Len(s), depth)
=============================================================================
