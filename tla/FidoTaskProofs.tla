--------------------------- MODULE FidoTaskProofs ---------------------------
(***************************************************************************)
(* Proofs about the FIDO task: LargeBlob, for any arrays, any lengths and  *)
(* fragment sizes, any failures of malloc and of the flash, and any number *)
(* of power cuts; Wire, for any hosts, any number of channels and answers  *)
(* of any length, sizes of packets and sequence numbers; and Codec, for    *)
(* any bytes of a request and any bounds of depth and elements.            *)
(***************************************************************************)
EXTENDS LargeBlob, Codec, SequenceTheorems, WellFoundedInduction, TLAPS

-----------------------------------------------------------------------------
(* LargeBlob.                                                              *)

\* The statics describe the buffer, except after malloc has failed.
BufferHolds ==
  held =>
    /\ received = Len(buf) /\ received <= capacity
    /\ size = capacity /\ expected = capacity

\* Bytes that begin as a confirmed fragment, no more than were declared with it.
Begins(c, bytes) ==
  /\ Len(bytes) > 0 => c.first # << >>
  /\ Len(c.first) <= Len(bytes) /\ Len(bytes) <= c.len
  /\ \A i \in 1..Len(c.first) : c.first[i] = bytes[i]

\* The buffer begins as the fragment a finger confirmed last and is as long as
\* was declared with it: only a fragment for offset 0 begins one.
FirstConfirmed == held => \E c \in confirmed : c.len = capacity /\ Begins(c, buf)

\* The handler goes on to the file with a buffer, and with a checked one.
HandlerHolds ==
  /\ pc # "idle" => held /\ Len(buf) = capacity
  /\ pc = "writing" => \E a \in Good : buf = Data[a]

Control == BufferHolds /\ FirstConfirmed /\ HandlerHolds

IInv == WriteType /\ Control

-----------------------------------------------------------------------------
\* A piece of an array is a sequence of n of its bytes.
LEMMA PieceType ==
  ASSUME NEW a \in Arrays, NEW off \in Nat, NEW n \in Nat, off + n <= Len(Data[a])
  PROVE  /\ Piece(a, off, n) \in Seq(Bytes)
         /\ Len(Piece(a, off, n)) = n
         /\ n > 0 => Piece(a, off, n) # << >>
<1>1. Data[a] \in Seq(Bytes)
  BY LargeBlobAssumption
<1>2. ASSUME NEW s \in Seq(Bytes), off + n <= Len(s)
      PROVE  SubSeq(s, off + 1, off + n) \in Seq(Bytes) /\ Len(SubSeq(s, off + 1, off + n)) = n
  BY <1>2
<1>3. Piece(a, off, n) \in Seq(Bytes) /\ Len(Piece(a, off, n)) = n
  BY <1>1, <1>2 DEF Piece
<1> QED
  BY <1>3

\* A beginning of a sequence.
LEMMA Beginning ==
  ASSUME NEW S, NEW s \in Seq(S), NEW k \in 0..Len(s)
  PROVE  /\ SubSeq(s, 1, k) \in Seq(S)
         /\ Len(SubSeq(s, 1, k)) = k
         /\ \A i \in 1..k : SubSeq(s, 1, k)[i] = s[i]
         /\ k = 0 => SubSeq(s, 1, k) = << >>
         /\ k = Len(s) => SubSeq(s, 1, k) = s
OBVIOUS

\* A beginning of a whole array is a piece of it.
LEMMA BeginningOfWhole ==
  ASSUME NEW a \in Good, NEW k \in 0..Len(Data[a])
  PROVE  /\ Len(SubSeq(Data[a], 1, k)) <= Len(Data[a])
         /\ SubSeq(Data[a], 1, k) = Piece(a, 0, Len(SubSeq(Data[a], 1, k)))
         /\ k = Len(Data[a]) => SubSeq(Data[a], 1, k) = Data[a]
<1>1. Data[a] \in Seq(Bytes)
  BY LargeBlobAssumption
<1>2. /\ Len(SubSeq(Data[a], 1, k)) = k /\ k <= Len(Data[a]) /\ k \in Nat
      /\ k = Len(Data[a]) => SubSeq(Data[a], 1, k) = Data[a]
  BY <1>1, Beginning
<1>3. Piece(a, 0, k) = SubSeq(Data[a], 1, k)
  BY <1>2 DEF Piece
<1> QED
  BY <1>2, <1>3

\* Appending bytes keeps those before them.
LEMMA Appending ==
  ASSUME NEW s \in Seq(Bytes), NEW t \in Seq(Bytes)
  PROVE  /\ s \o t \in Seq(Bytes) /\ Len(s \o t) = Len(s) + Len(t)
         /\ \A i \in 1..Len(s) : (s \o t)[i] = s[i]
OBVIOUS

\* What a confirmation is.
LEMMA ConfirmedType ==
  ASSUME WriteType, NEW c \in confirmed
  PROVE  c.first \in Seq(Bytes) /\ Len(c.first) \in Nat /\ c.len \in 1..MaxArray
BY DEF WriteType

-----------------------------------------------------------------------------
LEMMA InitIInv == Init => IInv
<1> SUFFICES ASSUME Init PROVE IInv
  OBVIOUS
<1>1. WriteType
  BY LargeBlobAssumption DEF Init, WriteType
<1>2. Control
  BY DEF Init, Control, BufferHolds, FirstConfirmed, HandlerHolds
<1> QED
  BY <1>1, <1>2 DEF IInv

\* The buffer after it has been released.
LEMMA ReleaseIInv ==
  ASSUME IInv, Release, pc' = "idle",
         file' \in Seq(Bytes), cuts' \in Nat, confirmed' \subseteq [first : Seq(Bytes), len : 1..MaxArray]
  PROVE  IInv'
<1>1. WriteType'
  BY LargeBlobAssumption DEF IInv, WriteType, Release
<1>2. Control'
  BY DEF Release, Control, BufferHolds, FirstConfirmed, HandlerHolds
<1> QED
  BY <1>1, <1>2 DEF IInv

\* The buffer after a fragment has been put into it.
LEMMA ReceivedIInv ==
  ASSUME IInv, NEW bytes \in Seq(Bytes), NEW len \in 0..MaxArray, Len(bytes) <= len,
         Received(bytes, len),
         \E c \in confirmed' : c.len = len /\ Begins(c, bytes),
         confirmed' \subseteq [first : Seq(Bytes), len : 1..MaxArray], UNCHANGED <<file, cuts>>
  PROVE  IInv'
<1>1. WriteType'
  BY LargeBlobAssumption DEF IInv, WriteType, Received
<1>2. BufferHolds'
  BY DEF Received, BufferHolds
<1>3. FirstConfirmed'
  BY DEF Received, FirstConfirmed, Begins
<1>4. HandlerHolds'
  BY DEF Received, HandlerHolds
<1> QED
  BY <1>1, <1>2, <1>3, <1>4 DEF IInv, Control

\* A step that leaves the buffer and the confirmation alone.
LEMMA BufferKept ==
  ASSUME IInv, UNCHANGED <<bufVars, pc, confirmed>>, file' \in Seq(Bytes), cuts' \in Nat
  PROVE  IInv'
<1>1. WriteType'
  BY DEF IInv, WriteType, bufVars
<1>2. BufferHolds' /\ HandlerHolds'
  BY DEF IInv, Control, BufferHolds, HandlerHolds, bufVars
<1>3. FirstConfirmed'
  BY DEF IInv, Control, FirstConfirmed, Begins, bufVars
<1> QED
  BY <1>1, <1>2, <1>3 DEF IInv, Control

LEMMA StepIInv == IInv /\ [Next]_vars => IInv'
<1> SUFFICES ASSUME IInv, [Next]_vars PROVE IInv'
  OBVIOUS
<1>0. /\ buf \in Seq(Bytes) /\ file \in Seq(Bytes) /\ cuts \in Nat
      /\ confirmed \subseteq [first : Seq(Bytes), len : 1..MaxArray]
  BY DEF IInv, WriteType
<1>1. ASSUME NEW a \in Arrays, NEW n \in 0..MaxFragment, NEW len \in 0..(MaxArray + 1), Begin(a, n, len)
      PROVE  IInv'
  <2>1. n \in Nat /\ len \in 1..MaxArray /\ 0 + n <= Len(Data[a])
    BY <1>1, LargeBlobAssumption DEF Begin
  <2> DEFINE c == [first |-> Piece(a, 0, n), len |-> len]
  <2>2. confirmed' = {c} /\ UNCHANGED <<file, cuts>>
    BY <1>1 DEF Begin
  <2>3. /\ Piece(a, 0, n) \in Seq(Bytes) /\ Len(Piece(a, 0, n)) = n
        /\ n > 0 => Piece(a, 0, n) # << >>
    BY <2>1, PieceType
  <2>4. c \in [first : Seq(Bytes), len : 1..MaxArray]
    BY <2>1, <2>3
  <2>5. confirmed' \subseteq [first : Seq(Bytes), len : 1..MaxArray]
    BY <2>2, <2>4
  <2>6. CASE held' = FALSE /\ size' = 0 /\ buf' = << >> /\ pc' = "idle"
             /\ UNCHANGED <<capacity, expected, received>>
    <3>1. WriteType'
      <4>1. /\ buf' \in Seq(Bytes) /\ file' \in Seq(Bytes) /\ cuts' \in Nat /\ pc' = "idle"
            /\ size' \in 0..MaxArray
        BY <1>0, <2>2, <2>6, LargeBlobAssumption
      <4>2. /\ capacity' \in 0..MaxArray /\ expected' \in 0..MaxArray
            /\ received' \in Nat
        BY <2>6 DEF IInv, WriteType
      <4> HIDE DEF c
      <4> QED
        BY <2>5, <4>1, <4>2 DEF WriteType
    <3>2. Control'
      BY <2>6 DEF Control, BufferHolds, FirstConfirmed, HandlerHolds
    <3> QED
      BY <3>1, <3>2 DEF IInv
  <2>7. CASE n <= len /\ Received(Piece(a, 0, n), len)
    <3>1. c.len = len /\ Begins(c, Piece(a, 0, n))
      <4>1. c.first = Piece(a, 0, n) /\ c.len = len
        OBVIOUS
      <4> HIDE DEF c
      <4> QED
        BY <2>1, <2>3, <2>7, <4>1 DEF Begins
    <3>2. \E d \in confirmed' : d.len = len /\ Begins(d, Piece(a, 0, n))
      <4> HIDE DEF c
      <4> QED
        BY <2>2, <3>1
    <3> HIDE DEF c
    <3> QED
      BY <2>1, <2>2, <2>3, <2>5, <2>7, <3>2, ReceivedIInv
  <2>8. CASE Release /\ pc' = "idle"
    BY <1>0, <2>2, <2>5, <2>8, ReleaseIInv
  <2> QED
    BY <1>1, <2>6, <2>7, <2>8 DEF Begin
<1>2. ASSUME NEW a \in Arrays, NEW n \in 0..MaxFragment, NEW off \in 1..MaxArray, NextFragment(a, off, n)
      PROVE  IInv'
  <2>1. UNCHANGED <<file, confirmed, cuts>>
    BY <1>2 DEF NextFragment
  <2>2. CASE held /\ off = received /\ off + n <= capacity
    <3> DEFINE more == buf \o Piece(a, off, n)
    <3>1. Received(more, capacity)
      BY <1>2, <2>2 DEF NextFragment
    <3>2. off \in Nat /\ n \in Nat /\ off > 0 /\ off + n <= Len(Data[a])
      BY <1>2, LargeBlobAssumption DEF NextFragment
    <3>3. Piece(a, off, n) \in Seq(Bytes) /\ Len(Piece(a, off, n)) = n
      BY <3>2, PieceType
    <3>4. Len(buf) = off /\ capacity \in 0..MaxArray
      <4>1. received = Len(buf)
        BY <2>2, Zenon DEF IInv, Control, BufferHolds
      <4> QED
        BY <2>2, <4>1 DEF IInv, WriteType
    <3>5. /\ more \in Seq(Bytes) /\ Len(more) = off + n
          /\ \A i \in 1..Len(buf) : more[i] = buf[i]
      <4>1. ASSUME NEW t \in Seq(Bytes)
            PROVE  /\ buf \o t \in Seq(Bytes) /\ Len(buf \o t) = Len(buf) + Len(t)
                   /\ \A i \in 1..Len(buf) : (buf \o t)[i] = buf[i]
        BY <1>0, Appending, Zenon
      <4> QED
        BY <3>3, <3>4, <4>1, Zenon
    <3> HIDE DEF more
    <3>6. PICK c \in confirmed : c.len = capacity /\ Begins(c, buf)
      BY <2>2 DEF IInv, Control, FirstConfirmed
    <3>7. Len(c.first) \in Nat
      BY ConfirmedType DEF IInv
    <3>8. Begins(c, more)
      BY <2>2, <3>2, <3>4, <3>5, <3>6, <3>7 DEF Begins
    <3>9. \E d \in confirmed' : d.len = capacity /\ Begins(d, more)
      BY <2>1, <3>6, <3>8
    <3> QED
      BY <1>0, <2>1, <2>2, <3>1, <3>4, <3>5, <3>9, ReceivedIInv
  <2>3. CASE ~(held /\ off = received /\ off + n <= capacity)
    <3>1. Release /\ pc' = "idle"
      BY <1>2, <2>3 DEF NextFragment
    <3> QED
      BY <1>0, <2>1, <3>1, ReleaseIInv
  <2> QED
    BY <2>2, <2>3
<1>3. CASE Check
  <2>1. UNCHANGED <<confirmed, cuts>>
    BY <1>3 DEF Check
  <2>2. CASE Release /\ pc' = "idle" /\ UNCHANGED file
    BY <1>0, <2>1, <2>2, ReleaseIInv
  <2>3. CASE integrityOk /\ file' = << >> /\ pc' = "writing" /\ UNCHANGED bufVars
    <3>1. WriteType'
      BY <2>1, <2>3 DEF IInv, WriteType, bufVars
    <3>2. held /\ Len(buf) = capacity
      BY <1>3 DEF Check, IInv, Control, HandlerHolds
    <3>3. HandlerHolds' /\ BufferHolds'
      BY <2>3, <3>2 DEF integrityOk, IInv, Control, HandlerHolds, BufferHolds, bufVars
    <3>4. FirstConfirmed'
      BY <2>1, <2>3 DEF IInv, Control, FirstConfirmed, Begins, bufVars
    <3> QED
      BY <3>1, <3>3, <3>4 DEF IInv, Control
  <2> QED
    BY <1>3, <2>2, <2>3 DEF Check
<1>4. ASSUME NEW k \in 0..Len(buf), file' = SubSeq(buf, 1, k) PROVE file' \in Seq(Bytes)
  BY <1>0, <1>4, Beginning
<1>5. CASE Write
  <2>1. file' \in Seq(Bytes)
    BY <1>4, <1>5 DEF Write
  <2> QED
    BY <1>0, <1>5, <2>1, ReleaseIInv DEF Write
<1>6. CASE Cut
  <2>1. file' \in Seq(Bytes)
    BY <1>0, <1>4, <1>6 DEF Cut
  <2>2. cuts' \in Nat
    BY <1>0, <1>6 DEF Cut
  <2> QED
    BY <1>0, <1>6, <2>1, <2>2, ReleaseIInv DEF Cut
<1>7. CASE Reset
  <2>1. file' \in Seq(Bytes) /\ pc' = "idle" /\ confirmed' \subseteq [first : Seq(Bytes), len : 1..MaxArray]
    BY <1>7 DEF Reset
  <2> QED
    BY <1>0, <1>7, <2>1, ReleaseIInv DEF Reset
<1>8. CASE FactoryReset
  <2>1. UNCHANGED <<bufVars, pc, confirmed>> /\ file' \in Seq(Bytes) /\ cuts' \in Nat
    BY <1>0, <1>8 DEF FactoryReset
  <2> QED
    BY <2>1, BufferKept
<1>9. CASE (\E n \in 1..MaxFragment, ok \in BOOLEAN : Get(n, ok)) \/ ReadAgain \/ UNCHANGED vars
  <2>1. UNCHANGED <<bufVars, pc, file, confirmed, cuts>>
    BY <1>9 DEF Get, ReadAgain, vars
  <2> QED
    BY <1>0, <2>1, BufferKept
<1> QED
  BY <1>1, <1>2, <1>3, <1>5, <1>6, <1>7, <1>8, <1>9 DEF Next

-----------------------------------------------------------------------------
\* InBounds: no fragment is copied past the end of the allocated buffer, for
\* any lengths, offsets and failures of malloc.
THEOREM InBoundsHolds == Spec => []InBounds
<1>1. IInv => InBounds
  BY DEF IInv, WriteType, Control, BufferHolds, InBounds
<1> QED
  BY <1>1, InitIInv, StepIInv, PTL DEF Spec

\* StoredWasConfirmed: whatever fragments follow, from whichever platform, what
\* is written begins as the fragment a finger confirmed last, since the last
\* Reset, and has the length declared with it.
THEOREM StoredWasConfirmedHolds == Spec => StoredWasConfirmed
<1> DEFINE Confirmed(c) ==
      /\ c.first # << >> /\ Agree(c.first, file')
      /\ Len(file') <= c.len /\ (~damaged' => Len(file') = c.len)
<1>1. ASSUME IInv, [Next]_vars, file' # file, file' # << >>
      PROVE  \E c \in confirmed : Confirmed(c)
  <2>1. ASSUME NEW k \in 0..Len(buf), file' = SubSeq(buf, 1, k), pc = "writing", damaged' \/ k = Len(buf)
        PROVE  \E c \in confirmed : Confirmed(c)
    <3>1. held /\ Len(buf) = capacity /\ buf \in Seq(Bytes)
      BY <1>1, <2>1 DEF IInv, WriteType, Control, HandlerHolds
    <3>2. PICK c \in confirmed : c.len = capacity /\ Begins(c, buf)
      BY <1>1, <3>1 DEF IInv, Control, FirstConfirmed
    <3>3. c.first \in Seq(Bytes) /\ Len(c.first) \in Nat /\ c.len \in Nat
      BY <1>1, ConfirmedType, LargeBlobAssumption DEF IInv
    <3>4. /\ file' \in Seq(Bytes) /\ Len(file') = k
          /\ \A i \in 1..k : file'[i] = buf[i]
          /\ k = 0 => file' = << >>
      BY <2>1, <3>1, Beginning
    <3>5. Len(buf) \in Nat /\ k \in Nat /\ k > 0 /\ k <= Len(buf)
      BY <1>1, <3>1, <3>4
    <3>6. c.first # << >> /\ \A i \in 1..Len(c.first) : c.first[i] = buf[i]
      BY <3>2, <3>5 DEF Begins
    <3>7. DOMAIN c.first = 1..Len(c.first) /\ DOMAIN file' = 1..k
      BY <3>3, <3>4
    <3>8. Agree(c.first, file')
      BY <3>4, <3>6, <3>7 DEF Agree
    <3>9. Len(file') <= c.len /\ (~damaged' => Len(file') = c.len)
      BY <2>1, <3>1, <3>2, <3>4, <3>5
    <3> QED
      BY <3>6, <3>8, <3>9
  <2> HIDE DEF Confirmed
  <2>2. CASE Write
    <3>1. PICK k \in 0..Len(buf) : file' = SubSeq(buf, 1, k) /\ damaged' = (k # Len(buf))
      BY <2>2 DEF Write
    <3>2. damaged' \/ k = Len(buf)
      BY <3>1, Zenon
    <3> QED
      BY <2>1, <2>2, <3>1, <3>2 DEF Write
  <2>3. CASE Cut
    <3>1. pc = "writing" /\ damaged' /\ \E k \in 0..Len(buf) : file' = SubSeq(buf, 1, k)
      BY <1>1, <2>3 DEF Cut
    <3> QED
      BY <2>1, <3>1
  <2>4. ASSUME UNCHANGED file \/ file' = << >> PROVE FALSE
    BY <1>1, <2>4
  <2>5. ASSUME NEW a \in Arrays, NEW n \in 0..MaxFragment,
               \/ \E len \in 0..(MaxArray + 1) : Begin(a, n, len)
               \/ \E off \in 1..MaxArray : NextFragment(a, off, n)
        PROVE  FALSE
    BY <2>4, <2>5 DEF Begin, NextFragment
  <2>6. CASE Check \/ Reset \/ FactoryReset
    BY <2>4, <2>6 DEF Check, Reset, FactoryReset
  <2>7. CASE (\E n \in 1..MaxFragment, ok \in BOOLEAN : Get(n, ok)) \/ ReadAgain \/ UNCHANGED vars
    BY <2>4, <2>7 DEF Get, ReadAgain, vars
  <2> QED
    BY <1>1, <2>2, <2>3, <2>5, <2>6, <2>7 DEF Next
<1>2. IInv /\ [Next]_vars => [file' # file /\ file' # << >> => \E c \in confirmed : Confirmed(c)]_vars
  BY <1>1
<1> QED
  BY <1>2, InitIInv, StepIInv, PTL DEF Spec, StoredWasConfirmed

\* StoredOneArray: the file is one array with a right hash, or a beginning of
\* one after a power cut or a short write, however fragments are mixed.
THEOREM StoredOneArrayHolds == Spec => []StoredOneArray
<1>1. Init => StoredOneArray
  BY DEF Init, StoredOneArray
<1>2. IInv /\ StoredOneArray /\ [Next]_vars => StoredOneArray'
  <2> SUFFICES ASSUME IInv, StoredOneArray, [Next]_vars PROVE StoredOneArray'
    OBVIOUS
  <2>1. ASSUME UNCHANGED <<file, damaged>> PROVE StoredOneArray'
    BY <2>1 DEF StoredOneArray, Piece
  <2>2. ASSUME file' = << >> PROVE StoredOneArray'
    BY <2>2 DEF StoredOneArray
  <2>3. ASSUME pc = "writing", NEW k \in 0..Len(buf), file' = SubSeq(buf, 1, k),
               damaged' \/ k = Len(buf)
        PROVE  StoredOneArray'
    <3>1. PICK a \in Good : buf = Data[a]
      BY <2>3 DEF IInv, Control, HandlerHolds
    <3>2. /\ Len(file') <= Len(Data[a])
          /\ file' = Piece(a, 0, Len(file'))
          /\ k = Len(buf) => file' = Data[a]
      BY <2>3, <3>1, BeginningOfWhole
    <3> QED
      BY <2>3, <3>2 DEF StoredOneArray, Piece
  <2>4. CASE Check
    BY <2>1, <2>2, <2>4 DEF Check
  <2>5. CASE Write
    <3>1. PICK k \in 0..Len(buf) : file' = SubSeq(buf, 1, k) /\ damaged' = (k # Len(buf))
      BY <2>5 DEF Write
    <3>2. damaged' \/ k = Len(buf)
      BY <3>1, Zenon
    <3> QED
      BY <2>3, <2>5, <3>1, <3>2 DEF Write
  <2>6. CASE Cut
    <3>1. CASE pc = "writing"
      <4>1. PICK k \in 0..Len(buf) : file' = SubSeq(buf, 1, k)
        BY <2>6, <3>1 DEF Cut
      <4> QED
        BY <2>3, <2>6, <3>1, <4>1 DEF Cut
    <3>2. CASE pc # "writing"
      BY <2>1, <2>6, <3>2 DEF Cut
    <3> QED
      BY <3>1, <3>2
  <2>7. CASE Reset \/ FactoryReset
    BY <2>2, <2>7 DEF Reset, FactoryReset
  <2>8. ASSUME NEW a \in Arrays, NEW n \in 0..MaxFragment,
               \/ \E len \in 0..(MaxArray + 1) : Begin(a, n, len)
               \/ \E off \in 1..MaxArray : NextFragment(a, off, n)
        PROVE  StoredOneArray'
    BY <2>1, <2>8 DEF Begin, NextFragment
  <2>9. CASE (\E n \in 1..MaxFragment, ok \in BOOLEAN : Get(n, ok)) \/ ReadAgain \/ UNCHANGED vars
    BY <2>1, <2>9 DEF Get, ReadAgain, vars
  <2> QED
    BY <2>4, <2>5, <2>6, <2>7, <2>8, <2>9 DEF Next
<1> QED
  BY <1>1, <1>2, InitIInv, StepIInv, PTL DEF Spec

-----------------------------------------------------------------------------
\* A fragment that is served is made of bytes.
LEMMA FragmentType ==
  ASSUME file \in Seq(Bytes), NEW off \in Nat, NEW n \in Nat, NEW ok \in BOOLEAN
  PROVE  Fragment(off, n, ok) \in Seq(Bytes)
<1>1. Served(ok) \in Seq(Bytes)
  BY LargeBlobAssumption DEF Served
<1>2. ASSUME NEW s \in Seq(Bytes)
      PROVE  SubSeq(s, off + 1, IF off + n < Len(s) THEN off + n ELSE Len(s)) \in Seq(Bytes)
  OBVIOUS
<1> QED
  BY <1>1, <1>2 DEF Fragment

LEMMA StepReadType == IInv /\ ReadType /\ [Next]_vars => ReadType'
<1> SUFFICES ASSUME IInv, ReadType, [Next]_vars PROVE ReadType'
  OBVIOUS
<1>1. ASSUME NEW n \in 1..MaxFragment, NEW ok \in BOOLEAN, Get(n, ok) PROVE ReadType'
  <2>1. Len(got) \in Nat /\ n \in Nat /\ file \in Seq(Bytes)
    BY LargeBlobAssumption DEF ReadType, IInv, WriteType
  <2>2. Fragment(Len(got), n, ok) \in Seq(Bytes)
    BY <2>1, FragmentType
  <2>3. got' = got \o Fragment(Len(got), n, ok)
    BY <1>1 DEF Get
  <2> QED
    BY <2>2, <2>3 DEF ReadType
<1>2. CASE ReadAgain
  BY <1>2 DEF ReadAgain, ReadType
<1>3. ASSUME UNCHANGED got PROVE ReadType'
  BY <1>3 DEF ReadType
<1> QED
  BY <1>1, <1>2, <1>3
  DEF Next, Begin, NextFragment, Check, Write, Reset, FactoryReset, Cut, readVars, vars

LEMMA StepFlagType == FlagType /\ [Next]_vars => FlagType'
<1> SUFFICES ASSUME FlagType, [Next]_vars PROVE FlagType'
  OBVIOUS
<1> USE DEF FlagType, bufVars, readVars
<1>1. ASSUME NEW a \in Arrays, NEW n \in 0..MaxFragment, NEW len \in 0..(MaxArray + 1), Begin(a, n, len)
      PROVE  FlagType'
  BY <1>1, Zenon DEF Begin, Received, Release
<1>2. ASSUME NEW a \in Arrays, NEW n \in 0..MaxFragment, NEW off \in 1..MaxArray, NextFragment(a, off, n)
      PROVE  FlagType'
  <2>1. held' \in BOOLEAN
    BY <1>2, Zenon DEF NextFragment, Received, Release
  <2> QED
    BY <1>2, <2>1, Zenon DEF NextFragment
<1>3. CASE Check
  BY <1>3, Zenon DEF Check, Release
<1>4. CASE Write
  <2>1. damaged' \in BOOLEAN
    BY <1>4, Zenon DEF Write
  <2> QED
    BY <1>4, <2>1, Zenon DEF Write, Release
<1>5. ASSUME NEW n \in 1..MaxFragment, NEW ok \in BOOLEAN, Get(n, ok) PROVE FlagType'
  <2>1. done' \in BOOLEAN /\ stable' \in BOOLEAN
    BY <1>5, Zenon DEF Get
  <2> QED
    BY <1>5, <2>1, Zenon DEF Get
<1>6. CASE ReadAgain \/ Reset \/ FactoryReset
  BY <1>6, Zenon DEF ReadAgain, Reset, FactoryReset, Release
<1>7. CASE Cut
  <2>1. damaged' \in BOOLEAN
    BY <1>7, Zenon DEF Cut
  <2> QED
    BY <1>7, <2>1, Zenon DEF Cut, Release
<1>8. CASE UNCHANGED vars
  BY <1>8, Zenon DEF vars
<1> QED
  BY <1>1, <1>2, <1>3, <1>4, <1>5, <1>6, <1>7, <1>8 DEF Next

\* TypeOK: every static and file keeps its type, and no buffer is larger than
\* the largest array.
THEOREM TypeCorrect == Spec => []TypeOK
<1>1. Init => FlagType /\ ReadType
  <2>1. Init => FlagType
    BY Zenon DEF Init, FlagType
  <2>2. Init => ReadType
    BY DEF Init, ReadType
  <2> QED
    BY <2>1, <2>2
<1>2. IInv /\ FlagType /\ ReadType => TypeOK
  BY DEF IInv, TypeOK
<1> QED
  BY <1>1, <1>2, InitIInv, StepIInv, StepReadType, StepFlagType, PTL DEF Spec

-----------------------------------------------------------------------------
\* The array a platform should be given.
Stored == Served(TRUE)

\* A platform that has met no write and no failed read has a beginning of the
\* stored array, and all of it when it has stopped.  While the file is being
\* rewritten it can at most have begun anew.
ReadSoFar ==
  stable =>
    /\ Len(got) <= Len(Stored)
    /\ got = SubSeq(Stored, 1, Len(got))
    /\ done => Len(got) = Len(Stored)
    /\ pc = "writing" => got = << >> /\ ~done

\* No beginning, and the whole, of a sequence.
LEMMA LeastAndMost ==
  ASSUME NEW S, NEW s \in Seq(S)
  PROVE  Len(s) \in Nat /\ SubSeq(s, 1, 0) = << >> /\ SubSeq(s, 1, Len(s)) = s
OBVIOUS

\* The next bytes of a sequence after a beginning of it.
LEMMA BeginningAndMore ==
  ASSUME NEW S, NEW s \in Seq(S), NEW k \in 0..Len(s), NEW m \in k..Len(s)
  PROVE  /\ SubSeq(s, 1, k) \o SubSeq(s, k + 1, m) = SubSeq(s, 1, m)
         /\ Len(SubSeq(s, k + 1, m)) = m - k
         /\ Len(SubSeq(s, 1, m)) = m
OBVIOUS

\* What is served is a sequence.
LEMMA ServedType ==
  ASSUME file \in Seq(Bytes), NEW ok
  PROVE  Served(ok) \in Seq(Bytes)
BY LargeBlobAssumption DEF Served

LEMMA StepReadSoFar == IInv /\ ReadType /\ ReadSoFar /\ [Next]_vars => ReadSoFar'
<1> SUFFICES ASSUME IInv, ReadType, ReadSoFar, [Next]_vars PROVE ReadSoFar'
  OBVIOUS
<1> USE DEF ReadSoFar
<1>0. file \in Seq(Bytes) /\ Stored \in Seq(Bytes) /\ Len(got) \in Nat
  <2>1. file \in Seq(Bytes)
    BY DEF IInv, WriteType
  <2>2. Stored \in Seq(Bytes)
    BY <2>1, ServedType DEF Stored
  <2>3. got \in Seq(Bytes)
    BY DEF ReadType
  <2> QED
    BY <2>1, <2>2, <2>3, LeastAndMost
<1>1. ASSUME UNCHANGED <<file, readVars, stable>>, pc' = "writing" => pc = "writing"
      PROVE  ReadSoFar'
  BY <1>1 DEF readVars, Stored, Served
<1>2. CASE ~stable'
  BY <1>2
<1>3. ASSUME NEW a \in Arrays, NEW n \in 0..MaxFragment,
             \/ \E len \in 0..(MaxArray + 1) : Begin(a, n, len)
             \/ \E off \in 1..MaxArray : NextFragment(a, off, n)
      PROVE  ReadSoFar'
  <2>1. UNCHANGED <<file, readVars, stable>> /\ pc' # "writing"
    BY <1>3 DEF Begin, NextFragment, Received
  <2> QED
    BY <1>1, <2>1
<1>4. CASE Check
  BY <1>1, <1>2, <1>4 DEF Check
<1>5. CASE Write \/ (Cut /\ pc = "writing")
  <2>1. /\ pc = "writing" /\ pc' = "idle" /\ UNCHANGED <<readVars, stable>>
        /\ \E k \in 0..Len(buf) : file' = SubSeq(buf, 1, k)
    BY <1>5 DEF Write, Cut
  <2>2. file' \in Seq(Bytes)
    BY <2>1, Beginning DEF IInv, WriteType
  <2>3. stable => got = << >> /\ ~done
    BY <2>1
  <2>4. Stored' \in Seq(Bytes)
    BY <2>2, LargeBlobAssumption DEF Stored, Served
  <2>5. Len(Stored') \in Nat /\ SubSeq(Stored', 1, 0) = << >>
    BY <2>4, LeastAndMost
  <2>6. stable' => got' = << >> /\ Len(got') = 0 /\ ~done'
    BY <2>1, <2>3 DEF readVars
  <2> QED
    BY <2>1, <2>5, <2>6
<1>6. CASE Cut /\ pc # "writing"
  BY <1>1, <1>6 DEF Cut
<1>7. CASE Reset \/ FactoryReset
  BY <1>2, <1>7 DEF Reset, FactoryReset
<1>8. ASSUME NEW n \in 1..MaxFragment, NEW ok \in BOOLEAN, Get(n, ok) PROVE ReadSoFar'
  <2> SUFFICES ASSUME stable' PROVE ReadSoFar'
    OBVIOUS
  <2> DEFINE s == Stored
             k == Len(got)
             m == IF k + n < Len(s) THEN k + n ELSE Len(s)
  <2>1. stable /\ ok /\ pc = "idle" /\ pc' = "idle" /\ file' = file
    BY <1>8, Zenon DEF Get
  <2>2. n \in Nat /\ n > 0 /\ k \in 0..Len(s) /\ m \in k..Len(s) /\ Len(s) \in Nat
    <3>1. Len(s) \in Nat /\ k <= Len(s)
      BY <1>0, <2>1, LeastAndMost
    <3>2. n \in Nat /\ n > 0
      BY LargeBlobAssumption
    <3> HIDE DEF s
    <3> QED
      BY <1>0, <3>1, <3>2
  <2>3. Fragment(k, n, ok) = SubSeq(s, k + 1, m)
    BY <2>1 DEF Fragment, Stored, Served
  <2>4. got' = got \o SubSeq(s, k + 1, m) /\ done' = (Len(SubSeq(s, k + 1, m)) # n)
    BY <1>8, <2>3 DEF Get
  <2>5. Stored' = s
    BY <2>1 DEF Stored, Served
  <2> HIDE DEF s
  <2>6. got = SubSeq(s, 1, k)
    BY <2>1 DEF s
  <2>7. /\ SubSeq(s, 1, k) \o SubSeq(s, k + 1, m) = SubSeq(s, 1, m)
        /\ Len(SubSeq(s, k + 1, m)) = m - k /\ Len(SubSeq(s, 1, m)) = m
    <3> HIDE DEF k, m
    <3> QED
      BY <1>0, <2>2, BeginningAndMore DEF s
  <2>8. got' = SubSeq(s, 1, m) /\ Len(got') = m
    BY <2>4, <2>6, <2>7
  <2>9. done' => m = Len(s)
    <3>1. m - k # n => m = Len(s)
      BY <2>2
    <3>2. done' => m - k # n
      BY <2>4, <2>7
    <3> QED
      BY <3>1, <3>2
  <2> HIDE DEF k, m
  <2>10. Len(got') <= Len(Stored') /\ got' = SubSeq(Stored', 1, Len(got'))
    BY <2>2, <2>5, <2>8
  <2>11. done' => Len(got') = Len(Stored')
    BY <2>5, <2>8, <2>9
  <2>12. pc' # "writing"
    BY <2>1
  <2> QED
    BY <2>10, <2>11, <2>12
<1>9. CASE ReadAgain
  <2>1. got' = << >> /\ ~done' /\ file' = file
    BY <1>9 DEF ReadAgain
  <2>2. Stored' = Stored
    BY <2>1 DEF Stored, Served
  <2>3. << >> = SubSeq(Stored, 1, 0) /\ Len(Stored) >= 0
    BY <1>0, LeastAndMost
  <2> QED
    BY <2>1, <2>2, <2>3
<1>10. CASE UNCHANGED vars
  BY <1>1, <1>10 DEF vars
<1> QED
  BY <1>3, <1>4, <1>5, <1>6, <1>7, <1>8, <1>9, <1>10 DEF Next

\* ReadIsServed: whatever fragment sizes a platform asks for and whoever writes,
\* resets or loses power before and after, what it has read to a short fragment
\* is the stored array, also when its length is a multiple of the fragment size.
THEOREM ReadIsServedHolds == Spec => []ReadIsServed
<1>1. Init => ReadType
  BY DEF Init, ReadType
<1>2. Init => ReadSoFar
  BY LargeBlobAssumption, LeastAndMost DEF Init, ReadSoFar, Stored, Served
<1>3. IInv /\ ReadSoFar => ReadIsServed
  <2> SUFFICES ASSUME IInv, ReadSoFar, done, stable PROVE got = Stored
    BY DEF ReadIsServed, Stored
  <2>1. Stored \in Seq(Bytes)
    BY ServedType DEF Stored, IInv, WriteType
  <2>2. got = SubSeq(Stored, 1, Len(Stored))
    BY DEF ReadSoFar
  <2> QED
    BY <2>1, <2>2, LeastAndMost
<1> QED
  BY <1>1, <1>2, <1>3, InitIInv, StepIInv, StepReadType, StepReadSoFar, PTL DEF Spec

-----------------------------------------------------------------------------
(* Wire: channels, answers and what the hosts make of them.                *)

\* The smaller of two numbers.
LEMMA MinOfTwo ==
  ASSUME NEW a \in Nat, NEW b \in Nat
  PROVE  Min({a, b}) = IF a <= b THEN a ELSE b
<1>1. \E x \in {a, b} : \A y \in {a, b} : x <= y
  BY SMT
<1>2. /\ Min({a, b}) \in {a, b}
      /\ \A y \in {a, b} : Min({a, b}) <= y
  BY <1>1, Zenon DEF Min
<1> QED  BY <1>2

-----------------------------------------------------------------------------
(* The channel table.                                                      *)

\* How many channels ago slot k was filled, if it was.
Age(k) == IF k < nextChannelSlot THEN nextChannelSlot - k ELSE nextChannelSlot - k + MaxChannels

\* Channels are numbered in the order they are handed out, and the table holds the newest, in a
\* circle that ends at the next slot.
TableHolds ==
  /\ nextChannelSlot \in 0..MaxChannels - 1 /\ handed \in Seq(Nat)
  /\ \A i \in 1..Len(handed) : handed[i] = i
  /\ allocatedChannels \in [0..MaxChannels - 1 -> 0..Len(handed)]
  /\ \A k \in 0..MaxChannels - 1 :
       Age(k) <= Len(handed) => allocatedChannels[k] = Len(handed) - Age(k) + 1

LEMMA NextSlot ==
  ASSUME NEW k \in 0..MaxChannels - 1
  PROVE  (k + 1) % MaxChannels = IF k + 1 = MaxChannels THEN 0 ELSE k + 1
BY WireAssumption

\* A new channel takes the slot of the oldest.
LEMMA TableKept ==
  ASSUME TableHolds, NEW c, c = Len(handed) + 1 \/ IsChannelAllocated(c), RememberChannel(c)
  PROVE  /\ TableHolds' /\ Len(handed') >= Len(handed)
         /\ c \in 1..Len(handed')
<1>1. MaxChannels \in Nat \ {0} /\ Len(handed) \in Nat
  BY WireAssumption DEF TableHolds
<1>2. CASE \E i \in DOMAIN allocatedChannels : allocatedChannels[i] = c
  <2>1. UNCHANGED <<allocatedChannels, nextChannelSlot, handed>>
    BY <1>2 DEF RememberChannel, tableVars
  <2>2. TableHolds'
    BY <2>1 DEF TableHolds, Age
  <2>3. c \in 1..Len(handed)
    BY <1>1, <1>2 DEF TableHolds, IsChannelAllocated, NoChannel
  <2> QED  BY <1>1, <2>1, <2>2, <2>3
<1>3. CASE ~\E i \in DOMAIN allocatedChannels : allocatedChannels[i] = c
  <2>1. /\ c = Len(handed) + 1
        /\ allocatedChannels' = [allocatedChannels EXCEPT ![nextChannelSlot] = c]
        /\ nextChannelSlot' = (nextChannelSlot + 1) % MaxChannels
        /\ handed' = Append(handed, c)
    BY <1>3 DEF RememberChannel, IsChannelAllocated
  <2>2. nextChannelSlot' = IF nextChannelSlot + 1 = MaxChannels THEN 0 ELSE nextChannelSlot + 1
    BY <2>1, NextSlot DEF TableHolds
  <2>3. /\ handed' \in Seq(Nat) /\ Len(handed') = Len(handed) + 1
        /\ \A i \in 1..Len(handed') : handed'[i] = i
    BY <1>1, <2>1 DEF TableHolds
  <2>4. allocatedChannels' \in [0..MaxChannels - 1 -> 0..Len(handed')]
    BY <1>1, <2>1, <2>3 DEF TableHolds
  <2>5. nextChannelSlot' \in 0..MaxChannels - 1
    BY <1>1, <2>2 DEF TableHolds
  <2>6. ASSUME NEW k \in 0..MaxChannels - 1, Age(k)' <= Len(handed')
        PROVE  allocatedChannels'[k] = Len(handed') - Age(k)' + 1
    <3>1. CASE k = nextChannelSlot
      <4>1. Age(k)' = 1
        BY <1>1, <2>2, <3>1 DEF TableHolds, Age
      <4> QED  BY <1>1, <2>1, <2>3, <3>1, <4>1 DEF TableHolds
    <3>2. CASE k # nextChannelSlot
      <4>1. Age(k)' = Age(k) + 1 /\ Age(k) \in Int
        BY <1>1, <2>2, <3>2 DEF TableHolds, Age
      <4>2. allocatedChannels'[k] = allocatedChannels[k]
        BY <2>1, <3>2 DEF TableHolds
      <4>3. Age(k) <= Len(handed) => allocatedChannels[k] = Len(handed) - Age(k) + 1
        BY DEF TableHolds
      <4>4. Len(handed') = Len(handed) + 1
        BY <2>3
      <4> QED  BY <1>1, <2>6, <4>1, <4>2, <4>3, <4>4
    <3> QED  BY <3>1, <3>2
  <2>7. TableHolds'
    BY <2>3, <2>4, <2>5, <2>6 DEF TableHolds
  <2> QED  BY <1>1, <2>1, <2>3, <2>7
<1> QED  BY <1>2, <1>3

\* Each of the newest channels has its slot.
LEMMA NewestInTable == TableHolds => NewestKept
<1> SUFFICES ASSUME TableHolds, NEW i \in 1..Len(handed), i > Len(handed) - MaxChannels
             PROVE  IsChannelAllocated(handed[i])
  BY DEF NewestKept
<1>1. MaxChannels \in Nat \ {0} /\ Len(handed) \in Nat
  BY WireAssumption DEF TableHolds
<1> DEFINE a == Len(handed) - i + 1
           k == IF a <= nextChannelSlot THEN nextChannelSlot - a ELSE nextChannelSlot - a + MaxChannels
<1>2. a \in 1..MaxChannels /\ a <= Len(handed)
  BY <1>1
<1>3. nextChannelSlot \in 0..MaxChannels - 1
  BY DEF TableHolds
<1>4. k \in 0..MaxChannels - 1 /\ Age(k) = a
  <2>1. CASE a <= nextChannelSlot
    <3>1. k = nextChannelSlot - a
      BY <2>1
    <3> HIDE DEF k, a
    <3> QED  BY <1>1, <1>2, <1>3, <2>1, <3>1 DEF Age
  <2>2. CASE ~(a <= nextChannelSlot)
    <3>1. k = nextChannelSlot - a + MaxChannels
      BY <2>2
    <3> HIDE DEF k, a
    <3> QED  BY <1>1, <1>2, <1>3, <2>2, <3>1 DEF Age
  <2> QED  BY <2>1, <2>2
<1>5. allocatedChannels[k] = Len(handed) - Age(k) + 1
  <2> HIDE DEF k, a
  <2> QED  BY <1>2, <1>4 DEF TableHolds
<1>6. Len(handed) - a + 1 = i
  BY <1>1
<1>7. allocatedChannels[k] = i /\ handed[i] = i /\ k \in DOMAIN allocatedChannels
  <2> HIDE DEF k, a
  <2> QED  BY <1>4, <1>5, <1>6 DEF TableHolds
<1> QED  BY <1>7 DEF IsChannelAllocated, NoChannel

-----------------------------------------------------------------------------
(* The answer on the wire, and what the hosts make of it.                  *)

\* A sound beginning of an answer, as a host keeps it.
IsSound(a) ==
  /\ DOMAIN a = {"id", "len", "got", "next", "sound"}
  /\ a.id \in Nat /\ a.len \in Nat /\ a.got \in Nat /\ a.next \in Nat /\ a.sound

\* What is sent has a length and an owner; what hosts assemble, and what they took, is sound.
SendTyped ==
  /\ answers \in Nat /\ offset \in Nat /\ answer.len \in Nat /\ answer.id \in Nat
  /\ cid \in [Hosts -> 0..Len(handed)]
  /\ DOMAIN asm = Hosts /\ DOMAIN taken = Hosts
  /\ \A h \in Hosts : IsSound(asm[h]) /\ IsSound(taken[h])

\* No two hosts have a channel in common, nor get one by the answer under way.
ChannelsApart ==
  /\ \A g, h \in Hosts : cid[g] = cid[h] /\ cid[g] # NoChannel => g = h
  /\ dev = "sending" /\ answer.kind = "init" =>
       answer.new \in 1..Len(handed) /\ \A g \in Hosts : g # answer.host => cid[g] # answer.new
  /\ dev = "sending" /\ answer.kind # "init" => answer.to # NoChannel

\* In the middle of an answer its host has assembled what was sent so far, or nothing.
Joined ==
  dev = "sending" /\ offset # 0 =>
    /\ offset < answer.len
    /\ \A h \in Hosts : Addressed(h) /\ asm[h].id # 0 =>
         asm[h].id = answer.id /\ asm[h].got = offset /\ asm[h].len = answer.len

WireIInv == TableHolds /\ SendTyped /\ ChannelsApart /\ Joined

LEMMA OneAddressed ==
  ASSUME ChannelsApart, dev = "sending", NEW g \in Hosts, NEW h \in Hosts, Addressed(g), Addressed(h)
  PROVE  g = h
BY DEF ChannelsApart, Addressed

\* A new answer: its first packet begins it.
LEMMA AnswerBegins ==
  ASSUME SendTyped, NEW h \in Hosts, NEW c, NEW kind, NEW len \in Nat, NEW new, Answers(h, c, kind, len, new),
         Len(handed') \in Nat, Len(handed') >= Len(handed), Len(handed) \in Nat,
         kind # "init" => c # NoChannel,
         kind = "init" => new \in 1..Len(handed') /\ \A g \in Hosts : g # h => cid[g] # new,
         ChannelsApart
  PROVE  SendTyped' /\ ChannelsApart' /\ Joined'
<1>1. /\ dev' = "sending" /\ offset' = 0 /\ answers' = answers + 1
      /\ answer' = [id |-> answers + 1, kind |-> kind, len |-> len, to |-> c, host |-> h, new |-> new]
      /\ UNCHANGED <<cid, asm, taken>>
  BY DEF Answers
<1>2. answer'.len = len /\ answer'.id = answers + 1 /\ answer'.kind = kind /\ answer'.to = c /\ answer'.host = h /\ answer'.new = new
  BY <1>1
<1>3. SendTyped'
  BY <1>1, <1>2 DEF SendTyped
<1>4. ChannelsApart'
  BY <1>1, <1>2 DEF ChannelsApart
<1> QED  BY <1>1, <1>3, <1>4 DEF Joined

\* The packet that is sent, and what its host has after it: as much as was sent, or nothing.
LEMMA PacketJoined ==
  ASSUME WireIInv, dev = "sending", NEW h \in Hosts, Addressed(h)
  PROVE  LET a == Assembled(h, offset = 0)
         IN  /\ Chunk \in Nat /\ offset + Chunk <= answer.len
             /\ IsSound(a)
             /\ a.id # 0 => a.id = answer.id /\ a.len = answer.len /\ a.got = offset + Chunk
<1> DEFINE a == Assembled(h, offset = 0)
<1>1. /\ offset \in Nat /\ answer.len \in Nat /\ IsSound(asm[h]) /\ InitData \in Nat \ {0} /\ ContData \in Nat \ {0}
      /\ (offset = 0 \/ offset < answer.len) /\ answer.id \in Nat
  BY WireAssumption DEF WireIInv, SendTyped, Joined
<1>2. CASE offset = 0
  <2>1. Chunk = Min({InitData, answer.len})
    BY <1>1, <1>2 DEF Chunk
  <2>2. Chunk \in Nat /\ Chunk <= answer.len
    BY <1>1, <2>1, MinOfTwo
  <2>3. a = [id |-> answer.id, len |-> answer.len, got |-> Chunk, next |-> 0, sound |-> TRUE]
    BY <1>2, <2>1 DEF Assembled
  <2>4. IsSound(a)
    BY <1>1, <2>2, <2>3, SMTT(60) DEF IsSound, WireIInv, SendTyped
  <2> QED  BY <1>2, <2>2, <2>3, <2>4
<1>3. CASE offset # 0
  <2>1. Chunk = Min({ContData, answer.len - offset}) /\ answer.len - offset \in Nat
    BY <1>1, <1>3 DEF Chunk
  <2>2. Chunk = (IF ContData <= answer.len - offset THEN ContData ELSE answer.len - offset)
    BY <1>1, <2>1, MinOfTwo
  <2>3. Chunk \in Nat /\ offset + Chunk <= answer.len
    <3> DEFINE left == answer.len - offset
    <3>1. left \in Nat /\ offset + left = answer.len
      BY <1>1, <2>1
    <3>2. Chunk = (IF ContData <= left THEN ContData ELSE left)
      BY <2>2
    <3> HIDE DEF left
    <3> QED  BY <1>1, <3>1, <3>2
  <2>4. CASE asm[h].id # 0 /\ asm[h].next = seq % SeqNumbers /\ asm[h].next < SeqNumbers
    <3>1. asm[h].id = answer.id /\ asm[h].got = offset /\ asm[h].len = answer.len
      BY <1>3, <2>4 DEF WireIInv, Joined
    <3>2. Min({asm[h].got + ContData, asm[h].len}) = offset + Chunk
      <4>1. Min({offset + ContData, answer.len}) = IF offset + ContData <= answer.len THEN offset + ContData ELSE answer.len
        BY <1>1, MinOfTwo
      <4> QED  BY <1>1, <2>2, <3>1, <4>1
    <3>3. a = [asm[h] EXCEPT !.got = offset + Chunk, !.next = @ + 1, !.sound = TRUE]
      BY <1>1, <1>3, <2>4, <3>1, <3>2 DEF Assembled, IsSound
    <3> HIDE DEF a
    <3>4. IsSound(a) /\ a.id = asm[h].id /\ a.len = asm[h].len /\ a.got = offset + Chunk
      BY <1>1, <2>3, <3>3 DEF IsSound
    <3>5. a.id # 0 => a.id = answer.id /\ a.len = answer.len /\ a.got = offset + Chunk
      BY <3>1, <3>4
    <3> QED  BY <2>3, <3>4, <3>5 DEF a
  <2>5. CASE ~(asm[h].id # 0 /\ asm[h].next = seq % SeqNumbers /\ asm[h].next < SeqNumbers)
    <3>1. a = NoAsm
      BY <1>3, <2>5 DEF Assembled
    <3> QED  BY <2>3, <3>1 DEF NoAsm, IsSound
  <2> QED  BY <2>4, <2>5
<1> QED  BY <1>2, <1>3

LEMMA PacketKeeps ==
  ASSUME WireIInv, SendPacket
  PROVE  WireIInv'
<1> USE DEF WireIInv
<1>1. PICK h \in Hosts : Addressed(h) /\ Receive(h, offset = 0)
  BY DEF SendPacket
<1>2. /\ dev = "sending" /\ offset' = offset + Chunk
      /\ dev' = IF offset' >= answer.len THEN "idle" ELSE "sending"
      /\ UNCHANGED <<allocatedChannels, nextChannelSlot, handed, answer, answers>>
  BY DEF SendPacket, tableVars
<1>3. PICK a : a = Assembled(h, offset = 0)
  OBVIOUS
<1>4. /\ Chunk \in Nat /\ offset + Chunk <= answer.len /\ IsSound(a)
      /\ a.id # 0 => a.id = answer.id /\ a.len = answer.len /\ a.got = offset + Chunk
  BY <1>1, <1>2, <1>3, PacketJoined
<1>5. PICK whole : whole = (a.id # 0 /\ a.got >= a.len)
  OBVIOUS
<1>6. /\ asm' = [asm EXCEPT ![h] = IF whole THEN NoAsm ELSE a]
      /\ taken' = [taken EXCEPT ![h] = IF whole THEN a ELSE @]
      /\ cid' = [cid EXCEPT ![h] = IF whole /\ answer.kind = "init" THEN answer.new ELSE @]
  BY <1>1, <1>3, <1>5 DEF Receive
<1>7. offset' \in Nat /\ offset' <= answer.len /\ (whole => dev' = "idle")
  <2>1. offset' \in Nat /\ offset' <= answer.len
    BY <1>2, <1>4 DEF SendTyped
  <2>2. whole => offset' >= answer.len
    BY <1>2, <1>4, <1>5 DEF SendTyped
  <2> QED  BY <1>2, <2>1, <2>2
<1>8. TableHolds'
  BY <1>2 DEF TableHolds, Age
<1>9. SendTyped'
  <2>1. DOMAIN asm' = Hosts /\ DOMAIN taken' = Hosts /\ \A g \in Hosts : IsSound(asm'[g]) /\ IsSound(taken'[g])
    BY <1>4, <1>6 DEF SendTyped, NoAsm, IsSound
  <2>2. cid' \in [Hosts -> 0..Len(handed)]
    BY <1>2, <1>6 DEF SendTyped, ChannelsApart, TableHolds
  <2> QED  BY <1>2, <1>7, <2>1, <2>2 DEF SendTyped
<1>10. ChannelsApart'
  <2>1. CASE whole /\ answer.kind = "init"
    <3>1. h = answer.host
      BY <1>1, <2>1 DEF Addressed
    <3>2. \A g \in Hosts : cid'[g] = IF g = h THEN answer.new ELSE cid[g]
      BY <1>6, <2>1 DEF SendTyped
    <3> QED  BY <1>2, <1>7, <2>1, <3>1, <3>2 DEF ChannelsApart
  <2>2. CASE ~(whole /\ answer.kind = "init")
    <3>1. cid' = cid
      BY <1>6, <2>2 DEF SendTyped
    <3> QED  BY <1>2, <3>1 DEF ChannelsApart
  <2> QED  BY <2>1, <2>2
<1>11. Joined'
  <2> SUFFICES ASSUME dev' = "sending"
               PROVE  /\ offset' < answer.len
                      /\ \A g \in Hosts : Addressed(g)' /\ asm'[g].id # 0 =>
                           asm'[g].id = answer.id /\ asm'[g].got = offset' /\ asm'[g].len = answer.len
    BY <1>2 DEF Joined
  <2>1. offset' < answer.len /\ ~whole
    BY <1>2, <1>7 DEF SendTyped
  <2>2. cid' = cid /\ asm'[h] = a
    BY <1>6, <2>1 DEF SendTyped
  <2>3. \A g \in Hosts : Addressed(g)' => g = h
    BY <1>1, <1>2, <2>2, OneAddressed DEF Addressed
  <2> QED  BY <1>2, <1>4, <2>1, <2>2, <2>3
<1> QED  BY <1>8, <1>9, <1>10, <1>11

\* The beginning of an answer, whatever the request.
LEMMA RequestKeeps ==
  ASSUME WireIInv, NEW h \in Hosts,
         \/ \E c \in {Broadcast, cid[h]} : InitRequest(h, c)
         \/ \E n \in PingLens : Ping(h, n)
         \/ Wink(h) \/ Refused(h) \/ GetInfo(h) \/ \E b : Config(h, b)
  PROVE  WireIInv'
<1>1. SendTyped /\ ChannelsApart /\ TableHolds /\ Len(handed) \in Nat
  BY DEF WireIInv, TableHolds
<1>2. CASE \E c \in {Broadcast, cid[h]} : InitRequest(h, c)
  <2>1. PICK c \in {Broadcast, cid[h]} \ {NoChannel} : InitRequest(h, c)
    BY <1>2 DEF InitRequest
  <2>2. PICK new : /\ new = (IF c = Broadcast \/ ~IsChannelAllocated(c) THEN Len(handed) + 1 ELSE c)
                   /\ RememberChannel(new) /\ Answers(h, c, "init", 17, new)
    BY <2>1 DEF InitRequest
  <2>3. /\ TableHolds' /\ Len(handed') >= Len(handed) /\ new \in 1..Len(handed')
        /\ Len(handed') \in Nat
    <3>1. new = Len(handed) + 1 \/ IsChannelAllocated(new)
      BY <2>2
    <3>2. TableHolds' /\ Len(handed') >= Len(handed) /\ new \in 1..Len(handed')
      BY <1>1, <2>2, <3>1, TableKept
    <3> QED  BY <3>2 DEF TableHolds
  <2>4. ASSUME NEW g \in Hosts, g # h
        PROVE  cid[g] # new
    <3>1. cid[g] \in 0..Len(handed)
      BY <1>1 DEF SendTyped
    <3>2. CASE new = Len(handed) + 1
      BY <1>1, <3>1, <3>2
    <3>3. CASE new # Len(handed) + 1
      <4>1. new = c /\ c # Broadcast
        BY <2>2, <3>3
      <4>2. new = cid[h] /\ new # NoChannel
        BY <2>1, <4>1
      <4> QED  BY <1>1, <2>4, <4>2 DEF ChannelsApart
    <3> QED  BY <3>2, <3>3
  <2>5. SendTyped' /\ ChannelsApart' /\ Joined'
    <3>1. 17 \in Nat /\ "init" = "init"
      OBVIOUS
    <3> QED  BY <1>1, <2>2, <2>3, <2>4, <3>1, AnswerBegins
  <2> QED  BY <2>3, <2>5 DEF WireIInv
<1>3. ASSUME NEW kind, kind # "init", NEW len \in Nat, Answers(h, cid[h], kind, len, NoChannel),
             cid[h] # NoChannel, UNCHANGED tableVars
      PROVE  WireIInv'
  <2>1. TableHolds' /\ Len(handed') = Len(handed)
    BY <1>1, <1>3 DEF TableHolds, Age, tableVars
  <2>2. SendTyped' /\ ChannelsApart' /\ Joined'
    BY <1>1, <1>3, <2>1, AnswerBegins
  <2> QED  BY <2>1, <2>2 DEF WireIInv
<1>4. CASE \E n \in PingLens : Ping(h, n)
  <2>1. PICK n \in PingLens : Ping(h, n)
    BY <1>4
  <2>2. n \in Nat
    BY WireAssumption
  <2> QED  BY <1>3, <2>1, <2>2 DEF Ping
<1>5. CASE Wink(h)
  BY <1>3, <1>5 DEF Wink, IsChannelAllocated
<1>6. CASE Refused(h)
  BY <1>3, <1>6 DEF Refused
<1>7. CASE GetInfo(h)
  <2>1. 1 + InfoLen \in Nat
    BY WireAssumption
  <2> QED  BY <1>3, <1>7, <2>1 DEF GetInfo, IsChannelAllocated
<1>8. CASE \E b : Config(h, b)
  <2>1. PICK b : Config(h, b)
    BY <1>8
  <2>2. PICK len \in {1, 2} : Answers(h, cid[h], "config", len, NoChannel)
    BY <2>1 DEF Config
  <2>3. len \in Nat /\ UNCHANGED tableVars /\ cid[h] # NoChannel
    BY <2>1 DEF Config, IsChannelAllocated
  <2> QED  BY <1>3, <2>2, <2>3
<1> QED  BY <1>2, <1>4, <1>5, <1>6, <1>7, <1>8

\* The channel table and what is assembled, after every step of the FIDO task and the hosts.
LEMMA WireInvariant == WireSpec => []WireIInv
<1>1. WireInit => WireIInv
  <2> SUFFICES ASSUME WireInit
               PROVE  WireIInv
    OBVIOUS
  <2>1. TableHolds
    <3>1. nextChannelSlot = 0 /\ handed = <<>> /\ Len(handed) = 0
          /\ allocatedChannels = [i \in 0..MaxChannels - 1 |-> 0]
      BY DEF WireInit, NoChannel
    <3>2. allocatedChannels \in [0..MaxChannels - 1 -> 0..Len(handed)]
      BY <3>1
    <3>3. \A k \in 0..MaxChannels - 1 : ~(Age(k) <= 0)
      BY <3>1, WireAssumption DEF Age
    <3> QED  BY <3>1, <3>2, <3>3, WireAssumption DEF TableHolds
  <2>2. SendTyped
    <3>1. answers = 0 /\ offset = 0 /\ answer.len = 0 /\ answer.id = 0
      BY DEF WireInit, NoAnswer
    <3>2. cid = [h \in Hosts |-> 0] /\ Len(handed) = 0
      BY DEF WireInit, NoChannel
    <3>3. cid \in [Hosts -> 0..Len(handed)]
      BY <3>2
    <3>4. IsSound(NoAsm)
      BY DEF IsSound, NoAsm
    <3>5. asm = [h \in Hosts |-> NoAsm] /\ taken = [h \in Hosts |-> NoAsm]
      BY DEF WireInit
    <3> QED  BY <3>1, <3>3, <3>4, <3>5 DEF SendTyped
  <2>3. ChannelsApart /\ Joined
    BY DEF WireInit, ChannelsApart, Joined
  <2> QED  BY <2>1, <2>2, <2>3 DEF WireIInv
<1>2. WireIInv /\ [WireNext]_wireVars => WireIInv'
  <2> SUFFICES ASSUME WireIInv, [WireNext]_wireVars
               PROVE  WireIInv'
    OBVIOUS
  <2>1. CASE SendPacket
    BY <2>1, PacketKeeps
  <2>2. ASSUME UNCHANGED <<tableVars, sendVars, cid, asm, taken, answers>>, dev' \in {"idle", dev}
        PROVE  WireIInv'
    <3>1. TableHolds'
      BY <2>2 DEF WireIInv, TableHolds, Age, tableVars
    <3>2. SendTyped'
      BY <2>2 DEF WireIInv, SendTyped, tableVars, sendVars
    <3>3. ChannelsApart'
      BY <2>2 DEF WireIInv, ChannelsApart, tableVars, sendVars
    <3>4. Joined'
      BY <2>2 DEF WireIInv, Joined, Addressed, tableVars, sendVars
    <3> QED  BY <3>1, <3>2, <3>3, <3>4 DEF WireIInv
  <2>3. CASE SendDeadline
    BY <2>2, <2>3 DEF SendDeadline, hostVars
  <2>4. ASSUME NEW h \in Hosts, HostGivesUp(h)
        PROVE  WireIInv'
    BY <2>2, <2>4 DEF HostGivesUp
  <2>5. CASE UNCHANGED wireVars
    BY <2>2, <2>5 DEF wireVars, hostVars
  <2> QED  BY <2>1, <2>3, <2>4, <2>5, RequestKeeps DEF WireNext
<1> QED  BY <1>1, <1>2, PTL DEF WireSpec

\* A channel is forgotten only for MaxChannels newer ones: rememberChannel gives a new channel the
\* oldest slot and a known one none.
THEOREM NewestKeptHolds == WireSpec => []NewestKept
<1>1. WireIInv => NewestKept
  BY NewestInTable DEF WireIInv
<1> QED  BY <1>1, WireInvariant, PTL

\* What a host takes as a whole answer is one answer of sendCtapResponse with every byte in its
\* place, although answers are given up half way and sequence numbers come round.
THEOREM TakenIsSentHolds == WireSpec => []TakenIsSent
<1>1. WireIInv => TakenIsSent
  BY DEF WireIInv, SendTyped, IsSound, TakenIsSent
<1> QED  BY <1>1, WireInvariant, PTL

-----------------------------------------------------------------------------
(* Codec: bytes, heads and strings.                                        *)

\* What a buffer holds.
Byte == 0..255

\* A byte's major type and additional information.
LEMMA OfByte ==
  ASSUME NEW x \in Byte
  PROVE  x \div 32 \in 0..7 /\ x % 32 \in 0..31 /\ x = 32 * (x \div 32) + (x % 32)
  BY DEF Byte

\* A byte is a number up to 255.
LEMMA ByteIs ==
  ASSUME NEW x \in Byte
  PROVE  x \in Nat /\ x <= 255
  BY DEF Byte

\* No byte, and no number in one byte, is Huge.
LEMMA HugeIs == Huge \in Nat /\ Huge > 65535
  BY SMT DEF Huge

\* One byte more: the value stays under Huge, which no argument is.
LEMMA GrownType ==
  ASSUME NEW acc \in Nat, NEW x \in Byte
  PROVE  Grown(acc, x) \in Nat /\ Grown(acc, x) < Huge
  BY SMT DEF Grown, HighFirst, Huge, Byte

\* The argument of a head whose bytes are there is a number, Huge for an indefinite length only.
LEMMA ArgumentType ==
  ASSUME NEW b \in Seq(Byte), NEW at \in Nat, NEW info \in 0..31 \ 28..30, at + HeadShort(info) <= Len(b)
  PROVE  /\ Argument(b, at, info) \in Nat
         /\ Argument(b, at, info) = Huge <=> info = 31
<1>1. \A i \in 1..Len(b) : b[i] \in Byte
  OBVIOUS
<1>2. Len(b) \in Nat
  OBVIOUS
<1>3. ASSUME NEW acc \in Nat, NEW k \in Nat, k + 2 <= Len(b)
      PROVE  TwoBytes(b, acc, k) \in Nat /\ TwoBytes(b, acc, k) < Huge
  <2>1. k + 1 \in 1..Len(b) /\ k + 2 \in 1..Len(b)
    BY <1>2, <1>3
  <2> QED  BY <1>1, <2>1, GrownType DEF TwoBytes
<1>4. ASSUME NEW acc \in Nat, NEW k \in Nat, k + 4 <= Len(b)
      PROVE  FourBytes(b, acc, k) \in Nat /\ FourBytes(b, acc, k) < Huge
  <2>1. k + 2 \in Nat /\ (k + 2) + 2 <= Len(b) /\ k + 2 <= Len(b)
    BY <1>2, <1>4
  <2> QED  BY <1>3, <2>1 DEF FourBytes
<1>5. CASE info < 24
  BY <1>5, HugeIs DEF Argument
<1>6. CASE info = 24
  <2>1. at + 1 \in 1..Len(b)
    BY <1>2, <1>6 DEF HeadShort
  <2>2. b[at + 1] \in Byte
    BY <1>1, <2>1
  <2>3. Argument(b, at, info) = b[at + 1]
    BY <1>6 DEF Argument
  <2>4. b[at + 1] \in Nat /\ b[at + 1] < Huge
    BY <2>2, ByteIs, HugeIs
  <2> QED  BY <1>6, <2>3, <2>4
<1>7. CASE info = 25
  <2>1. at + 2 <= Len(b)
    BY <1>7 DEF HeadShort
  <2>2. Argument(b, at, info) = TwoBytes(b, 0, at)
    BY <1>7 DEF Argument
  <2> QED  BY <1>3, <1>7, <2>1, <2>2
<1>8. CASE info = 26
  <2>1. at + 4 <= Len(b)
    BY <1>8 DEF HeadShort
  <2>2. Argument(b, at, info) = FourBytes(b, 0, at)
    BY <1>8 DEF Argument
  <2> QED  BY <1>4, <1>8, <2>1, <2>2
<1>9. CASE info = 27
  <2>1. at + 8 <= Len(b) /\ at + 4 <= Len(b) /\ at + 4 \in Nat /\ (at + 4) + 4 <= Len(b)
    BY <1>2, <1>9 DEF HeadShort
  <2>2. Argument(b, at, info) = FourBytes(b, FourBytes(b, 0, at), at + 4)
    BY <1>9 DEF Argument
  <2>3. FourBytes(b, 0, at) \in Nat
    BY <1>4, <2>1
  <2>4. /\ FourBytes(b, FourBytes(b, 0, at), at + 4) \in Nat
        /\ FourBytes(b, FourBytes(b, 0, at), at + 4) < Huge
    BY <1>4, <2>1, <2>3
  <2> QED  BY <1>9, <2>2, <2>4
<1>10. CASE info = 31
  BY <1>10, HugeIs DEF Argument
<1> QED  BY <1>5, <1>6, <1>7, <1>8, <1>9, <1>10

\* readTypeAndValue moves on, and stays inside.
LEMMA HeadRead ==
  ASSUME NEW b \in Seq(Byte), NEW at \in 0..Len(b)
  PROVE  LET h == ReadHead(b, at)
         IN  /\ h.at \in at..Len(b) /\ (at < Len(b) => at < h.at)
             /\ h.ok \in BOOLEAN /\ h.value \in Nat /\ h.major \in 0..7
             /\ h.ok => at < Len(b) /\ h.major = b[at + 1] \div 32 /\ h.at = at + 1 + HeadShort(b[at + 1] % 32)
                        /\ b[at + 1] % 32 \notin 28..30
                        /\ h.value = Argument(b, at + 1, b[at + 1] % 32)
                        /\ (h.value = Huge <=> b[at + 1] % 32 = 31)
             /\ ~h.ok => h.value = 0
<1> DEFINE h == ReadHead(b, at)
<1>1. Len(b) \in Nat /\ at \in Nat
  OBVIOUS
<1>2. CASE at >= Len(b)
  <2>1. h = [ok |-> FALSE, major |-> 0, value |-> 0, at |-> at]
    BY <1>2 DEF ReadHead
  <2> QED  BY <1>1, <1>2, <2>1
<1>3. CASE at < Len(b)
  <2> DEFINE major == b[at + 1] \div 32
             info  == b[at + 1] % 32
             end   == at + 1 + HeadShort(info)
  <2>1. b[at + 1] \in Byte
    BY <1>1, <1>3
  <2>2. major \in 0..7 /\ info \in 0..31
    BY <2>1, OfByte
  <2>3. h = IF info \in 28..30 \/ end > Len(b)
            THEN [ok |-> FALSE, major |-> major, value |-> 0, at |-> at + 1]
            ELSE [ok |-> TRUE, major |-> major, value |-> Argument(b, at + 1, info), at |-> end]
    BY <1>1, <1>3 DEF ReadHead
  <2> HIDE DEF major, info, h
  <2>4. HeadShort(info) \in Nat
    BY <2>2 DEF HeadShort
  <2>5. CASE info \in 28..30 \/ end > Len(b)
    BY <1>1, <1>3, <2>2, <2>3, <2>5 DEF h
  <2>6. CASE ~(info \in 28..30 \/ end > Len(b))
    <3>1. /\ Argument(b, at + 1, info) \in Nat /\ (Argument(b, at + 1, info) = Huge <=> info = 31)
          /\ end \in Nat /\ end <= Len(b) /\ at < end
      <4>1. at + 1 \in Nat /\ info \in 0..31 \ 28..30 /\ (at + 1) + HeadShort(info) <= Len(b)
        BY <1>1, <2>2, <2>4, <2>6
      <4> QED  BY <1>1, <2>4, <4>1, ArgumentType
    <3> HIDE DEF end
    <3>2. h = [ok |-> TRUE, major |-> major, value |-> Argument(b, at + 1, info), at |-> end]
      BY <2>3, <2>6
    <3>3. /\ h.at \in at..Len(b) /\ (at < Len(b) => at < h.at)
          /\ h.ok \in BOOLEAN /\ h.value \in Nat /\ h.major \in 0..7
          /\ h.ok /\ h.major = major /\ h.at = end /\ info \notin 28..30 /\ h.value = Argument(b, at + 1, info)
          /\ (h.value = Huge <=> info = 31)
      BY <1>1, <2>2, <2>6, <3>1, <3>2
    <3> QED  BY <1>3, <3>3 DEF h, major, info, end
  <2> QED  BY <2>5, <2>6
<1> QED  BY <1>1, <1>2, <1>3

-----------------------------------------------------------------------------
(* Induction.                                                              *)

\* A property of numbers that fails somewhere has a first number where it fails.
LEMMA FirstFailure ==
  ASSUME NEW T, T \subseteq Nat, T # {}
  PROVE  \E n \in T : \A m \in T : n <= m
<1>1. PICK R : IsWellFoundedOn(R, Nat) /\ \A m, n \in Nat : m < n => <<m, n>> \in R
  <2>1. \A m, n \in Nat : m < n => <<m, n>> \in OpToRel(<, Nat)
    BY DEF OpToRel
  <2> HIDE DEF OpToRel
  <2> QED  BY <2>1, NatLessThanWellFounded, Zenon
<1>2. IsWellFoundedOn(R, Nat) => \E n \in T : \A m \in T : ~(<<m, n>> \in R)
  BY WFMin, Zenon
<1>3. PICK n \in T : \A m \in T : ~(<<m, n>> \in R)
  BY <1>1, <1>2, Zenon
<1>4. \A m \in Nat : m < n => <<m, n>> \in R
  BY <1>1
<1>5. \A m \in T : ~(m < n)
  BY <1>3, <1>4
<1> QED  BY <1>5

-----------------------------------------------------------------------------
(* skipValue.                                                              *)

\* For fewer than n bytes from the end, skip stays inside.
Within(b, skip, n) ==
  \A r \in 0..n - 1, c \in Calls : skip[r][c].at \in Len(b) - r..Len(b)

\* What is read of one value, given what is read of fewer bytes.
LEMMA OneInside ==
  ASSUME NEW b \in Seq(Byte), NEW n \in 0..Len(b), NEW skip, Within(b, skip, n), NEW depth \in Nat
  PROVE  LET s == SkipOne(b, skip, Len(b) - n, depth)
         IN  s.at \in Len(b) - n..Len(b) /\ (s.ok => Len(b) - n < s.at)
<1>1. PICK at : at = Len(b) - n
  OBVIOUS
<1>2. Len(b) \in Nat /\ at \in 0..Len(b) /\ n = Len(b) - at
  BY <1>1
<1> DEFINE s == SkipOne(b, skip, at, depth)
<1>3. CASE depth > MaxDepth \/ at >= Len(b)
  <2>1. s = [ok |-> FALSE, at |-> at]
    BY <1>3 DEF SkipOne
  <2> QED  BY <1>1, <1>2, <2>1
<1>4. CASE at < Len(b) /\ ~(depth > MaxDepth) /\ b[at + 1] = 255
  <2>1. s = [ok |-> TRUE, at |-> at + 1]
    BY <1>2, <1>4 DEF SkipOne
  <2> QED  BY <1>1, <1>2, <1>4, <2>1
<1>5. CASE at < Len(b) /\ ~(depth > MaxDepth) /\ b[at + 1] # 255
  <2> DEFINE h == ReadHead(b, at)
             open  == h.value = Huge
             width == IF h.major = 5 THEN 2 ELSE 1
             call  == [depth |-> depth + 1, left  |-> IF open THEN 0 ELSE h.value * width,
                       group |-> IF open THEN width ELSE 0]
  <2>1. s = SkipBody(b, skip, depth, h)
    BY <1>2, <1>5 DEF SkipOne
  <2>2. h.at \in Nat /\ at < h.at /\ h.at <= Len(b) /\ h.value \in Nat
    BY <1>2, <1>5, HeadRead
  <2>3. call \in Calls
    BY <2>2 DEF Calls
  <2>4. \/ s = [ok |-> FALSE, at |-> h.at] \/ s = [ok |-> TRUE, at |-> h.at]
        \/ LET fits == Fits(b, h.at, h.value) IN s = [ok |-> fits, at |-> h.at + IF fits THEN h.value ELSE 0]
        \/ s = skip[Len(b) - h.at][call]
    <3> HIDE DEF h, s
    <3> QED  BY <2>1 DEF SkipBody
  <2> HIDE DEF h, call, s
  <2>5. CASE s = [ok |-> FALSE, at |-> h.at] \/ s = [ok |-> TRUE, at |-> h.at]
    BY <1>1, <1>2, <2>2, <2>5 DEF s
  <2>6. CASE LET fits == Fits(b, h.at, h.value) IN s = [ok |-> fits, at |-> h.at + IF fits THEN h.value ELSE 0]
    <3>1. CASE Fits(b, h.at, h.value)
      <4>1. s.at = h.at + h.value /\ h.value <= Len(b) - h.at
        BY <2>6, <3>1 DEF Fits
      <4> QED  BY <1>1, <1>2, <2>2, <4>1 DEF s
    <3>2. CASE ~Fits(b, h.at, h.value)
      <4>1. s.at = h.at
        BY <2>2, <2>6, <3>2
      <4> QED  BY <1>1, <1>2, <2>2, <4>1 DEF s
    <3> QED  BY <3>1, <3>2
  <2>7. CASE s = skip[Len(b) - h.at][call]
    <3>1. Len(b) - h.at \in 0..n - 1
      BY <1>2, <2>2
    <3>2. skip[Len(b) - h.at][call].at \in Len(b) - (Len(b) - h.at)..Len(b)
      BY <2>3, <3>1 DEF Within
    <3> QED  BY <1>1, <1>2, <2>2, <2>7, <3>2 DEF s
  <2> QED  BY <2>4, <2>5, <2>6, <2>7
<1> QED  BY <1>2, <1>3, <1>4, <1>5

\* The call for what is behind it.
LEMMA NextCall ==
  ASSUME NEW c \in Calls, c.left # 0 \/ c.group # 0
  PROVE  LET left == IF c.left = 0 THEN c.group ELSE c.left
         IN  /\ [c EXCEPT !.left = left - 1] \in Calls
             /\ [c EXCEPT !.left = left - 1] = [depth |-> c.depth, left |-> left - 1, group |-> c.group]
  BY DEF Calls

\* skipValue's loop never leaves the bytes, however the values behind are skipped inside them.
LEMMA ItemsInside ==
  ASSUME NEW b \in Seq(Byte), NEW n \in 0..Len(b), NEW skip, Within(b, skip, n), NEW c \in Calls
  PROVE  SkipItems(b, skip, Len(b) - n, c).at \in Len(b) - n..Len(b)
<1>1. PICK at : at = Len(b) - n
  OBVIOUS
<1>2. Len(b) \in Nat /\ at \in 0..Len(b) /\ n = Len(b) - at
  BY <1>1
<1>3. CASE AtEnd(b, at, c)
  <2>1. SkipItems(b, skip, at, c) =
          [ok |-> c.group = 0 \/ at < Len(b), at |-> IF c.group # 0 /\ at < Len(b) THEN at + 1 ELSE at]
    BY <1>3 DEF SkipItems
  <2> QED  BY <1>1, <1>2, <2>1
<1>4. CASE ~AtEnd(b, at, c)
  <2> DEFINE s    == SkipOne(b, skip, at, c.depth)
             left == IF c.left = 0 THEN c.group ELSE c.left
             next == [c EXCEPT !.left = left - 1]
  <2>1. SkipItems(b, skip, at, c) = IF s.ok THEN skip[Len(b) - s.at][next] ELSE s
    BY <1>4 DEF SkipItems, OneMore
  <2>2. c.depth \in Nat /\ (c.left # 0 \/ c.group # 0)
    BY <1>4 DEF AtEnd, Calls
  <2>3. s.at \in at..Len(b) /\ (s.ok => at < s.at)
    BY <1>1, <2>2, OneInside
  <2>4. next \in Calls
    BY <2>2, NextCall
  <2> HIDE DEF s, next
  <2>5. CASE ~s.ok
    BY <1>1, <2>1, <2>3, <2>5
  <2>6. CASE s.ok
    <3>1. Len(b) - s.at \in 0..n - 1 /\ Len(b) - (Len(b) - s.at) = s.at
      BY <1>2, <2>3, <2>6
    <3>2. skip[Len(b) - s.at][next].at \in s.at..Len(b)
      BY <2>4, <3>1 DEF Within
    <3> QED  BY <1>1, <1>2, <2>1, <2>3, <2>6, <3>2
  <2> QED  BY <2>5, <2>6
<1> QED  BY <1>1, <1>3, <1>4

\* What is read depends on what is read of fewer bytes only.
LEMMA OneAgrees ==
  ASSUME NEW b \in Seq(Byte), NEW n \in 0..Len(b), NEW f, NEW g, \A r \in 0..n - 1 : g[r] = f[r], NEW depth \in Nat
  PROVE  SkipOne(b, g, Len(b) - n, depth) = SkipOne(b, f, Len(b) - n, depth)
<1>1. PICK at : at = Len(b) - n
  OBVIOUS
<1>2. Len(b) \in Nat /\ at \in 0..Len(b) /\ n = Len(b) - at
  BY <1>1
<1>3. CASE depth > MaxDepth \/ at >= Len(b) \/ b[at + 1] = 255
  <2>1. SkipOne(b, g, at, depth) = SkipOne(b, f, at, depth)
    BY <1>3 DEF SkipOne
  <2> QED  BY <1>1, <2>1
<1>4. CASE at < Len(b) /\ ~(depth > MaxDepth) /\ b[at + 1] # 255
  <2> DEFINE h == ReadHead(b, at)
  <2>1. SkipOne(b, g, at, depth) = SkipBody(b, g, depth, h) /\ SkipOne(b, f, at, depth) = SkipBody(b, f, depth, h)
    BY <1>2, <1>4 DEF SkipOne
  <2>2. h.at \in Nat /\ at < h.at /\ h.at <= Len(b)
    BY <1>2, <1>4, HeadRead
  <2> HIDE DEF h
  <2>3. g[Len(b) - h.at] = f[Len(b) - h.at]
    <3>1. Len(b) - h.at \in 0..n - 1
      BY <1>2, <2>2
    <3> QED  BY <3>1
  <2>4. SkipBody(b, g, depth, h) = SkipBody(b, f, depth, h)
    BY <2>3 DEF SkipBody
  <2> QED  BY <1>1, <2>1, <2>4
<1> QED  BY <1>2, <1>3, <1>4

\* It depends on what skip does with fewer bytes only.
LEMMA ItemsAgree ==
  ASSUME NEW b \in Seq(Byte), NEW n \in 0..Len(b), NEW f, NEW g, \A r \in 0..n - 1 : g[r] = f[r],
         Within(b, f, n), NEW c \in Calls
  PROVE  SkipItems(b, g, Len(b) - n, c) = SkipItems(b, f, Len(b) - n, c)
<1>1. PICK at : at = Len(b) - n
  OBVIOUS
<1>2. Len(b) \in Nat /\ at \in 0..Len(b) /\ n = Len(b) - at
  BY <1>1
<1>3. c.depth \in Nat
  BY DEF Calls
<1>4. SkipOne(b, g, at, c.depth) = SkipOne(b, f, at, c.depth)
  BY <1>1, <1>3, OneAgrees
<1> DEFINE s == SkipOne(b, f, at, c.depth)
<1>5. s.at \in at..Len(b) /\ (s.ok => at < s.at)
  BY <1>1, <1>3, OneInside
<1>6. s.ok => g[Len(b) - s.at] = f[Len(b) - s.at]
  <2> HIDE DEF s
  <2>1. s.ok => Len(b) - s.at \in 0..n - 1
    BY <1>2, <1>5
  <2> QED  BY <2>1
<1>7. OneMore(b, g, at, c) = OneMore(b, f, at, c)
  BY <1>4, <1>6 DEF OneMore
<1>8. SkipItems(b, g, at, c) = SkipItems(b, f, at, c)
  BY <1>7 DEF SkipItems
<1> QED  BY <1>1, <1>8

\* What Skip defines, for at most n bytes.
SkipBy(f, b, n) == f = [r \in 0..n |-> [c \in Calls |-> SkipItems(b, f, Len(b) - r, c)]]

\* What Skip defines up to n: it is the loop, and it stays inside.
LEMMA SkipByInside ==
  ASSUME NEW b \in Seq(Byte), NEW n \in 0..Len(b), NEW f, SkipBy(f, b, n)
  PROVE  /\ \A r \in 0..n, c \in Calls : f[r][c] = SkipItems(b, f, Len(b) - r, c)
         /\ Within(b, f, n + 1)
<1>1. \A r \in 0..n : f[r] = [c \in Calls |-> SkipItems(b, f, Len(b) - r, c)]
  BY Zenon DEF SkipBy
<1>2. \A r \in 0..n, c \in Calls : f[r][c] = SkipItems(b, f, Len(b) - r, c)
  BY <1>1
<1>3. Len(b) \in Nat
  OBVIOUS
<1> DEFINE Bad == {r \in 0..n : \E c \in Calls : f[r][c].at \notin Len(b) - r..Len(b)}
<1>4. Bad = {}
  <2> SUFFICES ASSUME NEW k \in Bad, \A m \in Bad : k <= m
               PROVE  FALSE
    <3>1. Bad \subseteq Nat
      OBVIOUS
    <3> HIDE DEF Bad
    <3> QED  BY <3>1, FirstFailure
  <2>1. PICK c \in Calls : f[k][c].at \notin Len(b) - k..Len(b)
    OBVIOUS
  <2>2. Within(b, f, k)
    <3> SUFFICES ASSUME NEW r \in 0..k - 1, NEW d \in Calls
                 PROVE  f[r][d].at \in Len(b) - r..Len(b)
      BY DEF Within
    <3>1. r \in 0..n /\ ~(k <= r)
      OBVIOUS
    <3>2. r \notin Bad
      BY <3>1
    <3> QED  BY <3>1, <3>2
  <2>3. k \in 0..Len(b)
    BY <1>3
  <2>4. SkipItems(b, f, Len(b) - k, c).at \in Len(b) - k..Len(b)
    BY <2>2, <2>3, ItemsInside
  <2> QED  BY <1>2, <2>1, <2>4
<1>5. Within(b, f, n + 1)
  <2>1. (n + 1) - 1 = n
    OBVIOUS
  <2> QED  BY <1>4, <2>1 DEF Within
<1> QED  BY <1>2, <1>5

\* There is such a function.
LEMMA SkipExists ==
  ASSUME NEW b \in Seq(Byte), NEW n \in 0..Len(b)
  PROVE  \E f : SkipBy(f, b, n)
<1>1. Len(b) \in Nat
  OBVIOUS
<1> DEFINE Items(f, r) == [c \in Calls |-> SkipItems(b, f, Len(b) - r, c)]
           Upto(m) == \E f : f = [r \in 0..m |-> Items(f, r)]
<1>2. Upto(0)
  <2> DEFINE e == [r \in {} |-> r]
             x == Items(e, 0)
             g == [r \in 0..0 |-> x]
  <2>1. Items(g, 0) = x
    <3>1. \A r \in 0..0 - 1 : g[r] = e[r]
      OBVIOUS
    <3>2. Within(b, e, 0)
      BY DEF Within
    <3> HIDE DEF g, e
    <3>3. \A c \in Calls : SkipItems(b, g, Len(b) - 0, c) = SkipItems(b, e, Len(b) - 0, c)
      BY <1>1, <3>1, <3>2, ItemsAgree, SMTT(60)
    <3> QED  BY <3>3
  <2>2. g = [r \in 0..0 |-> Items(g, r)]
    <3>1. \A r \in 0..0 : r = 0
      OBVIOUS
    <3> HIDE DEF x, Items
    <3>2. \A r \in 0..0 : x = Items(g, r)
      BY <2>1, <3>1
    <3>3. [r \in 0..0 |-> x] = [r \in 0..0 |-> Items(g, r)]
      BY <3>2
    <3> QED  BY <3>3
  <2> HIDE DEF g
  <2> QED  BY <2>2
<1>3. ASSUME NEW m \in Nat, m + 1 <= Len(b), Upto(m)
      PROVE  Upto(m + 1)
  <2>1. PICK f : f = [r \in 0..m |-> Items(f, r)]
    BY <1>3
  <2> DEFINE x == Items(f, m + 1)
             g == [r \in 0..m + 1 |-> IF r = m + 1 THEN x ELSE f[r]]
  <2>2. m \in 0..Len(b) /\ m + 1 \in 0..Len(b)
    BY <1>1, <1>3
  <2>3. SkipBy(f, b, m)
    BY <2>1 DEF SkipBy
  <2>4. Within(b, f, m + 1)
    BY <2>2, <2>3, SkipByInside
  <2>5. \A r \in 0..m : g[r] = f[r]
    <3> HIDE DEF x
    <3> QED  OBVIOUS
  <2>6. g[m + 1] = x
    <3> HIDE DEF x
    <3> QED  OBVIOUS
  <2>7. \A r \in 0..m + 1 : Items(g, r) = Items(f, r)
    <3> SUFFICES ASSUME NEW r \in 0..m + 1
                 PROVE  Items(g, r) = Items(f, r)
      OBVIOUS
    <3> HIDE DEF g
    <3>1. \A q \in 0..r - 1 : q \in 0..m
      OBVIOUS
    <3>2. \A q \in 0..r - 1 : g[q] = f[q]
      BY <2>5, <3>1
    <3>3. Within(b, f, r)
      BY <2>4, <3>1 DEF Within
    <3>4. r \in 0..Len(b)
      BY <2>2
    <3>5. \A c \in Calls : SkipItems(b, g, Len(b) - r, c) = SkipItems(b, f, Len(b) - r, c)
      BY <3>2, <3>3, <3>4, ItemsAgree
    <3> QED  BY <3>5
  <2>8. \A r \in 0..m : f[r] = Items(f, r)
    <3> HIDE DEF Items
    <3> QED  BY <2>1
  <2>9. g = [r \in 0..m + 1 |-> g[r]]
    <3> HIDE DEF x
    <3> QED  OBVIOUS
  <2> HIDE DEF g, Items
  <2>10. \A r \in 0..m + 1 : g[r] = Items(g, r)
    <3>1. \A r \in 0..m + 1 : r \in 0..m \/ r = m + 1
      OBVIOUS
    <3> QED  BY <2>5, <2>6, <2>7, <2>8, <3>1
  <2>11. g = [r \in 0..m + 1 |-> Items(g, r)]
    BY <2>9, <2>10
  <2> QED  BY <2>11
<1> HIDE DEF Upto
<1>4. ASSUME ~Upto(n)
      PROVE  FALSE
  <2> DEFINE Bad == {m \in 0..Len(b) : ~Upto(m)}
  <2>1. Bad \subseteq Nat /\ Bad # {}
    BY <1>1, <1>4
  <2>2. PICK k \in Bad : \A m \in Bad : k <= m
    <3> HIDE DEF Bad
    <3> QED  BY <2>1, FirstFailure
  <2>3. k # 0 /\ k \in Nat /\ k <= Len(b) /\ ~Upto(k)
    BY <1>1, <1>2
  <2>4. k - 1 \in 0..Len(b) /\ (k - 1) + 1 = k /\ k - 1 \in Nat /\ ~(k <= k - 1)
    BY <1>1, <2>3
  <2>5. k - 1 \notin Bad
    <3> HIDE DEF Bad
    <3> QED  BY <2>2, <2>4
  <2>6. Upto(k - 1)
    BY <2>4, <2>5
  <2> QED  BY <1>3, <2>3, <2>4, <2>6
<1> QED  BY <1>4 DEF Upto, SkipBy

\* The equation that defines Skip, and that it stays inside.
LEMMA SkipStep ==
  ASSUME NEW b \in Seq(Byte)
  PROVE  /\ \A r \in 0..Len(b), c \in Calls : Skip(b)[r][c] = SkipItems(b, Skip(b), Len(b) - r, c)
         /\ Within(b, Skip(b), Len(b) + 1)
<1>1. Len(b) \in 0..Len(b)
  OBVIOUS
<1>2. \E f : SkipBy(f, b, Len(b))
  BY <1>1, SkipExists
<1>3. Skip(b) = CHOOSE f : SkipBy(f, b, Len(b))
  BY DEF Skip, SkipBy
<1>4. SkipBy(Skip(b), b, Len(b))
  BY <1>2, <1>3, Zenon
<1> QED  BY <1>1, <1>4, SkipByInside

\* skipValue stays inside, and passes over something if it succeeds.
LEMMA SkipValueInside ==
  ASSUME NEW b \in Seq(Byte), NEW at \in 0..Len(b), NEW depth \in Nat
  PROVE  LET s == SkipValue(b, at, depth)
         IN  s.at \in at..Len(b) /\ (s.ok => at < s.at)
<1>1. Len(b) \in Nat
  OBVIOUS
<1>2. PICK n : n = Len(b) - at
  OBVIOUS
<1>3. n \in 0..Len(b) /\ at = Len(b) - n
  BY <1>1, <1>2
<1>4. Within(b, Skip(b), n)
  <2>1. \A r \in 0..n - 1 : r \in 0..(Len(b) + 1) - 1
    BY <1>1, <1>3
  <2> QED  BY <2>1, SkipStep DEF Within
<1> QED  BY <1>3, <1>4, OneInside DEF SkipValue

-----------------------------------------------------------------------------
(* The request of authenticatorConfig.                                     *)

\* readByteString and readTextString.
LEMMA ReadStringInside ==
  ASSUME NEW b \in Seq(Byte), NEW at \in 0..Len(b), NEW major \in {2, 3}, NEW max \in Nat \ {0}
  PROVE  LET s == ReadString(b, at, major, max)
         IN  s.at <= Len(b) /\ s.written <= max
<1> DEFINE h == ReadHead(b, at)
           s == ReadString(b, at, major, max)
<1>1. Len(b) \in Nat /\ at <= Len(b)
  OBVIOUS
<1>2. h.at \in 0..Len(b) /\ h.value \in Nat
  BY <1>1, HeadRead
<1> DEFINE fine == h.ok /\ h.major = major /\ h.value <= (IF major = 3 THEN max - 1 ELSE max) /\ h.value <= Len(b) - h.at
<1>3. s = IF fine THEN [ok |-> TRUE, at |-> h.at + h.value, written |-> h.value + (IF major = 3 THEN 1 ELSE 0)]
          ELSE [ok |-> FALSE, at |-> at, written |-> 0]
  BY DEF ReadString, Fits
<1> HIDE DEF s, h
<1>4. CASE fine
  <2>1. s.at = h.at + h.value /\ s.written = h.value + (IF major = 3 THEN 1 ELSE 0)
    BY <1>3, <1>4
  <2> QED  BY <1>1, <1>2, <1>4, <2>1 DEF s
<1>5. CASE ~fine
  <2>1. s.at = at /\ s.written = 0
    BY <1>3, <1>5
  <2> QED  BY <1>1, <2>1 DEF s
<1> QED  BY <1>4, <1>5

\* How far the request has been read.
Reading(b) == [ok : BOOLEAN, at : 0..Len(b), left : Nat, inner : Nat, sub : Nat, minPin : Nat]

\* The root of a request is read inside it.
LEMMA StartInside ==
  ASSUME NEW b \in Seq(Byte)
  PROVE  ConfigStart(b) \in Reading(b)
<1> DEFINE h == ReadHead(b, 0)
<1>1. h.ok \in BOOLEAN /\ h.at \in 0..Len(b) /\ h.value \in Nat
  BY HeadRead
<1> HIDE DEF h
<1>2. (h.ok /\ h.major = 5) \in BOOLEAN
  OBVIOUS
<1> QED  BY <1>1, <1>2 DEF ConfigStart, Reading, h

\* One entry.
LEMMA EntryInside ==
  ASSUME NEW b \in Seq(Byte), NEW p \in Reading(b)
  PROVE  ConfigStep(b, p) \in Reading(b)
<1> DEFINE key == ReadHead(b, p.at)
           val == ReadHead(b, key.at)
<1>1. p.at \in 0..Len(b) /\ Len(b) \in Nat
  BY DEF Reading
<1>2. key.at \in 0..Len(b) /\ key.value \in Nat
  BY <1>1, HeadRead
<1>3. val.at \in 0..Len(b) /\ val.value \in Nat
  BY <1>1, <1>2, HeadRead
<1> HIDE DEF val
<1>4. CASE ~(p.ok /\ (p.left > 0 \/ p.inner > 0))
  BY <1>4 DEF ConfigStep
<1>5. CASE p.ok /\ (p.left > 0 \/ p.inner > 0)
  <2> DEFINE top  == p.inner = 0
             rest == IF top THEN [p EXCEPT !.left = @ - 1] ELSE [p EXCEPT !.inner = @ - 1]
             skipped == SkipValue(b, IF Known(key, 2) THEN val.at ELSE key.at, 0)
  <2>1. rest \in Reading(b)
    BY <1>5 DEF Reading
  <2>2. skipped.at \in 0..Len(b)
    <3>1. (IF Known(key, 2) THEN val.at ELSE key.at) \in 0..Len(b)
      BY <1>2, <1>3
    <3> QED  BY <1>1, <3>1, SkipValueInside
  <2> HIDE DEF rest, skipped, key
  <2>3. ASSUME NEW e, e = ConfigStep(b, p)
        PROVE  \/ \E n, s, m \in Nat : e = [rest EXCEPT !.at = val.at, !.inner = n, !.sub = s, !.minPin = m]
               \/ e = [rest EXCEPT !.at = skipped.at]
    <3>1. e = ConfigEntry(b, p, key, val)
      BY <1>5, <2>3 DEF ConfigStep, key, val
    <3>2. rest.inner \in Nat /\ rest.sub \in Nat /\ rest.minPin \in Nat
      BY <2>1 DEF Reading
    <3> DEFINE open == Known(key, 2) /\ top /\ val.ok /\ val.major = 5
               sub  == Known(key, 1) /\ top
               pin  == Known(key, 2) /\ ~top
    <3>3. CASE open \/ sub \/ pin
      <4>1. e = [rest EXCEPT !.at = val.at, !.inner = IF open THEN val.value ELSE @,
                             !.sub = IF sub /\ val.ok THEN val.value ELSE @,
                             !.minPin = IF pin /\ val.ok THEN val.value ELSE @]
        BY <3>1, <3>3 DEF ConfigEntry, rest
      <4>2. PICK n, s, m : /\ n = IF open THEN val.value ELSE rest.inner
                           /\ s = IF sub /\ val.ok THEN val.value ELSE rest.sub
                           /\ m = IF pin /\ val.ok THEN val.value ELSE rest.minPin
        OBVIOUS
      <4>3. n \in Nat /\ s \in Nat /\ m \in Nat
        BY <1>3, <3>2, <4>2
      <4> HIDE DEF open, sub, pin
      <4>4. e = [rest EXCEPT !.at = val.at, !.inner = n, !.sub = s, !.minPin = m]
        BY <2>1, <4>1, <4>2 DEF Reading
      <4> QED  BY <4>3, <4>4
    <3>4. CASE ~(open \/ sub \/ pin)
      BY <3>1, <3>4 DEF ConfigEntry, rest, skipped
    <3> QED  BY <3>3, <3>4
  <2>4. PICK e : e = ConfigStep(b, p)
    OBVIOUS
  <2>5. CASE \E n, s, m \in Nat : e = [rest EXCEPT !.at = val.at, !.inner = n, !.sub = s, !.minPin = m]
    <3>1. PICK n \in Nat, s \in Nat, m \in Nat :
            e = [rest EXCEPT !.at = val.at, !.inner = n, !.sub = s, !.minPin = m]
      BY <2>5
    <3>2. rest = [ok |-> rest.ok, at |-> rest.at, left |-> rest.left, inner |-> rest.inner,
                  sub |-> rest.sub, minPin |-> rest.minPin] /\ rest.ok \in BOOLEAN /\ rest.left \in Nat
      BY <2>1 DEF Reading
    <3>3. e = [ok |-> rest.ok, at |-> val.at, left |-> rest.left, inner |-> n, sub |-> s, minPin |-> m]
      BY <3>1, <3>2
    <3> QED  BY <1>3, <2>4, <3>2, <3>3 DEF Reading
  <2>6. CASE e = [rest EXCEPT !.at = skipped.at]
    BY <2>1, <2>2, <2>4, <2>6 DEF Reading
  <2> QED  BY <2>3, <2>4, <2>5, <2>6
<1> QED  BY <1>4, <1>5

\* What ParseConfig defines: the reading after each of the first n entries.
RunOf(run, b, n) == run = [i \in 0..n |-> IF i = 0 THEN ConfigStart(b) ELSE ConfigStep(b, run[i - 1])]

\* The entries of a request, one after the other, up to any number: ParseConfig is defined.
LEMMA RunExists ==
  ASSUME NEW b, NEW n \in Nat
  PROVE  \E run : RunOf(run, b, n)
<1> DEFINE Val(f, i) == IF i = 0 THEN ConfigStart(b) ELSE ConfigStep(b, f[i - 1])
           Upto(m) == \E f : f = [i \in 0..m |-> Val(f, i)]
<1>1. Upto(0)
  <2> DEFINE g == [i \in 0..0 |-> ConfigStart(b)]
  <2>1. g = [i \in 0..0 |-> Val(g, i)]
    OBVIOUS
  <2> QED  BY <2>1
<1>2. ASSUME NEW m \in Nat, Upto(m)
      PROVE  Upto(m + 1)
  <2>1. PICK f : f = [i \in 0..m |-> Val(f, i)]
    BY <1>2
  <2> DEFINE x == Val(f, m + 1)
             g == [i \in 0..m + 1 |-> IF i = m + 1 THEN x ELSE f[i]]
  <2>2. \A i \in 0..m + 1 : g[i] = Val(g, i)
    <3> HIDE DEF x
    <3>1. \A i \in 0..m + 1 : g[i] = IF i = m + 1 THEN x ELSE f[i]
      OBVIOUS
    <3>2. \A i \in 0..m : f[i] = Val(f, i)
      BY <2>1
    <3> HIDE DEF g
    <3> QED  BY <3>1, <3>2 DEF x
  <2>3. g = [i \in 0..m + 1 |-> g[i]]
    <3> HIDE DEF x
    <3> QED  OBVIOUS
  <2> HIDE DEF g
  <2>4. g = [i \in 0..m + 1 |-> Val(g, i)]
    BY <2>2, <2>3
  <2> QED  BY <2>4
<1> HIDE DEF Upto
<1>3. ASSUME ~Upto(n)
      PROVE  FALSE
  <2>1. PICK k \in {m \in Nat : ~Upto(m)} : \A m \in {m \in Nat : ~Upto(m)} : k <= m
    BY <1>3, FirstFailure
  <2>2. k # 0 /\ k - 1 \in Nat /\ (k - 1) + 1 = k
    BY <1>1, <2>1
  <2> QED  BY <1>2, <2>1, <2>2
<1> QED  BY <1>3 DEF Upto, RunOf

\* Entry by entry.
Running(run, b, n) == run[0] = ConfigStart(b) /\ \A i \in 1..n : run[i] = ConfigStep(b, run[i - 1])

\* ParseConfig is the last of a run, whose every step is ConfigStep.
LEMMA RunStep ==
  ASSUME NEW b, NEW n \in Nat
  PROVE  \E run : ParseConfig(b, n) = run[n] /\ Running(run, b, n)
<1>1. PICK run : RunOf(run, b, n) /\ ParseConfig(b, n) = run[n]
  <2> DEFINE run == CHOOSE run : RunOf(run, b, n)
  <2>1. RunOf(run, b, n)
    BY RunExists, Zenon
  <2>2. ParseConfig(b, n) = run[n]
    BY DEF ParseConfig, RunOf
  <2> QED  BY <2>1, <2>2
<1>2. \A i \in 0..n : run[i] = IF i = 0 THEN ConfigStart(b) ELSE ConfigStep(b, run[i - 1])
  BY <1>1, Zenon DEF RunOf
<1>3. Running(run, b, n)
  BY <1>2 DEF Running
<1> QED  BY <1>1, <1>3

\* The parser stays inside any request.
LEMMA DeviceReadsInside ==
  ASSUME NEW b \in Seq(Byte)
  PROVE  DeviceReads(b) \in Reading(b)
<1>1. Len(b) \in Nat
  OBVIOUS
<1>2. PICK n : n = 2 * Len(b) + 1
  OBVIOUS
<1>3. n \in Nat
  BY <1>1, <1>2
<1>4. PICK run : /\ ParseConfig(b, n) = run[n] /\ run[0] = ConfigStart(b)
                 /\ \A i \in 1..n : run[i] = ConfigStep(b, run[i - 1])
  BY <1>3, RunStep DEF Running
<1> DEFINE Bad == {i \in 0..n : run[i] \notin Reading(b)}
<1>5. Bad = {}
  <2> SUFFICES ASSUME NEW k \in Bad, \A m \in Bad : k <= m
               PROVE  FALSE
    <3>1. Bad \subseteq Nat
      OBVIOUS
    <3> HIDE DEF Bad
    <3> QED  BY <3>1, FirstFailure
  <2>1. k # 0
    BY <1>4, StartInside
  <2>2. k \in 1..n /\ k - 1 \in 0..n /\ ~(k <= k - 1)
    BY <1>3, <2>1
  <2>3. k - 1 \notin Bad
    <3> HIDE DEF Bad
    <3> QED  BY <2>2
  <2>4. run[k] \in Reading(b)
    BY <1>4, <2>2, <2>3, EntryInside
  <2> QED  BY <2>4
<1> QED  BY <1>2, <1>3, <1>4, <1>5 DEF DeviceReads

-----------------------------------------------------------------------------
(* The reference.                                                          *)

\* A head has at most 8 bytes behind the initial one.
LEMMA HeadShortType ==
  ASSUME NEW info
  PROVE  HeadShort(info) \in Nat /\ HeadShort(info) <= 8
  BY DEF HeadShort

\* What the reference says of n bytes depends on what it says of fewer only.
LEMMA RefOneAgrees ==
  ASSUME NEW s, NEW n \in Nat, NEW f, NEW g, \A r \in 0..n - 1 : g[r] = f[r], NEW from, NEW m \in 1..n, NEW depth
  PROVE  RefOne(s, g, from, m, depth) = RefOne(s, f, from, m, depth)
<1> DEFINE major == s[from + 1] \div 32
           info  == s[from + 1] % 32
           head  == 1 + HeadShort(info)
           value == ReadHead(s, from).value
           opened(ref) == \E k \in 0..m - 2 :
              /\ major # 5 \/ k % 2 = 0
              /\ ref[m - 2][[from |-> from + 1, n |-> k, depth |-> depth - 1]]
           closed(ref) == ref[m - head][[from |-> from + head, depth |-> depth - 1,
                                         n |-> IF major = 5 THEN 2 * value ELSE value]]
           first(ref) == /\ m >= head /\ major # 6 /\ info \notin 28..30
                         /\ IF info = 31
                            THEN major \in 2..5 /\ m >= 2 /\ s[from + m] = 255 /\ opened(ref)
                            ELSE /\ major \in {0, 1, 7} => m = head
                                 /\ major \in {2, 3} => m - head = value
                                 /\ major \in {4, 5} => value <= MaxElements /\ closed(ref)
<1>1. head \in Nat /\ head >= 1
  BY HeadShortType
<1>2. ASSUME NEW ref
      PROVE  RefOne(s, ref, from, m, depth) <=> m > 0 /\ depth >= 0 /\ first(ref)
  BY DEF RefOne
<1>3. RefOne(s, f, from, m, depth) \in BOOLEAN /\ RefOne(s, g, from, m, depth) \in BOOLEAN
  BY DEF RefOne
<1> HIDE DEF major, info, head, value
<1>4. m >= 2 => g[m - 2] = f[m - 2]
  OBVIOUS
<1>5. m >= head => g[m - head] = f[m - head]
  BY <1>1
<1>6. m >= 2 => (opened(g) <=> opened(f))
  BY <1>4
<1>7. m >= head => (closed(g) <=> closed(f))
  BY <1>5
<1> HIDE DEF opened, closed
<1>8. first(g) <=> first(f)
  BY <1>6, <1>7
<1> QED  BY <1>2, <1>3, <1>8

\* The same of n items.
LEMMA RefItemsAgree ==
  ASSUME NEW s, NEW n \in Nat, NEW f, NEW g, \A r \in 0..n - 1 : g[r] = f[r], NEW c
  PROVE  RefItems(s, g, n, c) = RefItems(s, f, n, c)
<1>1. \A k \in 1..n : RefOne(s, g, c.from, k, c.depth) = RefOne(s, f, c.from, k, c.depth)
  BY RefOneAgrees
<1>2. \A k \in 1..n : g[n - k] = f[n - k]
  OBVIOUS
<1> QED  BY <1>1, <1>2 DEF RefItems

\* What Ref defines, for at most n bytes.
RefBy(f, s, n) == f = [m \in 0..n |-> [c \in Spans |-> RefItems(s, f, m, c)]]

\* The reference is defined, up to any number of bytes.
LEMMA RefExists ==
  ASSUME NEW s, NEW n \in Nat
  PROVE  \E f : RefBy(f, s, n)
<1> DEFINE Items(f, m) == [c \in Spans |-> RefItems(s, f, m, c)]
           Upto(m) == \E f : f = [r \in 0..m |-> Items(f, r)]
<1>1. ASSUME NEW f, NEW g, NEW m \in Nat, \A r \in 0..m - 1 : g[r] = f[r]
      PROVE  Items(g, m) = Items(f, m)
  <2>1. \A c \in Spans : RefItems(s, g, m, c) = RefItems(s, f, m, c)
    BY <1>1, RefItemsAgree
  <2> QED  BY <2>1
<1> HIDE DEF Items
<1>2. Upto(0)
  <2> DEFINE e == [r \in {} |-> r]
             x == Items(e, 0)
             g == [r \in 0..0 |-> x]
  <2>1. Items(g, 0) = x
    <3>1. \A r \in 0..0 - 1 : g[r] = e[r]
      OBVIOUS
    <3> HIDE DEF g, e
    <3> QED  BY <1>1, <3>1
  <2>2. g = [r \in 0..0 |-> Items(g, r)]
    <3>1. \A r \in 0..0 : r = 0
      OBVIOUS
    <3> HIDE DEF x
    <3>2. \A r \in 0..0 : x = Items(g, r)
      BY <2>1, <3>1
    <3>3. [r \in 0..0 |-> x] = [r \in 0..0 |-> Items(g, r)]
      BY <3>2
    <3> QED  BY <3>3
  <2> HIDE DEF g
  <2> QED  BY <2>2
<1>3. ASSUME NEW m \in Nat, Upto(m)
      PROVE  Upto(m + 1)
  <2>1. PICK f : f = [r \in 0..m |-> Items(f, r)]
    BY <1>3
  <2> DEFINE x == Items(f, m + 1)
             g == [r \in 0..m + 1 |-> IF r = m + 1 THEN x ELSE f[r]]
  <2>2. \A r \in 0..m : g[r] = f[r]
    <3> HIDE DEF x
    <3> QED  OBVIOUS
  <2>3. g[m + 1] = x
    <3> HIDE DEF x
    <3> QED  OBVIOUS
  <2>4. g = [r \in 0..m + 1 |-> g[r]]
    <3> HIDE DEF x
    <3> QED  OBVIOUS
  <2> HIDE DEF g
  <2>5. \A r \in 0..m + 1 : Items(g, r) = Items(f, r)
    <3> SUFFICES ASSUME NEW r \in 0..m + 1
                 PROVE  Items(g, r) = Items(f, r)
      OBVIOUS
    <3>1. \A q \in 0..r - 1 : q \in 0..m
      OBVIOUS
    <3>2. \A q \in 0..r - 1 : g[q] = f[q]
      BY <2>2, <3>1
    <3> QED  BY <1>1, <3>2
  <2>6. \A r \in 0..m : f[r] = Items(f, r)
    BY <2>1
  <2>7. \A r \in 0..m + 1 : g[r] = Items(g, r)
    <3>1. \A r \in 0..m + 1 : r \in 0..m \/ r = m + 1
      OBVIOUS
    <3> QED  BY <2>2, <2>3, <2>5, <2>6, <3>1
  <2>8. g = [r \in 0..m + 1 |-> Items(g, r)]
    BY <2>4, <2>7
  <2> QED  BY <2>8
<1> HIDE DEF Upto
<1>4. ASSUME ~Upto(n)
      PROVE  FALSE
  <2>1. PICK k \in {m \in Nat : ~Upto(m)} : \A m \in {m \in Nat : ~Upto(m)} : k <= m
    BY <1>4, FirstFailure
  <2>2. k # 0 /\ k - 1 \in Nat /\ (k - 1) + 1 = k
    BY <1>2, <2>1
  <2> QED  BY <1>3, <2>1, <2>2
<1> QED  BY <1>4 DEF Upto, RefBy, Items

\* The equation that defines Ref.
LEMMA RefStep ==
  ASSUME NEW s, Len(s) \in Nat, NEW m \in 0..Len(s), NEW c \in Spans
  PROVE  Ref(s)[m][c] = RefItems(s, Ref(s), m, c)
<1>1. Ref(s) = CHOOSE f : RefBy(f, s, Len(s))
  BY DEF Ref, RefBy
<1>2. RefBy(Ref(s), s, Len(s))
  BY <1>1, RefExists, Zenon
<1>3. \A r \in 0..Len(s) : Ref(s)[r] = [d \in Spans |-> RefItems(s, Ref(s), r, d)]
  BY <1>2, Zenon DEF RefBy
<1> QED  BY <1>3

-----------------------------------------------------------------------------
(* skipValue passes over one item.                                         *)

\* s is the part of b behind offset o.
Inside(b, s, o) == o + Len(s) <= Len(b) /\ \A i \in 1..Len(s) : s[i] = b[o + i]

\* A byte of s is the byte of b behind the offset.
LEMMA SameByte ==
  ASSUME NEW b, NEW s, NEW o, Inside(b, s, o), NEW i \in 1..Len(s), NEW j, j = o + i
  PROVE  s[i] = b[j]
  BY DEF Inside

\* A head reads the same in both.
LEMMA ArgumentMoved ==
  ASSUME NEW b \in Seq(Byte), NEW s \in Seq(Byte), NEW o \in Nat, Inside(b, s, o),
         NEW at \in Nat, NEW info \in 0..31 \ 28..30, at + HeadShort(info) <= Len(s)
  PROVE  Argument(s, at, info) = Argument(b, o + at, info)
<1>1. Len(s) \in Nat /\ Len(b) \in Nat
  OBVIOUS
<1>3. ASSUME NEW acc, NEW k \in Nat, k + 2 <= Len(s)
      PROVE  TwoBytes(s, acc, k) = TwoBytes(b, acc, o + k)
  <2>1. s[k + 1] = b[(o + k) + 1] /\ s[k + 2] = b[(o + k) + 2]
    <3>1. k + 1 \in 1..Len(s) /\ k + 2 \in 1..Len(s) /\ o + (k + 1) = (o + k) + 1 /\ o + (k + 2) = (o + k) + 2
      BY <1>1, <1>3
    <3> QED  BY <3>1, SameByte
  <2> QED  BY <2>1 DEF TwoBytes
<1>4. ASSUME NEW acc, NEW k \in Nat, k + 4 <= Len(s)
      PROVE  FourBytes(s, acc, k) = FourBytes(b, acc, o + k)
  <2>1. k + 2 \in Nat /\ (k + 2) + 2 <= Len(s) /\ k + 2 <= Len(s) /\ o + (k + 2) = (o + k) + 2
    BY <1>1, <1>4
  <2>2. TwoBytes(s, acc, k) = TwoBytes(b, acc, o + k)
    BY <1>3, <2>1
  <2>3. TwoBytes(s, TwoBytes(s, acc, k), k + 2) = TwoBytes(b, TwoBytes(s, acc, k), o + (k + 2))
    BY <1>3, <2>1
  <2> QED  BY <2>1, <2>2, <2>3 DEF FourBytes
<1>5. CASE info < 24 \/ info = 31
  BY <1>5 DEF Argument
<1>6. CASE info = 24
  <2>1. at + 1 \in 1..Len(s) /\ o + (at + 1) = (o + at) + 1
    BY <1>1, <1>6 DEF HeadShort
  <2>2. s[at + 1] = b[(o + at) + 1]
    BY <2>1, SameByte
  <2> QED  BY <1>6, <2>2 DEF Argument
<1>7. CASE info = 25
  <2>1. at + 2 <= Len(s)
    BY <1>7 DEF HeadShort
  <2> QED  BY <1>3, <1>7, <2>1 DEF Argument
<1>8. CASE info = 26
  <2>1. at + 4 <= Len(s)
    BY <1>8 DEF HeadShort
  <2> QED  BY <1>4, <1>8, <2>1 DEF Argument
<1>9. CASE info = 27
  <2>1. at + 4 <= Len(s) /\ at + 4 \in Nat /\ (at + 4) + 4 <= Len(s) /\ o + (at + 4) = (o + at) + 4
    BY <1>1, <1>9 DEF HeadShort
  <2>2. FourBytes(s, 0, at) = FourBytes(b, 0, o + at)
    BY <1>4, <2>1
  <2>3. FourBytes(s, FourBytes(s, 0, at), at + 4) = FourBytes(b, FourBytes(s, 0, at), o + (at + 4))
    BY <1>4, <2>1
  <2> QED  BY <1>9, <2>1, <2>2, <2>3 DEF Argument
<1> QED  BY <1>5, <1>6, <1>7, <1>8, <1>9

\* The heads in s are read in b as they are in s.
HeadsMoved(b, s, o) ==
  \A from \in Nat :
    /\ from < Len(s) /\ s[from + 1] % 32 \notin 28..30
    /\ from + 1 + HeadShort(s[from + 1] % 32) <= Len(s)
    => /\ s[from + 1] \in Byte /\ b[o + from + 1] = s[from + 1]
       /\ ReadHead(b, o + from) = [ok |-> TRUE, major |-> s[from + 1] \div 32, value |-> ReadHead(s, from).value,
                                   at |-> o + from + 1 + HeadShort(s[from + 1] % 32)]

\* Wherever s lies in b.
LEMMA HeadMoved ==
  ASSUME NEW b \in Seq(Byte), NEW s \in Seq(Byte), NEW o \in Nat, Inside(b, s, o)
  PROVE  HeadsMoved(b, s, o)
<1> SUFFICES ASSUME NEW from \in Nat, from < Len(s), s[from + 1] % 32 \notin 28..30,
                    from + 1 + HeadShort(s[from + 1] % 32) <= Len(s)
             PROVE  /\ s[from + 1] \in Byte /\ b[o + from + 1] = s[from + 1]
                    /\ ReadHead(b, o + from) = [ok |-> TRUE, major |-> s[from + 1] \div 32, value |-> ReadHead(s, from).value,
                                                at |-> o + from + 1 + HeadShort(s[from + 1] % 32)]
  BY DEF HeadsMoved
<1> DEFINE x     == s[from + 1]
           major == x \div 32
           info  == x % 32
<1>1. Len(s) \in Nat /\ Len(b) \in Nat /\ from + 1 \in 1..Len(s) /\ o + (from + 1) = (o + from) + 1
      /\ (o + from) + 1 = o + from + 1
  OBVIOUS
<1>2. x \in Byte /\ b[o + from + 1] = x
  BY <1>1 DEF Inside
<1>3. info \in 0..31 \ 28..30 /\ HeadShort(info) \in Nat
  BY <1>2, OfByte, HeadShortType
<1>4. Argument(s, from + 1, info) = Argument(b, o + (from + 1), info)
  <2>1. PICK k : k = from + 1
    OBVIOUS
  <2>2. k \in Nat /\ k + HeadShort(info) <= Len(s)
    BY <2>1
  <2> HIDE DEF info
  <2>3. Argument(s, k, info) = Argument(b, o + k, info)
    BY <1>3, <2>2, ArgumentMoved
  <2> QED  BY <2>1, <2>3
<1> HIDE DEF info, major, x
<1>5. ~(from >= Len(s)) /\ ~(o + from >= Len(b)) /\ o + from + 1 + HeadShort(info) <= Len(b)
      /\ ~(from + 1 + HeadShort(info) > Len(s)) /\ ~(o + from + 1 + HeadShort(info) > Len(b))
  <2>1. o + Len(s) <= Len(b)
    BY DEF Inside
  <2>2. from + 1 + HeadShort(info) <= Len(s)
    BY DEF info, x
  <2> QED  BY <1>1, <1>3, <2>1, <2>2, SMTT(60)
<1>6. ReadHead(s, from) = [ok |-> TRUE, major |-> major, value |-> Argument(s, from + 1, info),
                           at |-> from + 1 + HeadShort(info)]
  BY <1>3, <1>5 DEF ReadHead, x, info, major
<1>7. ReadHead(b, o + from) = [ok |-> TRUE, major |-> major, value |-> Argument(b, o + from + 1, info),
                               at |-> o + from + 1 + HeadShort(info)]
  BY <1>2, <1>3, <1>5 DEF ReadHead, x, info, major
<1>8. ReadHead(s, from).value = Argument(b, o + from + 1, info)
  BY <1>1, <1>4, <1>6
<1> QED  BY <1>2, <1>7, <1>8 DEF x, info, major

\* What skip makes of a call at offset at, and success at offset at.
After(b, at, d, l, g) == Skip(b)[Len(b) - at][[depth |-> d, left |-> l, group |-> g]]
Done(at) == [ok |-> TRUE, at |-> at]

\* One step of SkipItems, at the end of the items and before it.
LEMMA SkipDone ==
  ASSUME NEW b \in Seq(Byte), NEW at \in 0..Len(b), NEW d \in Nat
  PROVE  /\ After(b, at, d, 0, 0) = Done(at)
         /\ at < Len(b) /\ b[at + 1] = 255
            => \A g \in 1..2 : After(b, at, d, 0, g) = Done(at + 1)
<1>1. Len(b) \in Nat /\ Len(b) - at \in 0..Len(b) /\ Len(b) - (Len(b) - at) = at
  OBVIOUS
<1>2. ASSUME NEW g \in 0..2
      PROVE  After(b, at, d, 0, g)
               = SkipItems(b, Skip(b), at, [depth |-> d, left |-> 0, group |-> g])
  <2>1. PICK c : c = [depth |-> d, left |-> 0, group |-> g]
    OBVIOUS
  <2>2. c \in Calls
    BY <2>1 DEF Calls
  <2>3. Skip(b)[Len(b) - at][c] = SkipItems(b, Skip(b), at, c)
    BY <1>1, <2>2, SkipStep
  <2> QED  BY <2>1, <2>3 DEF After
<1>3. SkipItems(b, Skip(b), at, [depth |-> d, left |-> 0, group |-> 0]) = Done(at)
  BY DEF SkipItems, AtEnd, Done
<1>4. ASSUME NEW g \in 1..2, at < Len(b), b[at + 1] = 255
      PROVE  SkipItems(b, Skip(b), at, [depth |-> d, left |-> 0, group |-> g]) = Done(at + 1)
  <2>1. PICK c : c = [depth |-> d, left |-> 0, group |-> g]
    OBVIOUS
  <2>2. c.left = 0 /\ c.group = g /\ g # 0
    BY <2>1
  <2>3. AtEnd(b, at, c)
    BY <1>4, <2>2 DEF AtEnd
  <2>4. SkipItems(b, Skip(b), at, c) = Done(at + 1)
    BY <1>4, <2>2, <2>3 DEF SkipItems, Done
  <2> QED  BY <2>1, <2>4
<1>5. 0 \in 0..2 /\ \A g \in 1..2 : g \in 0..2
  OBVIOUS
<1>6. After(b, at, d, 0, 0) = Done(at)
  BY <1>2, <1>3, <1>5
<1>7. ASSUME NEW g \in 1..2, at < Len(b), b[at + 1] = 255
      PROVE  After(b, at, d, 0, g) = Done(at + 1)
  BY <1>2, <1>4, <1>5, <1>7
<1> QED  BY <1>6, <1>7

\* After the value that ends at to, skipValue's loop goes on with one value less to skip.
GoesOn(b, at, d, to) ==
  \A l \in Nat, g \in 0..2 : \A k :
    (l # 0 \/ (g # 0 /\ at < Len(b) /\ b[at + 1] # 255)) /\ k = (IF l = 0 THEN g ELSE l) - 1
    => After(b, at, d, l, g) = After(b, to, d, k, g)

\* A value that skipValue passes over on its own.
LEMMA SkipMore ==
  ASSUME NEW b \in Seq(Byte), NEW at \in 0..Len(b), NEW d \in Nat, NEW to, SkipOne(b, Skip(b), at, d) = Done(to)
  PROVE  GoesOn(b, at, d, to)
<1> SUFFICES ASSUME NEW l \in Nat, NEW g \in 0..2, NEW k, l # 0 \/ (g # 0 /\ at < Len(b) /\ b[at + 1] # 255),
                    k = (IF l = 0 THEN g ELSE l) - 1
             PROVE  After(b, at, d, l, g) = After(b, to, d, k, g)
  BY DEF GoesOn
<1>1. Len(b) \in Nat /\ Len(b) - at \in 0..Len(b) /\ Len(b) - (Len(b) - at) = at
  OBVIOUS
<1>2. PICK c : c = [depth |-> d, left |-> l, group |-> g]
  OBVIOUS
<1>3. c \in Calls /\ c.depth = d /\ c.left = l /\ c.group = g /\ (c.left # 0 \/ c.group # 0)
  BY <1>2 DEF Calls
<1>4. Skip(b)[Len(b) - at][c] = SkipItems(b, Skip(b), at, c)
  BY <1>1, <1>3, SkipStep
<1>5. ~AtEnd(b, at, c)
  BY <1>1, <1>3 DEF AtEnd
<1>6. SkipItems(b, Skip(b), at, c) = OneMore(b, Skip(b), at, c)
  BY <1>5 DEF SkipItems
<1>7. [c EXCEPT !.left = k] = [depth |-> d, left |-> k, group |-> g]
  BY <1>2
<1>8. OneMore(b, Skip(b), at, c) = Skip(b)[Len(b) - to][[c EXCEPT !.left = k]]
  <2> DEFINE s == SkipOne(b, Skip(b), at, c.depth)
             left == IF c.left = 0 THEN c.group ELSE c.left
  <2>1. OneMore(b, Skip(b), at, c) = IF s.ok THEN Skip(b)[Len(b) - s.at][[c EXCEPT !.left = left - 1]] ELSE s
    BY DEF OneMore
  <2>2. s.ok /\ s.at = to /\ left - 1 = k
    BY <1>3 DEF Done
  <2> HIDE DEF s, left
  <2> QED  BY <2>1, <2>2
<1> QED  BY <1>2, <1>4, <1>6, <1>7, <1>8 DEF After

\* The n items that end at end are passed over: counted, and as the last ones before a break byte.
Passed(b, at, d, n, end) ==
  /\ After(b, at, d, n, 0) = Done(end)
  /\ \A group \in 1..2, left \in 0..1 :
       end < Len(b) /\ b[end + 1] = 255 /\ left < group /\ (group = 2 => n % 2 = left)
       => After(b, at, d, left, group) = Done(end + 1)

\* The n items that the reference sees behind from in s, m bytes in all, are passed over.
ItemsPassed(b, s, o, m) ==
  \A from \in Nat, n \in Nat, depth \in Int :
    from + m <= Len(s) /\ depth <= MaxDepth /\ Ref(s)[m][[from |-> from, n |-> n, depth |-> depth]]
    => Passed(b, o + from, MaxDepth - depth, n, o + from + m)

\* What the induction gives for m bytes of s, which lies in b.
LEMMA UseItemsPassed ==
  ASSUME NEW b, NEW s, NEW o, NEW m, ItemsPassed(b, s, o, m), NEW from \in Nat, NEW n \in Nat, NEW depth \in Int,
         from + m <= Len(s), depth <= MaxDepth, Ref(s)[m][[from |-> from, n |-> n, depth |-> depth]],
         NEW at, at = o + from, NEW end, end = o + from + m, NEW d, d = MaxDepth - depth
  PROVE  Passed(b, at, d, n, end)
<1>1. Passed(b, o + from, MaxDepth - depth, n, o + from + m)
  BY DEF ItemsPassed
<1> QED  BY <1>1

\* The one item that the reference sees behind from in s, m bytes long, is passed over,
OneItem(b, s, o, m) ==
  \A from \in Nat, depth \in Int : \A at, d :
    /\ from + m <= Len(s) /\ depth <= MaxDepth /\ RefOne(s, Ref(s), from, m, depth)
    /\ at = o + from /\ d = MaxDepth - depth
    => SkipOne(b, Skip(b), at, d) = Done(at + m) /\ m > 0 /\ b[at + 1] # 255

\* given that for the items inside.
LEMMA OnePassed ==
  ASSUME NEW b \in Seq(Byte), NEW s \in Seq(Byte), NEW o \in Nat, Inside(b, s, o),
         NEW m \in Nat, \A r \in 0..m - 1 : ItemsPassed(b, s, o, r)
  PROVE  OneItem(b, s, o, m)
<1> SUFFICES ASSUME NEW from \in Nat, NEW depth \in Int, NEW at, NEW d, from + m <= Len(s), depth <= MaxDepth,
                    RefOne(s, Ref(s), from, m, depth), at = o + from, d = MaxDepth - depth
             PROVE  /\ SkipOne(b, Skip(b), at, d) = Done(at + m)
                    /\ m > 0 /\ b[at + 1] # 255
  BY DEF OneItem
<1>1. PICK x : x = s[from + 1]
  OBVIOUS
<1>2. PICK major, info, short, value :
        major = x \div 32 /\ info = x % 32 /\ short = HeadShort(x % 32) /\ value = ReadHead(s, from).value
  OBVIOUS
<1>20. PICK head, width : head = 1 + short /\ width = IF major = 5 THEN 2 ELSE 1
  OBVIOUS
<1>21. m > 0 /\ depth >= 0 /\ m >= head /\ major # 6 /\ info \notin 28..30
  BY <1>1, <1>2, <1>20 DEF RefOne
<1>22. info = 31 => /\ major \in 2..5 /\ m >= 2 /\ s[from + m] = 255
                    /\ \E n \in 0..m - 2 : /\ major # 5 \/ n % 2 = 0
                                          /\ Ref(s)[m - 2][[from |-> from + 1, n |-> n, depth |-> depth - 1]]
  BY <1>1, <1>2 DEF RefOne
<1>23. info # 31 => /\ major \in {0, 1, 7} => m = head
                    /\ major \in {2, 3} => m - head = value
                    /\ major \in {4, 5} => value <= MaxElements
  BY <1>1, <1>2, <1>20 DEF RefOne
<1>24. info # 31 /\ major \in {4, 5} =>
         Ref(s)[m - head][[from |-> from + head, depth |-> depth - 1, n |-> IF major = 5 THEN 2 * value ELSE value]]
  BY <1>1, <1>2, <1>20 DEF RefOne
<1>3. MaxDepth \in Nat /\ MaxElements \in Nat /\ Len(b) \in Nat /\ Len(s) \in Nat /\ o + Len(s) <= Len(b)
  BY CborAssumption DEF Inside
<1>4. short \in Nat /\ head \in Nat /\ head >= 1
  <2>1. short \in Nat
    BY <1>2, HeadShortType
  <2> QED  BY <1>20, <2>1
<1>5. at \in Nat /\ at + m <= Len(b) /\ at < Len(b) /\ at \in 0..Len(b) /\ from < Len(s) /\ from + head <= Len(s)
  BY <1>3, <1>4, <1>21
<1>6. x \in Byte /\ b[at + 1] = x /\ ReadHead(b, at) = [ok |-> TRUE, major |-> major, value |-> value, at |-> at + head]
  <2>1. s[from + 1] % 32 \notin 28..30 /\ from + 1 + HeadShort(s[from + 1] % 32) <= Len(s)
    <3>1. from + 1 + short <= Len(s)
      BY <1>4, <1>5, <1>20
    <3> QED  BY <1>1, <1>2, <1>21, <3>1
  <2>2. /\ s[from + 1] \in Byte /\ b[o + from + 1] = s[from + 1]
        /\ ReadHead(b, o + from) = [ok |-> TRUE, major |-> s[from + 1] \div 32, value |-> ReadHead(s, from).value,
                                    at |-> o + from + 1 + HeadShort(s[from + 1] % 32)]
    <3>1. HeadsMoved(b, s, o)
      BY HeadMoved
    <3> QED  BY <1>5, <2>1, <3>1 DEF HeadsMoved
  <2>3. o + from + 1 = at + 1 /\ o + from + 1 + short = at + head
    BY <1>4, <1>20
  <2>4. ReadHead(b, o + from) = [ok |-> TRUE, major |-> major, value |-> value, at |-> o + from + 1 + short]
    BY <1>1, <1>2, <2>2
  <2> QED  BY <1>1, <2>2, <2>3, <2>4
<1>7. value \in Nat /\ (value = Huge <=> info = 31) /\ major \in 0..7 /\ info \in 0..31
  <2>1. LET h == ReadHead(b, at)
        IN h.value \in Nat /\ (h.ok => (h.value = Huge <=> b[at + 1] % 32 = 31))
    BY <1>5, HeadRead
  <2>2. major \in 0..7 /\ info \in 0..31
    BY <1>2, <1>6, OfByte
  <2> QED  BY <1>2, <1>6, <2>1, <2>2
<1>8. b[at + 1] # 255
  <2>1. b[at + 1] = 32 * major + info
    BY <1>2, <1>6, OfByte
  <2>2. info = 31 => major \in 2..5
    BY <1>22
  <2> QED  BY <1>7, <1>21, <2>1, <2>2
<1>9. d \in Nat /\ ~(d > MaxDepth) /\ ~(at >= Len(b)) /\ d + 1 = MaxDepth - (depth - 1)
       /\ depth - 1 \in Int /\ depth - 1 <= MaxDepth
  BY <1>3, <1>5, <1>21
<1>10. PICK h : h = [ok |-> TRUE, major |-> major, value |-> value, at |-> at + head]
  OBVIOUS
<1>11. SkipOne(b, Skip(b), at, d) = SkipBody(b, Skip(b), d, h)
  BY <1>6, <1>8, <1>9, <1>10 DEF SkipOne
<1>12. h.ok /\ h.major = major /\ h.value = value /\ h.at = at + head
  BY <1>10
<1>13. CASE info = 31
  <2>1. value = Huge /\ major \in 2..5 /\ head = 1 /\ m >= 2
    <3>1. HeadShort(31) = 0
      BY DEF HeadShort
    <3> QED  BY <1>2, <1>7, <1>13, <1>20, <1>22, <3>1
  <2>2. SkipBody(b, Skip(b), d, h) = After(b, h.at, d + 1, 0, width)
    BY <1>12, <1>20, <2>1, SMTT(60) DEF SkipBody, After
  <2>3. PICK n \in 0..m - 2 : /\ major # 5 \/ n % 2 = 0
                             /\ Ref(s)[m - 2][[from |-> from + 1, n |-> n, depth |-> depth - 1]]
    BY <1>13, <1>22
  <2>4. PICK r, f, end : r = m - 2 /\ f = from + 1 /\ end = at + m - 1
    OBVIOUS
  <2>5. /\ end \in Nat /\ end < Len(b) /\ end + 1 = at + m /\ r \in 0..m - 1 /\ n \in Nat /\ end = o + f + r
        /\ f \in Nat /\ f + r <= Len(s) /\ at + 1 = o + f
    BY <1>3, <1>5, <2>1, <2>4
  <2>6. b[end + 1] = 255
    <3>1. from + m \in 1..Len(s) /\ end + 1 = o + (from + m)
      BY <1>3, <1>5, <1>21, <2>5
    <3>2. s[from + m] = 255
      BY <1>13, <1>22
    <3> QED  BY <3>1, <3>2, SameByte
  <2>7. ItemsPassed(b, s, o, r)
    BY <2>5
  <2>8. Passed(b, at + 1, d + 1, n, end)
    BY <1>9, <2>3, <2>4, <2>5, <2>7, UseItemsPassed, ZenonT(60)
  <2>9. width \in 1..2 /\ 0 \in 0..1 /\ 0 < width /\ (width = 2 => n % 2 = 0)
    BY <1>20, <2>3
  <2>10. After(b, at + 1, d + 1, 0, width) = Done(end + 1)
    BY <2>5, <2>6, <2>8, <2>9 DEF Passed
  <2>11. SkipOne(b, Skip(b), at, d) = Done(at + m)
    BY <1>11, <1>12, <2>1, <2>2, <2>5, <2>10
  <2> QED  BY <1>8, <1>21, <2>11
<1>14. CASE info # 31 /\ major \in {0, 1, 7}
  <2>1. SkipBody(b, Skip(b), d, h) = Done(at + head)
    BY <1>7, <1>12, <1>14 DEF SkipBody, Done
  <2>2. m = head
    BY <1>14, <1>23
  <2> QED  BY <1>8, <1>11, <1>21, <2>1, <2>2
<1>15. CASE info # 31 /\ major \in {2, 3}
  <2>1. m - head = value
    BY <1>15, <1>23
  <2>2. Fits(b, at + head, value) /\ at + head + value = at + m /\ value # Huge
    BY <1>3, <1>4, <1>5, <1>7, <1>15, <2>1 DEF Fits
  <2>3. SkipBody(b, Skip(b), d, h) = [ok |-> Fits(b, at + head, value), at |-> at + head + value]
    BY <1>12, <1>15, <2>2 DEF SkipBody
  <2>4. Fits(b, at + head, value) = TRUE
    BY <2>2 DEF Fits
  <2> QED  BY <1>8, <1>11, <1>21, <2>2, <2>3, <2>4 DEF Done
<1>16. CASE info # 31 /\ major \in {4, 5}
  <2>1. value # Huge /\ ~(value > MaxElements)
    <3>1. value <= MaxElements
      BY <1>16, <1>23
    <3> QED  BY <1>3, <1>7, <1>16, <3>1
  <2>2. SkipBody(b, Skip(b), d, h) = After(b, h.at, d + 1, value * width, 0)
    BY <1>12, <1>16, <1>20, <2>1, SMTT(60) DEF SkipBody, After
  <2>3. PICK n, r, f : n = (IF major = 5 THEN 2 * value ELSE value) /\ r = m - head /\ f = from + head
    OBVIOUS
  <2>4. n \in Nat /\ value * width = n
    <3>1. CASE major = 5
      BY <1>7, <1>20, <2>3, <3>1
    <3>2. CASE major # 5
      BY <1>7, <1>20, <2>3, <3>2
    <3> QED  BY <3>1, <3>2
  <2>5. Ref(s)[r][[from |-> f, n |-> n, depth |-> depth - 1]]
    BY <1>16, <1>24, <2>3
  <2>6. r \in 0..m - 1 /\ f \in Nat /\ f + r <= Len(s) /\ at + head = o + f /\ at + m = o + f + r
    BY <1>4, <1>5, <1>21, <2>3
  <2>7. ItemsPassed(b, s, o, r)
    BY <2>6
  <2>8. Passed(b, at + head, d + 1, n, at + m)
    BY <1>9, <2>4, <2>5, <2>6, <2>7, UseItemsPassed
  <2>9. After(b, at + head, d + 1, n, 0) = Done(at + m)
    BY <2>8 DEF Passed
  <2> QED  BY <1>8, <1>11, <1>12, <1>21, <2>2, <2>4, <2>9
<1> QED  BY <1>7, <1>13, <1>14, <1>15, <1>16, <1>21

\* And so for all items.
LEMMA AllPassed ==
  ASSUME NEW b \in Seq(Byte), NEW s \in Seq(Byte), NEW o \in Nat, Inside(b, s, o), NEW m \in 0..Len(s)
  PROVE  ItemsPassed(b, s, o, m)
<1>1. MaxDepth \in Nat /\ Len(b) \in Nat /\ Len(s) \in Nat /\ o + Len(s) <= Len(b)
  BY CborAssumption DEF Inside
<1>2. ASSUME NEW k \in 0..Len(s), \A r \in 0..k - 1 : ItemsPassed(b, s, o, r)
      PROVE  ItemsPassed(b, s, o, k)
  <2> SUFFICES ASSUME NEW from \in Nat, NEW n \in Nat, NEW depth \in Int,
                      from + k <= Len(s), depth <= MaxDepth, Ref(s)[k][[from |-> from, n |-> n, depth |-> depth]]
               PROVE  Passed(b, o + from, MaxDepth - depth, n, o + from + k)
    BY DEF ItemsPassed
  <2>1. PICK d, at, end : d = MaxDepth - depth /\ at = o + from /\ end = o + from + k
    OBVIOUS
  <2>2. d \in Nat /\ at + k = end /\ end <= Len(b) /\ at <= Len(b) /\ k \in Nat /\ at \in 0..Len(b)
    BY <1>1, <2>1
  <2>3. RefItems(s, Ref(s), k, [from |-> from, n |-> n, depth |-> depth])
    <3>1. [from |-> from, n |-> n, depth |-> depth] \in Spans
      BY DEF Spans
    <3> QED  BY <1>1, <3>1, RefStep
  <2>4. CASE n = 0
    <3>1. k = 0 /\ at = end
      BY <2>2, <2>3, <2>4 DEF RefItems
    <3>2. After(b, at, d, n, 0) = Done(end)
      BY <2>2, <2>4, <3>1, SkipDone
    <3>3. ASSUME NEW g \in 1..2, NEW l \in 0..1, end < Len(b), b[end + 1] = 255, l < g, g = 2 => n % 2 = l
          PROVE  After(b, at, d, l, g) = Done(end + 1)
      <4>1. l = 0
        BY <2>4, <3>3
      <4> QED  BY <2>2, <3>1, <3>3, <4>1, SkipDone
    <3>4. Passed(b, at, d, n, end)
      BY <3>2, <3>3 DEF Passed
    <3> QED  BY <2>1, <3>4
  <2>5. CASE n # 0
    <3>1. PICK q \in 1..k : /\ RefOne(s, Ref(s), from, q, depth)
                            /\ Ref(s)[k - q][[from |-> from + q, n |-> n - 1, depth |-> depth]]
      BY <2>3, <2>5 DEF RefItems
    <3>2. PICK r, f, j, to : r = k - q /\ f = from + q /\ j = n - 1 /\ to = at + q
      OBVIOUS
    <3>3. /\ q \in Nat /\ from + q <= Len(s) /\ \A i \in 0..q - 1 : i \in 0..k - 1
          /\ r \in 0..k - 1 /\ f \in Nat /\ f + r <= Len(s) /\ j \in Nat /\ to = o + f /\ end = o + f + r /\ at < Len(b)
      BY <1>1, <2>1, <2>2, <2>5, <3>2
    <3>4. SkipOne(b, Skip(b), at, d) = Done(to) /\ b[at + 1] # 255
      <4>1. \A i \in 0..q - 1 : ItemsPassed(b, s, o, i)
        BY <1>2, <3>3
      <4>2. RefOne(s, Ref(s), from, q, depth) /\ q \in Nat /\ from + q <= Len(s)
        BY <3>1, <3>3
      <4>3. SkipOne(b, Skip(b), at, d) = Done(at + q) /\ b[at + 1] # 255
        <5>1. at = o + from /\ d = MaxDepth - depth
          BY <2>1
        <5>2. OneItem(b, s, o, q)
          BY <4>1, <4>2, OnePassed
        <5> QED  BY <4>2, <5>1, <5>2 DEF OneItem
      <4> QED  BY <3>2, <4>3
    <3>5. ItemsPassed(b, s, o, r)
      BY <1>2, <3>3
    <3>6. Ref(s)[r][[from |-> f, n |-> j, depth |-> depth]]
      BY <3>1, <3>2
    <3>7. Passed(b, to, d, j, end)
      BY <2>1, <3>3, <3>5, <3>6, UseItemsPassed
    <3>11. GoesOn(b, at, d, to)
      BY <2>2, <3>4, SkipMore
    <3>8. After(b, at, d, n, 0) = Done(end)
      <4>1. 0 \in 0..2 /\ j = (IF n = 0 THEN 0 ELSE n) - 1
        BY <2>5, <3>2
      <4>2. After(b, at, d, n, 0) = After(b, to, d, j, 0)
        BY <2>5, <3>11, <4>1 DEF GoesOn
      <4> QED  BY <3>7, <4>2 DEF Passed
    <3>9. ASSUME NEW g \in 1..2, NEW l \in 0..1, end < Len(b), b[end + 1] = 255, l < g, g = 2 => n % 2 = l
          PROVE  After(b, at, d, l, g) = Done(end + 1)
      <4>1. PICK x : x = (IF l = 0 THEN g ELSE l) - 1
        OBVIOUS
      <4>2. x \in 0..1 /\ x < g /\ (g = 2 => j % 2 = x)
        <5>1. CASE g = 1
          BY <3>9, <4>1, <5>1
        <5>2. CASE g = 2
          BY <3>2, <3>9, <4>1, <5>2
        <5> QED  BY <5>1, <5>2
      <4>3. l \in Nat /\ g \in 0..2 /\ g # 0
        OBVIOUS
      <4>4. After(b, at, d, l, g) = After(b, to, d, x, g)
        <5>1. g # 0 /\ at < Len(b) /\ b[at + 1] # 255
          BY <3>3, <3>4, <4>3
        <5> QED  BY <3>11, <4>1, <4>3, <5>1, ZenonT(60) DEF GoesOn
      <4>5. After(b, to, d, x, g) = Done(end + 1)
        BY <3>7, <3>9, <4>2 DEF Passed
      <4> QED  BY <4>4, <4>5
    <3>10. Passed(b, at, d, n, end)
      BY <3>8, <3>9 DEF Passed
    <3> QED  BY <2>1, <3>10
  <2> QED  BY <2>4, <2>5
<1> DEFINE Bad == {k \in 0..Len(s) : ~ItemsPassed(b, s, o, k)}
<1>3. Bad = {}
  <2> SUFFICES ASSUME NEW k \in Bad, \A r \in Bad : k <= r
               PROVE  FALSE
    <3>1. Bad \subseteq Nat
      OBVIOUS
    <3> HIDE DEF Bad
    <3> QED  BY <3>1, FirstFailure
  <2>1. \A r \in 0..k - 1 : ItemsPassed(b, s, o, r)
    <3>1. \A r \in 0..k - 1 : r \in 0..Len(s) /\ ~(k <= r)
      BY <1>1
    <3> QED  BY <3>1
  <2> QED  BY <1>2, <2>1
<1> QED  BY <1>3

\* An item of the reference, wherever it is, is passed over.
LEMMA SkipsItem ==
  ASSUME NEW b \in Seq(Byte), NEW s \in Seq(Byte), NEW o \in Nat, Inside(b, s, o), RefItem(s, MaxDepth)
  PROVE  SkipValue(b, o, 0) = Done(o + Len(s))
<1>1. MaxDepth \in Nat /\ Len(s) \in Nat
  BY CborAssumption
<1>2. PICK m : m = Len(s)
  OBVIOUS
<1>3. \A r \in 0..m - 1 : ItemsPassed(b, s, o, r)
  <2>1. \A r \in 0..m - 1 : r \in 0..Len(s)
    BY <1>1, <1>2
  <2> QED  BY <2>1, AllPassed
<1>4. m \in Nat /\ 0 \in Nat /\ 0 + m <= Len(s) /\ MaxDepth \in Int /\ MaxDepth <= MaxDepth
      /\ o = o + 0 /\ 0 = MaxDepth - MaxDepth
  BY <1>1, <1>2
<1>5. RefOne(s, Ref(s), 0, m, MaxDepth)
  BY <1>2 DEF RefItem
<1>6. SkipOne(b, Skip(b), o, 0) = Done(o + m)
  <2>1. OneItem(b, s, o, m)
    BY <1>3, <1>4, OnePassed
  <2> QED  BY <1>4, <1>5, <2>1 DEF OneItem
<1> QED  BY <1>2, <1>6 DEF SkipValue

\* An item at the beginning of b is skipped, and nothing else.
LEMMA FirstItemSkipped ==
  ASSUME NEW b \in Seq(Byte), NEW k \in 1..Len(b), RefItem(SubSeq(b, 1, k), MaxDepth)
  PROVE  SkipValue(b, 0, 0) = [ok |-> TRUE, at |-> k]
<1>1. PICK s : s = SubSeq(b, 1, k)
  OBVIOUS
<1>2. s \in Seq(Byte) /\ Len(s) = k /\ Len(b) \in Nat /\ \A i \in 1..k : s[i] = b[i]
  BY <1>1
<1>3. Inside(b, s, 0)
  <2>1. \A i \in 1..Len(s) : 0 + i = i
    BY <1>2
  <2>2. 0 + Len(s) <= Len(b)
    BY <1>2
  <2> QED  BY <1>2, <2>1, <2>2 DEF Inside
<1>4. SkipValue(b, 0, 0) = Done(0 + Len(s))
  BY <1>1, <1>2, <1>3, SkipsItem
<1> QED  BY <1>2, <1>4 DEF Done

\* ParserStaysInside, for any bytes.
LEMMA ParserInside ==
  ASSUME request \in Seq(Byte)
  PROVE  ParserStaysInside
<1>1. PICK b : b = request
  OBVIOUS
<1>2. b \in Seq(Byte) /\ Len(b) \in Nat
  BY <1>1
<1>3. DeviceReads(b).at <= Len(b)
  BY <1>2, DeviceReadsInside DEF Reading
<1>4. ASSUME NEW at \in 0..Len(b)
      PROVE  /\ SkipValue(b, at, 0).at <= Len(b)
             /\ \A max \in 1..2, major \in {2, 3} :
                  LET s == ReadString(b, at, major, max)
                  IN  s.at <= Len(b) /\ s.written <= max
  <2>1. SkipValue(b, at, 0).at \in at..Len(b)
    BY <1>2, SkipValueInside
  <2>2. \A max \in 1..2, major \in {2, 3} :
          LET s == ReadString(b, at, major, max)
          IN  s.at <= Len(b) /\ s.written <= max
    BY <1>2, ReadStringInside
  <2> QED  BY <1>2, <2>1, <2>2
<1> QED  BY <1>1, <1>3, <1>4 DEF ParserStaysInside

\* SkipsOneItem, for any bytes.
LEMMA ItemSkipped ==
  ASSUME request \in Seq(Byte)
  PROVE  SkipsOneItem
  BY FirstItemSkipped DEF SkipsOneItem

-----------------------------------------------------------------------------
(* What the encoder writes, the parser reads.                              *)

\* The numbers the parser can tell from one that no buffer holds.
Counts == {n \in Nat : n <= Huge - 256}

\* Such a number is not Huge.
LEMMA CountIs ==
  ASSUME NEW n \in Counts
  PROVE  n \in Nat /\ n # Huge
  BY SMT DEF Counts, Huge

\* The initial byte gives back the major type and the additional information.
LEMMA FirstByte ==
  ASSUME NEW major \in 0..7, NEW info \in 0..26, NEW x, x = 32 * major + info
  PROVE  x \in Byte /\ x \div 32 = major /\ x % 32 = info /\ x # 255
  BY SMT DEF Byte

\* Two bytes, the high one first, give back their number,
LEMMA TwoBytesBack ==
  ASSUME NEW n \in Nat, n <= 65535
  PROVE  /\ n \div 256 \in Byte /\ n % 256 \in Byte
         /\ Grown(Grown(0, n \div 256), n % 256) = n
<1>1. n \div 256 \in Byte /\ n % 256 \in Byte /\ (n \div 256) * 256 + (n % 256) = n
  BY SMT DEF Byte
<1>2. Grown(0, n \div 256) = n \div 256
  BY <1>1, SMT DEF Grown, HighFirst, Huge, Byte
<1>3. Grown(n \div 256, n % 256) = n
  BY <1>1, SMT DEF Grown, HighFirst, Huge, Byte
<1> QED  BY <1>1, <1>2, <1>3

\* and so do four.
LEMMA FourBytesBack ==
  ASSUME NEW n \in Counts
  PROVE  /\ n \div 16777216 \in Byte /\ (n \div 65536) % 256 \in Byte
         /\ (n \div 256) % 256 \in Byte /\ n % 256 \in Byte
         /\ Grown(Grown(Grown(Grown(0, n \div 16777216), (n \div 65536) % 256), (n \div 256) % 256), n % 256) = n
<1>1. /\ n \div 16777216 \in Byte /\ (n \div 65536) % 256 \in Byte
      /\ (n \div 256) % 256 \in Byte /\ n % 256 \in Byte
  BY SMT DEF Byte, Counts, Huge
<1>2. /\ (n \div 16777216) * 256 + ((n \div 65536) % 256) = n \div 65536
      /\ (n \div 65536) * 256 + ((n \div 256) % 256) = n \div 256
      /\ (n \div 256) * 256 + (n % 256) = n
      /\ n \div 65536 \in Nat /\ n \div 256 \in Nat /\ n \div 256 < Huge \div 256 /\ n \div 65536 < Huge \div 256
      /\ n \div 16777216 < Huge \div 256 /\ n \div 16777216 \in Nat
  BY SMT DEF Counts, Huge
<1>3. Grown(0, n \div 16777216) = n \div 16777216
  BY <1>1, SMT DEF Grown, HighFirst, Huge, Byte
<1>4. Grown(n \div 16777216, (n \div 65536) % 256) = n \div 65536
  BY <1>1, <1>2, SMT DEF Grown, HighFirst, Huge, Byte
<1>5. Grown(n \div 65536, (n \div 256) % 256) = n \div 256
  BY <1>1, <1>2, SMT DEF Grown, HighFirst, Huge, Byte
<1>6. Grown(n \div 256, n % 256) = n
  BY <1>1, <1>2, SMT DEF Grown, HighFirst, Huge, Byte
<1> QED  BY <1>1, <1>3, <1>4, <1>5, <1>6

\* The bytes of a number, the lowest first, and a head in the fewest bytes.
Byte0(n) == n % 256
Byte1(n) == (n \div 256) % 256
Byte2(n) == (n \div 65536) % 256
Byte3(n) == n \div 16777216
Short(n) == n >= 256 /\ n <= 65535

HeadLayout(head, major, n) ==
  \/ n < 24 /\ head = <<32 * major + n>>
  \/ n \in 24..255 /\ head = <<32 * major + 24, n>>
  \/ Short(n) /\ head = <<32 * major + 25, Byte1(n), Byte0(n)>>
  \/ head = <<32 * major + 26, Byte3(n), Byte2(n), Byte1(n), Byte0(n)>>

\* HeadBytes has this layout.
LEMMA LayoutOf ==
  ASSUME NEW major, NEW n \in Nat
  PROVE  HeadLayout(HeadBytes(major, n), major, n)
<1>1. n >= 256 /\ n <= 65535 => n \div 256 = (n \div 256) % 256
  BY SMT
<1> QED  BY <1>1, SMT DEF HeadBytes, HeadLayout, Short, Byte0, Byte1, Byte2, Byte3

\* The bytes of the layout give back the number, two of them
LEMMA ShortBack ==
  ASSUME NEW n \in Nat, Short(n)
  PROVE  Byte1(n) \in Byte /\ Byte0(n) \in Byte /\ Grown(Grown(0, Byte1(n)), Byte0(n)) = n
<1>1. n <= 65535 /\ Byte1(n) = n \div 256 /\ Byte0(n) = n % 256
  BY SMT DEF Short, Byte0, Byte1
<1> QED  BY <1>1, TwoBytesBack, SMT

\* or four.
LEMMA LongBack ==
  ASSUME NEW n \in Counts
  PROVE  /\ Byte3(n) \in Byte /\ Byte2(n) \in Byte /\ Byte1(n) \in Byte /\ Byte0(n) \in Byte
         /\ Grown(Grown(Grown(Grown(0, Byte3(n)), Byte2(n)), Byte1(n)), Byte0(n)) = n
  BY FourBytesBack, SMT DEF Byte0, Byte1, Byte2, Byte3

\* A head is one to five bytes.
LEMMA HeadBytesType ==
  ASSUME NEW major \in 0..7, NEW n \in Counts
  PROVE  HeadBytes(major, n) \in Seq(Byte) /\ Len(HeadBytes(major, n)) \in 1..5
<1>1. PICK head : head = HeadBytes(major, n)
  OBVIOUS
<1>2. n \in Nat /\ HeadLayout(head, major, n)
  BY <1>1, CountIs, LayoutOf
<1>3. CASE n < 24 /\ head = <<32 * major + n>>
  <2>1. 32 * major + n \in Byte
    BY <1>2, <1>3, FirstByte
  <2> QED  BY <1>1, <1>3, <2>1
<1>4. CASE n \in 24..255 /\ head = <<32 * major + 24, n>>
  <2>1. 32 * major + 24 \in Byte
    BY FirstByte
  <2>2. n \in Byte
    BY <1>4 DEF Byte
  <2> QED  BY <1>1, <1>4, <2>1, <2>2
<1>5. CASE Short(n) /\ head = <<32 * major + 25, Byte1(n), Byte0(n)>>
  <2>1. 32 * major + 25 \in Byte
    BY FirstByte
  <2>2. Byte1(n) \in Byte /\ Byte0(n) \in Byte
    BY <1>2, <1>5, ShortBack
  <2>3. PICK x, y, z : x = 32 * major + 25 /\ y = Byte1(n) /\ z = Byte0(n)
    OBVIOUS
  <2>4. x \in Byte /\ y \in Byte /\ z \in Byte /\ head = <<x, y, z>>
    BY <1>5, <2>1, <2>2, <2>3
  <2> QED  BY <1>1, <2>4
<1>6. CASE head = <<32 * major + 26, Byte3(n), Byte2(n), Byte1(n), Byte0(n)>>
  <2>1. 32 * major + 26 \in Byte
    BY FirstByte
  <2>2. Byte3(n) \in Byte /\ Byte2(n) \in Byte /\ Byte1(n) \in Byte /\ Byte0(n) \in Byte
    BY LongBack
  <2>3. PICK x, u, v, y, z : /\ x = 32 * major + 26 /\ u = Byte3(n) /\ v = Byte2(n)
                             /\ y = Byte1(n) /\ z = Byte0(n)
    OBVIOUS
  <2>4. x \in Byte /\ u \in Byte /\ v \in Byte /\ y \in Byte /\ z \in Byte /\ head = <<x, u, v, y, z>>
    BY <1>6, <2>1, <2>2, <2>3
  <2> QED  BY <1>1, <2>4
<1> QED  BY <1>2, <1>3, <1>4, <1>5, <1>6 DEF HeadLayout

\* Wherever it is written, it is read as it was.
HeadIs(major, value, at) == [ok |-> TRUE, major |-> major, value |-> value, at |-> at]

\* readTypeAndValue gives back what a write of a head was given, and stands behind it.
LEMMA HeadReadBack ==
  ASSUME NEW b \in Seq(Byte), NEW at \in Nat, NEW major \in 0..7, NEW n \in Counts, Inside(b, HeadBytes(major, n), at)
  PROVE  /\ ReadHead(b, at) = HeadIs(major, n, at + Len(HeadBytes(major, n)))
         /\ at < Len(b) /\ b[at + 1] # 255
<1>1. PICK head : head = HeadBytes(major, n)
  OBVIOUS
<1>2. n \in Nat /\ HeadLayout(head, major, n) /\ Inside(b, head, at)
  BY <1>1, CountIs, LayoutOf
<1>3. Len(b) \in Nat /\ at + Len(head) <= Len(b)
  BY <1>2 DEF Inside
<1>4. ASSUME NEW info \in 0..26, HeadShort(info) = Len(head) - 1, Len(head) \in Nat \ {0},
             head[1] = 32 * major + info, Argument(b, at + 1, info) = n
      PROVE  /\ ReadHead(b, at) = HeadIs(major, n, at + Len(head))
             /\ at < Len(b) /\ b[at + 1] # 255
  <2>1. b[at + 1] = head[1]
    <3>1. 1 \in 1..Len(head)
      BY <1>4
    <3> QED  BY <1>2, <3>1, SameByte
  <2>2. PICK x : x = b[at + 1]
    OBVIOUS
  <2>3. x \div 32 = major /\ x % 32 = info /\ x # 255
    <3>1. x = 32 * major + info
      BY <1>4, <2>1, <2>2
    <3> QED  BY <3>1, FirstByte
  <2>4. at < Len(b) /\ ~(at >= Len(b)) /\ info \notin 28..30 /\ at + 1 + HeadShort(info) = at + Len(head)
        /\ ~(at + Len(head) > Len(b))
    BY <1>3, <1>4
  <2>5. ReadHead(b, at) = HeadIs(major, n, at + Len(head))
    BY <1>4, <2>2, <2>3, <2>4 DEF ReadHead, HeadIs
  <2> QED  BY <2>2, <2>3, <2>4, <2>5
<1>5. CASE n < 24 /\ head = <<32 * major + n>>
  <2>1. n \in 0..26 /\ HeadShort(n) = Len(head) - 1 /\ Len(head) \in Nat \ {0} /\ head[1] = 32 * major + n
    BY <1>2, <1>5 DEF HeadShort
  <2>2. Argument(b, at + 1, n) = n
    BY <1>5 DEF Argument
  <2> QED  BY <1>1, <1>4, <2>1, <2>2
<1>6. CASE n \in 24..255 /\ head = <<32 * major + 24, n>>
  <2>1. HeadShort(24) = Len(head) - 1 /\ Len(head) \in Nat \ {0} /\ head[1] = 32 * major + 24 /\ head[2] = n /\ 2 \in 1..Len(head)
    BY <1>6 DEF HeadShort
  <2>2. b[(at + 1) + 1] = n
    <3>1. (at + 1) + 1 = at + 2
      OBVIOUS
    <3> QED  BY <1>2, <2>1, <3>1, SameByte
  <2>3. Argument(b, at + 1, 24) = n
    BY <2>2 DEF Argument
  <2> QED  BY <1>1, <1>4, <2>1, <2>3
<1>7. CASE Short(n) /\ head = <<32 * major + 25, Byte1(n), Byte0(n)>>
  <2>1. /\ HeadShort(25) = Len(head) - 1 /\ Len(head) \in Nat \ {0} /\ head[1] = 32 * major + 25
        /\ head[2] = Byte1(n) /\ head[3] = Byte0(n) /\ 2 \in 1..Len(head) /\ 3 \in 1..Len(head)
    BY <1>7 DEF HeadShort
  <2>2. b[(at + 1) + 1] = head[2] /\ b[(at + 1) + 2] = head[3]
    <3>1. (at + 1) + 1 = at + 2 /\ (at + 1) + 2 = at + 3
      OBVIOUS
    <3> QED  BY <1>2, <2>1, <3>1, SameByte, SMTT(60)
  <2>3. Argument(b, at + 1, 25) = Grown(Grown(0, Byte1(n)), Byte0(n))
    BY <2>1, <2>2 DEF Argument, TwoBytes
  <2>5. Argument(b, at + 1, 25) = n
    BY <1>2, <1>7, <2>3, ShortBack
  <2> QED  BY <1>1, <1>4, <2>1, <2>5
<1>8. CASE head = <<32 * major + 26, Byte3(n), Byte2(n), Byte1(n), Byte0(n)>>
  <2>1. /\ HeadShort(26) = Len(head) - 1 /\ Len(head) \in Nat \ {0} /\ head[1] = 32 * major + 26
        /\ head[2] = Byte3(n) /\ head[3] = Byte2(n) /\ head[4] = Byte1(n) /\ head[5] = Byte0(n)
        /\ 2 \in 1..Len(head) /\ 3 \in 1..Len(head) /\ 4 \in 1..Len(head) /\ 5 \in 1..Len(head)
    <3>1. PICK x, u, v, y, z : /\ x = 32 * major + 26 /\ u = Byte3(n) /\ v = Byte2(n)
                               /\ y = Byte1(n) /\ z = Byte0(n)
      OBVIOUS
    <3>2. head = <<x, u, v, y, z>>
      BY <1>8, <3>1
    <3>3. HeadShort(26) = 4
      BY DEF HeadShort
    <3>4. Len(head) = 5 /\ head[1] = x /\ head[2] = u /\ head[3] = v /\ head[4] = y /\ head[5] = z
      BY <3>2
    <3> QED  BY <3>1, <3>3, <3>4
  <2>2. b[(at + 1) + 1] = head[2] /\ b[(at + 1) + 2] = head[3]
        /\ b[((at + 1) + 2) + 1] = head[4] /\ b[((at + 1) + 2) + 2] = head[5]
    <3>1. (at + 1) + 1 = at + 2 /\ (at + 1) + 2 = at + 3 /\ ((at + 1) + 2) + 1 = at + 4 /\ ((at + 1) + 2) + 2 = at + 5
      OBVIOUS
    <3>2. \A i \in 1..Len(head) : head[i] = b[at + i]
      BY <1>2 DEF Inside
    <3>3. head[2] = b[at + 2] /\ head[3] = b[at + 3] /\ head[4] = b[at + 4] /\ head[5] = b[at + 5]
      BY <2>1, <3>2
    <3> QED  BY <3>1, <3>3
  <2>3. Argument(b, at + 1, 26)
          = Grown(Grown(Grown(Grown(0, Byte3(n)), Byte2(n)), Byte1(n)), Byte0(n))
    <3>1. TwoBytes(b, 0, at + 1) = Grown(Grown(0, head[2]), head[3])
      BY <2>2 DEF TwoBytes
    <3>2. TwoBytes(b, TwoBytes(b, 0, at + 1), (at + 1) + 2) = Grown(Grown(TwoBytes(b, 0, at + 1), head[4]), head[5])
      BY <2>2 DEF TwoBytes
    <3>3. Argument(b, at + 1, 26) = TwoBytes(b, TwoBytes(b, 0, at + 1), (at + 1) + 2)
      BY DEF Argument, FourBytes
    <3> QED  BY <2>1, <3>1, <3>2, <3>3
  <2>4. Argument(b, at + 1, 26) = n
    BY <2>3, LongBack
  <2> QED  BY <1>1, <1>4, <2>1, <2>4
<1> QED  BY <1>2, <1>5, <1>6, <1>7, <1>8 DEF HeadLayout

-----------------------------------------------------------------------------
(* A request as its host wrote it.                                         *)

\* Two sequences of bytes, one behind the other.
LEMMA Joined2 ==
  ASSUME NEW s \in Seq(Byte), NEW t \in Seq(Byte)
  PROVE  /\ s \o t \in Seq(Byte) /\ Len(s \o t) = Len(s) + Len(t)
         /\ \A i \in 1..Len(s) : (s \o t)[i] = s[i]
         /\ \A i \in 1..Len(t) : (s \o t)[Len(s) + i] = t[i]
  OBVIOUS

\* The last part, and what comes before it.
LEMMA Parts ==
  ASSUME NEW b \in Seq(Byte), NEW s \in Seq(Byte), NEW t \in Seq(Byte), Inside(b, s \o t, 0)
  PROVE  Inside(b, s, 0) /\ Inside(b, t, Len(s)) /\ Len(s \o t) = Len(s) + Len(t)
<1>1. PICK c : c = s \o t
  OBVIOUS
<1>2. Len(s) \in Nat /\ Len(t) \in Nat /\ Len(b) \in Nat /\ Len(c) = Len(s) + Len(t)
  BY <1>1, Joined2
<1>3. 0 + Len(c) <= Len(b) /\ \A i \in 1..Len(c) : c[i] = b[0 + i]
  BY <1>1 DEF Inside
<1>4. \A i \in 1..Len(s) : s[i] = b[0 + i]
  <2>1. \A i \in 1..Len(s) : i \in 1..Len(c)
    BY <1>2
  <2>2. \A i \in 1..Len(s) : c[i] = s[i]
    BY <1>1, Joined2
  <2> QED  BY <1>3, <2>1, <2>2
<1>5. \A i \in 1..Len(t) : t[i] = b[Len(s) + i]
  <2>1. \A i \in 1..Len(t) : Len(s) + i \in 1..Len(c) /\ 0 + (Len(s) + i) = Len(s) + i
    BY <1>2
  <2>2. \A i \in 1..Len(t) : c[Len(s) + i] = t[i]
    BY <1>1, Joined2
  <2> QED  BY <1>3, <2>1, <2>2
<1> QED  BY <1>1, <1>2, <1>3, <1>4, <1>5 DEF Inside

\* All the bytes lie in themselves.
LEMMA ItselfInside ==
  ASSUME NEW b \in Seq(Byte)
  PROVE  Inside(b, b, 0)
<1>1. Len(b) \in Nat /\ \A i \in 1..Len(b) : 0 + i = i
  OBVIOUS
<1> QED  BY <1>1 DEF Inside

\* A reading that nothing is wrong with, and one entry of each kind.
Yes == TRUE
State(at, left, inner, sub, min) ==
  [ok |-> Yes, at |-> at, left |-> left, inner |-> inner, sub |-> sub, minPin |-> min]

\* While entries are left, a step is an entry.
LEMMA StepIs ==
  ASSUME NEW b, NEW at, NEW left \in Nat, NEW inner \in Nat, left > 0 \/ inner > 0, NEW s, NEW m,
         NEW key, key = ReadHead(b, at), NEW val, val = ReadHead(b, key.at), NEW p, p = State(at, left, inner, s, m)
  PROVE  ConfigStep(b, p) = ConfigEntry(b, p, key, val)
<1>1. p.at = at /\ p.ok /\ p.left = left /\ p.inner = inner
  BY DEF State, Yes
<1>2. p.ok /\ (p.left > 0 \/ p.inner > 0)
  BY <1>1
<1> QED  BY <1>1, <1>2 DEF ConfigStep

\* The last alternative of ConfigEntry.
LEMMA OtherEntry ==
  ASSUME NEW b, NEW p, NEW key, NEW val, ~Known(key, 2), p.inner = 0 => ~Known(key, 1),
         NEW rest, rest = IF p.inner = 0 THEN [p EXCEPT !.left = @ - 1] ELSE [p EXCEPT !.inner = @ - 1],
         NEW e, e = SkipValue(b, key.at, 0).at
  PROVE  ConfigEntry(b, p, key, val) = [rest EXCEPT !.at = e]
  BY DEF ConfigEntry

\* An unsigned key is known by its value.
LEMMA Keys ==
  ASSUME NEW key, NEW v, NEW k, key = HeadIs(0, v, k)
  PROVE  key.at = k /\ \A w : Known(key, w) <=> v = w
  BY DEF HeadIs, Known

\* Key 1 of the request: the sub-command is read.
LEMMA SubEntry ==
  ASSUME NEW b, NEW at, NEW left \in Nat \ {0}, NEW s, NEW m, NEW k, NEW v, NEW e, NEW major,
         ReadHead(b, at) = HeadIs(0, 1, k), ReadHead(b, k) = HeadIs(major, v, e)
  PROVE  ConfigStep(b, State(at, left, 0, s, m)) = State(e, left - 1, 0, v, m)
<1>1. PICK p, key, val, rest : p = State(at, left, 0, s, m) /\ key = ReadHead(b, at) /\ val = ReadHead(b, k)
                               /\ rest = State(at, left - 1, 0, s, m)
  OBVIOUS
<1>2. key.at = k /\ Known(key, 1) /\ ~Known(key, 2)
  BY <1>1, Keys
<1>3. ConfigStep(b, p) = ConfigEntry(b, p, key, val)
  BY <1>1, <1>2, StepIs
<1>4. p.inner = 0 /\ rest = [p EXCEPT !.left = @ - 1]
  BY <1>1 DEF State
<1>5. val.ok /\ val.at = e /\ val.value = v
  BY <1>1 DEF HeadIs
<1>6. ConfigEntry(b, p, key, val)
        = [rest EXCEPT !.at = val.at, !.inner = @, !.sub = val.value, !.minPin = @]
  BY <1>2, <1>4, <1>5 DEF ConfigEntry
<1> QED  BY <1>1, <1>3, <1>5, <1>6 DEF State

\* Key 2 of the request: its map is opened.
LEMMA OpenEntry ==
  ASSUME NEW b, NEW at, NEW left \in Nat \ {0}, NEW s, NEW m, NEW k, NEW v, NEW e,
         ReadHead(b, at) = HeadIs(0, 2, k), ReadHead(b, k) = HeadIs(5, v, e)
  PROVE  ConfigStep(b, State(at, left, 0, s, m)) = State(e, left - 1, v, s, m)
<1>1. PICK p, key, val, rest : p = State(at, left, 0, s, m) /\ key = ReadHead(b, at) /\ val = ReadHead(b, k)
                               /\ rest = State(at, left - 1, 0, s, m)
  OBVIOUS
<1>2. key.at = k /\ ~Known(key, 1) /\ Known(key, 2)
  BY <1>1, Keys
<1>3. ConfigStep(b, p) = ConfigEntry(b, p, key, val)
  BY <1>1, <1>2, StepIs
<1>4. p.inner = 0 /\ rest = [p EXCEPT !.left = @ - 1]
  BY <1>1 DEF State
<1>5. val.ok /\ val.at = e /\ val.value = v /\ val.major = 5
  BY <1>1 DEF HeadIs
<1>6. ConfigEntry(b, p, key, val)
        = [rest EXCEPT !.at = val.at, !.inner = val.value, !.sub = @, !.minPin = @]
  BY <1>2, <1>4, <1>5 DEF ConfigEntry
<1> QED  BY <1>1, <1>3, <1>5, <1>6 DEF State

\* Key 2 of that map: minPINLength is read.
LEMMA PinEntry ==
  ASSUME NEW b, NEW at, NEW left \in Nat, NEW inner \in Nat \ {0}, NEW s, NEW m, NEW k, NEW v, NEW e, NEW major,
         ReadHead(b, at) = HeadIs(0, 2, k), ReadHead(b, k) = HeadIs(major, v, e)
  PROVE  ConfigStep(b, State(at, left, inner, s, m)) = State(e, left, inner - 1, s, v)
<1>1. PICK p, key, val, rest : p = State(at, left, inner, s, m) /\ key = ReadHead(b, at) /\ val = ReadHead(b, k)
                               /\ rest = State(at, left, inner - 1, s, m)
  OBVIOUS
<1>2. key.at = k /\ ~Known(key, 1) /\ Known(key, 2)
  BY <1>1, Keys
<1>3. ConfigStep(b, p) = ConfigEntry(b, p, key, val)
  BY <1>1, <1>2, StepIs
<1>4. p.inner # 0 /\ rest = [p EXCEPT !.inner = @ - 1]
  BY <1>1 DEF State
<1>5. val.ok /\ val.at = e /\ val.value = v
  BY <1>1 DEF HeadIs
<1>6. ConfigEntry(b, p, key, val)
        = [rest EXCEPT !.at = val.at, !.inner = @, !.sub = @, !.minPin = val.value]
  BY <1>2, <1>4, <1>5 DEF ConfigEntry
<1> QED  BY <1>1, <1>3, <1>5, <1>6 DEF State

\* Any other key, in the request and in the inner map.
LEMMA TopEntry ==
  ASSUME NEW b, NEW at, NEW left \in Nat \ {0}, NEW s, NEW m, NEW k, NEW v, v # 1, v # 2,
         ReadHead(b, at) = HeadIs(0, v, k), NEW e, SkipValue(b, k, 0) = Done(e)
  PROVE  ConfigStep(b, State(at, left, 0, s, m)) = State(e, left - 1, 0, s, m)
<1>1. PICK p, key, val, rest : p = State(at, left, 0, s, m) /\ key = ReadHead(b, at) /\ val = ReadHead(b, k)
                               /\ rest = State(at, left - 1, 0, s, m)
  OBVIOUS
<1>2. key.at = k /\ ~Known(key, 1) /\ ~Known(key, 2)
  BY <1>1, Keys
<1>3. ConfigStep(b, p) = ConfigEntry(b, p, key, val)
  BY <1>1, <1>2, StepIs
<1>4. p.inner = 0 /\ rest = [p EXCEPT !.left = @ - 1]
  BY <1>1 DEF State
<1>5. e = SkipValue(b, key.at, 0).at
  BY <1>2 DEF Done
<1>6. rest = IF p.inner = 0 THEN [p EXCEPT !.left = @ - 1] ELSE [p EXCEPT !.inner = @ - 1]
  BY <1>4
<1>7. p.inner = 0 => ~Known(key, 1)
  BY <1>2, <1>4
<1>8. ConfigEntry(b, p, key, val) = [rest EXCEPT !.at = e]
  BY <1>2, <1>5, <1>6, <1>7, OtherEntry
<1> QED  BY <1>1, <1>3, <1>8 DEF State

\* Another key of that map: its value is skipped.
LEMMA InnerEntry ==
  ASSUME NEW b, NEW at, NEW left \in Nat, NEW inner \in Nat \ {0}, NEW s, NEW m, NEW k, NEW v, v # 2,
         ReadHead(b, at) = HeadIs(0, v, k), NEW e, SkipValue(b, k, 0) = Done(e)
  PROVE  ConfigStep(b, State(at, left, inner, s, m)) = State(e, left, inner - 1, s, m)
<1>1. PICK p, key, val, rest : p = State(at, left, inner, s, m) /\ key = ReadHead(b, at) /\ val = ReadHead(b, k)
                               /\ rest = State(at, left, inner - 1, s, m)
  OBVIOUS
<1>2. key.at = k /\ ~Known(key, 2)
  BY <1>1, Keys
<1>3. ConfigStep(b, p) = ConfigEntry(b, p, key, val)
  BY <1>1, <1>2, StepIs
<1>4. p.inner # 0 /\ rest = [p EXCEPT !.inner = @ - 1]
  BY <1>1 DEF State
<1>5. e = SkipValue(b, key.at, 0).at
  BY <1>2 DEF Done
<1>6. rest = IF p.inner = 0 THEN [p EXCEPT !.left = @ - 1] ELSE [p EXCEPT !.inner = @ - 1]
  BY <1>4
<1>7. p.inner = 0 => ~Known(key, 1)
  BY <1>2, <1>4
<1>8. ConfigEntry(b, p, key, val) = [rest EXCEPT !.at = e]
  BY <1>2, <1>5, <1>6, <1>7, OtherEntry
<1> QED  BY <1>1, <1>3, <1>8 DEF State

\* When no entry is left, nothing is read.
LEMMA NoEntry ==
  ASSUME NEW b, NEW at, NEW s, NEW m
  PROVE  ConfigStep(b, State(at, 0, 0, s, m)) = State(at, 0, 0, s, m)
<1>1. PICK p : p = State(at, 0, 0, s, m)
  OBVIOUS
<1>2. ~(p.left > 0 \/ p.inner > 0)
  BY <1>1 DEF State
<1> QED  BY <1>1, <1>2 DEF ConfigStep

\* c is s and a head behind it.
Appends(c, s, major, n) == c = s \o HeadBytes(major, n)

\* A head at the end of what is written so far.
LEMMA HeadPart ==
  ASSUME NEW b \in Seq(Byte), NEW s \in Seq(Byte), NEW major \in 0..7, NEW n \in Counts,
         NEW c, Appends(c, s, major, n), Inside(b, c, 0)
  PROVE  Inside(b, s, 0) /\ ReadHead(b, Len(s)) = HeadIs(major, n, Len(c))
<1>1. PICK t : t = HeadBytes(major, n)
  OBVIOUS
<1>3. t \in Seq(Byte) /\ Len(s) \in Nat /\ c = s \o t
  <2>1. t \in Seq(Byte)
    BY <1>1, HeadBytesType
  <2>2. c = s \o t
    BY <1>1, Zenon DEF Appends
  <2> QED  BY <2>1, <2>2
<1>2. Inside(b, s, 0) /\ Inside(b, t, Len(s)) /\ Len(c) = Len(s) + Len(t)
  BY <1>3, Parts
<1>4. ReadHead(b, Len(s)) = HeadIs(major, n, Len(s) + Len(t))
  BY <1>1, <1>2, <1>3, HeadReadBack
<1> QED  BY <1>2, <1>4

\* Bytes that end in an item: the item is skipped.
LEMMA ItemPart ==
  ASSUME NEW b \in Seq(Byte), NEW s \in Seq(Byte), NEW t \in Seq(Byte), RefItem(t, MaxDepth),
         NEW c, c = s \o t, Inside(b, c, 0)
  PROVE  Inside(b, s, 0) /\ SkipValue(b, Len(s), 0) = Done(Len(c))
<1>1. Len(s) \in Nat
  OBVIOUS
<1>2. Inside(b, s, 0) /\ Inside(b, t, Len(s)) /\ Len(c) = Len(s) + Len(t)
  BY Parts
<1>3. SkipValue(b, Len(s), 0) = Done(Len(s) + Len(t))
  BY <1>1, <1>2, SkipsItem
<1> QED  BY <1>2, <1>3

\* Numbers below 24 are written in the initial byte.
LEMMA SmallCounts ==
  /\ \A n \in 0..23, major \in 0..7 : n \in Counts /\ HeadBytes(major, n) = <<32 * major + n>>
<1>1. \A n \in 0..23 : n \in Counts
  BY SMT DEF Counts, Huge
<1> QED  BY <1>1, SMT DEF HeadBytes

\* The heads of a request, one behind the other, with the items the device does not know.
RequestRead(b, sub, n) ==
  \E c1, c2, c3, c4, c5, c6, c7, c8, c9, c10, end :
    /\ ReadHead(b, 0) = HeadIs(5, 3, c1) /\ ReadHead(b, c1) = HeadIs(0, 1, c2)
    /\ ReadHead(b, c2) = HeadIs(0, sub, c3) /\ ReadHead(b, c3) = HeadIs(0, 9, c4)
    /\ SkipValue(b, c4, 0) = Done(c5) /\ ReadHead(b, c5) = HeadIs(0, 2, c6)
    /\ ReadHead(b, c6) = HeadIs(5, 2, c7) /\ ReadHead(b, c7) = HeadIs(0, 1, c8)
    /\ SkipValue(b, c8, 0) = Done(c9) /\ ReadHead(b, c9) = HeadIs(0, 2, c10)
    /\ ReadHead(b, c10) = HeadIs(0, n, end)

\* The bytes of a host's request, part by part, and what is read of each.
LEMMA RequestParts ==
  ASSUME NEW sub \in 1..4, NEW n \in Counts, NEW extra \in Seq(Byte), RefItem(extra, MaxDepth),
         NEW b, b = HostRequest(sub, n, extra)
  PROVE  /\ b \in Seq(Byte)
         /\ RequestRead(b, sub, n)
<1>1. 1 \in Counts /\ 2 \in Counts /\ 3 \in Counts /\ 9 \in Counts /\ sub \in Counts /\ 0 \in 0..7 /\ 5 \in 0..7
  <2>1. 1 \in 0..23 /\ 2 \in 0..23 /\ 3 \in 0..23 /\ 9 \in 0..23 /\ sub \in 0..23 /\ 0 \in 0..7 /\ 5 \in 0..7
    OBVIOUS
  <2> QED  BY <2>1, SmallCounts
<1>100. <<1>> = HeadBytes(0, 1) /\ <<2>> = HeadBytes(0, 2) /\ <<9>> = HeadBytes(0, 9)
  <2>1. 1 \in 0..23 /\ 2 \in 0..23 /\ 3 \in 0..23 /\ 9 \in 0..23 /\ 0 \in 0..7
    OBVIOUS
  <2>3. HeadBytes(0, 1) = <<32 * 0 + 1>> /\ HeadBytes(0, 2) = <<32 * 0 + 2>> /\ HeadBytes(0, 9) = <<32 * 0 + 9>>
    BY <2>1, SmallCounts
  <2>4. 32 * 0 + 1 = 1 /\ 32 * 0 + 2 = 2 /\ 32 * 0 + 9 = 9
    OBVIOUS
  <2> QED  BY <2>3, <2>4
<1>2. /\ HeadBytes(5, 3) \in Seq(Byte) /\ HeadBytes(0, 1) \in Seq(Byte) /\ HeadBytes(0, sub) \in Seq(Byte)
      /\ HeadBytes(0, 9) \in Seq(Byte) /\ HeadBytes(0, 2) \in Seq(Byte) /\ HeadBytes(5, 2) \in Seq(Byte)
      /\ HeadBytes(0, n) \in Seq(Byte)
  BY <1>1, HeadBytesType
<1>3. PICK s0 : s0 = <<>>
  OBVIOUS
<1>4. PICK s1 : Appends(s1, s0, 5, 3)
  BY DEF Appends
<1>5. PICK s2 : Appends(s2, s1, 0, 1)
  BY DEF Appends
<1>6. PICK s3 : Appends(s3, s2, 0, sub)
  BY DEF Appends
<1>7. PICK s4 : Appends(s4, s3, 0, 9)
  BY DEF Appends
<1>8. PICK s5 : s5 = s4 \o extra
  OBVIOUS
<1>9. PICK s6 : Appends(s6, s5, 0, 2)
  BY DEF Appends
<1>10. PICK s7 : Appends(s7, s6, 5, 2)
  BY DEF Appends
<1>11. PICK s8 : Appends(s8, s7, 0, 1)
  BY DEF Appends
<1>12. PICK s9 : s9 = s8 \o extra
  OBVIOUS
<1>13. PICK s10 : Appends(s10, s9, 0, 2)
  BY DEF Appends
<1>14. PICK s11 : Appends(s11, s10, 0, n)
  BY DEF Appends
<1>15. s0 \in Seq(Byte) /\ s1 \in Seq(Byte) /\ s2 \in Seq(Byte) /\ s3 \in Seq(Byte)
  BY <1>2, <1>3, <1>4, <1>5, <1>6, Joined2 DEF Appends
<1>16. s4 \in Seq(Byte) /\ s5 \in Seq(Byte) /\ s6 \in Seq(Byte) /\ s7 \in Seq(Byte)
  BY <1>2, <1>15, <1>7, <1>8, <1>9, <1>10, Joined2 DEF Appends
<1>17. s8 \in Seq(Byte) /\ s9 \in Seq(Byte) /\ s10 \in Seq(Byte) /\ s11 \in Seq(Byte)
  BY <1>2, <1>16, <1>11, <1>12, <1>13, <1>14, Joined2 DEF Appends
<1>18. s1 = HeadBytes(5, 3) /\ Len(s0) = 0
  BY <1>2, <1>3, <1>4 DEF Appends
<1>19. b = s11
  <2>1. b = HeadBytes(5, 3) \o HeadBytes(0, 1) \o HeadBytes(0, sub) \o HeadBytes(0, 9) \o extra
            \o HeadBytes(0, 2) \o HeadBytes(5, 2) \o HeadBytes(0, 1) \o extra \o HeadBytes(0, 2) \o HeadBytes(0, n)
    BY <1>100, Zenon DEF HostRequest
  <2> QED  BY <1>5, <1>6, <1>7, <1>8, <1>9, <1>10, <1>11, <1>12, <1>13, <1>14, <1>18, <2>1, Zenon DEF Appends
<1>20. b \in Seq(Byte) /\ Inside(b, s11, 0)
  BY <1>17, <1>19, ItselfInside
<1>21. Inside(b, s10, 0) /\ ReadHead(b, Len(s10)) = HeadIs(0, n, Len(s11))
  BY <1>1, <1>14, <1>17, <1>20, HeadPart
<1>22. Inside(b, s9, 0) /\ ReadHead(b, Len(s9)) = HeadIs(0, 2, Len(s10))
  BY <1>1, <1>13, <1>17, <1>20, <1>21, HeadPart
<1>23. Inside(b, s8, 0) /\ SkipValue(b, Len(s8), 0) = Done(Len(s9))
  BY <1>12, <1>17, <1>20, <1>22, ItemPart
<1>24. Inside(b, s7, 0) /\ ReadHead(b, Len(s7)) = HeadIs(0, 1, Len(s8))
  BY <1>1, <1>11, <1>16, <1>20, <1>23, HeadPart
<1>25. Inside(b, s6, 0) /\ ReadHead(b, Len(s6)) = HeadIs(5, 2, Len(s7))
  BY <1>1, <1>10, <1>16, <1>20, <1>24, HeadPart
<1>26. Inside(b, s5, 0) /\ ReadHead(b, Len(s5)) = HeadIs(0, 2, Len(s6))
  BY <1>1, <1>9, <1>16, <1>20, <1>25, HeadPart
<1>27. Inside(b, s4, 0) /\ SkipValue(b, Len(s4), 0) = Done(Len(s5))
  BY <1>8, <1>16, <1>20, <1>26, ItemPart
<1>28. Inside(b, s3, 0) /\ ReadHead(b, Len(s3)) = HeadIs(0, 9, Len(s4))
  BY <1>1, <1>7, <1>15, <1>20, <1>27, HeadPart
<1>29. Inside(b, s2, 0) /\ ReadHead(b, Len(s2)) = HeadIs(0, sub, Len(s3))
  BY <1>1, <1>6, <1>15, <1>20, <1>28, HeadPart
<1>30. Inside(b, s1, 0) /\ ReadHead(b, Len(s1)) = HeadIs(0, 1, Len(s2))
  BY <1>1, <1>5, <1>15, <1>20, <1>29, HeadPart
<1>31. ReadHead(b, Len(s0)) = HeadIs(5, 3, Len(s1))
  BY <1>1, <1>4, <1>15, <1>20, <1>30, HeadPart
<1>32. ReadHead(b, 0) = HeadIs(5, 3, Len(s1))
  BY <1>18, <1>31
<1>33. RequestRead(b, sub, n)
  <2> SUFFICES \E c1, c2, c3, c4, c5, c6, c7, c8, c9, c10, end :
              /\ ReadHead(b, 0) = HeadIs(5, 3, c1) /\ ReadHead(b, c1) = HeadIs(0, 1, c2)
              /\ ReadHead(b, c2) = HeadIs(0, sub, c3) /\ ReadHead(b, c3) = HeadIs(0, 9, c4)
              /\ SkipValue(b, c4, 0) = Done(c5) /\ ReadHead(b, c5) = HeadIs(0, 2, c6)
              /\ ReadHead(b, c6) = HeadIs(5, 2, c7) /\ ReadHead(b, c7) = HeadIs(0, 1, c8)
              /\ SkipValue(b, c8, 0) = Done(c9) /\ ReadHead(b, c9) = HeadIs(0, 2, c10)
              /\ ReadHead(b, c10) = HeadIs(0, n, end)
    BY Zenon DEF RequestRead
  <2> WITNESS Len(s1), Len(s2), Len(s3), Len(s4), Len(s5), Len(s6), Len(s7), Len(s8), Len(s9), Len(s10), Len(s11)
  <2> QED  BY <1>21, <1>22, <1>23, <1>24, <1>25, <1>26, <1>27, <1>28, <1>29, <1>30, <1>32, Zenon
<1> QED  BY <1>20, <1>33

\* What the device reads is what the host wrote.
LEMMA RequestUnderstood ==
  ASSUME NEW sub \in 1..4, NEW n \in Counts, NEW extra \in Seq(Byte), RefItem(extra, MaxDepth),
         NEW b, b = HostRequest(sub, n, extra)
  PROVE  \E at : DeviceReads(b) = State(at, 0, 0, sub, n)
<1>1. PICK c1, c2, c3, c4, c5, c6, c7, c8, c9, c10, end :
        /\ ReadHead(b, 0) = HeadIs(5, 3, c1) /\ ReadHead(b, c1) = HeadIs(0, 1, c2)
        /\ ReadHead(b, c2) = HeadIs(0, sub, c3) /\ ReadHead(b, c3) = HeadIs(0, 9, c4)
        /\ SkipValue(b, c4, 0) = Done(c5) /\ ReadHead(b, c5) = HeadIs(0, 2, c6)
        /\ ReadHead(b, c6) = HeadIs(5, 2, c7) /\ ReadHead(b, c7) = HeadIs(0, 1, c8)
        /\ SkipValue(b, c8, 0) = Done(c9) /\ ReadHead(b, c9) = HeadIs(0, 2, c10)
        /\ ReadHead(b, c10) = HeadIs(0, n, end)
  <2>1. RequestRead(b, sub, n)
    BY RequestParts
  <2> QED  BY <2>1, Zenon DEF RequestRead
<1>2. b \in Seq(Byte) /\ Len(b) \in Nat
  BY RequestParts
<1>3. Len(b) >= 2
  <2>1. PICK len, first, second : len = Len(b) /\ first = ReadHead(b, 0) /\ second = ReadHead(b, c1)
    OBVIOUS
  <2>2. first.ok /\ second.ok /\ first.at = c1
    BY <1>1, <2>1 DEF HeadIs
  <2>3. len \in Nat /\ 0 \in 0..len
    BY <1>2, <2>1
  <2>4. c1 \in 0..len /\ 0 < len /\ 0 < c1
    <3>1. first.at \in 0..len /\ (0 < len => 0 < first.at) /\ (first.ok => 0 < len)
      BY <1>2, <2>1, <2>3, HeadRead
    <3> QED  BY <2>2, <3>1
  <2>5. c1 < len
    <3>1. second.ok => c1 < len
      BY <1>2, <2>1, <2>4, HeadRead
    <3> QED  BY <2>2, <3>1
  <2>6. len >= 2
    BY <2>3, <2>4, <2>5
  <2> QED  BY <2>1, <2>6
<1>4. ConfigStart(b) = State(c1, 3, 0, 0, 0)
  <2>1. PICK root : root = ReadHead(b, 0)
    OBVIOUS
  <2>2. root.ok /\ root.major = 5 /\ root.at = c1 /\ root.value = 3
    BY <1>1, <2>1 DEF HeadIs
  <2>3. PICK yes : yes = (root.ok /\ root.major = 5)
    OBVIOUS
  <2>4. yes = Yes
    BY <2>2, <2>3 DEF Yes
  <2>5. ConfigStart(b) = [ok |-> yes, at |-> root.at, left |-> root.value, inner |-> 0, sub |-> 0, minPin |-> 0]
    BY <2>1, <2>3 DEF ConfigStart
  <2> QED  BY <2>2, <2>4, <2>5 DEF State
<1>5. ConfigStep(b, State(c1, 3, 0, 0, 0)) = State(c3, 2, 0, sub, 0)
  BY <1>1, SubEntry
<1>6. ConfigStep(b, State(c3, 2, 0, sub, 0)) = State(c5, 1, 0, sub, 0)
  BY <1>1, TopEntry
<1>7. ConfigStep(b, State(c5, 1, 0, sub, 0)) = State(c7, 0, 2, sub, 0)
  BY <1>1, OpenEntry
<1>8. ConfigStep(b, State(c7, 0, 2, sub, 0)) = State(c9, 0, 1, sub, 0)
  BY <1>1, InnerEntry
<1>9. ConfigStep(b, State(c9, 0, 1, sub, 0)) = State(end, 0, 0, sub, n)
  BY <1>1, PinEntry
<1>10. PICK last : last = 2 * Len(b) + 1
  OBVIOUS
<1>11. last \in Nat /\ last >= 5
  BY <1>2, <1>3, <1>10
<1>12. PICK run : /\ ParseConfig(b, last) = run[last] /\ run[0] = ConfigStart(b)
                  /\ \A i \in 1..last : run[i] = ConfigStep(b, run[i - 1])
  <2>1. last \in Nat
    BY <1>11
  <2>2. PICK run : ParseConfig(b, last) = run[last] /\ Running(run, b, last)
    BY <2>1, RunStep
  <2> QED  BY <2>2 DEF Running
<1>13. run[5] = State(end, 0, 0, sub, n)
  <2>1. /\ run[1] = ConfigStep(b, run[0]) /\ run[2] = ConfigStep(b, run[1]) /\ run[3] = ConfigStep(b, run[2])
        /\ run[4] = ConfigStep(b, run[3]) /\ run[5] = ConfigStep(b, run[4])
    BY <1>11, <1>12
  <2> QED  BY <1>4, <1>5, <1>6, <1>7, <1>8, <1>9, <1>12, <2>1
<1> DEFINE Bad == {i \in 5..last : run[i] # State(end, 0, 0, sub, n)}
<1>14. Bad = {}
  <2> SUFFICES ASSUME NEW k \in Bad, \A m \in Bad : k <= m
               PROVE  FALSE
    <3>1. Bad \subseteq Nat
      OBVIOUS
    <3> HIDE DEF Bad
    <3> QED  BY <3>1, FirstFailure
  <2>1. k # 5
    BY <1>13
  <2>2. k \in 1..last /\ k - 1 \in 5..last /\ ~(k <= k - 1)
    BY <1>11, <2>1
  <2>3. k - 1 \notin Bad
    <3> HIDE DEF Bad
    <3> QED  BY <2>2
  <2>4. run[k] = ConfigStep(b, State(end, 0, 0, sub, n))
    BY <1>12, <2>2, <2>3
  <2> QED  BY <2>4, NoEntry
<1>15. run[last] = State(end, 0, 0, sub, n)
  BY <1>11, <1>14
<1> QED  BY <1>10, <1>12, <1>15 DEF DeviceReads

-----------------------------------------------------------------------------
(* What the encoder writes.                                                *)

\* What Encode defines: what is written after each of the tokens.
EncodeOf(w, out, t) == w = [i \in 0..Len(t) |-> IF i = 0 THEN out ELSE WriteItem(w[i - 1], t[i], Capacity)]

\* The writes one after the other are defined: Encode is their last.
LEMMA EncodeExists ==
  ASSUME NEW out, NEW t, Len(t) \in Nat
  PROVE  \E w : EncodeOf(w, out, t)
<1> DEFINE Val(f, i) == IF i = 0 THEN out ELSE WriteItem(f[i - 1], t[i], Capacity)
           Upto(m) == \E f : f = [i \in 0..m |-> Val(f, i)]
<1>1. Upto(0)
  <2> DEFINE g == [i \in 0..0 |-> out]
  <2>1. g = [i \in 0..0 |-> Val(g, i)]
    OBVIOUS
  <2> QED  BY <2>1
<1>2. ASSUME NEW m \in Nat, Upto(m)
      PROVE  Upto(m + 1)
  <2>1. PICK f : f = [i \in 0..m |-> Val(f, i)]
    BY <1>2
  <2> DEFINE x == Val(f, m + 1)
             g == [i \in 0..m + 1 |-> IF i = m + 1 THEN x ELSE f[i]]
  <2>2. \A i \in 0..m + 1 : g[i] = Val(g, i)
    <3> HIDE DEF x
    <3>1. \A i \in 0..m + 1 : g[i] = IF i = m + 1 THEN x ELSE f[i]
      OBVIOUS
    <3>2. \A i \in 0..m : f[i] = Val(f, i)
      BY <2>1
    <3> HIDE DEF g
    <3> QED  BY <3>1, <3>2 DEF x
  <2>3. g = [i \in 0..m + 1 |-> g[i]]
    <3> HIDE DEF x
    <3> QED  OBVIOUS
  <2> HIDE DEF g
  <2>4. g = [i \in 0..m + 1 |-> Val(g, i)]
    BY <2>2, <2>3
  <2> QED  BY <2>4
<1> HIDE DEF Upto
<1>3. ASSUME ~Upto(Len(t))
      PROVE  FALSE
  <2>1. PICK k \in {m \in Nat : ~Upto(m)} : \A m \in {m \in Nat : ~Upto(m)} : k <= m
    BY <1>3, FirstFailure
  <2>2. k # 0 /\ k - 1 \in Nat /\ (k - 1) + 1 = k
    BY <1>1, <2>1
  <2>3. ~Upto(k) /\ ~(k <= k - 1)
    BY <2>1, <2>2
  <2>4. Upto(k - 1)
    BY <2>1, <2>2, <2>3
  <2>5. Upto((k - 1) + 1)
    BY <1>2, <2>2, <2>4
  <2> QED  BY <2>2, <2>3, <2>5
<1> QED  BY <1>3 DEF Upto, EncodeOf

\* Token by token.
Writing(w, out, t) == w[0] = out /\ \A i \in 1..Len(t) : w[i] = WriteItem(w[i - 1], t[i], Capacity)

\* Encode is the last of the writes, each of which is WriteItem.
LEMMA EncodeStep ==
  ASSUME NEW out, NEW t, Len(t) \in Nat, Len(out) < Capacity
  PROVE  \E w : Encode(out, t, Capacity) = w[Len(t)] /\ Writing(w, out, t)
<1>1. PICK w : EncodeOf(w, out, t) /\ Encode(out, t, Capacity) = w[Len(t)]
  <2> DEFINE w == CHOOSE w : EncodeOf(w, out, t)
  <2>1. EncodeOf(w, out, t)
    BY EncodeExists, Zenon
  <2>2. Encode(out, t, Capacity) = w[Len(t)]
    BY DEF Encode, EncodeOf
  <2> QED  BY <2>1, <2>2
<1>2. \A i \in 0..Len(t) : w[i] = IF i = 0 THEN out ELSE WriteItem(w[i - 1], t[i], Capacity)
  BY <1>1, Zenon DEF EncodeOf
<1>3. w[0] = out /\ \A i \in 1..Len(t) : w[i] = WriteItem(w[i - 1], t[i], Capacity)
  BY <1>2
<1> QED  BY <1>1, <1>3 DEF Writing

\* What is written is determined by the tokens.
LEMMA WritingSame ==
  ASSUME NEW out, NEW t, NEW v, NEW w, Writing(v, out, t), Writing(w, out, t), NEW n \in Nat, n <= Len(t), Len(t) \in Nat
  PROVE  v[n] = w[n]
<1> DEFINE Bad == {i \in 0..Len(t) : v[i] # w[i]}
<1>1. Bad = {}
  <2> SUFFICES ASSUME NEW k \in Bad, \A m \in Bad : k <= m
               PROVE  FALSE
    <3>1. Bad \subseteq Nat
      OBVIOUS
    <3> HIDE DEF Bad
    <3> QED  BY <3>1, FirstFailure
  <2>1. k # 0
    BY DEF Writing
  <2>2. k \in 1..Len(t) /\ k - 1 \in 0..Len(t) /\ ~(k <= k - 1)
    BY <2>1
  <2>3. k - 1 \notin Bad
    <3> HIDE DEF Bad
    <3> QED  BY <2>2
  <2>4. v[k - 1] = w[k - 1]
    BY <2>2, <2>3
  <2>5. v[k] = w[k]
    BY <2>2, <2>4 DEF Writing
  <2> QED  BY <2>5
<1>2. n \in 0..Len(t)
  OBVIOUS
<1> QED  BY <1>1, <1>2

\* Two runs of the encoder are one.
LEMMA EncodeJoin ==
  ASSUME NEW S, NEW s \in Seq(S), NEW t \in Seq(S), NEW out, Len(out) < Capacity,
         NEW e, e = Encode(out, s, Capacity), Len(e) < Capacity
  PROVE  Encode(out, s \o t, Capacity) = Encode(e, t, Capacity)
<1>1. PICK m, n, u : m = Len(s) /\ n = Len(t) /\ u = s \o t
  OBVIOUS
<1>2. m \in Nat /\ n \in Nat /\ Len(u) = m + n /\ (\A i \in 1..m : u[i] = s[i]) /\ \A i \in 1..n : u[m + i] = t[i]
  BY <1>1
<1>3. PICK w : Encode(out, u, Capacity) = w[m + n] /\ Writing(w, out, u)
  <2>1. Len(u) \in Nat
    BY <1>2
  <2>2. PICK w : Encode(out, u, Capacity) = w[Len(u)] /\ Writing(w, out, u)
    BY <2>1, EncodeStep
  <2> QED  BY <1>2, <2>2
<1>4. PICK v : e = v[m] /\ Writing(v, out, s)
  BY <1>1, <1>2, EncodeStep
<1>5. PICK x : Encode(e, t, Capacity) = x[n] /\ Writing(x, e, t)
  BY <1>1, <1>2, EncodeStep
<1>6. w[m] = e
  <2>1. Writing(w, out, s)
    <3>1. \A i \in 1..m : i \in 1..Len(u)
      BY <1>2
    <3> QED  BY <1>1, <1>2, <1>3, <3>1 DEF Writing
  <2> QED  BY <1>1, <1>2, <1>4, <2>1, WritingSame, SMTT(60)
<1> DEFINE y == [i \in 0..n |-> w[m + i]]
<1>7. Writing(y, e, t)
  <2>1. y[0] = e
    BY <1>2, <1>6
  <2>2. ASSUME NEW i \in 1..n
        PROVE  y[i] = WriteItem(y[i - 1], t[i], Capacity)
    <3>1. m + i \in 1..Len(u) /\ i - 1 \in 0..n /\ i \in 0..n /\ (m + i) - 1 = m + (i - 1)
      BY <1>2
    <3>2. y[i] = w[m + i] /\ y[i - 1] = w[m + (i - 1)]
      BY <3>1
    <3>3. w[m + i] = WriteItem(w[(m + i) - 1], u[m + i], Capacity)
      BY <1>3, <3>1 DEF Writing
    <3> HIDE DEF y
    <3> QED  BY <1>2, <3>1, <3>2, <3>3
  <2> HIDE DEF y
  <2> QED  BY <1>1, <2>1, <2>2 DEF Writing
<1>8. y[n] = w[m + n]
  BY <1>2
<1> HIDE DEF y
<1>9. y[n] = x[n]
  BY <1>1, <1>2, <1>5, <1>7, WritingSame
<1> QED  BY <1>1, <1>3, <1>5, <1>8, <1>9

\* The tokens of GetInfo, and the bytes of one.
Tokens == {t \in [major : 0..7, n : Counts, fill : Byte] : Encodable(t) /\ (t.major \in {2, 3} => t.n <= 27)}
TokenBytes(t) == HeadBytes(t.major, t.n) \o Fill(t)

\* The contents of a string are as many bytes as it is long.
LEMMA FillIs ==
  ASSUME NEW t \in Tokens
  PROVE  Fill(t) \in Seq(Byte) /\ Len(Fill(t)) = IF t.major \in {2, 3} THEN t.n ELSE 0
<1>1. t.n \in Nat /\ t.fill \in Byte
  BY CountIs DEF Tokens
<1>2. CASE t.major \in {2, 3}
  <2>1. PICK n, x : n = t.n /\ x = t.fill
    OBVIOUS
  <2>2. Fill(t) = [i \in 1..n |-> x]
    BY <1>2, <2>1 DEF Fill
  <2>3. [i \in 1..n |-> x] \in Seq(Byte) /\ Len([i \in 1..n |-> x]) = n
    BY <1>1, <2>1
  <2> QED  BY <1>2, <2>1, <2>2, <2>3
<1>3. CASE t.major \notin {2, 3}
  BY <1>3 DEF Fill
<1> QED  BY <1>2, <1>3

\* A token is written in at most 32 bytes.
LEMMA TokenIs ==
  ASSUME NEW t \in Tokens
  PROVE  /\ t.major \in 0..7 /\ t.n \in Counts
         /\ TokenBytes(t) \in Seq(Byte) /\ Len(TokenBytes(t)) \in Nat /\ Len(TokenBytes(t)) <= 32
         /\ Len(TokenBytes(t)) = Len(HeadBytes(t.major, t.n)) + Len(Fill(t))
<1>1. PICK head, fill : head = HeadBytes(t.major, t.n) /\ fill = Fill(t)
  OBVIOUS
<1>2. t.major \in 0..7 /\ t.n \in Counts /\ t.n \in Nat /\ (t.major \in {2, 3} => t.n <= 27)
  BY CountIs DEF Tokens
<1>3. head \in Seq(Byte) /\ Len(head) \in 1..5
  BY <1>1, <1>2, HeadBytesType
<1>4. fill \in Seq(Byte) /\ Len(fill) \in Nat /\ Len(fill) <= 27
  <2>1. fill \in Seq(Byte) /\ Len(fill) = IF t.major \in {2, 3} THEN t.n ELSE 0
    BY <1>1, FillIs
  <2> QED  BY <1>2, <2>1
<1>5. head \o fill \in Seq(Byte) /\ Len(head \o fill) = Len(head) + Len(fill)
  BY <1>3, <1>4, Joined2
<1>6. Len(head) + Len(fill) \in Nat /\ Len(head) + Len(fill) <= 32
  <2>1. PICK i, j : i = Len(head) /\ j = Len(fill)
    OBVIOUS
  <2>2. i \in 1..5 /\ j \in Nat /\ j <= 27
    BY <1>3, <1>4, <2>1
  <2>3. i + j \in Nat /\ i + j <= 32
    BY <2>2
  <2> QED  BY <2>1, <2>3
<1>7. TokenBytes(t) = head \o fill
  BY <1>1 DEF TokenBytes
<1> QED  BY <1>1, <1>2, <1>5, <1>6, <1>7

\* There is room for a token where 32 bytes are left.
LEMMA TokenWritten ==
  ASSUME NEW t \in Tokens, NEW out \in Seq(Byte), Capacity \in Nat, Len(out) + 32 < Capacity
  PROVE  WriteItem(out, t, Capacity) = out \o TokenBytes(t)
<1>1. PICK head, fill, headLen : head = HeadBytes(t.major, t.n) /\ fill = Fill(t) /\ headLen = Len(head)
  OBVIOUS
<1>2. t.major \in 0..7 /\ t.n \in Counts /\ t.n \in Nat /\ (t.major \in {2, 3} => t.n <= 27) /\ Encodable(t)
  BY CountIs DEF Tokens
<1>3. head \in Seq(Byte) /\ headLen \in 1..5
  BY <1>1, <1>2, HeadBytesType
<1>4. Room(t, Len(out), Capacity)
  <2>1. PICK at, n : at = Len(out) /\ n = t.n
    OBVIOUS
  <2>2. at \in Nat /\ at < Capacity /\ at + headLen <= Capacity
    BY <1>3, <2>1
  <2>3. t.major \in {2, 3} => at + n + 3 < Capacity
    BY <1>2, <2>1, <2>2
  <2> QED  BY <1>1, <2>1, <2>2, <2>3 DEF Room
<1>5. WriteItem(out, t, Capacity) = (out \o head) \o fill
  BY <1>1, <1>2, <1>4 DEF WriteItem
<1>6. fill \in Seq(Byte)
  BY <1>1, FillIs
<1>7. (out \o head) \o fill = out \o (head \o fill)
  BY <1>3, <1>6, ConcatAssociative, SMTT(60)
<1> QED  BY <1>1, <1>5, <1>7 DEF TokenBytes

\* The encoder turns the tokens into the bytes, wherever there is room.
Writes(t, x) ==
  /\ t \in Seq(Tokens) /\ x \in Seq(Byte) /\ Len(x) <= 32 * Len(t)
  /\ \A out \in Seq(Byte) : Len(out) + 32 * Len(t) < Capacity => Encode(out, t, Capacity) = out \o x

\* One token is written as its bytes.
LEMMA WritesOne ==
  ASSUME NEW t \in Tokens, Capacity \in Nat
  PROVE  Writes(<<t>>, TokenBytes(t))
<1>1. <<t>> \in Seq(Tokens) /\ Len(<<t>>) = 1 /\ <<t>>[1] = t
  OBVIOUS
<1>2. TokenBytes(t) \in Seq(Byte) /\ Len(TokenBytes(t)) <= 32 * 1
  BY TokenIs
<1>3. ASSUME NEW out \in Seq(Byte), Len(out) + 32 * 1 < Capacity
      PROVE  Encode(out, <<t>>, Capacity) = out \o TokenBytes(t)
  <2>1. Len(<<t>>) \in Nat /\ Len(out) < Capacity /\ Len(out) + 32 < Capacity
    BY <1>1, <1>3
  <2>2. PICK w : Encode(out, <<t>>, Capacity) = w[1] /\ Writing(w, out, <<t>>)
    BY <1>1, <2>1, EncodeStep
  <2>3. w[1] = WriteItem(out, t, Capacity)
    <3>1. 1 \in 1..Len(<<t>>) /\ 1 - 1 = 0
      BY <1>1
    <3> QED  BY <1>1, <2>2, <3>1 DEF Writing
  <2> QED  BY <2>1, <2>2, <2>3, TokenWritten
<1> QED  BY <1>1, <1>2, <1>3 DEF Writes

\* Tokens behind one another are written behind one another.
LEMMA WritesJoin ==
  ASSUME NEW s, NEW t, NEW x, NEW y, Writes(s, x), Writes(t, y), Capacity \in Nat
  PROVE  Writes(s \o t, x \o y)
<1>1. PICK m, n : m = Len(s) /\ n = Len(t)
  OBVIOUS
<1>2. s \in Seq(Tokens) /\ t \in Seq(Tokens) /\ x \in Seq(Byte) /\ y \in Seq(Byte) /\ Len(x) <= 32 * m /\ Len(y) <= 32 * n
  BY <1>1 DEF Writes
<1>3. s \o t \in Seq(Tokens) /\ Len(s \o t) = m + n /\ m \in Nat /\ n \in Nat
  BY <1>1, <1>2
<1>4. x \o y \in Seq(Byte) /\ Len(x \o y) = Len(x) + Len(y)
  BY <1>2, Joined2
<1>5. Len(x \o y) <= 32 * (m + n)
  BY <1>2, <1>3, <1>4
<1>6. ASSUME NEW out \in Seq(Byte), Len(out) + 32 * (m + n) < Capacity
      PROVE  Encode(out, s \o t, Capacity) = out \o (x \o y)
  <2>1. PICK k, l : k = Len(out) /\ l = Len(x)
    OBVIOUS
  <2>2. k \in Nat /\ l \in Nat /\ k < Capacity /\ k + 32 * m < Capacity /\ k + l < Capacity /\ (k + l) + 32 * n < Capacity
    BY <1>2, <1>3, <1>6, <2>1
  <2>3. PICK e : e = out \o x
    OBVIOUS
  <2>4. e \in Seq(Byte) /\ Len(e) = k + l
    BY <1>2, <2>1, <2>3, Joined2
  <2>5. e = Encode(out, s, Capacity)
    BY <1>1, <2>1, <2>2, <2>3 DEF Writes
  <2>6. Encode(out, s \o t, Capacity) = Encode(e, t, Capacity)
    BY <1>2, <2>1, <2>2, <2>4, <2>5, EncodeJoin
  <2>7. Encode(e, t, Capacity) = e \o y
    BY <1>1, <2>2, <2>4 DEF Writes
  <2> QED  BY <1>2, <2>3, <2>6, <2>7, ConcatAssociative, SMTT(60)
<1> QED  BY <1>3, <1>4, <1>5, <1>6 DEF Writes

-----------------------------------------------------------------------------
(* What the parser makes of it.                                            *)

\* Two parts inside b lie one behind the other.
LEMMA PartsAt ==
  ASSUME NEW b \in Seq(Byte), NEW s \in Seq(Byte), NEW t \in Seq(Byte), NEW o \in Nat, Inside(b, s \o t, o)
  PROVE  Inside(b, s, o) /\ Inside(b, t, o + Len(s)) /\ Len(s \o t) = Len(s) + Len(t)
<1>1. PICK c, m, n : c = s \o t /\ m = Len(s) /\ n = Len(t)
  OBVIOUS
<1>2. m \in Nat /\ n \in Nat /\ Len(b) \in Nat /\ Len(c) = m + n
  BY <1>1, Joined2
<1>3. o + Len(c) <= Len(b) /\ \A i \in 1..Len(c) : c[i] = b[o + i]
  BY <1>1 DEF Inside
<1>4. \A i \in 1..m : s[i] = b[o + i]
  <2>1. \A i \in 1..m : i \in 1..Len(c)
    BY <1>2
  <2>2. \A i \in 1..m : c[i] = s[i]
    BY <1>1, Joined2
  <2> QED  BY <1>3, <2>1, <2>2
<1>5. \A i \in 1..n : t[i] = b[(o + m) + i]
  <2>1. \A i \in 1..n : m + i \in 1..Len(c) /\ o + (m + i) = (o + m) + i
    BY <1>2
  <2>2. \A i \in 1..n : c[m + i] = t[i]
    BY <1>1, Joined2
  <2> QED  BY <1>3, <2>1, <2>2
<1>6. o + m <= Len(b) /\ (o + m) + n <= Len(b)
  BY <1>2, <1>3
<1> QED  BY <1>1, <1>2, <1>4, <1>5, <1>6 DEF Inside

\* The bytes x are n items to the parser, nested to h, wherever they are and whatever is behind them.
Reads(x, n, h) ==
  /\ x \in Seq(Byte)
  /\ \A b \in Seq(Byte), at \in Nat, d \in Nat, l \in Nat :
       Inside(b, x, at) /\ d + h <= MaxDepth => After(b, at, d, l + n, 0) = After(b, at + Len(x), d, l, 0)

\* One item.
ReadsOne(x, h) ==
  /\ x \in Seq(Byte)
  /\ \A b \in Seq(Byte), at \in Nat, d \in Nat :
       Inside(b, x, at) /\ d + h <= MaxDepth => SkipOne(b, Skip(b), at, d) = Done(at + Len(x))

\* One item is a sequence of one item.
LEMMA ReadsFirst ==
  ASSUME NEW x, NEW h \in Nat, ReadsOne(x, h)
  PROVE  Reads(x, 1, h)
<1>1. x \in Seq(Byte) /\ Len(x) \in Nat
  BY DEF ReadsOne
<1>2. ASSUME NEW b \in Seq(Byte), NEW at \in Nat, NEW d \in Nat, NEW l \in Nat, Inside(b, x, at), d + h <= MaxDepth
      PROVE  After(b, at, d, l + 1, 0) = After(b, at + Len(x), d, l, 0)
  <2>1. SkipOne(b, Skip(b), at, d) = Done(at + Len(x))
    BY <1>2 DEF ReadsOne
  <2>2. at \in 0..Len(b)
    <3>1. at + Len(x) <= Len(b) /\ Len(b) \in Nat
      BY <1>2 DEF Inside
    <3> QED  BY <1>1, <3>1
  <2>3. PICK j, to : j = l + 1 /\ to = at + Len(x)
    OBVIOUS
  <2>4. j \in Nat /\ j # 0 /\ 0 \in 0..2 /\ l = (IF j = 0 THEN 0 ELSE j) - 1
    BY <2>3
  <2>5. After(b, at, d, j, 0) = After(b, to, d, l, 0)
    <3>1. GoesOn(b, at, d, to)
      BY <2>1, <2>2, <2>3, SkipMore
    <3> QED  BY <2>4, <3>1 DEF GoesOn
  <2> QED  BY <2>3, <2>5
<1> QED  BY <1>1, <1>2 DEF Reads

\* m items and n items behind them are m + n items.
LEMMA ReadsJoin ==
  ASSUME NEW x, NEW y, NEW m \in Nat, NEW n \in Nat, NEW h \in Nat, Reads(x, m, h), Reads(y, n, h)
  PROVE  Reads(x \o y, m + n, h)
<1>1. x \in Seq(Byte) /\ y \in Seq(Byte)
  BY DEF Reads
<1>2. x \o y \in Seq(Byte) /\ Len(x) \in Nat /\ Len(y) \in Nat /\ Len(x \o y) = Len(x) + Len(y)
  BY <1>1, Joined2
<1>3. ASSUME NEW b \in Seq(Byte), NEW at \in Nat, NEW d \in Nat, NEW l \in Nat, Inside(b, x \o y, at), d + h <= MaxDepth
      PROVE  After(b, at, d, l + (m + n), 0) = After(b, at + Len(x \o y), d, l, 0)
  <2>1. PICK k, mid : k = l + n /\ mid = at + Len(x)
    OBVIOUS
  <2>2. k \in Nat /\ mid \in Nat /\ l + (m + n) = k + m /\ at + Len(x \o y) = mid + Len(y)
    BY <1>2, <2>1
  <2>3. Inside(b, x, at) /\ Inside(b, y, mid)
    BY <1>1, <1>3, <2>1, PartsAt
  <2>4. After(b, at, d, k + m, 0) = After(b, mid, d, k, 0)
    BY <1>3, <2>1, <2>2, <2>3 DEF Reads
  <2>5. After(b, mid, d, l + n, 0) = After(b, mid + Len(y), d, l, 0)
    BY <1>3, <2>2, <2>3 DEF Reads
  <2> QED  BY <2>1, <2>2, <2>4, <2>5
<1> QED  BY <1>2, <1>3 DEF Reads

\* Items nested to h are nested to anything deeper.
LEMMA ReadsMore ==
  ASSUME NEW x, NEW n \in Nat, NEW h \in Nat, NEW g \in Nat, h <= g, Reads(x, n, h)
  PROVE  Reads(x, n, g)
<1>1. MaxDepth \in Nat
  BY CborAssumption
<1>2. \A d \in Nat : d + g <= MaxDepth => d + h <= MaxDepth
  BY <1>1
<1>3. ASSUME NEW b \in Seq(Byte), NEW at \in Nat, NEW d \in Nat, NEW l \in Nat, Inside(b, x, at), d + g <= MaxDepth
      PROVE  After(b, at, d, l + n, 0) = After(b, at + Len(x), d, l, 0)
  BY <1>2, <1>3 DEF Reads
<1>4. x \in Seq(Byte)
  BY DEF Reads
<1> QED  BY <1>3, <1>4 DEF Reads

\* An item whose head is h begins at at: what skipValue does after that head.
BeginsWith(b, at, h) == \A d \in Nat : d <= MaxDepth => SkipOne(b, Skip(b), at, d) = SkipBody(b, Skip(b), d, h)

\* The head that is written there.
LEMMA HeadPassed ==
  ASSUME NEW b \in Seq(Byte), NEW at \in Nat, NEW major \in 0..7, NEW n \in Counts, Inside(b, HeadBytes(major, n), at)
  PROVE  BeginsWith(b, at, HeadIs(major, n, at + Len(HeadBytes(major, n))))
<1> SUFFICES ASSUME NEW d \in Nat, d <= MaxDepth, NEW head, head = HeadBytes(major, n)
             PROVE  SkipOne(b, Skip(b), at, d) = SkipBody(b, Skip(b), d, HeadIs(major, n, at + Len(head)))
  BY DEF BeginsWith
<1>1. ReadHead(b, at) = HeadIs(major, n, at + Len(head)) /\ at < Len(b) /\ b[at + 1] # 255
  <2>1. Inside(b, HeadBytes(major, n), at)
    OBVIOUS
  <2>2. ReadHead(b, at) = HeadIs(major, n, at + Len(head))
    BY HeadReadBack
  <2>3. at < Len(b)
    BY HeadReadBack
  <2>4. b[at + 1] # 255
    BY HeadReadBack
  <2> QED  BY <2>2, <2>3, <2>4
<1>2. ~(d > MaxDepth) /\ ~(at >= Len(b))
  <2>1. MaxDepth \in Nat /\ Len(b) \in Nat
    BY CborAssumption
  <2> QED  BY <1>1, <2>1
<1> QED  BY <1>1, <1>2 DEF SkipOne

Leaves == {t \in Tokens : t.major \in {0, 1, 2, 3, 7}}

\* A number, a string or a boolean is one item.
LEMMA ReadsLeaf ==
  ASSUME NEW t \in Leaves
  PROVE  ReadsOne(TokenBytes(t), 0)
<1>1. PICK major, n, head, fill : major = t.major /\ n = t.n /\ head = HeadBytes(major, n) /\ fill = Fill(t)
  OBVIOUS
<1>2. t \in Tokens /\ major \in {0, 1, 2, 3, 7}
  BY <1>1 DEF Leaves
<1>3. major \in 0..7 /\ n \in Counts /\ TokenBytes(t) \in Seq(Byte)
  BY <1>1, <1>2, TokenIs
<1>4. n \in Nat /\ n # Huge
  BY <1>3, CountIs
<1>5. head \in Seq(Byte) /\ Len(head) \in Nat
  BY <1>1, <1>3, HeadBytesType, SMTT(60)
<1>6. fill \in Seq(Byte) /\ Len(fill) = IF major \in {2, 3} THEN n ELSE 0
  BY <1>1, <1>2, FillIs
<1>7. TokenBytes(t) = head \o fill
  BY <1>1 DEF TokenBytes
<1>8. ASSUME NEW b \in Seq(Byte), NEW at \in Nat, NEW d \in Nat, Inside(b, TokenBytes(t), at), d + 0 <= MaxDepth
      PROVE  SkipOne(b, Skip(b), at, d) = Done(at + Len(TokenBytes(t)))
  <2>1. Inside(b, head, at) /\ Inside(b, fill, at + Len(head)) /\ Len(TokenBytes(t)) = Len(head) + Len(fill)
    BY <1>5, <1>6, <1>7, <1>8, PartsAt
  <2>2. PICK h, mid : mid = at + Len(head) /\ h = HeadIs(major, n, mid)
    OBVIOUS
  <2>3. h.ok /\ h.major = major /\ h.value = n /\ h.at = mid
    BY <2>2 DEF HeadIs
  <2>4. d <= MaxDepth
    <3>1. d + 0 = d
      OBVIOUS
    <3> QED  BY <1>8, <3>1
  <2>5. SkipOne(b, Skip(b), at, d) = SkipBody(b, Skip(b), d, h)
    <3>1. BeginsWith(b, at, HeadIs(major, n, at + Len(HeadBytes(major, n))))
      <4>1. Inside(b, HeadBytes(major, n), at)
        BY <1>1, <2>1
      <4> QED  BY <1>3, <4>1, HeadPassed
    <3>2. BeginsWith(b, at, h)
      BY <1>1, <2>2, <3>1
    <3> QED  BY <2>4, <3>2 DEF BeginsWith
  <2>6. CASE major \in {0, 1, 7}
    <3>1. SkipBody(b, Skip(b), d, h) = Done(mid)
      BY <2>3, <2>6 DEF SkipBody, Done
    <3>2. at + Len(TokenBytes(t)) = mid
      BY <1>5, <1>6, <2>1, <2>2, <2>6
    <3> QED  BY <2>5, <3>1, <3>2
  <2>7. CASE major \in {2, 3}
    <3>1. mid + n <= Len(b) /\ Len(b) \in Nat /\ mid \in Nat
      BY <1>5, <1>6, <2>1, <2>2, <2>7 DEF Inside
    <3>2. Fits(b, mid, n) = TRUE
      BY <1>4, <3>1 DEF Fits
    <3>3. SkipBody(b, Skip(b), d, h) = Done(mid + n)
      <4>1. SkipBody(b, Skip(b), d, h) = [ok |-> Fits(b, mid, n), at |-> mid + IF Fits(b, mid, n) THEN n ELSE 0]
        BY <1>4, <2>3, <2>7 DEF SkipBody
      <4> QED  BY <3>2, <4>1 DEF Done
    <3>4. at + Len(TokenBytes(t)) = mid + n
      BY <1>4, <1>5, <1>6, <2>1, <2>2, <2>7
    <3> QED  BY <2>5, <3>3, <3>4
  <2> QED  BY <1>2, <2>6, <2>7
<1> QED  BY <1>3, <1>8 DEF ReadsOne

\* An array or a map with what is in it.
LEMMA ReadsOpen ==
  ASSUME NEW major \in {4, 5}, NEW n \in Counts, n <= MaxElements, NEW x, NEW h \in Nat,
         Reads(x, IF major = 5 THEN n * 2 ELSE n, h)
  PROVE  ReadsOne(HeadBytes(major, n) \o x, h + 1)
<1>1. PICK head, width, inside : /\ head = HeadBytes(major, n) /\ width = (IF major = 5 THEN 2 ELSE 1)
                                 /\ inside = (IF major = 5 THEN n * 2 ELSE n)
  OBVIOUS
<1>2. n \in Nat /\ n # Huge /\ major \in 0..7 /\ MaxDepth \in Nat /\ MaxElements \in Nat
  BY CountIs, CborAssumption
<1>3. inside = n * width /\ inside \in Nat /\ 0 + inside = inside
  BY <1>1, <1>2
<1>4. head \in Seq(Byte) /\ Len(head) \in Nat
  BY <1>1, <1>2, HeadBytesType, SMTT(60)
<1>5. x \in Seq(Byte) /\ Len(x) \in Nat
  BY DEF Reads
<1>6. head \o x \in Seq(Byte) /\ Len(head \o x) = Len(head) + Len(x)
  BY <1>4, <1>5, Joined2
<1>7. ASSUME NEW b \in Seq(Byte), NEW at \in Nat, NEW d \in Nat, Inside(b, head \o x, at), d + (h + 1) <= MaxDepth
      PROVE  SkipOne(b, Skip(b), at, d) = Done(at + Len(head \o x))
  <2>1. PICK g, mid, end : mid = at + Len(head) /\ g = HeadIs(major, n, mid) /\ end = at + Len(head \o x)
    OBVIOUS
  <2>2. g.ok /\ g.major = major /\ g.value = n /\ g.at = mid
    BY <2>1 DEF HeadIs
  <2>3. Inside(b, head, at) /\ Inside(b, x, mid)
    BY <1>4, <1>5, <1>7, <2>1, PartsAt
  <2>4. mid \in Nat /\ end = mid + Len(x) /\ end \in 0..Len(b)
    <3>1. at + Len(head \o x) <= Len(b) /\ Len(b) \in Nat
      BY <1>7 DEF Inside
    <3> QED  BY <1>4, <1>5, <1>6, <2>1, <3>1
  <2>5. d <= MaxDepth /\ d + 1 \in Nat /\ (d + 1) + h <= MaxDepth
    BY <1>2, <1>7
  <2>6. SkipOne(b, Skip(b), at, d) = SkipBody(b, Skip(b), d, g)
    <3>1. BeginsWith(b, at, HeadIs(major, n, at + Len(HeadBytes(major, n))))
      <4>1. Inside(b, HeadBytes(major, n), at)
        BY <1>1, <2>3
      <4>2. major \in 0..7 /\ n \in Counts
        BY <1>1, <1>2
      <4> QED  BY <4>1, <4>2, HeadPassed
    <3>2. BeginsWith(b, at, g)
      BY <1>1, <2>1, <3>1
    <3> QED  BY <2>5, <3>2 DEF BeginsWith
  <2>7. SkipBody(b, Skip(b), d, g) = After(b, mid, d + 1, inside, 0)
    <3>1. ~(n > MaxElements)
      BY <1>2
    <3>2. SkipBody(b, Skip(b), d, g) = After(b, mid, d + 1, n * width, 0)
      BY <1>1, <1>2, <2>2, <3>1 DEF SkipBody, After
    <3> QED  BY <1>3, <3>2
  <2>8. After(b, mid, d + 1, inside, 0) = After(b, end, d + 1, 0, 0)
    <3>1. 0 \in Nat /\ Reads(x, inside, h)
      BY <1>1
    <3>2. After(b, mid, d + 1, 0 + inside, 0) = After(b, mid + Len(x), d + 1, 0, 0)
      BY <2>3, <2>4, <2>5, <3>1 DEF Reads
    <3> QED  BY <1>3, <2>4, <3>2
  <2>9. After(b, end, d + 1, 0, 0) = Done(end)
    BY <2>4, <2>5, SkipDone
  <2> QED  BY <2>1, <2>6, <2>7, <2>8, <2>9
<1> QED  BY <1>1, <1>6, <1>7 DEF ReadsOne

-----------------------------------------------------------------------------
(* What the device says of itself.                                         *)

\* The tokens, once written, are n items to the parser, nested to h.
Forms(t, n, h) == \E x : Writes(t, x) /\ Reads(x, n, h)
FormsOne(t, h) == \E x : Writes(t, x) /\ ReadsOne(x, h)

\* One item is a sequence of one item.
LEMMA FormsFirst ==
  ASSUME NEW t, NEW h \in Nat, FormsOne(t, h)
  PROVE  Forms(t, 1, h)
<1>1. PICK x : Writes(t, x) /\ ReadsOne(x, h)
  BY DEF FormsOne
<1>2. Reads(x, 1, h)
  BY <1>1, ReadsFirst
<1> QED  BY <1>1, <1>2 DEF Forms

\* A number, a string or a boolean is one item.
LEMMA FormsLeaf ==
  ASSUME NEW t \in Leaves, Capacity \in Nat
  PROVE  Forms(<<t>>, 1, 0)
<1>1. t \in Tokens
  BY DEF Leaves
<1>2. Writes(<<t>>, TokenBytes(t))
  BY <1>1, WritesOne
<1>3. Reads(TokenBytes(t), 1, 0)
  BY ReadsLeaf, ReadsFirst
<1> QED  BY <1>2, <1>3 DEF Forms

\* m items and n items behind them are m + n items.
LEMMA FormsJoin ==
  ASSUME NEW s, NEW t, NEW m \in Nat, NEW n \in Nat, NEW h \in Nat, Forms(s, m, h), Forms(t, n, h), Capacity \in Nat
  PROVE  Forms(s \o t, m + n, h)
<1>1. PICK x, y : Writes(s, x) /\ Reads(x, m, h) /\ Writes(t, y) /\ Reads(y, n, h)
  BY DEF Forms
<1>2. Writes(s \o t, x \o y)
  BY <1>1, WritesJoin
<1>3. Reads(x \o y, m + n, h)
  BY <1>1, ReadsJoin
<1> QED  BY <1>2, <1>3 DEF Forms

\* Items nested to h are nested to anything deeper.
LEMMA FormsMore ==
  ASSUME NEW t, NEW n \in Nat, NEW h \in Nat, NEW g \in Nat, h <= g, Forms(t, n, h)
  PROVE  Forms(t, n, g)
<1>1. PICK x : Writes(t, x) /\ Reads(x, n, h)
  BY DEF Forms
<1>2. Reads(x, n, g)
  BY <1>1, ReadsMore
<1> QED  BY <1>1, <1>2 DEF Forms

\* A header with as many items behind it as it announces is one item.
LEMMA FormsOpen ==
  ASSUME NEW t \in Tokens, t.major \in {4, 5}, t.n <= MaxElements, NEW s, NEW h \in Nat,
         Forms(s, IF t.major = 5 THEN t.n * 2 ELSE t.n, h), Capacity \in Nat
  PROVE  FormsOne(Holding(t, s), h + 1)
<1>1. PICK major, n, head, inside : /\ major = t.major /\ n = t.n /\ head = HeadBytes(major, n)
                                    /\ inside = (IF major = 5 THEN n * 2 ELSE n)
  OBVIOUS
<1>2. PICK x : Writes(s, x) /\ Reads(x, inside, h)
  BY <1>1 DEF Forms
<1>3. n \in Counts /\ major \in {4, 5} /\ major \in 0..7 /\ n <= MaxElements
  BY <1>1, TokenIs
<1>4. TokenBytes(t) = head
  <2>1. head \in Seq(Byte)
    BY <1>1, <1>3, HeadBytesType
  <2>2. Fill(t) = <<>>
    BY <1>1, <1>3 DEF Fill
  <2>3. TokenBytes(t) = head \o <<>>
    BY <1>1, <2>2 DEF TokenBytes
  <2> QED  BY <2>1, <2>3, ConcatEmptySeq
<1>5. Writes(<<t>>, head)
  BY <1>4, WritesOne
<1>6. Writes(<<t>> \o s, head \o x)
  BY <1>2, <1>5, WritesJoin
<1>7. ReadsOne(head \o x, h + 1)
  BY <1>1, <1>2, <1>3, ReadsOpen
<1> QED  BY <1>6, <1>7 DEF FormsOne, Holding

\* One leaf after the other.
LEMMA FormsLeaves ==
  ASSUME NEW s \in Seq(Leaves), NEW n \in Nat, n = Len(s), n > 0, Capacity \in Nat
  PROVE  Forms(s, n, 0)
<1> DEFINE Bad == {i \in 1..n : ~Forms(SubSeq(s, 1, i), i, 0)}
<1>1. Bad = {}
  <2> SUFFICES ASSUME NEW k \in Bad, \A m \in Bad : k <= m
               PROVE  FALSE
    <3>1. Bad \subseteq Nat
      OBVIOUS
    <3> HIDE DEF Bad
    <3> QED  BY <3>1, FirstFailure
  <2>1. k \in 1..n /\ ~Forms(SubSeq(s, 1, k), k, 0) /\ s[k] \in Leaves
    OBVIOUS
  <2>2. Forms(<<s[k]>>, 1, 0)
    BY <2>1, FormsLeaf
  <2>3. SubSeq(s, 1, k) = SubSeq(s, 1, k - 1) \o <<s[k]>>
    BY <2>1, SubSeqRecursiveSecond
  <2>4. CASE k = 1
    <3>1. SubSeq(s, 1, k - 1) = <<>> /\ <<s[k]>> \in Seq(Leaves)
      BY <2>1, <2>4
    <3>2. <<>> \o <<s[k]>> = <<s[k]>>
      BY <3>1, ConcatEmptySeq
    <3> QED  BY <2>1, <2>2, <2>3, <2>4, <3>1, <3>2
  <2>5. CASE k # 1
    <3>1. k - 1 \in 1..n /\ ~(k <= k - 1) /\ k - 1 \in Nat /\ (k - 1) + 1 = k
      BY <2>1, <2>5
    <3>2. k - 1 \notin Bad
      <4> HIDE DEF Bad
      <4> QED  BY <3>1
    <3>3. Forms(SubSeq(s, 1, k - 1), k - 1, 0)
      BY <3>1, <3>2
    <3>4. Forms(SubSeq(s, 1, k - 1) \o <<s[k]>>, (k - 1) + 1, 0)
      BY <2>2, <3>1, <3>3, FormsJoin
    <3> QED  BY <2>1, <2>3, <3>1, <3>4
  <2> QED  BY <2>4, <2>5
<1>2. Forms(SubSeq(s, 1, n), n, 0)
  BY <1>1
<1>3. SubSeq(s, 1, n) = s
  BY SubSeqFull
<1> QED  BY <1>2, <1>3

\* Leaves are as many items as they are tokens.
LEMMA FormsRun ==
  ASSUME NEW s \in Seq(Leaves), NEW n \in Nat, n = Len(s), n > 0, NEW h \in Nat, Capacity \in Nat
  PROVE  Forms(s, n, h)
  BY FormsLeaves, FormsMore

\* The tokens there are.
LEMMA SmallCount ==
  ASSUME NEW n \in Nat, n <= 65535
  PROVE  n \in Counts
  BY SMT DEF Counts, Huge

\* Unsigned and negative numbers, texts, byte strings and booleans are leaves.
LEMMA UIntLeaf ==
  ASSUME NEW n \in Nat, n <= 65535
  PROVE  UInt(n) \in Leaves
<1>1. n \in Counts
  BY SmallCount
<1> QED  BY <1>1 DEF UInt, Leaves, Tokens, Encodable, Byte

\* So is a negative number.
LEMMA NegIntLeaf ==
  ASSUME NEW a \in Int, NEW n \in Nat, n <= 65535, n = -1 - a
  PROVE  NegInt(a) \in Leaves
<1>1. n \in Counts
  BY SmallCount
<1>2. NegInt(a) = [major |-> 1, n |-> n, fill |-> 0]
  BY DEF NegInt
<1> QED  BY <1>1, <1>2 DEF Leaves, Tokens, Encodable, Byte

\* So is a short text.
LEMMA TextLeaf ==
  ASSUME NEW n \in Nat, n <= 27, NEW rank \in Nat, rank <= 255
  PROVE  Text(n, rank) \in Leaves
<1>1. n \in Counts
  BY SmallCount
<1> QED  BY <1>1 DEF Text, Leaves, Tokens, Encodable, Byte

\* So is a short byte string.
LEMMA ByteStringLeaf ==
  ASSUME NEW n \in Nat, n <= 27
  PROVE  ByteString(n) \in Leaves
<1>1. n \in Counts
  BY SmallCount
<1> QED  BY <1>1 DEF ByteString, Leaves, Tokens, Encodable, Byte

\* So is a boolean.
LEMMA BoolLeaf == Bool(TRUE) \in Leaves
<1>1. PICK n : n = 21
  OBVIOUS
<1>2. n \in Counts
  BY <1>1, SmallCount
<1>3. Bool(TRUE) = [major |-> 7, n |-> n, fill |-> 0]
  BY <1>1 DEF Bool
<1>4. PICK t : t = [major |-> 7, n |-> n, fill |-> 0]
  OBVIOUS
<1>5. t \in Leaves
  BY <1>2, <1>4 DEF Leaves, Tokens, Encodable, Byte
<1> QED  BY <1>3, <1>4, <1>5

\* The headers of an array and a map of up to 23 entries are tokens.
LEMMA HeaderIs ==
  ASSUME NEW n \in Nat, n <= 23
  PROVE  /\ Array(n) \in Tokens /\ Array(n).major = 4 /\ Array(n).n = n
         /\ Map(n) \in Tokens /\ Map(n).major = 5 /\ Map(n).n = n
<1>1. n \in Counts
  BY SmallCount
<1> QED  BY <1>1 DEF Array, Map, Tokens, Encodable, Byte

\* Lists of leaves of each length.
LEMMA ListsOf ==
  ASSUME NEW h \in Nat, Capacity \in Nat, NEW t1 \in Leaves
  PROVE  /\ Forms(<<t1>>, 1, h)
         /\ \A t2 \in Leaves : Forms(<<t1, t2>>, 2, h)
         /\ \A t2 \in Leaves, t3 \in Leaves : Forms(<<t1, t2, t3>>, 3, h)
         /\ \A t2 \in Leaves, t3 \in Leaves, t4 \in Leaves : Forms(<<t1, t2, t3, t4>>, 4, h)
         /\ \A t2 \in Leaves, t3 \in Leaves, t4 \in Leaves, t5 \in Leaves : Forms(<<t1, t2, t3, t4, t5>>, 5, h)
<1>1. <<t1>> \in Seq(Leaves) /\ 1 \in Nat /\ 1 = Len(<<t1>>) /\ 1 > 0
  OBVIOUS
<1>2. ASSUME NEW t2 \in Leaves, NEW s, s = <<t1, t2>>
      PROVE  Forms(s, 2, h)
  <2>1. s \in Seq(Leaves) /\ 2 \in Nat /\ 2 = Len(s) /\ 2 > 0
    BY <1>2
  <2> QED  BY <2>1, FormsRun
<1>3. ASSUME NEW t2 \in Leaves, NEW t3 \in Leaves, NEW s, s = <<t1, t2, t3>>
      PROVE  Forms(s, 3, h)
  <2>1. s \in Seq(Leaves) /\ 3 \in Nat /\ 3 = Len(s) /\ 3 > 0
    BY <1>3
  <2> QED  BY <2>1, FormsRun
<1>4. ASSUME NEW t2 \in Leaves, NEW t3 \in Leaves, NEW t4 \in Leaves, NEW s, s = <<t1, t2, t3, t4>>
      PROVE  Forms(s, 4, h)
  <2>1. s \in Seq(Leaves) /\ 4 \in Nat /\ 4 = Len(s) /\ 4 > 0
    BY <1>4
  <2> QED  BY <2>1, FormsRun
<1>5. ASSUME NEW t2 \in Leaves, NEW t3 \in Leaves, NEW t4 \in Leaves, NEW t5 \in Leaves, NEW s, s = <<t1, t2, t3, t4, t5>>
      PROVE  Forms(s, 5, h)
  <2>1. s \in Seq(Leaves) /\ 5 \in Nat /\ 5 = Len(s) /\ 5 > 0
    BY <1>5
  <2> QED  BY <2>1, FormsRun
<1>6. Forms(<<t1>>, 1, h)
  BY <1>1, FormsRun
<1> QED  BY <1>2, <1>3, <1>4, <1>5, <1>6

\* A map and an array of items.
LEMMA MapForms ==
  ASSUME Capacity \in Nat, NEW n \in Nat, n <= 23, n <= MaxElements, NEW s, NEW h \in Nat, Forms(s, n * 2, h)
  PROVE  FormsOne(Holding(Map(n), s), h + 1) /\ Forms(Holding(Map(n), s), 1, h + 1)
<1>1. PICK t : t = Map(n)
  OBVIOUS
<1>2. t \in Tokens /\ t.major = 5 /\ t.n = n
  BY <1>1, HeaderIs
<1>3. FormsOne(Holding(t, s), h + 1)
  BY <1>2, FormsOpen
<1> QED  BY <1>1, <1>3, FormsFirst

\* An array with as many items as it announces is one item.
LEMMA ArrayForms ==
  ASSUME Capacity \in Nat, NEW n \in Nat, n <= 23, n <= MaxElements, NEW s, NEW h \in Nat, Forms(s, n, h)
  PROVE  Forms(Holding(Array(n), s), 1, h + 1)
<1>1. PICK t : t = Array(n)
  OBVIOUS
<1>2. t \in Tokens /\ t.major = 4 /\ t.n = n
  BY <1>1, HeaderIs
<1>3. FormsOne(Holding(t, s), h + 1)
  BY <1>2, FormsOpen
<1> QED  BY <1>1, <1>3, FormsFirst

\* The parts of GetInfo, each as many items as its header announces.
LEMMA AlgorithmForms ==
  ASSUME Capacity \in Nat, MaxElements >= 2, NEW a \in Int, NegInt(a) \in Leaves
  PROVE  Forms(Algorithm(a), 1, 1)
<1>1. PICK t1, t2, t3, t4 : t1 = Text(3, 1) /\ t2 = NegInt(a) /\ t3 = Text(4, 1) /\ t4 = Text(10, 1)
  OBVIOUS
<1>2. t1 \in Leaves /\ t2 \in Leaves /\ t3 \in Leaves /\ t4 \in Leaves
  BY <1>1, TextLeaf
<1>3. Forms(<<t1, t2, t3, t4>>, 4, 0)
  BY <1>2, ListsOf
<1>4. Forms(<<t1, t2, t3, t4>>, 2 * 2, 0)
  BY <1>3
<1>5. Forms(Holding(Map(2), <<t1, t2, t3, t4>>), 1, 0 + 1)
  BY <1>4, MapForms
<1> QED  BY <1>1, <1>5 DEF Algorithm

\* versions, extensions and aaguid, each with its key.
LEMMA NamesForms ==
  ASSUME Capacity \in Nat, MaxElements >= 4
  PROVE  Forms(InfoNames, 6, 1)
<1>1. PICK u1, u2, u3, b : u1 = UInt(1) /\ u2 = UInt(2) /\ u3 = UInt(3) /\ b = ByteString(16)
  OBVIOUS
<1>2. u1 \in Leaves /\ u2 \in Leaves /\ u3 \in Leaves /\ b \in Leaves
  BY <1>1, UIntLeaf, ByteStringLeaf
<1>3. PICK v1, v2, v3 : v1 = Text(8, 1) /\ v2 = Text(12, 1) /\ v3 = Text(8, 2)
  OBVIOUS
<1>4. PICK w1, w2, w3, w4 : w1 = Text(11, 1) /\ w2 = Text(11, 2) /\ w3 = Text(12, 1) /\ w4 = Text(8, 1)
  OBVIOUS
<1>5. v1 \in Leaves /\ v2 \in Leaves /\ v3 \in Leaves /\ w1 \in Leaves /\ w2 \in Leaves /\ w3 \in Leaves /\ w4 \in Leaves
  BY <1>3, <1>4, TextLeaf
<1>6. Forms(<<u1>>, 1, 1) /\ Forms(<<u2>>, 1, 1) /\ Forms(<<u3, b>>, 2, 1)
  BY <1>2, ListsOf
<1>7. Forms(<<v1, v2, v3>>, 3, 0) /\ Forms(<<w1, w2, w3, w4>>, 4, 0)
  BY <1>5, ListsOf
<1>8. PICK x, y : x = Holding(Array(3), <<v1, v2, v3>>) /\ y = Holding(Array(4), <<w1, w2, w3, w4>>)
  OBVIOUS
<1>9. Forms(x, 1, 1) /\ Forms(y, 1, 1)
  <2>1. Forms(x, 1, 0 + 1)
    <3>1. 3 \in Nat /\ 3 <= 23 /\ 3 <= MaxElements /\ 0 \in Nat
      BY CborAssumption
    <3>2. Forms(Holding(Array(3), <<v1, v2, v3>>), 1, 0 + 1)
      BY <1>7, <3>1, ArrayForms
    <3> QED  BY <1>8, <3>2
  <2>2. Forms(y, 1, 0 + 1)
    <3>1. 4 \in Nat /\ 4 <= 23 /\ 4 <= MaxElements /\ 0 \in Nat
      OBVIOUS
    <3>2. Forms(Holding(Array(4), <<w1, w2, w3, w4>>), 1, 0 + 1)
      BY <1>7, <3>1, ArrayForms
    <3> QED  BY <1>8, <3>2
  <2> QED  BY <2>1, <2>2
<1>10. Forms(<<u1>> \o x, 1 + 1, 1)
  BY <1>6, <1>9, FormsJoin
<1>11. Forms(<<u1>> \o x \o <<u2>>, (1 + 1) + 1, 1)
  BY <1>6, <1>10, FormsJoin
<1>12. Forms(<<u1>> \o x \o <<u2>> \o y, ((1 + 1) + 1) + 1, 1)
  BY <1>9, <1>11, FormsJoin
<1>13. Forms(<<u1>> \o x \o <<u2>> \o y \o <<u3, b>>, (((1 + 1) + 1) + 1) + 2, 1)
  BY <1>6, <1>12, FormsJoin
<1>14. InfoNames = <<u1>> \o x \o <<u2>> \o y \o <<u3, b>>
  BY <1>1, <1>3, <1>4, <1>8 DEF InfoNames
<1> QED  BY <1>13, <1>14

\* The names of the options.
LEMMA KeysAre ==
  /\ OptionKeys \in Seq(Leaves) /\ Len(OptionKeys) = 11
<1>1. PICK k1, k2, k3, k4, k5, k6, k7, k8, k9, k10, k11 :
        /\ k1 = Text(2, 1) /\ k2 = Text(2, 2) /\ k3 = Text(2, 3) /\ k4 = Text(8, 1) /\ k5 = Text(8, 2)
        /\ k6 = Text(9, 1) /\ k7 = Text(9, 2) /\ k8 = Text(10, 1) /\ k9 = Text(14, 1) /\ k10 = Text(21, 1)
        /\ k11 = Text(27, 1)
  OBVIOUS
<1>2. /\ k1 \in Leaves /\ k2 \in Leaves /\ k3 \in Leaves /\ k4 \in Leaves /\ k5 \in Leaves /\ k6 \in Leaves
      /\ k7 \in Leaves /\ k8 \in Leaves /\ k9 \in Leaves /\ k10 \in Leaves /\ k11 \in Leaves
  BY <1>1, TextLeaf
<1>3. OptionKeys = <<k1, k2, k3, k4, k5, k6, k7, k8, k9, k10, k11>>
  BY <1>1 DEF OptionKeys
<1> QED  BY <1>2, <1>3

\* The map of the options is one item.
LEMMA OptionsForms ==
  ASSUME Capacity \in Nat, MaxElements >= 11
  PROVE  Forms(Holding(Map(11), OptionEntries), 1, 1)
<1>1. PICK yes : yes = Bool(TRUE)
  OBVIOUS
<1>2. yes \in Leaves
  BY <1>1, BoolLeaf
<1>3. ASSUME NEW i \in 1..22
      PROVE  (IF i % 2 = 1 THEN OptionKeys[(i + 1) \div 2] ELSE yes) \in Leaves
  <2>1. (i + 1) \div 2 \in 1..11
    OBVIOUS
  <2>2. OptionKeys[(i + 1) \div 2] \in Leaves
    <3>1. PICK keys, j : keys = OptionKeys /\ j = (i + 1) \div 2
      OBVIOUS
    <3>2. keys \in Seq(Leaves) /\ j \in 1..Len(keys)
      BY <2>1, <3>1, KeysAre
    <3>3. keys[j] \in Leaves
      BY <3>2, ElementOfSeq
    <3> QED  BY <3>1, <3>3
  <2> QED  BY <1>2, <2>2
<1>4. OptionEntries = [i \in 1..22 |-> IF i % 2 = 1 THEN OptionKeys[(i + 1) \div 2] ELSE yes]
  BY <1>1 DEF OptionEntries
<1>5. OptionEntries \in Seq(Leaves) /\ Len(OptionEntries) = 22
  BY <1>3, <1>4
<1>6. Forms(OptionEntries, 22, 0)
  <2>1. 22 \in Nat /\ 22 = Len(OptionEntries) /\ 22 > 0 /\ 0 \in Nat
    BY <1>5
  <2> QED  BY <1>5, <2>1, FormsRun
<1>7. Forms(OptionEntries, 11 * 2, 0)
  BY <1>6
<1>8. Forms(Holding(Map(11), OptionEntries), 1, 0 + 1)
  BY <1>7, MapForms
<1> QED  BY <1>8

\* The limits, each with its key.
LEMMA LimitsForms ==
  ASSUME Capacity \in Nat, MaxElements >= 1
  PROVE  Forms(InfoLimits, 10, 1)
<1>1. PICK u1, u2, u3, u4, v1, v2, v3, v4, t :
        /\ u1 = UInt(5) /\ u2 = UInt(8192) /\ u3 = UInt(6) /\ u4 = UInt(1) /\ t = Text(3, 1)
        /\ v1 = UInt(7) /\ v2 = UInt(8) /\ v3 = UInt(224) /\ v4 = UInt(9)
  OBVIOUS
<1>2. /\ u1 \in Leaves /\ u2 \in Leaves /\ u3 \in Leaves /\ u4 \in Leaves /\ t \in Leaves
      /\ v1 \in Leaves /\ v2 \in Leaves /\ v3 \in Leaves /\ v4 \in Leaves
  BY <1>1, UIntLeaf, TextLeaf
<1>3. Forms(<<u1, u2, u3>>, 3, 1) /\ Forms(<<v1, v2, v2, v3, v4>>, 5, 1) /\ Forms(<<u4>>, 1, 0) /\ Forms(<<t>>, 1, 0)
  BY <1>2, ListsOf
<1>4. PICK x, y : x = Holding(Array(1), <<u4>>) /\ y = Holding(Array(1), <<t>>)
  OBVIOUS
<1>5. Forms(x, 1, 1) /\ Forms(y, 1, 1)
  <2>1. Forms(x, 1, 0 + 1)
    BY <1>3, <1>4, ArrayForms
  <2>2. Forms(y, 1, 0 + 1)
    BY <1>3, <1>4, ArrayForms
  <2> QED  BY <2>1, <2>2
<1>6. Forms(<<u1, u2, u3>> \o x, 3 + 1, 1)
  BY <1>3, <1>5, FormsJoin
<1>7. Forms(<<u1, u2, u3>> \o x \o <<v1, v2, v2, v3, v4>>, (3 + 1) + 5, 1)
  BY <1>3, <1>6, FormsJoin
<1>8. Forms(<<u1, u2, u3>> \o x \o <<v1, v2, v2, v3, v4>> \o y, ((3 + 1) + 5) + 1, 1)
  BY <1>5, <1>7, FormsJoin
<1>9. InfoLimits = <<u1, u2, u3>> \o x \o <<v1, v2, v2, v3, v4>> \o y
  BY <1>1, <1>4 DEF InfoLimits
<1> QED  BY <1>8, <1>9

\* The algorithms and the numbers behind them, each with its key.
LEMMA AlgorithmsForms ==
  ASSUME Capacity \in Nat, MaxElements >= 6
  PROVE  Forms(InfoAlgorithms, 6, 2)
<1>1. PICK a1, a2, a3, a4, a5, a6 :
        /\ a1 = Algorithm(-7) /\ a2 = Algorithm(-8) /\ a3 = Algorithm(-257)
        /\ a4 = Algorithm(-48) /\ a5 = Algorithm(-49) /\ a6 = Algorithm(-50)
  OBVIOUS
<1>2. /\ NegInt(-7) \in Leaves /\ NegInt(-8) \in Leaves /\ NegInt(-257) \in Leaves
      /\ NegInt(-48) \in Leaves /\ NegInt(-49) \in Leaves /\ NegInt(-50) \in Leaves
  BY NegIntLeaf
<1>3. Forms(a1, 1, 1) /\ Forms(a2, 1, 1) /\ Forms(a3, 1, 1) /\ Forms(a4, 1, 1) /\ Forms(a5, 1, 1) /\ Forms(a6, 1, 1)
  <2>1. MaxElements >= 2
    BY CborAssumption
  <2>2. /\ Forms(Algorithm(-7), 1, 1) /\ Forms(Algorithm(-8), 1, 1) /\ Forms(Algorithm(-257), 1, 1)
        /\ Forms(Algorithm(-48), 1, 1) /\ Forms(Algorithm(-49), 1, 1) /\ Forms(Algorithm(-50), 1, 1)
    BY <1>2, <2>1, AlgorithmForms
  <2> QED  BY <1>1, <2>2
<1>4. PICK all : all = a1 \o a2 \o a3 \o a4 \o a5 \o a6
  OBVIOUS
<1>5. Forms(all, 6, 1)
  <2>1. Forms(a1 \o a2, 1 + 1, 1)
    BY <1>3, FormsJoin
  <2>2. Forms(a1 \o a2 \o a3, (1 + 1) + 1, 1)
    BY <1>3, <2>1, FormsJoin
  <2>3. Forms(a1 \o a2 \o a3 \o a4, ((1 + 1) + 1) + 1, 1)
    BY <1>3, <2>2, FormsJoin
  <2>4. Forms(a1 \o a2 \o a3 \o a4 \o a5, (((1 + 1) + 1) + 1) + 1, 1)
    BY <1>3, <2>3, FormsJoin
  <2>5. Forms(all, ((((1 + 1) + 1) + 1) + 1) + 1, 1)
    BY <1>3, <1>4, <2>4, FormsJoin
  <2> QED  BY <2>5
<1>6. PICK u1, u2, u3, u4, u5 : u1 = UInt(10) /\ u2 = UInt(11) /\ u3 = UInt(4096) /\ u4 = UInt(15) /\ u5 = UInt(32)
  OBVIOUS
<1>7. u1 \in Leaves /\ u2 \in Leaves /\ u3 \in Leaves /\ u4 \in Leaves /\ u5 \in Leaves
  BY <1>6, UIntLeaf
<1>8. Forms(<<u1>>, 1, 2) /\ Forms(<<u2, u3, u4, u5>>, 4, 2)
  BY <1>7, ListsOf
<1>9. PICK x : x = Holding(Array(6), all)
  OBVIOUS
<1>10. Forms(x, 1, 2)
  <2>1. Forms(x, 1, 1 + 1)
    BY <1>5, <1>9, ArrayForms
  <2> QED  BY <2>1
<1>11. Forms(<<u1>> \o x, 1 + 1, 2)
  BY <1>8, <1>10, FormsJoin
<1>12. Forms(<<u1>> \o x \o <<u2, u3, u4, u5>>, (1 + 1) + 4, 2)
  BY <1>8, <1>11, FormsJoin
<1>13. InfoAlgorithms = <<u1>> \o x \o <<u2, u3, u4, u5>>
  BY <1>1, <1>4, <1>6, <1>9 DEF InfoAlgorithms
<1> QED  BY <1>12, <1>13

\* Three parts, whichever two are joined first.
LEMMA BytesAssociative ==
  ASSUME NEW a \in Seq(Byte), NEW b \in Seq(Byte), NEW c \in Seq(Byte)
  PROVE  (a \o b) \o c = a \o (b \o c)
BY ConcatAssociative, SMTT(30)

\* Tokens written behind what is there already.
LEMMA WriteMore ==
  ASSUME NEW out \in Seq(Byte), NEW m \in Nat, Len(out) <= 32 * m, NEW t, NEW x, Writes(t, x), 32 * (m + Len(t)) < Capacity,
         Capacity \in Nat
  PROVE  /\ Encode(out, t, Capacity) = out \o x
         /\ out \o x \in Seq(Byte) /\ Len(out \o x) <= 32 * (m + Len(t))
<1>1. PICK n, k, l : n = Len(t) /\ k = Len(out) /\ l = Len(x)
  OBVIOUS
<1>2. t \in Seq(Tokens) /\ x \in Seq(Byte) /\ l <= 32 * n
  BY <1>1 DEF Writes
<1>3. n \in Nat /\ k \in Nat /\ l \in Nat /\ k <= 32 * m /\ 32 * (m + n) < Capacity
  BY <1>1, <1>2
<1>4. k + 32 * n < Capacity /\ k + l <= 32 * (m + n)
  BY <1>2, <1>3
<1>5. out \o x \in Seq(Byte) /\ Len(out \o x) = k + l
  BY <1>1, <1>2, Joined2
<1>6. Encode(out, t, Capacity) = out \o x
  BY <1>1, <1>4 DEF Writes
<1> QED  BY <1>1, <1>4, <1>5, <1>6

\* The options and their key.
LEMMA InfoOptionsForms ==
  ASSUME Capacity \in Nat, MaxElements >= 11
  PROVE  Forms(InfoOptions, 2, 2)
<1>1. PICK u, options : u = UInt(4) /\ options = Holding(Map(11), OptionEntries)
  OBVIOUS
<1>2. u \in Leaves
  BY <1>1, UIntLeaf
<1>3. Forms(<<u>>, 1, 1)
  BY <1>2, ListsOf
<1>4. Forms(options, 1, 1)
  BY <1>1, OptionsForms
<1>5. Forms(<<u>> \o options, 1 + 1, 1)
  BY <1>3, <1>4, FormsJoin
<1>6. Forms(<<u>> \o options, 2, 2)
  <2>1. Forms(<<u>> \o options, 2, 1)
    BY <1>5
  <2> QED  BY <2>1, FormsMore
<1> QED  BY <1>1, <1>6 DEF InfoOptions

\* The whole answer is one map.
LEMMA InfoIsOneItem ==
  ASSUME Capacity \in Nat, MaxElements >= 12, MaxDepth >= 3,
         32 * (1 + Len(InfoNames) + Len(InfoOptions) + Len(InfoLimits) + Len(InfoAlgorithms)) < Capacity
  PROVE  SkipValue(GetInfoBytes, 0, 0) = Done(Len(GetInfoBytes)) /\ Len(GetInfoBytes) \in Nat
<1>0. MaxElements \in Nat /\ MaxElements >= 4 /\ MaxElements >= 11 /\ MaxElements >= 1 /\ MaxElements >= 6
  BY CborAssumption
<1>1. PICK root, names, options, limits, algorithms, head :
        /\ root = Map(12) /\ names = InfoNames /\ options = InfoOptions
        /\ limits = InfoLimits /\ algorithms = InfoAlgorithms /\ head = HeadBytes(5, 12)
  OBVIOUS
<1>2. PICK x1 : Writes(names, x1) /\ Reads(x1, 6, 2)
  <2>1. Forms(names, 6, 1)
    BY <1>0, <1>1, NamesForms
  <2>2. Forms(names, 6, 2)
    BY <2>1, FormsMore
  <2> QED  BY <2>2 DEF Forms
<1>3. PICK x2 : Writes(options, x2) /\ Reads(x2, 2, 2)
  BY <1>0, <1>1, InfoOptionsForms DEF Forms
<1>4. PICK x3 : Writes(limits, x3) /\ Reads(x3, 10, 2)
  <2>1. Forms(limits, 10, 1)
    BY <1>0, <1>1, LimitsForms
  <2>2. Forms(limits, 10, 2)
    BY <2>1, FormsMore
  <2> QED  BY <2>2 DEF Forms
<1>5. PICK x4 : Writes(algorithms, x4) /\ Reads(x4, 6, 2)
  BY <1>0, <1>1, AlgorithmsForms DEF Forms
<1>6. x1 \in Seq(Byte) /\ x2 \in Seq(Byte) /\ x3 \in Seq(Byte) /\ x4 \in Seq(Byte)
  BY <1>2, <1>3, <1>4, <1>5 DEF Reads
<1>7. 12 \in Counts /\ head \in Seq(Byte)
  <2>1. 12 \in Counts
    BY SmallCount
  <2>2. 5 \in 0..7
    OBVIOUS
  <2> QED  BY <1>1, <2>1, <2>2, HeadBytesType
\* What is written,
<1>8. Writes(<<root>>, head)
  <2>1. root \in Tokens /\ root.major = 5 /\ root.n = 12
    <3>1. 12 \in Nat /\ 12 <= 23
      OBVIOUS
    <3> QED  BY <1>1, <3>1, HeaderIs
  <2>2. TokenBytes(root) = head \o <<>>
    <3>1. Fill(root) = <<>>
      BY <2>1 DEF Fill
    <3>2. TokenBytes(root) = HeadBytes(root.major, root.n) \o Fill(root)
      BY DEF TokenBytes
    <3>3. HeadBytes(root.major, root.n) = head
      BY <1>1, <2>1
    <3> QED  BY <3>1, <3>2, <3>3
  <2>3. TokenBytes(root) = head
    BY <1>7, <2>2, ConcatEmptySeq
  <2> QED  BY <2>1, <2>3, WritesOne
<1>9. Writes(<<root>> \o names, head \o x1)
  BY <1>2, <1>8, WritesJoin
<1>10. PICK m1, m2, m3, m4 : /\ m1 = Len(<<root>> \o names) /\ m2 = Len(options) /\ m3 = Len(limits)
                             /\ m4 = Len(algorithms)
  OBVIOUS
<1>11. /\ m1 \in Nat /\ m2 \in Nat /\ m3 \in Nat /\ m4 \in Nat /\ 32 * m1 < Capacity
       /\ 32 * (m1 + m2) < Capacity /\ 32 * ((m1 + m2) + m3) < Capacity /\ 32 * (((m1 + m2) + m3) + m4) < Capacity
  <2>1. names \in Seq(Tokens) /\ <<root>> \o names \in Seq(Tokens) /\ <<root>> \in Seq(Tokens)
        /\ options \in Seq(Tokens) /\ limits \in Seq(Tokens) /\ algorithms \in Seq(Tokens)
    BY <1>2, <1>3, <1>4, <1>5, <1>8, <1>9 DEF Writes
  <2>2. m1 = 1 + Len(names) /\ Len(names) \in Nat /\ m2 \in Nat /\ m3 \in Nat /\ m4 \in Nat
    BY <1>10, <2>1
  <2>3. 32 * (1 + Len(names) + m2 + m3 + m4) < Capacity
    BY <1>1, <1>10
  <2> QED  BY <2>2, <2>3
<1>12. PICK y1, y2, y3, y4 : y1 = head \o x1 /\ y2 = y1 \o x2 /\ y3 = y2 \o x3 /\ y4 = y3 \o x4
  OBVIOUS
<1>13. AfterNames = y1 /\ y1 \in Seq(Byte) /\ Len(y1) <= 32 * m1
  <2>1. y1 \in Seq(Byte) /\ Len(y1) <= 32 * m1
    BY <1>9, <1>10, <1>12 DEF Writes
  <2>2. <<>> \in Seq(Byte) /\ Len(<<>>) + 32 * m1 < Capacity
    <3>1. Len(<<>>) = 0 /\ 0 + 32 * m1 = 32 * m1
      BY <1>11
    <3> QED  BY <1>11, <3>1
  <2>3. Encode(<<>>, <<root>> \o names, Capacity) = <<>> \o y1
    BY <1>9, <1>10, <1>12, <2>2 DEF Writes
  <2> QED  BY <1>1, <2>1, <2>3, ConcatEmptySeq DEF AfterNames
<1>14. AfterOptions = y2 /\ y2 \in Seq(Byte) /\ Len(y2) <= 32 * (m1 + m2)
  <2>1. /\ Encode(y1, options, Capacity) = y1 \o x2 /\ y1 \o x2 \in Seq(Byte)
        /\ Len(y1 \o x2) <= 32 * (m1 + Len(options))
    <3>1. m1 \in Nat /\ 32 * (m1 + Len(options)) < Capacity /\ Capacity \in Nat
      BY <1>1, <1>10, <1>11
    <3>2. y1 \in Seq(Byte) /\ Len(y1) <= 32 * m1
      BY <1>13
    <3>3. Writes(options, x2)
      BY <1>3
    <3> QED  BY <3>1, <3>2, <3>3, WriteMore, SMTT(60)
  <2>2. AfterOptions = Encode(y1, options, Capacity)
    BY <1>1, <1>13 DEF AfterOptions
  <2> QED  BY <1>10, <1>12, <2>1, <2>2
<1>15. AfterLimits = y3 /\ y3 \in Seq(Byte) /\ Len(y3) <= 32 * ((m1 + m2) + m3)
  <2>1. /\ Encode(y2, limits, Capacity) = y2 \o x3 /\ y2 \o x3 \in Seq(Byte)
        /\ Len(y2 \o x3) <= 32 * ((m1 + m2) + Len(limits))
    <3>1. (m1 + m2) \in Nat /\ 32 * ((m1 + m2) + Len(limits)) < Capacity /\ Capacity \in Nat
      BY <1>1, <1>10, <1>11
    <3>2. y2 \in Seq(Byte) /\ Len(y2) <= 32 * (m1 + m2)
      BY <1>14
    <3>3. Writes(limits, x3)
      BY <1>4
    <3> QED  BY <3>1, <3>2, <3>3, WriteMore, SMTT(60)
  <2>2. AfterLimits = Encode(y2, limits, Capacity)
    BY <1>1, <1>14 DEF AfterLimits
  <2> QED  BY <1>10, <1>12, <2>1, <2>2
<1>16. GetInfoBytes = y4 /\ y4 \in Seq(Byte)
  <2>1. /\ Encode(y3, algorithms, Capacity) = y3 \o x4 /\ y3 \o x4 \in Seq(Byte)
        /\ Len(y3 \o x4) <= 32 * (((m1 + m2) + m3) + Len(algorithms))
    <3>1. ((m1 + m2) + m3) \in Nat /\ 32 * (((m1 + m2) + m3) + Len(algorithms)) < Capacity /\ Capacity \in Nat
      BY <1>1, <1>10, <1>11
    <3>2. y3 \in Seq(Byte) /\ Len(y3) <= 32 * ((m1 + m2) + m3)
      BY <1>15
    <3>3. Writes(algorithms, x4)
      BY <1>5
    <3> QED  BY <3>1, <3>2, <3>3, WriteMore, SMTT(60)
  <2>2. GetInfoBytes = Encode(y3, algorithms, Capacity)
    BY <1>1, <1>15 DEF GetInfoBytes
  <2> QED  BY <1>10, <1>12, <2>1, <2>2
\* and what is read.
<1>17. PICK z2, z3, z4 : z2 = x1 \o x2 /\ z3 = z2 \o x3 /\ z4 = z3 \o x4
  OBVIOUS
<1>18. y4 = head \o z4
  <2>1. z2 \in Seq(Byte) /\ z3 \in Seq(Byte) /\ z4 \in Seq(Byte)
    BY <1>6, <1>17, Joined2
  <2>2. (head \o x1) \o x2 = head \o (x1 \o x2)
    <3>1. head \in Seq(Byte) /\ x1 \in Seq(Byte) /\ x2 \in Seq(Byte)
      BY <1>6, <1>7
    <3> QED  BY <3>1, BytesAssociative
  <2>3. y2 = head \o z2
    BY <1>12, <1>17, <2>2
  <2>4. (head \o z2) \o x3 = head \o (z2 \o x3)
    <3>1. head \in Seq(Byte) /\ z2 \in Seq(Byte) /\ x3 \in Seq(Byte)
      BY <1>6, <1>7, <2>1
    <3> QED  BY <3>1, BytesAssociative
  <2>5. y3 = head \o z3
    BY <1>12, <1>17, <2>3, <2>4
  <2>6. (head \o z3) \o x4 = head \o (z3 \o x4)
    <3>1. head \in Seq(Byte) /\ z3 \in Seq(Byte) /\ x4 \in Seq(Byte)
      BY <1>6, <1>7, <2>1
    <3> QED  BY <3>1, BytesAssociative
  <2> QED  BY <1>12, <1>17, <2>5, <2>6
<1>19. Reads(z4, ((6 + 2) + 10) + 6, 2)
  <2>1. Reads(z2, 6 + 2, 2)
    BY <1>2, <1>3, <1>17, ReadsJoin
  <2>2. Reads(z3, (6 + 2) + 10, 2)
    BY <1>4, <1>17, <2>1, ReadsJoin
  <2> QED  BY <1>5, <1>17, <2>2, ReadsJoin
<1>20. ReadsOne(head \o z4, 3)
  <2>1. PICK major, n : major = 5 /\ n = 12
    OBVIOUS
  <2>2. Reads(z4, IF major = 5 THEN n * 2 ELSE n, 2)
    <3>1. (IF major = 5 THEN n * 2 ELSE n) = ((6 + 2) + 10) + 6
      BY <2>1
    <3> QED  BY <1>19, <3>1
  <2>3. major \in {4, 5} /\ n \in Counts /\ n <= MaxElements /\ 2 \in Nat
    BY <1>7, <2>1
  <2>4. ReadsOne(HeadBytes(major, n) \o z4, 2 + 1)
    BY <2>2, <2>3, ReadsOpen
  <2> QED  BY <1>1, <2>1, <2>4
<1>21. PICK b : b = GetInfoBytes
  OBVIOUS
<1>22. b \in Seq(Byte) /\ Len(b) \in Nat /\ ReadsOne(b, 3)
  <2>1. b = head \o z4
    BY <1>16, <1>18, <1>21
  <2>2. b \in Seq(Byte)
    BY <1>16, <1>21
  <2>3. Len(b) \in Nat
    BY <2>2
  <2>4. ReadsOne(b, 3)
    BY <1>20, <2>1
  <2> QED  BY <2>2, <2>3, <2>4
<1>23. SkipOne(b, Skip(b), 0, 0) = Done(0 + Len(b))
  <2>1. Inside(b, b, 0) /\ 0 + 3 <= MaxDepth
    BY <1>22, ItselfInside, CborAssumption
  <2> QED  BY <1>22, <2>1 DEF ReadsOne
<1> QED  BY <1>21, <1>22, <1>23 DEF SkipValue

-----------------------------------------------------------------------------
(* The codec on the wire.                                                  *)

\* What CodecAssumption says, in the terms of the lemmas.
LEMMA CodecIs ==
  /\ Capacity \in Nat /\ 32 * (1 + Len(InfoNames) + Len(InfoOptions) + Len(InfoLimits) + Len(InfoAlgorithms)) < Capacity
  /\ MaxDepth >= 3 /\ MaxElements >= 12
  /\ MinPins \subseteq Counts
  /\ RawRequests \subseteq Seq(Byte) /\ Extras \subseteq Seq(Byte)
  /\ \A extra \in Extras : RefItem(extra, MaxDepth)
  /\ InfoLen = Len(GetInfoBytes) /\ ProperRequests = HostRequests /\ Parsed = EveryRequest
<1>1. MinPins \subseteq Counts
  <2> SUFFICES ASSUME NEW n \in MinPins
               PROVE  n \in Counts
    OBVIOUS
  <2>1. n \in Nat /\ n <= Huge - 256
    BY CodecAssumption
  <2> QED  BY <2>1 DEF Counts
<1>2. RawRequests \subseteq Seq(Byte) /\ Extras \subseteq Seq(Byte)
  BY CodecAssumption DEF Byte
<1> QED  BY <1>1, <1>2, CodecAssumption DEF GetInfoLen

\* Every request a host may send is bytes, and Wire is told what the parser reads out of it.
LEMMA RequestIsBytes ==
  ASSUME NEW b \in ProperRequests \cup RawRequests
  PROVE  b \in Seq(Byte) /\ Parsed[b] = DeviceReads(b)
<1>1. CASE b \in RawRequests
  <2>1. b \in Seq(Byte)
    BY <1>1, CodecIs
  <2>2. Parsed[b] = DeviceReads(b)
    BY <1>1, CodecIs DEF EveryRequest
  <2> QED  BY <2>1, <2>2
<1>2. CASE b \in ProperRequests
  <2>1. b \in HostRequests
    BY <1>2, CodecIs
  <2>2. PICK sub \in 1..4, n \in MinPins, extra \in Extras : b = HostRequest(sub, n, extra)
    BY <2>1 DEF HostRequests
  <2>3. n \in Counts /\ extra \in Seq(Byte) /\ RefItem(extra, MaxDepth)
    BY CodecIs
  <2>4. b \in Seq(Byte)
    BY <2>2, <2>3, RequestParts
  <2>5. Parsed[b] = DeviceReads(b)
    BY <2>1, CodecIs DEF EveryRequest
  <2> QED  BY <2>4, <2>5
<1> QED  BY <1>1, <1>2

\* A proper request is understood.
LEMMA Understood ==
  ASSUME NEW sub \in 1..4, NEW n \in MinPins, NEW extra \in Extras, NEW b, b = HostRequest(sub, n, extra)
  PROVE  LET p == DeviceReads(b)
         IN  p.ok /\ p.sub = sub /\ p.minPin = n
<1>1. n \in Counts /\ extra \in Seq(Byte) /\ RefItem(extra, MaxDepth)
  BY CodecIs
<1>2. PICK at : DeviceReads(b) = State(at, 0, 0, sub, n)
  BY <1>1, RequestUnderstood
<1>3. PICK p : p = DeviceReads(b)
  OBVIOUS
<1>4. p = [ok |-> Yes, at |-> at, left |-> 0, inner |-> 0, sub |-> sub, minPin |-> n]
  BY <1>2, <1>3 DEF State
<1>5. p.ok = Yes /\ p.sub = sub /\ p.minPin = n
  BY <1>4
<1> QED  BY <1>3, <1>5 DEF Yes

\* By length, then bytewise.
LEMMA KeysInOrder ==
  ASSUME NEW i \in 1..10
  PROVE  LET k == OptionKeys[i]  l == OptionKeys[i + 1]
         IN  k.n < l.n \/ (k.n = l.n /\ k.fill < l.fill)
<1>1. PICK k1, k2, k3, k4, k5, k6, k7, k8, k9, k10, k11 :
        /\ k1 = Text(2, 1) /\ k2 = Text(2, 2) /\ k3 = Text(2, 3) /\ k4 = Text(8, 1) /\ k5 = Text(8, 2)
        /\ k6 = Text(9, 1) /\ k7 = Text(9, 2) /\ k8 = Text(10, 1) /\ k9 = Text(14, 1) /\ k10 = Text(21, 1)
        /\ k11 = Text(27, 1)
  OBVIOUS
<1>2. PICK keys : keys = OptionKeys
  OBVIOUS
<1>3. keys = <<k1, k2, k3, k4, k5, k6, k7, k8, k9, k10, k11>>
  BY <1>1, <1>2 DEF OptionKeys
<1>4. /\ keys[1] = k1 /\ keys[2] = k2 /\ keys[3] = k3 /\ keys[4] = k4 /\ keys[5] = k5 /\ keys[6] = k6
      /\ keys[7] = k7 /\ keys[8] = k8 /\ keys[9] = k9 /\ keys[10] = k10 /\ keys[11] = k11
  BY <1>3
<1>5. /\ k1.n = 2 /\ k1.fill = 1 /\ k2.n = 2 /\ k2.fill = 2 /\ k3.n = 2 /\ k3.fill = 3 /\ k4.n = 8 /\ k4.fill = 1
      /\ k5.n = 8 /\ k5.fill = 2 /\ k6.n = 9 /\ k6.fill = 1 /\ k7.n = 9 /\ k7.fill = 2 /\ k8.n = 10 /\ k9.n = 14
      /\ k10.n = 21 /\ k11.n = 27
  BY <1>1 DEF Text
<1>6. i = 1 \/ i = 2 \/ i = 3 \/ i = 4 \/ i = 5 \/ i = 6 \/ i = 7 \/ i = 8 \/ i = 9 \/ i = 10
  OBVIOUS
<1> HIDE <1>3
<1> QED  BY <1>2, <1>4, <1>5, <1>6

\* What the tasks keep of the codec: requests of bytes, and GetInfo in whole.
Carried ==
  /\ Len(handed) <= MaxInits /\ offset <= answer.len /\ seq \in Nat /\ dev \in {"idle", "sending"}
  /\ forcePin \in BOOLEAN /\ minPin \in 4..255
  /\ request \in Seq(Byte)
  /\ answer.kind = "getInfo" => answer.len = 1 + InfoLen

\* Carried holds to begin with,
LEMMA CarriedInit == WireInit => Carried
<1> SUFFICES ASSUME WireInit
             PROVE  Carried
  OBVIOUS
<1>1. Len(handed) = 0 /\ offset = 0 /\ seq = 0 /\ dev = "idle" /\ forcePin = FALSE /\ minPin = 4 /\ request = <<>>
  BY DEF WireInit
<1>2. answer.len = 0 /\ answer.kind = "none"
  BY DEF WireInit, NoAnswer
<1>3. request \in Seq(Byte) /\ Len(handed) <= MaxInits /\ minPin \in 4..255
  BY <1>1, WireAssumption
<1>4. offset <= answer.len /\ answer.kind # "getInfo"
  BY <1>1, <1>2
<1> QED  BY <1>1, <1>3, <1>4 DEF Carried

\* A new answer.
LEMMA AnswerCarried ==
  ASSUME NEW h, NEW c, NEW kind, NEW len \in Nat, NEW new, Answers(h, c, kind, len, new),
         kind = "getInfo" => len = 1 + InfoLen
  PROVE  /\ offset' <= answer'.len /\ seq' \in Nat /\ dev' \in {"idle", "sending"}
         /\ answer'.kind = "getInfo" => answer'.len = 1 + InfoLen
<1>1. /\ offset' = 0 /\ seq' = 0 /\ dev' = "sending"
      /\ answer' = [id |-> answers + 1, kind |-> kind, len |-> len, to |-> c, host |-> h, new |-> new]
  BY DEF Answers
<1>2. answer'.len = len /\ answer'.kind = kind
  BY <1>1
<1> QED  BY <1>1, <1>2

\* The minimum the device keeps is a PIN length: at least 4, and one byte.
LEMMA MinPinKept ==
  ASSUME NEW n \in Nat
  PROVE  MinPinLength(n) \in 4..255
<1>1. PICK m : m = n % 256
  OBVIOUS
<1>2. m \in 0..255
  BY <1>1
<1>3. \E x \in {4, m} : \A y \in {4, m} : x >= y
  BY <1>2
<1>4. Max({4, m}) \in {4, m} /\ \A y \in {4, m} : Max({4, m}) >= y
  BY <1>3, Zenon DEF Max
<1>5. Max({4, m}) \in 4..255
  BY <1>2, <1>4
<1> QED  BY <1>1, <1>5 DEF MinPinLength

\* A packet of an answer leaves it alone,
LEMMA PacketCarried ==
  ASSUME WireIInv, Carried, SendPacket
  PROVE  Carried'
<1>1. PICK h \in Hosts : Addressed(h)
  BY DEF SendPacket
<1>2. /\ dev = "sending" /\ offset' = offset + Chunk /\ seq' = (IF offset = 0 THEN 0 ELSE seq + 1)
      /\ dev' = IF offset' >= answer.len THEN "idle" ELSE "sending"
      /\ request' = IF offset' >= answer.len THEN <<>> ELSE request
      /\ UNCHANGED <<handed, forcePin, minPin, answer>>
  BY DEF SendPacket, tableVars
<1>3. offset' <= answer.len
  BY <1>1, <1>2, PacketJoined
<1>4. request' \in Seq(Byte)
  BY <1>2 DEF Carried
<1>5. seq' \in Nat /\ dev' \in {"idle", "sending"}
  BY <1>2 DEF Carried
<1> QED  BY <1>2, <1>3, <1>4, <1>5 DEF Carried

\* a request is answered with what Carried says,
LEMMA RequestCarried ==
  ASSUME WireIInv, Carried, NEW h \in Hosts,
         \/ \E c \in {Broadcast, cid[h]} : InitRequest(h, c)
         \/ \E n \in PingLens : Ping(h, n)
         \/ Wink(h) \/ Refused(h) \/ GetInfo(h) \/ \E b \in ProperRequests \cup RawRequests : Config(h, b)
  PROVE  Carried'
<1>1. CASE \E c \in {Broadcast, cid[h]} : InitRequest(h, c)
  <2>1. PICK c, new : /\ Len(handed) < MaxInits /\ RememberChannel(new) /\ Answers(h, c, "init", 17, new)
                      /\ UNCHANGED configVars
    BY <1>1 DEF InitRequest
  <2>2. Len(handed') <= MaxInits
    <3>1. handed \in Seq(Nat) /\ MaxInits \in Nat
      BY WireAssumption DEF WireIInv, TableHolds
    <3>2. handed' = handed \/ handed' = Append(handed, new)
      BY <2>1 DEF RememberChannel, tableVars
    <3>3. CASE handed' = handed
      BY <3>3 DEF Carried
    <3>4. CASE handed' = Append(handed, new)
      <4>1. Len(handed') = Len(handed) + 1 /\ Len(handed) \in Nat
        BY <3>1, <3>4
      <4> QED  BY <2>1, <3>1, <4>1
    <3> QED  BY <3>2, <3>3, <3>4
  <2>3. /\ offset' <= answer'.len /\ seq' \in Nat /\ dev' \in {"idle", "sending"}
        /\ answer'.kind = "getInfo" => answer'.len = 1 + InfoLen
    <3>1. 17 \in Nat /\ "init" # "getInfo"
      OBVIOUS
    <3> QED  BY <2>1, <3>1, AnswerCarried
  <2> QED  BY <2>1, <2>2, <2>3 DEF Carried, configVars
<1>2. ASSUME NEW c, NEW kind, NEW len \in Nat, Answers(h, c, kind, len, NoChannel),
             kind = "getInfo" => len = 1 + InfoLen, UNCHANGED <<tableVars, configVars>>
      PROVE  Carried'
  <2>1. /\ offset' <= answer'.len /\ seq' \in Nat /\ dev' \in {"idle", "sending"}
        /\ answer'.kind = "getInfo" => answer'.len = 1 + InfoLen
    BY <1>2, AnswerCarried
  <2> QED  BY <1>2, <2>1 DEF Carried, tableVars, configVars
<1>3. CASE \E n \in PingLens : Ping(h, n)
  <2>1. PICK n \in PingLens : Ping(h, n)
    BY <1>3
  <2>2. n \in Nat /\ "ping" # "getInfo"
    BY WireAssumption
  <2> QED  BY <1>2, <2>1, <2>2 DEF Ping
<1>4. CASE Wink(h)
  <2>1. 0 \in Nat /\ "wink" # "getInfo"
    OBVIOUS
  <2> QED  BY <1>2, <1>4, <2>1 DEF Wink
<1>5. CASE Refused(h)
  <2>1. 1 \in Nat /\ "error" # "getInfo"
    OBVIOUS
  <2> QED  BY <1>2, <1>5, <2>1 DEF Refused
<1>6. CASE GetInfo(h)
  <2>1. 1 + InfoLen \in Nat
    BY WireAssumption
  <2> QED  BY <1>2, <1>6, <2>1 DEF GetInfo
<1>7. CASE \E b \in ProperRequests \cup RawRequests : Config(h, b)
  <2>1. PICK b \in ProperRequests \cup RawRequests : Config(h, b)
    BY <1>7
  <2>2. PICK p : p = Parsed[b]
    OBVIOUS
  <2>3. b \in Seq(Byte) /\ p \in Reading(b)
    BY <2>1, <2>2, RequestIsBytes, DeviceReadsInside
  <2>4. p.ok \in BOOLEAN /\ p.sub \in Nat /\ p.minPin \in Nat
    BY <2>3 DEF Reading
  <2>5. PICK len \in {1, 2} : Answers(h, cid[h], "config", len, NoChannel)
    BY <2>1 DEF Config
  <2>6. /\ SetForcePinChange(p) /\ minPin' = (IF p.ok /\ p.sub = 3 THEN MinPinLength(p.minPin) ELSE minPin)
        /\ request' = b /\ UNCHANGED tableVars
    BY <2>1, <2>2 DEF Config
  <2>7. /\ offset' <= answer'.len /\ seq' \in Nat /\ dev' \in {"idle", "sending"}
        /\ answer'.kind = "getInfo" => answer'.len = 1 + InfoLen
    <3>1. len \in Nat /\ "config" # "getInfo"
      OBVIOUS
    <3> QED  BY <2>5, <3>1, AnswerCarried
  <2>8. forcePin' \in BOOLEAN
    BY <2>6 DEF SetForcePinChange
  <2>9. minPin' \in 4..255
    BY <2>4, <2>6, MinPinKept DEF Carried
  <2>10. handed' = handed
    BY <2>6 DEF tableVars
  <2> QED  BY <2>3, <2>6, <2>7, <2>8, <2>9, <2>10 DEF Carried
<1> QED  BY <1>1, <1>3, <1>4, <1>5, <1>6, <1>7

\* and so does every step.
LEMMA CarriedStep == WireIInv /\ Carried /\ [WireNext]_wireVars => Carried'
<1> SUFFICES ASSUME WireIInv, Carried, [WireNext]_wireVars
             PROVE  Carried'
  OBVIOUS
<1>1. CASE SendPacket
  BY <1>1, PacketCarried
<1>2. CASE SendDeadline
  <2>1. <<>> \in Seq(Byte)
    OBVIOUS
  <2> QED  BY <1>2, <2>1 DEF SendDeadline, Carried, tableVars, sendVars
<1>3. ASSUME NEW h \in Hosts, HostGivesUp(h)
      PROVE  Carried'
  BY <1>3 DEF HostGivesUp, Carried, tableVars, configVars, sendVars
<1>4. CASE UNCHANGED wireVars
  BY <1>4 DEF wireVars, Carried, tableVars, configVars, sendVars
<1>5. ASSUME NEW h \in Hosts, NEW b \in ProperRequests \cup (IF answers < MaxRaw THEN RawRequests ELSE {}), Config(h, b)
      PROVE  Carried'
  <2>1. b \in ProperRequests \cup RawRequests
    OBVIOUS
  <2> QED  BY <1>5, <2>1, RequestCarried
<1> QED  BY <1>1, <1>2, <1>3, <1>4, <1>5, RequestCarried DEF WireNext

\* It always holds, with the invariant of Wire.
LEMMA CarriedAlways == WireSpec => [](WireIInv /\ Carried)
<1>1. WireInit => Carried
  BY CarriedInit
<1>2. WireIInv /\ Carried /\ [WireNext]_wireVars => Carried'
  BY CarriedStep
<1> QED  BY <1>1, <1>2, WireInvariant, PTL DEF WireSpec

\* What of CodecSound follows from that.
LEMMA WireTyped ==
  ASSUME WireIInv, Carried
  PROVE  WireTypeOK
<1>1. Len(handed) \in Nat /\ Len(handed) <= MaxInits /\ MaxInits \in Nat
  BY WireAssumption DEF WireIInv, TableHolds, Carried
<1>2. allocatedChannels \in [0..MaxChannels - 1 -> 0..MaxInits] /\ nextChannelSlot \in 0..MaxChannels - 1
  BY <1>1 DEF WireIInv, TableHolds
<1>3. \A h \in Hosts : cid[h] \in 0..MaxInits
  BY <1>1 DEF WireIInv, SendTyped
<1>4. offset \in 0..answer.len
  BY DEF WireIInv, SendTyped, Carried
<1> QED  BY <1>2, <1>3, <1>4 DEF WireTypeOK, Carried

\* The answer of GetInfo is the one item the encoder wrote, its keys in order.
LEMMA InfoCanonical ==
  ASSUME WireIInv, Carried
  PROVE  InfoIsCanonical
<1> SUFFICES ASSUME answer.kind = "getInfo"
             PROVE  /\ SkipValue(GetInfoBytes, 0, 0) = [ok |-> TRUE, at |-> answer.len - 1]
                    /\ \A i \in 1..Len(OptionKeys) - 1 :
                         LET k == OptionKeys[i]  l == OptionKeys[i + 1]
                         IN  k.n < l.n \/ (k.n = l.n /\ k.fill < l.fill)
  BY DEF InfoIsCanonical
<1>1. SkipValue(GetInfoBytes, 0, 0) = Done(Len(GetInfoBytes)) /\ Len(GetInfoBytes) \in Nat
  BY CodecIs, InfoIsOneItem
<1>2. answer.len = 1 + Len(GetInfoBytes)
  BY CodecIs DEF Carried
<1>3. answer.len - 1 = Len(GetInfoBytes)
  BY <1>1, <1>2
<1>4. SkipValue(GetInfoBytes, 0, 0) = [ok |-> TRUE, at |-> answer.len - 1]
  BY <1>1, <1>3 DEF Done
<1>5. Len(OptionKeys) - 1 = 10
  BY KeysAre
<1> QED  BY <1>4, <1>5, KeysInOrder

\* The invariant of Wire and Carried imply every part of CodecSound.
LEMMA CodecHolds ==
  ASSUME WireIInv, Carried
  PROVE  CodecSound
<1>1. request \in Seq(Byte)
  BY DEF Carried
<1>2. ConfigUnderstood
  BY Understood DEF ConfigUnderstood
<1> QED  BY <1>1, <1>2, WireTyped, InfoCanonical, ParserInside, ItemSkipped DEF CodecSound

\* The answer of GetInfo is one CBOR item whose option keys are in canonical order; whatever bytes a
\* request holds, CborParser stays within them and passes over one item at a time; and what a host
\* means by a request of authenticatorConfig, the device reads.
THEOREM CodecSoundHolds == WireSpec => []CodecSound
<1>1. WireIInv /\ Carried => CodecSound
  BY CodecHolds
<1> QED  BY <1>1, CarriedAlways, PTL
=============================================================================
