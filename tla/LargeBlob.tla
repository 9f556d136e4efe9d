----------------------------- MODULE LargeBlob -----------------------------
(***************************************************************************)
(* authenticatorLargeBlobs (src/FIDO2Manager.cpp) and the file behind it   *)
(* (src/StorageManager.cpp).  A platform sends an array in fragments; the  *)
(* device collects them in one static buffer, whoever sends them, checks   *)
(* the array's hash when the last one has come and rewrites the file.      *)
(* A platform reads the array back in fragments too.                       *)
(*                                                                         *)
(* Arrays are known by their bytes, so that two of them may share any      *)
(* beginning; the hash at an array's end is right for the bytes of the     *)
(* arrays of Good, and for no other string of bytes.                       *)
(***************************************************************************)
EXTENDS Naturals, Sequences

CONSTANTS
  Bytes,               \* the values a byte may have
  Arrays, Good, Data,  \* the arrays platforms send; those whose hash is right; their bytes
  EmptyArray,          \* the constant array served when none is stored
  MinArray,            \* 17: one byte and the 16 of the hash
  MaxArray,            \* MAX_LARGE_BLOB_ARRAY
  MaxFragment,         \* MAX_FRAGMENT_LEN
  MaxCuts              \* bound: power cuts

ASSUME LargeBlobAssumption ==
  /\ Good \subseteq Arrays
  /\ Data \in [Arrays -> Seq(Bytes)] /\ EmptyArray \in Seq(Bytes)
  /\ MinArray \in Nat \ {0} /\ MaxArray \in Nat /\ MaxFragment \in Nat /\ MaxCuts \in Nat

VARIABLES
  held, size, buf,       \* largeBlobWriteBuffer: allocated or not, its real size, the bytes put there
  capacity, expected, received,   \* the statics beside it
  pc,                    \* what the handler still has to do: check the hash, write the file
  file,                  \* /largeblob.bin, empty when there is none
  confirmed,             \* history: the first fragment, with the length declared, that a finger confirmed last; none since a Reset
  damaged,               \* history: the file was cut short by a power cut or a full flash
  got, done, stable,     \* a platform reading: bytes so far, finished, no write or failed read since it began
  cuts

bufVars  == <<held, size, buf, capacity, expected, received>>
readVars == <<got, done>>
vars     == <<bufVars, pc, file, confirmed, damaged, readVars, stable, cuts>>

Init ==
  /\ held = FALSE /\ size = 0 /\ buf = << >>
  /\ capacity = 0 /\ expected = 0 /\ received = 0
  /\ pc = "idle" /\ file = << >> /\ confirmed = {} /\ damaged = FALSE
  /\ got = << >> /\ done = FALSE /\ stable = TRUE /\ cuts = 0

\* The n bytes of array a after the first off.
Piece(a, off, n) == SubSeq(Data[a], off + 1, off + n)

-----------------------------------------------------------------------------
(* Writing.                                                                *)

\* The buffer is freed and the statics are cleared.
Release ==
  /\ held' = FALSE /\ size' = 0 /\ buf' = << >>
  /\ capacity' = 0 /\ expected' = 0 /\ received' = 0

\* bytes is what the buffer holds now, and len what it was allocated and declared for.
Received(bytes, len) ==
  /\ held' = TRUE /\ size' = len /\ buf' = bytes
  /\ capacity' = len /\ expected' = len /\ received' = Len(bytes)
  /\ pc' = IF Len(bytes) < len THEN "idle" ELSE "complete"

\* A fragment for offset 0, with a length the code accepts.  When malloc
\* fails, the old buffer is gone already and the statics stay as they were.
Begin(a, n, len) ==
  /\ pc = "idle"
  /\ n <= Len(Data[a]) /\ len \in 1..MaxArray
  /\ confirmed' = {[first |-> Piece(a, 0, n), len |-> len]}   \* fidoVerifyFingerprint
  /\ \/ /\ held' = FALSE /\ size' = 0 /\ buf' = << >>
        /\ pc' = "idle"
        /\ UNCHANGED <<capacity, expected, received>>
     \/ /\ n <= len
        /\ Received(Piece(a, 0, n), len)
     \/ /\ n > len
        /\ Release /\ pc' = "idle"
  /\ UNCHANGED <<file, damaged, readVars, stable, cuts>>

\* A fragment for a later offset; one that does not fit ends the write.
NextPastEnd(a, off, n) ==                   \* mutant: the end of the buffer is not looked at
  /\ pc = "idle"
  /\ off > 0 /\ off + n <= Len(Data[a])
  /\ IF held /\ off = received
     THEN Received(buf \o Piece(a, off, n), capacity)
     ELSE Release /\ pc' = "idle"
  /\ UNCHANGED <<file, confirmed, damaged, readVars, stable, cuts>>
NextFragment(a, off, n) ==
  /\ pc = "idle"
  /\ off > 0 /\ off + n <= Len(Data[a])
  /\ IF held /\ off = received /\ off + n <= capacity
     THEN Received(buf \o Piece(a, off, n), capacity)
     ELSE Release /\ pc' = "idle"
  /\ UNCHANGED <<file, confirmed, damaged, readVars, stable, cuts>>

LengthOnly == expected >= MinArray          \* mutant: the hash is not compared
integrityOk == expected >= MinArray /\ \E a \in Good : buf = Data[a]

\* The array is complete: refused for its hash, or because the file does not
\* open; or the file is opened for writing, which empties it.
Check ==
  /\ pc = "complete"
  /\ \/ /\ Release /\ pc' = "idle"
        /\ UNCHANGED <<file, damaged, stable>>
     \/ /\ integrityOk
        /\ file' = << >> /\ damaged' = TRUE /\ stable' = FALSE
        /\ pc' = "writing"
        /\ UNCHANGED bufVars
  /\ UNCHANGED <<confirmed, readVars, cuts>>

\* file.write, whole or short, and the buffer is freed either way.
Write ==
  /\ pc = "writing"
  /\ \E k \in 0..Len(buf) :
       /\ file' = SubSeq(buf, 1, k)
       /\ damaged' = (k # Len(buf))
  /\ Release /\ pc' = "idle"
  /\ UNCHANGED <<confirmed, readVars, stable, cuts>>

-----------------------------------------------------------------------------
(* Reading: each request is answered with what the file holds then.        *)

\* What Get serves: the stored array, or the constant empty one, also when
\* the file cannot be opened or read into memory (ok = FALSE).
Served(ok) == IF file = << >> \/ ~ok THEN EmptyArray ELSE file

FragmentShort(off, n, ok) ==                \* mutant: the last byte is never sent
  LET stored == Served(ok) IN
    SubSeq(stored, off + 1, IF off + n < Len(stored) THEN off + n ELSE Len(stored) - 1)
Fragment(off, n, ok) ==
  LET stored == Served(ok) IN
    SubSeq(stored, off + 1, IF off + n < Len(stored) THEN off + n ELSE Len(stored))

\* The platform asks for what follows the bytes it has, and stops at a
\* fragment shorter than it asked for.
Get(n, ok) ==
  /\ pc = "idle" /\ ~done
  /\ LET frag == Fragment(Len(got), n, ok) IN
       /\ got' = got \o frag
       /\ done' = (Len(frag) # n)
  /\ stable' = (stable /\ ok)
  /\ UNCHANGED <<bufVars, pc, file, confirmed, damaged, cuts>>

ReadAgain ==
  /\ done
  /\ got' = << >> /\ done' = FALSE /\ stable' = TRUE
  /\ UNCHANGED <<bufVars, pc, file, confirmed, damaged, cuts>>

-----------------------------------------------------------------------------
(* Resets and power cuts.                                                  *)

\* authenticatorReset, once a finger has confirmed it.
ResetKeepsBuffer ==                         \* mutant: the array being received is forgotten
  /\ pc = "idle"
  /\ file' = << >> /\ confirmed' = {} /\ damaged' = FALSE /\ stable' = FALSE
  /\ UNCHANGED <<bufVars, pc, readVars, cuts>>
Reset ==
  /\ pc = "idle"
  /\ file' = << >> /\ confirmed' = {} /\ damaged' = FALSE /\ stable' = FALSE
  /\ Release
  /\ UNCHANGED <<pc, readVars, cuts>>

\* factoryResetSystem on the CLI task, between two uses of the file: it
\* knows nothing of the buffer.
FactoryReset ==
  /\ pc # "writing"
  /\ file' = << >> /\ damaged' = FALSE /\ stable' = FALSE
  /\ UNCHANGED <<bufVars, pc, confirmed, readVars, cuts>>

\* Power is lost; a file being written keeps some of its bytes.
Cut ==
  /\ cuts < MaxCuts
  /\ IF pc = "writing"
     THEN damaged' = TRUE /\ \E k \in 0..Len(buf) : file' = SubSeq(buf, 1, k)
     ELSE UNCHANGED <<file, damaged>>
  /\ Release /\ pc' = "idle"
  /\ cuts' = cuts + 1
  /\ UNCHANGED <<confirmed, readVars, stable>>

Next ==
  \/ \E a \in Arrays, n \in 0..MaxFragment :
       \/ \E len \in 0..(MaxArray + 1) : Begin(a, n, len)
       \/ \E off \in 1..MaxArray : NextFragment(a, off, n)
  \/ Check \/ Write
  \/ \E n \in 1..MaxFragment, ok \in BOOLEAN : Get(n, ok)
  \/ ReadAgain \/ Reset \/ FactoryReset \/ Cut

Spec == Init /\ [][Next]_vars

-----------------------------------------------------------------------------
(* Properties.                                                             *)

FlagType == held \in BOOLEAN /\ damaged \in BOOLEAN /\ done \in BOOLEAN /\ stable \in BOOLEAN

WriteType ==
  /\ size \in 0..MaxArray /\ capacity \in 0..MaxArray /\ expected \in 0..MaxArray
  /\ received \in Nat /\ cuts \in Nat
  /\ pc \in {"idle", "complete", "writing"}
  /\ buf \in Seq(Bytes) /\ file \in Seq(Bytes)
  /\ confirmed \subseteq [first : Seq(Bytes), len : 1..MaxArray]

ReadType == got \in Seq(Bytes)

\* Every static and file has its type; no buffer is larger than the largest
\* array the device announces.
TypeOK == FlagType /\ WriteType /\ ReadType

\* memcpy into largeBlobWriteBuffer stays inside what malloc returned,
\* whatever offsets and lengths come, after an allocation failure too.
InBounds == held => Len(buf) <= size

\* The file is a beginning of one array with a right hash, and all of it
\* unless power or flash ran out while it was written: fragments of two
\* platforms in one buffer, repeated or left out, never reach the file unless
\* together they are the bytes of such an array.
StoredOneArray ==
  \/ file = << >>
  \/ \E a \in Good :
       /\ Len(file) <= Len(Data[a]) /\ file = Piece(a, 0, Len(file))
       /\ ~damaged => file = Data[a]

Agree(s, t) == \A i \in DOMAIN s \cap DOMAIN t : s[i] = t[i]

\* What is written to the file begins as the first fragment a finger confirmed
\* last, after the last Reset, and has the length declared with it.  No more
\* is confirmed: later fragments ask for no finger and nothing ties the buffer
\* to a channel, so that another platform may go on with another array of the
\* same beginning.
StoredWasConfirmed ==
  [][file' # file /\ file' # << >> =>
       \E c \in confirmed :
         /\ c.first # << >> /\ Agree(c.first, file')
         /\ Len(file') <= c.len /\ (~damaged' => Len(file') = c.len)]_vars

\* A platform that read to a short fragment, with no write and no failed
\* file access in between, has exactly the stored array, when its length is
\* a multiple of the fragment size too.
ReadIsServed == done /\ stable => got = Served(TRUE)
=============================================================================
