-------------------------- MODULE BioEnrollProofs --------------------------
(***************************************************************************)
(* Proofs about BioEnroll, for any fingers and number of slots, any        *)
(* commands of both tasks in any order, and any number of power cuts.      *)
(*                                                                         *)
(* SensorAgrees speaks of the moments between commands.  Its invariant     *)
(* says what is missing during one (Agree), what both character buffers    *)
(* hold at each place of an enrolment that is alone (FidoShown, CliShown), *)
(* and that its slot stays free meanwhile (SlotFree).                      *)
(***************************************************************************)
EXTENDS BioEnroll, SequenceTheorems, WellFoundedInduction, TLAPS

Enrolling    == {"image", "tz", "lift", "create", "store", "name"}
Between      == {"idle", "rename", "remove", "removeRecord", "empty"}
CliEnrolling == {"image1", "tz1", "lift", "image2", "tz2", "create", "store"}

Removing     == {"rename", "remove", "removeRecord"}

Places ==
  /\ fido \in Enrolling \cup Between
  /\ cli \in CliEnrolling \cup {"loop", "asyncTz", "empty"}

Models == [finger : Fingers \cup {NoFinger}, sampled : {TRUE}]

\* TypeOK but for its flag; and every model was sampled.
Types ==
  /\ records \subseteq Slots /\ sampleIndex \in 1..2 /\ remaining \in 0..2
  /\ model \in [Slots -> Models]
  /\ templateId \in 0..MaxTemplates /\ target \in Slots
  /\ image \in Fingers \cup {NoFinger} /\ buffer \in [1..2 -> Fingers \cup {NoFinger}]

\* The flags, and what the enrolments were shown.
Flags ==
  /\ active \in BOOLEAN /\ torn \in BOOLEAN
  /\ shared \in [{"fido", "cli"} -> BOOLEAN]
Shown ==
  samples \in [{"fido", "cli"} -> Seq(Fingers)]

\* After a capture the image is of a finger, and so is what a model is made of.
ImageShown ==
  /\ fido = "tz" \/ cli \in {"tz1", "tz2", "asyncTz"} => image \in Fingers
  /\ fido = "store" \/ cli = "store" => buffer[1] \in Fingers

\* The samples that remain, and the buffer the next one goes to.
Counted ==
  /\ fido \in Enrolling => active
  /\ fido \in {"image", "tz"} => remaining \in {1, 2} /\ sampleIndex = 3 - remaining
  /\ fido = "lift" \/ (active /\ fido \in Between) => remaining = 1

\* What an enrolment of the FIDO task that has the sensor to itself has been shown.
FidoShown ==
  ~shared["fido"] =>
    /\ fido = "image" /\ remaining = 2 => samples["fido"] = <<>>
    /\ fido = "image" /\ remaining = 1 => samples["fido"] = <<buffer[1]>>
    /\ fido = "tz" /\ remaining = 2 => samples["fido"] = <<image>>
    /\ fido = "tz" /\ remaining = 1 => samples["fido"] = <<buffer[1], image>>
    /\ fido = "lift" \/ (active /\ fido \in Between) => samples["fido"] = <<buffer[1]>>
    /\ fido = "create" => samples["fido"] = <<buffer[1], buffer[2]>>
    /\ fido = "store" => samples["fido"] = <<buffer[1], buffer[1]>>

\* The same for ENROLL_FINGER of the CLI task.
CliShown ==
  ~shared["cli"] =>
    /\ cli = "image1" => samples["cli"] = <<>>
    /\ cli = "tz1" => samples["cli"] = <<image>>
    /\ cli \in {"lift", "image2"} => samples["cli"] = <<buffer[1]>>
    /\ cli = "tz2" => samples["cli"] = <<buffer[1], image>>
    /\ cli = "create" => samples["cli"] = <<buffer[1], buffer[2]>>
    /\ cli = "store" => samples["cli"] = <<buffer[1], buffer[1]>>

\* The slot of an enrolment is not listed until its model is named, unless the list could
\* not be read, and is not that of a record that is changed meanwhile.
SlotFree ==
  /\ active => templateId \in Slots
  /\ "unread" \notin mixed /\ active =>
       /\ templateId \notin Ids
       /\ fido \in Removing => target # templateId

\* What mixed says of the CLI task's place and of a list cut short; and a command on a
\* record finds it, in a file that parses.
Marked ==
  /\ cli \in CliEnrolling => "enroll" \in mixed
  /\ cli = "empty" => "factory" \in mixed
  /\ torn => mixed \cap {"list lost", "crash"} # {}
  /\ fido \in Removing => ~torn
  /\ "factory" \notin mixed /\ fido \in {"rename", "remove"} => target \in records
  /\ "record kept" \notin mixed /\ fido = "empty" => records = {}

\* Records and models during a command: the one that is being stored or removed is excepted.
\* What the parser would come to in a list cut short agrees too, and is listed again later.
ListedAgree ==
  mixed \cap {"enroll", "factory", "crash", "record kept"} = {} =>
    \A s \in records : Listed(s) \/ (fido = "removeRecord" /\ s = target)
MatchAgree ==
  mixed \cap {"enroll", "factory", "crash", "name lost", "model kept", "list lost"} = {} =>
    /\ \A s \in Slots : Listed(s) => s \in records \/ (fido = "name" /\ s = templateId) \/ fido = "empty"
    /\ fido = "removeRecord" => ~Listed(target)
NameAgree ==
  mixed \cap {"enroll", "factory"} = {} /\ fido = "name" => Listed(templateId)

Agree == ListedAgree /\ MatchAgree /\ NameAgree

IInv == Places /\ Types /\ Flags /\ Shown /\ ImageShown /\ Counted /\ FidoShown /\ CliShown
        /\ SlotFree /\ Marked /\ Agree
-----------------------------------------------------------------------------
(* Lemmas about single operators.                                          *)

\* A set of numbers that is not empty has a smallest one, and Min chooses it.
LEMMA MinIs ==
  ASSUME NEW T \in SUBSET Nat, T # {}
  PROVE  Min(T) \in T
<1> DEFINE R == OpToRel(<, Nat)
<1>1. \A x, y \in Nat : x < y => <<x, y>> \in R
    BY DEF OpToRel
<1>2. IsWellFoundedOn(R, Nat)
    BY NatLessThanWellFounded
<1> HIDE DEF R
<1>3. PICK x \in T : \A y \in T : ~(<<y, x>> \in R)
    BY <1>2, WFMin
<1>4. \A y \in T : ~(y < x)
    BY <1>1, <1>3
<1>5. \A y \in T : x <= y
    BY <1>4
<1> QED BY <1>5 DEF Min

\* findFreeBioTemplateSlot: a slot that is not among the ids, or 0.
LEMMA FreeSlotIsFree ==
  ASSUME NEW ids, FreeSlot(ids) # 0
  PROVE  FreeSlot(ids) \in Slots \ ids
<1>1. Slots \ ids # {} /\ Slots \ ids \in SUBSET Nat
    BY DEF FreeSlot, Slots
<1> QED BY <1>1, MinIs DEF FreeSlot

\* What rewriting the list does to it.
LEMMA WriteListIs ==
  ASSUME NEW old, NEW list, WriteList(old, list)
  PROVE  /\ records' \subseteq list /\ torn' \in BOOLEAN
         /\ mixed \subseteq mixed' /\ mixed' \subseteq mixed \cup {"list lost"}
         /\ torn' => "list lost" \in mixed'
         /\ "list lost" \notin mixed' => records' = list /\ old = records
<1>1. CASE records' = list /\ torn' = FALSE
           /\ mixed' = IF old = records THEN mixed ELSE mixed \cup {"list lost"}
    BY <1>1
<1>2. CASE records' \in SUBSET list /\ torn' = TRUE /\ Mixed("list lost")
    BY <1>2 DEF Mixed
<1> QED BY <1>1, <1>2 DEF WriteList

\* What saveBioTemplateName does to it.
LEMMA SaveRecordIs ==
  ASSUME Flags, NEW id, SaveRecord(id)
  PROVE  /\ records' \subseteq records \cup {id} /\ torn' \in BOOLEAN
         /\ mixed \subseteq mixed' /\ mixed' \subseteq mixed \cup {"list lost", "name lost"}
         /\ torn' => torn \/ "list lost" \in mixed'
         /\ mixed' \cap {"list lost", "name lost"} = {} => records' = records \cup {id}
<1>1. CASE \E old \in Parsed : WriteList(old, old \cup {id})
    <2>1. PICK old \in Parsed : WriteList(old, old \cup {id})
        BY <1>1
    <2>2. old \subseteq records
        BY DEF Parsed
    <2>3. /\ records' \subseteq old \cup {id} /\ torn' \in BOOLEAN
          /\ mixed \subseteq mixed' /\ mixed' \subseteq mixed \cup {"list lost"}
          /\ torn' => "list lost" \in mixed'
          /\ "list lost" \notin mixed' => records' = old \cup {id} /\ old = records
        BY <2>1, WriteListIs, Zenon
    <2> QED BY <2>2, <2>3
<1>2. CASE UNCHANGED listVars /\ mixed' = IF id \in records THEN mixed ELSE mixed \cup {"name lost"}
    BY <1>2 DEF listVars, Flags
<1> QED BY <1>1, <1>2 DEF SaveRecord

\* What deleteBioTemplateRecord does to it.
LEMMA DeleteRecordIs ==
  ASSUME Flags, DeleteRecord
  PROVE  /\ records' \subseteq records /\ torn' \in BOOLEAN
         /\ mixed \subseteq mixed' /\ mixed' \subseteq mixed \cup {"list lost", "record kept"}
         /\ torn' => torn \/ "list lost" \in mixed'
         /\ "record kept" \notin mixed' => target \notin records'
         /\ "list lost" \notin mixed' => records \ {target} \subseteq records'
<1>1. CASE target \notin records /\ UNCHANGED <<listVars, mixed>>
    BY <1>1 DEF listVars, Flags
<1>2. CASE UNCHANGED listVars /\ Mixed("record kept")
    BY <1>2 DEF listVars, Flags, Mixed
<1>3. CASE \E old \in Parsed : target \in old /\ WriteList(old, old \ {target})
    <2>1. PICK old \in Parsed : WriteList(old, old \ {target})
        BY <1>3
    <2>2. old \subseteq records
        BY DEF Parsed
    <2>3. /\ records' \subseteq old \ {target} /\ torn' \in BOOLEAN
          /\ mixed \subseteq mixed' /\ mixed' \subseteq mixed \cup {"list lost"}
          /\ torn' => "list lost" \in mixed'
          /\ "list lost" \notin mixed' => records' = old \ {target} /\ old = records
        BY <2>1, WriteListIs, Zenon
    <2> QED BY <2>2, <2>3
<1> QED BY <1>1, <1>2, <1>3 DEF DeleteRecord

\* What authenticatorReset does to it.
LEMMA ResetIs ==
  ASSUME Reset
  PROVE  /\ \/ records' = {} /\ torn' = FALSE /\ mixed' = mixed
            \/ records' = records /\ torn' = torn /\ mixed' = mixed \cup {"record kept"}
         /\ fido = "idle" /\ fido' = "empty" /\ cli' = cli /\ model' = model /\ shared' = shared
         /\ samples' = samples /\ sampleIndex' = sampleIndex /\ target' = target
         /\ UNCHANGED <<sensorVars, enrolVars>>
BY Zenon DEF Reset, RemoveList, Command, listVars, Mixed

\* What a factory reset does to it.
LEMMA CliResetIs ==
  ASSUME CliReset
  PROVE  /\ \/ records' = {} /\ torn' = FALSE
            \/ records' = records /\ torn' = torn
         /\ mixed' = mixed \cup {"factory"} /\ cli = "loop" /\ cli' = "empty" /\ model' = model
         /\ shared' = shared /\ samples' = samples
         /\ UNCHANGED <<sensorVars, enrolVars, fidoVars>>
BY Zenon DEF CliReset, CliCommand, listVars, Mixed

\* What a power cut does to it.
LEMMA CrashIs ==
  ASSUME Crash
  PROVE  /\ \/ records' = records /\ torn' = torn
            \/ /\ records' \subseteq records \cup {IF fido = "name" THEN templateId ELSE target}
               /\ torn' = TRUE /\ fido \in {"name", "rename", "removeRecord"}
         /\ mixed' = IF fido = "idle" /\ cli = "loop" THEN mixed ELSE mixed \cup {"crash"}
         /\ image' = NoFinger /\ buffer' = [i \in 1..2 |-> NoFinger]
         /\ active' = FALSE /\ templateId' = 0 /\ remaining' = 0
         /\ fido' = "idle" /\ sampleIndex' = 1 /\ target' = 1 /\ cli' = "loop"
         /\ UNCHANGED <<model, samples, shared>>
<1>1. CASE UNCHANGED listVars
    BY <1>1, Zenon DEF Crash, listVars
<1>2. CASE fido \in {"name", "rename", "removeRecord"} /\ records' \in SUBSET Rewritten /\ torn' = TRUE
    <2>1. records' \subseteq records \cup {IF fido = "name" THEN templateId ELSE target}
        BY <1>2 DEF Rewritten
    <2> QED BY <1>2, <2>1, Zenon DEF Crash
<1> QED BY <1>1, <1>2, Zenon DEF Crash

\* The sensor's buffers.
LEMMA OneOrTwo == \A n \in 1..2 : n = 1 \/ n = 2
OBVIOUS

\* A call to the sensor leaves the caller's own flag and sets the other task's.
LEMMA UsesIs ==
  ASSUME Flags
  PROVE  /\ Uses("fido") => shared'["cli"] /\ (shared'["fido"] <=> shared["fido"])
                            /\ shared' \in [{"fido", "cli"} -> BOOLEAN]
         /\ Uses("cli") => shared'["fido"] /\ (shared'["cli"] <=> shared["cli"])
                            /\ shared' \in [{"fido", "cli"} -> BOOLEAN]
<1>1. ASSUME NEW t \in {"fido", "cli"}, Uses(t)
      PROVE  /\ shared' \in [{"fido", "cli"} -> BOOLEAN]
             /\ \A u \in {"fido", "cli"} : shared'[u] <=> shared[u] \/ u # t
    BY <1>1 DEF Uses, Flags
<1>2. "fido" \in {"fido", "cli"} /\ "cli" \in {"fido", "cli"} /\ "fido" # "cli"
    OBVIOUS
<1> QED BY <1>1, <1>2, Zenon

\* What storeModel() writes, for an enrolment that was shown what the buffers hold.
LEMMA StoredIs ==
  ASSUME NEW t \in {"fido", "cli"}, buffer[1] \in Fingers,
         shared[t] \/ samples[t] = <<buffer[1], buffer[1]>>
  PROVE  Stored(t) \in Models /\ Stored(t) # NoModel
<1>1. Stored(t) = [finger |-> buffer[1], sampled |-> TRUE]
    BY Zenon DEF Stored
<1>2. buffer[1] # NoFinger
    BY BioAssumption
<1> QED BY <1>1, <1>2 DEF Models, NoModel

\* The first and the second sample.
LEMMA Appended ==
  ASSUME NEW f, NEW b
  PROVE  Append(<<>>, f) = <<f>> /\ Append(<<b>>, f) = <<b, f>>
<1> DEFINE s == Append(<<b>>, f)
<1>1. <<b>> \in Seq({f, b}) /\ f \in {f, b} /\ Len(<<b>>) = 1 /\ <<b>>[1] = b
    OBVIOUS
<1>2. s \in Seq({f, b}) /\ Len(s) = 2 /\ s[1] = b /\ s[2] = f
    BY <1>1, AppendProperties
<1>3. /\ <<b, f>> \in Seq({f, b}) /\ Len(<<b, f>>) = 2
      /\ <<b, f>>[1] = b /\ <<b, f>>[2] = f
    OBVIOUS
<1> HIDE DEF s
<1>4. s = <<b, f>>
    BY <1>2, <1>3, SeqEqual
<1>5. Append(<<>>, f) = <<f>>
    OBVIOUS
<1> QED BY <1>4, <1>5 DEF s

-----------------------------------------------------------------------------
(* The invariant, part by part.                                            *)

\* Every step keeps the types; image2Tz is asked for buffer 1 or 2, and every model that is stored
\* was sampled.
LEMMA TypesKept == IInv /\ [Next]_vars => (Places /\ Types)'
<1> SUFFICES ASSUME IInv, [Next]_vars PROVE (Places /\ Types)'
    OBVIOUS
<1> USE DEF IInv, Places, Types, Enrolling, Between, CliEnrolling, Slots, listVars, sensorVars, enrolVars, fidoVars
<1>1. ASSUME NEW ids \in Read, EnrollBegin(ids) PROVE (Places /\ Types)'
    BY <1>1, FreeSlotIsFree, BioAssumption DEF EnrollBegin, Command
<1>2. CASE CancelEnroll
    BY <1>2 DEF CancelEnroll, Command
<1>3. CASE Reset
    BY <1>3, ResetIs
<1>4. ASSUME NEW id \in Slots, CaptureNext(id) PROVE (Places /\ Types)'
    BY <1>4, BioAssumption DEF CaptureNext, Command, Counted
<1>5. ASSUME NEW id \in Slots, SetFriendlyName(id) PROVE (Places /\ Types)'
    BY <1>5 DEF SetFriendlyName, Lookup, Exists, Command
<1>6. ASSUME NEW id \in Slots, RemoveEnrollment(id) PROVE (Places /\ Types)'
    BY <1>6 DEF RemoveEnrollment, Lookup, Exists, Command
<1>7. ASSUME NEW f \in Fingers, NEW ids \in Read, VerifyFinger(f, ids) PROVE (Places /\ Types)'
    BY <1>7 DEF VerifyFinger, Command
<1>8. CASE CaptureTimeout
    BY <1>8 DEF CaptureTimeout, EndEnrolment, FidoAt
<1>9. CASE FidoTz
    BY <1>9 DEF FidoTz, FidoAt, Counted
<1>10. CASE FidoTzFails
    BY <1>10 DEF FidoTzFails, EndEnrolment, FidoAt
<1>11. CASE Lift
    BY <1>11 DEF Lift, FidoAt
<1>12. CASE CreateModel
    BY <1>12 DEF CreateModel, FidoAt
<1>13. CASE CreateModelFails
    BY <1>13 DEF CreateModelFails, EndEnrolment, FidoAt
<1>14. CASE StoreModel
    <2>1. Stored("fido") \in Models
        BY <1>14, StoredIs DEF StoreModel, FidoAt, ImageShown, FidoShown
    <2> QED BY <1>14, <2>1 DEF StoreModel, FidoAt, ImageShown, SlotFree
<1>15. CASE StoreModelFails
    BY <1>15 DEF StoreModelFails, EndEnrolment, FidoAt
<1>16. CASE SaveName
    <2>1. records' \subseteq records \cup {templateId}
        BY <1>16, SaveRecordIs DEF SaveName
    <2> QED BY <1>16, <2>1 DEF SaveName, FidoAt, SlotFree, Counted
<1>17. CASE Rename
    <2>1. records' \subseteq records \cup {target}
        BY <1>17, SaveRecordIs DEF Rename
    <2> QED BY <1>17, <2>1 DEF Rename, FidoAt
<1>18. CASE DeleteModel
    <2>1. NoModel \in Models
        BY DEF NoModel, Models
    <2>2. model' = model \/ model' = [model EXCEPT ![target] = NoModel]
        BY <1>18 DEF DeleteModel
    <2>3. model' \in [Slots -> Models]
        BY <2>1, <2>2
    <2> QED BY <1>18, <2>3 DEF DeleteModel, FidoAt
<1>19. CASE DeleteRecord
    <2>1. records' \subseteq records
        BY <1>19, DeleteRecordIs
    <2> QED BY <1>19, <2>1 DEF DeleteRecord, FidoAt
<1>20. CASE ResetEmpties
    BY <1>20 DEF ResetEmpties, FidoAt, Empty, Models, NoModel
<1>21. ASSUME NEW f \in Fingers, FidoImage(f) PROVE (Places /\ Types)'
    BY <1>21 DEF FidoImage, FidoAt
<1>22. CASE CliEnroll
    BY <1>22 DEF CliEnroll, CliCommand, Empty, Models, NoModel
<1>23. CASE CliLift
    BY <1>23 DEF CliLift, CliAt
<1>24. CASE CliCreate
    BY <1>24 DEF CliCreate, CliAt
<1>25. CASE CliFails
    BY <1>25 DEF CliFails
<1>26. CASE AsyncTz
    BY <1>26 DEF AsyncTz, CliAt
<1>27. CASE CliReset
    BY <1>27, CliResetIs
<1>28. CASE CliEmpties
    BY <1>28 DEF CliEmpties, CliAt, Empty, Models, NoModel
<1>29. ASSUME NEW n \in 1..2, CliTz(n) PROVE (Places /\ Types)'
    BY <1>29 DEF CliTz, CliAt, TzPlace
<1>30. ASSUME NEW n \in 1..2, NEW f \in Fingers, CliImage(f, n) PROVE (Places /\ Types)'
    BY <1>30 DEF CliImage, CliAt, ImagePlace, TzPlace
<1>31. ASSUME NEW id \in Slots, CliStore(id) PROVE (Places /\ Types)'
    <2>1. Stored("cli") \in Models
        BY <1>31, StoredIs DEF CliStore, CliAt, ImageShown, CliShown
    <2> QED BY <1>31, <2>1 DEF CliStore, CliAt
<1>32. ASSUME NEW f \in Fingers, AsyncImage(f) PROVE (Places /\ Types)'
    BY <1>32 DEF AsyncImage, CliCommand
<1>33. CASE Crash
    <2>1. records' \subseteq Slots
        BY <1>33, CrashIs DEF SlotFree, Counted
    <2> QED BY <1>33, <2>1, CrashIs, BioAssumption
<1>34. CASE UNCHANGED vars
    BY <1>34 DEF vars
<1> QED BY <1>1, <1>2, <1>3, <1>4, <1>5, <1>6, <1>7, <1>8, <1>9, <1>10, <1>11, <1>12, <1>13,
        <1>14, <1>15, <1>16, <1>17, <1>18, <1>19, <1>20, <1>21, <1>22, <1>23, <1>24, <1>25,
        <1>26, <1>27, <1>28, <1>29, <1>30, <1>31, <1>32, <1>33, <1>34
    DEF Next, FidoCommands, FidoSteps, CliSteps

\* The flags, and what the enrolments were shown.
LEMMA FlagsKept == Flags /\ [Next]_vars => Flags'
<1> SUFFICES ASSUME Flags, [Next]_vars PROVE Flags'
    OBVIOUS
<1> USE DEF Flags, listVars, enrolVars
<1>1. ASSUME NEW ids \in Read, EnrollBegin(ids) PROVE Flags'
    BY <1>1 DEF EnrollBegin, Command
<1>2. CASE CancelEnroll
    BY <1>2 DEF CancelEnroll, Command
<1>3. CASE Reset
    BY <1>3, ResetIs, Zenon
<1>4. ASSUME NEW id \in Slots, CaptureNext(id) PROVE Flags'
    BY <1>4 DEF CaptureNext, Command
<1>5. ASSUME NEW id \in Slots, SetFriendlyName(id) PROVE Flags'
    BY <1>5 DEF SetFriendlyName, Lookup, Exists, Command
<1>6. ASSUME NEW id \in Slots, RemoveEnrollment(id) PROVE Flags'
    BY <1>6 DEF RemoveEnrollment, Lookup, Exists, Command
<1>7. ASSUME NEW f \in Fingers, NEW ids \in Read, VerifyFinger(f, ids) PROVE Flags'
    BY <1>7 DEF VerifyFinger, Command
<1>8. CASE CaptureTimeout
    BY <1>8 DEF CaptureTimeout, EndEnrolment, FidoAt
<1>9. CASE FidoTz
    BY <1>9, UsesIs DEF FidoTz, FidoAt
<1>10. CASE FidoTzFails
    BY <1>10 DEF FidoTzFails, EndEnrolment, FidoAt
<1>11. CASE Lift
    BY <1>11, UsesIs DEF Lift, FidoAt
<1>12. CASE CreateModel
    BY <1>12, UsesIs DEF CreateModel, FidoAt
<1>13. CASE CreateModelFails
    BY <1>13 DEF CreateModelFails, EndEnrolment, FidoAt
<1>14. CASE StoreModel
    BY <1>14, UsesIs DEF StoreModel, FidoAt
<1>15. CASE StoreModelFails
    BY <1>15 DEF StoreModelFails, EndEnrolment, FidoAt
<1>16. CASE SaveName
    <2>1. torn' \in BOOLEAN
        BY <1>16, SaveRecordIs, Zenon DEF SaveName
    <2> QED BY <1>16, <2>1, Zenon DEF SaveName
<1>17. CASE Rename
    <2>1. torn' \in BOOLEAN
        BY <1>17, SaveRecordIs, Zenon DEF Rename
    <2> QED BY <1>17, <2>1, Zenon DEF Rename
<1>18. CASE DeleteModel
    BY <1>18, UsesIs DEF DeleteModel, FidoAt
<1>19. CASE DeleteRecord
    <2>1. torn' \in BOOLEAN
        BY <1>19, DeleteRecordIs, Zenon
    <2>2. active' \in BOOLEAN
        BY <1>19, Zenon DEF DeleteRecord
    <2> QED BY <1>19, <2>1, <2>2, Zenon DEF DeleteRecord
<1>20. CASE ResetEmpties
    BY <1>20, UsesIs DEF ResetEmpties, FidoAt
<1>21. ASSUME NEW f \in Fingers, FidoImage(f) PROVE Flags'
    BY <1>21, UsesIs DEF FidoImage, FidoAt
<1>22. CASE CliEnroll
    BY <1>22 DEF CliEnroll, CliCommand
<1>23. CASE CliLift
    BY <1>23, UsesIs DEF CliLift, CliAt
<1>24. CASE CliCreate
    BY <1>24, UsesIs DEF CliCreate, CliAt
<1>25. CASE CliFails
    BY <1>25 DEF CliFails
<1>26. CASE AsyncTz
    BY <1>26, UsesIs DEF AsyncTz, CliAt
<1>27. CASE CliReset
    BY <1>27, CliResetIs, Zenon
<1>28. CASE CliEmpties
    BY <1>28, UsesIs DEF CliEmpties, CliAt
<1>29. ASSUME NEW n \in 1..2, CliTz(n) PROVE Flags'
    BY <1>29, UsesIs DEF CliTz, CliAt, TzPlace
<1>30. ASSUME NEW n \in 1..2, NEW f \in Fingers, CliImage(f, n) PROVE Flags'
    BY <1>30, UsesIs DEF CliImage, CliAt, ImagePlace, TzPlace
<1>31. ASSUME NEW id \in Slots, CliStore(id) PROVE Flags'
    BY <1>31, UsesIs DEF CliStore, CliAt
<1>32. ASSUME NEW f \in Fingers, AsyncImage(f) PROVE Flags'
    BY <1>32, UsesIs DEF AsyncImage, CliCommand
<1>33. CASE Crash
    BY <1>33, CrashIs, Zenon
<1>34. CASE UNCHANGED vars
    BY <1>34 DEF vars
<1> QED BY <1>1, <1>2, <1>3, <1>4, <1>5, <1>6, <1>7, <1>8, <1>9, <1>10, <1>11, <1>12, <1>13,
        <1>14, <1>15, <1>16, <1>17, <1>18, <1>19, <1>20, <1>21, <1>22, <1>23, <1>24, <1>25,
        <1>26, <1>27, <1>28, <1>29, <1>30, <1>31, <1>32, <1>33, <1>34
    DEF Next, FidoCommands, FidoSteps, CliSteps

\* A buffer is filled from an image of a finger, and a model is made of such a buffer.
LEMMA ImageKept == Types /\ Counted /\ ImageShown /\ [Next]_vars => ImageShown'
<1> SUFFICES ASSUME Types /\ Counted /\ ImageShown, [Next]_vars PROVE ImageShown'
    OBVIOUS
<1> USE DEF ImageShown, Types, listVars, sensorVars, fidoVars
<1>1. ASSUME NEW ids \in Read, EnrollBegin(ids) PROVE ImageShown'
    BY <1>1 DEF EnrollBegin, Command
<1>2. CASE CancelEnroll
    BY <1>2 DEF CancelEnroll, Command
<1>3. CASE Reset
    BY <1>3 DEF Reset, Command
<1>4. ASSUME NEW id \in Slots, CaptureNext(id) PROVE ImageShown'
    BY <1>4 DEF CaptureNext, Command
<1>5. ASSUME NEW id \in Slots, SetFriendlyName(id) PROVE ImageShown'
    BY <1>5 DEF SetFriendlyName, Lookup, Exists, Command
<1>6. ASSUME NEW id \in Slots, RemoveEnrollment(id) PROVE ImageShown'
    BY <1>6 DEF RemoveEnrollment, Lookup, Exists, Command
<1>7. ASSUME NEW f \in Fingers, NEW ids \in Read, VerifyFinger(f, ids) PROVE ImageShown'
    BY <1>7 DEF VerifyFinger, Command
<1>8. CASE CaptureTimeout
    BY <1>8 DEF CaptureTimeout, EndEnrolment, FidoAt
<1>9. CASE FidoTz
    BY <1>9 DEF FidoTz, FidoAt, Counted
<1>10. CASE FidoTzFails
    BY <1>10 DEF FidoTzFails, EndEnrolment, FidoAt
<1>11. CASE Lift
    BY <1>11 DEF Lift, FidoAt
<1>12. CASE CreateModel
    BY <1>12 DEF CreateModel, FidoAt, BuffersMatch
<1>13. CASE CreateModelFails
    BY <1>13 DEF CreateModelFails, EndEnrolment, FidoAt
<1>14. CASE StoreModel
    BY <1>14 DEF StoreModel, FidoAt
<1>15. CASE StoreModelFails
    BY <1>15 DEF StoreModelFails, EndEnrolment, FidoAt
<1>16. CASE SaveName
    BY <1>16 DEF SaveName, FidoAt
<1>17. CASE Rename
    BY <1>17 DEF Rename, FidoAt
<1>18. CASE DeleteModel
    BY <1>18 DEF DeleteModel, FidoAt
<1>19. CASE DeleteRecord
    BY <1>19 DEF DeleteRecord, FidoAt
<1>20. CASE ResetEmpties
    BY <1>20 DEF ResetEmpties, FidoAt
<1>21. ASSUME NEW f \in Fingers, FidoImage(f) PROVE ImageShown'
    BY <1>21 DEF FidoImage, FidoAt
<1>22. CASE CliEnroll
    BY <1>22 DEF CliEnroll, CliCommand
<1>23. CASE CliLift
    BY <1>23 DEF CliLift, CliAt
<1>24. CASE CliCreate
    BY <1>24 DEF CliCreate, CliAt, BuffersMatch
<1>25. CASE CliFails
    BY <1>25 DEF CliFails
<1>26. CASE AsyncTz
    BY <1>26 DEF AsyncTz, CliAt
<1>27. CASE CliReset
    BY <1>27 DEF CliReset, CliCommand
<1>28. CASE CliEmpties
    BY <1>28 DEF CliEmpties, CliAt
<1>29. ASSUME NEW n \in 1..2, CliTz(n) PROVE ImageShown'
    BY <1>29 DEF CliTz, CliAt, TzPlace
<1>30. ASSUME NEW n \in 1..2, NEW f \in Fingers, CliImage(f, n) PROVE ImageShown'
    BY <1>30 DEF CliImage, CliAt, ImagePlace, TzPlace
<1>31. ASSUME NEW id \in Slots, CliStore(id) PROVE ImageShown'
    BY <1>31 DEF CliStore, CliAt
<1>32. ASSUME NEW f \in Fingers, AsyncImage(f) PROVE ImageShown'
    BY <1>32 DEF AsyncImage, CliCommand
<1>33. CASE Crash
    BY <1>33 DEF Crash
<1>34. CASE UNCHANGED vars
    BY <1>34 DEF vars
<1> QED BY <1>1, <1>2, <1>3, <1>4, <1>5, <1>6, <1>7, <1>8, <1>9, <1>10, <1>11, <1>12, <1>13,
        <1>14, <1>15, <1>16, <1>17, <1>18, <1>19, <1>20, <1>21, <1>22, <1>23, <1>24, <1>25,
        <1>26, <1>27, <1>28, <1>29, <1>30, <1>31, <1>32, <1>33, <1>34
    DEF Next, FidoCommands, FidoSteps, CliSteps

\* Two samples are counted, and the flag of an enrolment is down when it is over.
LEMMA CountedKept == Types /\ Flags /\ Counted /\ [Next]_vars => Counted'
<1> SUFFICES ASSUME Types /\ Flags /\ Counted, [Next]_vars PROVE Counted'
    OBVIOUS
<1> USE DEF Counted, Types, Enrolling, Between, enrolVars, fidoVars
<1>1. ASSUME NEW ids \in Read, EnrollBegin(ids) PROVE Counted'
    BY <1>1, BioAssumption DEF EnrollBegin, Command
<1>2. CASE CancelEnroll
    BY <1>2 DEF CancelEnroll, Command
<1>3. CASE Reset
    BY <1>3 DEF Reset, Command
<1>4. ASSUME NEW id \in Slots, CaptureNext(id) PROVE Counted'
    BY <1>4, BioAssumption DEF CaptureNext, Command
<1>5. ASSUME NEW id \in Slots, SetFriendlyName(id) PROVE Counted'
    BY <1>5 DEF SetFriendlyName, Lookup, Exists, Command
<1>6. ASSUME NEW id \in Slots, RemoveEnrollment(id) PROVE Counted'
    BY <1>6 DEF RemoveEnrollment, Lookup, Exists, Command
<1>7. ASSUME NEW f \in Fingers, NEW ids \in Read, VerifyFinger(f, ids) PROVE Counted'
    BY <1>7 DEF VerifyFinger, Command
<1>8. CASE CaptureTimeout
    BY <1>8 DEF CaptureTimeout, EndEnrolment, FidoAt
<1>9. CASE FidoTz
    BY <1>9 DEF FidoTz, FidoAt
<1>10. CASE FidoTzFails
    BY <1>10 DEF FidoTzFails, EndEnrolment, FidoAt
<1>11. CASE Lift
    BY <1>11 DEF Lift, FidoAt
<1>12. CASE CreateModel
    BY <1>12 DEF CreateModel, FidoAt
<1>13. CASE CreateModelFails
    BY <1>13 DEF CreateModelFails, EndEnrolment, FidoAt
<1>14. CASE StoreModel
    BY <1>14 DEF StoreModel, FidoAt
<1>15. CASE StoreModelFails
    BY <1>15 DEF StoreModelFails, EndEnrolment, FidoAt
<1>16. CASE SaveName
    BY <1>16 DEF SaveName, FidoAt
<1>17. CASE Rename
    BY <1>17 DEF Rename, FidoAt
<1>18. CASE DeleteModel
    BY <1>18 DEF DeleteModel, FidoAt
<1>19. CASE DeleteRecord
    BY <1>19 DEF DeleteRecord, FidoAt
<1>20. CASE ResetEmpties
    BY <1>20 DEF ResetEmpties, FidoAt
<1>21. ASSUME NEW f \in Fingers, FidoImage(f) PROVE Counted'
    BY <1>21 DEF FidoImage, FidoAt
<1>22. CASE CliEnroll
    BY <1>22 DEF CliEnroll, CliCommand
<1>23. CASE CliLift
    BY <1>23 DEF CliLift, CliAt
<1>24. CASE CliCreate
    BY <1>24 DEF CliCreate, CliAt
<1>25. CASE CliFails
    BY <1>25 DEF CliFails
<1>26. CASE AsyncTz
    BY <1>26 DEF AsyncTz, CliAt
<1>27. CASE CliReset
    BY <1>27 DEF CliReset, CliCommand
<1>28. CASE CliEmpties
    BY <1>28 DEF CliEmpties, CliAt
<1>29. ASSUME NEW n \in 1..2, CliTz(n) PROVE Counted'
    BY <1>29 DEF CliTz, CliAt, TzPlace
<1>30. ASSUME NEW n \in 1..2, NEW f \in Fingers, CliImage(f, n) PROVE Counted'
    BY <1>30 DEF CliImage, CliAt, ImagePlace, TzPlace
<1>31. ASSUME NEW id \in Slots, CliStore(id) PROVE Counted'
    BY <1>31 DEF CliStore, CliAt
<1>32. ASSUME NEW f \in Fingers, AsyncImage(f) PROVE Counted'
    BY <1>32 DEF AsyncImage, CliCommand
<1>33. CASE Crash
    BY <1>33 DEF Crash
<1>34. CASE UNCHANGED vars
    BY <1>34 DEF vars
<1> QED BY <1>1, <1>2, <1>3, <1>4, <1>5, <1>6, <1>7, <1>8, <1>9, <1>10, <1>11, <1>12, <1>13,
        <1>14, <1>15, <1>16, <1>17, <1>18, <1>19, <1>20, <1>21, <1>22, <1>23, <1>24, <1>25,
        <1>26, <1>27, <1>28, <1>29, <1>30, <1>31, <1>32, <1>33, <1>34
    DEF Next, FidoCommands, FidoSteps, CliSteps

\* A sample goes to the buffer that the next one leaves alone.
LEMMA FidoShownKept ==
  Types /\ Flags /\ Shown /\ Counted /\ FidoShown
  /\ [Next]_vars => (Shown /\ FidoShown)'
<1> SUFFICES ASSUME Types /\ Flags /\ Shown /\ Counted /\ FidoShown,
                    [Next]_vars
             PROVE  (Shown /\ FidoShown)'
    OBVIOUS
<1> USE DEF Shown, FidoShown, Counted, Types, Enrolling, Between, listVars, sensorVars, enrolVars, fidoVars
<1>1. ASSUME NEW ids \in Read, EnrollBegin(ids) PROVE (Shown /\ FidoShown)'
    BY <1>1, BioAssumption DEF EnrollBegin, Command
<1>2. CASE CancelEnroll
    BY <1>2 DEF CancelEnroll, Command
<1>3. CASE Reset
    BY <1>3 DEF Reset, Command
<1>4. ASSUME NEW id \in Slots, CaptureNext(id) PROVE (Shown /\ FidoShown)'
    BY <1>4, BioAssumption DEF CaptureNext, Command
<1>5. ASSUME NEW id \in Slots, SetFriendlyName(id) PROVE (Shown /\ FidoShown)'
    BY <1>5 DEF SetFriendlyName, Lookup, Exists, Command
<1>6. ASSUME NEW id \in Slots, RemoveEnrollment(id) PROVE (Shown /\ FidoShown)'
    BY <1>6 DEF RemoveEnrollment, Lookup, Exists, Command
<1>7. ASSUME NEW f \in Fingers, NEW ids \in Read, VerifyFinger(f, ids) PROVE (Shown /\ FidoShown)'
    BY <1>7 DEF VerifyFinger, Command, Flags
<1>8. CASE CaptureTimeout
    BY <1>8 DEF CaptureTimeout, EndEnrolment, FidoAt
<1>9. CASE FidoTz
    BY <1>9, UsesIs DEF FidoTz, FidoAt
<1>10. CASE FidoTzFails
    BY <1>10 DEF FidoTzFails, EndEnrolment, FidoAt
<1>11. CASE Lift
    BY <1>11, UsesIs DEF Lift, FidoAt
<1>12. CASE CreateModel
    BY <1>12, UsesIs DEF CreateModel, FidoAt, BuffersMatch
<1>13. CASE CreateModelFails
    BY <1>13 DEF CreateModelFails, EndEnrolment, FidoAt
<1>14. CASE StoreModel
    BY <1>14, UsesIs DEF StoreModel, FidoAt
<1>15. CASE StoreModelFails
    BY <1>15 DEF StoreModelFails, EndEnrolment, FidoAt
<1>16. CASE SaveName
    BY <1>16 DEF SaveName, FidoAt
<1>17. CASE Rename
    BY <1>17 DEF Rename, FidoAt
<1>18. CASE DeleteModel
    BY <1>18, UsesIs DEF DeleteModel, FidoAt
<1>19. CASE DeleteRecord
    BY <1>19 DEF DeleteRecord, FidoAt
<1>20. CASE ResetEmpties
    BY <1>20, UsesIs DEF ResetEmpties, FidoAt
<1>21. ASSUME NEW f \in Fingers, FidoImage(f) PROVE (Shown /\ FidoShown)'
    <2>1. /\ samples' \in [{"fido", "cli"} -> Seq(Fingers)]
          /\ samples'["fido"] = Append(samples["fido"], f)
        BY <1>21 DEF FidoImage
    <2>2. /\ fido = "image" /\ fido' = "tz" /\ image' = f /\ (shared'["fido"] <=> shared["fido"])
          /\ UNCHANGED <<active, remaining, buffer>>
        BY <1>21, UsesIs DEF FidoImage, FidoAt
    <2>3. Append(<<>>, f) = <<f>> /\ Append(<<buffer[1]>>, f) = <<buffer[1], f>>
        BY Appended
    <2>4. ~shared'["fido"] /\ remaining = 2 => samples'["fido"] = <<image'>>
        BY <2>1, <2>2, <2>3
    <2>5. ~shared'["fido"] /\ remaining = 1 => samples'["fido"] = <<buffer'[1], image'>>
        BY <2>1, <2>2, <2>3
    <2> QED BY <2>1, <2>2, <2>4, <2>5
<1>22. CASE CliEnroll
    BY <1>22 DEF CliEnroll, CliCommand, Flags
<1>23. CASE CliLift
    BY <1>23, UsesIs DEF CliLift, CliAt
<1>24. CASE CliCreate
    BY <1>24, UsesIs DEF CliCreate, CliAt
<1>25. CASE CliFails
    BY <1>25 DEF CliFails
<1>26. CASE AsyncTz
    BY <1>26, UsesIs DEF AsyncTz, CliAt
<1>27. CASE CliReset
    BY <1>27 DEF CliReset, CliCommand
<1>28. CASE CliEmpties
    BY <1>28, UsesIs DEF CliEmpties, CliAt
<1>29. ASSUME NEW n \in 1..2, CliTz(n) PROVE (Shown /\ FidoShown)'
    BY <1>29, UsesIs DEF CliTz, CliAt, TzPlace
<1>30. ASSUME NEW n \in 1..2, NEW f \in Fingers, CliImage(f, n) PROVE (Shown /\ FidoShown)'
    BY <1>30, UsesIs DEF CliImage, CliAt, ImagePlace, TzPlace
<1>31. ASSUME NEW id \in Slots, CliStore(id) PROVE (Shown /\ FidoShown)'
    BY <1>31, UsesIs DEF CliStore, CliAt
<1>32. ASSUME NEW f \in Fingers, AsyncImage(f) PROVE (Shown /\ FidoShown)'
    BY <1>32, UsesIs DEF AsyncImage, CliCommand
<1>33. CASE Crash
    BY <1>33 DEF Crash
<1>34. CASE UNCHANGED vars
    BY <1>34 DEF vars
<1> QED BY <1>1, <1>2, <1>3, <1>4, <1>5, <1>6, <1>7, <1>8, <1>9, <1>10, <1>11, <1>12, <1>13,
        <1>14, <1>15, <1>16, <1>17, <1>18, <1>19, <1>20, <1>21, <1>22, <1>23, <1>24, <1>25,
        <1>26, <1>27, <1>28, <1>29, <1>30, <1>31, <1>32, <1>33, <1>34
    DEF Next, FidoCommands, FidoSteps, CliSteps

\* The same for ENROLL_FINGER.
LEMMA CliShownKept == Types /\ Flags /\ Shown /\ CliShown /\ [Next]_vars => CliShown'
<1> SUFFICES ASSUME Types /\ Flags /\ Shown /\ CliShown, [Next]_vars PROVE CliShown'
    OBVIOUS
<1> USE DEF Shown, CliShown, Types, CliEnrolling, listVars, sensorVars, enrolVars, fidoVars
<1>1. ASSUME NEW ids \in Read, EnrollBegin(ids) PROVE CliShown'
    BY <1>1 DEF EnrollBegin, Command
<1>2. CASE CancelEnroll
    BY <1>2 DEF CancelEnroll, Command
<1>3. CASE Reset
    BY <1>3 DEF Reset, Command
<1>4. ASSUME NEW id \in Slots, CaptureNext(id) PROVE CliShown'
    BY <1>4 DEF CaptureNext, Command
<1>5. ASSUME NEW id \in Slots, SetFriendlyName(id) PROVE CliShown'
    BY <1>5 DEF SetFriendlyName, Lookup, Exists, Command
<1>6. ASSUME NEW id \in Slots, RemoveEnrollment(id) PROVE CliShown'
    BY <1>6 DEF RemoveEnrollment, Lookup, Exists, Command
<1>7. ASSUME NEW f \in Fingers, NEW ids \in Read, VerifyFinger(f, ids) PROVE CliShown'
    BY <1>7 DEF VerifyFinger, Command, Flags
<1>8. CASE CaptureTimeout
    BY <1>8 DEF CaptureTimeout, EndEnrolment, FidoAt
<1>9. CASE FidoTz
    BY <1>9, UsesIs DEF FidoTz, FidoAt
<1>10. CASE FidoTzFails
    BY <1>10 DEF FidoTzFails, EndEnrolment, FidoAt
<1>11. CASE Lift
    BY <1>11, UsesIs DEF Lift, FidoAt
<1>12. CASE CreateModel
    BY <1>12, UsesIs DEF CreateModel, FidoAt
<1>13. CASE CreateModelFails
    BY <1>13 DEF CreateModelFails, EndEnrolment, FidoAt
<1>14. CASE StoreModel
    BY <1>14, UsesIs DEF StoreModel, FidoAt
<1>15. CASE StoreModelFails
    BY <1>15 DEF StoreModelFails, EndEnrolment, FidoAt
<1>16. CASE SaveName
    BY <1>16 DEF SaveName, FidoAt
<1>17. CASE Rename
    BY <1>17 DEF Rename, FidoAt
<1>18. CASE DeleteModel
    BY <1>18, UsesIs DEF DeleteModel, FidoAt
<1>19. CASE DeleteRecord
    BY <1>19 DEF DeleteRecord, FidoAt
<1>20. CASE ResetEmpties
    BY <1>20, UsesIs DEF ResetEmpties, FidoAt
<1>21. ASSUME NEW f \in Fingers, FidoImage(f) PROVE CliShown'
    BY <1>21, UsesIs DEF FidoImage, FidoAt
<1>22. CASE CliEnroll
    BY <1>22 DEF CliEnroll, CliCommand, Flags
<1>23. CASE CliLift
    BY <1>23, UsesIs DEF CliLift, CliAt
<1>24. CASE CliCreate
    BY <1>24, UsesIs DEF CliCreate, CliAt, BuffersMatch
<1>25. CASE CliFails
    BY <1>25 DEF CliFails
<1>26. CASE AsyncTz
    BY <1>26, UsesIs DEF AsyncTz, CliAt
<1>27. CASE CliReset
    BY <1>27 DEF CliReset, CliCommand
<1>28. CASE CliEmpties
    BY <1>28, UsesIs DEF CliEmpties, CliAt
<1>29. ASSUME NEW n \in 1..2, CliTz(n) PROVE CliShown'
    BY <1>29, UsesIs DEF CliTz, CliAt, TzPlace, Flags
<1>30. ASSUME NEW n \in 1..2, NEW f \in Fingers, CliImage(f, n) PROVE CliShown'
    <2>1. samples'["cli"] = Append(samples["cli"], f)
        BY <1>30 DEF CliImage
    <2>2. /\ cli = ImagePlace[n] /\ cli' = TzPlace[n] /\ image' = f /\ buffer' = buffer
          /\ shared'["cli"] <=> shared["cli"]
        BY <1>30, UsesIs DEF CliImage, CliAt
    <2>3. Append(<<>>, f) = <<f>> /\ Append(<<buffer[1]>>, f) = <<buffer[1], f>>
        BY Appended
    <2>4. CASE n = 1
        <3>1. cli = "image1" /\ cli' = "tz1"
            BY <2>2, <2>4 DEF ImagePlace, TzPlace
        <3>2. ~shared'["cli"] => samples'["cli"] = <<image'>>
            BY <2>1, <2>2, <2>3, <3>1
        <3> QED BY <3>1, <3>2
    <2>5. CASE n = 2
        <3>1. cli = "image2" /\ cli' = "tz2"
            BY <2>2, <2>5 DEF ImagePlace, TzPlace
        <3>2. ~shared'["cli"] => samples'["cli"] = <<buffer'[1], image'>>
            BY <2>1, <2>2, <2>3, <3>1
        <3> QED BY <3>1, <3>2
    <2> QED BY <2>4, <2>5
<1>31. ASSUME NEW id \in Slots, CliStore(id) PROVE CliShown'
    BY <1>31, UsesIs DEF CliStore, CliAt
<1>32. ASSUME NEW f \in Fingers, AsyncImage(f) PROVE CliShown'
    BY <1>32, UsesIs DEF AsyncImage, CliCommand
<1>33. CASE Crash
    BY <1>33 DEF Crash
<1>34. CASE UNCHANGED vars
    BY <1>34 DEF vars
<1> QED BY <1>1, <1>2, <1>3, <1>4, <1>5, <1>6, <1>7, <1>8, <1>9, <1>10, <1>11, <1>12, <1>13,
        <1>14, <1>15, <1>16, <1>17, <1>18, <1>19, <1>20, <1>21, <1>22, <1>23, <1>24, <1>25,
        <1>26, <1>27, <1>28, <1>29, <1>30, <1>31, <1>32, <1>33, <1>34
    DEF Next, FidoCommands, FidoSteps, CliSteps

\* The slot of an enrolment stays free until its model is named.
LEMMA SlotKept == Types /\ Flags /\ Counted /\ Marked /\ SlotFree /\ [Next]_vars => SlotFree'
<1> SUFFICES ASSUME Types /\ Flags /\ Counted /\ Marked /\ SlotFree, [Next]_vars PROVE SlotFree'
    OBVIOUS
<1> USE DEF SlotFree, Counted, Types, Slots, Enrolling, Between, CliEnrolling, listVars, sensorVars,
            enrolVars, fidoVars, Removing, Ids
<1>1. ASSUME NEW ids \in Read, EnrollBegin(ids) PROVE SlotFree'
    BY <1>1, FreeSlotIsFree, BioAssumption DEF EnrollBegin, Command
<1>2. CASE CancelEnroll
    BY <1>2 DEF CancelEnroll, Command
<1>3. CASE Reset
    <2>1. Ids' \subseteq Ids /\ mixed \subseteq mixed'
        <3>1. CASE records' = {} /\ mixed' = mixed
            BY <3>1
        <3>2. CASE records' = records /\ torn' = torn /\ mixed' = mixed \cup {"record kept"}
            BY <3>2
        <3> QED BY <1>3, <3>1, <3>2, ResetIs
    <2>2. fido' = "empty" /\ UNCHANGED <<active, templateId>>
        BY <1>3, ResetIs
    <2> HIDE DEF Ids
    <2> QED BY <2>1, <2>2
<1>4. ASSUME NEW id \in Slots, CaptureNext(id) PROVE SlotFree'
    BY <1>4 DEF CaptureNext, Command
<1>5. ASSUME NEW id \in Slots, SetFriendlyName(id) PROVE SlotFree'
    BY <1>5 DEF SetFriendlyName, Lookup, Exists, Command
<1>6. ASSUME NEW id \in Slots, RemoveEnrollment(id) PROVE SlotFree'
    BY <1>6 DEF RemoveEnrollment, Lookup, Exists, Command
<1>7. ASSUME NEW f \in Fingers, NEW ids \in Read, VerifyFinger(f, ids) PROVE SlotFree'
    BY <1>7 DEF VerifyFinger, Command
<1>8. CASE CaptureTimeout
    BY <1>8 DEF CaptureTimeout, EndEnrolment, FidoAt
<1>9. CASE FidoTz
    BY <1>9 DEF FidoTz, FidoAt
<1>10. CASE FidoTzFails
    BY <1>10 DEF FidoTzFails, EndEnrolment, FidoAt
<1>11. CASE Lift
    BY <1>11 DEF Lift, FidoAt
<1>12. CASE CreateModel
    BY <1>12 DEF CreateModel, FidoAt
<1>13. CASE CreateModelFails
    BY <1>13 DEF CreateModelFails, EndEnrolment, FidoAt
<1>14. CASE StoreModel
    BY <1>14 DEF StoreModel, FidoAt
<1>15. CASE StoreModelFails
    BY <1>15 DEF StoreModelFails, EndEnrolment, FidoAt
<1>16. CASE SaveName
    BY <1>16 DEF SaveName, FidoAt
<1>17. CASE Rename
    <2>1. /\ records' \subseteq records \cup {target} /\ mixed \subseteq mixed'
          /\ UNCHANGED <<active, templateId, target>> /\ fido = "rename" /\ fido' = "idle"
        BY <1>17, SaveRecordIs DEF Rename, FidoAt
    <2>2. ~torn
        BY <2>1 DEF Marked
    <2> QED BY <2>1, <2>2
<1>18. CASE DeleteModel
    BY <1>18 DEF DeleteModel, FidoAt, Mixed
<1>19. CASE DeleteRecord
    <2>1. /\ records' \subseteq records /\ mixed \subseteq mixed'
          /\ UNCHANGED <<templateId, target>> /\ fido = "removeRecord" /\ fido' = "idle"
          /\ active' => active
        BY <1>19, DeleteRecordIs DEF DeleteRecord, FidoAt
    <2>2. ~torn
        BY <2>1 DEF Marked
    <2> QED BY <2>1, <2>2
<1>20. CASE ResetEmpties
    BY <1>20 DEF ResetEmpties, FidoAt
<1>21. ASSUME NEW f \in Fingers, FidoImage(f) PROVE SlotFree'
    BY <1>21 DEF FidoImage, FidoAt
<1>22. CASE CliEnroll
    BY <1>22 DEF CliEnroll, CliCommand, Mixed
<1>23. CASE CliLift
    BY <1>23 DEF CliLift, CliAt
<1>24. CASE CliCreate
    BY <1>24 DEF CliCreate, CliAt
<1>25. CASE CliFails
    BY <1>25 DEF CliFails
<1>26. CASE AsyncTz
    BY <1>26 DEF AsyncTz, CliAt
<1>27. CASE CliReset
    <2>1. Ids' \subseteq Ids /\ mixed \subseteq mixed'
        <3>1. CASE records' = {}
            BY <1>27, <3>1, CliResetIs
        <3>2. CASE records' = records /\ torn' = torn
            BY <1>27, <3>2, CliResetIs
        <3> QED BY <1>27, <3>1, <3>2, CliResetIs
    <2>2. UNCHANGED <<active, templateId, fido, target>>
        BY <1>27, CliResetIs
    <2> HIDE DEF Ids
    <2> QED BY <2>1, <2>2
<1>28. CASE CliEmpties
    BY <1>28 DEF CliEmpties, CliAt
<1>29. ASSUME NEW n \in 1..2, CliTz(n) PROVE SlotFree'
    BY <1>29 DEF CliTz, CliAt, TzPlace
<1>30. ASSUME NEW n \in 1..2, NEW f \in Fingers, CliImage(f, n) PROVE SlotFree'
    BY <1>30 DEF CliImage, CliAt, ImagePlace, TzPlace
<1>31. ASSUME NEW id \in Slots, CliStore(id) PROVE SlotFree'
    BY <1>31 DEF CliStore, CliAt
<1>32. ASSUME NEW f \in Fingers, AsyncImage(f) PROVE SlotFree'
    BY <1>32 DEF AsyncImage, CliCommand
<1>33. CASE Crash
    BY <1>33, CrashIs
<1>34. CASE UNCHANGED vars
    BY <1>34 DEF vars
<1> QED BY <1>1, <1>2, <1>3, <1>4, <1>5, <1>6, <1>7, <1>8, <1>9, <1>10, <1>11, <1>12, <1>13,
        <1>14, <1>15, <1>16, <1>17, <1>18, <1>19, <1>20, <1>21, <1>22, <1>23, <1>24, <1>25,
        <1>26, <1>27, <1>28, <1>29, <1>30, <1>31, <1>32, <1>33, <1>34
    DEF Next, FidoCommands, FidoSteps, CliSteps

\* What mixed says, and a list that parses while one of its records is changed.
LEMMA MarkedKept == Places /\ Types /\ Flags /\ Counted /\ Marked /\ [Next]_vars => Marked'
<1> SUFFICES ASSUME Places /\ Types /\ Flags /\ Counted /\ Marked, [Next]_vars PROVE Marked'
    OBVIOUS
<1> USE DEF Marked, Places, Counted, Types, Slots, Enrolling, Between, CliEnrolling, listVars, sensorVars,
            enrolVars, fidoVars, Removing
<1>1. ASSUME NEW ids \in Read, EnrollBegin(ids) PROVE Marked'
    <2>1. mixed \subseteq mixed' /\ fido' = "image" /\ UNCHANGED <<torn, cli>>
        BY <1>1 DEF EnrollBegin, Command
    <2> QED BY <2>1
<1>2. CASE CancelEnroll
    BY <1>2 DEF CancelEnroll, Command
<1>3. CASE Reset
    <2>1. /\ torn' => torn
          /\ "record kept" \notin mixed' => records' = {}
          /\ mixed \subseteq mixed' /\ fido' = "empty" /\ UNCHANGED cli
        <3>1. CASE records' = {} /\ torn' = FALSE /\ mixed' = mixed
            BY <1>3, <3>1, ResetIs, Zenon
        <3>2. CASE records' = records /\ torn' = torn /\ mixed' = mixed \cup {"record kept"}
            BY <1>3, <3>2, ResetIs
        <3> QED BY <1>3, <3>1, <3>2, ResetIs, Zenon
    <2> QED BY <2>1
<1>4. ASSUME NEW id \in Slots, CaptureNext(id) PROVE Marked'
    BY <1>4 DEF CaptureNext, Command
<1>5. ASSUME NEW id \in Slots, SetFriendlyName(id) PROVE Marked'
    BY <1>5 DEF SetFriendlyName, Lookup, Exists, Command, Ids
<1>6. ASSUME NEW id \in Slots, RemoveEnrollment(id) PROVE Marked'
    BY <1>6 DEF RemoveEnrollment, Lookup, Exists, Command, Ids
<1>7. ASSUME NEW f \in Fingers, NEW ids \in Read, VerifyFinger(f, ids) PROVE Marked'
    BY <1>7 DEF VerifyFinger, Command
<1>8. CASE CaptureTimeout
    BY <1>8 DEF CaptureTimeout, EndEnrolment, FidoAt
<1>9. CASE FidoTz
    BY <1>9 DEF FidoTz, FidoAt
<1>10. CASE FidoTzFails
    BY <1>10 DEF FidoTzFails, EndEnrolment, FidoAt
<1>11. CASE Lift
    BY <1>11 DEF Lift, FidoAt
<1>12. CASE CreateModel
    BY <1>12 DEF CreateModel, FidoAt
<1>13. CASE CreateModelFails
    BY <1>13 DEF CreateModelFails, EndEnrolment, FidoAt
<1>14. CASE StoreModel
    BY <1>14 DEF StoreModel, FidoAt
<1>15. CASE StoreModelFails
    BY <1>15 DEF StoreModelFails, EndEnrolment, FidoAt
<1>16. CASE SaveName
    <2>1. /\ mixed \subseteq mixed' /\ fido' = "idle" /\ UNCHANGED cli
          /\ torn' => torn \/ "list lost" \in mixed'
        BY <1>16, SaveRecordIs DEF SaveName, FidoAt
    <2> QED BY <2>1
<1>17. CASE Rename
    <2>1. /\ records' \subseteq records \cup {target} /\ mixed \subseteq mixed'
          /\ UNCHANGED <<active, templateId, target>> /\ fido = "rename" /\ fido' = "idle"
        BY <1>17, SaveRecordIs DEF Rename, FidoAt
    <2>2. torn' => torn \/ "list lost" \in mixed'
        BY <1>17, SaveRecordIs DEF Rename
    <2>3. UNCHANGED cli
        BY <1>17 DEF Rename
    <2> QED BY <2>1, <2>2, <2>3
<1>18. CASE DeleteModel
    BY <1>18 DEF DeleteModel, FidoAt, Mixed
<1>19. CASE DeleteRecord
    <2>1. /\ records' \subseteq records /\ mixed \subseteq mixed'
          /\ UNCHANGED <<templateId, target>> /\ fido = "removeRecord" /\ fido' = "idle"
          /\ active' => active
        BY <1>19, DeleteRecordIs DEF DeleteRecord, FidoAt
    <2>2. torn' => torn \/ "list lost" \in mixed'
        BY <1>19, DeleteRecordIs
    <2>3. UNCHANGED cli
        BY <1>19 DEF DeleteRecord
    <2> QED BY <2>1, <2>2, <2>3
<1>20. CASE ResetEmpties
    BY <1>20 DEF ResetEmpties, FidoAt
<1>21. ASSUME NEW f \in Fingers, FidoImage(f) PROVE Marked'
    BY <1>21 DEF FidoImage, FidoAt
<1>22. CASE CliEnroll
    BY <1>22 DEF CliEnroll, CliCommand, Mixed
<1>23. CASE CliLift
    BY <1>23 DEF CliLift, CliAt
<1>24. CASE CliCreate
    BY <1>24 DEF CliCreate, CliAt
<1>25. CASE CliFails
    BY <1>25 DEF CliFails
<1>26. CASE AsyncTz
    BY <1>26 DEF AsyncTz, CliAt
<1>27. CASE CliReset
    <2>1. /\ torn' => torn
          /\ records = {} => records' = {}
          /\ mixed' = mixed \cup {"factory"} /\ cli' = "empty" /\ UNCHANGED fido
        <3>1. CASE records' = {} /\ torn' = FALSE
            BY <1>27, <3>1, CliResetIs
        <3>2. CASE records' = records /\ torn' = torn
            BY <1>27, <3>2, CliResetIs
        <3> QED BY <1>27, <3>1, <3>2, CliResetIs, Zenon
    <2> QED BY <2>1
<1>28. CASE CliEmpties
    BY <1>28 DEF CliEmpties, CliAt
<1>29. ASSUME NEW n \in 1..2, CliTz(n) PROVE Marked'
    <2>1. /\ cli \in CliEnrolling /\ cli' \in CliEnrolling /\ cli' # "empty"
          /\ UNCHANGED <<listVars, fidoVars, mixed>>
        <3>1. CASE n = 1
            BY <1>29, <3>1 DEF CliTz, CliAt, TzPlace
        <3>2. CASE n = 2
            BY <1>29, <3>2 DEF CliTz, CliAt, TzPlace
        <3>3. n = 1 \/ n = 2
            BY OneOrTwo
        <3> QED BY <3>1, <3>2, <3>3, Zenon
    <2> QED BY <2>1
<1>30. ASSUME NEW n \in 1..2, NEW f \in Fingers, CliImage(f, n) PROVE Marked'
    <2>1. /\ cli \in CliEnrolling /\ cli' \in CliEnrolling /\ cli' # "empty"
          /\ UNCHANGED <<listVars, fidoVars, mixed>>
        <3>1. CASE n = 1
            BY <1>30, <3>1 DEF CliImage, CliAt, ImagePlace, TzPlace
        <3>2. CASE n = 2
            BY <1>30, <3>2 DEF CliImage, CliAt, ImagePlace, TzPlace
        <3>3. n = 1 \/ n = 2
            BY OneOrTwo
        <3> QED BY <3>1, <3>2, <3>3, Zenon
    <2> QED BY <2>1
<1>31. ASSUME NEW id \in Slots, CliStore(id) PROVE Marked'
    BY <1>31 DEF CliStore, CliAt
<1>32. ASSUME NEW f \in Fingers, AsyncImage(f) PROVE Marked'
    BY <1>32 DEF AsyncImage, CliCommand
<1>33. CASE Crash
    <2>1. /\ torn' => torn \/ "crash" \in mixed'
          /\ mixed \subseteq mixed' /\ fido' = "idle" /\ cli' = "loop"
        <3>1. mixed \subseteq mixed' /\ (fido # "idle" => "crash" \in mixed')
            BY <1>33, CrashIs
        <3>2. fido' = "idle" /\ cli' = "loop"
            BY <1>33, CrashIs
        <3>3. torn' => torn \/ fido # "idle"
            BY <1>33, CrashIs
        <3> QED BY <3>1, <3>2, <3>3
    <2> QED BY <2>1
<1>34. CASE UNCHANGED vars
    BY <1>34 DEF vars
<1> QED BY <1>1, <1>2, <1>3, <1>4, <1>5, <1>6, <1>7, <1>8, <1>9, <1>10, <1>11, <1>12, <1>13,
        <1>14, <1>15, <1>16, <1>17, <1>18, <1>19, <1>20, <1>21, <1>22, <1>23, <1>24, <1>25,
        <1>26, <1>27, <1>28, <1>29, <1>30, <1>31, <1>32, <1>33, <1>34
    DEF Next, FidoCommands, FidoSteps, CliSteps

\* Between commands the sensor has what is listed and nothing else; during one all but its own
\* slot agrees.
LEMMA AgreeKept == IInv /\ [Next]_vars => Agree'
<1> SUFFICES ASSUME IInv, [Next]_vars PROVE Agree'
    OBVIOUS
<1> USE DEF IInv, Agree, ListedAgree, MatchAgree, NameAgree, Listed, Places, Types, Enrolling,
            Between, CliEnrolling, listVars, sensorVars, enrolVars, fidoVars
<1>1. ASSUME NEW ids \in Read, EnrollBegin(ids) PROVE Agree'
    BY <1>1 DEF EnrollBegin, Command
<1>2. CASE CancelEnroll
    BY <1>2 DEF CancelEnroll, Command
<1>3. CASE Reset
    BY <1>3, ResetIs
<1>4. ASSUME NEW id \in Slots, CaptureNext(id) PROVE Agree'
    BY <1>4 DEF CaptureNext, Command
<1>5. ASSUME NEW id \in Slots, SetFriendlyName(id) PROVE Agree'
    BY <1>5 DEF SetFriendlyName, Lookup, Exists, Command
<1>6. ASSUME NEW id \in Slots, RemoveEnrollment(id) PROVE Agree'
    BY <1>6 DEF RemoveEnrollment, Lookup, Exists, Command
<1>7. ASSUME NEW f \in Fingers, NEW ids \in Read, VerifyFinger(f, ids) PROVE Agree'
    BY <1>7 DEF VerifyFinger, Command
<1>8. CASE CaptureTimeout
    BY <1>8 DEF CaptureTimeout, EndEnrolment, FidoAt
<1>9. CASE FidoTz
    BY <1>9 DEF FidoTz, FidoAt
<1>10. CASE FidoTzFails
    BY <1>10 DEF FidoTzFails, EndEnrolment, FidoAt
<1>11. CASE Lift
    BY <1>11 DEF Lift, FidoAt
<1>12. CASE CreateModel
    BY <1>12 DEF CreateModel, FidoAt
<1>13. CASE CreateModelFails
    BY <1>13 DEF CreateModelFails, EndEnrolment, FidoAt
<1>14. CASE StoreModel
    <2>1. /\ fido = "store" /\ fido' = "name" /\ UNCHANGED <<records, templateId, target, mixed>>
          /\ model' = [model EXCEPT ![templateId] = Stored("fido")] /\ templateId \in Slots
        BY <1>14 DEF StoreModel, FidoAt, SlotFree, Counted
    <2>2. Stored("fido") # NoModel
        BY <2>1, StoredIs DEF ImageShown, FidoShown
    <2>3. /\ model'[templateId] # NoModel
          /\ \A s \in Slots : s # templateId => model'[s] = model[s]
        BY <2>1, <2>2
    <2> QED BY <2>1, <2>3
<1>15. CASE StoreModelFails
    BY <1>15 DEF StoreModelFails, EndEnrolment, FidoAt
<1>16. CASE SaveName
    <2>1. /\ records' \subseteq records \cup {templateId} /\ mixed \subseteq mixed'
          /\ mixed' \cap {"list lost", "name lost"} = {} => records' = records \cup {templateId}
        BY <1>16, SaveRecordIs DEF SaveName
    <2>2. fido = "name" /\ fido' = "idle" /\ UNCHANGED <<model, target, templateId>>
        BY <1>16 DEF SaveName, FidoAt
    <2> QED BY <2>1, <2>2
<1>17. CASE Rename
    <2>1. /\ records' \subseteq records \cup {target} /\ mixed \subseteq mixed'
          /\ mixed' \cap {"list lost", "name lost"} = {} => records' = records \cup {target}
        BY <1>17, SaveRecordIs DEF Rename
    <2>2. fido = "rename" /\ fido' = "idle" /\ UNCHANGED <<model, target, templateId>>
        BY <1>17 DEF Rename, FidoAt
    <2>3. "factory" \notin mixed => target \in records
        BY <2>2 DEF Marked
    <2> QED BY <2>1, <2>2, <2>3
<1>18. CASE DeleteModel
    <2>1. /\ fido = "remove" /\ fido' = "removeRecord" /\ UNCHANGED <<records, templateId, target>>
          /\ \/ model' = [model EXCEPT ![target] = NoModel] /\ mixed' = mixed
             \/ model' = model /\ mixed' = mixed \cup {"model kept"}
        BY <1>18 DEF DeleteModel, FidoAt, Mixed
    <2>2. CASE model' = model /\ mixed' = mixed \cup {"model kept"}
        BY <2>1, <2>2
    <2>3. CASE model' = [model EXCEPT ![target] = NoModel] /\ mixed' = mixed
        <3>1. model'[target] = NoModel /\ \A s \in Slots : s # target => model'[s] = model[s]
            BY <2>3
        <3> QED BY <2>1, <2>3, <3>1
    <2> QED BY <2>1, <2>2, <2>3
<1>19. CASE DeleteRecord
    <2>1. /\ records' \subseteq records /\ mixed \subseteq mixed'
          /\ "record kept" \notin mixed' => target \notin records'
          /\ "list lost" \notin mixed' => records \ {target} \subseteq records'
          /\ fido = "removeRecord" /\ fido' = "idle" /\ model' = model
        BY <1>19, DeleteRecordIs DEF DeleteRecord, FidoAt
    <2>2. ListedAgree' /\ NameAgree'
        BY <2>1
    <2>3. MatchAgree'
        BY <2>1
    <2> QED BY <2>2, <2>3
<1>20. CASE ResetEmpties
    BY <1>20 DEF ResetEmpties, FidoAt, Marked, Empty
<1>21. ASSUME NEW f \in Fingers, FidoImage(f) PROVE Agree'
    BY <1>21 DEF FidoImage, FidoAt
<1>22. CASE CliEnroll
    BY <1>22 DEF CliEnroll, CliCommand, Mixed
<1>23. CASE CliLift
    BY <1>23 DEF CliLift, CliAt
<1>24. CASE CliCreate
    BY <1>24 DEF CliCreate, CliAt
<1>25. CASE CliFails
    BY <1>25 DEF CliFails
<1>26. CASE AsyncTz
    BY <1>26 DEF AsyncTz, CliAt
<1>27. CASE CliReset
    BY <1>27, CliResetIs
<1>28. CASE CliEmpties
    BY <1>28 DEF CliEmpties, CliAt, Marked
<1>29. ASSUME NEW n \in 1..2, CliTz(n) PROVE Agree'
    BY <1>29 DEF CliTz, CliAt, TzPlace
<1>30. ASSUME NEW n \in 1..2, NEW f \in Fingers, CliImage(f, n) PROVE Agree'
    BY <1>30 DEF CliImage, CliAt, ImagePlace, TzPlace
<1>31. ASSUME NEW id \in Slots, CliStore(id) PROVE Agree'
    BY <1>31 DEF CliStore, CliAt, Marked
<1>32. ASSUME NEW f \in Fingers, AsyncImage(f) PROVE Agree'
    BY <1>32 DEF AsyncImage, CliCommand
<1>33. CASE Crash
    BY <1>33, CrashIs
<1>34. CASE UNCHANGED vars
    BY <1>34 DEF vars
<1> QED BY <1>1, <1>2, <1>3, <1>4, <1>5, <1>6, <1>7, <1>8, <1>9, <1>10, <1>11, <1>12, <1>13,
        <1>14, <1>15, <1>16, <1>17, <1>18, <1>19, <1>20, <1>21, <1>22, <1>23, <1>24, <1>25,
        <1>26, <1>27, <1>28, <1>29, <1>30, <1>31, <1>32, <1>33, <1>34
    DEF Next, FidoCommands, FidoSteps, CliSteps

-----------------------------------------------------------------------------
(* The theorems.                                                           *)

\* A sensor out of the factory.
LEMMA Initially == Init => IInv
<1> SUFFICES ASSUME Init PROVE IInv
    OBVIOUS
<1> USE DEF Init
<1>1. Places /\ Types
    BY BioAssumption DEF Places, Types, Models, Empty, NoModel, Slots, Enrolling, Between, CliEnrolling
<1>2. Flags
    <2>1. active \in BOOLEAN
        BY Zenon
    <2>2. shared \in [{"fido", "cli"} -> BOOLEAN] /\ torn \in BOOLEAN
        BY Zenon
    <2> QED BY <2>1, <2>2 DEF Flags
<1>3. Shown
    BY DEF Shown
<1>4. ImageShown /\ Counted /\ SlotFree /\ Marked
    BY DEF ImageShown, Counted, SlotFree, Marked, Enrolling, Between, CliEnrolling, Removing
<1>5. FidoShown /\ CliShown
    BY DEF FidoShown, CliShown, Enrolling, Between, CliEnrolling
<1>6. Agree
    BY DEF Agree, ListedAgree, MatchAgree, NameAgree, Listed, Empty
<1> QED BY <1>1, <1>2, <1>3, <1>4, <1>5, <1>6 DEF IInv

\* The invariant is inductive.
LEMMA Inductive == IInv /\ [Next]_vars => IInv'
<1> SUFFICES ASSUME IInv, [Next]_vars PROVE IInv'
    OBVIOUS
<1>1. (Places /\ Types)'
    BY TypesKept, Zenon DEF IInv
<1>2. Flags' /\ ImageShown' /\ Counted'
    BY FlagsKept, ImageKept, CountedKept, Zenon DEF IInv
<1>3. (Shown /\ FidoShown)' /\ CliShown'
    BY FidoShownKept, CliShownKept, Zenon DEF IInv
<1>4. SlotFree' /\ Marked' /\ Agree'
    BY SlotKept, MarkedKept, AgreeKept, Zenon DEF IInv
<1> QED BY <1>1, <1>2, <1>3, <1>4, Zenon DEF IInv

\* The invariant holds in every reachable state.
LEMMA Invariant == Spec => []IInv
BY Initially, Inductive, PTL DEF Spec

\* authenticatorBioEnrollment, ENROLL_FINGER and the sensor they share: between commands
\* /bio_templates.json lists what can match and nothing else, and no model is made of what
\* another enrolment left in a buffer, for any number of slots and in any order of calls.
THEOREM SensorAgreesAlways == Spec => []SensorAgrees
<1>1. IInv => SensorAgrees
    <2> SUFFICES ASSUME IInv PROVE SensorAgrees
        OBVIOUS
    <2> USE DEF IInv
    <2>1. TypeOK
        <3>1. model \in [Slots -> [finger : Fingers \cup {NoFinger}, sampled : BOOLEAN]]
            <4>1. Models \subseteq [finger : Fingers \cup {NoFinger}, sampled : BOOLEAN]
                BY DEF Models
            <4> QED BY <4>1 DEF Types
        <3> QED BY <3>1, BioAssumption DEF Types, Flags, TypeOK
    <2>2. StoredWasSampled
        BY DEF Types, Models, StoredWasSampled
    <2>3. ListedCanMatch /\ MatchIsListed
        BY DEF Agree, ListedAgree, MatchAgree, Marked, Ids, ListedCanMatch, MatchIsListed
    <2> QED BY <2>1, <2>2, <2>3 DEF SensorAgrees
<1> QED BY Invariant, <1>1, PTL

\* A listed model survives the step, or is removed, but for the exceptions NoOverwrite names.
Kept(s) == mixed \cap {"enroll", "unread"} # {} \/ ~Listed(s) \/ model'[s] \in {model[s], NoModel}

\* A model is stored in a free slot, and every other step that writes models removes them.
LEMMA NoModelReplaced == IInv /\ [Next]_vars => \A s \in Ids : Kept(s)
<1> SUFFICES ASSUME IInv, [Next]_vars PROVE \A s \in Ids : Kept(s)
    OBVIOUS
<1> USE DEF IInv, Types, Kept, Ids
<1>1. CASE StoreModel
    <2>1. "unread" \notin mixed => templateId \in Slots /\ templateId \notin Ids
        BY <1>1 DEF StoreModel, FidoAt, SlotFree, Counted, Enrolling
    <2> QED BY <1>1, <2>1 DEF StoreModel
<1>2. CASE \E id \in Slots : CliStore(id)
    BY <1>2 DEF CliStore, CliAt, Marked, CliEnrolling
<1>3. CASE model' = Empty
    BY <1>3 DEF Empty
<1>4. CASE DeleteModel
    BY <1>4 DEF DeleteModel
<1>5. CASE model' = model
    BY <1>5
<1>6. \/ StoreModel \/ (\E id \in Slots : CliStore(id)) \/ model' = Empty \/ DeleteModel
      \/ model' = model
    BY Zenon DEF Next, FidoCommands, FidoSteps, CliSteps, vars, sensorVars, EnrollBegin,
        CancelEnroll, Reset, CaptureNext, SetFriendlyName, RemoveEnrollment, Lookup,
        VerifyFinger, CaptureTimeout, FidoTz, FidoTzFails,
        EndEnrolment, Lift, CreateModel, CreateModelFails, StoreModelFails, SaveName, Rename,
        DeleteRecord, ResetEmpties, FidoImage, CliEnroll, CliLift, CliCreate, CliFails, AsyncTz,
        CliReset, CliEmpties, CliTz, CliImage, AsyncImage, Crash
<1> QED BY <1>1, <1>2, <1>3, <1>4, <1>5, <1>6

\* StoreModel of the FIDO task never lands on a template that is listed, unless the list could
\* not be read when the enrolment began: the slot was free then, and nothing gives it a record
\* before.  ENROLL_FINGER, which asks nobody for a free slot, is the other exception.
THEOREM NoOverwriteAlways == Spec => NoOverwrite
<1>1. IInv /\ [Next]_vars => [ \A s \in Ids :
        mixed \cap {"enroll", "unread"} # {} \/ ~Listed(s) \/ model'[s] \in {model[s], NoModel} ]_vars
    BY NoModelReplaced DEF Kept
<1> QED BY Invariant, <1>1, PTL DEF Spec, NoOverwrite
=============================================================================
