----------------------------- MODULE BioEnroll -----------------------------
(***************************************************************************)
(* Fingerprint enrolment: authenticatorBioEnrollment of the FIDO task      *)
(* (src/FIDO2Manager.cpp), the template records in /bio_templates.json     *)
(* (src/StorageManager.cpp), and the CLI task's ENROLL_FINGER and its      *)
(* finger check (src/FingerprintManager.cpp).  The two tasks share one     *)
(* sensor, and take fingerprintMutex for one sensor call at a time.        *)
(*                                                                         *)
(* The sensor is external: an image register, two character buffers, and   *)
(* its flash of models.  A capture is known by the finger it shows; a      *)
(* model by its finger and by whether the enrolment that stored it was     *)
(* shown that finger every time.  Requests refused for want of a PIN or of *)
(* a parameter change nothing and are left out, and so are names.          *)
(***************************************************************************)
EXTENDS Naturals, Sequences, FiniteSetsExt

CONSTANTS
  Fingers,
  MaxTemplates,       \* slots 1..MaxTemplates; 126 in the code
  Required,           \* bioEnrollSamplesRequired: 2, one for each character buffer
  Failing,            \* what the flash may fail at: "read" the list, "open" it for writing,
                      \* "write" all of it, "remove" it
  MaxCommands,        \* bound: FIDO commands
  MaxCliCommands,     \* bound: CLI commands
  MaxCrashes          \* bound: power cuts

NoFinger == "no finger"

ASSUME BioAssumption ==
  /\ NoFinger \notin Fingers
  /\ MaxTemplates \in Nat \ {0} /\ Required = 2
  /\ Failing \subseteq {"read", "open", "write", "remove"}
  /\ MaxCommands \in Nat /\ MaxCliCommands \in Nat /\ MaxCrashes \in Nat

NoModel  == [finger |-> NoFinger, sampled |-> TRUE]
Slots    == 1..MaxTemplates

VARIABLES
  records, torn,                          \* the keys of /bio_templates.json, or those its parser
                                          \* comes to in one that was cut short
  model,                                  \* the sensor's flash
  image, buffer,                          \* the sensor's image and character buffers
  active, templateId, remaining,          \* bioEnrollActive, ...TemplateId, ...SamplesRemaining
  fido, sampleIndex, target,              \* the FIDO task: place, sampleIndex, targetId
  cli,                                    \* the CLI task: place
  samples, shared,                        \* history: what each enrolment was shown, and whether
                                          \* anything else used the sensor meanwhile
  mixed,                                  \* history: what else happened to records or sensor
  commands, cliCommands, crashes

listVars   == <<records, torn>>
sensorVars == <<image, buffer>>
enrolVars  == <<active, templateId, remaining>>
fidoVars   == <<fido, sampleIndex, target>>
bounds     == <<commands, cliCommands, crashes>>
vars == <<listVars, model, sensorVars, enrolVars, fidoVars, cli, samples, shared, mixed, bounds>>

Empty == [s \in Slots |-> NoModel]

Init ==
  /\ records = {} /\ torn = FALSE /\ model = Empty
  /\ image = NoFinger /\ buffer = [i \in 1..2 |-> NoFinger]
  /\ active = FALSE /\ templateId = 0 /\ remaining = 0
  /\ fido = "idle" /\ sampleIndex = 1 /\ target = 1
  /\ cli = "loop"
  /\ samples = [t \in {"fido", "cli"} |-> <<>>] /\ shared = [t \in {"fido", "cli"} |-> FALSE]
  /\ mixed = {} /\ commands = 0 /\ cliCommands = 0 /\ crashes = 0

\* The sensor is used by task t: an enrolment of the other task is no longer alone.
Uses(t) == shared' = [u \in {"fido", "cli"} |-> shared[u] \/ u # t]

Mixed(what) == mixed' = mixed \cup {what}

-----------------------------------------------------------------------------
(* /bio_templates.json.                                                    *)

\* getAllBioTemplateIds: no ids when the file does not parse, and what it may
\* return, since a file that does not open or that memory does not hold gives none.
Ids  == IF torn THEN {} ELSE records
Read == {Ids} \cup {none \in {{}} : "read" \in Failing}

\* What a function that rewrites the file has of it: a failed open, or a parse
\* that ends early, is not looked at.
Parsed == IF "read" \in Failing THEN SUBSET records ELSE {records}

\* The file, opened for writing and so emptied, is given list, of which a full
\* flash takes any part; the result is not looked at.  old is what had been read.
WriteList(old, list) ==
  \/ /\ records' = list /\ torn' = FALSE
     /\ mixed' = IF old = records THEN mixed ELSE mixed \cup {"list lost"}
  \/ /\ "write" \in Failing
     /\ records' \in SUBSET list /\ torn' = TRUE
     /\ Mixed("list lost")

\* saveBioTemplateName.
SaveRecord(id) ==
  \/ \E old \in Parsed : WriteList(old, old \cup {id})
  \/ /\ "open" \in Failing
     /\ UNCHANGED listVars
     /\ mixed' = IF id \in records THEN mixed ELSE mixed \cup {"name lost"}

\* A factory reset, or authenticatorReset, removes the file.
RemoveList(otherwise) ==
  \/ records' = {} /\ torn' = FALSE /\ UNCHANGED mixed
  \/ "remove" \in Failing /\ UNCHANGED listVars /\ Mixed(otherwise)

-----------------------------------------------------------------------------
(* The FIDO task's commands.                                               *)

Command(place) ==
  /\ fido = "idle"
  /\ commands < MaxCommands
  /\ commands' = commands + 1
  /\ fido' = place

\* findFreeBioTemplateSlot: the lowest number that is not among the ids, or 0.
FreeSlot(ids) == IF Slots \subseteq ids THEN 0 ELSE Min(Slots \ ids)

EnrollBegin(ids) ==
  /\ Command("image")
  /\ FreeSlot(ids) # 0
  /\ active' = TRUE /\ templateId' = FreeSlot(ids) /\ remaining' = Required
  /\ mixed' = IF ids = Ids THEN mixed ELSE mixed \cup {"unread"}
  /\ sampleIndex' = 1
  /\ samples' = [samples EXCEPT !["fido"] = <<>>]
  /\ shared' = [shared EXCEPT !["fido"] = cli # "loop"]
  /\ UNCHANGED <<listVars, model, sensorVars, target, cli, cliCommands, crashes>>

CaptureNext(id) ==
  /\ Command("image")
  /\ active /\ id = templateId
  /\ sampleIndex' = Required - remaining + 1
  /\ UNCHANGED <<listVars, model, sensorVars, enrolVars, target, cli, samples, shared, mixed, cliCommands, crashes>>

CancelEnroll ==
  /\ Command("idle")
  /\ active' = FALSE
  /\ UNCHANGED <<listVars, model, sensorVars, templateId, remaining, sampleIndex, target, cli,
                 samples, shared, mixed, cliCommands, crashes>>

\* enumerateEnrollments, and every other command that verifies a finger: the whole of
\* fidoVerifyFingerprint is one mutex section, and image2Tz() writes buffer 1.  Without
\* ids a touch is enough.
VerifyFinger(f, ids) ==
  /\ Command("idle")
  /\ image' = f
  /\ buffer' = IF ids = {} THEN buffer ELSE [buffer EXCEPT ![1] = f]
  /\ shared' = [t \in {"fido", "cli"} |-> TRUE]
  /\ UNCHANGED <<listVars, model, enrolVars, sampleIndex, target, cli, samples, mixed, cliCommands, crashes>>

\* setFriendlyName and removeEnrollment look the record up, then act.
Exists(id) == id \in Ids

Lookup(id) ==
  /\ Exists(id)
  /\ target' = id
  /\ UNCHANGED <<listVars, model, sensorVars, enrolVars, sampleIndex, cli, samples, shared, mixed,
                 cliCommands, crashes>>

SetFriendlyName(id)  == Command("rename") /\ Lookup(id)
RemoveEnrollment(id) == Command("remove") /\ Lookup(id)

\* authenticatorReset removes the records and then empties the sensor.
Reset ==
  /\ Command("empty")
  /\ RemoveList("record kept")
  /\ UNCHANGED <<model, sensorVars, enrolVars, sampleIndex, target, cli, samples, shared, cliCommands, crashes>>

-----------------------------------------------------------------------------
(* captureBioSample, and what the two sub-commands do with its status.     *)

FidoAt(place, next) == fido = place /\ fido' = next /\ UNCHANGED <<sampleIndex, target>>

FidoImage(f) ==
  /\ FidoAt("image", "tz")
  /\ image' = f
  /\ samples' = [samples EXCEPT !["fido"] = Append(@, f)]
  /\ Uses("fido")
  /\ UNCHANGED <<listVars, model, buffer, enrolVars, cli, mixed, bounds>>

\* Any status but 0, and CANCEL, end the enrolment.
EndEnrolment(place) ==
  /\ FidoAt(place, "idle")
  /\ active' = FALSE
  /\ UNCHANGED <<listVars, model, sensorVars, templateId, remaining, cli, samples, shared, mixed, bounds>>

\* 15 s without a finger (0x09), CANCEL (0x2D), or an image error (0x07).
NoTimeout == EndEnrolment("image") /\ image # NoFinger    \* mutant: waits for a finger for ever
CaptureTimeout == EndEnrolment("image")

TzOne ==                                    \* mutant: every sample goes to buffer 1
  /\ FidoAt("tz", IF remaining > 1 THEN "lift" ELSE "create")
  /\ buffer' = [buffer EXCEPT ![1] = image]
  /\ remaining' = IF remaining > 0 THEN remaining - 1 ELSE 0
  /\ Uses("fido")
  /\ UNCHANGED <<listVars, model, image, active, templateId, cli, samples, mixed, bounds>>
FidoTz ==
  /\ FidoAt("tz", IF remaining > 1 THEN "lift" ELSE "create")
  /\ buffer' = [buffer EXCEPT ![sampleIndex] = image]
  /\ remaining' = IF remaining > 0 THEN remaining - 1 ELSE 0
  /\ Uses("fido")
  /\ UNCHANGED <<listVars, model, image, active, templateId, cli, samples, mixed, bounds>>

FidoTzFails == EndEnrolment("tz")

\* Until the finger is lifted, or for 3 s; either way the sample counts.
Lift ==
  /\ FidoAt("lift", "idle")
  /\ image' \in Fingers \cup {image}
  /\ Uses("fido")
  /\ UNCHANGED <<listVars, model, buffer, enrolVars, cli, samples, mixed, bounds>>

\* The sensor makes a model of two buffers that show the same finger.
BuffersMatch == buffer[1] = buffer[2] /\ buffer[1] # NoFinger

CreateModel ==
  /\ BuffersMatch
  /\ FidoAt("create", "store")
  /\ Uses("fido")
  /\ UNCHANGED <<listVars, model, sensorVars, enrolVars, cli, samples, mixed, bounds>>

CreateModelFails == ~BuffersMatch /\ EndEnrolment("create")

\* storeModel takes what is in buffer 1.
Stored(t) == [finger |-> buffer[1], sampled |-> shared[t] \/ samples[t] = <<buffer[1], buffer[1]>>]

StoreAtOne ==                               \* mutant: ENROLL_FINGER's default slot
  /\ FidoAt("store", "name")
  /\ model' = [model EXCEPT ![1] = Stored("fido")]
  /\ Uses("fido")
  /\ UNCHANGED <<listVars, sensorVars, enrolVars, cli, samples, mixed, bounds>>
StoreModel ==
  /\ FidoAt("store", "name")
  /\ model' = [model EXCEPT ![templateId] = Stored("fido")]
  /\ Uses("fido")
  /\ UNCHANGED <<listVars, sensorVars, enrolVars, cli, samples, mixed, bounds>>

StoreModelFails == EndEnrolment("store")

\* The result of saveBioTemplateName is not looked at.
SaveName ==
  /\ FidoAt("name", "idle")
  /\ active' = FALSE
  /\ SaveRecord(templateId)
  /\ UNCHANGED <<model, sensorVars, templateId, remaining, cli, samples, shared, bounds>>

Rename ==
  /\ FidoAt("rename", "idle")
  /\ SaveRecord(target)
  /\ UNCHANGED <<model, sensorVars, enrolVars, cli, samples, shared, bounds>>

\* The result of deleteModel is not looked at either.
DeleteModel ==
  /\ FidoAt("remove", "removeRecord")
  /\ \/ model' = [model EXCEPT ![target] = NoModel] /\ UNCHANGED mixed
     \/ model' = model /\ Mixed("model kept")
  /\ Uses("fido")
  /\ UNCHANGED <<listVars, sensorVars, enrolVars, cli, samples, bounds>>

\* deleteBioTemplateRecord, whose result is not looked at, stops when the file
\* does not open or the record is not in what was read.
DeleteRecord ==
  /\ FidoAt("removeRecord", "idle")
  /\ active' = (active /\ templateId # target)
  /\ \/ target \notin records /\ UNCHANGED <<listVars, mixed>>
     \/ /\ target \in records /\ Failing \cap {"read", "open"} # {}
        /\ UNCHANGED listVars /\ Mixed("record kept")
     \/ \E old \in Parsed : target \in old /\ WriteList(old, old \ {target})
  /\ UNCHANGED <<model, sensorVars, templateId, remaining, cli, samples, shared, bounds>>

ResetEmpties ==
  /\ FidoAt("empty", "idle")
  /\ model' = Empty
  /\ Uses("fido")
  /\ UNCHANGED <<listVars, sensorVars, enrolVars, cli, samples, mixed, bounds>>

-----------------------------------------------------------------------------
(* The CLI task: enrollFingerprint, updateFingerprintAsync, FACTORY_RESET. *)

ImagePlace == <<"image1", "image2">>
TzPlace    == <<"tz1", "tz2">>

CliCommand(place) ==
  /\ cli = "loop"
  /\ cliCommands < MaxCliCommands
  /\ cliCommands' = cliCommands + 1
  /\ cli' = place

CliAt(place, next) == cli = place /\ cli' = next

\* The sensor is emptied; the records stay.
CliEnroll ==
  /\ CliCommand("image1")
  /\ model' = Empty
  /\ samples' = [samples EXCEPT !["cli"] = <<>>]
  /\ shared' = [t \in {"fido", "cli"} |-> t = "fido" \/ fido # "idle"]
  /\ Mixed("enroll")
  /\ UNCHANGED <<listVars, sensorVars, enrolVars, fidoVars, commands, crashes>>

\* There is no limit to this wait.
CliImage(f, n) ==
  /\ CliAt(ImagePlace[n], TzPlace[n])
  /\ image' = f
  /\ samples' = [samples EXCEPT !["cli"] = Append(@, f)]
  /\ Uses("cli")
  /\ UNCHANGED <<listVars, model, buffer, enrolVars, fidoVars, mixed, bounds>>

CliTz(n) ==
  /\ CliAt(TzPlace[n], IF n = 1 THEN "lift" ELSE "create")
  /\ buffer' = [buffer EXCEPT ![n] = image]
  /\ Uses("cli")
  /\ UNCHANGED <<listVars, model, image, enrolVars, fidoVars, samples, mixed, bounds>>

CliLift ==
  /\ CliAt("lift", "image2")
  /\ image' \in Fingers \cup {image}
  /\ Uses("cli")
  /\ UNCHANGED <<listVars, model, buffer, enrolVars, fidoVars, samples, mixed, bounds>>

CliCreate ==
  /\ CliAt("create", IF BuffersMatch THEN "store" ELSE "loop")
  /\ Uses("cli")
  /\ UNCHANGED <<listVars, model, sensorVars, enrolVars, fidoVars, samples, mixed, bounds>>

CliStore(id) ==
  /\ CliAt("store", "loop")
  /\ model' = [model EXCEPT ![id] = Stored("cli")]
  /\ Uses("cli")
  /\ UNCHANGED <<listVars, sensorVars, enrolVars, fidoVars, samples, mixed, bounds>>

\* A sensor call fails: enrollFingerprint returns false.
CliFails ==
  /\ cli \in {"tz1", "tz2", "store"}
  /\ cli' = "loop"
  /\ UNCHANGED <<listVars, model, sensorVars, enrolVars, fidoVars, samples, shared, mixed, bounds>>

\* A finger for a pending password: one section for the image, one for image2Tz().
AsyncImage(f) ==
  /\ CliCommand("asyncTz")
  /\ image' = f
  /\ Uses("cli")
  /\ UNCHANGED <<listVars, model, buffer, enrolVars, fidoVars, samples, mixed, commands, crashes>>

AsyncTz ==
  /\ CliAt("asyncTz", "loop")
  /\ buffer' = [buffer EXCEPT ![1] = image]
  /\ Uses("cli")
  /\ UNCHANGED <<listVars, model, image, enrolVars, fidoVars, samples, mixed, bounds>>

CliReset ==
  /\ CliCommand("empty")
  /\ \/ records' = {} /\ torn' = FALSE
     \/ "remove" \in Failing /\ UNCHANGED listVars
  /\ Mixed("factory")
  /\ UNCHANGED <<model, sensorVars, enrolVars, fidoVars, samples, shared, commands, crashes>>

CliEmpties ==
  /\ CliAt("empty", "loop")
  /\ model' = Empty
  /\ Uses("cli")
  /\ UNCHANGED <<listVars, sensorVars, enrolVars, fidoVars, samples, mixed, bounds>>

\* What is being written to the file, which a power cut leaves in part.
Rewritten ==
  IF fido = "removeRecord" THEN records \ {target}
  ELSE records \cup {IF fido = "name" THEN templateId ELSE target}

\* Records and models stay, but for a file that is being rewritten; both tasks
\* start again.
Crash ==
  /\ crashes < MaxCrashes
  /\ crashes' = crashes + 1
  /\ image' = NoFinger /\ buffer' = [i \in 1..2 |-> NoFinger]
  /\ active' = FALSE /\ templateId' = 0 /\ remaining' = 0
  /\ fido' = "idle" /\ sampleIndex' = 1 /\ target' = 1 /\ cli' = "loop"
  /\ mixed' = IF fido = "idle" /\ cli = "loop" THEN mixed ELSE mixed \cup {"crash"}
  /\ \/ UNCHANGED listVars
     \/ /\ fido \in {"name", "rename", "removeRecord"}
        /\ records' \in SUBSET Rewritten /\ torn' = TRUE
  /\ UNCHANGED <<model, samples, shared, commands, cliCommands>>

FidoCommands ==
  \/ CancelEnroll \/ Reset \/ \E ids \in Read : EnrollBegin(ids)
  \/ \E id \in Slots : CaptureNext(id) \/ SetFriendlyName(id) \/ RemoveEnrollment(id)
  \/ \E f \in Fingers, ids \in Read : VerifyFinger(f, ids)

\* Steps that need nobody at the sensor.
FidoSteps ==
  \/ CaptureTimeout \/ FidoTz \/ FidoTzFails \/ Lift \/ CreateModel \/ CreateModelFails
  \/ StoreModel \/ StoreModelFails \/ SaveName \/ Rename \/ DeleteModel \/ DeleteRecord \/ ResetEmpties

CliSteps ==
  \/ CliEnroll \/ CliLift \/ CliCreate \/ CliFails \/ AsyncTz \/ CliReset \/ CliEmpties
  \/ \E n \in 1..2 : CliTz(n) \/ \E f \in Fingers : CliImage(f, n)
  \/ \E id \in Slots : CliStore(id)
  \/ \E f \in Fingers : AsyncImage(f)

Next == FidoCommands \/ FidoSteps \/ (\E f \in Fingers : FidoImage(f)) \/ CliSteps \/ Crash

Spec == Init /\ [][Next]_vars

\* The FIDO task is scheduled, and each of its waits has a limit.
FairSpec == Spec /\ WF_vars(FidoSteps)

-----------------------------------------------------------------------------
(* Properties.                                                             *)

Listed(s) == model[s] # NoModel

\* Every variable keeps its type; above all, image2Tz is only ever asked for one
\* of the sensor's two buffers, whatever ends an enrolment early.
TypeOK ==
  /\ records \subseteq Slots /\ torn \in BOOLEAN
  /\ sampleIndex \in 1..Required /\ remaining \in 0..Required
  /\ model \in [Slots -> [finger : Fingers \cup {NoFinger}, sampled : BOOLEAN]]
  /\ active \in BOOLEAN /\ templateId \in 0..MaxTemplates /\ target \in Slots
  /\ image \in Fingers \cup {NoFinger} /\ buffer \in [1..2 -> Fingers \cup {NoFinger}]

\* A model stored by an enrolment that had the sensor to itself is of a finger
\* that was shown to it for every sample: nothing left in the buffers by an
\* enrolment that failed or was cancelled becomes part of it.
StoredWasSampled == \A s \in Slots : model[s].sampled

\* Between FIDO commands every template that is listed has a model that can match,
\* unless the CLI emptied the sensor, the record of a removed model could not be
\* removed, or the power failed during a command.  A list that was cut short
\* names nothing, and what comes back of it can match.
ListedCanMatch ==
  fido = "idle" /\ mixed \cap {"enroll", "factory", "crash", "record kept"} = {} =>
    \A s \in Ids : Listed(s)

\* Between FIDO commands every model that can match is listed, so that it can be
\* removed and a touch alone no longer verifies, unless the CLI enrolled it or
\* emptied the list, the name could not be saved, the sensor kept a model, the
\* list lost records when it was rewritten, or the power failed.
MatchIsListed ==
  fido = "idle" /\ mixed \cap {"enroll", "factory", "crash", "name lost", "model kept", "list lost"} = {} =>
    \A s \in Slots : Listed(s) => s \in Ids

\* The sensor and /bio_templates.json agree between commands, and every model is of one finger,
\* up to what the code does not guard against: the CLI's ENROLL_FINGER and FACTORY_RESET, a read,
\* a write or a removal that fails, and a power cut.
SensorAgrees == TypeOK /\ StoredWasSampled /\ ListedCanMatch /\ MatchIsListed

\* No step replaces the model of a listed template by another one, unless
\* ENROLL_FINGER was there, or a list that could not be read let an enrolment
\* take a slot that is taken: a list that was lost or cut short does not.
NoOverwrite ==
  [][ \A s \in Ids :
        mixed \cap {"enroll", "unread"} # {} \/ ~Listed(s) \/ model'[s] \in {model[s], NoModel} ]_vars

\* Every enrolment command ends, also when nobody touches the sensor and while
\* ENROLL_FINGER waits for a finger on the other core.
CommandEnds == (fido # "idle") ~> (fido = "idle")
=============================================================================
