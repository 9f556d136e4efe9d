------------------------------- MODULE Accel -------------------------------
(***************************************************************************)
(* The FPGA accelerator and its users: the framed link of                  *)
(* src/FpgaAccel.cpp, the offloading helpers of src/CryptoAccel.cpp, which *)
(* hold g_mx from loading a key to using it, and the key and signature     *)
(* functions of src/CryptoManager.cpp, which call the link without g_mx.   *)
(* Two tasks use them.  The far end is hw/accel/rtl: it takes a request    *)
(* only when it neither computes nor has an answer to send, and its answer *)
(* is clocked out by whatever the host sends next.                         *)
(*                                                                         *)
(* An answer is known by the request it answers, its status, its length    *)
(* and the AES key it was computed with.  Each task uses an AES key of its *)
(* own, named after it.  Times are left out: a timeout is a step that may  *)
(* happen while there is nothing to read, the re-probe timer one that may  *)
(* run out.  A message that is garbled and has a right CRC is left out.    *)
(***************************************************************************)
EXTENDS Naturals, Sequences

CONSTANTS
  Tasks,
  Ops,          \* the operations each task performs
  Caps,         \* what the bitstream can do: the bits of g_caps
  MaxFaults     \* bound: garbled frames, late answers, failed mallocs, FPGA resets

AesLen == 64    \* the message of every AES operation: as long as a signature

\* A wrapper: the capability it asks for, the answer's length, the room for it.
Wrapper(cap, want, max) == [cap |-> cap, want |-> want, max |-> max]

InfoCalls ==
  [info |-> Wrapper("any", 12, 12), uid |-> Wrapper("any", 16, 16), random |-> Wrapper("any", 32, 32)]

EccCalls ==
  [p256_genkey |-> Wrapper("asym", 128, 128), p256_public |-> Wrapper("asym", 64, 64),
   p256_sign |-> Wrapper("asym", 64, 64), p256_ecdh |-> Wrapper("asym", 32, 32),
   p256_verify |-> Wrapper("asym", 0, 0), p256_import |-> Wrapper("asym", 64, 64),
   ed25519_genkey |-> Wrapper("asym", 96, 96), ed25519_public |-> Wrapper("asym", 32, 32),
   ed25519_sign |-> Wrapper("asym", 64, 64), ed25519_import |-> Wrapper("asym", 64, 64),
   sha512 |-> Wrapper("asym", 64, 64)]

\* ML-DSA-44; its blob is the secret key and 32 bytes more.
MldsaCalls ==
  [mldsa_genkey |-> Wrapper("pq", 2560 + 32 + 1312, 2560 + 32 + 1312),
   mldsa_sign |-> Wrapper("pq", 2420, 2420)]

RsaCalls ==
  [rsa_genkey |-> Wrapper("rsa", 672 + 256, 672 + 256), rsa_public |-> Wrapper("rsa", 256, 256),
   rsa_sign |-> Wrapper("rsa", 256, 256)]

HashCalls ==
  [sha256 |-> Wrapper("sym", 32, 32), hmac |-> Wrapper("sym", 32, 32), pbkdf2 |-> Wrapper("sym", 32, 32)]

\* aes_op leaves room for a tag whether or not it expects one.
AesCalls ==
  [aes_set_key |-> Wrapper("aes", 0, 0), aes_cbc |-> Wrapper("aes", AesLen, AesLen + 16),
   aes_gcm_encrypt |-> Wrapper("aes", AesLen + 16, AesLen + 16),
   aes_gcm_decrypt |-> Wrapper("aes", AesLen, AesLen + 16)]

\* Two tables in one.
f ++ g == [x \in DOMAIN f \cup DOMAIN g |-> IF x \in DOMAIN f THEN f[x] ELSE g[x]]

Call == InfoCalls ++ EccCalls ++ MldsaCalls ++ RsaCalls ++ HashCalls ++ AesCalls

\* An operation: the capability asked for first, whether g_mx is held throughout,
\* its calls in order, and whether the ESP32 does it when the FPGA does not.
Operation(cap, locked, calls, software) ==
  [cap |-> cap, locked |-> locked, calls |-> calls, software |-> software]

HashOps ==
  [sha256 |-> Operation("sym", TRUE, <<"sha256">>, TRUE), hmac |-> Operation("sym", TRUE, <<"hmac">>, TRUE),
   pbkdf2 |-> Operation("sym", TRUE, <<"pbkdf2">>, TRUE)]

AesOps ==
  [cbc |-> Operation("aes", TRUE, <<"aes_set_key", "aes_cbc">>, TRUE),
   gcm_encrypt |-> Operation("aes", TRUE, <<"aes_set_key", "aes_gcm_encrypt">>, TRUE),
   gcm_decrypt |-> Operation("aes", TRUE, <<"aes_set_key", "aes_gcm_decrypt">>, TRUE)]

RandomOps == [mix_random |-> Operation("any", TRUE, <<"random">>, TRUE)]

EcGenkeyOps ==
  [p256_key |-> Operation("asym", FALSE, <<"p256_genkey">>, TRUE),
   ed25519_key |-> Operation("asym", FALSE, <<"ed25519_genkey">>, TRUE)]

RsaGenkeyOps == [rsa_key |-> Operation("rsa", FALSE, <<"rsa_genkey">>, TRUE)]

MldsaGenkeyOps == [mldsa_key |-> Operation("pq", FALSE, <<"mldsa_genkey">>, TRUE)]

\* Signing with a wrapped key, told by its length, is left to the FPGA.
SignP256Ops == [p256_wrapped |-> Operation("asym", FALSE, <<"p256_sign">>, FALSE)]

SignOps ==
  [ed25519_wrapped |-> Operation("asym", FALSE, <<"ed25519_sign">>, FALSE),
   rsa_wrapped |-> Operation("rsa", FALSE, <<"rsa_sign">>, FALSE),
   mldsa_wrapped |-> Operation("pq", FALSE, <<"mldsa_sign">>, FALSE)]

Op == HashOps ++ AesOps ++ RandomOps ++ EcGenkeyOps ++ RsaGenkeyOps ++ MldsaGenkeyOps
      ++ SignP256Ops ++ SignOps

NoTask == "no task"

ASSUME AccelAssumption ==
  Ops \in [Tasks -> SUBSET DOMAIN Op] /\ NoTask \notin Tasks /\ MaxFaults \in Nat

None   == [kind |-> "none"]

VARIABLES
  ok, retry,              \* g_ok, and whether g_retry_at has come
  last,                   \* g_last, of which only AUTH_FAIL is ever asked: who was told so last
  mx, tp,                 \* who holds g_mx and g_tp_mx
  pc, run,                \* per task: place, and the operation it is in
  job, out, key,          \* FPGA: the request it computes, what it has to send, its AES key
  result,                 \* how the operation that ended last ended, until one starts
  down, raced,            \* history: an exchange failed and no probe was answered since; a request
                          \* other than a probe went out then
  faults

hostVars == <<ok, retry, last>>
fpgaVars == <<job, out, key>>
accelVars == <<hostVars, mx, tp, pc, run, fpgaVars, result, down, raced, faults>>

AccelInit ==
  /\ ok = FALSE /\ retry = "now" /\ last = NoTask
  /\ mx = NoTask /\ tp = NoTask
  /\ pc = [t \in Tasks |-> "idle"] /\ run = [t \in Tasks |-> None]
  /\ job = None /\ out = None /\ key = NoTask
  /\ result = None /\ down = FALSE /\ raced = FALSE /\ faults = 0

Fault == faults < MaxFaults /\ faults' = faults + 1
Has(cap) == cap \in Caps \cup {"any"}
Go(t, place) == pc' = [pc EXCEPT ![t] = place]
Release(t) == mx' = IF mx = t THEN NoTask ELSE mx
Now(t) == Op[run[t].op]

-----------------------------------------------------------------------------
(* The FPGA's end of the link.                                             *)

\* The calls that open a wrapped key or check a tag.
Checked(cmd) == cmd \in {"aes_gcm_decrypt", "p256_sign", "ed25519_sign", "rsa_sign", "mldsa_sign"}
NeedsKey(cmd) == cmd \in DOMAIN AesCalls \ {"aes_set_key"}

Status(j) ==
  IF NeedsKey(j.cmd) /\ key = NoTask THEN "NO_KEY"
  ELSE IF Checked(j.cmd) /\ (~j.genuine \/ (NeedsKey(j.cmd) /\ key # j.by)) THEN "AUTH_FAIL"
  ELSE "OK"

Reply(j, status) ==
  [kind |-> "frame", by |-> j.by, cmd |-> j.cmd, status |-> status, key |-> key,
   n |-> IF status = "OK" THEN Call[j.cmd].want ELSE 0]

\* Part of a frame whose start is gone, in parts of some bytes.
Rest(parts) == IF parts = 0 THEN None ELSE [kind |-> "rest", parts |-> parts]
Parts == CASE out.kind = "none" -> 0 [] out.kind = "rest" -> out.parts [] OTHER -> 2

Work ==
  /\ job.kind = "job" /\ out = None
  /\ out' = Reply(job, Status(job)) /\ job' = None
  /\ key' = IF job.cmd = "aes_set_key" THEN job.by ELSE key
  /\ UNCHANGED <<hostVars, mx, tp, pc, run, result, down, raced, faults>>

Reset ==
  /\ Fault /\ job' = None /\ out' = None /\ key' = NoTask
  /\ UNCHANGED <<hostVars, mx, tp, pc, run, result, down, raced>>

\* What is still to be sent leaves, in whole or in part, while the request comes
\* in; the request is taken if the FPGA is idle at its end.
Receive(j) ==
  \E parts \in 0..(IF out.kind = "frame" THEN 1 ELSE Parts) :
    /\ out' = Rest(parts)
    /\ job' = IF job = None /\ parts = 0 THEN j ELSE job

-----------------------------------------------------------------------------
(* The host's end.                                                         *)

Start(t, o, g) ==
  /\ pc[t] = "idle" /\ (g \/ \E i \in DOMAIN Op[o].calls : Checked(Op[o].calls[i]))
  /\ Go(t, "lock")
  /\ run' = [run EXCEPT ![t] = [kind |-> "op", op |-> o, at |-> 1, genuine |-> g, back |-> "has"]]
  /\ result' = None
  /\ UNCHANGED <<hostVars, mx, tp, fpgaVars, down, raced, faults>>

Return(t, r) ==
  /\ Go(t, "idle") /\ run' = [run EXCEPT ![t] = None] /\ result' = r

\* Mutant: g_mx was never created.
NoLock(t) ==
  /\ pc[t] = "lock" /\ Go(t, "has")
  /\ UNCHANGED <<hostVars, mx, tp, run, fpgaVars, result, down, raced, faults>>

Lock(t) ==
  /\ pc[t] = "lock" /\ mx = NoTask /\ mx' = t /\ Go(t, "has")
  /\ UNCHANGED <<hostVars, tp, run, fpgaVars, result, down, raced, faults>>

\* An operation goes on when its test for the FPGA, or a call, did not succeed.
Failed(t, place) ==
  IF place = "call" /\ Now(t).calls[run[t].at] = "aes_gcm_decrypt"
    THEN Go(t, "verdict") /\ UNCHANGED mx
    ELSE Go(t, "software") /\ Release(t)

\* accel_has_*, or fpga_available as call() asks it.  The functions that do not
\* hold g_mx throughout give it back after the first.
Available(t) ==
  /\ pc[t] \in {"has", "call"} /\ ok
  /\ IF pc[t] = "has" /\ ~Has(Now(t).cap) THEN Failed(t, "has")
     ELSE /\ Go(t, IF pc[t] = "has" THEN "call" ELSE "send")
          /\ IF Now(t).locked THEN UNCHANGED mx ELSE Release(t)
  /\ UNCHANGED <<hostVars, tp, run, fpgaVars, result, down, raced, faults>>

Absent(t) ==
  /\ pc[t] \in {"has", "call"} /\ ~ok /\ retry = "later"
  /\ last' = IF pc[t] = "call" THEN NoTask ELSE last
  /\ Failed(t, pc[t])
  /\ UNCHANGED <<ok, retry, tp, run, fpgaVars, result, down, raced, faults>>

Probe(t) ==
  /\ pc[t] \in {"has", "call"} /\ ~ok /\ retry = "now"
  /\ Go(t, "probe") /\ run' = [run EXCEPT ![t].back = pc[t]]
  /\ UNCHANGED <<hostVars, mx, tp, fpgaVars, result, down, raced, faults>>

\* fpga_available after its call_raw: g_ok is written without g_tp_mx.
Probed(t) ==
  /\ pc[t] \in {"answered", "silent"} /\ run' = [run EXCEPT ![t].back = "has"]
  /\ IF pc[t] = "answered"
       THEN ok' = TRUE /\ Go(t, run[t].back) /\ UNCHANGED <<retry, last, mx>>
       ELSE ok' = FALSE /\ retry' = "later" /\ last' = NoTask /\ Failed(t, run[t].back)
  /\ UNCHANGED <<tp, fpgaVars, result, down, raced, faults>>

Waiting(t) == pc[t] \in {"wait", "pwait"}
Cmd(t) == IF pc[t] \in {"probe", "pwait"} THEN "info" ELSE Now(t).calls[run[t].at]

\* call_raw up to tp_write; the frame may arrive garbled, and an idle FPGA that
\* can tell answers BAD_CRC.
Send(t) ==
  /\ pc[t] \in {"send", "probe"} /\ tp = NoTask /\ tp' = t
  /\ Go(t, IF pc[t] = "probe" THEN "pwait" ELSE "wait")
  /\ raced' = (raced \/ (pc[t] = "send" /\ down))
  /\ LET j == [kind |-> "job", by |-> t, cmd |-> Cmd(t), genuine |-> run[t].genuine]
     IN \/ Receive(j) /\ UNCHANGED faults
        \/ /\ Fault /\ job' = job
           /\ out' \in IF job = None /\ out = None THEN {None, Reply(j, "BAD_CRC")} ELSE {Rest(Parts)}
  /\ UNCHANGED <<hostVars, mx, run, key, result, down>>

\* call_raw or aes_op without memory: g_last is left as it was.
NoMemory(t) ==
  /\ pc[t] = "send" /\ Fault /\ Failed(t, "call")
  /\ UNCHANGED <<hostVars, tp, run, fpgaVars, result, down, raced>>

\* What follows an exchange, when g_tp_mx is given back.
After(t, good) ==
  /\ tp' = NoTask
  /\ \/ /\ pc[t] = "pwait" /\ Go(t, IF good THEN "answered" ELSE "silent")
        /\ UNCHANGED <<mx, run, result>>
     \/ /\ pc[t] = "wait" /\ ~good /\ Failed(t, "call")
        /\ UNCHANGED <<run, result>>
     \/ /\ pc[t] = "wait" /\ good /\ run[t].at < Len(Now(t).calls)
        /\ run' = [run EXCEPT ![t].at = @ + 1] /\ Go(t, "call")
        /\ UNCHANGED <<mx, result>>
     \/ /\ pc[t] = "wait" /\ good /\ run[t].at = Len(Now(t).calls)
        /\ Release(t)
        /\ Return(t, [kind |-> "fpga", genuine |-> run[t].genuine,
                      mine |-> out.by = t /\ out.cmd = Cmd(t) /\ (NeedsKey(Cmd(t)) => out.key = t)])

io_fail(t) ==
  /\ ok' = FALSE /\ retry' = "later" /\ last' = NoTask /\ down' = TRUE
  /\ After(t, FALSE)

\* The rest of call_raw, when a start byte comes: the frame fits, or it is left
\* where it is and the link is still held to be up.
Read(t) ==
  /\ Waiting(t) /\ out.kind = "frame"
  /\ LET w == Call[Cmd(t)] IN
     /\ last' = IF out.n <= w.max /\ out.status = "AUTH_FAIL" THEN t ELSE NoTask
     /\ out' = IF out.n > w.max THEN Rest(2) ELSE None
     /\ down' = (down /\ ~(pc[t] = "pwait" /\ out.cmd = "info" /\ out.status = "OK"))
     /\ After(t, /\ out.n = w.want /\ out.status = "OK"
                 /\ pc[t] = "pwait" => out.cmd = "info")
  /\ UNCHANGED <<ok, retry, job, key, raced, faults>>

\* A frame garbled on the way, or the middle of one: a CRC that does not match,
\* or a length that is no length.
ReadGarbage(t) ==
  /\ Waiting(t)
  /\ \/ out.kind = "rest" /\ UNCHANGED faults
     \/ out.kind = "frame" /\ Fault
  /\ \E parts \in 0..(Parts - 1) : out' = Rest(parts)
  /\ \/ io_fail(t)
     \/ last' = NoTask /\ After(t, FALSE) /\ UNCHANGED <<ok, retry, down>>
  /\ UNCHANGED <<job, key, raced>>

\* Mutant: tp_wait_sof notes the time and waits on.
WaitsOn(t) ==
  /\ Waiting(t) /\ out.kind # "frame"
  /\ ok' = FALSE /\ retry' = "later" /\ last' = NoTask /\ down' = TRUE
  /\ UNCHANGED <<mx, tp, pc, run, fpgaVars, result, raced, faults>>

\* Nothing came in time.  Of a request it has taken the FPGA is late, not silent.
Timeout(t) ==
  /\ Waiting(t) /\ out.kind # "frame"
  /\ IF job.kind = "job" /\ job.by = t THEN Fault ELSE UNCHANGED faults
  /\ out' = None /\ io_fail(t)
  /\ UNCHANGED <<job, key, raced>>

\* Mutant: whatever failed is an authentic failure.
AnyFailure(t) ==
  /\ pc[t] = "verdict" /\ Release(t)
  /\ Return(t, [kind |-> "forged", genuine |-> run[t].genuine, told |-> last \in {t, NoTask}])
  /\ UNCHANGED <<hostVars, tp, fpgaVars, down, raced, faults>>

Verdict(t) ==
  /\ pc[t] = "verdict" /\ Release(t)
  /\ IF last # NoTask
       THEN Return(t, [kind |-> "forged", genuine |-> run[t].genuine, told |-> last = t])
       ELSE Go(t, "software") /\ UNCHANGED <<run, result>>
  /\ UNCHANGED <<hostVars, tp, fpgaVars, down, raced, faults>>

\* mbedTLS and the software signers; a wrapped key is of no use to them.
Software(t) ==
  /\ pc[t] = "software"
  /\ Return(t, [kind |-> IF Now(t).software THEN "software" ELSE "failed"])
  /\ UNCHANGED <<hostVars, mx, tp, fpgaVars, down, raced, faults>>

\* Mutant: the timer of a link that is down is never looked at.
TimerForgotten ==
  /\ ok /\ retry = "later" /\ retry' = "now"
  /\ UNCHANGED <<ok, last, mx, tp, pc, run, fpgaVars, result, down, raced, faults>>

\* The re-probe timer runs out.
Tick ==
  /\ retry = "later" /\ retry' = "now"
  /\ UNCHANGED <<ok, last, mx, tp, pc, run, fpgaVars, result, down, raced, faults>>

Run(t) ==
  \/ Available(t) \/ Absent(t) \/ Probe(t) \/ Probed(t)
  \/ Read(t) \/ ReadGarbage(t) \/ Verdict(t) \/ Software(t)

AccelNext ==
  \/ \E t \in Tasks :
       \/ \E o \in Ops[t], g \in BOOLEAN : Start(t, o, g)
       \/ Lock(t) \/ Send(t) \/ NoMemory(t) \/ Timeout(t) \/ Run(t)
  \/ Work \/ Reset \/ Tick

\* A task that can run runs, and its waits end; a mutex that is free again and again is got in
\* the end; the FPGA finishes what it computes, and the timers run.
Fairness ==
  /\ WF_accelVars(Work) /\ WF_accelVars(Tick)
  /\ \A t \in Tasks : WF_accelVars(Run(t) \/ Timeout(t)) /\ SF_accelVars(Lock(t) \/ Send(t))

AccelSpec == AccelInit /\ [][AccelNext]_accelVars /\ Fairness

-----------------------------------------------------------------------------
(* Properties.                                                             *)

AccelTypeOK ==
  /\ ok \in BOOLEAN /\ retry \in {"now", "later"} /\ {down, raced} \subseteq BOOLEAN /\ faults \in 0..MaxFaults
  /\ {mx, tp, key, last} \subseteq Tasks \cup {NoTask}
  /\ pc \in [Tasks -> {"idle", "lock", "has", "call", "probe", "pwait", "answered", "silent",
                        "send", "wait", "verdict", "software"}]
  /\ \A t \in Tasks : pc[t] = "idle" \/ run[t].at \in DOMAIN Now(t).calls
  /\ job.kind \in {"none", "job"} /\ out.kind \in {"none", "frame", "rest"}

\* What an operation takes from the FPGA is the answer to its own request, computed
\* with the AES key it loaded (call_raw, callExact, aes_op, and g_mx around key and
\* use): a late answer is read by a probe, which knows it is not meant for it.  The
\* code has one way around this: fpga_available reads and writes g_ok without
\* g_tp_mx, so a request may go out on a link that failed in between (raced).
AnswerIsMine ==
  result.kind = "fpga" => result.mine \/ raced

\* accel_aes256_gcm_decrypt calls a ciphertext forged only if it is: a garbled or late
\* exchange, an FPGA that lost its key or a lack of memory leave the verdict to
\* software.  It reads g_last after g_tp_mx is given back, so another task's answer
\* may stand there (told).
GenuineOpens ==
  result.kind = "forged" /\ result.genuine => ~result.told \/ raced

\* A forged ciphertext or a foreign key blob is never accepted.
ForgedNeverOpens ==
  result.kind = "fpga" /\ ~result.genuine => raced

\* Whatever happens to the exchange, the verdict on a ciphertext is right: a genuine one is not
\* called forged, and a forged one is not opened.
VerdictTrue == AccelTypeOK /\ GenuineOpens /\ ForgedNeverOpens

\* Every operation comes to an end: no answer, lost answer, half an answer or a mutex
\* held by the other task can stop a task for good.
OperationEnds ==
  \A t \in Tasks : pc[t] # "idle" ~> pc[t] = "idle"

\* While operations keep being asked for, the link comes back after the last fault,
\* whatever it left in the FPGA: what a probe reads in vain is gone.
LinkRecovers ==
  [](<>(\E t \in Tasks : pc[t] = "has")) => [](<>ok)
=============================================================================
