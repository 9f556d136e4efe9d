------------------------------- MODULE Nonce -------------------------------
(***************************************************************************)
(* The AES-GCM nonces (src/CryptoManager.cpp): a boot counter kept in NVS, *)
(* a session counter, and 32 random bits.  Two tasks on two cores take     *)
(* nonces, and session_counter++ is a load and a store without a lock; the *)
(* results of writing NVS are not looked at.                               *)
(*                                                                         *)
(* A nonce is its two counters: the random bits, which may be equal, are   *)
(* left out, and what is shown is when the counters alone keep two nonces  *)
(* of one key apart.  Neither counter reaches 2^32.                        *)
(***************************************************************************)
EXTENDS Naturals

CONSTANTS
  Tasks,        \* the CLI and the FIDO task
  GcmKeys,      \* aesKey, storageKey, the FIDO key
  MaxBoots,     \* bound: boots
  MaxNonces     \* bound: the session counter

ASSUME NonceAssumption == MaxBoots \in Nat /\ MaxNonces \in Nat

VARIABLES
  bootCnt,                      \* "boot_cnt" in NVS
  bootCounter, sessionCounter,  \* the counters in RAM
  initialized,                  \* nonce_subsystem_initialized
  at, reg, gcmKey,              \* each task: idle, or between load and store; what it loaded; for which key
  used, reused,                 \* history: nonces taken, and whether one was taken twice
  raced,                        \* history: a store went over another task's
  unsaved,                      \* history: NVS was not read or not written
  boots

nonceVars == <<bootCnt, bootCounter, sessionCounter, initialized, at, reg, gcmKey, used, reused, raced,
               unsaved, boots>>
taskVars == <<at, reg, gcmKey>>
noncePast == <<used, reused, raced>>

NonceInit ==
  /\ bootCnt = 0 /\ bootCounter = 0 /\ sessionCounter = 0 /\ initialized = FALSE
  /\ at = [t \in Tasks |-> "idle"] /\ reg = [t \in Tasks |-> 0] /\ gcmKey \in [Tasks -> GcmKeys]
  /\ used = {} /\ reused = FALSE /\ raced = FALSE /\ unsaved = FALSE /\ boots = 0

\* init_aes_nonce_subsystem: bootCounter is 0 in fresh RAM, read, incremented and written back.
\* It is not reached again until the device is switched off.
InitNonceSubsystem ==
  /\ ~initialized /\ boots < MaxBoots
  /\ \E read \in BOOLEAN, written \in BOOLEAN :
       /\ bootCounter' = (IF read THEN bootCnt ELSE 0) + 1
       /\ bootCnt' = IF written THEN bootCounter' ELSE bootCnt
       /\ unsaved' = (unsaved \/ ~read \/ ~written)
  /\ initialized' = TRUE /\ boots' = boots + 1
  /\ UNCHANGED <<sessionCounter, taskVars, noncePast>>

\* generate_aes_gcm_nonce, called by encryptMsg and encryptStoragePayload: session_counter++ is
\* a load ...
LoadCounter(t, k) ==
  /\ initialized /\ at[t] = "idle" /\ sessionCounter < MaxNonces
  /\ at' = [at EXCEPT ![t] = "store"] /\ reg' = [reg EXCEPT ![t] = sessionCounter]
  /\ gcmKey' = [gcmKey EXCEPT ![t] = k]
  /\ UNCHANGED <<bootCnt, bootCounter, sessionCounter, initialized, noncePast, unsaved, boots>>

\* ... and a store, after which the nonce is taken.
NoIncrement(t) ==                           \* mutant: the counter is not written back
  LET n == <<gcmKey[t], bootCounter, reg[t] + 1>> IN
  /\ at[t] = "store"
  /\ at' = [at EXCEPT ![t] = "idle"]
  /\ raced' = (raced \/ sessionCounter # reg[t])
  /\ used' = used \cup {n} /\ reused' = (reused \/ n \in used)
  /\ UNCHANGED <<bootCnt, bootCounter, sessionCounter, initialized, reg, gcmKey, unsaved, boots>>
StoreCounter(t) ==
  LET n == <<gcmKey[t], bootCounter, reg[t] + 1>> IN
  /\ at[t] = "store"
  /\ sessionCounter' = reg[t] + 1
  /\ at' = [at EXCEPT ![t] = "idle"]
  /\ raced' = (raced \/ sessionCounter # reg[t])
  /\ used' = used \cup {n} /\ reused' = (reused \/ n \in used)
  /\ UNCHANGED <<bootCnt, bootCounter, initialized, reg, gcmKey, unsaved, boots>>

\* A power cut, a restart, or abort().
SwitchOff ==
  /\ initialized
  /\ initialized' = FALSE /\ bootCounter' = 0 /\ sessionCounter' = 0
  /\ at' = [t \in Tasks |-> "idle"]
  /\ UNCHANGED <<bootCnt, reg, gcmKey, noncePast, unsaved, boots>>

NonceNext ==
  \/ InitNonceSubsystem \/ SwitchOff
  \/ \E t \in Tasks : StoreCounter(t) \/ \E k \in GcmKeys : LoadCounter(t, k)

NonceSpec == NonceInit /\ [][NonceNext]_nonceVars

\* No two messages under one key have the same counters, across restarts too, unless two tasks
\* met in session_counter++ or NVS failed: then only the random bits keep them apart.
NonceUnique == reused => raced \/ unsaved
=============================================================================
