-------------------------------- MODULE KeyLock --------------------------------
(***************************************************************************)
(* The key lock of SecurityHardeningService (security-hardening.service.ts *)
(* :53-90): SET NX EX 5 in Redis, a Set in the process when a command      *)
(* fails or there is no Redis, and a release that deletes the key whoever  *)
(* holds it.  One key: keys share nothing.                                 *)
(***************************************************************************)
EXTENDS Integers

CONSTANTS
  LOCK_TTL   \* the five seconds, in ticks

ASSUME LockAssumption == LOCK_TTL \in Nat

VARIABLES
  redis,        \* there is a client: REDIS_MOCK is not "true" and connect() succeeded
  lockExpiry,   \* when the key in Redis expires, or Unlocked
  activeLocks,  \* the key is in the Set of this process
  redisFailed,  \* history: a command has failed
  lockExpired   \* history: a key has expired while its holder worked

lockVars == <<redis, lockExpiry, activeLocks, redisFailed, lockExpired>>

Unlocked == -1

LockTypeOK ==
  /\ redis \in BOOLEAN
  /\ lockExpiry \in Int
  /\ activeLocks \in BOOLEAN /\ redisFailed \in BOOLEAN /\ lockExpired \in BOOLEAN

LockInit ==
  /\ redis \in BOOLEAN
  /\ lockExpiry = Unlocked
  /\ activeLocks = FALSE
  /\ redisFailed = FALSE
  /\ lockExpired = FALSE

\* A command of Redis answers, or it fails and memory takes over.
RedisAnswers == redis /\ UNCHANGED redisFailed
RedisFails == redis /\ redisFailed' = TRUE
InMemory == RedisFails \/ (~redis /\ UNCHANGED redisFailed)

AcquireLock(at, acquired) ==
  /\ UNCHANGED <<redis, lockExpired>>
  /\ \/ /\ RedisAnswers
        /\ acquired = (lockExpiry = Unlocked)
        /\ lockExpiry' = IF acquired THEN at + LOCK_TTL ELSE lockExpiry
        /\ UNCHANGED activeLocks
     \/ /\ InMemory
        /\ acquired = ~activeLocks
        /\ activeLocks' = TRUE
        /\ UNCHANGED lockExpiry

\* Mutant: the key is only taken out of the Set.
ReleaseLock_MemoryOnly ==
  /\ activeLocks' = FALSE
  /\ UNCHANGED <<redis, lockExpiry, redisFailed, lockExpired>>

ReleaseLock ==
  /\ UNCHANGED <<redis, lockExpired>>
  /\ \/ /\ RedisAnswers
        /\ lockExpiry' = Unlocked
        /\ UNCHANGED activeLocks
     \/ /\ InMemory
        /\ activeLocks' = FALSE
        /\ UNCHANGED lockExpiry

\* Redis drops the key when its time is up.
LockExpires(at) ==
  /\ lockExpiry # Unlocked /\ at >= lockExpiry
  /\ lockExpiry' = Unlocked
  /\ lockExpired' = TRUE
  /\ UNCHANGED <<redis, activeLocks, redisFailed>>
===============================================================================
