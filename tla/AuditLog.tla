------------------------------- MODULE AuditLog -------------------------------
(***************************************************************************)
(* AuditLogService (audit-log.service.ts): log() chains an entry to the    *)
(* newest one it finds -- a read and a write with nothing to hold them     *)
(* together -- and verifyChainIntegrity() recomputes the chain from what   *)
(* the table holds.  Calls of log() run concurrently.                      *)
(*                                                                         *)
(* SHA-256 is taken to be injective: a hash is the tuple it was computed   *)
(* from.  It has no key: who can write the table can also compute the      *)
(* hashes of what he writes.  The clock counts milliseconds and does not   *)
(* go backwards.                                                           *)
(***************************************************************************)
EXTENDS Integers, Sequences, FiniteSets

CONSTANTS
  Calls,     \* calls of log()
  Tenants,   \* tenant ids callers pass
  Known,     \* those with a row in the tenant table
  Contents,  \* what an entry says: [hashed: action, actor, metadata; resource]
  Forgeries, \* what somebody else may make one say
  MaxClock,  \* bound: the last millisecond
  MaxTamper  \* bound: changes made behind the service's back

ASSUME KnownAssumption == Known \subseteq Tenants
ASSUME ClockAssumption == MaxClock \in Nat /\ MaxTamper \in Nat

SYSTEM == "SYSTEM"               \* the null tenant
Chains == Known \cup {SYSTEM}
GENESIS == <<>>
\* Of what an entry says, the resource is not hashed.
Hash(previousHash, content, timestamp) == <<previousHash, content.hashed, timestamp>>
StampOf(entry) == entry.hash[3]  \* the timestamp that went into its hash

VARIABLES
  entries,   \* the table, in the order of insertion
  clock,
  call,      \* where a call of log() is suspended
  chain,     \* per call: dbTenantId
  content,   \* per call: what it logs
  previous,  \* per call: previousHash
  timestamp, \* per call: timestamp
  tampered,  \* the chains that were changed behind the service's back, each time
  original   \* history: entries as log() wrote them, of chains nobody had touched

callVars == <<call, chain, content, previous, timestamp>>
vars == <<entries, clock, callVars, tampered, original>>

ChainEntries(c) == {i \in DOMAIN entries : entries[i].chain = c}

Untouched(c) == \A i \in DOMAIN tampered : c \notin tampered[i]

TypeOK ==
  /\ \A i \in DOMAIN entries :
       /\ entries[i].chain \in Chains
       /\ entries[i].content \in Contents \cup Forgeries
       /\ entries[i].createdAt \in 0..MaxClock
       /\ entries[i].previousHash = GENESIS \/ Len(entries[i].previousHash) = 3
  /\ clock \in 0..MaxClock
  /\ call \in [Calls -> {"idle", "find", "create", "over"}]
  /\ chain \in [Calls -> Chains]
  /\ content \in [Calls -> Contents]
  /\ timestamp \in [Calls -> 0..clock]
  /\ tampered \in Seq(SUBSET Chains)

Init ==
  /\ entries = <<>>
  /\ clock = 0
  /\ call = [w \in Calls |-> "idle"]
  /\ chain = [w \in Calls |-> SYSTEM]
  /\ content \in [Calls -> Contents]
  /\ previous = [w \in Calls |-> GENESIS]
  /\ timestamp = [w \in Calls |-> 0]
  /\ tampered = <<>>
  /\ original = {}
-------------------------------------------------------------------------------
(* log() *)

Goto(w, there) == call' = [call EXCEPT ![w] = there]

\* The call is over, and its locals are no more.
Return(w) ==
  /\ Goto(w, "over")
  /\ chain' = [chain EXCEPT ![w] = SYSTEM]
  /\ previous' = [previous EXCEPT ![w] = GENESIS]
  /\ timestamp' = [timestamp EXCEPT ![w] = 0]

\* A tenant id without a row is logged under the null tenant; no tenant is ever
\* deleted, so when findUnique answers does not matter.
Log(w) ==
  /\ call[w] = "idle"
  /\ \E t \in Tenants \cup {SYSTEM} :
       chain' = [chain EXCEPT ![w] = IF t \in Known THEN t ELSE SYSTEM]
  /\ Goto(w, "find")
  /\ UNCHANGED <<entries, clock, content, previous, timestamp, tampered, original>>

\* findFirst by createdAt: which of several with the same createdAt is left open.
Newest(among) == {i \in among : \A j \in among : entries[j].createdAt <= entries[i].createdAt}
Oldest(among) == {i \in among : \A j \in among : entries[j].createdAt >= entries[i].createdAt}

ChainTo(w, found, none) ==
  /\ call[w] = "find"
  /\ \/ found = {} /\ previous' = [previous EXCEPT ![w] = none]
     \/ \E i \in found : previous' = [previous EXCEPT ![w] = entries[i].hash]
  /\ timestamp' = [timestamp EXCEPT ![w] = clock]
  /\ Goto(w, "create")
  /\ UNCHANGED <<entries, clock, chain, content, tampered, original>>

\* Mutant: no GENESIS for the first entry of a chain.
FindPrevious_NoGenesis(w) == ChainTo(w, Newest(ChainEntries(chain[w])), <<"undefined">>)

\* Mutant: ordered the wrong way round.
FindPrevious_OldestFirst(w) == ChainTo(w, Oldest(ChainEntries(chain[w])), GENESIS)

\* findFirst answers, and the clock is read.
FindPrevious(w) == ChainTo(w, Newest(ChainEntries(chain[w])), GENESIS)

\* create() stamps createdAt itself; a second entry with the same hash -- of any
\* chain, the tenant is not hashed -- violates the unique index and is dropped.
Create(w) ==
  /\ call[w] = "create"
  /\ LET hash == Hash(previous[w], content[w], timestamp[w])
         entry == [id |-> <<"log", w>>, chain |-> chain[w], content |-> content[w],
                   previousHash |-> previous[w], hash |-> hash, createdAt |-> clock]
     IN  IF \E i \in DOMAIN entries : entries[i].hash = hash
           THEN UNCHANGED <<entries, original>>
           ELSE /\ entries' = Append(entries, entry)
                /\ original' = IF Untouched(chain[w]) THEN original \cup {entry} ELSE original
  /\ Return(w)
  /\ UNCHANGED <<clock, content, tampered>>

\* A query rejects, or the process dies: the entry is not written, callers go on.
WriteFails(w) ==
  /\ call[w] \in {"find", "create"}
  /\ Return(w)
  /\ UNCHANGED <<entries, clock, content, tampered, original>>
-------------------------------------------------------------------------------
(* verifyChainIntegrity() *)

\* The orders in which findMany may return a chain: by createdAt, ties left open.
Orders(c) ==
  LET mine == ChainEntries(c) n == Cardinality(mine) IN
    {o \in [1..n -> mine] :
       \A i, j \in 1..n : i < j => /\ o[i] # o[j]
                                   /\ entries[o[i]].createdAt <= entries[o[j]].createdAt}

\* The hash the code expects of an entry that follows prev.
Matches(prev, curr) == curr.hash = Hash(prev.hash, curr.content, curr.createdAt)

\* intact, for the order findMany returned.  The first entry is not checked.
Intact(o) == \A i \in 2..Len(o) : Matches(entries[o[i - 1]], entries[o[i]])
-------------------------------------------------------------------------------
(* The environment *)

Tick ==
  /\ clock < MaxClock
  /\ clock' = clock + 1
  /\ UNCHANGED <<entries, callVars, tampered, original>>

\* Somebody writes the database file.  Only its unique index on the hash is in his way:
\* a table he leaves has no hash twice.
Tamper(table, touched) ==
  /\ Len(tampered) < MaxTamper
  /\ \A i, j \in DOMAIN table : table[i].hash = table[j].hash => i = j
  /\ entries' = table
  /\ tampered' = Append(tampered, touched)
  /\ UNCHANGED <<clock, callVars, original>>

\* He changes what an entry says, its time or its tenant, and leaves its hash;
Alter(i) ==
  \/ \E x \in Forgeries \ {entries[i].content} :
       Tamper([entries EXCEPT ![i].content = x], {entries[i].chain})
  \/ \E t \in (0..MaxClock) \ {entries[i].createdAt} :
       Tamper([entries EXCEPT ![i].createdAt = t], {entries[i].chain})
  \/ \E c \in Chains \ {entries[i].chain} :
       Tamper([entries EXCEPT ![i].chain = c], {entries[i].chain, c})

\* The hashes an entry of the chain may follow.
Links(among) == {entries[j].hash : j \in among} \cup {GENESIS}

\* or makes an entry say something else and computes a hash for that;
Rewrite(i) ==
  \E x \in Forgeries, p \in Links(ChainEntries(entries[i].chain) \ {i}) :
    Tamper([entries EXCEPT ![i] = [@ EXCEPT !.content = x, !.previousHash = p,
                                            !.hash = Hash(p, x, entries[i].createdAt)]],
           {entries[i].chain})

\* or adds one that log() never wrote,
Insert(c) ==
  \E x \in Forgeries, p \in Links(ChainEntries(c)) :
    Tamper(Append(entries, [id |-> <<"forged", Len(tampered)>>, chain |-> c, content |-> x,
                            previousHash |-> p, hash |-> Hash(p, x, clock), createdAt |-> clock]),
           {c})

\* or removes one.
Remove(i) ==
  Tamper(SubSeq(entries, 1, i - 1) \o SubSeq(entries, i + 1, Len(entries)), {entries[i].chain})

Next ==
  \/ \E w \in Calls : Log(w) \/ FindPrevious(w) \/ Create(w) \/ WriteFails(w)
  \/ \E i \in DOMAIN entries : Alter(i) \/ Rewrite(i) \/ Remove(i)
  \/ \E c \in Chains : Insert(c)
  \/ Tick

Spec == Init /\ [][Next]_vars
-------------------------------------------------------------------------------
(* Properties *)

DistinctTimes(c) ==
  \A i, j \in ChainEntries(c) : i # j => entries[i].createdAt # entries[j].createdAt

(* A chain forks only where two calls overlapped -- the later entry's call    *)
(* looked for its predecessor no later than the other one was created -- or   *)
(* where two entries share a createdAt and findFirst may return either.       *)
ForkNeedsOverlapOrTie ==
  \A i, j \in DOMAIN entries :
    /\ i < j
    /\ entries[i].chain = entries[j].chain /\ Untouched(entries[i].chain)
    /\ entries[i].previousHash = entries[j].previousHash
    => \/ StampOf(entries[j]) <= entries[i].createdAt
       \/ \E k \in ChainEntries(entries[i].chain) \ {i} :
            entries[k].createdAt = entries[i].createdAt

(* Calls of log() that take less than a millisecond and write no two entries  *)
(* in the same one make a chain that verifies, however many calls, tenants    *)
(* and failures there are.                                                    *)
TimelyChainVerifies ==
  \A c \in Chains :
    /\ Untouched(c)
    /\ \A i \in ChainEntries(c) : StampOf(entries[i]) = entries[i].createdAt
    /\ DistinctTimes(c)
    => \A o \in Orders(c) : Intact(o)

\* A hash log() wrote before anybody touched the chain it wrote it for, and an entry
\* that says what such a hash was made of.
Original(hash) == \E e \in original : e.hash = hash

AsWritten(entry, prev) ==
  \E e \in original : /\ e.hash = entry.hash /\ e.previousHash = prev.hash
                      /\ e.content.hashed = entry.content.hashed

(* What an intact chain is worth.  A hash vouches for all before it: if an    *)
(* entry has the hash log() gave it before anybody touched the chain, every   *)
(* entry from the second to it has the action, actor and metadata it was      *)
(* written with and none is missing between them.  So who changes, adds or    *)
(* removes an entry has to write new hashes up to the newest, or change the   *)
(* oldest, or the resource, neither of which is verified.  And an entry of a  *)
(* chain nobody touched follows no entry of another tenant, whatever calls    *)
(* were in progress for either.                                               *)
IntactChainIsGenuine ==
  \A c \in Chains :
    /\ \A o \in Orders(c) : Intact(o) =>
         \A j \in 2..Len(o) : Original(entries[o[j]].hash) =>
           \A i \in 2..j : AsWritten(entries[o[i]], entries[o[i - 1]])
    /\ Untouched(c) =>
         \A i \in ChainEntries(c), j \in DOMAIN entries \ ChainEntries(c) :
           entries[i].previousHash # entries[j].hash

(* Claim of the repository that the code does not keep: audit-log.service.ts: *)
(* 67-69, a chain nobody touched -- and whose order is not in doubt -- has no *)
(* broken link.                                                               *)
UntamperedChainIntact ==
  \A c \in Chains : Untouched(c) /\ DistinctTimes(c) => \A o \in Orders(c) : Intact(o)
===============================================================================
