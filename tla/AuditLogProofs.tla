---------------------------- MODULE AuditLogProofs ----------------------------
(***************************************************************************)
(* Theorems about AuditLog and Forensics, for any number of calls, tenants *)
(* and reports, for every clock and every amount of tampering.             *)
(***************************************************************************)
EXTENDS Forensics, FiniteSetTheorems, SequenceTheorems, WellFoundedInduction, TLAPS

\* What the table holds, whatever the order.  Hashes and ids are unique.
Rows == {entries[i] : i \in DOMAIN entries}

RowsOf(c) == {e \in Rows : e.chain = c}

HashesUnique == \A i, j \in DOMAIN entries : entries[i].hash = entries[j].hash => i = j

IdsUnique == \A i, j \in DOMAIN entries : entries[i].id = entries[j].id => i = j

\* A hash is a tuple that begins with the one the entry follows, whoever computed it.
RowTypeOK(e) ==
  /\ e = [id |-> e.id, chain |-> e.chain, content |-> e.content,
          previousHash |-> e.previousHash, hash |-> e.hash, createdAt |-> e.createdAt]
  /\ e.hash = <<e.previousHash, e.hash[2], e.hash[3]>>
  /\ e.chain \in Chains /\ e.content \in Contents \cup Forgeries
  /\ e.createdAt \in 0..MaxClock /\ e.hash[3] \in Nat
  /\ e.previousHash = GENESIS \/ Len(e.previousHash) = 3

TableOK ==
  /\ entries \in Seq(Rows) /\ HashesUnique /\ IdsUnique
  /\ \A e \in Rows : RowTypeOK(e)
  /\ tampered \in Seq(SUBSET Chains)

\* An id is that of a call that is over, or of a tampering.
IdsTaken ==
  \A e \in Rows :
    \/ \E w \in Calls : e.id = <<"log", w>> /\ call[w] = "over"
    \/ \E n \in Nat : e.id = <<"forged", n>> /\ n < Len(tampered)

CallsOK ==
  /\ clock \in 0..MaxClock
  /\ call \in [Calls -> {"idle", "find", "create", "over"}]
  /\ chain \in [Calls -> Chains]
  /\ content \in [Calls -> Contents]
  /\ previous = [w \in Calls |-> previous[w]]
  /\ \A w \in Calls : previous[w] = GENESIS \/ Len(previous[w]) = 3
  /\ timestamp \in [Calls -> 0..clock]

\* What a call that looked for the newest entry of chain c at time s can have found: one
\* of the entries there were by then, and none older than an entry created before s.
FoundAt(c, h, s) ==
  /\ h = GENESIS \/ \E p \in RowsOf(c) : p.hash = h /\ p.createdAt <= s
  /\ \A e \in RowsOf(c) : e.createdAt < s =>
       \E p \in RowsOf(c) : p.hash = h /\ e.createdAt <= p.createdAt

\* An entry of a chain nobody touched is as it was written, and follows another.
Linked(e) ==
  /\ e.content.hashed = e.hash[2]
  /\ e.previousHash # e.hash
  /\ e.hash[3] <= e.createdAt /\ e.createdAt <= clock
  /\ FoundAt(e.chain, e.previousHash, e.hash[3])

EntriesLinked == \A e \in Rows : Untouched(e.chain) => Linked(e)

CallsLinked ==
  \A w \in Calls : call[w] = "create" /\ Untouched(chain[w]) =>
    FoundAt(chain[w], previous[w], timestamp[w])

\* What log() wrote before anybody touched the chain follows what it wrote before that.
OriginalsLinked ==
  /\ \A e \in original :
       /\ e.hash = <<e.previousHash, e.content.hashed, e.hash[3]>>
       /\ e.previousHash = GENESIS \/ \E p \in original : p.hash = e.previousHash
  /\ \A e \in Rows : Untouched(e.chain) => e \in original

ChainInv == TableOK /\ IdsTaken /\ CallsOK /\ EntriesLinked /\ CallsLinked /\ OriginalsLinked
-------------------------------------------------------------------------------
(* Numbers and sequences *)

LEMMA NatOrder == IsWellFoundedOn({ss \in Nat \X Nat : ss[1] < ss[2]}, Nat)
BY NatLessThanWellFounded DEF OpToRel

LEMMA LeastNat ==
  ASSUME NEW T \in SUBSET Nat, T # {}
  PROVE  \E n \in T : \A m \in T : n <= m
<1> DEFINE R == {ss \in Nat \X Nat : ss[1] < ss[2]}
<1>1. IsWellFoundedOn(R, Nat)
  BY NatOrder
<1>2. \A m, n \in Nat : m < n => <<m, n>> \in R
  OBVIOUS
<1> HIDE DEF R
<1>3. \E x \in T : \A y \in T : ~ (<<y, x>> \in R)
  BY <1>1, WFMin
<1>4. PICK x \in T : \A y \in T : ~ (<<y, x>> \in R)
  BY <1>3
<1>5. ASSUME NEW y \in T PROVE x <= y
  <2>1. x \in Nat /\ y \in Nat /\ ~(y < x)
    BY <1>2, <1>4
  <2> QED
    BY <2>1
<1> QED
  BY <1>4, <1>5

LEMMA GreatestNat ==
  ASSUME NEW T \in SUBSET Nat, NEW bound \in Nat, \A n \in T : n <= bound, T # {}
  PROVE  \E n \in T : \A m \in T : m <= n
<1> DEFINE U == {bound - n : n \in T}
<1>1. U \in SUBSET Nat /\ U # {}
  <2>1. \A n \in T : bound - n \in Nat
    OBVIOUS
  <2> QED
    BY <2>1
<1>2. \A n \in T : bound - n \in U
  OBVIOUS
<1>3. \A u \in U : \E n \in T : u = bound - n
  OBVIOUS
<1> HIDE DEF U
<1>4. PICK u \in U : \A m \in U : u <= m
  BY <1>1, LeastNat
<1>5. PICK n \in T : u = bound - n
  BY <1>3
<1>6. ASSUME NEW m \in T PROVE m <= n
  <2>1. u <= bound - m
    BY <1>2, <1>4
  <2> QED
    BY <1>5, <2>1
<1> QED
  BY <1>6

LEMMA Pieces ==
  ASSUME NEW S, NEW s \in Seq(S), NEW i \in 1..Len(s), NEW a \in Seq(S), NEW b \in Seq(S),
         Len(a) = i - 1, \A k \in 1..(i - 1) : a[k] = s[k],
         Len(b) = Len(s) - i, \A k \in 1..(Len(s) - i) : b[k] = s[i + k]
  PROVE  /\ a \o b \in Seq(S) /\ Len(a \o b) = Len(s) - 1
         /\ \A k \in 1..(Len(s) - 1) : (a \o b)[k] = IF k < i THEN s[k] ELSE s[k + 1]
<1>1. Len(s) \in Nat /\ i \in Nat /\ i >= 1 /\ i <= Len(s)
  BY LenProperties
<1>2. /\ a \o b \in Seq(S) /\ Len(a \o b) = Len(a) + Len(b)
      /\ \A k \in 1..(Len(a) + Len(b)) : (a \o b)[k] = IF k <= Len(a) THEN a[k] ELSE b[k - Len(a)]
  BY ConcatProperties
<1>3. ASSUME NEW k \in 1..(Len(s) - 1)
      PROVE  (a \o b)[k] = IF k < i THEN s[k] ELSE s[k + 1]
  <2>1. (a \o b)[k] = IF k <= Len(a) THEN a[k] ELSE b[k - Len(a)]
    BY <1>1, <1>2
  <2>2. CASE k < i
    BY <1>1, <2>1, <2>2
  <2>3. CASE ~(k < i)
    <3>1. k - (i - 1) \in 1..(Len(s) - i) /\ i + (k - (i - 1)) = k + 1
      BY <1>1, <2>3
    <3>2. (a \o b)[k] = b[k - (i - 1)]
      BY <1>1, <2>1, <2>3
    <3>3. b[k - (i - 1)] = s[k + 1]
      BY <3>1
    <3> QED
      BY <2>3, <3>2, <3>3
  <2> QED
    BY <2>2, <2>3
<1> QED
  BY <1>1, <1>2, <1>3

\* What is left of a sequence when the entry at i is removed.
LEMMA Removal ==
  ASSUME NEW S, NEW s \in Seq(S), NEW i \in 1..Len(s)
  PROVE  LET t == SubSeq(s, 1, i - 1) \o SubSeq(s, i + 1, Len(s))
         IN  /\ t \in Seq(S) /\ Len(t) = Len(s) - 1
             /\ \A k \in 1..(Len(s) - 1) : t[k] = IF k < i THEN s[k] ELSE s[k + 1]
<1> DEFINE a == SubSeq(s, 1, i - 1)
           b == SubSeq(s, i + 1, Len(s))
<1>1. Len(s) \in Nat /\ i \in Nat /\ i >= 1 /\ i <= Len(s) /\ \A k \in 1..Len(s) : s[k] \in S
  BY LenProperties, ElementOfSeq
<1>2. /\ a \in Seq(S) /\ Len(a) = i - 1
      /\ \A k \in 1..(i - 1) : a[k] = s[k]
  <2>1. \A k \in 1..(i - 1) : s[k] \in S
    BY <1>1
  <2>2. /\ a \in Seq(S) /\ Len(a) = IF 1 <= i - 1 THEN i - 1 - 1 + 1 ELSE 0
        /\ \A k \in 1..(i - 1 - 1 + 1) : a[k] = s[1 + k - 1]
    BY <1>1, <2>1, SubSeqProperties
  <2> QED
    BY <1>1, <2>2
<1>3. /\ b \in Seq(S) /\ Len(b) = Len(s) - i
      /\ \A k \in 1..(Len(s) - i) : b[k] = s[i + k]
  <2>1. \A k \in (i + 1)..Len(s) : s[k] \in S
    BY <1>1
  <2>2. /\ b \in Seq(S) /\ Len(b) = IF i + 1 <= Len(s) THEN Len(s) - (i + 1) + 1 ELSE 0
        /\ \A k \in 1..(Len(s) - (i + 1) + 1) : b[k] = s[(i + 1) + k - 1]
    BY <1>1, <2>1, SubSeqProperties
  <2>3. \A k \in 1..(Len(s) - i) : k \in 1..(Len(s) - (i + 1) + 1) /\ (i + 1) + k - 1 = i + k
    BY <1>1
  <2> QED
    BY <1>1, <2>2, <2>3
<1> HIDE DEF a, b
<1>4. /\ a \o b \in Seq(S) /\ Len(a \o b) = Len(s) - 1
      /\ \A k \in 1..(Len(s) - 1) : (a \o b)[k] = IF k < i THEN s[k] ELSE s[k + 1]
  BY <1>2, <1>3, Pieces
<1> QED
  BY <1>4 DEF a, b

-------------------------------------------------------------------------------
(* What an insertion, an alteration and a removal do to the rows *)

LEMMA TableDomain ==
  ASSUME entries \in Seq(Rows)
  PROVE  DOMAIN entries = 1..Len(entries) /\ Len(entries) \in Nat
BY LenProperties

LEMMA SeqOfRows ==
  ASSUME NEW S, entries' \in Seq(S)
  PROVE  entries' \in Seq(Rows')
<1>1. entries' \in Seq(Range(entries'))
  BY SeqOfRange
<1>2. Range(entries') = Rows'
  BY DEF Range, Rows
<1> QED
  BY <1>1, <1>2

LEMMA RowsAppended ==
  ASSUME entries \in Seq(Rows), HashesUnique, IdsUnique, NEW e, entries' = Append(entries, e),
         \A r \in Rows : r.hash # e.hash /\ r.id # e.id
  PROVE  entries' \in Seq(Rows') /\ HashesUnique' /\ IdsUnique' /\ Rows' = Rows \cup {e}
<1>1. DOMAIN entries = 1..Len(entries) /\ Len(entries) \in Nat
  BY TableDomain
<1>2. entries \in Seq(Rows \cup {e})
  BY SeqMonotonic
<1>3. /\ entries' \in Seq(Rows \cup {e}) /\ Len(entries') = Len(entries) + 1
      /\ \A i \in 1..Len(entries) : entries'[i] = entries[i]
      /\ entries'[Len(entries) + 1] = e
  BY <1>2, AppendProperties
<1>4. entries' \in Seq(Rows')
  BY <1>3, SeqOfRows
<1>5. DOMAIN entries' = 1..(Len(entries) + 1)
  BY <1>3, LenProperties
<1>6. \A i \in DOMAIN entries' : i \in DOMAIN entries \/ i = Len(entries) + 1
  BY <1>1, <1>5
<1>7. /\ \A i \in DOMAIN entries : i \in DOMAIN entries' /\ entries'[i] = entries[i]
                                  /\ entries[i] \in Rows /\ entries[i].hash # e.hash
                                  /\ entries[i].id # e.id
      /\ Len(entries) + 1 \in DOMAIN entries'
  BY <1>1, <1>3, <1>5 DEF Rows
<1>8. HashesUnique'
  <2> SUFFICES ASSUME NEW i \in DOMAIN entries', NEW j \in DOMAIN entries',
                      entries'[i].hash = entries'[j].hash
               PROVE  i = j
    BY DEF HashesUnique
  <2>1. CASE i \in DOMAIN entries /\ j \in DOMAIN entries
    BY <1>7, <2>1 DEF HashesUnique
  <2>2. CASE i \notin DOMAIN entries \/ j \notin DOMAIN entries
    BY <1>3, <1>6, <1>7, <2>2
  <2> QED
    BY <2>1, <2>2
<1>9. IdsUnique'
  <2> SUFFICES ASSUME NEW i \in DOMAIN entries', NEW j \in DOMAIN entries',
                      entries'[i].id = entries'[j].id
               PROVE  i = j
    BY DEF IdsUnique
  <2>1. CASE i \in DOMAIN entries /\ j \in DOMAIN entries
    BY <1>7, <2>1 DEF IdsUnique
  <2>2. CASE i \notin DOMAIN entries \/ j \notin DOMAIN entries
    BY <1>3, <1>6, <1>7, <2>2
  <2> QED
    BY <2>1, <2>2
<1>10. Rows' = Rows \cup {e}
  <2>1. ASSUME NEW r \in Rows' PROVE r \in Rows \cup {e}
    <3>1. PICK i \in DOMAIN entries' : r = entries'[i]
      BY DEF Rows
    <3> QED
      BY <1>3, <1>6, <1>7, <3>1
  <2>2. ASSUME NEW r \in Rows PROVE r \in Rows'
    <3>1. PICK i \in DOMAIN entries : r = entries[i]
      BY DEF Rows
    <3> QED
      BY <1>7, <3>1 DEF Rows
  <2>3. e \in Rows'
    BY <1>3, <1>7 DEF Rows
  <2> QED
    BY <2>1, <2>2, <2>3
<1> QED
  BY <1>4, <1>8, <1>9, <1>10

LEMMA RowsAltered ==
  ASSUME entries \in Seq(Rows), HashesUnique, IdsUnique, HashesUnique', NEW i \in DOMAIN entries,
         NEW e, e.id = entries[i].id, entries' = [entries EXCEPT ![i] = e]
  PROVE  entries' \in Seq(Rows') /\ IdsUnique' /\ Rows' = (Rows \ {entries[i]}) \cup {e}
<1>1. DOMAIN entries = 1..Len(entries) /\ Len(entries) \in Nat
  BY TableDomain
<1>2. entries \in Seq(Rows \cup {e})
  BY SeqMonotonic
<1>3. /\ entries' \in Seq(Rows \cup {e}) /\ Len(entries') = Len(entries)
      /\ \A k \in 1..Len(entries) : entries'[k] = IF k = i THEN e ELSE entries[k]
  BY <1>1, <1>2, ExceptSeq
<1>4. entries' \in Seq(Rows')
  BY <1>3, SeqOfRows
<1>5. DOMAIN entries' = DOMAIN entries
  BY <1>1, <1>3, LenProperties
<1>6. /\ \A k \in DOMAIN entries : entries'[k] = IF k = i THEN e ELSE entries[k]
      /\ \A k \in DOMAIN entries : entries'[k].id = entries[k].id
  BY <1>1, <1>3
<1>7. IdsUnique'
  BY <1>5, <1>6 DEF IdsUnique
<1>8. \A k \in DOMAIN entries : entries[k] = entries[i] => k = i
  BY DEF HashesUnique
<1>9. Rows' = (Rows \ {entries[i]}) \cup {e}
  <2>1. ASSUME NEW r \in Rows' PROVE r \in (Rows \ {entries[i]}) \cup {e}
    <3>1. PICK k \in DOMAIN entries : r = entries'[k]
      BY <1>5 DEF Rows
    <3>2. entries[k] \in Rows
      BY DEF Rows
    <3> QED
      BY <1>6, <1>8, <3>1, <3>2
  <2>2. ASSUME NEW r \in Rows \ {entries[i]} PROVE r \in Rows'
    <3>1. PICK k \in DOMAIN entries : r = entries[k]
      BY DEF Rows
    <3>2. k # i
      BY <3>1
    <3> QED
      BY <1>5, <1>6, <3>1, <3>2 DEF Rows
  <2>3. e \in Rows'
    BY <1>5, <1>6 DEF Rows
  <2> QED
    BY <2>1, <2>2, <2>3
<1> QED
  BY <1>4, <1>7, <1>9

LEMMA RowsRemoved ==
  ASSUME entries \in Seq(Rows), HashesUnique, IdsUnique, NEW i \in DOMAIN entries,
         entries' = SubSeq(entries, 1, i - 1) \o SubSeq(entries, i + 1, Len(entries))
  PROVE  entries' \in Seq(Rows') /\ HashesUnique' /\ IdsUnique' /\ Rows' = Rows \ {entries[i]}
<1>1. DOMAIN entries = 1..Len(entries) /\ Len(entries) \in Nat
  BY TableDomain
<1>2. /\ entries' \in Seq(Rows) /\ Len(entries') = Len(entries) - 1
      /\ \A k \in 1..(Len(entries) - 1) : entries'[k] = IF k < i THEN entries[k] ELSE entries[k + 1]
  BY <1>1, Removal
<1>3. entries' \in Seq(Rows')
  BY <1>2, SeqOfRows
<1>4. DOMAIN entries' = 1..(Len(entries) - 1)
  BY <1>2, LenProperties
<1> DEFINE from(k) == IF k < i THEN k ELSE k + 1
<1>5. \A k \in DOMAIN entries' : from(k) \in DOMAIN entries \ {i} /\ entries'[k] = entries[from(k)]
  <2> SUFFICES ASSUME NEW k \in DOMAIN entries'
               PROVE  from(k) \in DOMAIN entries \ {i} /\ entries'[k] = entries[from(k)]
    OBVIOUS
  <2>1. k \in 1..(Len(entries) - 1) /\ i \in 1..Len(entries)
    BY <1>1, <1>4
  <2>2. CASE k < i
    BY <1>1, <1>2, <2>1, <2>2
  <2>3. CASE ~(k < i)
    <3>1. entries'[k] = entries[k + 1]
      BY <1>2, <2>1, <2>3
    <3>2. from(k) = k + 1
      BY <2>3
    <3>3. k + 1 \in 1..Len(entries) /\ k + 1 # i
      BY <1>1, <2>1, <2>3
    <3> QED
      BY <1>1, <3>1, <3>2, <3>3
  <2> QED
    BY <2>2, <2>3
<1>6. \A k, j \in DOMAIN entries' : from(k) = from(j) => k = j
  BY <1>1, <1>4
<1>7. \A j \in DOMAIN entries \ {i} : \E k \in DOMAIN entries' : j = from(k)
  <2> SUFFICES ASSUME NEW j \in DOMAIN entries \ {i}
               PROVE  \E k \in DOMAIN entries' : j = from(k)
    OBVIOUS
  <2>1. CASE j < i
    <3>1. j \in DOMAIN entries' /\ j = from(j)
      BY <1>1, <1>4, <2>1
    <3> QED
      BY <3>1
  <2>2. CASE ~(j < i)
    <3>1. j \in Int /\ i \in Int /\ i < j /\ 1 <= i /\ j <= Len(entries) /\ Len(entries) \in Nat
      BY <1>1, <2>2
    <3>2. j - 1 \in 1..(Len(entries) - 1) /\ ~(j - 1 < i) /\ (j - 1) + 1 = j
      BY <3>1
    <3>3. j - 1 \in DOMAIN entries' /\ j = from(j - 1)
      BY <1>4, <3>2
    <3> QED
      BY <3>3
  <2> QED
    BY <2>1, <2>2
<1> HIDE DEF from
<1>8. HashesUnique'
  <2> SUFFICES ASSUME NEW k \in DOMAIN entries', NEW j \in DOMAIN entries',
                      entries'[k].hash = entries'[j].hash
               PROVE  k = j
    BY DEF HashesUnique
  <2>1. entries[from(k)].hash = entries[from(j)].hash
    BY <1>5
  <2>2. from(k) = from(j)
    BY <1>5, <2>1 DEF HashesUnique
  <2> QED
    BY <1>6, <2>2
<1>9. IdsUnique'
  <2> SUFFICES ASSUME NEW k \in DOMAIN entries', NEW j \in DOMAIN entries',
                      entries'[k].id = entries'[j].id
               PROVE  k = j
    BY DEF IdsUnique
  <2>1. entries[from(k)].id = entries[from(j)].id
    BY <1>5
  <2>2. from(k) = from(j)
    BY <1>5, <2>1 DEF IdsUnique
  <2> QED
    BY <1>6, <2>2
<1>10. \A k \in DOMAIN entries : entries[k] = entries[i] => k = i
  BY DEF HashesUnique
<1>11. Rows' = Rows \ {entries[i]}
  <2>1. ASSUME NEW r \in Rows' PROVE r \in Rows \ {entries[i]}
    <3>1. PICK k \in DOMAIN entries' : r = entries'[k]
      BY DEF Rows
    <3>2. from(k) \in DOMAIN entries \ {i} /\ r = entries[from(k)]
      BY <1>5, <3>1
    <3> QED
      BY <1>10, <3>2 DEF Rows
  <2>2. ASSUME NEW r \in Rows \ {entries[i]} PROVE r \in Rows'
    <3>1. PICK j \in DOMAIN entries : r = entries[j]
      BY DEF Rows
    <3>2. PICK k \in DOMAIN entries' : j = from(k)
      BY <1>7, <3>1
    <3> QED
      BY <1>5, <3>1, <3>2 DEF Rows
  <2> QED
    BY <2>1, <2>2
<1> QED
  BY <1>3, <1>8, <1>9, <1>11
-------------------------------------------------------------------------------
(* ChainInv is inductive *)

LEMMA ChainInvInit == Init => ChainInv
<1> SUFFICES ASSUME Init PROVE ChainInv
  OBVIOUS
<1>1. entries = <<>> /\ tampered = <<>> /\ DOMAIN entries = {}
  BY DEF Init
<1>2. Rows = {}
  BY <1>1 DEF Rows
<1>3. TableOK /\ IdsTaken
  BY <1>1, <1>2, EmptySeq DEF TableOK, HashesUnique, IdsUnique, IdsTaken
<1>4. CallsOK
  BY ClockAssumption DEF Init, CallsOK, Chains
<1>5. EntriesLinked /\ CallsLinked /\ OriginalsLinked
  BY <1>2 DEF Init, EntriesLinked, CallsLinked, OriginalsLinked
<1> QED
  BY <1>3, <1>4, <1>5 DEF ChainInv

\* Entries created at or after the time of a search do not change what it can have found.
LEMMA FoundAtGrows ==
  ASSUME NEW c, NEW h, NEW s, FoundAt(c, h, s), RowsOf(c) \subseteq RowsOf(c)',
         s \in Int,
         \A e \in RowsOf(c)' \ RowsOf(c) : e.createdAt \in Int /\ e.createdAt >= s
  PROVE  FoundAt(c, h, s)'
<1>1. h = GENESIS \/ \E p \in RowsOf(c)' : p.hash = h /\ p.createdAt <= s
  BY DEF FoundAt
<1>2. ASSUME NEW e \in RowsOf(c)', e.createdAt < s
      PROVE  \E p \in RowsOf(c)' : p.hash = h /\ e.createdAt <= p.createdAt
  <2>1. e \in RowsOf(c)
    BY <1>2
  <2>2. PICK p \in RowsOf(c) : p.hash = h /\ e.createdAt <= p.createdAt
    BY <1>2, <2>1 DEF FoundAt
  <2> QED
    BY <2>2
<1> QED
  BY <1>1, <1>2 DEF FoundAt

LEMMA TableUntouched ==
  ASSUME TableOK, UNCHANGED <<entries, tampered>>
  PROVE  /\ TableOK' /\ Rows' = Rows /\ \A c : RowsOf(c)' = RowsOf(c)
         /\ \A c : Untouched(c)' <=> Untouched(c)
         /\ \A c, h, t : FoundAt(c, h, t)' <=> FoundAt(c, h, t)
<1>1. Rows' = Rows /\ HashesUnique' = HashesUnique /\ IdsUnique' = IdsUnique
  BY DEF Rows, HashesUnique, IdsUnique
<1>2. \A c : RowsOf(c)' = RowsOf(c)
  BY <1>1 DEF RowsOf
<1>3. \A c, h, t : FoundAt(c, h, t)' <=> FoundAt(c, h, t)
  BY <1>2 DEF FoundAt
<1> QED
  BY <1>1, <1>2, <1>3 DEF TableOK, Untouched

LEMMA Tampering ==
  ASSUME TableOK, NEW d \in SUBSET Chains, tampered' = Append(tampered, d)
  PROVE  /\ tampered' \in Seq(SUBSET Chains)
         /\ Len(tampered) \in Nat /\ Len(tampered') = Len(tampered) + 1
         /\ \A c : Untouched(c)' => Untouched(c) /\ c \notin d
<1>1. /\ tampered' \in Seq(SUBSET Chains) /\ Len(tampered') = Len(tampered) + 1
      /\ \A i \in 1..Len(tampered) : tampered'[i] = tampered[i]
      /\ tampered'[Len(tampered) + 1] = d
      /\ Len(tampered) \in Nat
  BY AppendProperties, LenProperties DEF TableOK
<1>2. DOMAIN tampered = 1..Len(tampered) /\ DOMAIN tampered' = 1..(Len(tampered) + 1)
  BY <1>1, LenProperties DEF TableOK
<1>3. \A i \in DOMAIN tampered : i \in DOMAIN tampered' /\ tampered'[i] = tampered[i]
  BY <1>1, <1>2
<1>4. Len(tampered) + 1 \in DOMAIN tampered'
  BY <1>1, <1>2
<1> QED
  BY <1>1, <1>3, <1>4 DEF Untouched

(* A tampering that leaves the rows of all chains alone but those that are no *)
(* longer untouched, and takes no id but its own.                             *)
LEMMA TamperKeeps ==
  ASSUME ChainInv, NEW table, NEW d \in SUBSET Chains, Tamper(table, d),
         entries' \in Seq(Rows'), IdsUnique',
         \A e \in Rows' : /\ RowTypeOK(e)
                          /\ \/ \E r \in Rows : r.id = e.id
                             \/ e.id = <<"forged", Len(tampered)>>
         , \A c : c \notin d => RowsOf(c)' = RowsOf(c)
  PROVE  ChainInv'
<1>1. /\ entries' = table /\ tampered' = Append(tampered, d) /\ UNCHANGED <<clock, callVars, original>>
      /\ \A i, j \in DOMAIN table : table[i].hash = table[j].hash => i = j
  BY DEF Tamper
<1>2. /\ tampered' \in Seq(SUBSET Chains)
      /\ Len(tampered) \in Nat /\ Len(tampered') = Len(tampered) + 1
      /\ \A c : Untouched(c)' => Untouched(c) /\ c \notin d
  BY <1>1, Tampering DEF ChainInv
<1>3. TableOK'
  BY <1>1, <1>2 DEF TableOK, HashesUnique
<1>4. IdsTaken'
  <2> SUFFICES ASSUME NEW e \in Rows'
               PROVE  \/ \E w \in Calls : e.id = <<"log", w>> /\ call'[w] = "over"
                      \/ \E n \in Nat : e.id = <<"forged", n>> /\ n < Len(tampered')
    BY DEF IdsTaken
  <2>1. CASE \E r \in Rows : r.id = e.id
    <3>1. PICK r \in Rows : r.id = e.id
      BY <2>1
    <3>2. CASE \E w \in Calls : r.id = <<"log", w>> /\ call[w] = "over"
      BY <1>1, <3>1, <3>2 DEF callVars
    <3>3. ASSUME NEW n \in Nat, r.id = <<"forged", n>>, n < Len(tampered)
          PROVE  e.id = <<"forged", n>> /\ n < Len(tampered')
      BY <1>2, <3>1, <3>3
    <3> QED
      BY <3>2, <3>3 DEF ChainInv, IdsTaken
  <2>2. CASE e.id = <<"forged", Len(tampered)>>
    <3>1. Len(tampered) < Len(tampered')
      BY <1>2
    <3> QED
      BY <1>2, <2>2, <3>1
  <2> QED
    BY <2>1, <2>2
<1>5. CallsOK'
  BY <1>1 DEF ChainInv, CallsOK, callVars
<1>6. \A c, h, t : Untouched(c)' /\ FoundAt(c, h, t) => FoundAt(c, h, t)'
  BY <1>2 DEF FoundAt
<1>7. ASSUME NEW e \in Rows', Untouched(e.chain)' PROVE e \in Rows /\ Untouched(e.chain)
  <2>1. Untouched(e.chain) /\ e.chain \notin d
    BY <1>2, <1>7
  <2>2. e \in RowsOf(e.chain)'
    BY DEF RowsOf
  <2> QED
    BY <2>1, <2>2 DEF RowsOf
<1>8. EntriesLinked'
  BY <1>1, <1>6, <1>7 DEF ChainInv, EntriesLinked, Linked
<1>9. CallsLinked'
  BY <1>1, <1>2, <1>6 DEF ChainInv, CallsLinked, callVars
<1>10. OriginalsLinked'
  BY <1>1, <1>7 DEF ChainInv, OriginalsLinked
<1> QED
  BY <1>3, <1>4, <1>5, <1>8, <1>9, <1>10 DEF ChainInv

\* A tampering that puts another row in the place of one.
LEMMA ReplaceKeeps ==
  ASSUME ChainInv, NEW i \in DOMAIN entries, NEW e, RowTypeOK(e), e.id = entries[i].id,
         NEW d \in SUBSET Chains, entries[i].chain \in d, e.chain \in d,
         Tamper([entries EXCEPT ![i] = e], d)
  PROVE  ChainInv'
<1>1. entries \in Seq(Rows) /\ HashesUnique /\ IdsUnique /\ \A q \in Rows : RowTypeOK(q)
  BY DEF ChainInv, TableOK
<1>2. entries' = [entries EXCEPT ![i] = e] /\ HashesUnique'
  BY DEF Tamper, HashesUnique
<1>3. entries' \in Seq(Rows') /\ IdsUnique' /\ Rows' = (Rows \ {entries[i]}) \cup {e}
  BY <1>1, <1>2, RowsAltered
<1>4. entries[i] \in Rows
  BY DEF Rows
<1>5. \A q \in Rows' : RowTypeOK(q) /\ \E r \in Rows : r.id = q.id
  BY <1>1, <1>3, <1>4
<1>6. \A c : c \notin d => RowsOf(c)' = RowsOf(c)
  BY <1>3 DEF RowsOf
<1> QED
  BY <1>3, <1>5, <1>6, TamperKeeps

LEMMA RowChanged ==
  ASSUME NEW r, RowTypeOK(r), NEW x, NEW p, NEW h
  PROVE  /\ [r EXCEPT !.content = x] =
              [id |-> r.id, chain |-> r.chain, content |-> x,
               previousHash |-> r.previousHash, hash |-> r.hash, createdAt |-> r.createdAt]
         /\ [r EXCEPT !.createdAt = x] =
              [id |-> r.id, chain |-> r.chain, content |-> r.content,
               previousHash |-> r.previousHash, hash |-> r.hash, createdAt |-> x]
         /\ [r EXCEPT !.chain = x] =
              [id |-> r.id, chain |-> x, content |-> r.content,
               previousHash |-> r.previousHash, hash |-> r.hash, createdAt |-> r.createdAt]
         /\ [r EXCEPT !.content = x, !.previousHash = p, !.hash = h] =
              [id |-> r.id, chain |-> r.chain, content |-> x,
               previousHash |-> p, hash |-> h, createdAt |-> r.createdAt]
<1>1. [r EXCEPT !.content = x] =
       [id |-> r.id, chain |-> r.chain, content |-> x,
        previousHash |-> r.previousHash, hash |-> r.hash, createdAt |-> r.createdAt]
  <2>1. PICK e : e = [r EXCEPT !.content = x]
    OBVIOUS
  <2>2. e = [id |-> r.id, chain |-> r.chain, content |-> x,
             previousHash |-> r.previousHash, hash |-> r.hash, createdAt |-> r.createdAt]
    BY <2>1 DEF RowTypeOK
  <2> QED
    BY <2>1, <2>2, Zenon
<1>2. [r EXCEPT !.createdAt = x] =
       [id |-> r.id, chain |-> r.chain, content |-> r.content,
        previousHash |-> r.previousHash, hash |-> r.hash, createdAt |-> x]
  <2>1. PICK e : e = [r EXCEPT !.createdAt = x]
    OBVIOUS
  <2>2. e = [id |-> r.id, chain |-> r.chain, content |-> r.content,
             previousHash |-> r.previousHash, hash |-> r.hash, createdAt |-> x]
    BY <2>1 DEF RowTypeOK
  <2> QED
    BY <2>1, <2>2, Zenon
<1>3. [r EXCEPT !.chain = x] =
       [id |-> r.id, chain |-> x, content |-> r.content,
        previousHash |-> r.previousHash, hash |-> r.hash, createdAt |-> r.createdAt]
  <2>1. PICK e : e = [r EXCEPT !.chain = x]
    OBVIOUS
  <2>2. e = [id |-> r.id, chain |-> x, content |-> r.content,
             previousHash |-> r.previousHash, hash |-> r.hash, createdAt |-> r.createdAt]
    BY <2>1 DEF RowTypeOK
  <2> QED
    BY <2>1, <2>2, Zenon
<1>4. [r EXCEPT !.content = x, !.previousHash = p, !.hash = h] =
       [id |-> r.id, chain |-> r.chain, content |-> x,
        previousHash |-> p, hash |-> h, createdAt |-> r.createdAt]
  <2>1. PICK e : e = [r EXCEPT !.content = x, !.previousHash = p, !.hash = h]
    OBVIOUS
  <2>2. e = [id |-> r.id, chain |-> r.chain, content |-> x,
             previousHash |-> p, hash |-> h, createdAt |-> r.createdAt]
    BY <2>1 DEF RowTypeOK
  <2> QED
    BY <2>1, <2>2, Zenon
<1> QED
  BY <1>1, <1>2, <1>3, <1>4, Zenon

LEMMA AlterKeeps ==
  ASSUME ChainInv, NEW i \in DOMAIN entries, Alter(i) PROVE ChainInv'
<1> DEFINE r == entries[i]
<1>1. RowTypeOK(r) /\ r.chain \in Chains
  <2>1. RowTypeOK(r)
    BY DEF ChainInv, TableOK, Rows
  <2> QED
    BY <2>1 DEF RowTypeOK
<1>2. ASSUME NEW x \in Forgeries, Tamper([entries EXCEPT ![i].content = x], {r.chain})
      PROVE  ChainInv'
  <2> DEFINE e == [id |-> r.id, chain |-> r.chain, content |-> x,
                   previousHash |-> r.previousHash, hash |-> r.hash, createdAt |-> r.createdAt]
  <2>1. [r EXCEPT !.content = x] = e
    BY <1>1, RowChanged
  <2>2. RowTypeOK(e) /\ e.id = r.id /\ e.chain = r.chain
    BY <1>1 DEF RowTypeOK
  <2>3. Tamper([entries EXCEPT ![i] = e], {r.chain})
    BY <1>2, <2>1
  <2> HIDE DEF e
  <2> QED
    BY <1>1, <2>2, <2>3, ReplaceKeeps
<1>3. ASSUME NEW t \in 0..MaxClock, Tamper([entries EXCEPT ![i].createdAt = t], {r.chain})
      PROVE  ChainInv'
  <2> DEFINE e == [id |-> r.id, chain |-> r.chain, content |-> r.content,
                   previousHash |-> r.previousHash, hash |-> r.hash, createdAt |-> t]
  <2>1. [r EXCEPT !.createdAt = t] = e
    BY <1>1, RowChanged
  <2>2. RowTypeOK(e) /\ e.id = r.id /\ e.chain = r.chain
    BY <1>1 DEF RowTypeOK
  <2>3. Tamper([entries EXCEPT ![i] = e], {r.chain})
    BY <1>3, <2>1
  <2> HIDE DEF e
  <2> QED
    BY <1>1, <2>2, <2>3, ReplaceKeeps
<1>4. ASSUME NEW c \in Chains, Tamper([entries EXCEPT ![i].chain = c], {r.chain, c})
      PROVE  ChainInv'
  <2> DEFINE e == [id |-> r.id, chain |-> c, content |-> r.content,
                   previousHash |-> r.previousHash, hash |-> r.hash, createdAt |-> r.createdAt]
  <2>1. [r EXCEPT !.chain = c] = e
    BY <1>1, RowChanged
  <2>2. RowTypeOK(e) /\ e.id = r.id /\ e.chain = c
    BY <1>1 DEF RowTypeOK
  <2>3. Tamper([entries EXCEPT ![i] = e], {r.chain, c})
    BY <1>4, <2>1
  <2> HIDE DEF e
  <2> QED
    BY <1>1, <2>2, <2>3, ReplaceKeeps
<1> QED
  BY <1>2, <1>3, <1>4 DEF Alter

LEMMA TripleIsNoGenesis == \A a, b, c : <<a, b, c>> # GENESIS /\ Len(<<a, b, c>>) = 3
<1> SUFFICES ASSUME NEW a, NEW b, NEW c
             PROVE  <<a, b, c>> # GENESIS /\ Len(<<a, b, c>>) = 3
  OBVIOUS
<1>1. Len(<<a, b, c>>) = 3 /\ Len(<<>>) = 0
  BY EmptySeq
<1> QED
  BY <1>1 DEF GENESIS

LEMMA HashOfRow ==
  ASSUME NEW r, RowTypeOK(r) PROVE r.hash # GENESIS /\ Len(r.hash) = 3
<1>1. r.hash = <<r.previousHash, r.hash[2], r.hash[3]>>
  BY DEF RowTypeOK
<1>2. \A a, b, c : <<a, b, c>> # GENESIS /\ Len(<<a, b, c>>) = 3
  BY TripleIsNoGenesis
<1> QED
  BY <1>1, <1>2, Zenon

\* What a row with a computed hash is.
LEMMA ForgedRow ==
  ASSUME ChainInv, NEW among \in SUBSET DOMAIN entries, NEW p \in Links(among),
         NEW x \in Forgeries, NEW t \in 0..MaxClock, NEW c \in Chains, NEW id
  PROVE  RowTypeOK([id |-> id, chain |-> c, content |-> x, previousHash |-> p,
                    hash |-> Hash(p, x, t), createdAt |-> t])
<1>1. p = GENESIS \/ Len(p) = 3
  <2>1. CASE p = GENESIS
    BY <2>1
  <2>2. ASSUME NEW j \in among, p = entries[j].hash PROVE Len(p) = 3
    <3>1. RowTypeOK(entries[j])
      BY DEF ChainInv, TableOK, Rows
    <3> QED
      BY <2>2, <3>1, HashOfRow
  <2> QED
    BY <2>1, <2>2 DEF Links
<1> DEFINE h == Hash(p, x, t)
<1>2. h = <<p, h[2], h[3]>> /\ h[3] \in Nat
  BY ClockAssumption DEF Hash
<1> HIDE DEF h
<1>3. RowTypeOK([id |-> id, chain |-> c, content |-> x, previousHash |-> p,
                 hash |-> h, createdAt |-> t])
  BY <1>1, <1>2 DEF RowTypeOK
<1> QED
  BY <1>3 DEF h

LEMMA RewriteKeeps ==
  ASSUME ChainInv, NEW i \in DOMAIN entries, Rewrite(i) PROVE ChainInv'
<1> DEFINE r == entries[i]
<1>1. RowTypeOK(r) /\ r.chain \in Chains /\ r.createdAt \in 0..MaxClock
  <2>1. RowTypeOK(r)
    BY DEF ChainInv, TableOK, Rows
  <2> QED
    BY <2>1 DEF RowTypeOK
<1> DEFINE among == ChainEntries(r.chain) \ {i}
<1>2. PICK x \in Forgeries, p \in Links(among) :
        Tamper([entries EXCEPT ![i] = [@ EXCEPT !.content = x, !.previousHash = p,
                                                !.hash = Hash(p, x, r.createdAt)]],
               {r.chain})
  BY DEF Rewrite
<1> DEFINE e == [id |-> r.id, chain |-> r.chain, content |-> x, previousHash |-> p,
                 hash |-> Hash(p, x, r.createdAt), createdAt |-> r.createdAt]
<1>3. [r EXCEPT !.content = x, !.previousHash = p, !.hash = Hash(p, x, r.createdAt)] = e
  <2>1. PICK h : h = Hash(p, x, r.createdAt)
    OBVIOUS
  <2>2. PICK q : q = [r EXCEPT !.content = x, !.previousHash = p, !.hash = h]
    OBVIOUS
  <2>3. q = [id |-> r.id, chain |-> r.chain, content |-> x, previousHash |-> p, hash |-> h,
             createdAt |-> r.createdAt]
    BY <1>1, <2>2 DEF RowTypeOK
  <2> QED
    BY <2>1, <2>2, <2>3, Zenon
<1>4. RowTypeOK(e)
  <2>1. among \in SUBSET DOMAIN entries
    BY DEF ChainEntries
  <2> HIDE DEF among
  <2> QED
    BY <1>1, <2>1, ForgedRow
<1>5. e.id = r.id /\ e.chain = r.chain
  OBVIOUS
<1>6. Tamper([entries EXCEPT ![i] = e], {r.chain})
  <2> HIDE DEF e
  <2> QED
    BY <1>2, <1>3
<1> HIDE DEF e
<1> QED
  BY <1>1, <1>4, <1>5, <1>6, ReplaceKeeps

LEMMA InsertKeeps ==
  ASSUME ChainInv, NEW c \in Chains, Insert(c) PROVE ChainInv'
<1>1. /\ entries \in Seq(Rows) /\ HashesUnique /\ IdsUnique /\ \A q \in Rows : RowTypeOK(q)
      /\ clock \in 0..MaxClock /\ Len(tampered) \in Nat
  BY LenProperties DEF ChainInv, TableOK, CallsOK
<1>2. PICK x \in Forgeries, p \in Links(ChainEntries(c)) :
        Tamper(Append(entries, [id |-> <<"forged", Len(tampered)>>, chain |-> c, content |-> x,
                                previousHash |-> p, hash |-> Hash(p, x, clock), createdAt |-> clock]),
               {c})
  BY DEF Insert
<1> DEFINE e == [id |-> <<"forged", Len(tampered)>>, chain |-> c, content |-> x,
                 previousHash |-> p, hash |-> Hash(p, x, clock), createdAt |-> clock]
<1>3. RowTypeOK(e)
  <2>1. ChainEntries(c) \in SUBSET DOMAIN entries
    BY DEF ChainEntries
  <2> QED
    BY <1>1, <2>1, ForgedRow
<1>4. e.id = <<"forged", Len(tampered)>> /\ e.chain = c
  OBVIOUS
<1>5. Tamper(Append(entries, e), {c})
  BY <1>2
<1> HIDE DEF e
<1>6. /\ entries' = Append(entries, e)
      /\ \A j, k \in DOMAIN entries' : entries'[j].hash = entries'[k].hash => j = k
  BY <1>5 DEF Tamper
<1>7. \A r \in Rows : r.id # e.id
  <2> SUFFICES ASSUME NEW r \in Rows, r.id = e.id PROVE FALSE
    OBVIOUS
  <2>1. \A w : <<"log", w>> # <<"forged", Len(tampered)>>
    OBVIOUS
  <2>2. PICK n \in Nat : r.id = <<"forged", n>> /\ n < Len(tampered)
    BY <1>4, <2>1 DEF ChainInv, IdsTaken
  <2>3. n = Len(tampered)
    BY <1>4, <2>2
  <2> QED
    BY <1>1, <2>2, <2>3
<1>8. \A r \in Rows : r.hash # e.hash
  <2> SUFFICES ASSUME NEW r \in Rows, r.hash = e.hash PROVE FALSE
    OBVIOUS
  <2>1. DOMAIN entries = 1..Len(entries) /\ Len(entries) \in Nat
    BY <1>1, TableDomain
  <2>2. /\ entries' \in Seq(Rows \cup {e}) /\ Len(entries') = Len(entries) + 1
        /\ \A k \in 1..Len(entries) : entries'[k] = entries[k]
        /\ entries'[Len(entries) + 1] = e
    <3>1. entries \in Seq(Rows \cup {e})
      BY <1>1, SeqMonotonic
    <3> QED
      BY <1>6, <3>1, AppendProperties
  <2>3. DOMAIN entries' = 1..(Len(entries) + 1)
    BY <2>2, LenProperties
  <2>4. PICK k \in DOMAIN entries : r = entries[k]
    BY DEF Rows
  <2>5. k \in DOMAIN entries' /\ Len(entries) + 1 \in DOMAIN entries' /\ k # Len(entries) + 1
    BY <2>1, <2>3, <2>4
  <2> QED
    BY <1>6, <2>1, <2>2, <2>4, <2>5
<1>9. entries' \in Seq(Rows') /\ IdsUnique' /\ Rows' = Rows \cup {e}
  BY <1>1, <1>6, <1>7, <1>8, RowsAppended
<1>10. \A q \in Rows' : RowTypeOK(q) /\ ((\E r \in Rows : r.id = q.id) \/ q.id = <<"forged", Len(tampered)>>)
  BY <1>1, <1>3, <1>4, <1>9
<1>11. \A b : b \notin {c} => RowsOf(b)' = RowsOf(b)
  BY <1>4, <1>9 DEF RowsOf
<1> QED
  BY <1>5, <1>9, <1>10, <1>11, TamperKeeps

LEMMA RemoveKeeps ==
  ASSUME ChainInv, NEW i \in DOMAIN entries, Remove(i) PROVE ChainInv'
<1> DEFINE r == entries[i]
<1>1. /\ entries \in Seq(Rows) /\ HashesUnique /\ IdsUnique /\ r \in Rows
      /\ \A q \in Rows : RowTypeOK(q)
  BY DEF ChainInv, TableOK, Rows
<1>2. r.chain \in Chains
  BY <1>1 DEF RowTypeOK
<1>3. entries' = SubSeq(entries, 1, i - 1) \o SubSeq(entries, i + 1, Len(entries))
  BY DEF Remove, Tamper
<1>4. entries' \in Seq(Rows') /\ IdsUnique' /\ Rows' = Rows \ {r}
  BY <1>1, <1>3, RowsRemoved
<1>5. \A q \in Rows' : RowTypeOK(q) /\ \E p \in Rows : p.id = q.id
  BY <1>1, <1>4
<1>6. \A c : c \notin {r.chain} => RowsOf(c)' = RowsOf(c)
  BY <1>4 DEF RowsOf
<1>7. PICK table : table = entries'
  OBVIOUS
<1>8. Tamper(table, {r.chain})
  BY <1>3, <1>7 DEF Remove
<1> QED
  BY <1>2, <1>4, <1>5, <1>6, <1>8, TamperKeeps

\* Steps that neither write to the table nor search it.
LEMMA OtherStepsKeep ==
  ASSUME ChainInv, UNCHANGED <<entries, tampered, original>>, CallsOK', clock' >= clock,
         \A w \in Calls : call[w] = "over" => call'[w] = "over",
         \A w \in Calls : call'[w] = "create" =>
            /\ call[w] = "create" /\ chain'[w] = chain[w]
            /\ previous'[w] = previous[w] /\ timestamp'[w] = timestamp[w]
  PROVE  ChainInv'
<1>1. clock \in Int /\ clock' \in Int
  BY ClockAssumption DEF ChainInv, CallsOK
<1>2. /\ TableOK' /\ Rows' = Rows /\ \A c : RowsOf(c)' = RowsOf(c)
      /\ \A c : Untouched(c)' <=> Untouched(c)
      /\ \A c, h, t : FoundAt(c, h, t)' <=> FoundAt(c, h, t)
  BY TableUntouched DEF ChainInv
<1>3. IdsTaken'
  BY <1>2 DEF ChainInv, IdsTaken
<1>4. EntriesLinked'
  <2> SUFFICES ASSUME NEW e \in Rows, Untouched(e.chain)
               PROVE  Linked(e)'
    BY <1>2 DEF EntriesLinked
  <2>1. Linked(e) /\ e.createdAt \in Int
    BY DEF ChainInv, EntriesLinked, TableOK, RowTypeOK
  <2>2. e.createdAt <= clock'
    BY <1>1, <2>1 DEF Linked
  <2> QED
    BY <1>2, <2>1, <2>2 DEF Linked
<1>5. CallsLinked'
  BY <1>2 DEF ChainInv, CallsLinked
<1>6. OriginalsLinked'
  BY <1>2 DEF ChainInv, OriginalsLinked
<1> QED
  BY <1>2, <1>3, <1>4, <1>5, <1>6 DEF ChainInv

\* A search finds an entry no other of its chain is newer than, or there is none.
LEMMA NewestFound ==
  ASSUME TableOK, NEW c, Newest(ChainEntries(c)) = {}
  PROVE  RowsOf(c) = {}
<1> SUFFICES ASSUME RowsOf(c) # {} PROVE FALSE
  OBVIOUS
<1> DEFINE T == {e.createdAt : e \in RowsOf(c)}
<1>1. \A e \in RowsOf(c) : e.createdAt \in Nat /\ e.createdAt <= MaxClock
  BY ClockAssumption DEF TableOK, RowsOf, RowTypeOK
<1>2. T \in SUBSET Nat /\ T # {} /\ \A n \in T : n <= MaxClock
  BY <1>1
<1>3. MaxClock \in Nat
  BY ClockAssumption
<1>4. PICK n \in T : \A m \in T : m <= n
  <2> HIDE DEF T
  <2> QED
    BY <1>2, <1>3, GreatestNat
<1>5. PICK e \in RowsOf(c) : e.createdAt = n
  BY <1>4
<1>6. PICK i \in DOMAIN entries : entries[i] = e /\ i \in ChainEntries(c)
  BY <1>5 DEF RowsOf, Rows, ChainEntries
<1>7. ASSUME NEW j \in ChainEntries(c) PROVE entries[j].createdAt <= entries[i].createdAt
  <2>1. entries[j] \in RowsOf(c)
    BY DEF ChainEntries, RowsOf, Rows
  <2> QED
    BY <1>4, <1>5, <1>6, <2>1
<1>8. i \in Newest(ChainEntries(c))
  BY <1>6, <1>7 DEF Newest
<1> QED
  BY <1>8

LEMMA FindPreviousKeeps ==
  ASSUME ChainInv, NEW w \in Calls, FindPrevious(w) PROVE ChainInv'
<1> DEFINE c == chain[w]
<1>1. TableOK /\ IdsTaken /\ CallsOK /\ EntriesLinked /\ CallsLinked /\ OriginalsLinked
  BY DEF ChainInv
<1>2. /\ call[w] = "find"
      /\ timestamp' = [timestamp EXCEPT ![w] = clock] /\ call' = [call EXCEPT ![w] = "create"]
      /\ UNCHANGED <<entries, clock, chain, content, tampered, original>>
      /\ \E h : previous' = [previous EXCEPT ![w] = h]
      /\ \/ Newest(ChainEntries(c)) = {} /\ previous' = [previous EXCEPT ![w] = GENESIS]
         \/ \E i \in Newest(ChainEntries(c)) : previous' = [previous EXCEPT ![w] = entries[i].hash]
  BY DEF FindPrevious, ChainTo, Goto
<1>3. clock \in Nat /\ clock \in Int /\ clock' = clock
  BY <1>1, <1>2, ClockAssumption DEF CallsOK
<1>4. /\ TableOK' /\ Rows' = Rows /\ \A d : RowsOf(d)' = RowsOf(d)
      /\ \A d : Untouched(d)' <=> Untouched(d)
      /\ \A d, h, t : FoundAt(d, h, t)' <=> FoundAt(d, h, t)
  BY <1>1, <1>2, TableUntouched
<1>5. IdsTaken'
  <2>1. \A q \in Calls : call[q] = "over" => call'[q] = "over"
    BY <1>1, <1>2 DEF CallsOK
  <2> QED
    BY <1>1, <1>2, <1>4, <2>1 DEF IdsTaken
<1>6. /\ previous'[w] = GENESIS \/ Len(previous'[w]) = 3
      /\ Untouched(c) => FoundAt(c, previous'[w], clock)
  <2>1. \A e \in RowsOf(c) : e \in Rows /\ e.chain = c /\ RowTypeOK(e)
    BY <1>1 DEF TableOK, RowsOf
  <2>2. CASE Newest(ChainEntries(c)) = {} /\ previous' = [previous EXCEPT ![w] = GENESIS]
    <3>1. RowsOf(c) = {}
      BY <1>1, <2>2, NewestFound
    <3>2. previous'[w] = GENESIS
      BY <1>1, <2>2 DEF CallsOK
    <3> QED
      BY <3>1, <3>2 DEF FoundAt
  <2>3. ASSUME NEW i \in Newest(ChainEntries(c)), previous' = [previous EXCEPT ![w] = entries[i].hash]
        PROVE  /\ previous'[w] = GENESIS \/ Len(previous'[w]) = 3
               /\ Untouched(c) => FoundAt(c, previous'[w], clock)
    <3>1. previous'[w] = entries[i].hash
      BY <1>1, <2>3 DEF CallsOK
    <3>2. entries[i] \in RowsOf(c)
      BY DEF Newest, ChainEntries, RowsOf, Rows
    <3>3. ASSUME NEW e \in RowsOf(c) PROVE e.createdAt <= entries[i].createdAt
      <4>1. PICK j \in ChainEntries(c) : entries[j] = e
        BY DEF RowsOf, Rows, ChainEntries
      <4> QED
        BY <4>1 DEF Newest
    <3>4. ASSUME Untouched(c) PROVE FoundAt(c, previous'[w], clock)
      <4>1. entries[i].createdAt <= clock
        BY <1>1, <2>1, <3>2, <3>4 DEF EntriesLinked, Linked
      <4> QED
        BY <3>1, <3>2, <3>3, <4>1 DEF FoundAt
    <3>5. Len(previous'[w]) = 3
      BY <2>1, <3>1, <3>2, HashOfRow
    <3> QED
      BY <3>4, <3>5
  <2> QED
    BY <1>2, <2>2, <2>3
<1>7. CallsOK'
  <2>1. /\ previous' = [q \in Calls |-> previous'[q]]
        /\ \A q \in Calls : previous'[q] = GENESIS \/ Len(previous'[q]) = 3
    BY <1>1, <1>2, <1>6 DEF CallsOK
  <2>2. /\ clock' \in 0..MaxClock /\ timestamp' \in [Calls -> 0..clock']
    BY <1>1, <1>2, <1>3 DEF CallsOK
  <2>3. /\ call' \in [Calls -> {"idle", "find", "create", "over"}]
        /\ chain' \in [Calls -> Chains] /\ content' \in [Calls -> Contents]
    BY <1>1, <1>2 DEF CallsOK
  <2> QED
    BY <2>1, <2>2, <2>3 DEF CallsOK
<1>8. EntriesLinked'
  BY <1>1, <1>2, <1>4 DEF EntriesLinked, Linked
<1>9. CallsLinked'
  <2> SUFFICES ASSUME NEW q \in Calls, call'[q] = "create", Untouched(chain[q])
               PROVE  FoundAt(chain[q], previous'[q], timestamp'[q])
    BY <1>2, <1>4 DEF CallsLinked
  <2>1. CASE q = w
    <3>1. timestamp'[w] = clock
      BY <1>1, <1>2 DEF CallsOK
    <3> QED
      BY <1>6, <2>1, <3>1
  <2>2. CASE q # w
    <3>1. call[q] = "create" /\ previous'[q] = previous[q] /\ timestamp'[q] = timestamp[q]
      BY <1>1, <1>2, <2>2 DEF CallsOK
    <3> QED
      BY <1>1, <3>1 DEF CallsLinked
  <2> QED
    BY <2>1, <2>2
<1>10. OriginalsLinked'
  BY <1>1, <1>2, <1>4 DEF OriginalsLinked
<1> QED
  BY <1>4, <1>5, <1>7, <1>8, <1>9, <1>10 DEF ChainInv

\* The locals of a call that is over.
LEMMA ReturnKeeps ==
  ASSUME CallsOK, NEW w \in Calls, Return(w), UNCHANGED <<clock, content>>
  PROVE  /\ CallsOK' /\ call'[w] = "over"
         /\ \A q \in Calls \ {w} : /\ call'[q] = call[q] /\ chain'[q] = chain[q]
                                   /\ previous'[q] = previous[q] /\ timestamp'[q] = timestamp[q]
<1>1. clock \in Nat
  BY ClockAssumption DEF CallsOK
<1>2. /\ call' = [call EXCEPT ![w] = "over"] /\ chain' = [chain EXCEPT ![w] = SYSTEM]
      /\ previous' = [previous EXCEPT ![w] = GENESIS] /\ timestamp' = [timestamp EXCEPT ![w] = 0]
  BY DEF Return, Goto
<1>3. SYSTEM \in Chains
  BY DEF Chains
<1>4. /\ previous' = [q \in Calls |-> previous'[q]]
      /\ \A q \in Calls : previous'[q] = GENESIS \/ Len(previous'[q]) = 3
  BY <1>2 DEF CallsOK
<1>5. timestamp' \in [Calls -> 0..clock']
  BY <1>1, <1>2 DEF CallsOK
<1>6. CallsOK'
  BY <1>2, <1>3, <1>4, <1>5 DEF CallsOK
<1> QED
  BY <1>2, <1>6 DEF CallsOK

LEMMA CreateKeeps ==
  ASSUME ChainInv, NEW w \in Calls, Create(w) PROVE ChainInv'
<1> DEFINE hash == Hash(previous[w], content[w], timestamp[w])
           n == [id |-> <<"log", w>>, chain |-> chain[w], content |-> content[w],
                 previousHash |-> previous[w], hash |-> hash, createdAt |-> clock]
<1>1. TableOK /\ IdsTaken /\ CallsOK /\ EntriesLinked /\ CallsLinked /\ OriginalsLinked
  BY DEF ChainInv
<1>2. /\ call[w] = "create" /\ Return(w) /\ UNCHANGED <<clock, content, tampered>>
  BY DEF Create
<1>3. /\ CallsOK' /\ call'[w] = "over"
      /\ \A q \in Calls \ {w} : /\ call'[q] = call[q] /\ chain'[q] = chain[q]
                                /\ previous'[q] = previous[q] /\ timestamp'[q] = timestamp[q]
  BY <1>1, <1>2, ReturnKeeps
<1>4. /\ \A q \in Calls : call[q] = "over" => call'[q] = "over"
      /\ \A q \in Calls : call'[q] = "create" =>
           /\ call[q] = "create" /\ chain'[q] = chain[q]
           /\ previous'[q] = previous[q] /\ timestamp'[q] = timestamp[q]
  BY <1>3
<1>5. clock \in Nat /\ timestamp[w] \in Nat /\ timestamp[w] <= clock /\ clock \in 0..MaxClock
  BY <1>1, ClockAssumption DEF CallsOK
<1>6. CASE \E i \in DOMAIN entries : entries[i].hash = hash
  <2>1. entries' = entries /\ original' = original
    BY <1>6 DEF Create
  <2> QED
    BY <1>2, <1>3, <1>4, <1>5, <2>1, OtherStepsKeep
<1>7. CASE ~\E i \in DOMAIN entries : entries[i].hash = hash
  <2>1. /\ entries' = Append(entries, n)
        /\ original' = IF Untouched(chain[w]) THEN original \cup {n} ELSE original
    BY <1>7 DEF Create
  <2>2. \A r \in Rows : r.hash # hash
    BY <1>7 DEF Rows
  <2>3. /\ n.chain = chain[w] /\ n.content = content[w] /\ n.previousHash = previous[w]
        /\ n.hash = hash /\ n.createdAt = clock /\ n.id = <<"log", w>>
        /\ n = [id |-> n.id, chain |-> n.chain, content |-> n.content,
                previousHash |-> n.previousHash, hash |-> n.hash, createdAt |-> n.createdAt]
    OBVIOUS
  <2>4. hash[1] = previous[w] /\ hash[2] = content[w].hashed /\ hash[3] = timestamp[w]
        /\ hash = <<previous[w], hash[2], hash[3]>>
    BY DEF Hash
  <2> HIDE DEF n, hash
  <2>5. \A r \in Rows : r.id # n.id
    <3> SUFFICES ASSUME NEW r \in Rows, r.id = n.id PROVE FALSE
      OBVIOUS
    <3>1. \A i : <<"forged", i>> # <<"log", w>>
      OBVIOUS
    <3>2. PICK q \in Calls : r.id = <<"log", q>> /\ call[q] = "over"
      BY <1>1, <2>3, <3>1 DEF IdsTaken
    <3>3. q = w
      BY <2>3, <3>2
    <3> QED
      BY <1>2, <3>2, <3>3
  <2>6. entries' \in Seq(Rows') /\ HashesUnique' /\ IdsUnique' /\ Rows' = Rows \cup {n}
    BY <1>1, <2>1, <2>2, <2>3, <2>5, RowsAppended DEF TableOK
  <2>7. RowTypeOK(n)
    BY <1>1, <1>5, <2>3, <2>4 DEF RowTypeOK, CallsOK
  <2>8. TableOK'
    BY <1>1, <1>2, <2>6, <2>7 DEF TableOK
  <2>9. IdsTaken'
    <3>1. \E q \in Calls : n.id = <<"log", q>> /\ call'[q] = "over"
      BY <1>3, <2>3
    <3> QED
      BY <1>1, <1>2, <1>4, <2>6, <3>1 DEF IdsTaken
  <2>10. \A c : Untouched(c)' <=> Untouched(c)
    BY <1>2 DEF Untouched
  <2>11. ASSUME NEW c, NEW h, NEW t, t \in Int, t <= clock, FoundAt(c, h, t)
        PROVE  FoundAt(c, h, t)'
    <3>1. RowsOf(c) \subseteq RowsOf(c)' /\ RowsOf(c)' \ RowsOf(c) \subseteq {n}
      BY <2>6 DEF RowsOf
    <3> QED
      BY <1>5, <2>3, <2>11, <3>1, FoundAtGrows
  <2>12. Untouched(chain[w]) => FoundAt(chain[w], previous[w], timestamp[w])
    BY <1>1, <1>2 DEF CallsLinked
  <2>13. EntriesLinked'
    <3> SUFFICES ASSUME NEW e \in Rows', Untouched(e.chain) PROVE Linked(e)'
      BY <2>10 DEF EntriesLinked
    <3>1. CASE e \in Rows
      <4>1. Linked(e) /\ e.hash[3] \in Int /\ e.createdAt \in Int
        BY <1>1, <3>1 DEF EntriesLinked, TableOK, RowTypeOK
      <4>2. FoundAt(e.chain, e.previousHash, e.hash[3])'
        BY <1>5, <2>11, <4>1 DEF Linked
      <4> QED
        BY <1>2, <4>1, <4>2 DEF Linked
    <3>2. CASE e = n
      <4>1. FoundAt(chain[w], previous[w], timestamp[w])
        BY <2>3, <2>12, <3>2
      <4>2. FoundAt(e.chain, e.previousHash, e.hash[3])'
        BY <1>5, <2>3, <2>4, <2>11, <3>2, <4>1
      <4>3. previous[w] # hash
        <5>1. hash # GENESIS
          BY <2>3, <2>7, HashOfRow
        <5> QED
          BY <2>2, <4>1, <5>1 DEF FoundAt, RowsOf
      <4> QED
        BY <1>2, <1>5, <2>3, <2>4, <3>2, <4>2, <4>3 DEF Linked
    <3> QED
      BY <2>6, <3>1, <3>2
  <2>14. CallsLinked'
    <3> SUFFICES ASSUME NEW q \in Calls, call'[q] = "create", Untouched(chain'[q])
                 PROVE  FoundAt(chain[q], previous[q], timestamp[q])'
      BY <2>10 DEF CallsLinked
    <3>1. /\ call[q] = "create" /\ chain'[q] = chain[q]
          /\ previous'[q] = previous[q] /\ timestamp'[q] = timestamp[q]
      BY <1>4
    <3>2. timestamp[q] \in Int /\ timestamp[q] <= clock
      BY <1>1, <1>5 DEF CallsOK
    <3>3. FoundAt(chain[q], previous[q], timestamp[q])
      BY <1>1, <3>1 DEF CallsLinked
    <3> QED
      BY <2>11, <3>1, <3>2, <3>3
  <2>15. OriginalsLinked'
    <3>1. CASE ~Untouched(chain[w])
      <4>1. original' = original
        BY <2>1, <3>1
      <4> QED
        BY <1>1, <2>3, <2>6, <2>10, <3>1, <4>1 DEF OriginalsLinked
    <3>2. CASE Untouched(chain[w])
      <4>1. original' = original \cup {n}
        BY <2>1, <3>2
      <4>2. n.hash = <<n.previousHash, n.content.hashed, n.hash[3]>>
        BY <2>3, <2>4
      <4>3. n.previousHash = GENESIS \/ \E p \in original : p.hash = n.previousHash
        BY <1>1, <2>3, <2>12, <3>2 DEF FoundAt, RowsOf, OriginalsLinked
      <4> QED
        BY <1>1, <2>6, <2>10, <4>1, <4>2, <4>3 DEF OriginalsLinked
    <3> QED
      BY <3>1, <3>2
  <2> QED
    BY <1>3, <2>8, <2>9, <2>13, <2>14, <2>15 DEF ChainInv
<1> QED
  BY <1>6, <1>7

LEMMA ChainInvStep == ChainInv /\ [Next]_vars => ChainInv'
<1> SUFFICES ASSUME ChainInv, [Next]_vars PROVE ChainInv'
  OBVIOUS
<1>1. CallsOK /\ clock \in Int
  BY ClockAssumption DEF ChainInv, CallsOK
<1>2. ASSUME NEW w \in Calls, Log(w) PROVE ChainInv'
  <2>1. PICK t \in Tenants \cup {SYSTEM} :
          chain' = [chain EXCEPT ![w] = IF t \in Known THEN t ELSE SYSTEM]
    BY <1>2 DEF Log
  <2>2. (IF t \in Known THEN t ELSE SYSTEM) \in Chains
    BY DEF Chains
  <2>3. /\ call[w] = "idle" /\ call' = [call EXCEPT ![w] = "find"]
        /\ UNCHANGED <<entries, clock, content, previous, timestamp, tampered, original>>
    BY <1>2 DEF Log, Goto
  <2>4. CallsOK'
    BY <1>1, <2>1, <2>2, <2>3 DEF CallsOK
  <2>5. /\ \A q \in Calls : call[q] = "over" => call'[q] = "over"
        /\ \A q \in Calls : call'[q] = "create" => call[q] = "create" /\ chain'[q] = chain[q]
    BY <1>1, <2>1, <2>3 DEF CallsOK
  <2> QED
    BY <1>1, <2>3, <2>4, <2>5, OtherStepsKeep
<1>3. ASSUME NEW w \in Calls, WriteFails(w) PROVE ChainInv'
  <2>1. Return(w) /\ UNCHANGED <<entries, clock, content, tampered, original>>
    BY <1>3 DEF WriteFails
  <2>2. /\ CallsOK' /\ call'[w] = "over"
        /\ \A q \in Calls \ {w} : /\ call'[q] = call[q] /\ chain'[q] = chain[q]
                                  /\ previous'[q] = previous[q] /\ timestamp'[q] = timestamp[q]
    BY <1>1, <2>1, ReturnKeeps
  <2>3. /\ \A q \in Calls : call[q] = "over" => call'[q] = "over"
        /\ \A q \in Calls : call'[q] = "create" =>
             /\ call[q] = "create" /\ chain'[q] = chain[q]
             /\ previous'[q] = previous[q] /\ timestamp'[q] = timestamp[q]
    BY <2>2
  <2> QED
    BY <1>1, <2>1, <2>2, <2>3, OtherStepsKeep
<1>4. ASSUME Tick \/ UNCHANGED vars PROVE ChainInv'
  <2>1. /\ UNCHANGED <<entries, callVars, tampered, original>>
        /\ clock' \in 0..MaxClock /\ clock' >= clock
    BY <1>1, <1>4, ClockAssumption DEF Tick, vars, callVars, CallsOK
  <2>2. CallsOK'
    <3>1. timestamp' \in [Calls -> 0..clock']
      BY <1>1, <2>1 DEF CallsOK, callVars
    <3> QED
      BY <1>1, <2>1, <3>1 DEF CallsOK, callVars
  <2> QED
    BY <2>1, <2>2, OtherStepsKeep DEF callVars
<1> QED
  BY <1>2, <1>3, <1>4, FindPreviousKeeps, CreateKeeps, AlterKeeps, RewriteKeeps, InsertKeeps,
     RemoveKeeps DEF Next
-------------------------------------------------------------------------------
(* The orders of findMany *)

LEMMA LenOfFunction ==
  ASSUME NEW S, NEW n \in Nat, NEW o \in [1..n -> S]
  PROVE  o \in Seq(S) /\ Len(o) = n /\ DOMAIN o = 1..n
<1>1. o \in Seq(S)
  BY SeqDef
<1>2. Len(o) \in Nat /\ 1..Len(o) = 1..n
  BY <1>1, LenProperties
<1>3. Len(o) = n
  <2>1. Len(o) >= 1 => Len(o) \in 1..n
    BY <1>2
  <2>2. n >= 1 => n \in 1..Len(o)
    BY <1>2
  <2> QED
    BY <1>2, <2>1, <2>2
<1> QED
  BY <1>1, <1>3

\* An order lists every entry of the chain, once, and none before an older one.
LEMMA OrderListsAll ==
  ASSUME TableOK, NEW c, NEW o \in Orders(c)
  PROVE  /\ Len(o) \in Nat /\ DOMAIN o = 1..Len(o) /\ o \in Seq(ChainEntries(c))
         /\ \A i \in 1..Len(o) : o[i] \in ChainEntries(c)
         /\ \A i, j \in 1..Len(o) : i < j => /\ o[i] # o[j]
                                             /\ entries[o[i]].createdAt <= entries[o[j]].createdAt
         /\ \A k \in ChainEntries(c) : \E i \in 1..Len(o) : o[i] = k
<1> DEFINE mine == ChainEntries(c)
           n == Cardinality(mine)
<1>1. IsFiniteSet(mine) /\ n \in Nat
  <2>1. DOMAIN entries = 1..Len(entries) /\ Len(entries) \in Nat
    BY TableDomain DEF TableOK
  <2>2. IsFiniteSet(1..Len(entries))
    BY <2>1, FS_Interval
  <2>3. mine \subseteq 1..Len(entries)
    BY <2>1 DEF ChainEntries
  <2> QED
    BY <2>2, <2>3, FS_Subset, FS_CardinalityType
<1>2. /\ o \in [1..n -> mine]
      /\ \A i, j \in 1..n : i < j => /\ o[i] # o[j]
                                     /\ entries[o[i]].createdAt <= entries[o[j]].createdAt
  BY DEF Orders
<1> HIDE DEF mine
<1>3. o \in Seq(mine) /\ Len(o) = n /\ DOMAIN o = 1..n
  <2> HIDE DEF n
  <2> QED
    BY <1>1, <1>2, LenOfFunction
<1>4. \A i, j \in 1..n : o[i] = o[j] => i = j
  <2> HIDE DEF n
  <2> SUFFICES ASSUME NEW i \in 1..n, NEW j \in 1..n, o[i] = o[j] PROVE i = j
    OBVIOUS
  <2>1. i \in Int /\ j \in Int /\ ~(i < j) /\ ~(j < i)
    BY <1>1, <1>2
  <2> QED
    BY <2>1
<1>5. \A k \in mine : \E i \in 1..n : o[i] = k
  <2>1. o \in Injection(1..n, mine)
    BY <1>2, <1>4 DEF Injection, IsInjective
  <2>2. Cardinality(1..n) = n /\ IsFiniteSet(1..n)
    <3> HIDE DEF n
    <3>1. Cardinality(1..n) = IF 1 > n THEN 0 ELSE n - 1 + 1
      BY <1>1, FS_Interval
    <3> QED
      BY <1>1, <3>1, FS_Interval
  <2>3. o \in Surjection(1..n, mine)
    BY <1>1, <2>1, <2>2, FS_Injection
  <2> QED
    BY <2>3 DEF Surjection
<1> QED
  BY <1>1, <1>2, <1>3, <1>5 DEF mine

(* The rows of an order, and what a sorted chain without ties says: the entry *)
(* before another is the newest of those that are older.                      *)
LEMMA OrderedRows ==
  ASSUME TableOK, NEW c, NEW o \in Orders(c)
  PROVE  /\ \A i \in 1..Len(o) : entries[o[i]] \in RowsOf(c) /\ entries[o[i]].createdAt \in Nat
         /\ \A p \in RowsOf(c) : \E i \in 1..Len(o) : p = entries[o[i]]
<1>1. \A i \in 1..Len(o) : o[i] \in ChainEntries(c)
  BY OrderListsAll
<1>2. \A k \in ChainEntries(c) : entries[k] \in RowsOf(c) /\ entries[k].createdAt \in Nat
  BY ClockAssumption DEF ChainEntries, RowsOf, Rows, TableOK, RowTypeOK
<1>3. ASSUME NEW p \in RowsOf(c) PROVE \E i \in 1..Len(o) : p = entries[o[i]]
  <2>1. PICK k \in ChainEntries(c) : p = entries[k]
    BY DEF RowsOf, Rows, ChainEntries
  <2>2. PICK i \in 1..Len(o) : o[i] = k
    BY OrderListsAll
  <2> QED
    BY <2>1, <2>2
<1> QED
  BY <1>1, <1>2, <1>3

LEMMA PredecessorIsNewest ==
  ASSUME TableOK, NEW c, NEW o \in Orders(c), NEW i \in 2..Len(o), DistinctTimes(c)
  PROVE  /\ i - 1 \in 1..Len(o) /\ i \in 1..Len(o)
         /\ entries[o[i - 1]].createdAt < entries[o[i]].createdAt
         /\ \A p \in RowsOf(c) : p.createdAt < entries[o[i]].createdAt =>
              p.createdAt <= entries[o[i - 1]].createdAt
         /\ \A p \in RowsOf(c) : p.createdAt = entries[o[i - 1]].createdAt => p = entries[o[i - 1]]
<1>1. /\ Len(o) \in Nat
      /\ \A k \in 1..Len(o) : o[k] \in ChainEntries(c)
      /\ \A k, j \in 1..Len(o) : k < j => /\ o[k] # o[j]
                                          /\ entries[o[k]].createdAt <= entries[o[j]].createdAt
  BY OrderListsAll
<1>2. i - 1 \in 1..Len(o) /\ i \in 1..Len(o) /\ i - 1 < i /\ i \in Int
  BY <1>1
<1>3. \A k \in 1..Len(o) : entries[o[k]].createdAt \in Nat
  BY OrderedRows
<1>4. entries[o[i - 1]].createdAt < entries[o[i]].createdAt
  <2>1. /\ o[i - 1] # o[i] /\ entries[o[i - 1]].createdAt <= entries[o[i]].createdAt
        /\ o[i - 1] \in ChainEntries(c) /\ o[i] \in ChainEntries(c)
    BY <1>1, <1>2
  <2>2. entries[o[i - 1]].createdAt # entries[o[i]].createdAt
    BY <2>1 DEF DistinctTimes
  <2> QED
    BY <1>2, <1>3, <2>1, <2>2
<1>5. ASSUME NEW p \in RowsOf(c), p.createdAt < entries[o[i]].createdAt
      PROVE  p.createdAt <= entries[o[i - 1]].createdAt
  <2>1. PICK k \in 1..Len(o) : p = entries[o[k]]
    BY OrderedRows
  <2>2. k < i
    <3> SUFFICES ASSUME ~(k < i) PROVE FALSE
      OBVIOUS
    <3>1. i < k \/ i = k
      BY <1>1, <1>2
    <3>2. entries[o[i]].createdAt <= entries[o[k]].createdAt
      BY <1>1, <1>2, <1>3, <3>1
    <3> QED
      BY <1>2, <1>3, <1>5, <2>1, <3>2
  <2>3. k = i - 1 \/ k < i - 1
    BY <1>1, <1>2, <2>2
  <2> QED
    BY <1>1, <1>2, <1>3, <2>1, <2>3
<1>6. ASSUME NEW p \in RowsOf(c), p.createdAt = entries[o[i - 1]].createdAt
      PROVE  p = entries[o[i - 1]]
  <2>1. PICK k \in 1..Len(o) : p = entries[o[k]]
    BY OrderedRows
  <2>2. o[k] = o[i - 1]
    BY <1>1, <1>2, <1>6, <2>1 DEF DistinctTimes
  <2> QED
    BY <2>1, <2>2
<1> QED
  BY <1>2, <1>4, <1>5, <1>6
-------------------------------------------------------------------------------
(* The audit log *)

LEMMA SameHashSameRow ==
  ASSUME TableOK, NEW p \in Rows, NEW q \in Rows, p.hash = q.hash
  PROVE  p = q
BY DEF TableOK, HashesUnique, Rows

\* The entries of a fork: if the later one's search came after the other was created, it
\* found the other's predecessor again, which is then as new as the other.
LEMMA ForkInv == ChainInv => ForkNeedsOverlapOrTie
<1> SUFFICES ASSUME ChainInv, NEW i \in DOMAIN entries, NEW j \in DOMAIN entries,
                    i < j, entries[i].chain = entries[j].chain, Untouched(entries[i].chain),
                    entries[i].previousHash = entries[j].previousHash,
                    ~(StampOf(entries[j]) <= entries[i].createdAt)
             PROVE  \E k \in ChainEntries(entries[i].chain) \ {i} :
                      entries[k].createdAt = entries[i].createdAt
  BY DEF ForkNeedsOverlapOrTie
<1> DEFINE a == entries[i]
           b == entries[j]
           c == a.chain
<1>1. a \in Rows /\ b \in Rows /\ a \in RowsOf(c) /\ b \in RowsOf(c)
  BY DEF Rows, RowsOf
<1>2. /\ TableOK /\ EntriesLinked
      /\ a.createdAt \in Nat /\ b.hash[3] \in Nat /\ a.hash[3] \in Nat
      /\ a.hash[3] <= a.createdAt /\ a.previousHash # a.hash
      /\ FoundAt(c, a.previousHash, a.hash[3]) /\ FoundAt(c, b.previousHash, b.hash[3])
  <2>1. /\ TableOK /\ EntriesLinked /\ RowTypeOK(a) /\ RowTypeOK(b)
        /\ Untouched(a.chain) /\ Untouched(b.chain) /\ a.chain = c /\ b.chain = c
    BY <1>1 DEF ChainInv, TableOK
  <2>2. Linked(a) /\ Linked(b)
    BY <1>1, <2>1 DEF EntriesLinked
  <2> QED
    BY <2>1, <2>2, ClockAssumption DEF RowTypeOK, Linked
<1>3. a.createdAt < b.hash[3]
  BY <1>2 DEF StampOf
<1>4. PICK p \in RowsOf(c) : p.hash = b.previousHash /\ a.createdAt <= p.createdAt
  BY <1>1, <1>2, <1>3 DEF FoundAt
<1>5. p \in Rows /\ p.createdAt \in Nat /\ p.hash # GENESIS
  <2>1. p \in Rows
    BY DEF RowsOf
  <2>2. RowTypeOK(p)
    BY <1>2, <2>1 DEF TableOK
  <2> QED
    BY <2>1, <2>2, HashOfRow, ClockAssumption DEF RowTypeOK
<1>6. PICK q \in RowsOf(c) : q.hash = a.previousHash /\ q.createdAt <= a.hash[3]
  BY <1>2, <1>4, <1>5 DEF FoundAt
<1>7. p = q
  BY <1>2, <1>4, <1>5, <1>6, SameHashSameRow DEF RowsOf
<1>8. p.createdAt = a.createdAt
  BY <1>2, <1>4, <1>5, <1>6, <1>7
<1>9. p # a
  BY <1>2, <1>4
<1>10. PICK k \in DOMAIN entries : entries[k] = p
  BY <1>5 DEF Rows
<1>11. k \in ChainEntries(c) /\ k # i
  BY <1>9, <1>10 DEF ChainEntries, RowsOf
<1> QED
  BY <1>8, <1>10, <1>11

LEMMA TimelyInv == ChainInv => TimelyChainVerifies
<1> SUFFICES ASSUME ChainInv, NEW c \in Chains, Untouched(c),
                    \A i \in ChainEntries(c) : StampOf(entries[i]) = entries[i].createdAt,
                    DistinctTimes(c), NEW o \in Orders(c), NEW i \in 2..Len(o)
             PROVE  Matches(entries[o[i - 1]], entries[o[i]])
  BY DEF TimelyChainVerifies, Intact
<1> DEFINE prev == entries[o[i - 1]]
           curr == entries[o[i]]
<1>1. TableOK /\ EntriesLinked
  BY DEF ChainInv
<1>2. /\ i - 1 \in 1..Len(o) /\ i \in 1..Len(o) /\ prev.createdAt < curr.createdAt
      /\ \A p \in RowsOf(c) : p.createdAt < curr.createdAt => p.createdAt <= prev.createdAt
      /\ \A p \in RowsOf(c) : p.createdAt = prev.createdAt => p = prev
  BY <1>1, PredecessorIsNewest
<1>3. /\ prev \in RowsOf(c) /\ curr \in RowsOf(c)
      /\ prev.createdAt \in Nat /\ curr.createdAt \in Nat
  BY <1>1, <1>2, OrderedRows
<1>4. curr.hash[3] = curr.createdAt
  <2>1. o[i] \in ChainEntries(c)
    BY <1>1, <1>2, OrderListsAll
  <2> QED
    BY <2>1 DEF StampOf
<1> HIDE DEF prev, curr
<1>5. /\ curr \in Rows /\ curr.chain = c /\ curr.content.hashed = curr.hash[2]
      /\ curr.previousHash # curr.hash /\ FoundAt(c, curr.previousHash, curr.hash[3])
      /\ curr.hash = <<curr.previousHash, curr.hash[2], curr.hash[3]>>
  <2>1. curr \in Rows /\ curr.chain = c
    BY <1>3 DEF RowsOf
  <2>2. RowTypeOK(curr)
    BY <1>1, <2>1 DEF TableOK
  <2> QED
    BY <1>1, <2>1, <2>2 DEF EntriesLinked, Linked, RowTypeOK
<1>6. PICK p \in RowsOf(c) : p.hash = curr.previousHash /\ prev.createdAt <= p.createdAt
  BY <1>2, <1>3, <1>4, <1>5 DEF FoundAt
<1>7. p \in Rows /\ p.createdAt \in Nat /\ p.hash # GENESIS
  <2>1. p \in Rows
    BY DEF RowsOf
  <2>2. RowTypeOK(p)
    BY <1>1, <2>1 DEF TableOK
  <2> QED
    BY <2>1, <2>2, HashOfRow, ClockAssumption DEF RowTypeOK
<1>8. p.createdAt <= curr.createdAt
  <2>1. PICK q \in RowsOf(c) : q.hash = curr.previousHash /\ q.createdAt <= curr.hash[3]
    BY <1>5, <1>6, <1>7 DEF FoundAt
  <2>2. p = q
    BY <1>1, <1>6, <1>7, <2>1, SameHashSameRow DEF RowsOf
  <2> QED
    BY <1>4, <2>1, <2>2
<1>9. p.createdAt # curr.createdAt
  <2>1. p # curr
    BY <1>5, <1>6
  <2>2. PICK k \in ChainEntries(c) : entries[k] = p
    BY DEF RowsOf, Rows, ChainEntries
  <2>3. PICK m \in ChainEntries(c) : entries[m] = curr
    BY <1>3 DEF RowsOf, Rows, ChainEntries
  <2> QED
    BY <2>1, <2>2, <2>3 DEF DistinctTimes
<1>10. p = prev
  <2>1. p.createdAt < curr.createdAt
    BY <1>3, <1>7, <1>8, <1>9
  <2>2. p.createdAt <= prev.createdAt
    BY <1>2, <2>1
  <2> QED
    BY <1>2, <1>3, <1>6, <1>7, <2>2
<1>11. curr.hash = Hash(prev.hash, curr.content, curr.createdAt)
  BY <1>4, <1>5, <1>6, <1>10 DEF Hash
<1> QED
  BY <1>11 DEF Matches, prev, curr

\* An original hash vouches for the entry that has it and for the hash it follows.
LEMMA OriginalVouches ==
  ASSUME ChainInv, NEW curr, NEW prev, NEW time, Original(curr.hash),
         curr.hash = <<prev.hash, curr.content.hashed, time>>
  PROVE  AsWritten(curr, prev) /\ (prev.hash = GENESIS \/ Original(prev.hash))
<1>1. PICK e \in original : e.hash = curr.hash
  BY DEF Original
<1>2. e.hash = <<e.previousHash, e.content.hashed, e.hash[3]>>
  BY DEF ChainInv, OriginalsLinked
<1>3. e.previousHash = prev.hash /\ e.content.hashed = curr.content.hashed
  <2>1. ASSUME NEW a, NEW b, NEW c, NEW d, NEW f, NEW g, <<a, b, c>> = <<d, f, g>>
        PROVE  a = d /\ b = f
    BY <2>1
  <2> QED
    BY <1>1, <1>2, <2>1
<1>4. prev.hash = GENESIS \/ \E p \in original : p.hash = prev.hash
  BY <1>3 DEF ChainInv, OriginalsLinked
<1> QED
  BY <1>1, <1>3, <1>4 DEF Original, AsWritten

LEMMA MatchVouches ==
  ASSUME ChainInv, NEW prev \in Rows, NEW curr, Matches(prev, curr), Original(curr.hash)
  PROVE  AsWritten(curr, prev) /\ Original(prev.hash)
<1>1. curr.hash = <<prev.hash, curr.content.hashed, curr.createdAt>>
  BY DEF Matches, Hash
<1>2. prev.hash # GENESIS
  BY HashOfRow DEF ChainInv, TableOK
<1> QED
  BY <1>1, <1>2, OriginalVouches

LEMMA GenuineInv == ChainInv => IntactChainIsGenuine
<1> SUFFICES ASSUME ChainInv, NEW c \in Chains PROVE
      /\ \A o \in Orders(c) : Intact(o) =>
           \A j \in 2..Len(o) : Original(entries[o[j]].hash) =>
             \A i \in 2..j : AsWritten(entries[o[i]], entries[o[i - 1]])
      /\ Untouched(c) =>
           \A i \in ChainEntries(c), j \in DOMAIN entries \ ChainEntries(c) :
             entries[i].previousHash # entries[j].hash
  BY DEF IntactChainIsGenuine
<1>0. TableOK /\ EntriesLinked
  BY DEF ChainInv
<1>1. ASSUME NEW o \in Orders(c), Intact(o), NEW j \in 2..Len(o), Original(entries[o[j]].hash),
             NEW i \in 2..j
      PROVE  AsWritten(entries[o[i]], entries[o[i - 1]])
  <2>1. Len(o) \in Nat /\ \A k \in 1..Len(o) : entries[o[k]] \in Rows
    BY <1>0, OrderListsAll, OrderedRows DEF RowsOf
  <2>2. ASSUME NEW k \in 2..j, Original(entries[o[k]].hash)
        PROVE  AsWritten(entries[o[k]], entries[o[k - 1]]) /\ Original(entries[o[k - 1]].hash)
    <3>1. k \in 2..Len(o) /\ k - 1 \in 1..Len(o)
      BY <2>1
    <3>2. Matches(entries[o[k - 1]], entries[o[k]])
      BY <1>1, <3>1 DEF Intact
    <3> QED
      BY <2>1, <2>2, <3>1, <3>2, MatchVouches
  <2> DEFINE T == {k \in 1..j : ~Original(entries[o[k]].hash)}
  <2>3. T = {}
    <3> SUFFICES ASSUME T # {} PROVE FALSE
      OBVIOUS
    <3>1. j \in Nat /\ T \in SUBSET Nat /\ \A k \in T : k <= j
      BY <2>1
    <3>2. PICK k \in T : \A m \in T : m <= k
      <4> HIDE DEF T
      <4> QED
        BY <3>1, GreatestNat
    <3>3. k \in 1..j /\ k # j
      BY <1>1
    <3>4. k + 1 \in 2..j /\ k + 1 \notin T /\ (k + 1) - 1 = k
      BY <2>1, <3>2, <3>3
    <3>5. Original(entries[o[k + 1]].hash)
      BY <3>4
    <3>6. Original(entries[o[k]].hash)
      BY <2>2, <3>4, <3>5
    <3> QED
      BY <3>2, <3>6
  <2>4. i \in 1..j
    BY <2>1
  <2> QED
    BY <2>2, <2>3, <2>4
<1>2. ASSUME Untouched(c), NEW i \in ChainEntries(c), NEW j \in DOMAIN entries \ ChainEntries(c),
             entries[i].previousHash = entries[j].hash
      PROVE  FALSE
  <2> DEFINE e == entries[i]
             f == entries[j]
  <2>1. e \in RowsOf(c) /\ e \in Rows /\ e.chain = c
    BY DEF ChainEntries, RowsOf, Rows
  <2>2. f \in Rows /\ f.chain # c
    BY DEF ChainEntries, Rows
  <2>3. f.hash # GENESIS
    <3>1. RowTypeOK(f)
      BY <1>0, <2>2 DEF TableOK
    <3> QED
      BY <3>1, HashOfRow
  <2>4. FoundAt(c, e.previousHash, e.hash[3])
    BY <1>0, <1>2, <2>1 DEF EntriesLinked, Linked
  <2>5. PICK p \in RowsOf(c) : p.hash = e.previousHash
    BY <1>2, <2>3, <2>4 DEF FoundAt
  <2>6. p = f
    BY <1>0, <1>2, <2>2, <2>5, SameHashSameRow DEF RowsOf
  <2> QED
    BY <2>2, <2>5, <2>6 DEF RowsOf
<1> QED
  BY <1>1, <1>2

\* Reports only read: a behaviour with them is one of the audit log.
THEOREM ReportsOnlyRead == ForensicsSpec => Spec
<1>1. ForensicsInit => Init
  BY DEF ForensicsInit
<1>2. [ForensicsNext]_<<vars, reportVars>> => [Next]_vars
  BY DEF ForensicsNext, FindIncident, VerifyChain, DrawTimeline, DrawingFails, LogStep
<1> QED
  BY <1>1, <1>2, PTL DEF ForensicsSpec, Spec

LEMMA ChainInvHolds == Spec => []ChainInv
BY ChainInvInit, ChainInvStep, PTL DEF Spec

(* Whatever is logged, tampered with and reported: a chain that nobody        *)
(* touched forks only where two calls of log() overlapped, or where two of    *)
(* its entries share a millisecond.                                           *)
THEOREM ForksNeedOverlapOrTie == (Spec \/ ForensicsSpec) => []ForkNeedsOverlapOrTie
BY ChainInvHolds, ForkInv, ReportsOnlyRead, PTL

(* Calls of log() that take less than a millisecond, each in one of its own,  *)
(* make a chain verifyChainIntegrity() finds intact.                          *)
THEOREM TimelyChainsVerify == (Spec \/ ForensicsSpec) => []TimelyChainVerifies
BY ChainInvHolds, TimelyInv, ReportsOnlyRead, PTL

(* Whatever was changed, rewritten, added or removed behind the service's     *)
(* back: in an intact chain, an entry with the hash log() gave it vouches for *)
(* what the hashes cover of all entries before it, down to the second.        *)
THEOREM IntactChainsAreGenuine == (Spec \/ ForensicsSpec) => []IntactChainIsGenuine
BY ChainInvHolds, GenuineInv, ReportsOnlyRead, PTL
-------------------------------------------------------------------------------
(* The report *)

TimesApart(c) == \A p, q \in RowsOf(c) : p.createdAt = q.createdAt => p = q

\* q follows p in time and nothing of the chain lies between.
Follows(c, p, q) ==
  /\ p \in RowsOf(c) /\ q \in RowsOf(c) /\ p.createdAt < q.createdAt
  /\ \A r \in RowsOf(c) : r.createdAt < q.createdAt => r.createdAt <= p.createdAt

ReportFields == {"tenant", "type", "intact", "brokenAt", "timeline", "techniques",
                 "confidence", "untrusted"}

ReportTypeOK ==
  /\ drawing \in {"idle", "verify", "timeline", "over"}
  /\ DOMAIN report = ReportFields
  /\ report.tenant \in Chains /\ report.type \in IncidentTypes \cup {"none"}
  /\ report.intact \in BOOLEAN
  /\ \A i \in DOMAIN report.timeline :
       /\ i <= TimelineLength
       /\ report.timeline[i].content \in Contents \cup Forgeries /\ report.timeline[i].tamperVerified \in BOOLEAN
  /\ report.confidence \in {"LOW", "MEDIUM", "HIGH", "none"}
  /\ steady \in BOOLEAN
  /\ reports \in 0..MaxReports
  /\ drawing = "verify" => report.intact

(* Between the two reads of a report, as long as nobody alters the table:     *)
(* what was verified is still there, and each link of it before the first     *)
(* broken one matches.                                                        *)
Verified(t) ==
  /\ \A h \in seen : \E e \in RowsOf(t) : e.id = h
  /\ ~report.intact => \E b \in RowsOf(t) : b.id = report.brokenAt
  /\ TimesApart(t) => \A p, q \in RowsOf(t) :
       /\ p.id \in seen /\ q.id \in seen /\ Follows(t, p, q)
       /\ report.intact \/ \A b \in RowsOf(t) : b.id = report.brokenAt => q.createdAt < b.createdAt
       => Matches(p, q)

VerifiedSoFar == drawing = "timeline" /\ steady => Verified(report.tenant)

TimelineGenuine ==
  drawing = "over" /\ steady => \A i \in DOMAIN report.timeline :
    LET listed == report.timeline[i]
        prev == report.timeline[i - 1]
    IN  IF listed.tamperVerified
          THEN i > 1 /\ listed.id \in seen /\ prev.id \in seen
                 => \E time \in Nat : listed.hash = <<prev.hash, listed.content.hashed, time>>
          ELSE report.untrusted /\ report.confidence = "HIGH"

ReportInv == ReportTypeOK /\ VerifiedSoFar /\ TimelineGenuine

LEMMA ReportInvInit == ForensicsInit => ReportInv
<1> SUFFICES ASSUME ForensicsInit PROVE ReportInv
  OBVIOUS
<1>1. ReportTypeOK
  BY TimelineAssumption DEF ForensicsInit, NoReport, ReportTypeOK, ReportFields, Chains
<1> QED
  BY <1>1 DEF ForensicsInit, ReportInv, VerifiedSoFar, TimelineGenuine

LEMMA TimesApartIsDistinct == HashesUnique => \A c : DistinctTimes(c) <=> TimesApart(c)
<1> SUFFICES ASSUME HashesUnique, NEW c PROVE DistinctTimes(c) <=> TimesApart(c)
  OBVIOUS
<1>1. \A i \in ChainEntries(c) : entries[i] \in RowsOf(c)
  BY DEF ChainEntries, RowsOf, Rows
<1>2. \A p \in RowsOf(c) : \E i \in ChainEntries(c) : entries[i] = p
  BY DEF ChainEntries, RowsOf, Rows
<1>3. \A i, j \in ChainEntries(c) : entries[i] = entries[j] => i = j
  BY DEF ChainEntries, HashesUnique
<1>4. ASSUME DistinctTimes(c), NEW p \in RowsOf(c), NEW q \in RowsOf(c), p.createdAt = q.createdAt
      PROVE  p = q
  <2>1. PICK i \in ChainEntries(c) : entries[i] = p
    BY <1>2
  <2>2. PICK j \in ChainEntries(c) : entries[j] = q
    BY <1>2
  <2> QED
    BY <1>4, <2>1, <2>2 DEF DistinctTimes
<1>5. ASSUME TimesApart(c), NEW i \in ChainEntries(c), NEW j \in ChainEntries(c), i # j
      PROVE  entries[i].createdAt # entries[j].createdAt
  BY <1>1, <1>3, <1>5 DEF TimesApart
<1> QED
  BY <1>4, <1>5 DEF DistinctTimes, TimesApart

\* A step of the log that alters nothing adds at most one row, with an id of its own.
LEMMA RowAdded ==
  ASSUME ChainInv, Next, tampered' = tampered
  PROVE  Rows' = Rows \/ \E n : Rows' = Rows \cup {n} /\ \A r \in Rows : r.id # n.id
<1>1. tampered \in Seq(SUBSET Chains) /\ TableOK
  BY DEF ChainInv, TableOK
<1>2. ASSUME NEW table, NEW d \in SUBSET Chains, Tamper(table, d) PROVE FALSE
  <2>1. tampered' = Append(tampered, d)
    BY <1>2 DEF Tamper
  <2>2. Len(tampered') = Len(tampered) + 1 /\ Len(tampered) \in Nat
    BY <1>1, <2>1, AppendProperties, LenProperties
  <2> QED
    BY <2>2
<1>3. ASSUME NEW i \in DOMAIN entries, Alter(i) \/ Rewrite(i) \/ Remove(i) PROVE FALSE
  <2>1. entries[i].chain \in Chains
    <3>1. RowTypeOK(entries[i])
      BY <1>1 DEF TableOK, Rows
    <3> QED
      BY <3>1 DEF RowTypeOK
  <2>2. \E table, d : Tamper(table, d) /\ d \in SUBSET Chains
    <3>1. CASE Alter(i)
      <4>1. \/ \E table : Tamper(table, {entries[i].chain})
            \/ \E c \in Chains : \E table : Tamper(table, {entries[i].chain, c})
        BY <3>1, Zenon DEF Alter
      <4>2. {entries[i].chain} \in SUBSET Chains
        BY <2>1
      <4>3. \A c \in Chains : {entries[i].chain, c} \in SUBSET Chains
        BY <2>1
      <4> QED
        BY <4>1, <4>2, <4>3, Zenon
    <3>2. CASE Rewrite(i)
      BY <2>1, <3>2, Zenon DEF Rewrite
    <3>3. CASE Remove(i)
      BY <2>1, <3>3, Zenon DEF Remove
    <3> QED
      BY <1>3, <3>1, <3>2, <3>3
  <2> QED
    BY <1>2, <2>2
<1>4. ASSUME NEW c \in Chains, Insert(c) PROVE FALSE
  <2>1. \E table : Tamper(table, {c})
    BY <1>4, Zenon DEF Insert
  <2> QED
    BY <1>2, <2>1
<1>5. CASE UNCHANGED entries
  BY <1>5 DEF Rows
<1>6. ASSUME NEW w \in Calls, Create(w), entries' # entries
      PROVE  \E n : Rows' = Rows \cup {n} /\ \A r \in Rows : r.id # n.id
  <2> DEFINE hash == Hash(previous[w], content[w], timestamp[w])
             n == [id |-> <<"log", w>>, chain |-> chain[w], content |-> content[w],
                   previousHash |-> previous[w], hash |-> hash, createdAt |-> clock]
  <2>1. /\ entries' = Append(entries, n) /\ ~\E i \in DOMAIN entries : entries[i].hash = hash
        /\ call[w] = "create"
    BY <1>6 DEF Create
  <2>2. n.hash = hash /\ n.id = <<"log", w>>
    OBVIOUS
  <2> HIDE DEF n, hash
  <2>3. ASSUME NEW r \in Rows, r.id = n.id PROVE FALSE
    <3>1. \A i : <<"forged", i>> # <<"log", w>>
      OBVIOUS
    <3>2. PICK q \in Calls : r.id = <<"log", q>> /\ call[q] = "over"
      BY <2>2, <2>3, <3>1 DEF ChainInv, IdsTaken
    <3>3. q = w
      BY <2>2, <2>3, <3>2
    <3> QED
      BY <2>1, <3>2, <3>3
  <2>4. \A r \in Rows : r.hash # n.hash
    BY <2>1, <2>2 DEF Rows
  <2>5. Rows' = Rows \cup {n}
    BY <1>1, <2>1, <2>3, <2>4, RowsAppended DEF TableOK
  <2> QED
    BY <2>3, <2>5
<1>7. ASSUME NEW w \in Calls, Log(w) \/ FindPrevious(w) \/ WriteFails(w) PROVE UNCHANGED entries
  BY <1>7 DEF Log, FindPrevious, ChainTo, WriteFails
<1>8. ASSUME Tick PROVE UNCHANGED entries
  BY <1>8 DEF Tick
<1> QED
  BY <1>3, <1>4, <1>5, <1>6, <1>7, <1>8 DEF Next

LEMMA LogStepKeeps ==
  ASSUME ChainInv, ReportInv, LogStep PROVE ReportInv'
<1> DEFINE t == report.tenant
<1>1. UNCHANGED <<drawing, report, seen, reports>> /\ Next
      /\ steady' = (steady /\ (drawing = "timeline" => tampered' = tampered))
  BY DEF LogStep
<1>2. ReportTypeOK'
  BY <1>1 DEF ReportInv, ReportTypeOK
<1>3. TimelineGenuine'
  BY <1>1 DEF ReportInv, TimelineGenuine
<1>4. ASSUME drawing = "timeline", steady, tampered' = tampered PROVE Verified(t)'
  <2>1. /\ \A h \in seen : \E e \in RowsOf(t) : e.id = h
        /\ ~report.intact => \E b \in RowsOf(t) : b.id = report.brokenAt
        /\ TimesApart(t) => \A p, q \in RowsOf(t) :
             /\ p.id \in seen /\ q.id \in seen /\ Follows(t, p, q)
             /\ report.intact \/ \A b \in RowsOf(t) : b.id = report.brokenAt => q.createdAt < b.createdAt
             => Matches(p, q)
    BY <1>4 DEF ReportInv, VerifiedSoFar, Verified
  <2>2. CASE Rows' = Rows
    <3>1. RowsOf(t)' = RowsOf(t)
      BY <1>1, <2>2 DEF RowsOf
    <3> QED
      BY <1>1, <1>4, <3>1 DEF ReportInv, VerifiedSoFar, Verified, TimesApart, Follows, Matches
  <2>3. ASSUME NEW n, Rows' = Rows \cup {n}, \A r \in Rows : r.id # n.id
        PROVE  Verified(t)'
    <3>1. /\ RowsOf(t) \subseteq RowsOf(t)' /\ RowsOf(t)' \subseteq RowsOf(t) \cup {n}
          /\ \A e \in RowsOf(t) : e.id # n.id
      BY <1>1, <2>3 DEF RowsOf
    <3>2. n.id \notin seen
      BY <2>1, <3>1
    <3>3. \A h \in seen : \E e \in RowsOf(t)' : e.id = h
      BY <2>1, <3>1
    <3>4. ~report.intact => \E b \in RowsOf(t)' : b.id = report.brokenAt
      BY <2>1, <3>1
    <3>5. ASSUME TimesApart(t)', NEW p \in RowsOf(t)', NEW q \in RowsOf(t)',
                 p.id \in seen, q.id \in seen, Follows(t, p, q)',
                 report.intact \/ \A b \in RowsOf(t)' : b.id = report.brokenAt => q.createdAt < b.createdAt
          PROVE  Matches(p, q)
      <4>1. TimesApart(t)
        BY <1>1, <3>1, <3>5 DEF TimesApart
      <4>2. p \in RowsOf(t) /\ q \in RowsOf(t)
        BY <3>1, <3>2, <3>5
      <4>3. Follows(t, p, q)
        BY <1>1, <3>1, <3>5, <4>2 DEF Follows
      <4>4. report.intact \/ \A b \in RowsOf(t) : b.id = report.brokenAt => q.createdAt < b.createdAt
        BY <3>1, <3>5
      <4> QED
        BY <2>1, <3>5, <4>1, <4>2, <4>3, <4>4
    <3> QED
      BY <1>1, <3>3, <3>4, <3>5 DEF Verified, Matches
  <2> QED
    BY <1>1, <1>4, <2>2, <2>3, RowAdded
<1>5. VerifiedSoFar'
  BY <1>1, <1>4 DEF VerifiedSoFar
<1> QED
  BY <1>2, <1>3, <1>5 DEF ReportInv

LEMMA FindOrFailKeeps ==
  ASSUME ReportInv, FindIncident \/ DrawingFails PROVE ReportInv'
<1>1. CASE report' = NoReport /\ drawing' = "over"
  <2>1. /\ report'.tenant = SYSTEM /\ report'.type = "none" /\ report'.intact = TRUE
        /\ report'.timeline = <<>> /\ report'.confidence = "none"
        /\ DOMAIN report' = ReportFields
    BY <1>1 DEF NoReport, ReportFields
  <2>2. steady' \in BOOLEAN /\ reports' \in 0..MaxReports
    <3>1. steady' = TRUE /\ (reports' = reports \/ (reports' = reports + 1 /\ reports < MaxReports))
      BY DEF FindIncident, DrawingFails
    <3>2. reports \in 0..MaxReports
      BY DEF ReportInv, ReportTypeOK
    <3>3. reports' \in 0..MaxReports
      BY <3>1, <3>2, TimelineAssumption
    <3> QED
      BY <3>1, <3>2, <3>3
  <2>3. DOMAIN report'.timeline = {}
    BY <2>1
  <2>4. ReportTypeOK'
    BY <1>1, <2>1, <2>2, <2>3 DEF ReportTypeOK, Chains
  <2> QED
    BY <1>1, <2>3, <2>4 DEF ReportInv, VerifiedSoFar, TimelineGenuine
<1>2. ASSUME NEW t \in Known, NEW type \in IncidentTypes, drawing' = "verify", FindIncident,
             report' = [NoReport EXCEPT !.tenant = t, !.type = type]
      PROVE  ReportInv'
  <2>1. /\ report'.tenant = t /\ report'.type = type /\ report'.intact = TRUE
        /\ report'.timeline = <<>> /\ report'.confidence = "none"
        /\ DOMAIN report' = ReportFields
    BY <1>2 DEF NoReport, ReportFields
  <2>2. steady' \in BOOLEAN /\ reports' \in 0..MaxReports
    <3>1. steady' = TRUE /\ reports' = reports + 1 /\ reports < MaxReports
      BY <1>2 DEF FindIncident
    <3>2. reports \in 0..MaxReports
      BY DEF ReportInv, ReportTypeOK
    <3>3. reports' \in 0..MaxReports
      BY <3>1, <3>2, TimelineAssumption
    <3> QED
      BY <3>1, <3>2, <3>3
  <2>3. DOMAIN report'.timeline = {}
    BY <2>1
  <2>4. ReportTypeOK'
    BY <1>2, <2>1, <2>2, <2>3 DEF ReportTypeOK, Chains
  <2> QED
    BY <1>2, <2>4 DEF ReportInv, VerifiedSoFar, TimelineGenuine
<1> QED
  BY <1>1, <1>2 DEF FindIncident, DrawingFails

LEMMA ReportBroken ==
  ASSUME NEW r, DOMAIN r = ReportFields, NEW i, NEW b
  PROVE  LET f == [r EXCEPT !.intact = i, !.brokenAt = b]
         IN  /\ DOMAIN f = ReportFields /\ f.tenant = r.tenant /\ f.type = r.type
             /\ f.intact = i /\ f.brokenAt = b /\ f.timeline = r.timeline
             /\ f.confidence = r.confidence
BY DEF ReportFields

LEMMA ReportDrawn ==
  ASSUME NEW r, DOMAIN r = ReportFields, NEW l, NEW h, NEW c, NEW u
  PROVE  LET f == [r EXCEPT !.timeline = l, !.techniques = h, !.confidence = c, !.untrusted = u]
         IN  /\ DOMAIN f = ReportFields /\ f.tenant = r.tenant /\ f.type = r.type
             /\ f.intact = r.intact /\ f.brokenAt = r.brokenAt /\ f.timeline = l
             /\ f.confidence = c /\ f.untrusted = u
BY DEF ReportFields

\* The links of an order, up to the first that does not match.
LEMMA LinksVerified ==
  ASSUME ChainInv, NEW t, NEW o \in Orders(t), TimesApart(t),
         NEW p \in RowsOf(t), NEW q \in RowsOf(t), Follows(t, p, q), ~Matches(p, q)
  PROVE  \E k \in 2..Len(o) : q = entries[o[k]] /\ ~Matches(entries[o[k - 1]], entries[o[k]])
<1>1. TableOK /\ DistinctTimes(t)
  BY TimesApartIsDistinct DEF ChainInv, TableOK
<1>2. PICK k \in 1..Len(o) : q = entries[o[k]]
  BY <1>1, OrderedRows
<1>3. PICK m \in 1..Len(o) : p = entries[o[m]]
  BY <1>1, OrderedRows
<1>4. /\ Len(o) \in Nat /\ p.createdAt \in Nat /\ q.createdAt \in Nat
      /\ \A i, j \in 1..Len(o) : i < j => entries[o[i]].createdAt <= entries[o[j]].createdAt
  BY <1>1, <1>2, <1>3, OrderListsAll, OrderedRows
<1>5. p.createdAt < q.createdAt
  BY DEF Follows
<1>6. m < k
  <2> SUFFICES ASSUME ~(m < k) PROVE FALSE
    OBVIOUS
  <2>1. k < m \/ k = m
    BY <1>4
  <2>2. q.createdAt <= p.createdAt
    BY <1>2, <1>3, <1>4, <2>1
  <2> QED
    BY <1>4, <1>5, <2>2
<1>7. k \in 2..Len(o)
  BY <1>4, <1>6
<1>8. /\ k - 1 \in 1..Len(o) /\ entries[o[k - 1]].createdAt < q.createdAt
      /\ p.createdAt <= entries[o[k - 1]].createdAt
      /\ \A r \in RowsOf(t) : r.createdAt = entries[o[k - 1]].createdAt => r = entries[o[k - 1]]
  BY <1>1, <1>2, <1>5, <1>7, PredecessorIsNewest
<1>9. entries[o[k - 1]] \in RowsOf(t) /\ entries[o[k - 1]].createdAt \in Nat
  BY <1>1, <1>8, OrderedRows
<1>10. entries[o[k - 1]].createdAt <= p.createdAt
  BY <1>8, <1>9 DEF Follows
<1>11. p = entries[o[k - 1]]
  BY <1>4, <1>8, <1>9, <1>10
<1> QED
  BY <1>2, <1>7, <1>11

LEMMA VerifyChainKeeps ==
  ASSUME ChainInv, ReportInv, VerifyChain PROVE ReportInv'
<1>0. PICK t : t = report.tenant
  OBVIOUS
<1> DEFINE seenNow == {entries[i].id : i \in ChainEntries(t)}
<1>1. /\ drawing = "verify" /\ drawing' = "timeline" /\ steady' = TRUE
      /\ seen' = seenNow /\ UNCHANGED <<vars, reports>>
  BY <1>0 DEF VerifyChain
<1>2. PICK o \in Orders(t) :
        LET broken == {i \in 2..Len(o) : ~Matches(entries[o[i - 1]], entries[o[i]])}
        IN  report' = IF broken = {} THEN report
                      ELSE [report EXCEPT !.intact = FALSE,
                              !.brokenAt = entries[o[CHOOSE i \in broken : \A j \in broken : i <= j]].id]
  BY <1>0 DEF VerifyChain
<1> DEFINE broken == {i \in 2..Len(o) : ~Matches(entries[o[i - 1]], entries[o[i]])}
           first == CHOOSE i \in broken : \A j \in broken : i <= j
<1>3. broken # {} => first \in broken /\ \A j \in broken : first <= j
  <2> SUFFICES ASSUME broken # {} PROVE \E i \in broken : \A j \in broken : i <= j
    OBVIOUS
  <2>1. broken \in SUBSET Nat
    OBVIOUS
  <2> HIDE DEF broken
  <2> QED
    BY <2>1, LeastNat
<1>4. TableOK /\ ReportTypeOK /\ report.intact = TRUE
  BY <1>1 DEF ChainInv, ReportInv, ReportTypeOK
<1>5. \A c : RowsOf(c)' = RowsOf(c)
  <2>1. Rows' = Rows
    BY <1>1 DEF vars, Rows
  <2> QED
    BY <2>1 DEF RowsOf
<1>6. \A e \in RowsOf(t) : e.id \in seenNow
  BY DEF RowsOf, Rows, ChainEntries
<1>7. \A h \in seenNow : \E e \in RowsOf(t) : e.id = h
  BY DEF RowsOf, Rows, ChainEntries
<1>8. \A i \in broken : i \in 1..Len(o) /\ i \in 2..Len(o)
  BY <1>4, OrderListsAll
<1>9. ASSUME NEW p \in RowsOf(t), NEW q \in RowsOf(t), TimesApart(t), Follows(t, p, q), ~Matches(p, q)
      PROVE  \E k \in broken : q = entries[o[k]]
  BY <1>9, LinksVerified
<1>10. CASE broken = {}
  <2>1. report' = report
    BY <1>2, <1>10
  <2>2. ReportTypeOK'
    BY <1>1, <1>4, <2>1 DEF ReportTypeOK
  <2>3. Verified(t)'
    <3>1. \A p, q \in RowsOf(t) : TimesApart(t) /\ Follows(t, p, q) => Matches(p, q)
      BY <1>9, <1>10
    <3> HIDE DEF seenNow, broken
    <3> QED
      BY <1>1, <1>4, <1>5, <1>6, <1>7, <2>1, <3>1 DEF Verified, TimesApart, Follows, Matches
  <2> QED
    BY <1>0, <1>1, <2>1, <2>2, <2>3 DEF ReportInv, VerifiedSoFar, TimelineGenuine
<1>11. CASE broken # {}
  <2> DEFINE b == entries[o[first]]
  <2>1. first \in broken /\ first \in 1..Len(o) /\ \A j \in broken : first <= j
    BY <1>3, <1>8, <1>11
  <2>2. b \in RowsOf(t) /\ b.createdAt \in Nat
    BY <1>4, <2>1, OrderedRows
  <2>3. report' = [report EXCEPT !.intact = FALSE, !.brokenAt = b.id]
    BY <1>2, <1>11
  <2> HIDE DEF first
  <2>4. /\ DOMAIN report' = ReportFields /\ report'.tenant = t /\ report'.type = report.type
        /\ report'.intact = FALSE /\ report'.brokenAt = b.id
        /\ report'.timeline = report.timeline /\ report'.confidence = report.confidence
    <3> HIDE DEF b
    <3> QED
      BY <1>0, <1>4, <2>3, ReportBroken DEF ReportTypeOK
  <2>5. report'.tenant = t /\ report'.intact = FALSE /\ report'.brokenAt = b.id
    BY <2>4
  <2>6. ReportTypeOK'
    BY <1>0, <1>1, <1>4, <2>4 DEF ReportTypeOK
  <2>7. ASSUME NEW p \in RowsOf(t), NEW q \in RowsOf(t), TimesApart(t), Follows(t, p, q),
               q.createdAt < b.createdAt
        PROVE  Matches(p, q)
    <3> SUFFICES ASSUME ~Matches(p, q) PROVE FALSE
      OBVIOUS
    <3>1. PICK k \in broken : q = entries[o[k]]
      BY <1>9, <2>7
    <3>2. first < k \/ first = k
      BY <1>8, <2>1
    <3>3. k \in 1..Len(o) /\ q.createdAt \in Nat
      BY <1>4, <1>8, <3>1, OrderedRows
    <3>4. b.createdAt <= q.createdAt
      <4>1. CASE first = k
        BY <2>2, <3>1, <4>1
      <4>2. CASE first < k
        <5>1. entries[o[first]].createdAt <= entries[o[k]].createdAt
          BY <1>4, <2>1, <3>3, <4>2, OrderListsAll
        <5> QED
          BY <3>1, <5>1
      <4> QED
        BY <3>2, <4>1, <4>2
    <3> QED
      BY <2>2, <2>7, <3>3, <3>4
  <2>8. Verified(t)'
    <3> HIDE DEF seenNow, broken, b
    <3>1. \A h \in seen' : \E e \in RowsOf(t)' : e.id = h
      BY <1>1, <1>5, <1>7
    <3>2. \E c \in RowsOf(t)' : c.id = report'.brokenAt
      BY <1>5, <2>2, <2>5
    <3>3. ASSUME TimesApart(t)', NEW p \in RowsOf(t)', NEW q \in RowsOf(t)', Follows(t, p, q)',
                 report'.intact \/ \A c \in RowsOf(t)' : c.id = report'.brokenAt => q.createdAt < c.createdAt
          PROVE  Matches(p, q)
      <4>1. TimesApart(t) /\ Follows(t, p, q)
        BY <1>5, <2>5, <3>3 DEF TimesApart, Follows
      <4>2. q.createdAt < b.createdAt
        BY <1>5, <2>2, <2>5, <3>3
      <4> QED
        BY <1>5, <2>7, <4>1, <4>2
    <3> QED
      BY <3>1, <3>2, <3>3 DEF Verified, Matches
  <2> QED
    BY <1>1, <2>5, <2>6, <2>8 DEF ReportInv, VerifiedSoFar, TimelineGenuine
<1> QED
  BY <1>10, <1>11

\* The entries listed: the first of an order, at most TimelineLength.
LEMMA Listing ==
  ASSUME NEW S, NEW o \in Seq(S), Len(o) \in Nat
  PROVE  LET listed == SubSeq(o, 1, IF Len(o) < TimelineLength THEN Len(o) ELSE TimelineLength)
         IN  /\ DOMAIN listed \subseteq 1..Len(o) /\ \A i \in DOMAIN listed : i <= TimelineLength
             /\ \A i \in DOMAIN listed : listed[i] = o[i] /\ 1..i \subseteq DOMAIN listed
             /\ \A i \in 1..Len(o), k \in DOMAIN listed : i <= k => i \in DOMAIN listed
<1> DEFINE m == IF Len(o) < TimelineLength THEN Len(o) ELSE TimelineLength
<1>1. m \in 0..Len(o) /\ m <= TimelineLength /\ m \in Nat
  BY TimelineAssumption
<1> HIDE DEF m
<1> DEFINE listed == SubSeq(o, 1, m)
<1>2. \A i \in 1..m : o[i] \in S
  BY <1>1, ElementOfSeq
<1>3. /\ listed \in Seq(S) /\ Len(listed) = IF 1 <= m THEN m - 1 + 1 ELSE 0
      /\ \A i \in 1..(m - 1 + 1) : listed[i] = o[1 + i - 1]
  BY <1>1, <1>2, SubSeqProperties
<1> HIDE DEF listed
<1>4. DOMAIN listed = 1..m /\ \A i \in 1..m : listed[i] = o[i]
  BY <1>1, <1>3, LenProperties
<1>5. /\ DOMAIN listed \subseteq 1..Len(o) /\ \A i \in DOMAIN listed : i <= TimelineLength
      /\ \A i \in DOMAIN listed : listed[i] = o[i] /\ 1..i \subseteq DOMAIN listed
      /\ \A i \in 1..Len(o), k \in DOMAIN listed : i <= k => i \in DOMAIN listed
  BY <1>1, <1>4, TimelineAssumption
<1> QED
  BY <1>5 DEF listed, m

LEMMA DrawTimelineKeeps ==
  ASSUME ChainInv, ReportInv, DrawTimeline PROVE ReportInv'
<1>0. PICK t : t = report.tenant
  OBVIOUS
<1>1. /\ drawing = "timeline" /\ drawing' = "over" /\ steady' = (steady /\ DistinctTimes(t))
      /\ UNCHANGED <<seen, reports>>
  BY <1>0 DEF DrawTimeline
<1>2. TableOK /\ ReportTypeOK
  BY DEF ChainInv, ReportInv
<1>3. PICK o \in Orders(t) :
       LET listed == SubSeq(o, 1, IF Len(o) < TimelineLength THEN Len(o) ELSE TimelineLength)
           Entry(i) == entries[listed[i]]
           broken == IF report.intact THEN {}
                     ELSE {i \in DOMAIN listed : Entry(i).id = report.brokenAt}
           at == IF broken = {} THEN 0 ELSE CHOOSE i \in broken : TRUE
       IN  report' = [report EXCEPT
             !.timeline = [i \in DOMAIN listed |->
                [id |-> Entry(i).id, hash |-> Entry(i).hash, content |-> Entry(i).content,
                 tamperVerified |-> TamperVerified(i, at)]],
             !.techniques = GetTechniqueDetails(MapIncidentToTechniques(report.type)),
             !.confidence = ScoreConfidence(report.type, report.intact),
             !.untrusted = Recommend(report.type, report.intact)]
  BY <1>0 DEF DrawTimeline
<1>4. /\ Len(o) \in Nat /\ o \in Seq(ChainEntries(t))
      /\ \A i \in 1..Len(o) : entries[o[i]] \in RowsOf(t) /\ entries[o[i]].createdAt \in Nat
      /\ \A p \in RowsOf(t) : \E i \in 1..Len(o) : p = entries[o[i]]
      /\ \A i, j \in 1..Len(o) : i < j => entries[o[i]].createdAt <= entries[o[j]].createdAt
  BY <1>2, OrderListsAll, OrderedRows
<1> DEFINE listed == SubSeq(o, 1, IF Len(o) < TimelineLength THEN Len(o) ELSE TimelineLength)
           row(i) == entries[o[i]]
           broken == IF report.intact THEN {} ELSE {i \in DOMAIN listed : row(i).id = report.brokenAt}
           at == IF broken = {} THEN 0 ELSE CHOOSE i \in broken : TRUE
           timeline == [i \in DOMAIN listed |->
                         [id |-> row(i).id, hash |-> row(i).hash, content |-> row(i).content,
                          tamperVerified |-> TamperVerified(i, at)]]
<1>5. /\ DOMAIN listed \subseteq 1..Len(o) /\ \A i \in DOMAIN listed : i <= TimelineLength
      /\ \A i \in DOMAIN listed : listed[i] = o[i] /\ 1..i \subseteq DOMAIN listed
      /\ \A i \in 1..Len(o), k \in DOMAIN listed : i <= k => i \in DOMAIN listed
  BY <1>4, Listing
<1> HIDE DEF listed
<1>6. report' = [report EXCEPT
             !.timeline = timeline,
             !.techniques = GetTechniqueDetails(MapIncidentToTechniques(report.type)),
             !.confidence = ScoreConfidence(report.type, report.intact),
             !.untrusted = Recommend(report.type, report.intact)]
  <2> DEFINE hit == IF report.intact THEN {}
                    ELSE {i \in DOMAIN listed : entries[listed[i]].id = report.brokenAt}
             first == IF hit = {} THEN 0 ELSE CHOOSE i \in hit : TRUE
             drawn == [i \in DOMAIN listed |->
                         [id |-> entries[listed[i]].id, hash |-> entries[listed[i]].hash,
                          content |-> entries[listed[i]].content,
                          tamperVerified |-> TamperVerified(i, first)]]
  <2>1. report' = [report EXCEPT
             !.timeline = drawn,
             !.techniques = GetTechniqueDetails(MapIncidentToTechniques(report.type)),
             !.confidence = ScoreConfidence(report.type, report.intact),
             !.untrusted = Recommend(report.type, report.intact)]
    BY <1>3, Zenon DEF listed
  <2>2. hit = broken
    BY <1>5
  <2>3. first = at
    <3> HIDE DEF hit, broken
    <3> QED
      BY <2>2
  <2> HIDE DEF first, at
  <2>4. drawn = timeline
    BY <1>5, <2>3
  <2> HIDE DEF drawn, timeline
  <2> QED
    BY <2>1, <2>4
<1>7. \A i \in DOMAIN listed : /\ timeline[i].id = row(i).id /\ timeline[i].hash = row(i).hash
                               /\ timeline[i].content = row(i).content
                               /\ timeline[i].tamperVerified = TamperVerified(i, at)
  OBVIOUS
<1>8. DOMAIN timeline = DOMAIN listed
  OBVIOUS
<1> HIDE DEF timeline
<1>9. /\ DOMAIN report' = ReportFields /\ report'.tenant = t /\ report'.type = report.type
      /\ report'.intact = report.intact /\ report'.timeline = timeline
      /\ report'.confidence = ScoreConfidence(report.type, report.intact)
      /\ report'.untrusted = ~report.intact
  BY <1>0, <1>2, <1>6, ReportDrawn DEF ReportTypeOK, Recommend
<1>10. \A i \in DOMAIN listed : TamperVerified(i, at) \in BOOLEAN
  BY DEF TamperVerified
<1>11. ReportTypeOK'
  <2>1. \A i \in DOMAIN timeline : /\ i <= TimelineLength /\ timeline[i].content \in Contents \cup Forgeries
                                   /\ timeline[i].tamperVerified \in BOOLEAN
    <3>1. \A i \in DOMAIN listed : row(i).content \in Contents \cup Forgeries
      BY <1>2, <1>4, <1>5 DEF TableOK, RowTypeOK, RowsOf
    <3> QED
      BY <1>5, <1>7, <1>8, <1>10, <3>1
  <2>2. ScoreConfidence(report.type, report.intact) \in {"LOW", "MEDIUM", "HIGH", "none"}
    BY DEF ScoreConfidence
  <2>3. steady' \in BOOLEAN
    BY <1>1, <1>2 DEF ReportTypeOK
  <2> QED
    BY <1>0, <1>1, <1>2, <1>9, <2>1, <2>2, <2>3 DEF ReportTypeOK
<1>12. broken \subseteq DOMAIN listed /\ (broken # {} => at \in broken) /\ 0 \notin DOMAIN listed
  <2>1. broken \subseteq DOMAIN listed /\ 0 \notin DOMAIN listed
    BY <1>5
  <2>2. broken # {} => at \in broken
    <3> HIDE DEF broken
    <3> QED
      OBVIOUS
  <2> QED
    BY <2>1, <2>2
<1>13. ASSUME steady', NEW i \in DOMAIN listed, ~TamperVerified(i, at)
       PROVE  report'.untrusted /\ report'.confidence = "HIGH"
  <2>1. PICK j \in 1..i : j = at
    BY <1>13 DEF TamperVerified
  <2>2. j \in DOMAIN listed
    BY <1>5, <2>1
  <2>3. broken # {}
    BY <1>12, <2>1, <2>2
  <2>4. report.intact = FALSE
    BY <1>2, <2>3 DEF ReportTypeOK
  <2> QED
    BY <1>9, <2>4 DEF ScoreConfidence
<1>14. ASSUME steady', NEW i \in DOMAIN listed, TamperVerified(i, at), i > 1,
              row(i).id \in seen, row(i - 1).id \in seen
       PROVE  Matches(row(i - 1), row(i))
  <2> DEFINE p == row(i - 1)
             q == row(i)
  <2>1. steady /\ DistinctTimes(t) /\ TimesApart(t) /\ Verified(t)
    <3>1. steady /\ DistinctTimes(t)
      BY <1>1, <1>14
    <3>2. TimesApart(t)
      BY <1>2, <3>1, TimesApartIsDistinct DEF TableOK
    <3> QED
      BY <1>0, <1>1, <3>1, <3>2 DEF ReportInv, VerifiedSoFar
  <2>2. i \in 2..Len(o) /\ i \in 1..Len(o) /\ i - 1 \in 1..Len(o) /\ i \in Nat
    BY <1>4, <1>5, <1>14
  <2>3. Follows(t, p, q)
    BY <1>2, <1>4, <2>1, <2>2, PredecessorIsNewest DEF Follows
  <2>4. ASSUME ~report.intact, NEW b \in RowsOf(t), b.id = report.brokenAt
        PROVE  q.createdAt < b.createdAt
    <3>1. PICK m \in 1..Len(o) : b = row(m)
      BY <1>4
    <3>2. i < m
      <4> SUFFICES ASSUME ~(i < m) PROVE FALSE
        OBVIOUS
      <4>1. m <= i /\ m \in 1..i
        BY <1>4, <2>2
      <4>2. m \in DOMAIN listed
        BY <1>5, <4>1
      <4>3. m \in broken
        BY <2>4, <3>1, <4>2
      <4>4. at \in broken /\ at \in DOMAIN listed
        BY <1>12, <4>3
      <4>5. row(at).id = report.brokenAt /\ at \in 1..Len(o)
        BY <1>5, <4>4
      <4>6. o[at] = o[m]
        <5>1. o[at] \in DOMAIN entries /\ o[m] \in DOMAIN entries
          BY <1>2, <4>5, OrderListsAll DEF ChainEntries
        <5> QED
          BY <1>2, <2>4, <3>1, <4>5, <5>1 DEF TableOK, IdsUnique
      <4>7. at = m
        <5> HIDE DEF at
        <5>1. ~(at < m) /\ ~(m < at)
          BY <1>2, <4>5, <4>6, OrderListsAll
        <5> QED
          BY <1>4, <4>5, <5>1
      <4> QED
        BY <1>14, <4>1, <4>7 DEF TamperVerified
    <3>3. q.createdAt <= b.createdAt
      BY <1>4, <2>2, <3>1, <3>2
    <3>4. q.createdAt # b.createdAt
      <4>1. o[i] \in ChainEntries(t) /\ o[m] \in ChainEntries(t) /\ o[i] # o[m]
        BY <1>2, <2>2, <3>2, OrderListsAll
      <4> QED
        BY <2>1, <3>1, <4>1 DEF DistinctTimes
    <3> QED
      BY <1>4, <2>2, <3>1, <3>3, <3>4
  <2>5. p \in RowsOf(t) /\ q \in RowsOf(t) /\ p.id \in seen /\ q.id \in seen
    BY <1>4, <1>14, <2>2
  <2>6. report.intact \/ \A b \in RowsOf(t) : b.id = report.brokenAt => q.createdAt < b.createdAt
    BY <2>4
  <2> HIDE DEF p, q
  <2>7. Matches(p, q)
    BY <2>1, <2>3, <2>5, <2>6 DEF Verified
  <2> QED
    BY <2>7 DEF p, q
<1>15. TimelineGenuine'
  <2> SUFFICES ASSUME steady', NEW i \in DOMAIN timeline
               PROVE  IF timeline[i].tamperVerified
                        THEN i > 1 /\ timeline[i].id \in seen /\ timeline[i - 1].id \in seen
                               => \E time \in Nat :
                                    timeline[i].hash = <<timeline[i - 1].hash, timeline[i].content.hashed, time>>
                        ELSE report'.untrusted /\ report'.confidence = "HIGH"
    BY <1>1, <1>9 DEF TimelineGenuine
  <2>1. i \in DOMAIN listed
    BY <1>8
  <2>2. i > 1 => i - 1 \in DOMAIN listed
    BY <1>5, <2>1
  <2>3. row(i).createdAt \in Nat
    BY <1>4, <1>5, <2>1
  <2> HIDE DEF row, at
  <2>4. CASE TamperVerified(i, at)
    <3>1. timeline[i].tamperVerified
      BY <1>7, <2>1, <2>4
    <3>2. ASSUME i > 1, timeline[i].id \in seen, timeline[i - 1].id \in seen
          PROVE  timeline[i].hash =
                   <<timeline[i - 1].hash, timeline[i].content.hashed, row(i).createdAt>>
      <4>1. Matches(row(i - 1), row(i))
        BY <1>7, <1>14, <2>1, <2>2, <2>4, <3>2
      <4> QED
        BY <1>7, <2>1, <2>2, <3>2, <4>1 DEF Matches, Hash
    <3> QED
      BY <2>3, <3>1, <3>2
  <2>5. CASE ~TamperVerified(i, at)
    <3>1. ~timeline[i].tamperVerified
      BY <1>7, <2>1, <2>5
    <3> QED
      BY <1>13, <2>1, <2>5, <3>1
  <2> QED
    BY <2>4, <2>5
<1> QED
  BY <1>1, <1>11, <1>15 DEF ReportInv, VerifiedSoFar

LEMMA ReportInvStep == ChainInv /\ ReportInv /\ [ForensicsNext]_<<vars, reportVars>> => ReportInv'
<1> SUFFICES ASSUME ChainInv, ReportInv, [ForensicsNext]_<<vars, reportVars>> PROVE ReportInv'
  OBVIOUS
<1>1. CASE FindIncident
  BY <1>1, FindOrFailKeeps
<1>2. CASE VerifyChain
  BY <1>2, VerifyChainKeeps
<1>3. CASE DrawTimeline
  BY <1>3, DrawTimelineKeeps
<1>4. CASE DrawingFails
  BY <1>4, FindOrFailKeeps
<1>5. CASE LogStep
  BY <1>5, LogStepKeeps
<1>6. CASE UNCHANGED <<vars, reportVars>>
  <2>1. UNCHANGED entries /\ UNCHANGED <<drawing, report, seen, steady, reports>>
    BY <1>6 DEF vars, reportVars
  <2>2. Rows' = Rows
    BY <2>1 DEF Rows
  <2>3. \A c : RowsOf(c)' = RowsOf(c)
    BY <2>2 DEF RowsOf
  <2>4. ReportTypeOK'
    BY <2>1 DEF ReportInv, ReportTypeOK
  <2>5. VerifiedSoFar'
    BY <2>1, <2>3 DEF ReportInv, VerifiedSoFar, Verified, TimesApart, Follows, Matches
  <2>6. TimelineGenuine'
    BY <2>1 DEF ReportInv, TimelineGenuine
  <2> QED
    BY <2>4, <2>5, <2>6 DEF ReportInv
<1> QED
  BY <1>1, <1>2, <1>3, <1>4, <1>5, <1>6 DEF ForensicsNext

LEMMA ChainTypeOK == ChainInv => TypeOK
<1> SUFFICES ASSUME ChainInv PROVE TypeOK
  OBVIOUS
<1>1. clock \in 0..MaxClock /\ clock \in Nat
  BY ClockAssumption DEF ChainInv, CallsOK
<1>2. ASSUME NEW i \in DOMAIN entries
      PROVE  /\ entries[i].chain \in Chains
             /\ entries[i].content \in Contents \cup Forgeries
             /\ entries[i].createdAt \in 0..MaxClock
             /\ entries[i].previousHash = GENESIS \/ Len(entries[i].previousHash) = 3
  <2>1. RowTypeOK(entries[i])
    BY DEF ChainInv, TableOK, Rows
  <2> QED
    BY <2>1 DEF RowTypeOK
<1> QED
  BY <1>1, <1>2 DEF ChainInv, CallsOK, TableOK, TypeOK

LEMMA ReportInvHolds == ForensicsSpec => [](ChainInv /\ ReportInv)
<1>1. ForensicsInit => ReportInv
  BY ReportInvInit
<1>2. ForensicsSpec => []ChainInv
  BY ReportsOnlyRead, ChainInvHolds, PTL
<1>3. ChainInv /\ ReportInv /\ [ForensicsNext]_<<vars, reportVars>> => ReportInv'
  BY ReportInvStep
<1> QED
  BY <1>1, <1>2, <1>3, PTL DEF ForensicsSpec

(* What is called verified is genuine, as far as an original hash vouches for *)
(* it: the entries of an intact chain, and those a report marks verified that *)
(* were there when it verified the chain, whatever is logged between its two  *)
(* reads.                                                                     *)
THEOREM VerifiedEntriesAreGenuine == ForensicsSpec => []VerifiedIsGenuine
<1>1. ASSUME ChainInv, ReportInv PROVE VerifiedIsGenuine
  <2>1. TimelineGenuine /\ IntactChainIsGenuine
    BY <1>1, GenuineInv DEF ReportInv
  <2> SUFFICES ASSUME drawing = "over", steady, NEW i \in DOMAIN report.timeline
               PROVE  IF report.timeline[i].tamperVerified
                        THEN /\ i > 1
                             /\ {report.timeline[i].id, report.timeline[i - 1].id} \subseteq seen
                             /\ Original(report.timeline[i].hash)
                             => AsWritten(report.timeline[i], report.timeline[i - 1])
                        ELSE report.untrusted /\ report.confidence = "HIGH"
    BY <2>1 DEF VerifiedIsGenuine
  <2>2. CASE report.timeline[i].tamperVerified
    <3> SUFFICES ASSUME i > 1,
                        {report.timeline[i].id, report.timeline[i - 1].id} \subseteq seen,
                        Original(report.timeline[i].hash)
                 PROVE  AsWritten(report.timeline[i], report.timeline[i - 1])
      BY <2>2
    <3>1. PICK time \in Nat : report.timeline[i].hash =
            <<report.timeline[i - 1].hash, report.timeline[i].content.hashed, time>>
      BY <2>1, <2>2 DEF TimelineGenuine
    <3> QED
      BY <1>1, <3>1, OriginalVouches
  <2>3. CASE ~report.timeline[i].tamperVerified
    BY <2>1, <2>3 DEF TimelineGenuine
  <2> QED
    BY <2>2, <2>3
<1> QED
  BY <1>1, ReportInvHolds, PTL

(* The table, the calls and the report are of their types, whatever is done   *)
(* to the table, and a timeline lists no more than TimelineLength entries.    *)
THEOREM ForensicsTypesOK == ForensicsSpec => []ForensicsTypeOK
<1>1. ChainInv /\ ReportInv => ForensicsTypeOK
  BY ChainTypeOK DEF ReportInv, ReportTypeOK, ForensicsTypeOK
<1> QED
  BY <1>1, ReportInvHolds, PTL
===============================================================================
