---------------------------- MODULE ScannersProofs ----------------------------
(***************************************************************************)
(* Theorems about Scanners: for every tree, what the recursive definitions *)
(* compute is what the tree deserves.                                      *)
(***************************************************************************)
EXTENDS Scanners, SequenceTheorems, FiniteSetTheorems, WellFoundedInduction, TLAPS
-------------------------------------------------------------------------------
(* Numbers: a set of them has a least element, and a bounded one a greatest.  *)
(* This takes the place of induction: a least counterexample is none.         *)

LEMMA LeastNat ==
  ASSUME NEW T \in SUBSET Nat, T # {}
  PROVE  \E n \in T : \A m \in T : n <= m
<1> DEFINE R == {ss \in Nat \X Nat : ss[1] < ss[2]}
<1>1. IsWellFoundedOn(R, Nat)
  BY NatLessThanWellFounded DEF OpToRel
<1>2. \A m, n \in Nat : m < n => <<m, n>> \in R
  OBVIOUS
<1> HIDE DEF R
<1>3. PICK x \in T : \A y \in T : ~ (<<y, x>> \in R)
  BY <1>1, WFMin
<1>4. ASSUME NEW y \in T PROVE x <= y
  <2>1. x \in Nat /\ y \in Nat /\ ~(y < x)
    BY <1>2, <1>3
  <2> QED
    BY <2>1
<1> QED
  BY <1>4

LEMMA GreatestNat ==
  ASSUME NEW T \in SUBSET Nat, NEW bound \in Nat, \A n \in T : n <= bound, T # {}
  PROVE  \E n \in T : \A m \in T : m <= n
<1> DEFINE U == {bound - n : n \in T}
<1>1. U \in SUBSET Nat /\ U # {}
  <2>1. \A n \in T : bound - n \in Nat
    OBVIOUS
  <2> QED
    BY <2>1
<1>2. \A n \in T : bound - n \in U
  OBVIOUS
<1>3. \A u \in U : \E n \in T : u = bound - n
  OBVIOUS
<1> HIDE DEF U
<1>4. PICK u \in U : \A m \in U : u <= m
  BY <1>1, LeastNat
<1>5. PICK n \in T : u = bound - n
  BY <1>3
<1>6. ASSUME NEW m \in T PROVE m <= n
  <2>1. u <= bound - m
    BY <1>2, <1>4
  <2> QED
    BY <1>5, <2>1
<1> QED
  BY <1>6

\* The numbers a finite set is mapped to are bounded.
LEMMA FiniteIsBounded ==
  ASSUME NEW S, IsFiniteSet(S), NEW len \in [S -> Nat]
  PROVE  \E b \in Nat : \A x \in S : len[x] <= b
<1>1. PICK n \in Nat : ExistsSurjection(1..n, S)
  BY FS_NatSurjection
<1>0. n \in Nat
  BY <1>1
<1>2. PICK f \in [1..n -> S] : \A x \in S : \E i \in 1..n : f[i] = x
  BY <1>1 DEF ExistsSurjection, Surjection
<1>3. PICK g \in [1..n -> Nat] : \A i \in 1..n : g[i] = len[f[i]]
  <2>1. [i \in 1..n |-> len[f[i]]] \in [1..n -> Nat]
    BY <1>2
  <2> QED
    BY <2>1
<1> DEFINE Bounds(k) == \E b \in Nat : \A i \in 1..k : g[i] <= b
           T == {k \in 0..n : ~Bounds(k)}
<1>4. T = {}
  <2> SUFFICES ASSUME T # {} PROVE FALSE
    OBVIOUS
  <2> HIDE DEF Bounds
  <2>1. T \in SUBSET Nat
    BY <1>0
  <2>2. PICK k \in T : \A m \in T : k <= m
    BY <2>1, LeastNat
  <2>3. k \in 0..n /\ ~Bounds(k)
    BY <2>2
  <2>4. k # 0
    <3>1. Bounds(0)
      <4>1. \A i \in 1..0 : g[i] <= 0
        OBVIOUS
      <4> QED
        BY <4>1 DEF Bounds
    <3> QED
      BY <2>3, <3>1
  <2>5. k - 1 \in 0..n /\ ~(k <= k - 1)
    BY <1>0, <2>3, <2>4
  <2>6. Bounds(k - 1)
    BY <2>2, <2>5
  <2>7. PICK b \in Nat : \A i \in 1..(k - 1) : g[i] <= b
    BY <2>6 DEF Bounds
  <2> HIDE DEF T
  <2>8. b \in Nat /\ g[k] \in Nat /\ b + g[k] \in Nat /\ k \in Nat
    BY <1>0, <1>3, <2>3, <2>4, <2>7
  <2>9. ASSUME NEW i \in 1..k PROVE g[i] <= b + g[k]
    <3>1. CASE i = k
      BY <3>1, <2>8
    <3>2. CASE i # k
      <4>1. i \in 1..(k - 1) /\ g[i] \in Nat
        BY <3>2, <2>3, <2>8, <1>0, <1>3
      <4> QED
        BY <4>1, <2>7, <2>8
    <3> QED
      BY <3>1, <3>2
  <2> QED
    BY <2>3, <2>8, <2>9 DEF Bounds
<1>5. n \in 0..n /\ Bounds(n)
  <2> HIDE DEF Bounds
  <2> QED
    BY <1>0, <1>4
<1>6. PICK b \in Nat : \A i \in 1..n : g[i] <= b
  BY <1>5
<1>7. ASSUME NEW x \in S PROVE len[x] <= b
  BY <1>2, <1>3, <1>6
<1> QED
  BY <1>6, <1>7
-------------------------------------------------------------------------------
(* Paths *)

Pre(p, k) == SubSeq(p, 1, k)

LEMMA PrefixIs ==
  ASSUME NEW Names, NEW p \in Seq(Names), NEW k \in 0..Len(p)
  PROVE  /\ Pre(p, k) \in Seq(Names) /\ Len(Pre(p, k)) = k
         /\ \A i \in 1..k : Pre(p, k)[i] = p[i]
<1>1. \A i \in 1..k : p[i] \in Names
  BY ElementOfSeq
<1>2. k \in Int /\ 1 \in Int
  OBVIOUS
<1> QED
  BY <1>1, <1>2, SubSeqProperties DEF Pre

LEMMA SamePrefix ==
  ASSUME NEW Names, NEW p \in Seq(Names), NEW q \in Seq(Names), NEW k \in 0..Len(p), k <= Len(q)
  PROVE  Pre(p, k) = Pre(q, k) <=> \A i \in 1..k : p[i] = q[i]
<1>1. k \in 0..Len(q)
  OBVIOUS
<1>2. /\ Pre(p, k) \in Seq(Names) /\ Len(Pre(p, k)) = k /\ \A i \in 1..k : Pre(p, k)[i] = p[i]
      /\ Pre(q, k) \in Seq(Names) /\ Len(Pre(q, k)) = k /\ \A i \in 1..k : Pre(q, k)[i] = q[i]
  BY <1>1, PrefixIs
<1> QED
  BY <1>2, SeqEqual

LEMMA PrefixOfPrefix ==
  ASSUME NEW Names, NEW p \in Seq(Names), NEW m \in 0..Len(p), NEW k \in 0..m
  PROVE  Pre(Pre(p, m), k) = Pre(p, k)
<1>1. k \in 0..Len(p) /\ k <= Len(p)
  OBVIOUS
<1>2. Pre(p, m) \in Seq(Names) /\ Len(Pre(p, m)) = m /\ \A i \in 1..m : Pre(p, m)[i] = p[i]
  BY PrefixIs
<1> QED
  BY <1>1, <1>2, SamePrefix

LEMMA WholePrefix ==
  ASSUME NEW Names, NEW p \in Seq(Names)
  PROVE  Pre(p, Len(p)) = p /\ Pre(p, 0) = <<>> /\ Len(p) \in Nat
BY SubSeqFull, SubSeqEmpty DEF Pre

LEMMA PrefixAppend ==
  ASSUME NEW Names, NEW p \in Seq(Names), NEW k \in 0..(Len(p) - 1)
  PROVE  Append(Pre(p, k), p[k + 1]) = Pre(p, k + 1)
<1>1. p[k + 1] \in Names
  BY ElementOfSeq
<1>2. k \in 0..Len(p) /\ k + 1 \in 0..Len(p)
  OBVIOUS
<1>3. /\ Pre(p, k) \in Seq(Names) /\ Len(Pre(p, k)) = k /\ \A i \in 1..k : Pre(p, k)[i] = p[i]
      /\ Pre(p, k + 1) \in Seq(Names) /\ Len(Pre(p, k + 1)) = k + 1
      /\ \A i \in 1..(k + 1) : Pre(p, k + 1)[i] = p[i]
  BY <1>2, PrefixIs
<1>4. /\ Append(Pre(p, k), p[k + 1]) \in Seq(Names) /\ Len(Append(Pre(p, k), p[k + 1])) = k + 1
      /\ \A i \in 1..k : Append(Pre(p, k), p[k + 1])[i] = p[i]
      /\ Append(Pre(p, k), p[k + 1])[k + 1] = p[k + 1]
  BY <1>1, <1>3, AppendProperties
<1>5. \A i \in 1..(k + 1) : Append(Pre(p, k), p[k + 1])[i] = Pre(p, k + 1)[i]
  BY <1>3, <1>4
<1> QED
  BY <1>3, <1>4, <1>5, SeqEqual

LEMMA AppendPrefix ==
  ASSUME NEW Names, NEW d \in Seq(Names), NEW name \in Names
  PROVE  /\ Append(d, name) \in Seq(Names) /\ Len(Append(d, name)) = Len(d) + 1
         /\ Append(d, name)[Len(d) + 1] = name /\ Pre(Append(d, name), Len(d)) = d
<1>1. /\ Append(d, name) \in Seq(Names) /\ Len(Append(d, name)) = Len(d) + 1
      /\ \A i \in 1..Len(d) : Append(d, name)[i] = d[i]
      /\ Append(d, name)[Len(d) + 1] = name
  BY AppendProperties
<1>2. Len(d) \in 0..Len(d) /\ Len(d) <= Len(Append(d, name)) /\ Len(d) \in 0..Len(Append(d, name))
  BY <1>1
<1>3. Pre(d, Len(d)) = Pre(Append(d, name), Len(d))
  BY <1>1, <1>2, SamePrefix
<1> QED
  BY <1>1, <1>3, WholePrefix
-------------------------------------------------------------------------------
(* Trees *)

LEMMA ChildOf ==
  ASSUME NEW tree, IsTree(tree), NEW d \in Dirs(tree), NEW i \in 1..Len(tree.entries[d])
  PROVE  LET c == Append(d, tree.entries[d][i])
         IN  /\ c \in Nodes(tree) /\ c \in Seq(STRING) /\ Len(c) = Len(d) + 1
             /\ Pre(c, Len(d)) = d /\ c[Len(d) + 1] = tree.entries[d][i]
<1>1. d \in Seq(STRING) /\ tree.entries[d] \in Seq(STRING)
  BY DEF IsTree, Nodes
<1>2. tree.entries[d][i] \in STRING
  BY <1>1, ElementOfSeq
<1>3. Append(d, tree.entries[d][i]) \in Children(tree, d)
  BY DEF Children
<1>4. Append(d, tree.entries[d][i]) \in Nodes(tree)
  BY <1>3 DEF IsTree
<1> QED
  BY <1>1, <1>2, <1>4, AppendPrefix

LEMMA ParentOf ==
  ASSUME NEW tree, IsTree(tree), NEW q \in Nodes(tree), q # <<>>
  PROVE  /\ q \in Seq(STRING) /\ Len(q) \in Nat \ {0}
         /\ Pre(q, Len(q) - 1) \in Dirs(tree)
         /\ \E i \in 1..Len(tree.entries[Pre(q, Len(q) - 1)]) :
              tree.entries[Pre(q, Len(q) - 1)][i] = q[Len(q)]
<1>1. q \in UNION {Children(tree, d) : d \in Dirs(tree)}
  BY DEF IsTree
<1>2. PICK d \in Dirs(tree) : q \in Children(tree, d)
  BY <1>1
<1>3. PICK i \in 1..Len(tree.entries[d]) : q = Append(d, tree.entries[d][i])
  BY <1>2 DEF Children
<1>4. /\ q \in Seq(STRING) /\ Len(q) = Len(d) + 1 /\ Pre(q, Len(d)) = d
      /\ q[Len(d) + 1] = tree.entries[d][i] /\ d \in Seq(STRING)
  BY <1>2, <1>3, ChildOf, ZenonT(40) DEF IsTree, Nodes
<1>5. Len(d) \in Nat /\ Len(q) - 1 = Len(d)
  BY <1>4, WholePrefix
<1> QED
  BY <1>2, <1>3, <1>4, <1>5

LEMMA Ancestors ==
  ASSUME NEW tree, IsTree(tree), NEW q \in Nodes(tree), NEW k \in 0..(Len(q) - 1)
  PROVE  Pre(q, k) \in Dirs(tree)
<1>1. q \in Seq(STRING) /\ Len(q) \in Nat
  BY WholePrefix DEF IsTree
<1> DEFINE T == {m \in 0..(Len(q) - 1) : Pre(q, m) \notin Dirs(tree)}
<1> SUFFICES ASSUME T # {} PROVE FALSE
  OBVIOUS
<1>2. T \in SUBSET Nat /\ \A m \in T : m <= Len(q)
  BY <1>1
<1>3. PICK m \in T : \A j \in T : j <= m
  BY <1>1, <1>2, GreatestNat
<1>4. m \in 0..(Len(q) - 1) /\ Pre(q, m) \notin Dirs(tree)
  BY <1>3
<1>5. q # <<>> /\ Pre(q, Len(q) - 1) \in Dirs(tree)
  <2>1. q # <<>>
    BY <1>1, <1>4
  <2> QED
    BY <2>1, ParentOf
<1>6. m + 1 \in 0..(Len(q) - 1) /\ m + 1 \in 0..Len(q) /\ m \in 0..(m + 1)
  BY <1>1, <1>4, <1>5
<1>7. Pre(q, m + 1) \in Dirs(tree)
  BY <1>3, <1>4, <1>6
<1>8. Len(Pre(q, m + 1)) = m + 1 /\ Pre(Pre(q, m + 1), m) = Pre(q, m)
  BY <1>1, <1>6, PrefixIs, PrefixOfPrefix
<1>9. Pre(q, m + 1) \in Nodes(tree) /\ Pre(q, m + 1) # <<>>
  BY <1>4, <1>7, <1>8 DEF Nodes
<1>10. Pre(Pre(q, m + 1), Len(Pre(q, m + 1)) - 1) \in Dirs(tree)
  BY <1>9, ParentOf
<1>11. Len(Pre(q, m + 1)) - 1 = m
  BY <1>4, <1>8
<1> QED
  BY <1>4, <1>8, <1>10, <1>11

LEMMA Leaves ==
  ASSUME NEW tree, IsTree(tree), NEW q \in Files(tree) \cup tree.dangling
  PROVE  q \in Nodes(tree) /\ q \in Seq(STRING) /\ Len(q) \in Nat \ {0} /\ q \notin Dirs(tree)
<1>1. q \in Nodes(tree) /\ q \notin Dirs(tree) /\ q # <<>>
  BY DEF IsTree, Nodes
<1> QED
  BY <1>1, ParentOf

\* Directories are not arbitrarily deep.
LEMMA BoundedDepth ==
  ASSUME NEW tree, IsTree(tree)
  PROVE  \E b \in Nat : \A d \in Dirs(tree) : Len(d) \in 0..b
<1> DEFINE len == [d \in Dirs(tree) |-> Len(d)]
<1>1. \A d \in Dirs(tree) : Len(d) \in Nat
  BY WholePrefix DEF IsTree, Nodes
<1>2. len \in [Dirs(tree) -> Nat] /\ \A d \in Dirs(tree) : len[d] = Len(d)
  BY <1>1
<1> HIDE DEF len
<1>3. PICK b \in Nat : \A d \in Dirs(tree) : len[d] <= b
  BY <1>2, FiniteIsBounded DEF IsTree
<1> QED
  BY <1>1, <1>2, <1>3
-------------------------------------------------------------------------------
(* Walking *)

\* The loop over the directory above the (k+1)-st name of a path comes to that name.
Open(tree, skip, byStat, p, k) ==
  ~Skipped(tree, Pre(p, k), skip, byStat) /\ Pre(p, k + 1) \in Entries(tree, Pre(p, k), byStat)

\* What a walk that starts in d comes to.
From(tree, skip, byStat, d) ==
  {p \in Files(tree) \cup tree.dangling :
     /\ Len(d) <= Len(p) /\ Pre(p, Len(d)) = d
     /\ \A k \in Len(d)..(Len(p) - 1) : Open(tree, skip, byStat, p, k)}

LEMMA EntriesAreNodes ==
  ASSUME NEW tree, IsTree(tree), NEW d \in Dirs(tree), NEW byStat, NEW c \in Entries(tree, d, byStat)
  PROVE  /\ c \in Nodes(tree) /\ c \in Seq(STRING) /\ d \in Seq(STRING) /\ Len(d) \in Nat
         /\ Len(c) = Len(d) + 1 /\ Pre(c, Len(d)) = d
<1>1. PICK i \in 1..Len(tree.entries[d]) : c = Append(d, tree.entries[d][i])
  BY DEF Entries
<1>2. d \in Seq(STRING)
  BY DEF IsTree, Nodes
<1> QED
  BY <1>1, <1>2, ChildOf, WholePrefix

LEMMA WalkStep ==
  ASSUME NEW tree, IsTree(tree), NEW skip, NEW byStat, NEW d \in Dirs(tree)
  PROVE  From(tree, skip, byStat, d) =
           IF Skipped(tree, d, skip, byStat) THEN {}
           ELSE UNION {IF p \notin Dirs(tree) THEN {p} ELSE From(tree, skip, byStat, p)
                       : p \in Entries(tree, d, byStat)}
<1> DEFINE Steps == UNION {IF p \notin Dirs(tree) THEN {p} ELSE From(tree, skip, byStat, p)
                           : p \in Entries(tree, d, byStat)}
<1>0. d \in Seq(STRING) /\ Len(d) \in Nat /\ Pre(d, Len(d)) = d
  BY WholePrefix DEF IsTree, Nodes
<1>1. ASSUME NEW q \in From(tree, skip, byStat, d)
      PROVE  ~Skipped(tree, d, skip, byStat) /\ q \in Steps
  <2>1. /\ q \in Files(tree) \cup tree.dangling
        /\ Len(d) <= Len(q) /\ Pre(q, Len(d)) = d
        /\ \A k \in Len(d)..(Len(q) - 1) : Open(tree, skip, byStat, q, k)
    BY DEF From
  <2>2. q \in Nodes(tree) /\ q \in Seq(STRING) /\ Len(q) \in Nat \ {0} /\ q \notin Dirs(tree)
    BY <2>1, Leaves
  <2>3. Len(q) # Len(d)
    BY <2>1, <2>2, WholePrefix
  <2>4. Len(d) \in Len(d)..(Len(q) - 1)
    BY <1>0, <2>1, <2>2, <2>3
  <2>5. Open(tree, skip, byStat, q, Len(d))
    BY <2>1, <2>4
  <2> DEFINE c == Pre(q, Len(d) + 1)
  <2>6. ~Skipped(tree, d, skip, byStat) /\ c \in Entries(tree, d, byStat)
    BY <2>1, <2>5 DEF Open
  <2>7. c \in Nodes(tree) /\ c \in Seq(STRING) /\ Len(c) = Len(d) + 1
    BY <2>6, EntriesAreNodes
  <2>8. CASE c \notin Dirs(tree)
    <3>1. Len(q) = Len(d) + 1
      <4> SUFFICES ASSUME Len(q) # Len(d) + 1 PROVE FALSE
        OBVIOUS
      <4>1. Len(d) + 1 \in 0..(Len(q) - 1)
        BY <1>0, <2>2, <2>4
      <4> QED
        BY <2>2, <2>8, <4>1, Ancestors
    <3>2. c = q
      BY <2>2, <3>1, WholePrefix
    <3> QED
      BY <2>6, <2>8, <3>2
  <2>9. CASE c \in Dirs(tree)
    <3>1. Len(c) <= Len(q) /\ Pre(q, Len(c)) = c
      BY <1>0, <2>2, <2>4, <2>7
    <3>2. \A k \in Len(c)..(Len(q) - 1) : k \in Len(d)..(Len(q) - 1)
      BY <1>0, <2>2, <2>7
    <3>3. q \in From(tree, skip, byStat, c)
      BY <2>1, <3>1, <3>2 DEF From
    <3> QED
      BY <2>6, <2>9, <3>3
  <2> QED
    BY <2>6, <2>8, <2>9
<1>2. ASSUME ~Skipped(tree, d, skip, byStat), NEW q \in Steps
      PROVE  q \in From(tree, skip, byStat, d)
  <2>1. PICK c \in Entries(tree, d, byStat) :
          q \in IF c \notin Dirs(tree) THEN {c} ELSE From(tree, skip, byStat, c)
    OBVIOUS
  <2>2. c \in Nodes(tree) /\ c \in Seq(STRING) /\ Len(c) = Len(d) + 1 /\ Pre(c, Len(d)) = d
    BY <2>1, EntriesAreNodes
  <2>3. CASE c \notin Dirs(tree)
    <3>1. q = c /\ q \in Files(tree) \cup tree.dangling
      BY <2>1, <2>2, <2>3 DEF Nodes
    <3>2. \A k \in Len(d)..(Len(q) - 1) : k = Len(d)
      BY <1>0, <2>2, <3>1
    <3>3. Pre(q, Len(d) + 1) = q
      BY <2>2, <3>1, WholePrefix
    <3>4. Open(tree, skip, byStat, q, Len(d))
      BY <1>2, <2>1, <2>2, <3>1, <3>3 DEF Open
    <3>5. Len(d) <= Len(q)
      BY <1>0, <2>2, <3>1
    <3> QED
      BY <2>2, <3>1, <3>2, <3>4, <3>5 DEF From
  <2>4. CASE c \in Dirs(tree)
    <3>1. /\ q \in Files(tree) \cup tree.dangling
          /\ Len(c) <= Len(q) /\ Pre(q, Len(c)) = c
          /\ \A k \in Len(c)..(Len(q) - 1) : Open(tree, skip, byStat, q, k)
      BY <2>1, <2>4 DEF From
    <3>2. q \in Seq(STRING) /\ Len(q) \in Nat
      BY <3>1, Leaves
    <3>3. Len(c) \in 0..Len(q) /\ Len(d) \in 0..Len(c) /\ Len(d) <= Len(q)
      BY <1>0, <2>2, <3>1, <3>2
    <3>4. Pre(q, Len(d)) = d
      BY <2>2, <3>1, <3>2, <3>3, PrefixOfPrefix
    <3>5. Pre(q, Len(d) + 1) = c
      BY <2>2, <3>1
    <3>6. Open(tree, skip, byStat, q, Len(d))
      BY <1>2, <2>1, <3>4, <3>5 DEF Open
    <3>7. \A k \in Len(d)..(Len(q) - 1) : k = Len(d) \/ k \in Len(c)..(Len(q) - 1)
      BY <1>0, <2>2, <3>2
    <3> QED
      BY <3>1, <3>3, <3>4, <3>6, <3>7 DEF From
  <2> QED
    BY <2>3, <2>4
<1>3. Skipped(tree, d, skip, byStat) => From(tree, skip, byStat, d) = {}
  BY <1>1
<1>4. ~Skipped(tree, d, skip, byStat) => From(tree, skip, byStat, d) = Steps
  BY <1>1, <1>2
<1> QED
  BY <1>3, <1>4

\* A function that satisfies the recursive equation of Walk.
IsWalk(f, tree, skip, byStat) ==
  f = [d \in Dirs(tree) |->
         IF Skipped(tree, d, skip, byStat) THEN {}
         ELSE UNION {IF p \notin Dirs(tree) THEN {p} ELSE f[p] : p \in Entries(tree, d, byStat)}]

LEMMA WalkIsUnique ==
  ASSUME NEW tree, IsTree(tree), NEW skip, NEW byStat,
         NEW f, IsWalk(f, tree, skip, byStat), NEW g, IsWalk(g, tree, skip, byStat)
  PROVE  f = g
<1>1. PICK b \in Nat : \A d \in Dirs(tree) : Len(d) \in 0..b
  BY BoundedDepth
<1> DEFINE D == {d \in Dirs(tree) : f[d] # g[d]}
           T == {Len(d) : d \in D}
<1>2. D = {}
  <2> SUFFICES ASSUME D # {} PROVE FALSE
    OBVIOUS
  <2>0. \A n \in T : n \in 0..b
    BY <1>1
  <2>1. T \in SUBSET Nat /\ T # {} /\ \A n \in T : n <= b
    BY <2>0, <1>1
  <2>2. PICK n \in T : \A m \in T : m <= n
    BY <1>1, <2>1, GreatestNat
  <2>3. PICK d \in D : n = Len(d)
    BY <2>2
  <2>4. d \in Dirs(tree) /\ f[d] # g[d] /\ Len(d) \in Nat
    BY <1>1, <2>3
  <2>5. ASSUME NEW c \in Entries(tree, d, byStat), c \in Dirs(tree)
        PROVE  f[c] = g[c]
    <3>1. Len(c) = Len(d) + 1
      BY <2>4, <2>5, EntriesAreNodes
    <3>2. c \notin D
      BY <2>2, <2>3, <2>4, <3>1
    <3> QED
      BY <2>5, <3>2
  <2>6. /\ f[d] = IF Skipped(tree, d, skip, byStat) THEN {}
                  ELSE UNION {IF p \notin Dirs(tree) THEN {p} ELSE f[p] : p \in Entries(tree, d, byStat)}
        /\ g[d] = IF Skipped(tree, d, skip, byStat) THEN {}
                  ELSE UNION {IF p \notin Dirs(tree) THEN {p} ELSE g[p] : p \in Entries(tree, d, byStat)}
    BY <2>4 DEF IsWalk
  <2> HIDE DEF D
  <2>7. {IF p \notin Dirs(tree) THEN {p} ELSE f[p] : p \in Entries(tree, d, byStat)}
        = {IF p \notin Dirs(tree) THEN {p} ELSE g[p] : p \in Entries(tree, d, byStat)}
    BY <2>5
  <2> QED
    BY <2>4, <2>6, <2>7
<1>3. \A d \in Dirs(tree) : f[d] = g[d]
  BY <1>2
<1>4. f = [d \in Dirs(tree) |-> f[d]] /\ g = [d \in Dirs(tree) |-> g[d]]
  BY DEF IsWalk
<1> QED
  BY <1>3, <1>4

LEMMA WalkFromRoot ==
  ASSUME NEW tree, IsTree(tree), NEW skip, NEW byStat
  PROVE  Walk(tree, skip, byStat) =
           {p \in From(tree, skip, byStat, <<>>) :
              byStat \/ ~(Skipped(tree, p, skip, byStat) \/ p \in tree.dangling)}
<1> DEFINE F == [d \in Dirs(tree) |-> From(tree, skip, byStat, d)]
           f0 == CHOOSE f : IsWalk(f, tree, skip, byStat)
<1>1. IsWalk(F, tree, skip, byStat)
  <2>1. ASSUME NEW d \in Dirs(tree)
        PROVE  F[d] = IF Skipped(tree, d, skip, byStat) THEN {}
                      ELSE UNION {IF p \notin Dirs(tree) THEN {p} ELSE F[p] : p \in Entries(tree, d, byStat)}
    <3>1. {IF p \notin Dirs(tree) THEN {p} ELSE F[p] : p \in Entries(tree, d, byStat)}
          = {IF p \notin Dirs(tree) THEN {p} ELSE From(tree, skip, byStat, p) : p \in Entries(tree, d, byStat)}
      OBVIOUS
    <3>2. F[d] = From(tree, skip, byStat, d)
      OBVIOUS
    <3> HIDE DEF F
    <3> QED
      BY <3>1, <3>2, WalkStep
  <2> QED
    BY <2>1 DEF IsWalk
<1> HIDE DEF F
<1>2. IsWalk(f0, tree, skip, byStat)
  BY <1>1
<1> HIDE DEF f0
<1>3. f0 = F
  BY <1>1, <1>2, WalkIsUnique
<1>4. <<>> \in Dirs(tree)
  BY DEF IsTree
<1>5. f0[<<>>] = From(tree, skip, byStat, <<>>)
  BY <1>3, <1>4 DEF F
<1>6. Walk(tree, skip, byStat) =
        {p \in f0[<<>>] : byStat \/ ~(Skipped(tree, p, skip, byStat) \/ p \in tree.dangling)}
  BY Zenon DEF Walk, f0, IsWalk
<1> QED
  BY <1>5, <1>6
-------------------------------------------------------------------------------
(* What a walk comes to *)

LEMMA FromRoot ==
  ASSUME NEW tree, IsTree(tree), NEW skip, NEW byStat, NEW p \in Files(tree) \cup tree.dangling
  PROVE  p \in From(tree, skip, byStat, <<>>) <=>
           \A k \in 0..(Len(p) - 1) : Open(tree, skip, byStat, p, k)
<1>1. p \in Seq(STRING) /\ Len(p) \in Nat /\ Len(<<>>) = 0
  BY Leaves
<1>2. Pre(p, 0) = <<>>
  BY <1>1, WholePrefix
<1> QED
  BY <1>1, <1>2 DEF From

Place(tree, d, name) == CHOOSE i \in DOMAIN tree.entries[d] : tree.entries[d][i] = name

LEMMA PlaceOfEntry ==
  ASSUME NEW tree, IsTree(tree), NEW d \in Dirs(tree), NEW i \in 1..Len(tree.entries[d])
  PROVE  Place(tree, d, tree.entries[d][i]) = i
<1>1. DOMAIN tree.entries[d] = 1..Len(tree.entries[d])
  BY LenProperties DEF IsTree
<1>2. \A j \in 1..Len(tree.entries[d]) : tree.entries[d][j] = tree.entries[d][i] => j = i
  BY DEF IsTree
<1> QED
  BY <1>1, <1>2 DEF Place

\* A dangling link comes before the (k+1)-st name of p in its directory, or is it.
Behind(tree, p, k) ==
  \E q \in tree.dangling :
    /\ Len(q) = k + 1 /\ Pre(q, k) = Pre(p, k)
    /\ Place(tree, Pre(q, k), q[k + 1]) <= Place(tree, Pre(q, k), p[k + 1])

\* d is the directory above the (k+1)-st name of p, and the name is in it.
Holds(tree, d, p, k) ==
  /\ d \in Dirs(tree) /\ d = Pre(p, k) /\ d \in Seq(STRING) /\ Len(d) = k
  /\ tree.entries[d] \in Seq(STRING) /\ Len(tree.entries[d]) \in Nat
  /\ \E i \in 1..Len(tree.entries[d]) :
       tree.entries[d][i] = p[k + 1] /\ Pre(p, k + 1) = Append(d, tree.entries[d][i])

LEMMA NameOnPath ==
  ASSUME NEW tree, IsTree(tree), NEW p \in Files(tree) \cup tree.dangling, NEW k \in 0..(Len(p) - 1)
  PROVE  Holds(tree, Pre(p, k), p, k)
<1>1. p \in Nodes(tree) /\ p \in Seq(STRING) /\ Len(p) \in Nat \ {0}
  BY Leaves
<1>2. k + 1 \in 0..Len(p) /\ k \in 0..(k + 1) /\ k \in Nat
  BY <1>1
<1> DEFINE c == Pre(p, k + 1)
<1>3. Len(c) = k + 1 /\ c[k + 1] = p[k + 1] /\ Pre(c, k) = Pre(p, k)
  BY <1>1, <1>2, PrefixIs, PrefixOfPrefix
<1>4. c \in Nodes(tree) /\ c # <<>>
  <2>1. CASE k + 1 = Len(p)
    BY <1>1, <1>2, <1>3, <2>1, WholePrefix
  <2>2. CASE k + 1 # Len(p)
    <3>1. k + 1 \in 0..(Len(p) - 1)
      BY <1>1, <1>2, <2>2
    <3>2. c \in Dirs(tree)
      BY <1>1, <3>1, Ancestors
    <3> QED
      BY <1>2, <1>3, <3>2 DEF Nodes
  <2> QED
    BY <2>1, <2>2
<1>5. Len(c) - 1 = k
  BY <1>2, <1>3
<1>6. /\ Pre(c, k) \in Dirs(tree)
      /\ \E i \in 1..Len(tree.entries[Pre(c, k)]) : tree.entries[Pre(c, k)][i] = c[k + 1]
  BY <1>3, <1>4, <1>5, ParentOf
<1>7. Append(Pre(p, k), p[k + 1]) = c
  BY <1>1, PrefixAppend
<1>8. PICK d \in Dirs(tree) : d = Pre(p, k)
  BY <1>3, <1>6
<1>9. d \in Seq(STRING) /\ Len(d) = k /\ tree.entries[d] \in Seq(STRING) /\ Len(tree.entries[d]) \in Nat
  <2>1. d \in Dirs(tree) /\ d = Pre(p, k) /\ k \in 0..Len(p)
    BY <1>1, <1>8
  <2>2. d \in Seq(STRING) /\ tree.entries[d] \in Seq(STRING)
    BY <2>1 DEF IsTree, Nodes
  <2> QED
    BY <1>1, <2>1, <2>2, PrefixIs, LenProperties
<1>10. PICK i \in 1..Len(tree.entries[d]) : tree.entries[d][i] = c[k + 1]
  BY <1>3, <1>6, <1>8
<1> QED
  BY <1>3, <1>7, <1>8, <1>9, <1>10 DEF Holds

LEMMA EntriesByDirent ==
  ASSUME NEW tree, IsTree(tree), NEW p \in Files(tree) \cup tree.dangling, NEW k \in 0..(Len(p) - 1)
  PROVE  Pre(p, k + 1) \in Entries(tree, Pre(p, k), FALSE)
<1>1. Holds(tree, Pre(p, k), p, k)
  BY NameOnPath
<1> QED
  BY <1>1 DEF Entries, Holds

LEMMA EntriesByStat ==
  ASSUME NEW tree, IsTree(tree), NEW p \in Files(tree) \cup tree.dangling, NEW k \in 0..(Len(p) - 1)
  PROVE  Pre(p, k + 1) \in Entries(tree, Pre(p, k), TRUE) <=> ~Behind(tree, p, k)
<1>0. Holds(tree, Pre(p, k), p, k)
  BY NameOnPath
<1>2. PICK d \in Dirs(tree) :
        /\ d = Pre(p, k) /\ d \in Seq(STRING) /\ Len(d) = k
        /\ tree.entries[d] \in Seq(STRING) /\ Len(tree.entries[d]) \in Nat
        /\ \E i \in 1..Len(tree.entries[d]) :
             tree.entries[d][i] = p[k + 1] /\ Pre(p, k + 1) = Append(d, tree.entries[d][i])
  BY <1>0 DEF Holds
<1>1. PICK i \in 1..Len(tree.entries[d]) :
        tree.entries[d][i] = p[k + 1] /\ Pre(p, k + 1) = Append(d, tree.entries[d][i])
  BY <1>2
<1>3. Len(d) = k /\ k \in Nat
  BY <1>2
<1>4. Place(tree, d, p[k + 1]) = i
  BY <1>1, <1>2, PlaceOfEntry
<1> SUFFICES Pre(p, k + 1) \in Entries(tree, d, TRUE) <=> ~Behind(tree, p, k)
  BY <1>2
<1>5. Pre(p, k + 1) \in Entries(tree, d, TRUE) <=>
        \A j \in 1..i : Append(d, tree.entries[d][j]) \notin tree.dangling
  <2>1. ASSUME NEW m \in 1..Len(tree.entries[d]),
               Pre(p, k + 1) = Append(d, tree.entries[d][m])
        PROVE  m = i
    <3>1. tree.entries[d][m] \in STRING /\ tree.entries[d][i] \in STRING
      BY <1>2, ElementOfSeq
    <3>2. tree.entries[d][m] = tree.entries[d][i]
      BY <1>1, <1>2, <2>1, <3>1, AppendInjective
    <3> QED
      BY <1>2, <3>2 DEF IsTree
  <2> QED
    BY <1>1, <2>1 DEF Entries
<1>6. ASSUME NEW j \in 1..i, Append(d, tree.entries[d][j]) \in tree.dangling
      PROVE  Behind(tree, p, k)
  <2> DEFINE q == Append(d, tree.entries[d][j])
  <2>1. j \in 1..Len(tree.entries[d])
    BY <1>2
  <2>2. Len(q) = k + 1 /\ Pre(q, k) = d /\ q[k + 1] = tree.entries[d][j]
    BY <1>2, <1>3, <2>1, ChildOf
  <2>3. Place(tree, d, q[k + 1]) = j
    BY <1>2, <2>1, <2>2, PlaceOfEntry
  <2>4. j <= i /\ q \in tree.dangling
    BY <1>6
  <2> HIDE DEF q
  <2> QED
    BY <1>2, <1>4, <2>2, <2>3, <2>4 DEF Behind
<1>7. ASSUME NEW q \in tree.dangling, Len(q) = k + 1, Pre(q, k) = d,
             Place(tree, d, q[k + 1]) <= Place(tree, d, p[k + 1])
      PROVE  \E j \in 1..i : Append(d, tree.entries[d][j]) \in tree.dangling
  <2>1. q \in Seq(STRING) /\ k \in 0..(Len(q) - 1)
    BY <1>3, <1>7, Leaves
  <2>2. PICK j \in 1..Len(tree.entries[d]) :
          tree.entries[d][j] = q[k + 1] /\ Pre(q, k + 1) = Append(d, tree.entries[d][j])
    <3>1. q \in Files(tree) \cup tree.dangling
      BY <1>7
    <3>2. Holds(tree, Pre(q, k), q, k)
      BY <2>1, <3>1, NameOnPath
    <3> QED
      BY <1>7, <3>2 DEF Holds
  <2>3. Pre(q, k + 1) = q
    BY <1>7, <2>1, WholePrefix
  <2>4. Place(tree, d, q[k + 1]) = j
    BY <1>2, <2>2, PlaceOfEntry
  <2>5. j \in 1..i
    BY <1>4, <1>7, <2>4
  <2> QED
    BY <2>2, <2>3, <2>5
<1>8. Behind(tree, p, k) => \E j \in 1..i : Append(d, tree.entries[d][j]) \in tree.dangling
  BY <1>2, <1>7 DEF Behind
<1> QED
  BY <1>5, <1>6, <1>8

LEMMA NamedPrefix ==
  ASSUME NEW tree, IsTree(tree), NEW p \in Files(tree) \cup tree.dangling, NEW k \in 0..Len(p), NEW names
  PROVE  Named(Pre(p, k), names) <=> k # 0 /\ p[k] \in names
<1>1. p \in Seq(STRING) /\ Len(p) \in Nat
  BY Leaves
<1>2. Pre(p, k) \in Seq(STRING) /\ Len(Pre(p, k)) = k /\ \A i \in 1..k : Pre(p, k)[i] = p[i]
  BY <1>1, PrefixIs
<1>3. CASE k = 0
  BY <1>1, <1>3, WholePrefix DEF Named
<1>4. CASE k # 0
  <2>1. Pre(p, k) # <<>> /\ k \in 1..k
    BY <1>1, <1>2, <1>4
  <2> QED
    BY <1>2, <1>4, <2>1 DEF Named
<1> QED
  BY <1>3, <1>4

\* By Dirent: the files that are reached through no link and have no name on their path
\* that is skipped.
LEMMA WalkByDirent ==
  ASSUME NEW tree, IsTree(tree), NEW skip
  PROVE  Walk(tree, skip, FALSE) =
           {p \in Files(tree) : ~ThroughLink(tree, p) /\ \A i \in DOMAIN p : p[i] \notin skip}
<1> SUFFICES ASSUME NEW p
             PROVE  p \in Walk(tree, skip, FALSE) <=>
                      /\ p \in Files(tree) /\ ~ThroughLink(tree, p)
                      /\ \A i \in DOMAIN p : p[i] \notin skip
  <2>1. /\ \A p : p \in Walk(tree, skip, FALSE) <=>
             p \in {q \in Files(tree) : ~ThroughLink(tree, q) /\ \A i \in DOMAIN q : q[i] \notin skip}
    OBVIOUS
  <2> QED
    BY <2>1
<1>1. p \in Walk(tree, skip, FALSE) <=>
        p \in From(tree, skip, FALSE, <<>>) /\ ~Skipped(tree, p, skip, FALSE) /\ p \notin tree.dangling
  <2>1. Walk(tree, skip, FALSE) =
          {q \in From(tree, skip, FALSE, <<>>) :
             FALSE \/ ~(Skipped(tree, q, skip, FALSE) \/ q \in tree.dangling)}
    BY WalkFromRoot, Zenon
  <2> QED
    BY <2>1
<1>2. p \in From(tree, skip, FALSE, <<>>) => p \in Files(tree) \cup tree.dangling
  BY DEF From
<1>3. p \in Files(tree) => p \notin tree.dangling
  BY DEF IsTree
<1>4. ASSUME p \in Files(tree)
      PROVE  p \in From(tree, skip, FALSE, <<>>) /\ ~Skipped(tree, p, skip, FALSE) <=>
               ~ThroughLink(tree, p) /\ \A i \in DOMAIN p : p[i] \notin skip
  <2>1. p \in Seq(STRING) /\ Len(p) \in Nat \ {0} /\ DOMAIN p = 1..Len(p)
    BY <1>4, Leaves, LenProperties
  <2> DEFINE Free(k) == Pre(p, k) \notin tree.links /\ p[k] \notin skip
  <2>2. \A k \in 0..Len(p) : Skipped(tree, Pre(p, k), skip, FALSE) <=> k # 0 /\ ~Free(k)
    <3>1. Pre(p, 0) \notin tree.links
      BY <2>1, WholePrefix DEF IsTree
    <3>2. \A k \in 0..Len(p) : Named(Pre(p, k), skip) <=> k # 0 /\ p[k] \in skip
      BY <1>4, NamedPrefix
    <3> QED
      BY <3>1, <3>2 DEF Skipped
  <2>3. \A k \in 0..(Len(p) - 1) : Open(tree, skip, FALSE, p, k) <=> ~Skipped(tree, Pre(p, k), skip, FALSE)
    BY <1>4, EntriesByDirent DEF Open
  <2>4. p \in From(tree, skip, FALSE, <<>>) <=> \A k \in 0..(Len(p) - 1) : Open(tree, skip, FALSE, p, k)
    BY <1>4, FromRoot
  <2>5. Pre(p, Len(p)) = p
    BY <2>1, WholePrefix
  <2>6. (~ThroughLink(tree, p) /\ \A i \in DOMAIN p : p[i] \notin skip) <=> \A k \in 1..Len(p) : Free(k)
    BY <2>1 DEF ThroughLink, Pre
  <2> DEFINE n == Len(p)
  <2>7. n \in Nat \ {0}
    BY <2>1
  <2> HIDE DEF n, Free
  <2>8. /\ \A k \in 0..(n - 1) : k \in 0..n /\ (k # 0 => k \in 1..n)
        /\ \A k \in 1..n : k # 0 /\ k \in 0..n /\ (k # n => k \in 0..(n - 1))
        /\ n \in 0..n /\ n # 0 /\ n \in 1..n
    BY <2>7
  <2>9. (\A k \in 0..(n - 1) : ~(k # 0 /\ ~Free(k))) /\ Free(n) <=> \A k \in 1..n : Free(k)
    BY <2>8
  <2>10. \A k \in 0..(n - 1) : Open(tree, skip, FALSE, p, k) <=> ~(k # 0 /\ ~Free(k))
    BY <2>2, <2>3, <2>8 DEF n
  <2>11. Skipped(tree, p, skip, FALSE) <=> ~Free(n)
    BY <2>2, <2>5, <2>8 DEF n
  <2> QED
    BY <2>4, <2>6, <2>9, <2>10, <2>11 DEF n
<1> QED
  BY <1>1, <1>2, <1>3, <1>4

LEMMA BehindSome ==
  ASSUME NEW tree, IsTree(tree), NEW p \in Files(tree)
  PROVE  (\E k \in 0..(Len(p) - 1) : Behind(tree, p, k)) <=>
           \E q \in tree.dangling :
             /\ Len(p) >= Len(q) /\ Pre(p, Len(q) - 1) = Pre(q, Len(q) - 1)
             /\ Place(tree, Pre(q, Len(q) - 1), q[Len(q)]) <= Place(tree, Pre(q, Len(q) - 1), p[Len(q)])
<1>1. Len(p) \in Nat /\ \A q \in tree.dangling : Len(q) \in Nat \ {0}
  BY Leaves
<1>2. ASSUME NEW k \in 0..(Len(p) - 1), NEW q \in tree.dangling, Len(q) = k + 1
      PROVE  Len(q) - 1 = k /\ Len(p) >= Len(q)
  BY <1>1, <1>2
<1>3. ASSUME NEW q \in tree.dangling, Len(p) >= Len(q)
      PROVE  Len(q) - 1 \in 0..(Len(p) - 1) /\ (Len(q) - 1) + 1 = Len(q)
  BY <1>1, <1>3
<1>4. ASSUME NEW k \in 0..(Len(p) - 1), Behind(tree, p, k)
      PROVE  \E q \in tree.dangling :
               /\ Len(p) >= Len(q) /\ Pre(p, Len(q) - 1) = Pre(q, Len(q) - 1)
               /\ Place(tree, Pre(q, Len(q) - 1), q[Len(q)]) <= Place(tree, Pre(q, Len(q) - 1), p[Len(q)])
  BY <1>2, <1>4 DEF Behind
<1>5. ASSUME NEW q \in tree.dangling, Len(p) >= Len(q), Pre(p, Len(q) - 1) = Pre(q, Len(q) - 1),
             Place(tree, Pre(q, Len(q) - 1), q[Len(q)]) <= Place(tree, Pre(q, Len(q) - 1), p[Len(q)])
      PROVE  \E k \in 0..(Len(p) - 1) : Behind(tree, p, k)
  BY <1>3, <1>5 DEF Behind
<1> QED
  BY <1>4, <1>5

LEMMA DanglingIsBehind ==
  ASSUME NEW tree, IsTree(tree), NEW p \in tree.dangling
  PROVE  Len(p) - 1 \in 0..(Len(p) - 1) /\ Behind(tree, p, Len(p) - 1)
<1>1. Len(p) \in Nat \ {0} /\ p \in Files(tree) \cup tree.dangling
  BY Leaves
<1>2. Len(p) - 1 \in 0..(Len(p) - 1) /\ (Len(p) - 1) + 1 = Len(p)
  BY <1>1
<1>3. Holds(tree, Pre(p, Len(p) - 1), p, Len(p) - 1)
  BY <1>1, <1>2, NameOnPath
<1>4. PICK i \in 1..Len(tree.entries[Pre(p, Len(p) - 1)]) :
        tree.entries[Pre(p, Len(p) - 1)][i] = p[Len(p)]
  BY <1>2, <1>3 DEF Holds
<1>5. Place(tree, Pre(p, Len(p) - 1), p[Len(p)]) \in Int
  BY <1>3, <1>4, PlaceOfEntry DEF Holds
<1>6. Place(tree, Pre(p, Len(p) - 1), p[Len(p)]) <= Place(tree, Pre(p, Len(p) - 1), p[Len(p)])
  BY <1>5
<1> QED
  BY <1>2, <1>6 DEF Behind

\* By statSync: the files with no skipped directory above them and no dangling link
\* before them or a directory above them.
LEMMA WalkByStat ==
  ASSUME NEW tree, IsTree(tree), NEW skip
  PROVE  \A p : p \in Walk(tree, skip, TRUE) <=>
           /\ p \in Files(tree)
           /\ \A i \in 1..(Len(p) - 1) : p[i] \notin skip
           /\ ~ \E k \in 0..(Len(p) - 1) : Behind(tree, p, k)
<1> SUFFICES ASSUME NEW p
             PROVE  p \in Walk(tree, skip, TRUE) <=>
                      /\ p \in Files(tree)
                      /\ \A i \in 1..(Len(p) - 1) : p[i] \notin skip
                      /\ ~ \E k \in 0..(Len(p) - 1) : Behind(tree, p, k)
  OBVIOUS
<1>1. p \in Walk(tree, skip, TRUE) <=> p \in From(tree, skip, TRUE, <<>>)
  <2>1. Walk(tree, skip, TRUE) =
          {q \in From(tree, skip, TRUE, <<>>) :
             TRUE \/ ~(Skipped(tree, q, skip, TRUE) \/ q \in tree.dangling)}
    BY WalkFromRoot, Zenon
  <2> QED
    BY <2>1
<1>2. p \in From(tree, skip, TRUE, <<>>) => p \in Files(tree) \cup tree.dangling
  BY DEF From
<1>3. ASSUME p \in Files(tree) \cup tree.dangling
      PROVE  p \in From(tree, skip, TRUE, <<>>) <=>
               /\ \A i \in 1..(Len(p) - 1) : p[i] \notin skip
               /\ ~ \E k \in 0..(Len(p) - 1) : Behind(tree, p, k)
  <2>1. Len(p) \in Nat \ {0}
    BY <1>3, Leaves
  <2>2. \A k \in 0..(Len(p) - 1) : Open(tree, skip, TRUE, p, k) <=>
           ~(k # 0 /\ p[k] \in skip) /\ ~Behind(tree, p, k)
    <3> SUFFICES ASSUME NEW k \in 0..(Len(p) - 1)
                 PROVE  Open(tree, skip, TRUE, p, k) <=> ~(k # 0 /\ p[k] \in skip) /\ ~Behind(tree, p, k)
      OBVIOUS
    <3>1. k \in 0..Len(p)
      BY <2>1
    <3> QED
      BY <1>3, <3>1, NamedPrefix, EntriesByStat DEF Open, Skipped
  <2>3. p \in From(tree, skip, TRUE, <<>>) <=> \A k \in 0..(Len(p) - 1) : Open(tree, skip, TRUE, p, k)
    BY <1>3, FromRoot
  <2>4. \A i : i \in 1..(Len(p) - 1) <=> i \in 0..(Len(p) - 1) /\ i # 0
    BY <2>1
  <2> QED
    BY <2>2, <2>3, <2>4
<1>4. p \in tree.dangling => p \notin From(tree, skip, TRUE, <<>>)
  BY <1>3, DanglingIsBehind
<1> QED
  BY <1>1, <1>2, <1>3, <1>4

(* A module whose callback turns down excluded names comes to the files that  *)
(* are not passed over, and to no others.                                     *)
THEOREM WalksComeToAll ==
  ASSUME NEW tree, IsTree(tree), NEW skip, NEW excluded
  PROVE  Kept(Walk(tree, skip, TRUE), excluded) =
           {p \in Files(tree) : ~PassedOver(tree, p, skip, excluded)}
<1> SUFFICES ASSUME NEW p \in Files(tree)
             PROVE  p \in Kept(Walk(tree, skip, TRUE), excluded) <=> ~PassedOver(tree, p, skip, excluded)
  <2>1. \A p : p \in Kept(Walk(tree, skip, TRUE), excluded) => p \in Files(tree)
    BY WalkByStat DEF Kept
  <2> QED
    BY <2>1
<1>1. PassedOver(tree, p, skip, excluded) <=>
        \/ \E i \in 1..(Len(p) - 1) : p[i] \in skip
        \/ \E i \in DOMAIN p : Includes(p[i], excluded)
        \/ \E q \in tree.dangling :
             /\ Len(p) >= Len(q) /\ Pre(p, Len(q) - 1) = Pre(q, Len(q) - 1)
             /\ Place(tree, Pre(q, Len(q) - 1), q[Len(q)]) <= Place(tree, Pre(q, Len(q) - 1), p[Len(q)])
  BY Zenon DEF PassedOver, Pre, Place
<1>2. p \in Walk(tree, skip, TRUE) <=>
        /\ \A i \in 1..(Len(p) - 1) : p[i] \notin skip
        /\ ~ \E k \in 0..(Len(p) - 1) : Behind(tree, p, k)
  BY WalkByStat
<1>3. p \in Kept(Walk(tree, skip, TRUE), excluded) <=>
        p \in Walk(tree, skip, TRUE) /\ \A i \in DOMAIN p : ~Includes(p[i], excluded)
  BY DEF Kept
<1> QED
  BY <1>1, <1>2, <1>3, BehindSome
-------------------------------------------------------------------------------
(* Looking upwards for a guard *)

\* Functions of 0..n that agree on 0 and from each number to the next are one.
LEMMA StepByStep ==
  ASSUME NEW n \in Nat, NEW f, NEW g, f[0] = g[0],
         \A j \in 1..n : f[j - 1] = g[j - 1] => f[j] = g[j]
  PROVE  \A j \in 0..n : f[j] = g[j]
<1> DEFINE T == {j \in 0..n : f[j] # g[j]}
<1> SUFFICES ASSUME T # {} PROVE FALSE
  OBVIOUS
<1>1. T \in SUBSET Nat
  OBVIOUS
<1>2. PICK j \in T : \A m \in T : j <= m
  BY <1>1, LeastNat
<1>3. j \in 0..n /\ f[j] # g[j]
  BY <1>2
<1>4. j \in 1..n /\ j - 1 \in 0..n /\ ~(j <= j - 1)
  BY <1>3
<1>5. f[j - 1] = g[j - 1]
  BY <1>2, <1>4
<1> QED
  BY <1>3, <1>4, <1>5

\* A guard above line j + 1 and between them only lines that are passed.
Guarded(ls, passed, j) ==
  \E g \in 1..j : "guard" \in ls[g] /\ \A k \in (g + 1)..j : k \in passed

LEMMA GuardedStep ==
  ASSUME NEW ls, NEW passed, NEW j \in Nat \ {0}
  PROVE  /\ Guarded(ls, passed, j) <=> \/ "guard" \in ls[j]
                                       \/ j \in passed /\ Guarded(ls, passed, j - 1)
         /\ ~Guarded(ls, passed, 0)
<1>1. ASSUME Guarded(ls, passed, j), "guard" \notin ls[j]
      PROVE  j \in passed /\ Guarded(ls, passed, j - 1)
  <2>1. PICK g \in 1..j : "guard" \in ls[g] /\ \A k \in (g + 1)..j : k \in passed
    BY <1>1 DEF Guarded
  <2>2. g \in 1..(j - 1) /\ j \in (g + 1)..j /\ \A k \in (g + 1)..(j - 1) : k \in (g + 1)..j
    BY <1>1, <2>1
  <2> QED
    BY <2>1, <2>2 DEF Guarded
<1>2. ASSUME "guard" \in ls[j] PROVE Guarded(ls, passed, j)
  <2>1. j \in 1..j /\ \A k \in (j + 1)..j : k \in passed
    OBVIOUS
  <2> QED
    BY <1>2, <2>1 DEF Guarded
<1>3. ASSUME j \in passed, Guarded(ls, passed, j - 1) PROVE Guarded(ls, passed, j)
  <2>1. PICK g \in 1..(j - 1) : "guard" \in ls[g] /\ \A k \in (g + 1)..(j - 1) : k \in passed
    BY <1>3 DEF Guarded
  <2>2. g \in 1..j /\ \A k \in (g + 1)..j : k = j \/ k \in (g + 1)..(j - 1)
    OBVIOUS
  <2> QED
    BY <1>3, <2>1, <2>2 DEF Guarded
<1>4. ~Guarded(ls, passed, 0)
  BY DEF Guarded
<1> QED
  BY <1>1, <1>2, <1>3, <1>4

PassedAboveRoute(ls) == {k \in Nat : "@" \in ls[k] /\ ~IsRoute(ls[k])}
PassedAboveClass(ls) == {k \in Nat : ls[k] = {} \/ "@" \in ls[k]}

LEMMA AboveRoute ==
  ASSUME NEW ls, Len(ls) \in Nat, NEW i \in 1..Len(ls)
  PROVE  HasPrecedingGuard(ls, i) <=> Guarded(ls, PassedAboveRoute(ls), i - 1)
<1> DEFINE n == Len(ls)
           P == PassedAboveRoute(ls)
           Is(f) == f = [j \in 0..n |->
                           IF j = 0 THEN FALSE
                           ELSE "guard" \in ls[j] \/ ("@" \in ls[j] /\ ~IsRoute(ls[j]) /\ f[j - 1])]
           G == [j \in 0..n |-> Guarded(ls, P, j)]
           f0 == CHOOSE f : Is(f)
<1>0. n \in Nat /\ i - 1 \in 0..n
  OBVIOUS
<1>1. ASSUME NEW j \in 1..n
      PROVE  Guarded(ls, P, j) <=>
               "guard" \in ls[j] \/ ("@" \in ls[j] /\ ~IsRoute(ls[j]) /\ Guarded(ls, P, j - 1))
  <2>1. j \in Nat \ {0}
    OBVIOUS
  <2> QED
    BY <2>1, GuardedStep DEF PassedAboveRoute
<1>2. ~Guarded(ls, P, 0)
  BY DEF Guarded
<1>3. Is(G)
  <2>1. \A j \in 0..n : G[j] = Guarded(ls, P, j)
    OBVIOUS
  <2> SUFFICES ASSUME NEW j \in 0..n
               PROVE  Guarded(ls, P, j) =
                        IF j = 0 THEN FALSE
                        ELSE "guard" \in ls[j] \/ ("@" \in ls[j] /\ ~IsRoute(ls[j]) /\ G[j - 1])
    BY Zenon
  <2> HIDE DEF P, G
  <2>0. Guarded(ls, P, j) \in BOOLEAN
    BY Zenon DEF Guarded
  <2>2. CASE j = 0
    <3>1. Guarded(ls, P, j) = FALSE
      BY <1>2, <2>0, <2>2
    <3> QED
      BY <2>2, <3>1
  <2>3. CASE j # 0
    <3>1. j \in 1..n /\ j - 1 \in 0..n
      BY <1>0, <2>3
    <3>2. G[j - 1] = Guarded(ls, P, j - 1)
      BY <2>1, <3>1, Zenon
    <3>3. Guarded(ls, P, j) <=>
            "guard" \in ls[j] \/ ("@" \in ls[j] /\ ~IsRoute(ls[j]) /\ G[j - 1])
      BY <1>1, <3>1, <3>2, Zenon
    <3> QED
      BY <2>0, <2>3, <3>3, Zenon
  <2> QED
    BY <2>2, <2>3
<1>4. Is(f0)
  BY <1>3
<1> HIDE DEF f0, G
<1>5. /\ G[0] = f0[0]
      /\ \A j \in 1..n : G[j - 1] = f0[j - 1] => G[j] = f0[j]
  BY <1>0, <1>3, <1>4
<1>6. G[i - 1] = f0[i - 1]
  BY <1>0, <1>5, StepByStep, ZenonT(40)
<1>7. HasPrecedingGuard(ls, i) = f0[i - 1]
  BY Zenon DEF HasPrecedingGuard, f0
<1> QED
  BY <1>0, <1>6, <1>7 DEF G

LEMMA AboveClass ==
  ASSUME NEW ls, Len(ls) \in Nat, DOMAIN ls = 1..Len(ls)
  PROVE  IsClassLevelGuarded(ls) <=>
           \E c \in DOMAIN ls : /\ "class" \in ls[c]
                               /\ \A i \in DOMAIN ls : "class" \in ls[i] => c <= i
                               /\ Guarded(ls, PassedAboveClass(ls), c - 1)
<1> DEFINE n == Len(ls)
           P == PassedAboveClass(ls)
           Is(f) == f = [j \in 0..n |->
                           IF j = 0 THEN FALSE
                           ELSE IF ls[j] = {} THEN f[j - 1]
                           ELSE "guard" \in ls[j] \/ ("@" \in ls[j] /\ f[j - 1])]
           G == [j \in 0..n |-> Guarded(ls, P, j)]
           f0 == CHOOSE f : Is(f)
           classes == {i \in DOMAIN ls : "class" \in ls[i]}
<1>0. n \in Nat
  OBVIOUS
<1>1. ASSUME NEW j \in 1..n
      PROVE  Guarded(ls, P, j) <=>
               "guard" \in ls[j] \/ ((ls[j] = {} \/ "@" \in ls[j]) /\ Guarded(ls, P, j - 1))
  <2>1. j \in Nat \ {0}
    OBVIOUS
  <2> QED
    BY <2>1, GuardedStep DEF PassedAboveClass
<1>2. ~Guarded(ls, P, 0)
  BY DEF Guarded
<1>3. Is(G)
  <2>1. \A j \in 0..n : G[j] = Guarded(ls, P, j)
    OBVIOUS
  <2> SUFFICES ASSUME NEW j \in 0..n
               PROVE  Guarded(ls, P, j) =
                        IF j = 0 THEN FALSE
                        ELSE IF ls[j] = {} THEN G[j - 1]
                        ELSE "guard" \in ls[j] \/ ("@" \in ls[j] /\ G[j - 1])
    BY Zenon
  <2> HIDE DEF P, G
  <2>0. Guarded(ls, P, j) \in BOOLEAN /\ Guarded(ls, P, j - 1) \in BOOLEAN
    BY Zenon DEF Guarded
  <2>2. CASE j = 0
    <3>1. Guarded(ls, P, j) = FALSE
      BY <1>2, <2>0, <2>2
    <3> QED
      BY <2>2, <3>1
  <2>3. CASE j # 0 /\ ls[j] = {}
    <3>1. j \in 1..n /\ j - 1 \in 0..n /\ "guard" \notin ls[j]
      BY <1>0, <2>3
    <3>2. G[j - 1] = Guarded(ls, P, j - 1)
      BY <2>1, <3>1, Zenon
    <3>3. Guarded(ls, P, j) <=> Guarded(ls, P, j - 1)
      BY <1>1, <2>3, <3>1, Zenon
    <3> QED
      BY <2>0, <2>3, <3>2, <3>3, Zenon
  <2>4. CASE j # 0 /\ ls[j] # {}
    <3>1. j \in 1..n /\ j - 1 \in 0..n
      BY <1>0, <2>4
    <3>2. G[j - 1] = Guarded(ls, P, j - 1)
      BY <2>1, <3>1, Zenon
    <3>3. Guarded(ls, P, j) <=> "guard" \in ls[j] \/ ("@" \in ls[j] /\ G[j - 1])
      BY <1>1, <2>4, <3>1, <3>2, Zenon
    <3> QED
      BY <2>0, <2>4, <3>3, Zenon
  <2> QED
    BY <2>2, <2>3, <2>4
<1>4. Is(f0)
  BY <1>3
<1> HIDE DEF f0, G
<1>5. /\ G[0] = f0[0]
      /\ \A j \in 1..n : G[j - 1] = f0[j - 1] => G[j] = f0[j]
  <2>1. ASSUME NEW f, Is(f)
        PROVE  f[0] = FALSE
               /\ \A j \in 1..n : f[j] = IF ls[j] = {} THEN f[j - 1]
                                       ELSE "guard" \in ls[j] \/ ("@" \in ls[j] /\ f[j - 1])
    <3>1. 0 \in 0..n /\ \A j \in 1..n : j \in 0..n /\ j # 0
      BY <1>0
    <3>2. \A j \in 0..n : f[j] = IF j = 0 THEN FALSE
                                 ELSE IF ls[j] = {} THEN f[j - 1]
                                 ELSE "guard" \in ls[j] \/ ("@" \in ls[j] /\ f[j - 1])
      BY <2>1, Zenon
    <3> QED
      BY <3>1, <3>2, Zenon
  <2>2. G[0] = FALSE /\ f0[0] = FALSE
    BY <1>3, <1>4, <2>1, Zenon
  <2>3. ASSUME NEW j \in 1..n, G[j - 1] = f0[j - 1] PROVE G[j] = f0[j]
    <3>1. G[j] = IF ls[j] = {} THEN G[j - 1] ELSE "guard" \in ls[j] \/ ("@" \in ls[j] /\ G[j - 1])
      BY <1>3, <2>1, Zenon
    <3>2. f0[j] = IF ls[j] = {} THEN f0[j - 1] ELSE "guard" \in ls[j] \/ ("@" \in ls[j] /\ f0[j - 1])
      BY <1>4, <2>1, Zenon
    <3> QED
      BY <2>3, <3>1, <3>2, Zenon
  <2> QED
    BY <2>2, <2>3, Zenon
<1>6. \A j \in 0..n : f0[j] = Guarded(ls, P, j)
  <2>1. \A j \in 0..n : G[j] = f0[j]
    <3> HIDE DEF Is, P, classes, n
    <3> QED
      BY <1>0, <1>5, StepByStep, SMTT(30)
  <2> QED
    BY <2>1 DEF G
<1>7. IsClassLevelGuarded(ls) <=> \E c \in classes : (\A i \in classes : c <= i) /\ f0[c - 1]
  BY Zenon DEF IsClassLevelGuarded, f0
<1>8. \A c \in classes : f0[c - 1] = Guarded(ls, P, c - 1)
  <2>1. \A c \in classes : c - 1 \in 0..n
    OBVIOUS
  <2> QED
    BY <1>6, <2>1
<1> HIDE DEF P
<1>9. (\E c \in classes : (\A i \in classes : c <= i) /\ f0[c - 1])
        <=> \E c \in classes : (\A i \in classes : c <= i) /\ Guarded(ls, P, c - 1)
  BY <1>8, Zenon
<1> QED
  BY <1>7, <1>9, Zenon DEF P

(* A route is reported when neither its own decorators nor those of the first *)
(* class mention a guard.                                                     *)
THEOREM ReportsExposedRoutes ==
  ASSUME NEW ls, Len(ls) \in Nat, DOMAIN ls = 1..Len(ls), NEW i \in DOMAIN ls
  PROVE  IsRoute(ls[i]) /\ ~IsClassLevelGuarded(ls) /\ ~HasPrecedingGuard(ls, i) <=> Exposed(ls, i)
<1> DEFINE RouteOpen == \A j \in 1..(i - 1) : "guard" \in ls[j] =>
                          \E k \in (j + 1)..(i - 1) : IsRoute(ls[k]) \/ "@" \notin ls[k]
           ClassOpen == \A c \in DOMAIN ls : \A j \in 1..(c - 1) :
                          "class" \in ls[c] /\ "guard" \in ls[j] =>
                            \E k \in 1..(c - 1) : "class" \in ls[k] \/ (k > j /\ ls[k] # {} /\ "@" \notin ls[k])
<1>1. ~HasPrecedingGuard(ls, i) <=> RouteOpen
  <2>1. \A j \in 1..(i - 1) : \A k \in (j + 1)..(i - 1) : k \in Nat
    OBVIOUS
  <2>2. RouteOpen <=> ~Guarded(ls, PassedAboveRoute(ls), i - 1)
    BY <2>1 DEF Guarded, PassedAboveRoute
  <2> QED
    BY <2>2, AboveRoute
<1>2. IsClassLevelGuarded(ls) => ~ClassOpen
  <2> SUFFICES ASSUME IsClassLevelGuarded(ls), ClassOpen PROVE FALSE
    OBVIOUS
  <2>1. PICK c \in DOMAIN ls : /\ "class" \in ls[c]
                              /\ \A m \in DOMAIN ls : "class" \in ls[m] => c <= m
                              /\ Guarded(ls, PassedAboveClass(ls), c - 1)
    BY AboveClass
  <2>2. PICK j \in 1..(c - 1) : "guard" \in ls[j] /\ \A k \in (j + 1)..(c - 1) : k \in PassedAboveClass(ls)
    BY <2>1 DEF Guarded
  <2>3. PICK k \in 1..(c - 1) : "class" \in ls[k] \/ (k > j /\ ls[k] # {} /\ "@" \notin ls[k])
    BY <2>1, <2>2
  <2>4. k \in DOMAIN ls /\ ~(c <= k) /\ (k > j => k \in (j + 1)..(c - 1))
    BY <2>1, <2>2, <2>3
  <2> QED
    BY <2>1, <2>2, <2>3, <2>4 DEF PassedAboveClass
<1>3. ASSUME ~IsClassLevelGuarded(ls), NEW c \in DOMAIN ls, NEW j \in 1..(c - 1),
             "class" \in ls[c], "guard" \in ls[j]
      PROVE  \E k \in 1..(c - 1) : "class" \in ls[k] \/ (k > j /\ ls[k] # {} /\ "@" \notin ls[k])
  <2> SUFFICES ASSUME \A k \in 1..(c - 1) : "class" \notin ls[k] /\ (k > j => ls[k] = {} \/ "@" \in ls[k])
               PROVE  FALSE
    OBVIOUS
  <2>1. \A m \in DOMAIN ls : "class" \in ls[m] => c <= m
    <3>1. \A m \in DOMAIN ls : ~(c <= m) => m \in 1..(c - 1)
      OBVIOUS
    <3> QED
      BY <3>1
  <2>2. \A k \in (j + 1)..(c - 1) : k \in PassedAboveClass(ls)
    <3>1. \A k \in (j + 1)..(c - 1) : k \in 1..(c - 1) /\ k > j /\ k \in Nat
      OBVIOUS
    <3> QED
      BY <3>1 DEF PassedAboveClass
  <2>3. Guarded(ls, PassedAboveClass(ls), c - 1)
    BY <1>3, <2>2 DEF Guarded
  <2> QED
    BY <1>3, <2>1, <2>3, AboveClass
<1>4. Exposed(ls, i) <=> IsRoute(ls[i]) /\ RouteOpen /\ ClassOpen
  BY Zenon DEF Exposed
<1> HIDE DEF RouteOpen
<1>5. ~IsClassLevelGuarded(ls) <=> ClassOpen
  BY <1>2, <1>3
<1> QED
  BY <1>1, <1>4, <1>5
-------------------------------------------------------------------------------
(* Edit distance: the least number of edits *)

Least(a, b) == IF a <= b THEN a ELSE b

Cells(s1, s2) == (0..Len(s2)) \X (0..Len(s1))

\* What the loop writes into a cell of the track.
Cell(track, s1, s2, c) ==
  LET j == c[1]  i == c[2]
  IN  IF j = 0 THEN i
      ELSE IF i = 0 THEN j
      ELSE Least(Least(track[<<j, i - 1>>] + 1, track[<<j - 1, i>>] + 1),
                 track[<<j - 1, i - 1>>] + (IF s1[i] = s2[j] THEN 0 ELSE 1))

\* A cell is written from cells written before it.
LEMMA CellIsLocal ==
  ASSUME NEW s1, NEW s2, Len(s1) \in Nat, Len(s2) \in Nat,
         NEW j \in 0..Len(s2), NEW i \in 0..Len(s1), NEW f, NEW g,
         \A d \in Cells(s1, s2) : d[1] + d[2] < j + i => f[d] = g[d] /\ f[d] \in Nat
  PROVE  Cell(f, s1, s2, <<j, i>>) = Cell(g, s1, s2, <<j, i>>) /\ Cell(f, s1, s2, <<j, i>>) \in Nat
<1>1. CASE j = 0 \/ i = 0
  BY <1>1 DEF Cell
<1>2. CASE j # 0 /\ i # 0
  <2>1. ASSUME NEW y \in 0..Len(s2), NEW x \in 0..Len(s1), y + x < j + i
        PROVE  f[<<y, x>>] = g[<<y, x>>] /\ f[<<y, x>>] \in Nat
    <3>1. <<y, x>> \in Cells(s1, s2) /\ <<y, x>>[1] + <<y, x>>[2] < j + i
      BY <2>1 DEF Cells
    <3> QED
      BY <3>1
  <2>2. /\ j \in 0..Len(s2) /\ i - 1 \in 0..Len(s1) /\ j + (i - 1) < j + i
        /\ j - 1 \in 0..Len(s2) /\ i \in 0..Len(s1) /\ (j - 1) + i < j + i /\ (j - 1) + (i - 1) < j + i
    BY <1>2
  <2>3. /\ f[<<j, i - 1>>] = g[<<j, i - 1>>] /\ f[<<j, i - 1>>] \in Nat
        /\ f[<<j - 1, i>>] = g[<<j - 1, i>>] /\ f[<<j - 1, i>>] \in Nat
        /\ f[<<j - 1, i - 1>>] = g[<<j - 1, i - 1>>] /\ f[<<j - 1, i - 1>>] \in Nat
    BY <2>1, <2>2
  <2>4. PICK cost \in {0, 1} : cost = IF s1[i] = s2[j] THEN 0 ELSE 1
    OBVIOUS
  <2>5. \A t : Cell(t, s1, s2, <<j, i>>) =
                Least(Least(t[<<j, i - 1>>] + 1, t[<<j - 1, i>>] + 1), t[<<j - 1, i - 1>>] + cost)
    <3>1. <<j, i>>[1] = j /\ <<j, i>>[2] = i
      OBVIOUS
    <3> QED
      BY <1>2, <2>4, <3>1, Zenon DEF Cell
  <2>6. \A x, y, z \in Nat : Least(Least(x + 1, y + 1), z + cost) \in Nat
    BY DEF Least
  <2>7. /\ Cell(f, s1, s2, <<j, i>>) =
             Least(Least(f[<<j, i - 1>>] + 1, f[<<j - 1, i>>] + 1), f[<<j - 1, i - 1>>] + cost)
        /\ Cell(g, s1, s2, <<j, i>>) =
             Least(Least(g[<<j, i - 1>>] + 1, g[<<j - 1, i>>] + 1), g[<<j - 1, i - 1>>] + cost)
    BY <2>5, Zenon
  <2>8. Least(Least(f[<<j, i - 1>>] + 1, f[<<j - 1, i>>] + 1), f[<<j - 1, i - 1>>] + cost) \in Nat
    BY <2>3, <2>6, Zenon
  <2>9. Cell(f, s1, s2, <<j, i>>) = Cell(g, s1, s2, <<j, i>>)
    BY <2>3, <2>7
  <2> QED
    BY <2>7, <2>8, <2>9, Zenon
<1> QED
  BY <1>1, <1>2

\* The track can be written as far as one likes.
Written(t, s1, s2, k) ==
  \A c \in Cells(s1, s2) : c[1] + c[2] <= k => t[c] = Cell(t, s1, s2, c) /\ t[c] \in Nat

LEMMA TrackWritten ==
  ASSUME NEW s1, NEW s2, Len(s1) \in Nat, Len(s2) \in Nat, NEW k \in Nat
  PROVE  \E t \in [Cells(s1, s2) -> Nat] : Written(t, s1, s2, k)
<1> DEFINE Ok(m) == \E t \in [Cells(s1, s2) -> Nat] : Written(t, s1, s2, m)
           T == {m \in Nat : ~Ok(m)}
<1> SUFFICES ASSUME T # {} PROVE FALSE
  OBVIOUS
<1> HIDE DEF Ok
<1>1. PICK m \in T : \A l \in T : m <= l
  BY LeastNat
<1>2. m \in Nat /\ ~Ok(m)
  BY <1>1
<1>0. \A c \in Cells(s1, s2) : /\ c = <<c[1], c[2]>> /\ c[1] \in 0..Len(s2) /\ c[2] \in 0..Len(s1)
                               /\ c[1] + c[2] \in Nat
  BY DEF Cells
<1>3. \E F \in [Cells(s1, s2) -> Nat] :
        \A c \in Cells(s1, s2) : c[1] + c[2] < m => F[c] = Cell(F, s1, s2, c)
  <2>1. CASE m = 0
    <3>1. [c \in Cells(s1, s2) |-> 0] \in [Cells(s1, s2) -> Nat]
      OBVIOUS
    <3>2. \A c \in Cells(s1, s2) : ~(c[1] + c[2] < m)
      BY <1>0, <2>1
    <3> QED
      BY <3>1, <3>2
  <2>2. CASE m # 0
    <3>1. m - 1 \in Nat /\ ~(m <= m - 1)
      BY <1>2, <2>2
    <3>2. Ok(m - 1)
      BY <1>1, <3>1
    <3>3. PICK F \in [Cells(s1, s2) -> Nat] : Written(F, s1, s2, m - 1)
      BY <3>2 DEF Ok
    <3>4. \A c \in Cells(s1, s2) : c[1] + c[2] < m => c[1] + c[2] <= m - 1
      BY <1>0, <1>2
    <3> QED
      BY <3>3, <3>4 DEF Written
  <2> QED
    BY <2>1, <2>2
<1>4. PICK F \in [Cells(s1, s2) -> Nat] :
        \A c \in Cells(s1, s2) : c[1] + c[2] < m => F[c] = Cell(F, s1, s2, c)
  BY <1>3
<1> DEFINE G == [c \in Cells(s1, s2) |-> IF c[1] + c[2] <= m THEN Cell(F, s1, s2, c) ELSE 0]
<1>5. \A c \in Cells(s1, s2) : G[c] = IF c[1] + c[2] <= m THEN Cell(F, s1, s2, c) ELSE 0
  OBVIOUS
<1>6. \A c \in Cells(s1, s2) : c[1] + c[2] < m => F[c] = G[c] /\ F[c] \in Nat
  <2> SUFFICES ASSUME NEW c \in Cells(s1, s2), c[1] + c[2] < m PROVE F[c] = G[c] /\ F[c] \in Nat
    OBVIOUS
  <2>1. c[1] + c[2] <= m
    BY <1>0, <1>2
  <2> HIDE DEF G
  <2> QED
    BY <1>4, <1>5, <2>1
<1> HIDE DEF G
<1>7. ASSUME NEW c \in Cells(s1, s2), c[1] + c[2] <= m
      PROVE  G[c] = Cell(G, s1, s2, c) /\ G[c] \in Nat
  <2>1. PICK j \in 0..Len(s2), i \in 0..Len(s1) : c = <<j, i>>
    BY DEF Cells
  <2>2. c[1] = j /\ c[2] = i
    BY <2>1
  <2>3. \A d \in Cells(s1, s2) : d[1] + d[2] < j + i => d[1] + d[2] < m
    BY <1>0, <1>2, <1>7, <2>2
  <2>4. Cell(F, s1, s2, <<j, i>>) = Cell(G, s1, s2, <<j, i>>) /\ Cell(F, s1, s2, <<j, i>>) \in Nat
    BY <1>6, <2>3, CellIsLocal
  <2> QED
    BY <1>5, <1>7, <2>1, <2>4
<1>8. G \in [Cells(s1, s2) -> Nat]
  <2>1. \A c \in Cells(s1, s2) : G[c] \in Nat
    BY <1>5, <1>7
  <2> QED
    BY <2>1 DEF G
<1>9. Written(G, s1, s2, m)
  BY <1>7 DEF Written
<1> QED
  BY <1>2, <1>8, <1>9 DEF Ok

\* The track is filled by its rule, and the distance is its last cell.
LEMMA Track ==
  ASSUME NEW s1, NEW s2, Len(s1) \in Nat, Len(s2) \in Nat
  PROVE  \E t : /\ LevenshteinDistance(s1, s2) = t[<<Len(s2), Len(s1)>>]
                /\ \A j \in 0..Len(s2), i \in 0..Len(s1) :
                     t[<<j, i>>] = Cell(t, s1, s2, <<j, i>>) /\ t[<<j, i>>] \in Nat
<1> DEFINE Is(t) == t = [c \in (0..Len(s2)) \X (0..Len(s1)) |-> Cell(t, s1, s2, c)]
           f0 == CHOOSE t : Is(t)
<1>0. Len(s1) + Len(s2) \in Nat
  OBVIOUS
<1>1. PICK t \in [Cells(s1, s2) -> Nat] : Written(t, s1, s2, Len(s1) + Len(s2))
  BY <1>0, TrackWritten
<1>2. \A c \in Cells(s1, s2) : c[1] + c[2] <= Len(s1) + Len(s2)
  BY DEF Cells
<1>3. \A c \in Cells(s1, s2) : t[c] = Cell(t, s1, s2, c)
  BY <1>1, <1>2 DEF Written
<1>4. Is(t)
  BY <1>1, <1>3 DEF Cells
<1>5. Is(f0)
  BY <1>4
<1> HIDE DEF f0
<1>6. f0 = [c \in Cells(s1, s2) |-> Cell(f0, s1, s2, c)]
  BY <1>5, Zenon DEF Cells
<1>7. \A c \in Cells(s1, s2) : f0[c] = Cell(f0, s1, s2, c)
  BY <1>6, Zenon
<1>8. \A c \in Cells(s1, s2) : f0[c] \in Nat
  <2> DEFINE Bad == {n \in Nat : \E c \in Cells(s1, s2) : n = c[1] + c[2] /\ f0[c] \notin Nat}
  <2>1. Bad = {}
    <3> SUFFICES ASSUME Bad # {} PROVE FALSE
      OBVIOUS
    <3>0. \A d \in Cells(s1, s2) : d[1] + d[2] \in Nat
      BY DEF Cells
    <3>1. PICK n \in Bad : \A m \in Bad : n <= m
      BY LeastNat
    <3>2. PICK c \in Cells(s1, s2) : n = c[1] + c[2] /\ f0[c] \notin Nat
      BY <3>1
    <3>3. PICK j \in 0..Len(s2), i \in 0..Len(s1) : c = <<j, i>>
      BY <3>2, SMTT(30) DEF Cells
    <3>4. \A d \in Cells(s1, s2) : d[1] + d[2] < j + i => f0[d] = f0[d] /\ f0[d] \in Nat
      <4> SUFFICES ASSUME NEW d \in Cells(s1, s2), d[1] + d[2] < j + i PROVE f0[d] \in Nat
        OBVIOUS
      <4>1. n = j + i
        BY <3>2, <3>3
      <4>2. d[1] + d[2] \in Nat
        BY <3>0, Zenon
      <4>3. ~(n <= d[1] + d[2])
        <5>1. \A a, b \in Nat : a < b => ~(b <= a)
          OBVIOUS
        <5>2. j + i \in Nat /\ d[1] + d[2] < j + i
          OBVIOUS
        <5> QED
          BY <4>1, <4>2, <5>1, <5>2, Zenon
      <4> QED
        BY <3>1, <4>2, <4>3, Zenon
    <3>5. Cell(f0, s1, s2, <<j, i>>) \in Nat
      BY <3>4, CellIsLocal
    <3> QED
      BY <1>7, <3>2, <3>3, <3>5
  <2>2. \A c \in Cells(s1, s2) : c[1] + c[2] \in Nat
    BY DEF Cells
  <2> QED
    BY <2>1, <2>2
<1>9. LevenshteinDistance(s1, s2) = f0[<<Len(s2), Len(s1)>>]
  BY Zenon DEF LevenshteinDistance, f0, Cell, Least
<1>10. \A j \in 0..Len(s2), i \in 0..Len(s1) : <<j, i>> \in Cells(s1, s2)
  BY DEF Cells
<1> QED
  BY <1>7, <1>8, <1>9, <1>10

SameUpTo(s1, s2, n) == \A m \in 1..n : s1[m] = s2[m]

\* At most one place differs; a letter more at one place.
Replaced(s1, s2, j, i) ==
  i = j /\ \E k \in 0..i : SameUpTo(s1, s2, k) /\ \A m \in (k + 2)..i : s1[m] = s2[m]
Longer(s1, s2, j, i) ==
  i = j + 1 /\ \E k \in 0..j : SameUpTo(s1, s2, k) /\ \A m \in (k + 1)..j : s1[m + 1] = s2[m]

Near(s1, s2, j, i) == Replaced(s1, s2, j, i) \/ Longer(s1, s2, j, i) \/ Longer(s2, s1, i, j)

LEMMA SameUpToStep ==
  ASSUME NEW s1, NEW s2, NEW n \in Nat \ {0}
  PROVE  /\ SameUpTo(s1, s2, n) <=> SameUpTo(s1, s2, n - 1) /\ s1[n] = s2[n]
         /\ SameUpTo(s1, s2, n) <=> SameUpTo(s2, s1, n)
         /\ SameUpTo(s1, s2, 0)
<1>1. \A m \in 1..n : m = n \/ m \in 1..(n - 1)
  OBVIOUS
<1>2. n \in 1..n /\ \A m \in 1..(n - 1) : m \in 1..n
  OBVIOUS
<1> QED
  BY <1>1, <1>2 DEF SameUpTo

LEMMA ReplacedStep ==
  ASSUME NEW s1, NEW s2, NEW i \in Nat \ {0}
  PROVE  Replaced(s1, s2, i, i) <=>
           SameUpTo(s1, s2, i - 1) \/ (s1[i] = s2[i] /\ Replaced(s1, s2, i - 1, i - 1))
<1>1. ASSUME Replaced(s1, s2, i, i), ~SameUpTo(s1, s2, i - 1)
      PROVE  s1[i] = s2[i] /\ Replaced(s1, s2, i - 1, i - 1)
  <2>1. PICK k \in 0..i : SameUpTo(s1, s2, k) /\ \A m \in (k + 2)..i : s1[m] = s2[m]
    BY <1>1 DEF Replaced
  <2>2. ~(k >= i - 1)
    BY <1>1, <2>1 DEF SameUpTo
  <2>3. k \in 0..(i - 1) /\ i \in (k + 2)..i /\ \A m \in (k + 2)..(i - 1) : m \in (k + 2)..i
    BY <2>2
  <2> QED
    BY <2>1, <2>3 DEF Replaced
<1>2. ASSUME SameUpTo(s1, s2, i - 1) PROVE Replaced(s1, s2, i, i)
  <2>1. i - 1 \in 0..i /\ \A m \in ((i - 1) + 2)..i : FALSE
    OBVIOUS
  <2> QED
    BY <1>2, <2>1 DEF Replaced
<1>3. ASSUME s1[i] = s2[i], Replaced(s1, s2, i - 1, i - 1) PROVE Replaced(s1, s2, i, i)
  <2>1. PICK k \in 0..(i - 1) : SameUpTo(s1, s2, k) /\ \A m \in (k + 2)..(i - 1) : s1[m] = s2[m]
    BY <1>3 DEF Replaced
  <2>2. k \in 0..i /\ \A m \in (k + 2)..i : m = i \/ m \in (k + 2)..(i - 1)
    OBVIOUS
  <2> QED
    BY <1>3, <2>1, <2>2 DEF Replaced
<1> QED
  BY <1>1, <1>2, <1>3

LEMMA LongerStep ==
  ASSUME NEW s1, NEW s2, NEW j \in Nat \ {0}
  PROVE  Longer(s1, s2, j, j + 1) <=>
           SameUpTo(s1, s2, j) \/ (s1[j + 1] = s2[j] /\ Longer(s1, s2, j - 1, j))
<1>1. ASSUME Longer(s1, s2, j, j + 1), ~SameUpTo(s1, s2, j)
      PROVE  s1[j + 1] = s2[j] /\ Longer(s1, s2, j - 1, j)
  <2>1. PICK k \in 0..j : SameUpTo(s1, s2, k) /\ \A m \in (k + 1)..j : s1[m + 1] = s2[m]
    BY <1>1 DEF Longer
  <2>2. k # j
    BY <1>1, <2>1
  <2>3. k \in 0..(j - 1) /\ j \in (k + 1)..j /\ (\A m \in (k + 1)..(j - 1) : m \in (k + 1)..j)
        /\ j = (j - 1) + 1
    BY <2>2
  <2> QED
    BY <2>1, <2>3 DEF Longer
<1>2. ASSUME SameUpTo(s1, s2, j) PROVE Longer(s1, s2, j, j + 1)
  <2>1. j \in 0..j /\ \A m \in (j + 1)..j : FALSE
    OBVIOUS
  <2> QED
    BY <1>2, <2>1 DEF Longer
<1>3. ASSUME s1[j + 1] = s2[j], Longer(s1, s2, j - 1, j) PROVE Longer(s1, s2, j, j + 1)
  <2>1. PICK k \in 0..(j - 1) : SameUpTo(s1, s2, k) /\ \A m \in (k + 1)..(j - 1) : s1[m + 1] = s2[m]
    BY <1>3 DEF Longer
  <2>2. k \in 0..j /\ \A m \in (k + 1)..j : m = j \/ m \in (k + 1)..(j - 1)
    OBVIOUS
  <2> QED
    BY <1>3, <2>1, <2>2 DEF Longer
<1> QED
  BY <1>1, <1>2, <1>3

\* Near, the way the rule of the track takes it.
LEMMA NearStep ==
  ASSUME NEW s1, NEW s2, NEW j \in Nat \ {0}, NEW i \in Nat \ {0}
  PROVE  Near(s1, s2, j, i) <=>
           \/ i - 1 = j /\ SameUpTo(s1, s2, j)
           \/ i = j - 1 /\ SameUpTo(s1, s2, i)
           \/ i = j /\ SameUpTo(s1, s2, i - 1)
           \/ s1[i] = s2[j] /\ Near(s1, s2, j - 1, i - 1)
<1>1. CASE i = j
  <2>1. ~Longer(s1, s2, j, i) /\ ~Longer(s2, s1, i, j)
        /\ ~Longer(s1, s2, j - 1, i - 1) /\ ~Longer(s2, s1, i - 1, j - 1)
    BY <1>1 DEF Longer
  <2>2. i - 1 # j /\ i # j - 1
    BY <1>1
  <2> QED
    BY <1>1, <2>1, <2>2, ReplacedStep DEF Near
<1>2. CASE i = j + 1
  <2>1. /\ ~Replaced(s1, s2, j, i) /\ ~Longer(s2, s1, i, j)
        /\ ~Replaced(s1, s2, j - 1, i - 1) /\ ~Longer(s2, s1, i - 1, j - 1)
    BY <1>2 DEF Longer, Replaced
  <2>2. i - 1 = j /\ i # j - 1 /\ i # j
    BY <1>2
  <2>3. Longer(s1, s2, j, i) <=> SameUpTo(s1, s2, j) \/ (s1[i] = s2[j] /\ Longer(s1, s2, j - 1, i - 1))
    BY <1>2, <2>2, LongerStep
  <2> QED
    BY <2>1, <2>2, <2>3 DEF Near
<1>3. CASE j = i + 1
  <2>1. /\ ~Replaced(s1, s2, j, i) /\ ~Longer(s1, s2, j, i)
        /\ ~Replaced(s1, s2, j - 1, i - 1) /\ ~Longer(s1, s2, j - 1, i - 1)
    BY <1>3 DEF Longer, Replaced
  <2>2. j - 1 = i /\ i - 1 # j /\ i # j
    BY <1>3
  <2>3. Longer(s2, s1, i, j) <=> SameUpTo(s2, s1, i) \/ (s2[j] = s1[i] /\ Longer(s2, s1, i - 1, j - 1))
    BY <1>3, <2>2, LongerStep
  <2>4. SameUpTo(s2, s1, i) <=> SameUpTo(s1, s2, i)
    BY SameUpToStep
  <2> QED
    BY <2>1, <2>2, <2>3, <2>4 DEF Near
<1>4. CASE i # j /\ i # j + 1 /\ j # i + 1
  <2>1. ~Near(s1, s2, j, i) /\ ~Near(s1, s2, j - 1, i - 1)
    BY <1>4 DEF Near, Longer, Replaced
  <2>2. i - 1 # j /\ i # j - 1
    BY <1>4
  <2> QED
    BY <1>4, <2>1, <2>2
<1> QED
  BY <1>1, <1>2, <1>3, <1>4

LEMMA NearBorder ==
  ASSUME NEW s1, NEW s2, NEW j \in Nat, NEW i \in Nat, j = 0 \/ i = 0
  PROVE  Near(s1, s2, j, i) <=> j + i <= 1
<1>1. \A a, b, n : n = 0 => SameUpTo(a, b, n)
  BY DEF SameUpTo
<1>2. ASSUME NEW a, NEW b PROVE Longer(a, b, 0, 1)
  <2>1. 0 \in 0..0 /\ (\A m \in (0 + 1)..0 : FALSE) /\ 1 = 0 + 1
    OBVIOUS
  <2> QED
    BY <1>1, <2>1 DEF Longer
<1>3. Replaced(s1, s2, 0, 0)
  <2>1. 0 \in 0..0 /\ \A m \in (0 + 2)..0 : FALSE
    OBVIOUS
  <2> QED
    BY <1>1, <2>1 DEF Replaced
<1>4. CASE j + i <= 1
  <2>1. (j = 0 /\ i = 0) \/ (j = 0 /\ i = 1) \/ (j = 1 /\ i = 0)
    BY <1>4
  <2> QED
    BY <1>2, <1>3, <1>4, <2>1 DEF Near
<1>5. CASE ~(j + i <= 1)
  <2>1. i # j /\ i # j + 1 /\ j # i + 1
    BY <1>5
  <2> QED
    BY <1>5, <2>1 DEF Near, Longer, Replaced
<1> QED
  BY <1>4, <1>5

\* The cells that hold 0, and those that hold 0 or 1.
Fits(t, s1, s2, j, i) ==
  /\ t[<<j, i>>] = 0 <=> i = j /\ SameUpTo(s1, s2, i)
  /\ t[<<j, i>>] <= 1 <=> Near(s1, s2, j, i)

LEMMA LeastOfThree ==
  ASSUME NEW x \in Nat, NEW y \in Nat, NEW z \in Nat, NEW cost \in {0, 1},
         NEW v, v = Least(Least(x + 1, y + 1), z + cost)
  PROVE  /\ v = 0 <=> z = 0 /\ cost = 0
         /\ v <= 1 <=> \/ x = 0 \/ y = 0 \/ z = 0
                      \/ (z <= 1 /\ cost = 0)
BY DEF Least

LEMMA CellFits ==
  ASSUME NEW s1, NEW s2, NEW t, NEW j \in Nat \ {0}, NEW i \in Nat \ {0},
         t[<<j, i>>] = Cell(t, s1, s2, <<j, i>>),
         t[<<j, i - 1>>] \in Nat, t[<<j - 1, i>>] \in Nat, t[<<j - 1, i - 1>>] \in Nat,
         Fits(t, s1, s2, j, i - 1), Fits(t, s1, s2, j - 1, i), Fits(t, s1, s2, j - 1, i - 1)
  PROVE  Fits(t, s1, s2, j, i)
<1>1. PICK cost \in {0, 1} : cost = IF s1[i] = s2[j] THEN 0 ELSE 1
  OBVIOUS
<1>2. t[<<j, i>>] = Least(Least(t[<<j, i - 1>>] + 1, t[<<j - 1, i>>] + 1), t[<<j - 1, i - 1>>] + cost)
  <2>1. <<j, i>>[1] = j /\ <<j, i>>[2] = i /\ j # 0 /\ i # 0
    OBVIOUS
  <2> QED
    BY <1>1, <2>1, Zenon DEF Cell
<1>3. /\ t[<<j, i>>] = 0 <=> t[<<j - 1, i - 1>>] = 0 /\ cost = 0
      /\ t[<<j, i>>] <= 1 <=> \/ t[<<j, i - 1>>] = 0 \/ t[<<j - 1, i>>] = 0 \/ t[<<j - 1, i - 1>>] = 0
                             \/ (t[<<j - 1, i - 1>>] <= 1 /\ cost = 0)
  BY <1>2, LeastOfThree
<1>4. cost = 0 <=> s1[i] = s2[j]
  BY <1>1
<1>5. /\ t[<<j, i>>] = 0 <=> t[<<j - 1, i - 1>>] = 0 /\ s1[i] = s2[j]
      /\ t[<<j, i>>] <= 1 <=> \/ t[<<j, i - 1>>] = 0 \/ t[<<j - 1, i>>] = 0 \/ t[<<j - 1, i - 1>>] = 0
                             \/ (t[<<j - 1, i - 1>>] <= 1 /\ s1[i] = s2[j])
  BY <1>3, <1>4, Zenon
<1>6. /\ t[<<j, i - 1>>] = 0 <=> i - 1 = j /\ SameUpTo(s1, s2, i - 1)
      /\ t[<<j - 1, i>>] = 0 <=> i = j - 1 /\ SameUpTo(s1, s2, i)
      /\ t[<<j - 1, i - 1>>] = 0 <=> i - 1 = j - 1 /\ SameUpTo(s1, s2, i - 1)
      /\ t[<<j - 1, i - 1>>] <= 1 <=> Near(s1, s2, j - 1, i - 1)
  BY DEF Fits
<1>7. t[<<j, i>>] = 0 <=> i = j /\ SameUpTo(s1, s2, i)
  <2>1. i - 1 = j - 1 <=> i = j
    OBVIOUS
  <2>2. i = j => (SameUpTo(s1, s2, i) <=> SameUpTo(s1, s2, i - 1) /\ s1[i] = s2[j])
    BY SameUpToStep
  <2> QED
    BY <1>5, <1>6, <2>1, <2>2
<1>8. t[<<j, i>>] <= 1 <=> Near(s1, s2, j, i)
  <2>1. i - 1 = j - 1 <=> i = j
    OBVIOUS
  <2>2. i - 1 = j => (SameUpTo(s1, s2, i - 1) <=> SameUpTo(s1, s2, j))
    OBVIOUS
  <2> QED
    BY <1>5, <1>6, <2>1, <2>2, NearStep
<1> QED
  BY <1>7, <1>8 DEF Fits

LEMMA TrackFits ==
  ASSUME NEW s1, NEW s2, Len(s1) \in Nat, Len(s2) \in Nat, NEW t,
         \A j \in 0..Len(s2), i \in 0..Len(s1) :
           t[<<j, i>>] = Cell(t, s1, s2, <<j, i>>) /\ t[<<j, i>>] \in Nat
  PROVE  \A j \in 0..Len(s2), i \in 0..Len(s1) : Fits(t, s1, s2, j, i)
<1> DEFINE Bad == {n \in Nat : \E j \in 0..Len(s2), i \in 0..Len(s1) : n = j + i /\ ~Fits(t, s1, s2, j, i)}
<1>1. Bad = {}
  <2> SUFFICES ASSUME Bad # {} PROVE FALSE
    OBVIOUS
  <2>1. PICK n \in Bad : \A m \in Bad : n <= m
    BY LeastNat
  <2>2. PICK j \in 0..Len(s2), i \in 0..Len(s1) : n = j + i /\ ~Fits(t, s1, s2, j, i)
    BY <2>1
  <2>3. ASSUME NEW y \in 0..Len(s2), NEW x \in 0..Len(s1), y + x < j + i
        PROVE  Fits(t, s1, s2, y, x) /\ t[<<y, x>>] \in Nat
    <3>1. y + x \in Nat /\ ~(j + i <= y + x)
      BY <2>3
    <3> QED
      BY <2>1, <2>2, <3>1
  <2>4. CASE j = 0 \/ i = 0
    <3>1. t[<<j, i>>] = j + i
      <4>1. t[<<j, i>>] = Cell(t, s1, s2, <<j, i>>)
        OBVIOUS
      <4>2. <<j, i>>[1] = j /\ <<j, i>>[2] = i
        OBVIOUS
      <4>3. Cell(t, s1, s2, <<j, i>>) = IF j = 0 THEN i ELSE j
        BY <2>4, <4>2, Zenon DEF Cell
      <4> QED
        BY <2>4, <4>1, <4>3
    <3>2. j + i = 0 <=> i = j /\ SameUpTo(s1, s2, i)
      <4>1. j + i = 0 <=> i = j
        BY <2>4
      <4>2. i = 0 => SameUpTo(s1, s2, i)
        BY DEF SameUpTo
      <4> QED
        BY <2>4, <4>1, <4>2
    <3>3. j + i <= 1 <=> Near(s1, s2, j, i)
      BY <2>4, NearBorder
    <3> QED
      BY <2>2, <3>1, <3>2, <3>3 DEF Fits
  <2>5. CASE j # 0 /\ i # 0
    <3>1. /\ j \in Nat \ {0} /\ i \in Nat \ {0}
          /\ i - 1 \in 0..Len(s1) /\ j + (i - 1) < j + i
          /\ j - 1 \in 0..Len(s2) /\ (j - 1) + i < j + i /\ (j - 1) + (i - 1) < j + i
      BY <2>5
    <3>2. /\ Fits(t, s1, s2, j, i - 1) /\ t[<<j, i - 1>>] \in Nat
          /\ Fits(t, s1, s2, j - 1, i) /\ t[<<j - 1, i>>] \in Nat
          /\ Fits(t, s1, s2, j - 1, i - 1) /\ t[<<j - 1, i - 1>>] \in Nat
      BY <2>3, <3>1
    <3>3. t[<<j, i>>] = Cell(t, s1, s2, <<j, i>>)
      OBVIOUS
    <3>4. Fits(t, s1, s2, j, i)
      BY <3>1, <3>2, <3>3, CellFits
    <3> QED
      BY <2>2, <3>4
  <2> QED
    BY <2>4, <2>5
<1> SUFFICES ASSUME NEW j \in 0..Len(s2), NEW i \in 0..Len(s1) PROVE Fits(t, s1, s2, j, i)
  OBVIOUS
<1>2. j + i \in Nat
  OBVIOUS
<1> QED
  BY <1>1, <1>2

Without(s, i) == SubSeq(s, 1, i - 1) \o SubSeq(s, i + 1, Len(s))

LEMMA WithoutLetter ==
  ASSUME NEW Names, NEW s \in Seq(Names), NEW i \in 1..Len(s)
  PROVE  /\ Without(s, i) \in Seq(Names) /\ Len(Without(s, i)) = Len(s) - 1
         /\ \A m \in 1..(Len(s) - 1) : Without(s, i)[m] = IF m < i THEN s[m] ELSE s[m + 1]
<1>1. \A k \in 1..Len(s) : s[k] \in Names
  BY ElementOfSeq
<1>2. Len(s) \in Nat /\ i - 1 \in Int /\ i + 1 \in Int /\ 1 \in Int /\ Len(s) \in Int
  OBVIOUS
<1> DEFINE a == SubSeq(s, 1, i - 1)
           b == SubSeq(s, i + 1, Len(s))
<1>3. a \in Seq(Names) /\ Len(a) = i - 1 /\ \A k \in 1..(i - 1) : a[k] = s[k]
  <2>1. \A k \in 1..(i - 1) : s[k] \in Names
    BY <1>1
  <2> QED
    BY <1>2, <2>1, SubSeqProperties
<1>4. b \in Seq(Names) /\ Len(b) = Len(s) - i /\ \A k \in 1..(Len(s) - i) : b[k] = s[i + k]
  <2>1. \A k \in (i + 1)..Len(s) : s[k] \in Names
    BY <1>1
  <2>2. /\ b \in Seq(Names)
        /\ Len(b) = IF i + 1 <= Len(s) THEN (Len(s) - (i + 1)) + 1 ELSE 0
        /\ \A k \in 1..((Len(s) - (i + 1)) + 1) : b[k] = s[((i + 1) + k) - 1]
    BY <1>2, <2>1, SubSeqProperties
  <2>3. \A k \in 1..(Len(s) - i) : k \in 1..((Len(s) - (i + 1)) + 1) /\ ((i + 1) + k) - 1 = i + k
    BY <1>2
  <2> HIDE DEF b
  <2> QED
    BY <1>2, <2>2, <2>3
<1> HIDE DEF a, b
<1>5. /\ a \o b \in Seq(Names) /\ Len(a \o b) = Len(a) + Len(b)
      /\ \A m \in 1..(Len(a) + Len(b)) : (a \o b)[m] = IF m <= Len(a) THEN a[m] ELSE b[m - Len(a)]
  BY <1>3, <1>4, ConcatProperties
<1>6. ASSUME NEW m \in 1..(Len(s) - 1)
      PROVE  (a \o b)[m] = IF m < i THEN s[m] ELSE s[m + 1]
  <2>1. (a \o b)[m] = IF m <= i - 1 THEN a[m] ELSE b[m - (i - 1)]
    BY <1>2, <1>3, <1>4, <1>5
  <2>2. CASE m < i
    <3>1. m \in 1..(i - 1) /\ m <= i - 1
      BY <2>2
    <3> QED
      BY <1>3, <2>1, <2>2, <3>1
  <2>3. CASE ~(m < i)
    <3>1. m - (i - 1) \in 1..(Len(s) - i) /\ ~(m <= i - 1) /\ i + (m - (i - 1)) = m + 1
      BY <1>2, <2>3
    <3> QED
      BY <1>4, <2>1, <2>3, <3>1
  <2> QED
    BY <2>2, <2>3
<1>7. Without(s, i) = a \o b
  BY DEF Without, a, b
<1>8. a \o b \in Seq(Names) /\ Len(a \o b) = Len(s) - 1
  BY <1>2, <1>3, <1>4, <1>5
<1> QED
  BY <1>6, <1>7, <1>8, Zenon

LEMMA LongerIsWithout ==
  ASSUME NEW Names, NEW s1 \in Seq(Names), NEW s2 \in Seq(Names)
  PROVE  (\E i \in DOMAIN s1 : Without(s1, i) = s2) <=> Longer(s1, s2, Len(s2), Len(s1))
<1>1. Len(s1) \in Nat /\ Len(s2) \in Nat /\ DOMAIN s1 = 1..Len(s1)
  OBVIOUS
<1>2. ASSUME NEW i \in 1..Len(s1), Without(s1, i) = s2
      PROVE  Longer(s1, s2, Len(s2), Len(s1))
  <2>1. Len(s1) = Len(s2) + 1 /\ \A m \in 1..Len(s2) : s2[m] = IF m < i THEN s1[m] ELSE s1[m + 1]
    <3>1. /\ Len(Without(s1, i)) = Len(s1) - 1
          /\ \A m \in 1..(Len(s1) - 1) : Without(s1, i)[m] = IF m < i THEN s1[m] ELSE s1[m + 1]
      BY WithoutLetter
    <3>2. /\ Len(s2) = Len(s1) - 1
          /\ \A m \in 1..(Len(s1) - 1) : s2[m] = IF m < i THEN s1[m] ELSE s1[m + 1]
      BY <1>2, <3>1, Zenon
    <3>3. Len(s1) = Len(s2) + 1
      BY <1>1, <3>2
    <3> QED
      BY <3>2, <3>3, Zenon
  <2>2. i - 1 \in 0..Len(s2)
    BY <1>1, <2>1
  <2>3. /\ \A m \in 1..(i - 1) : m \in 1..Len(s2) /\ m < i
        /\ \A m \in ((i - 1) + 1)..Len(s2) : m \in 1..Len(s2) /\ ~(m < i)
    BY <1>1, <2>1
  <2>4. SameUpTo(s1, s2, i - 1) /\ \A m \in ((i - 1) + 1)..Len(s2) : s1[m + 1] = s2[m]
    BY <2>1, <2>3 DEF SameUpTo
  <2> QED
    BY <2>1, <2>2, <2>4 DEF Longer
<1>3. ASSUME Longer(s1, s2, Len(s2), Len(s1))
      PROVE  \E i \in 1..Len(s1) : Without(s1, i) = s2
  <2>1. Len(s1) = Len(s2) + 1
    BY <1>3 DEF Longer
  <2>2. PICK k \in 0..Len(s2) : SameUpTo(s1, s2, k) /\ \A m \in (k + 1)..Len(s2) : s1[m + 1] = s2[m]
    BY <1>3 DEF Longer
  <2>3. k + 1 \in 1..Len(s1)
    BY <1>1, <2>1
  <2>4. /\ Without(s1, k + 1) \in Seq(Names) /\ Len(Without(s1, k + 1)) = Len(s2)
        /\ \A m \in 1..Len(s2) : Without(s1, k + 1)[m] = IF m < k + 1 THEN s1[m] ELSE s1[m + 1]
    <3>1. /\ Without(s1, k + 1) \in Seq(Names) /\ Len(Without(s1, k + 1)) = Len(s1) - 1
          /\ \A m \in 1..(Len(s1) - 1) :
               Without(s1, k + 1)[m] = IF m < k + 1 THEN s1[m] ELSE s1[m + 1]
      BY <2>3, WithoutLetter
    <3>2. Len(s1) - 1 = Len(s2)
      BY <1>1, <2>1
    <3> QED
      BY <3>1, <3>2, Zenon
  <2>5. \A m \in 1..Len(s2) : Without(s1, k + 1)[m] = s2[m]
    <3> SUFFICES ASSUME NEW m \in 1..Len(s2) PROVE Without(s1, k + 1)[m] = s2[m]
      OBVIOUS
    <3>1. (m < k + 1 /\ m \in 1..k) \/ (~(m < k + 1) /\ m \in (k + 1)..Len(s2))
      BY <1>1
    <3> QED
      BY <2>2, <2>4, <3>1 DEF SameUpTo
  <2>6. Without(s1, k + 1) = s2
    BY <2>4, <2>5, SeqEqual
  <2> QED
    BY <2>3, <2>6
<1> QED
  BY <1>1, <1>2, <1>3

LEMMA ReplacedIsOne ==
  ASSUME NEW s1, NEW s2, NEW n \in Nat
  PROVE  Replaced(s1, s2, n, n) /\ ~SameUpTo(s1, s2, n)
           <=> Cardinality({i \in 1..n : s1[i] # s2[i]}) = 1
<1> DEFINE D == {i \in 1..n : s1[i] # s2[i]}
<1>1. IsFiniteSet(D)
  <2>1. 1 \in Int /\ n \in Int
    OBVIOUS
  <2>2. IsFiniteSet(1..n)
    BY <2>1, FS_Interval
  <2>3. D \subseteq 1..n
    BY Zenon
  <2> QED
    BY <2>2, <2>3, FS_Subset
<1>2. ASSUME Replaced(s1, s2, n, n), ~SameUpTo(s1, s2, n) PROVE \E x : D = {x}
  <2>1. PICK k \in 0..n : SameUpTo(s1, s2, k) /\ \A m \in (k + 2)..n : s1[m] = s2[m]
    BY <1>2 DEF Replaced
  <2>2. \A m \in 1..n : m \in 1..k \/ m = k + 1 \/ m \in (k + 2)..n
    OBVIOUS
  <2>3. \A m \in D : m = k + 1
    BY <2>1, <2>2 DEF SameUpTo
  <2>4. D # {}
    BY <1>2 DEF SameUpTo
  <2>5. D = {k + 1}
    BY <2>3, <2>4
  <2> QED
    BY <2>5
<1>3. ASSUME NEW x, D = {x} PROVE Replaced(s1, s2, n, n) /\ ~SameUpTo(s1, s2, n)
  <2>1. x \in 1..n /\ s1[x] # s2[x] /\ \A m \in 1..n : m # x => s1[m] = s2[m]
    BY <1>3
  <2>2. x - 1 \in 0..n /\ (\A m \in 1..(x - 1) : m \in 1..n /\ m # x)
        /\ \A m \in ((x - 1) + 2)..n : m \in 1..n /\ m # x
    BY <2>1
  <2>3. SameUpTo(s1, s2, x - 1) /\ \A m \in ((x - 1) + 2)..n : s1[m] = s2[m]
    BY <2>1, <2>2 DEF SameUpTo
  <2> QED
    BY <2>1, <2>2, <2>3 DEF SameUpTo, Replaced
<1>4. Cardinality(D) = 1 <=> \E x : D = {x}
  BY <1>1, FS_Singleton
<1> QED
  BY <1>2, <1>3, <1>4

(* Names at distance 1 are those that differ by one edit.                     *)
THEOREM DistanceOneIsOneEdit ==
  ASSUME NEW Names, NEW s1 \in Seq(Names), NEW s2 \in Seq(Names)
  PROVE  LevenshteinDistance(s1, s2) = 1 <=> OneEdit(s1, s2)
<1>1. Len(s1) \in Nat /\ Len(s2) \in Nat /\ DOMAIN s1 = 1..Len(s1)
  OBVIOUS
<1> DEFINE j == Len(s2)
           i == Len(s1)
<1>2. PICK t : /\ LevenshteinDistance(s1, s2) = t[<<j, i>>]
               /\ \A y \in 0..j, x \in 0..i : t[<<y, x>>] = Cell(t, s1, s2, <<y, x>>) /\ t[<<y, x>>] \in Nat
  BY <1>1, Track
<1>3. j \in 0..j /\ i \in 0..i
  BY <1>1
<1>4. Fits(t, s1, s2, j, i) /\ t[<<j, i>>] \in Nat
  BY <1>1, <1>2, <1>3, TrackFits
<1>5. LevenshteinDistance(s1, s2) = 1 <=> Near(s1, s2, j, i) /\ ~(i = j /\ SameUpTo(s1, s2, i))
  BY <1>2, <1>4 DEF Fits
<1>6. OneEdit(s1, s2) <=>
        \/ \E k \in DOMAIN s1 : Without(s1, k) = s2
        \/ \E k \in DOMAIN s2 : Without(s2, k) = s1
        \/ i = j /\ Cardinality({k \in DOMAIN s1 : s1[k] # s2[k]}) = 1
  BY Zenon DEF OneEdit, Without
<1>7. OneEdit(s1, s2) <=>
        \/ Longer(s1, s2, j, i)
        \/ Longer(s2, s1, i, j)
        \/ i = j /\ Replaced(s1, s2, i, i) /\ ~SameUpTo(s1, s2, i)
  <2>1. (\E k \in DOMAIN s1 : Without(s1, k) = s2) <=> Longer(s1, s2, j, i)
    BY LongerIsWithout
  <2>2. (\E k \in DOMAIN s2 : Without(s2, k) = s1) <=> Longer(s2, s1, i, j)
    BY LongerIsWithout
  <2>3. Cardinality({k \in DOMAIN s1 : s1[k] # s2[k]}) = 1 <=>
          Replaced(s1, s2, i, i) /\ ~SameUpTo(s1, s2, i)
    <3>1. Cardinality({k \in 1..i : s1[k] # s2[k]}) = 1 <=> Replaced(s1, s2, i, i) /\ ~SameUpTo(s1, s2, i)
      BY <1>1, ReplacedIsOne, ZenonT(40)
    <3> QED
      BY <1>1, <3>1, Zenon
  <2> QED
    BY <1>6, <2>1, <2>2, <2>3, Zenon
<1>8. (Longer(s1, s2, j, i) \/ Longer(s2, s1, i, j) => i # j) /\ (Replaced(s1, s2, j, i) => i = j)
  <2>1. \A a, b, y, x : Longer(a, b, y, x) => x = y + 1
    BY Zenon DEF Longer
  <2>2. j + 1 # j /\ i + 1 # i
    <3>1. \A n \in Nat : n + 1 # n
      OBVIOUS
    <3> QED
      BY <1>1, <3>1, Zenon
  <2>3. Replaced(s1, s2, j, i) => i = j
    BY Zenon DEF Replaced
  <2> QED
    BY <2>1, <2>2, <2>3, Zenon
<1>9. i = j => (Replaced(s1, s2, i, i) <=> Replaced(s1, s2, j, i))
  OBVIOUS
<1> QED
  BY <1>5, <1>7, <1>8, <1>9, Zenon DEF Near
-------------------------------------------------------------------------------
(* What each module reports, and what is sought of it: line by line *)

\* x is what a rule finds on line i of p.
LineHas(module, tree, p, rules, from, i, x) ==
  \E u \in Broken(rules, tree.text[p][i]) : x = Finding(module, u.title, from \o p, i)

LEMMA InLines ==
  ASSUME NEW module, NEW tree, NEW files, NEW rules, NEW from, NEW x
  PROVE  x \in Lines(module, tree, files, rules, from) <=>
           \E p \in files : \E i \in DOMAIN tree.text[p] : LineHas(module, tree, p, rules, from, i, x)
<1> DEFINE Line(p, i) == {Finding(module, u.title, from \o p, i) : u \in Broken(rules, tree.text[p][i])}
           File(p) == UNION {Line(p, i) : i \in DOMAIN tree.text[p]}
<1>1. \A p, i : x \in Line(p, i) <=> LineHas(module, tree, p, rules, from, i, x)
  BY DEF LineHas
<1>2. Lines(module, tree, files, rules, from) = UNION {File(p) : p \in files}
  BY Zenon DEF Lines
<1> HIDE DEF Line
<1>3. \A p : x \in File(p) <=> \E i \in DOMAIN tree.text[p] : x \in Line(p, i)
  OBVIOUS
<1> HIDE DEF File
<1>4. x \in Lines(module, tree, files, rules, from) <=> \E p \in files : x \in File(p)
  BY <1>2
<1> QED
  BY <1>1, <1>3, <1>4

LEMMA TextOfFile ==
  ASSUME NEW tree, IsTree(tree), NEW p \in Files(tree)
  PROVE  Len(tree.text[p]) \in Nat \ {0} /\ DOMAIN tree.text[p] = 1..Len(tree.text[p])
<1> DEFINE ls == tree.text[p]
<1>1. PICK T : ls \in Seq(T) /\ ls # <<>>
  BY DEF IsTree
<1> HIDE DEF ls
<1>2. Len(ls) \in Nat \ {0} /\ DOMAIN ls = 1..Len(ls)
  BY <1>1, LenProperties, EmptySeq
<1> QED
  BY <1>2 DEF ls

(* A tree is a tree whatever is in its files.                                 *)
LEMMA TreeOfShape ==
  ASSUME NEW tree, IsTree(tree), NEW t, DOMAIN t = DOMAIN tree, t.entries = tree.entries,
         t.kind = tree.kind, t.links = tree.links, t.dangling = tree.dangling, t.deps = tree.deps, Files(t) = Files(tree),
         \A q \in Files(t) : t.text[q] \in Seq({t.text[q][i] : i \in DOMAIN t.text[q]}) /\ t.text[q] # <<>>
  PROVE  IsTree(t)
<1>1. Dirs(t) = Dirs(tree) /\ Nodes(t) = Nodes(tree) /\ \A d : Children(t, d) = Children(tree, d)
  BY DEF Dirs, Nodes, Children
<1>2. {Children(t, d) : d \in Dirs(t)} = {Children(tree, d) : d \in Dirs(tree)}
  BY <1>1
<1>3. \A d \in Dirs(t) :
        /\ t.entries[d] \in Seq(STRING)
        /\ \A i, j \in 1..Len(t.entries[d]) : t.entries[d][i] = t.entries[d][j] => i = j
        /\ \A i \in 1..Len(t.entries[d]) : t.entries[d][i] # ".."
  BY <1>1, Zenon DEF IsTree
<1>4. Nodes(t) \ {<<>>} = UNION {Children(t, d) : d \in Dirs(t)}
  BY <1>1, <1>2, Zenon DEF IsTree
<1>5. /\ DOMAIN t = {"entries", "kind", "text", "links", "dangling", "history", "deps"}
      /\ IsFiniteSet(Dirs(t)) /\ <<>> \in Dirs(t) /\ Nodes(t) \subseteq Seq(STRING)
      /\ <<>> \notin t.links
      /\ Files(t) \cap t.dangling = {} /\ Dirs(t) \cap (Files(t) \cup t.dangling) = {}
      /\ DOMAIN t.kind = Files(t)
      /\ \A d \in t.deps : d.name \in Seq(STRING) /\ <<"package.json">> \in Files(t)
  BY <1>1, Zenon DEF IsTree
<1> QED
  BY <1>3, <1>4, <1>5, Zenon DEF IsTree

\* The findings one module should report, and x is one of them about line i of p.
Stem(m) == IF m = "IaC_SECURITY" THEN ToRoot ELSE <<>>

SoughtBy(tree, m) ==
  UNION {UNION {{Finding(m, t, Stem(m) \o p, i) : t \in SoughtAt(tree, m, p, i)}
                : i \in DOMAIN tree.text[p]} : p \in DOMAIN tree.text}

LineDeserves(tree, m, from, p, i, x) ==
  \E t \in SoughtAt(tree, m, p, i) : x = Finding(m, t, from \o p, i)

LEMMA InSoughtBy ==
  ASSUME NEW tree, NEW m, NEW x, NEW from, from = Stem(m)
  PROVE  x \in SoughtBy(tree, m) <=>
           \E p \in Files(tree) : \E i \in DOMAIN tree.text[p] : LineDeserves(tree, m, from, p, i, x)
<1> DEFINE Line(p, i) == {Finding(m, t, Stem(m) \o p, i) : t \in SoughtAt(tree, m, p, i)}
           File(p) == UNION {Line(p, i) : i \in DOMAIN tree.text[p]}
<1>1. \A p, i : x \in Line(p, i) <=> LineDeserves(tree, m, Stem(m), p, i, x)
  BY DEF LineDeserves
<1>2. SoughtBy(tree, m) = UNION {File(p) : p \in Files(tree)}
  BY Zenon DEF SoughtBy, Files
<1> HIDE DEF Line
<1>3. \A p : x \in File(p) <=> \E i \in DOMAIN tree.text[p] : x \in Line(p, i)
  OBVIOUS
<1> HIDE DEF File
<1>4. x \in SoughtBy(tree, m) <=> \E p \in Files(tree) : x \in File(p)
  BY <1>2
<1> QED
  BY <1>1, <1>3, <1>4

LEMMA InDefective ==
  ASSUME NEW tree, NEW p, NEW i, NEW rules, NEW kinds, NEW t
  PROVE  t \in Defective(tree, p, i, rules, kinds) <=>
           tree.kind[p] \in kinds /\ \E u \in Broken(rules, tree.text[p][i]) : t = u.title
BY DEF Defective

\* A defect of a rule is sought where the rule finds it.
LEMMA DefectDeserved ==
  ASSUME NEW m, NEW tree, NEW p, NEW rules, NEW kinds, NEW from, NEW i, NEW x
  PROVE  (\E t \in Defective(tree, p, i, rules, kinds) : x = Finding(m, t, from \o p, i))
           <=> tree.kind[p] \in kinds /\ LineHas(m, tree, p, rules, from, i, x)
BY InDefective DEF LineHas

LEMMA SecretsFound ==
  ASSUME NEW tree, IsTree(tree)
  PROVE  SecretExcavator(tree) = SoughtBy(tree, "SECRET_EXCAVATOR") \cup ScanGitHistory(tree)
<1> DEFINE rules == SecretRules \cup EntropyRules
           Has(p, i, x) == LineHas("SECRET_EXCAVATOR", tree, p, rules, <<>>, i, x)
           Deserves(p, i, x) == LineDeserves(tree, "SECRET_EXCAVATOR", <<>>, p, i, x)
<1>1. SecretFiles(tree) = {p \in Files(tree) : /\ ~PassedOver(tree, p, SecretDirs, SecretDirs)
                                               /\ tree.kind[p] \in SecretKinds}
  BY WalksComeToAll, ZenonT(40) DEF SecretFiles
<1>2. ASSUME NEW p, NEW i, NEW x
      PROVE  Deserves(p, i, x) <=> /\ ~PassedOver(tree, p, SecretDirs, SecretDirs)
                                   /\ tree.kind[p] \in SecretKinds /\ Has(p, i, x)
  <2>1. SoughtAt(tree, "SECRET_EXCAVATOR", p, i) =
          IF PassedOver(tree, p, SecretDirs, SecretDirs) THEN {}
          ELSE Defective(tree, p, i, rules, SecretKinds)
    BY DEF SoughtAt
  <2>2. (\E t \in Defective(tree, p, i, rules, SecretKinds) :
           x = Finding("SECRET_EXCAVATOR", t, <<>> \o p, i))
          <=> tree.kind[p] \in SecretKinds /\ Has(p, i, x)
    BY DefectDeserved
  <2> HIDE DEF rules, Has
  <2> QED
    BY <2>1, <2>2 DEF LineDeserves
<1>3. \A x : x \in SoughtBy(tree, "SECRET_EXCAVATOR") <=>
               \E p \in Files(tree) : \E i \in DOMAIN tree.text[p] : Deserves(p, i, x)
  BY InSoughtBy DEF Stem
<1>4. \A x : x \in Lines("SECRET_EXCAVATOR", tree, SecretFiles(tree), rules, <<>>) <=>
               \E p \in SecretFiles(tree) : \E i \in DOMAIN tree.text[p] : Has(p, i, x)
  BY InLines
<1>5. SecretExcavator(tree) =
        Lines("SECRET_EXCAVATOR", tree, SecretFiles(tree), rules, <<>>) \cup ScanGitHistory(tree)
  BY Zenon DEF SecretExcavator
<1> HIDE DEF rules, Has, Deserves
<1>6. \A x : x \in Lines("SECRET_EXCAVATOR", tree, SecretFiles(tree), rules, <<>>)
               <=> x \in SoughtBy(tree, "SECRET_EXCAVATOR")
  BY <1>1, <1>2, <1>3, <1>4
<1> QED
  BY <1>5, <1>6
-------------------------------------------------------------------------------
LEMMA FilesAudited ==
  ASSUME NEW tree, IsTree(tree)
  PROVE  AuditedFiles(tree) = {p \in Files(tree) : ~PassedOver(tree, p, {}, CallbackDirs)}
BY WalksComeToAll DEF AuditedFiles

LEMMA ContainersFound ==
  ASSUME NEW tree, IsTree(tree)
  PROVE  IaCSecurity(tree) = SoughtBy(tree, "IaC_SECURITY")
<1> DEFINE Has(p, i, x) == LineHas("IaC_SECURITY", tree, p, ComposeRules, ToRoot, i, x)
           Deserves(p, i, x) == LineDeserves(tree, "IaC_SECURITY", ToRoot, p, i, x)
           Root(p) == Finding("IaC_SECURITY", "Running as Root", ToRoot \o p, 1)
           Limits(p) == Finding("IaC_SECURITY", "Resource Limits", ToRoot \o p, 1)
           AsRoot(p) == tree.kind[p] = "dockerfile" /\ "USER" \notin Text(tree, p)
           Unlimited(p) == /\ tree.kind[p] \in {"yaml", "compose"}
                           /\ "apiVersion" \in Text(tree, p) /\ "limits" \notin Text(tree, p)
           Here(p, x) == \/ tree.kind[p] = "compose" /\ \E i \in DOMAIN tree.text[p] : Has(p, i, x)
                         \/ AsRoot(p) /\ x = Root(p)
                         \/ Unlimited(p) /\ x = Limits(p)
           Audited(p) == CASE tree.kind[p] = "dockerfile" -> AuditDockerfile(tree, p)
                           [] tree.kind[p] = "compose" -> AuditDockerCompose(tree, p) \cup AuditKubernetesYaml(tree, p)
                           [] tree.kind[p] = "yaml" -> AuditKubernetesYaml(tree, p)
                           [] OTHER -> {}
<1>1. ASSUME NEW x, NEW p
      PROVE  x \in Audited(p) <=> Here(p, x)
  <2>1. x \in AuditDockerCompose(tree, p) <=> \E i \in DOMAIN tree.text[p] : Has(p, i, x)
    <3>1. x \in Lines("IaC_SECURITY", tree, {p}, ComposeRules, ToRoot) <=>
            \E q \in {p} : \E i \in DOMAIN tree.text[q] : Has(q, i, x)
      BY InLines
    <3> HIDE DEF Has
    <3> QED
      BY <3>1 DEF AuditDockerCompose
  <2>2. tree.kind[p] = "dockerfile" => (x \in AuditDockerfile(tree, p) <=> AsRoot(p) /\ x = Root(p))
    BY DEF AuditDockerfile
  <2>3. tree.kind[p] \in {"yaml", "compose"} =>
          (x \in AuditKubernetesYaml(tree, p) <=> Unlimited(p) /\ x = Limits(p))
    BY DEF AuditKubernetesYaml
  <2>4. (AsRoot(p) => tree.kind[p] = "dockerfile") /\ (Unlimited(p) => tree.kind[p] \in {"yaml", "compose"})
    OBVIOUS
  <2> HIDE DEF Root, Limits, Has, AsRoot, Unlimited
  <2> QED
    BY <2>1, <2>2, <2>3, <2>4
<1>2. ASSUME NEW p \in Files(tree), NEW x
      PROVE  (\E i \in DOMAIN tree.text[p] : Deserves(p, i, x))
               <=> ~PassedOver(tree, p, {}, CallbackDirs) /\ Here(p, x)
  <2>1. 1 \in DOMAIN tree.text[p]
    <3>1. Len(tree.text[p]) \in Nat \ {0} /\ DOMAIN tree.text[p] = 1..Len(tree.text[p])
      BY TextOfFile
    <3> QED
      BY <3>1
  <2>2. ASSUME NEW i
        PROVE  Deserves(p, i, x) <=>
                 /\ ~PassedOver(tree, p, {}, CallbackDirs)
                 /\ \/ tree.kind[p] = "compose" /\ Has(p, i, x)
                    \/ i = 1 /\ AsRoot(p) /\ x = Root(p)
                    \/ i = 1 /\ Unlimited(p) /\ x = Limits(p)
    <3> DEFINE T1 == Defective(tree, p, i, ComposeRules, {"compose"})
               T2 == IF i = 1 /\ AsRoot(p) THEN {"Running as Root"} ELSE {}
               T3 == IF i = 1 /\ Unlimited(p) THEN {"Resource Limits"} ELSE {}
               Is(t) == x = Finding("IaC_SECURITY", t, ToRoot \o p, i)
    <3>1. SoughtAt(tree, "IaC_SECURITY", p, i) =
            IF PassedOver(tree, p, {}, CallbackDirs) THEN {} ELSE T1 \cup T2 \cup T3
      BY DEF SoughtAt
    <3>2. (\E t \in T1 : Is(t)) <=> tree.kind[p] = "compose" /\ Has(p, i, x)
      <4>1. (\E t \in T1 : Is(t)) <=> tree.kind[p] \in {"compose"} /\ Has(p, i, x)
        BY DefectDeserved
      <4> HIDE DEF T1, Is, Has
      <4> QED
        BY <4>1
    <3>3. (\E t \in T2 : Is(t)) <=> i = 1 /\ AsRoot(p) /\ x = Root(p)
      OBVIOUS
    <3>4. (\E t \in T3 : Is(t)) <=> i = 1 /\ Unlimited(p) /\ x = Limits(p)
      OBVIOUS
    <3>5. Deserves(p, i, x) <=> \E t \in SoughtAt(tree, "IaC_SECURITY", p, i) : Is(t)
      BY DEF LineDeserves
    <3> HIDE DEF T1, T2, T3, Is, Has, Deserves, AsRoot, Unlimited, Root, Limits
    <3> QED
      BY <3>1, <3>2, <3>3, <3>4, <3>5
  <2> HIDE DEF Has, Deserves, AsRoot, Unlimited, Root, Limits
  <2> QED
    BY <2>1, <2>2
<1>3. \A x : x \in SoughtBy(tree, "IaC_SECURITY") <=>
               \E p \in Files(tree) : \E i \in DOMAIN tree.text[p] : Deserves(p, i, x)
  BY InSoughtBy DEF Stem
<1>4. IaCSecurity(tree) = UNION {Audited(p) : p \in AuditedFiles(tree)}
  BY Zenon DEF IaCSecurity
<1> HIDE DEF Audited, Here, Deserves
<1>5. \A x : x \in IaCSecurity(tree) <=> \E p \in AuditedFiles(tree) : Here(p, x)
  BY <1>1, <1>4
<1> QED
  BY <1>2, <1>3, <1>5, FilesAudited
-------------------------------------------------------------------------------
LEMMA RawQuery ==
  ASSUME NEW line
  PROVE  \A u : u \in Broken({Rule("Raw Query", "rawQuery", {})}, line)
                 <=> u = Rule("Raw Query", "rawQuery", {}) /\ u.title = "Raw Query" /\ "rawQuery" \in line
<1> DEFINE raw == Rule("Raw Query", "rawQuery", {})
<1>1. raw.title = "Raw Query" /\ raw.pattern = "rawQuery" /\ raw.unless = {}
  BY DEF Rule
<1> HIDE DEF raw
<1>2. \A u : u \in Broken({raw}, line) <=> u = raw /\ u.title = "Raw Query" /\ "rawQuery" \in line
  BY <1>1 DEF Broken
<1> QED
  BY <1>2 DEF raw

LEMMA RoutesFound ==
  ASSUME NEW tree, IsTree(tree)
  PROVE  AuthGuardAuditor(tree) = SoughtBy(tree, "AUTH_GUARD_AUDIT")
<1> DEFINE M == "AUTH_GUARD_AUDIT"
           rules == {Rule("Raw Query", "rawQuery", {})}
           Deserves(p, i, x) == LineDeserves(tree, M, <<>>, p, i, x)
           Open1(p, i, x) == Exposed(tree.text[p], i) /\ x = Finding(M, "Exposed Endpoint", p, i)
           Raw(p, i, x) == "rawQuery" \in tree.text[p][i] /\ x = Finding(M, "Raw Query", p, i)
<1>0. \A p \in Files(tree) : <<>> \o p = p
  BY Leaves, ConcatEmptySeq
<1>1. ASSUME NEW p \in Files(tree), NEW x
      PROVE  x \in AuditController(tree, p) <=>
               \E i \in DOMAIN tree.text[p] : Open1(p, i, x) \/ Raw(p, i, x)
  <2> DEFINE ls == tree.text[p]
             Reported == {i \in DOMAIN ls : IsRoute(ls[i]) /\ ~IsClassLevelGuarded(ls) /\ ~HasPrecedingGuard(ls, i)}
  <2>1. Len(ls) \in Nat /\ DOMAIN ls = 1..Len(ls)
    BY TextOfFile
  <2>2. Reported = {i \in DOMAIN ls : Exposed(ls, i)}
    <3> HIDE DEF ls
    <3> QED
      BY <2>1, ReportsExposedRoutes
  <2>3. x \in Lines(M, tree, {p}, rules, <<>>) <=> \E i \in DOMAIN ls : Raw(p, i, x)
    <3> HIDE DEF M
    <3> DEFINE Has(q, i) == LineHas(M, tree, q, rules, <<>>, i, x)
    <3>0. \A line : \A u : u \in Broken(rules, line) <=>
            u = Rule("Raw Query", "rawQuery", {}) /\ u.title = "Raw Query" /\ "rawQuery" \in line
      BY RawQuery
    <3> HIDE DEF rules
    <3>1. x \in Lines(M, tree, {p}, rules, <<>>) <=> \E q \in {p} : \E i \in DOMAIN tree.text[q] : Has(q, i)
      BY InLines
    <3>2. ASSUME NEW i PROVE Has(p, i) <=> Raw(p, i, x)
      <4>1. Has(p, i) <=> \E u \in Broken(rules, ls[i]) : x = Finding(M, u.title, p, i)
        BY <1>0, Zenon DEF LineHas
      <4> HIDE DEF Has
      <4>2. ASSUME NEW u \in Broken(rules, ls[i]), x = Finding(M, u.title, p, i) PROVE Raw(p, i, x)
        <5>1. u.title = "Raw Query" /\ "rawQuery" \in ls[i]
          BY <3>0, <4>2, Zenon
        <5> QED
          BY <4>2, <5>1, Zenon
      <4>3. ASSUME Raw(p, i, x) PROVE \E u \in Broken(rules, ls[i]) : x = Finding(M, u.title, p, i)
        <5>1. Rule("Raw Query", "rawQuery", {}).title = "Raw Query"
          BY DEF Rule
        <5>2. Rule("Raw Query", "rawQuery", {}) \in Broken(rules, ls[i])
          BY <3>0, <4>3, <5>1, Zenon
        <5> QED
          BY <4>3, <5>1, <5>2, Zenon
      <4> QED
        BY <4>1, <4>2, <4>3
    <3> HIDE DEF Raw, Has
    <3> QED
      BY <3>1, <3>2
  <2>4. AuditController(tree, p) =
          {Finding(M, "Exposed Endpoint", p, i) : i \in Reported} \cup Lines(M, tree, {p}, rules, <<>>)
    BY Zenon DEF AuditController
  <2>5. x \in {Finding(M, "Exposed Endpoint", p, i) : i \in Reported}
          <=> \E i \in DOMAIN ls : Open1(p, i, x)
    BY <2>2
  <2> HIDE DEF Raw, Open1, rules, Reported
  <2> QED
    BY <2>3, <2>4, <2>5
<1>2. ASSUME NEW p \in Files(tree), NEW i, NEW x
      PROVE  Deserves(p, i, x) <=>
               /\ ~PassedOver(tree, p, {}, CallbackDirs) /\ tree.kind[p] = "controller"
               /\ Open1(p, i, x) \/ Raw(p, i, x)
  <2>1. \A t : t \in SoughtAt(tree, M, p, i) <=>
          /\ ~PassedOver(tree, p, {}, CallbackDirs) /\ tree.kind[p] = "controller"
          /\ \/ t = "Exposed Endpoint" /\ Exposed(tree.text[p], i)
             \/ t = "Raw Query" /\ "rawQuery" \in tree.text[p][i]
    BY DEF SoughtAt
  <2>2. Deserves(p, i, x) <=> \E t \in SoughtAt(tree, M, p, i) : x = Finding(M, t, p, i)
    BY <1>0 DEF LineDeserves
  <2> QED
    BY <2>1, <2>2
<1>3. \A x : x \in SoughtBy(tree, M) <=>
               \E p \in Files(tree) : \E i \in DOMAIN tree.text[p] : Deserves(p, i, x)
  BY InSoughtBy DEF Stem
<1>4. AuthGuardAuditor(tree) =
        UNION {AuditController(tree, p) : p \in {p \in AuditedFiles(tree) : tree.kind[p] = "controller"}}
  BY Zenon DEF AuthGuardAuditor
<1> HIDE DEF Deserves, Open1, Raw, M
<1>5. \A x : x \in AuthGuardAuditor(tree) <=>
        \E p \in Files(tree) :
          /\ ~PassedOver(tree, p, {}, CallbackDirs) /\ tree.kind[p] = "controller"
          /\ \E i \in DOMAIN tree.text[p] : Open1(p, i, x) \/ Raw(p, i, x)
  BY <1>1, <1>4, FilesAudited
<1>6. \A x : x \in AuthGuardAuditor(tree) <=> x \in SoughtBy(tree, M)
  BY <1>2, <1>3, <1>5
<1> QED
  BY <1>6 DEF M
-------------------------------------------------------------------------------
SkippedInFleet == {"node_modules", ".git", "dist", ".next", "build", "coverage"}

LEMMA FleetFound ==
  ASSUME NEW tree, IsTree(tree)
  PROVE  FleetVulnerabilityAuditor(tree) = SoughtBy(tree, "FLEET_ENCLAVE_AUDIT")
<1> DEFINE M == "FLEET_ENCLAVE_AUDIT"
           Has(rules, p, i, x) == LineHas(M, tree, p, rules, <<>>, i, x)
           Deserves(p, i, x) == LineDeserves(tree, M, <<>>, p, i, x)
           Collected(p) == ~ThroughLink(tree, p) /\ \A k \in DOMAIN p : p[k] \notin SkippedInFleet
           HostKinds == {"compose", "yaml", "dockerfile"}
           RG == ResidentRules \cup GruvsRules
           files == CollectFiles(tree)
           Here(p, i, x) == \/ tree.kind[p] \in ScriptKinds /\ Has(RG, p, i, x)
                            \/ Has(ExcelencyRules, p, i, x)
                            \/ tree.kind[p] \in HostKinds /\ Has(VGruvsRules, p, i, x)
<1>1. files = {p \in Files(tree) : Collected(p)}
  <2>1. files = Walk(tree, SkippedInFleet, FALSE)
    BY Zenon DEF CollectFiles, SkippedInFleet
  <2>2. Walk(tree, SkippedInFleet, FALSE) =
          {p \in Files(tree) : ~ThroughLink(tree, p) /\ \A k \in DOMAIN p : p[k] \notin SkippedInFleet}
    <3>1. \A skip : Walk(tree, skip, FALSE) =
            {p \in Files(tree) : ~ThroughLink(tree, p) /\ \A k \in DOMAIN p : p[k] \notin skip}
      BY WalkByDirent
    <3> QED
      BY <3>1, Zenon
  <2> HIDE DEF files
  <2> QED
    BY <2>1, <2>2, Zenon
<1>2. ASSUME NEW p, NEW i, NEW x
      PROVE  Deserves(p, i, x) <=> Collected(p) /\ Here(p, i, x)
  <2> DEFINE T1 == Defective(tree, p, i, RG, ScriptKinds)
             T2 == Defective(tree, p, i, ExcelencyRules, {tree.kind[p]})
             T3 == Defective(tree, p, i, VGruvsRules, HostKinds)
             Is(t) == x = Finding(M, t, <<>> \o p, i)
  <2>1. SoughtAt(tree, M, p, i) = IF Collected(p) THEN T1 \cup T2 \cup T3 ELSE {}
    BY DEF SoughtAt, SkippedInFleet
  <2>2. (\E t \in T1 : Is(t)) <=> tree.kind[p] \in ScriptKinds /\ Has(RG, p, i, x)
    BY DefectDeserved
  <2>3. (\E t \in T2 : Is(t)) <=> tree.kind[p] \in {tree.kind[p]} /\ Has(ExcelencyRules, p, i, x)
    BY DefectDeserved
  <2>4. (\E t \in T3 : Is(t)) <=> tree.kind[p] \in HostKinds /\ Has(VGruvsRules, p, i, x)
    BY DefectDeserved
  <2>5. Deserves(p, i, x) <=> \E t \in SoughtAt(tree, M, p, i) : Is(t)
    BY DEF LineDeserves
  <2> HIDE DEF T1, T2, T3, Is, Has, Deserves, Collected, HostKinds, RG
  <2> QED
    BY <2>1, <2>2, <2>3, <2>4, <2>5
<1>3. \A x : x \in SoughtBy(tree, M) <=>
               \E p \in Files(tree) : \E i \in DOMAIN tree.text[p] : Deserves(p, i, x)
  BY InSoughtBy DEF Stem
<1>4. FleetVulnerabilityAuditor(tree) =
        Lines(M, tree, OfKind(tree, files, ScriptKinds), RG, <<>>)
        \cup Lines(M, tree, files, ExcelencyRules, <<>>)
        \cup Lines(M, tree, OfKind(tree, files, HostKinds), VGruvsRules, <<>>)
  BY Zenon DEF FleetVulnerabilityAuditor
<1> HIDE DEF M
<1>5. \A rules, some, x : x \in Lines(M, tree, some, rules, <<>>) <=>
        \E p \in some : \E i \in DOMAIN tree.text[p] : Has(rules, p, i, x)
  BY InLines
<1> HIDE DEF Deserves, Has, HostKinds, RG
<1>6. ASSUME NEW x
      PROVE  x \in FleetVulnerabilityAuditor(tree) <=>
               \E p \in files : \E i \in DOMAIN tree.text[p] : Here(p, i, x)
  <2>1. \A kinds, p : p \in OfKind(tree, files, kinds) <=> p \in files /\ tree.kind[p] \in kinds
    BY DEF OfKind
  <2> HIDE DEF files
  <2>2. \A kinds, rules : x \in Lines(M, tree, OfKind(tree, files, kinds), rules, <<>>) <=>
          \E p \in files : \E i \in DOMAIN tree.text[p] : tree.kind[p] \in kinds /\ Has(rules, p, i, x)
    BY <1>5, <2>1
  <2>3. x \in Lines(M, tree, files, ExcelencyRules, <<>>) <=>
          \E p \in files : \E i \in DOMAIN tree.text[p] : Has(ExcelencyRules, p, i, x)
    BY <1>5
  <2> QED
    BY <1>4, <2>2, <2>3
<1> HIDE DEF files, Here, Collected
<1>7. \A x : x \in FleetVulnerabilityAuditor(tree) <=> x \in SoughtBy(tree, M)
  BY <1>1, <1>2, <1>3, <1>6
<1> QED
  BY <1>7 DEF M
-------------------------------------------------------------------------------
SoughtInPackage(tree) ==
  {Finding("SUPPLY_CHAIN", t, ToRoot \o PackageJson, 1) :
     t \in {t \in {"Typosquatting", "Source Dependency"} :
              /\ PackageJson \in DOMAIN tree.text
              /\ \E d \in tree.deps : IF t = "Typosquatting" THEN \E n \in Popular : OneEdit(d.name, n)
                                                             ELSE d.range = "git"}}

LEMMA ShortSequences ==
  ASSUME NEW S, NEW a \in S, NEW b \in S, NEW c \in S
  PROVE  <<a, b>> \in Seq(S) /\ <<a, b, c>> \in Seq(S)
OBVIOUS

LEMMA MoreLetters ==
  ASSUME NEW S, NEW T, S \subseteq T, NEW s \in Seq(S)
  PROVE  s \in Seq(T)
OBVIOUS

LEMMA PackagesFound ==
  ASSUME NEW tree, IsTree(tree)
  PROVE  SupplyChainIntegrity(tree) = SoughtInPackage(tree)
<1> DEFINE Squat == Finding("SUPPLY_CHAIN", "Typosquatting", ToRoot \o PackageJson, 1)
           Source == Finding("SUPPLY_CHAIN", "Source Dependency", ToRoot \o PackageJson, 1)
           Near1(d) == \E n \in Popular : LevenshteinDistance(d.name, n) = 1
           Near2(d) == \E n \in Popular : OneEdit(d.name, n)
           Has == PackageJson \in DOMAIN tree.text
<1>1. \A d \in tree.deps : Near1(d) <=> Near2(d)
  <2> DEFINE Letters == STRING \cup {"l", "o", "r", "x", "j"}
  <2>1. \A n \in Popular : n \in Seq(Letters)
    <3>1. "l" \in Letters /\ "o" \in Letters /\ "r" \in Letters /\ "x" \in Letters /\ "j" \in Letters
      BY Zenon
    <3> HIDE DEF Letters
    <3>2. <<"l", "o">> \in Seq(Letters) /\ <<"r", "x", "j">> \in Seq(Letters)
      BY <3>1, ShortSequences
    <3> QED
      BY <3>2, Zenon DEF Popular
  <2>2. \A d \in tree.deps : d.name \in Seq(Letters)
    <3>1. \A d \in tree.deps : d.name \in Seq(STRING)
      BY DEF IsTree
    <3>2. STRING \subseteq Letters
      BY Zenon
    <3> HIDE DEF Letters
    <3> QED
      BY <3>1, <3>2, MoreLetters
  <2> HIDE DEF Letters
  <2>3. \A d \in tree.deps, n \in Popular : LevenshteinDistance(d.name, n) = 1 <=> OneEdit(d.name, n)
    BY <2>1, <2>2, DistanceOneIsOneEdit
  <2> QED
    BY <2>3
<1>2. SupplyChainIntegrity(tree) =
        IF ~Has THEN {} ELSE {Squat : d \in {d \in tree.deps : Near1(d)}}
                             \cup {Source : d \in {d \in tree.deps : d.range = "git"}}
  BY Zenon DEF SupplyChainIntegrity, HasPackage
<1>3. \A x : x \in SoughtInPackage(tree) <=>
        /\ Has
        /\ \/ x = Squat /\ \E d \in tree.deps : Near2(d)
           \/ x = Source /\ \E d \in tree.deps : d.range = "git"
  BY DEF SoughtInPackage
<1> HIDE DEF Squat, Source, Near1, Near2, Has
<1>4. \A x : x \in SupplyChainIntegrity(tree) <=>
        /\ Has
        /\ \/ x = Squat /\ \E d \in tree.deps : Near1(d)
           \/ x = Source /\ \E d \in tree.deps : d.range = "git"
  BY <1>2
<1> QED
  BY <1>1, <1>3, <1>4

\* The advisories that are reported: those on what is installed, if their details were had.
LEMMA AdvisoriesFound ==
  ASSUME NEW tree, IsTree(tree), NEW answer
  PROVE  CVEIntelligence(tree, answer) =
           {Finding("CVE_INTELLIGENCE", id, PackageJson, 1) : id \in
             {a.id : a \in {a \in answer.advisories : a.id \in answer.details /\ \E d \in tree.deps :
                a.name = d.name /\ a.version = IF d.locked = "none" THEN d.range ELSE d.locked}}}
<1> DEFINE On(a) == \E d \in tree.deps :
                      a.name = d.name /\ a.version = IF d.locked = "none" THEN d.range ELSE d.locked
           ids == {a.id : a \in QueryBatch(ResolveDependencyVersions(tree), answer)}
           Due == {a.id : a \in {a \in answer.advisories : a.id \in answer.details /\ On(a)}}
<1>1. \A a : <<a.name, a.version>> \in ResolveDependencyVersions(tree) <=> On(a)
  BY DEF ResolveDependencyVersions
<1>2. FetchVulnDetails(ids, answer) = Due
  <2>1. QueryBatch(ResolveDependencyVersions(tree), answer) = {a \in answer.advisories : On(a)}
    BY <1>1 DEF QueryBatch
  <2> HIDE DEF On
  <2> QED
    BY <2>1 DEF FetchVulnDetails
<1>3. ~HasPackage(tree) => Due = {}
  BY DEF HasPackage, IsTree, Files, PackageJson
<1>4. CVEIntelligence(tree, answer) =
        IF HasPackage(tree)
          THEN {Finding("CVE_INTELLIGENCE", id, PackageJson, 1) : id \in FetchVulnDetails(ids, answer)}
          ELSE {}
  BY Zenon DEF CVEIntelligence
<1> HIDE DEF ids, Due
<1>5. CVEIntelligence(tree, answer) = {Finding("CVE_INTELLIGENCE", id, PackageJson, 1) : id \in Due}
  BY <1>2, <1>3, <1>4
<1> QED
  BY <1>5 DEF Due
-------------------------------------------------------------------------------
LEMMA ModulesOfScan ==
  ASSUME NEW tree, IsTree(tree), NEW answer
  PROVE  /\ \A m : \A f \in SoughtBy(tree, m) : f.module = m
         /\ \A f \in ScanGitHistory(tree) : f.module = "SECRET_EXCAVATOR"
         /\ \A f \in SoughtInPackage(tree) : f.module = "SUPPLY_CHAIN"
         /\ \A f \in CVEIntelligence(tree, answer) : f.module = "CVE_INTELLIGENCE"
         /\ \A f \in SemgrepScanner(tree, answer.semgrep) : f.module = "SEMGREP_SAST"
<1>0. \A m, t, p, i : Finding(m, t, p, i).module = m
  BY DEF Finding
<1>1. ASSUME NEW m, NEW f \in SoughtBy(tree, m) PROVE f.module = m
  <2>1. \E p \in Files(tree) : \E i \in DOMAIN tree.text[p] : LineDeserves(tree, m, Stem(m), p, i, f)
    BY InSoughtBy
  <2> QED
    BY <1>0, <2>1 DEF LineDeserves
<1>2. ASSUME NEW f \in ScanGitHistory(tree) PROVE f.module = "SECRET_EXCAVATOR"
  <2> DEFINE Of(line) == {Finding("SECRET_EXCAVATOR", u.title, <<"(git history)">>, 0)
                          : u \in Broken(SecretRules, line)}
  <2>1. ScanGitHistory(tree) = UNION {Of(line) : line \in tree.history}
    BY Zenon DEF ScanGitHistory
  <2>2. ASSUME NEW line, NEW g \in Of(line) PROVE g.module = "SECRET_EXCAVATOR"
    <3>1. PICK u : g = Finding("SECRET_EXCAVATOR", u.title, <<"(git history)">>, 0)
      BY Zenon
    <3> QED
      BY <3>1 DEF Finding
  <2> HIDE DEF Of
  <2> QED
    BY <2>1, <2>2
<1>3. ASSUME NEW f \in SoughtInPackage(tree) PROVE f.module = "SUPPLY_CHAIN"
  <2>1. \E t : f = Finding("SUPPLY_CHAIN", t, ToRoot \o PackageJson, 1)
    BY Zenon DEF SoughtInPackage
  <2> QED
    BY <1>0, <2>1
<1>4. ASSUME NEW f \in CVEIntelligence(tree, answer) PROVE f.module = "CVE_INTELLIGENCE"
  <2>1. f \in {Finding("CVE_INTELLIGENCE", id, PackageJson, 1) : id \in
             {a.id : a \in {a \in answer.advisories : a.id \in answer.details /\ \E d \in tree.deps :
                a.name = d.name /\ a.version = IF d.locked = "none" THEN d.range ELSE d.locked}}}
    BY AdvisoriesFound
  <2>2. \E id : f = Finding("CVE_INTELLIGENCE", id, PackageJson, 1)
    BY <2>1, Zenon
  <2> QED
    BY <1>0, <2>2
<1>5. ASSUME NEW f \in SemgrepScanner(tree, answer.semgrep) PROVE f.module = "SEMGREP_SAST"
  <2>1. PICK files, rules : SemgrepScanner(tree, answer.semgrep) = Lines("SEMGREP_SAST", tree, files, rules, <<>>)
    BY Zenon DEF SemgrepScanner
  <2>2. \E p \in files : \E i \in DOMAIN tree.text[p] : LineHas("SEMGREP_SAST", tree, p, rules, <<>>, i, f)
    BY <2>1, InLines
  <2> QED
    BY <1>0, <2>2 DEF LineHas
<1> QED
  BY <1>1, <1>2, <1>3, <1>4, <1>5

\* What is sought, module by module.
SoughtOfTree(tree) ==
  (SoughtBy(tree, "SECRET_EXCAVATOR") \cup SoughtBy(tree, "IaC_SECURITY")
   \cup SoughtBy(tree, "AUTH_GUARD_AUDIT") \cup SoughtBy(tree, "FLEET_ENCLAVE_AUDIT"))
  \cup ScanGitHistory(tree) \cup SoughtInPackage(tree)

LEMMA SoughtByModule ==
  ASSUME NEW tree
  PROVE  SoughtIn(tree) = SoughtOfTree(tree)
<1> DEFINE Sec == SoughtBy(tree, "SECRET_EXCAVATOR")
           IaC == SoughtBy(tree, "IaC_SECURITY")
           Auth == SoughtBy(tree, "AUTH_GUARD_AUDIT")
           Fleet == SoughtBy(tree, "FLEET_ENCLAVE_AUDIT")
           Git == ScanGitHistory(tree)
           Pack == SoughtInPackage(tree)
<1> DEFINE ms == {"SECRET_EXCAVATOR", "IaC_SECURITY", "AUTH_GUARD_AUDIT", "FLEET_ENCLAVE_AUDIT"}
           InGit == {Finding("SECRET_EXCAVATOR", u.title, <<"(git history)">>, 0)
                      : u \in {u \in SecretRules : \E line \in tree.history :
                                  u.pattern \in line /\ u.unless \cap line = {}}}
<1>1. SoughtIn(tree) = (UNION {SoughtBy(tree, m) : m \in ms}) \cup InGit \cup Pack
  BY Zenon DEF SoughtIn, SoughtBy, Stem, SoughtInPackage
<1>2. InGit = Git
  <2> DEFINE Is(u, x) == x = Finding("SECRET_EXCAVATOR", u.title, <<"(git history)">>, 0)
             Of(line) == {Finding("SECRET_EXCAVATOR", u.title, <<"(git history)">>, 0)
                          : u \in Broken(SecretRules, line)}
             On(u, line) == u.pattern \in line /\ u.unless \cap line = {}
  <2>1. Git = UNION {Of(line) : line \in tree.history}
    BY Zenon DEF ScanGitHistory
  <2>2. \A line, x : x \in Of(line) <=> \E u \in SecretRules : On(u, line) /\ Is(u, x)
    BY DEF Broken
  <2>3. \A x : x \in InGit <=> \E u \in SecretRules : Is(u, x) /\ \E line \in tree.history : On(u, line)
    OBVIOUS
  <2> HIDE DEF Is, Of, On, Git, InGit
  <2> QED
    BY <2>1, <2>2, <2>3
<1> HIDE DEF InGit
<1> HIDE DEF Git, Pack
<1>3. \A x : x \in SoughtIn(tree) <=> (\E m \in ms : x \in SoughtBy(tree, m)) \/ x \in InGit \/ x \in Pack
  BY <1>1
<1>4. \A x : (\E m \in ms : x \in SoughtBy(tree, m)) <=> x \in Sec \cup IaC \cup Auth \cup Fleet
  OBVIOUS
<1>5. SoughtOfTree(tree) = (Sec \cup IaC \cup Auth \cup Fleet) \cup Git \cup Pack
  BY Zenon DEF SoughtOfTree, Git, Pack
<1> HIDE DEF ms, Sec, IaC, Auth, Fleet
<1> QED
  BY <1>2, <1>3, <1>4, <1>5

LEMMA ModulesSought ==
  ASSUME NEW tree, IsTree(tree)
  PROVE  \A f \in SoughtIn(tree) :
           f.module \in {"SECRET_EXCAVATOR", "IaC_SECURITY", "AUTH_GUARD_AUDIT",
                        "FLEET_ENCLAVE_AUDIT", "SUPPLY_CHAIN"}
<1> DEFINE Sec == SoughtBy(tree, "SECRET_EXCAVATOR")
           IaC == SoughtBy(tree, "IaC_SECURITY")
           Auth == SoughtBy(tree, "AUTH_GUARD_AUDIT")
           Fleet == SoughtBy(tree, "FLEET_ENCLAVE_AUDIT")
           Git == ScanGitHistory(tree)
           Pack == SoughtInPackage(tree)
<1>2. SoughtIn(tree) = (Sec \cup IaC \cup Auth \cup Fleet) \cup Git \cup Pack
  BY SoughtByModule, Zenon DEF SoughtOfTree
<1>3. /\ \A f \in Sec : f.module = "SECRET_EXCAVATOR"
      /\ \A f \in IaC : f.module = "IaC_SECURITY"
      /\ \A f \in Auth : f.module = "AUTH_GUARD_AUDIT"
      /\ \A f \in Fleet : f.module = "FLEET_ENCLAVE_AUDIT"
      /\ \A f \in Git : f.module = "SECRET_EXCAVATOR"
      /\ \A f \in Pack : f.module = "SUPPLY_CHAIN"
  BY ModulesOfScan, Zenon
<1> HIDE DEF Sec, IaC, Auth, Fleet, Git, Pack
<1> QED
  BY <1>2, <1>3

LEMMA ReportedByModule ==
  ASSUME NEW tree, IsTree(tree), NEW answer
  PROVE  ScanTree(tree, answer) =
           SoughtIn(tree) \cup CVEIntelligence(tree, answer) \cup SemgrepScanner(tree, answer.semgrep)
<1> DEFINE Sec == SoughtBy(tree, "SECRET_EXCAVATOR")
           IaC == SoughtBy(tree, "IaC_SECURITY")
           Auth == SoughtBy(tree, "AUTH_GUARD_AUDIT")
           Fleet == SoughtBy(tree, "FLEET_ENCLAVE_AUDIT")
           Git == ScanGitHistory(tree)
           Pack == SoughtInPackage(tree)
           Cve == CVEIntelligence(tree, answer)
           Sast == SemgrepScanner(tree, answer.semgrep)
<1>1. ScanTree(tree, answer) = (Sec \cup Git) \cup IaC \cup Cve \cup Pack \cup Auth \cup Fleet \cup Sast
  BY SecretsFound, ContainersFound, RoutesFound, FleetFound, PackagesFound, Zenon DEF ScanTree
<1>2. SoughtIn(tree) = (Sec \cup IaC \cup Auth \cup Fleet) \cup Git \cup Pack
  BY SoughtByModule, Zenon DEF SoughtOfTree
<1> HIDE DEF Sec, IaC, Auth, Fleet, Git, Pack, Cve, Sast
<1>3. ScanTree(tree, answer) = SoughtIn(tree) \cup Cve \cup Sast
  BY <1>1, <1>2
<1> QED
  BY <1>3, Zenon DEF Cve, Sast

(* What the five modules that depend on the tree alone report of any tree is  *)
(* what should be reported of it.                                             *)
THEOREM ScansFindWhatIsSought ==
  ASSUME NEW tree, IsTree(tree), NEW answer
  PROVE  {f \in ScanTree(tree, answer) : f.module \notin {"CVE_INTELLIGENCE", "SEMGREP_SAST"}}
           = SoughtIn(tree)
<1> DEFINE Cve == CVEIntelligence(tree, answer)
           Sast == SemgrepScanner(tree, answer.semgrep)
<1>1. ScanTree(tree, answer) = SoughtIn(tree) \cup Cve \cup Sast
  BY ReportedByModule
<1>2. (\A f \in Cve : f.module = "CVE_INTELLIGENCE") /\ (\A f \in Sast : f.module = "SEMGREP_SAST")
  BY ModulesOfScan, Zenon
<1> HIDE DEF Cve, Sast
<1> QED
  BY <1>1, <1>2, ModulesSought

\* A scan reports nothing as uploaded.
LEMMA NobodyElse ==
  ASSUME NEW tree, IsTree(tree), NEW answer
  PROVE  \A f \in ScanTree(tree, answer) : f.module # "MANUAL_INGESTION"
<1> SUFFICES ASSUME NEW f \in ScanTree(tree, answer) PROVE f.module # "MANUAL_INGESTION"
  OBVIOUS
<1>1. CASE f.module \in {"CVE_INTELLIGENCE", "SEMGREP_SAST"}
  BY <1>1
<1>2. CASE f.module \notin {"CVE_INTELLIGENCE", "SEMGREP_SAST"}
  <2>1. f \in SoughtIn(tree)
    BY <1>2, ScansFindWhatIsSought
  <2>2. f.module \in {"SECRET_EXCAVATOR", "IaC_SECURITY", "AUTH_GUARD_AUDIT",
                      "FLEET_ENCLAVE_AUDIT", "SUPPLY_CHAIN"}
    BY <2>1, ModulesSought
  <2> QED
    BY <2>2
<1> QED
  BY <1>1, <1>2

(* The advisories a scan reports are those CVEIntelligence found.              *)
THEOREM ScansFindAdvisories ==
  ASSUME NEW tree, IsTree(tree), NEW answer
  PROVE  {f \in ScanTree(tree, answer) : f.module = "CVE_INTELLIGENCE"} = CVEIntelligence(tree, answer)
<1> DEFINE Cve == CVEIntelligence(tree, answer)
           Sast == SemgrepScanner(tree, answer.semgrep)
<1>1. ScanTree(tree, answer) = SoughtIn(tree) \cup Cve \cup Sast
  BY ReportedByModule
<1>2. (\A f \in Cve : f.module = "CVE_INTELLIGENCE") /\ (\A f \in Sast : f.module = "SEMGREP_SAST")
  BY ModulesOfScan, Zenon
<1> HIDE DEF Cve, Sast
<1>3. {f \in ScanTree(tree, answer) : f.module = "CVE_INTELLIGENCE"} = Cve
  BY <1>1, <1>2, ModulesSought
<1> QED
  BY <1>3 DEF Cve
===============================================================================
