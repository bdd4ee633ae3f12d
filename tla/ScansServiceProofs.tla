-------------------------- MODULE ScansServiceProofs --------------------------
(***************************************************************************)
(* Theorems about ScansService, for any number of tenants and requests and *)
(* for every value of the limits.                                          *)
(***************************************************************************)
EXTENDS ScansService, FiniteSetTheorems, SequenceTheorems, TLAPS

\* No more than the permitted number of requests of a tenant are inside create().
InFlightBounded ==
  \A t \in Tenants : Cardinality(InFlightRequests(t)) <= MaxInFlight

\* Only a request that is counting has counted anything.
CountsAreLocal ==
  \A r \in Jobs : request[r] # "counting" => activeCount[r] = Unknown /\ hourlyCount[r] = Unknown

AdmissionInv ==
  AdmissionTypeOK /\ InFlightBounded /\ CountsAreLocal /\ ActiveScansBounded /\ HourlyScansBounded

(* The counting argument, for either limit.  A: scans that count; P: requests *)
(* that may still insert one.  A step only shrinks both, or turns one request *)
(* of P into a scan, or lets requests into P at a moment A is below L.        *)
LEMMA CountingStep ==
  ASSUME NEW A \in SUBSET Jobs, NEW P \in SUBSET Jobs, NEW A2 \in SUBSET Jobs,
         NEW P2 \in SUBSET Jobs, NEW F \in SUBSET Jobs, NEW x,
         NEW L \in Nat \ {0}, NEW M \in Nat \ {0},
         Cardinality(A) + Cardinality(P) <= L - 1 + M,
         \/ A2 \subseteq A /\ P2 \subseteq P
         \/ x \in P /\ P2 \subseteq P \ {x} /\ A2 \subseteq A \cup {x}
         \/ A2 \subseteq A /\ Cardinality(A) < L /\ P2 \subseteq F /\ Cardinality(F) <= M
  PROVE  Cardinality(A2) + Cardinality(P2) <= L - 1 + M
<1> USE TenantAssumption
<1>1. \A S \in SUBSET Jobs : IsFiniteSet(S) /\ Cardinality(S) \in Nat
  BY FS_Subset, FS_CardinalityType
<1>2. \A S, T \in SUBSET Jobs : S \subseteq T => Cardinality(S) <= Cardinality(T)
  BY <1>1, FS_Subset
<1>3. CASE A2 \subseteq A /\ P2 \subseteq P
  BY <1>1, <1>2, <1>3
<1>4. CASE x \in P /\ P2 \subseteq P \ {x} /\ A2 \subseteq A \cup {x}
  <2>1. Cardinality(P2) <= Cardinality(P) - 1
    <3>1. IsFiniteSet(P) /\ P \ {x} \in SUBSET Jobs
      BY <1>1
    <3>2. Cardinality(P \ {x}) = Cardinality(P) - 1
      BY <1>4, <3>1, FS_RemoveElement
    <3> QED
      BY <1>2, <1>4, <3>1, <3>2
  <2>2. Cardinality(A2) <= Cardinality(A) + 1
    <3>1. A \cup {x} \in SUBSET Jobs
      BY <1>4
    <3>2. Cardinality(A \cup {x}) <= Cardinality(A) + 1
      <4>1. IsFiniteSet(A) /\ Cardinality(A) \in Nat
        BY <1>1
      <4>2. Cardinality(A \cup {x}) = IF x \in A THEN Cardinality(A) ELSE Cardinality(A) + 1
        BY <4>1, FS_AddElement
      <4> QED
        BY <4>1, <4>2
    <3> QED
      BY <1>1, <1>2, <1>4, <3>1, <3>2
  <2> QED
    BY <1>1, <2>1, <2>2
<1>5. CASE A2 \subseteq A /\ Cardinality(A) < L /\ P2 \subseteq F /\ Cardinality(F) <= M
  BY <1>1, <1>2, <1>5
<1> QED
  BY <1>3, <1>4, <1>5

LEMMA FiniteSubsets ==
  \A S \in SUBSET Jobs : IsFiniteSet(S) /\ Cardinality(S) \in Nat
BY TenantAssumption, FS_Subset, FS_CardinalityType

\* How one step may move what a limit counts and the requests that passed it.
Moves(t, counted, countedAfter, passed, passedAfter, limit) ==
  \/ countedAfter \subseteq counted /\ passedAfter \subseteq passed
  \/ \E r \in passed : /\ passedAfter \subseteq passed \ {r}
                       /\ countedAfter \subseteq counted \cup {r}
  \/ /\ countedAfter \subseteq counted
     /\ Cardinality(counted) < limit
     /\ passedAfter \subseteq InFlightRequests(t)
     /\ Cardinality(InFlightRequests(t)) <= MaxInFlight

ActiveMoves(t) == Moves(t, ActiveScans(t), ActiveScans(t)', PassedActive(t), PassedActive(t)',
                        MAX_CONCURRENT_SCANS_PER_TENANT)
HourlyMoves(t) == Moves(t, RecentScans(t), RecentScans(t)', PassedHourly(t), PassedHourly(t)',
                        MAX_SCANS_PER_HOUR_PER_TENANT)

LEMMA StepKeepsBounds ==
  ASSUME ActiveScansBounded, HourlyScansBounded,
         \A t \in Tenants : ActiveMoves(t) /\ HourlyMoves(t)
  PROVE  ActiveScansBounded' /\ HourlyScansBounded'
<1> SUFFICES ASSUME NEW t \in Tenants
             PROVE  /\ Cardinality(ActiveScans(t)') + Cardinality(PassedActive(t)')
                         <= MAX_CONCURRENT_SCANS_PER_TENANT - 1 + MaxInFlight
                    /\ Cardinality(RecentScans(t)') + Cardinality(PassedHourly(t)')
                         <= MAX_SCANS_PER_HOUR_PER_TENANT - 1 + MaxInFlight
  BY DEF ActiveScansBounded, HourlyScansBounded
<1>1. /\ ActiveScans(t) \in SUBSET Jobs /\ ActiveScans(t)' \in SUBSET Jobs
      /\ PassedActive(t) \in SUBSET Jobs /\ PassedActive(t)' \in SUBSET Jobs
  BY DEF ActiveScans, PassedActive, RequestsOf
<1>2. /\ RecentScans(t) \in SUBSET Jobs /\ RecentScans(t)' \in SUBSET Jobs
      /\ PassedHourly(t) \in SUBSET Jobs /\ PassedHourly(t)' \in SUBSET Jobs
  BY DEF RecentScans, PassedHourly, RequestsOf
<1>3. InFlightRequests(t) \in SUBSET Jobs
  BY DEF InFlightRequests, RequestsOf
<1>4. Cardinality(ActiveScans(t)') + Cardinality(PassedActive(t)')
        <= MAX_CONCURRENT_SCANS_PER_TENANT - 1 + MaxInFlight
  <2>1. Cardinality(ActiveScans(t)) + Cardinality(PassedActive(t))
          <= MAX_CONCURRENT_SCANS_PER_TENANT - 1 + MaxInFlight
    BY DEF ActiveScansBounded
  <2>2. ActiveMoves(t)
    OBVIOUS
  <2> QED
    BY <1>1, <1>3, <2>1, <2>2, CountingStep, LimitAssumption DEF ActiveMoves, Moves
<1>5. Cardinality(RecentScans(t)') + Cardinality(PassedHourly(t)')
        <= MAX_SCANS_PER_HOUR_PER_TENANT - 1 + MaxInFlight
  <2>1. Cardinality(RecentScans(t)) + Cardinality(PassedHourly(t))
          <= MAX_SCANS_PER_HOUR_PER_TENANT - 1 + MaxInFlight
    BY DEF HourlyScansBounded
  <2>2. HourlyMoves(t)
    OBVIOUS
  <2> QED
    BY <1>2, <1>3, <2>1, <2>2, CountingStep, LimitAssumption DEF HourlyMoves, Moves
<1> QED
  BY <1>4, <1>5

-------------------------------------------------------------------------------
LEMMA AdmissionInit == Init => AdmissionInv
<1> SUFFICES ASSUME Init PROVE AdmissionInv
  OBVIOUS
<1>1. AdmissionTypeOK /\ CountsAreLocal
  BY LimitAssumption DEF Init, AdmissionTypeOK, RequestState, CountsAreLocal
<1>2. ASSUME NEW t \in Tenants
      PROVE  /\ InFlightRequests(t) = {} /\ ActiveScans(t) = {} /\ PassedActive(t) = {}
             /\ RecentScans(t) = {} /\ PassedHourly(t) = {}
  BY DEF Init, InFlightRequests, ActiveScans, PassedActive, RecentScans, PassedHourly,
         RequestsOf, InFlight, MayInsert
<1>3. Cardinality({}) = 0
  BY FS_EmptySet
<1>4. InFlightBounded
  BY <1>2, <1>3, LimitAssumption DEF InFlightBounded
<1>5. ActiveScansBounded
  <2> SUFFICES ASSUME NEW t \in Tenants
               PROVE  Cardinality(ActiveScans(t)) + Cardinality(PassedActive(t))
                        <= MAX_CONCURRENT_SCANS_PER_TENANT - 1 + MaxInFlight
    BY DEF ActiveScansBounded
  <2>1. Cardinality(ActiveScans(t)) = 0 /\ Cardinality(PassedActive(t)) = 0
    BY <1>2, <1>3
  <2> QED
    BY <2>1, LimitAssumption
<1>6. HourlyScansBounded
  <2> SUFFICES ASSUME NEW t \in Tenants
               PROVE  Cardinality(RecentScans(t)) + Cardinality(PassedHourly(t))
                        <= MAX_SCANS_PER_HOUR_PER_TENANT - 1 + MaxInFlight
    BY DEF HourlyScansBounded
  <2>1. Cardinality(RecentScans(t)) = 0 /\ Cardinality(PassedHourly(t)) = 0
    BY <1>2, <1>3
  <2> QED
    BY <2>1, LimitAssumption
<1> QED
  BY <1>1, <1>4, <1>5, <1>6 DEF AdmissionInv

\* A step that lets no request into create() keeps the number of them bounded.
LEMMA NobodyAsks ==
  ASSUME InFlightBounded,
         \A r \in Jobs : request'[r] \in InFlight => request[r] \in InFlight
  PROVE  InFlightBounded'
<1> SUFFICES ASSUME NEW t \in Tenants PROVE Cardinality(InFlightRequests(t)') <= MaxInFlight
  BY DEF InFlightBounded
<1>1. InFlightRequests(t)' \subseteq InFlightRequests(t) /\ InFlightRequests(t) \in SUBSET Jobs
  BY DEF InFlightRequests, RequestsOf
<1>2. IsFiniteSet(InFlightRequests(t)) /\ Cardinality(InFlightRequests(t)) <= MaxInFlight
  BY <1>1, FiniteSubsets DEF InFlightBounded
<1>3. Cardinality(InFlightRequests(t)') <= Cardinality(InFlightRequests(t))
  BY <1>1, <1>2, FS_Subset
<1>4. InFlightRequests(t)' \in SUBSET Jobs
  BY <1>1
<1> QED
  BY <1>1, <1>2, <1>3, <1>4, FiniteSubsets, LimitAssumption

\* A step after which no more scans count and no more requests have passed.
LEMMA Shrinking ==
  ASSUME \A r \in Jobs : row'[r] = "active" => row[r] = "active",
         recent' \subseteq recent,
         \A r \in Jobs : MayInsert(r, activeCount, MAX_CONCURRENT_SCANS_PER_TENANT)'
                           => MayInsert(r, activeCount, MAX_CONCURRENT_SCANS_PER_TENANT),
         \A r \in Jobs : MayInsert(r, hourlyCount, MAX_SCANS_PER_HOUR_PER_TENANT)'
                           => MayInsert(r, hourlyCount, MAX_SCANS_PER_HOUR_PER_TENANT)
  PROVE  \A t \in Tenants : ActiveMoves(t) /\ HourlyMoves(t)
<1> SUFFICES ASSUME NEW t \in Tenants PROVE ActiveMoves(t) /\ HourlyMoves(t)
  OBVIOUS
<1>1. ActiveScans(t)' \subseteq ActiveScans(t) /\ RecentScans(t)' \subseteq RecentScans(t)
  BY DEF ActiveScans, RecentScans, RequestsOf
<1>2. PassedActive(t)' \subseteq PassedActive(t) /\ PassedHourly(t)' \subseteq PassedHourly(t)
  BY DEF PassedActive, PassedHourly, RequestsOf, MayInsert
<1> QED
  BY <1>1, <1>2 DEF ActiveMoves, HourlyMoves, Moves

LEMMA AskPreserves ==
  ASSUME AdmissionInv, NEW r \in Jobs, Ask(r) PROVE AdmissionInv'
<1> USE DEF AdmissionInv
<1>1. AdmissionTypeOK' /\ CountsAreLocal'
  BY DEF Ask, Goto, AdmissionTypeOK, RequestState, InFlight, CountsAreLocal
<1>2. InFlightBounded'
  <2> SUFFICES ASSUME NEW t \in Tenants PROVE Cardinality(InFlightRequests(t)') <= MaxInFlight
    BY DEF InFlightBounded
  <2>1. InFlightRequests(t) \in SUBSET Jobs /\ InFlightRequests(t)' \in SUBSET Jobs
    BY DEF InFlightRequests, RequestsOf
  <2>2. IsFiniteSet(InFlightRequests(t)) /\ Cardinality(InFlightRequests(t)) \in Nat
    BY <2>1, FiniteSubsets
  <2>3. CASE TenantOf[r] = t
    <3>1. InFlightRequests(t)' = InFlightRequests(t) \cup {r}
      BY <2>3 DEF Ask, Goto, AdmissionTypeOK, InFlightRequests, RequestsOf, InFlight
    <3>2. Cardinality(InFlightRequests(t) \cup {r}) =
            IF r \in InFlightRequests(t) THEN Cardinality(InFlightRequests(t))
                                         ELSE Cardinality(InFlightRequests(t)) + 1
      BY <2>2, FS_AddElement
    <3>3. Cardinality(InFlightRequests(t)) < MaxInFlight
      BY <2>3 DEF Ask
    <3>4. Cardinality(InFlightRequests(t)') \in Nat
      BY <2>1, FiniteSubsets
    <3> QED
      BY <2>2, <3>1, <3>2, <3>3, <3>4, LimitAssumption
  <2>4. CASE TenantOf[r] # t
    <3>1. InFlightRequests(t)' = InFlightRequests(t)
      BY <2>4 DEF Ask, Goto, AdmissionTypeOK, InFlightRequests, RequestsOf
    <3> QED
      BY <3>1 DEF InFlightBounded
  <2> QED
    BY <2>3, <2>4
<1>3. /\ \A q \in Jobs : MayInsert(q, activeCount, MAX_CONCURRENT_SCANS_PER_TENANT)'
                           => MayInsert(q, activeCount, MAX_CONCURRENT_SCANS_PER_TENANT)
      /\ \A q \in Jobs : MayInsert(q, hourlyCount, MAX_SCANS_PER_HOUR_PER_TENANT)'
                           => MayInsert(q, hourlyCount, MAX_SCANS_PER_HOUR_PER_TENANT)
  BY DEF Ask, Goto, AdmissionTypeOK, CountsAreLocal, MayInsert
<1>4. \A t \in Tenants : ActiveMoves(t) /\ HourlyMoves(t)
  BY <1>3, Shrinking DEF Ask
<1> QED
  BY <1>1, <1>2, <1>4, StepKeepsBounds

\* A count that comes in below the limit is exact at that moment.
LEMMA CountActivePreserves ==
  ASSUME AdmissionInv, NEW r \in Jobs, CountActive(r) PROVE AdmissionInv'
<1> USE DEF AdmissionInv
<1>1. ASSUME NEW t \in Tenants
      PROVE  ActiveScans(t) \in SUBSET Jobs /\ Cardinality(ActiveScans(t)) \in Nat
  BY FiniteSubsets DEF ActiveScans, RequestsOf
<1>2. Cardinality(ActiveScans(TenantOf[r])) \in Nat
  BY <1>1, TenantAssumption
<1>3. AdmissionTypeOK' /\ CountsAreLocal'
  BY <1>2 DEF CountActive, AdmissionTypeOK, CountsAreLocal
<1>4. InFlightBounded'
  BY NobodyAsks DEF CountActive
<1>5. ASSUME NEW t \in Tenants PROVE HourlyMoves(t)
  BY DEF CountActive, HourlyMoves, Moves, RecentScans, PassedHourly, RequestsOf, MayInsert
<1>6. ASSUME NEW t \in Tenants PROVE ActiveMoves(t)
  <2>1. ActiveScans(t)' = ActiveScans(t)
    BY DEF CountActive, ActiveScans, RequestsOf
  <2>2. PassedActive(t)' \subseteq PassedActive(t) \cup {r}
    BY DEF CountActive, AdmissionTypeOK, PassedActive, RequestsOf, MayInsert
  <2>3. CASE r \in PassedActive(t)'
    <3>1. TenantOf[r] = t
      BY <2>3 DEF PassedActive, RequestsOf
    <3>2. Cardinality(ActiveScans(t)) < MAX_CONCURRENT_SCANS_PER_TENANT
      BY <2>3, <3>1 DEF CountActive, AdmissionTypeOK, PassedActive, MayInsert
    <3>3. PassedActive(t)' \subseteq InFlightRequests(t)
      BY DEF CountActive, PassedActive, MayInsert, InFlightRequests, RequestsOf, InFlight
    <3>4. Cardinality(InFlightRequests(t)) <= MaxInFlight
      BY DEF InFlightBounded
    <3> QED
      BY <2>1, <3>2, <3>3, <3>4 DEF ActiveMoves, Moves
  <2>4. CASE r \notin PassedActive(t)'
    BY <2>1, <2>2, <2>4 DEF ActiveMoves, Moves
  <2> QED
    BY <2>3, <2>4
<1> QED
  BY <1>3, <1>4, <1>5, <1>6, StepKeepsBounds

LEMMA CountHourlyPreserves ==
  ASSUME AdmissionInv, NEW r \in Jobs, CountHourly(r) PROVE AdmissionInv'
<1> USE DEF AdmissionInv
<1>1. ASSUME NEW t \in Tenants
      PROVE  RecentScans(t) \in SUBSET Jobs /\ Cardinality(RecentScans(t)) \in Nat
  BY FiniteSubsets DEF RecentScans, RequestsOf
<1>2. Cardinality(RecentScans(TenantOf[r])) \in Nat
  BY <1>1, TenantAssumption
<1>3. AdmissionTypeOK' /\ CountsAreLocal'
  BY <1>2 DEF CountHourly, AdmissionTypeOK, CountsAreLocal
<1>4. InFlightBounded'
  BY NobodyAsks DEF CountHourly
<1>5. ASSUME NEW t \in Tenants PROVE ActiveMoves(t)
  BY DEF CountHourly, ActiveMoves, Moves, ActiveScans, PassedActive, RequestsOf, MayInsert
<1>6. ASSUME NEW t \in Tenants PROVE HourlyMoves(t)
  <2>1. RecentScans(t)' = RecentScans(t)
    BY DEF CountHourly, RecentScans, RequestsOf
  <2>2. PassedHourly(t)' \subseteq PassedHourly(t) \cup {r}
    BY DEF CountHourly, AdmissionTypeOK, PassedHourly, RequestsOf, MayInsert
  <2>3. CASE r \in PassedHourly(t)'
    <3>1. TenantOf[r] = t
      BY <2>3 DEF PassedHourly, RequestsOf
    <3>2. Cardinality(RecentScans(t)) < MAX_SCANS_PER_HOUR_PER_TENANT
      BY <2>3, <3>1 DEF CountHourly, AdmissionTypeOK, PassedHourly, MayInsert
    <3>3. PassedHourly(t)' \subseteq InFlightRequests(t)
      BY DEF CountHourly, PassedHourly, MayInsert, InFlightRequests, RequestsOf, InFlight
    <3>4. Cardinality(InFlightRequests(t)) <= MaxInFlight
      BY DEF InFlightBounded
    <3> QED
      BY <2>1, <3>2, <3>3, <3>4 DEF HourlyMoves, Moves
  <2>4. CASE r \notin PassedHourly(t)'
    BY <2>1, <2>2, <2>4 DEF HourlyMoves, Moves
  <2> QED
    BY <2>3, <2>4
<1> QED
  BY <1>3, <1>4, <1>5, <1>6, StepKeepsBounds

LEMMA AssertScanRateLimitPreserves ==
  ASSUME AdmissionInv, NEW r \in Jobs, AssertScanRateLimit(r) PROVE AdmissionInv'
<1> USE DEF AdmissionInv
<1>1. /\ request[r] = "counting"
      /\ \/ request' = [request EXCEPT ![r] = "over"]
         \/ /\ request' = [request EXCEPT ![r] = "insert"]
            /\ activeCount[r] # Unknown /\ activeCount[r] < MAX_CONCURRENT_SCANS_PER_TENANT
            /\ hourlyCount[r] # Unknown /\ hourlyCount[r] < MAX_SCANS_PER_HOUR_PER_TENANT
  BY LimitAssumption DEF AssertScanRateLimit, Goto, AdmissionTypeOK, Unknown
<1>2. AdmissionTypeOK' /\ CountsAreLocal'
  BY <1>1 DEF AssertScanRateLimit, ForgetCounts, AdmissionTypeOK, RequestState, InFlight,
              CountsAreLocal
<1>3. InFlightBounded'
  BY <1>1, NobodyAsks DEF AssertScanRateLimit, AdmissionTypeOK, InFlight
<1>4. /\ \A q \in Jobs : MayInsert(q, activeCount, MAX_CONCURRENT_SCANS_PER_TENANT)'
                           => MayInsert(q, activeCount, MAX_CONCURRENT_SCANS_PER_TENANT)
      /\ \A q \in Jobs : MayInsert(q, hourlyCount, MAX_SCANS_PER_HOUR_PER_TENANT)'
                           => MayInsert(q, hourlyCount, MAX_SCANS_PER_HOUR_PER_TENANT)
  BY <1>1 DEF AssertScanRateLimit, ForgetCounts, AdmissionTypeOK, MayInsert
<1>5. \A t \in Tenants : ActiveMoves(t) /\ HourlyMoves(t)
  BY <1>4, Shrinking DEF AssertScanRateLimit
<1> QED
  BY <1>2, <1>3, <1>5, StepKeepsBounds

\* A request that passed becomes the scan it was counted for.
LEMMA InsertScanPreserves ==
  ASSUME AdmissionInv, NEW r \in Jobs, InsertScan(r) PROVE AdmissionInv'
<1> USE DEF AdmissionInv
<1>1. AdmissionTypeOK' /\ CountsAreLocal'
  BY DEF InsertScan, Goto, AdmissionTypeOK, RequestState, InFlight, CountsAreLocal
<1>2. InFlightBounded'
  BY NobodyAsks DEF InsertScan, Goto, AdmissionTypeOK, InFlight
<1>3. ASSUME NEW t \in Tenants PROVE ActiveMoves(t) /\ HourlyMoves(t)
  <2>1. /\ ActiveScans(t)' \subseteq ActiveScans(t) \cup {r}
        /\ RecentScans(t)' \subseteq RecentScans(t) \cup {r}
    BY DEF InsertScan, AdmissionTypeOK, ActiveScans, RecentScans, RequestsOf
  <2>2. /\ PassedActive(t)' \subseteq PassedActive(t) \ {r}
        /\ PassedHourly(t)' \subseteq PassedHourly(t) \ {r}
    BY DEF InsertScan, Goto, AdmissionTypeOK, PassedActive, PassedHourly, RequestsOf, MayInsert
  <2>3. CASE TenantOf[r] = t
    <3>1. r \in PassedActive(t) /\ r \in PassedHourly(t)
      BY <2>3 DEF InsertScan, PassedActive, PassedHourly, RequestsOf, MayInsert
    <3> QED
      BY <2>1, <2>2, <3>1 DEF ActiveMoves, HourlyMoves, Moves
  <2>4. CASE TenantOf[r] # t
    <3>1. r \notin ActiveScans(t)' /\ r \notin RecentScans(t)'
      BY <2>4 DEF ActiveScans, RecentScans, RequestsOf
    <3>2. /\ ActiveScans(t)' \subseteq ActiveScans(t)
          /\ RecentScans(t)' \subseteq RecentScans(t)
      BY <2>1, <3>1
    <3> QED
      BY <2>2, <3>2 DEF ActiveMoves, HourlyMoves, Moves
  <2> QED
    BY <2>3, <2>4
<1> QED
  BY <1>1, <1>2, <1>3, StepKeepsBounds

\* The steps that admit nothing: no request gets further than it was, no scan becomes
\* active or recent, no count changes except to Unknown.
LEMMA OtherStepsPreserve ==
  ASSUME AdmissionInv, AdmissionTypeOK', CountsAreLocal',
         \A r \in Jobs : request'[r] \in {request[r], "over"},
         \A r \in Jobs : request'[r] = "counting"
                           => activeCount'[r] = activeCount[r] /\ hourlyCount'[r] = hourlyCount[r],
         \A r \in Jobs : row'[r] = "active" => row[r] = "active",
         recent' \subseteq recent
  PROVE  AdmissionInv'
<1> USE DEF AdmissionInv
<1>1. InFlightBounded'
  BY NobodyAsks DEF InFlight
<1>2. \A r \in Jobs : request'[r] = request[r] \/ request'[r] = "over"
  OBVIOUS
<1>3. /\ \A q \in Jobs : MayInsert(q, activeCount, MAX_CONCURRENT_SCANS_PER_TENANT)'
                           => MayInsert(q, activeCount, MAX_CONCURRENT_SCANS_PER_TENANT)
      /\ \A q \in Jobs : MayInsert(q, hourlyCount, MAX_SCANS_PER_HOUR_PER_TENANT)'
                           => MayInsert(q, hourlyCount, MAX_SCANS_PER_HOUR_PER_TENANT)
  BY <1>2 DEF MayInsert
<1>4. \A t \in Tenants : ActiveMoves(t) /\ HourlyMoves(t)
  BY <1>3, Shrinking
<1> QED
  BY <1>1, <1>4, StepKeepsBounds

LEMMA AdmissionStep == AdmissionInv /\ [Next]_vars => AdmissionInv'
<1> SUFFICES ASSUME AdmissionInv, [Next]_vars PROVE AdmissionInv'
  OBVIOUS
<1> USE DEF AdmissionInv
<1>1. ASSUME NEW r \in Jobs, QueryFails(r) \/ Enqueue(r) PROVE AdmissionInv'
  <2>1. /\ request' = [request EXCEPT ![r] = "over"]
        /\ activeCount' \in {activeCount, [activeCount EXCEPT ![r] = Unknown]}
        /\ hourlyCount' \in {hourlyCount, [hourlyCount EXCEPT ![r] = Unknown]}
        /\ UNCHANGED <<row, recent, restarts>>
    BY <1>1 DEF QueryFails, Enqueue, Goto, ForgetCounts
  <2>2. AdmissionTypeOK'
    BY <2>1 DEF AdmissionTypeOK, RequestState
  <2>3. activeCount'[r] = Unknown /\ hourlyCount'[r] = Unknown
    BY <1>1 DEF QueryFails, Enqueue, ForgetCounts, AdmissionTypeOK, CountsAreLocal
  <2>4. CountsAreLocal'
    BY <2>1, <2>3 DEF AdmissionTypeOK, CountsAreLocal
  <2> QED
    BY <2>1, <2>2, <2>4, OtherStepsPreserve DEF AdmissionTypeOK
<1>2. ASSUME NEW r \in Jobs, StoreOutcome(r) \/ RunSettles(r) \/ HourPasses(r)
      PROVE  AdmissionInv'
  <2>1. /\ UNCHANGED <<requestVars, restarts>>
        /\ row' \in {row, [row EXCEPT ![r] = "terminal"]}
        /\ recent' \in {recent, recent \ {r}}
    BY <1>2 DEF StoreOutcome, RunSettles, HourPasses
  <2>2. AdmissionTypeOK' /\ CountsAreLocal'
    BY <2>1 DEF AdmissionTypeOK, CountsAreLocal, requestVars
  <2> QED
    BY <2>1, <2>2, OtherStepsPreserve DEF AdmissionTypeOK, requestVars
<1>3. ASSUME QueueStep \/ UNCHANGED vars PROVE AdmissionInv'
  <2>1. UNCHANGED <<request, activeCount, hourlyCount, row, recent, restarts>>
    BY <1>3 DEF QueueStep, vars, requestVars
  <2>2. AdmissionTypeOK' /\ CountsAreLocal'
    BY <2>1 DEF AdmissionTypeOK, CountsAreLocal
  <2> QED
    BY <2>1, <2>2, OtherStepsPreserve
<1>4. CASE Restart
  <2>1. AdmissionTypeOK'
    BY <1>4, LimitAssumption DEF Restart, AdmissionTypeOK, RequestState
  <2>2. \A r \in Jobs : request'[r] \in {request[r], "over"} /\ request'[r] # "counting"
    BY <1>4 DEF Restart, AdmissionTypeOK, InFlight
  <2>3. CountsAreLocal'
    BY <1>4 DEF Restart, CountsAreLocal
  <2> QED
    BY <1>4, <2>1, <2>2, <2>3, OtherStepsPreserve DEF Restart
<1> QED
  BY <1>1, <1>2, <1>3, <1>4, AskPreserves, CountActivePreserves, CountHourlyPreserves,
     AssertScanRateLimitPreserves, InsertScanPreserves
     DEF Next, RequestStep, RunStep

(* Whatever the number of tenants and requests and the limits are, a tenant   *)
(* has at most limit - 1 + MaxInFlight active scans: the code's limit is      *)
(* exceeded by no more than the requests that were counting at once.          *)
THEOREM ActiveScansAlwaysBounded == Spec => []ActiveScansBounded
<1>1. AdmissionInv => ActiveScansBounded
  BY DEF AdmissionInv
<1> QED
  BY <1>1, AdmissionInit, AdmissionStep, PTL DEF Spec

(* The same for the scans a tenant starts within an hour.                     *)
THEOREM HourlyScansAlwaysBounded == Spec => []HourlyScansBounded
<1>1. AdmissionInv => HourlyScansBounded
  BY DEF AdmissionInv
<1> QED
  BY <1>1, AdmissionInit, AdmissionStep, PTL DEF Spec

(* With one request of a tenant at a time inside create(), the cap of         *)
(* scans.service.ts:70 is kept: concurrent requests are all that breaks it.   *)
THEOREM CapKeptWithoutConcurrency ==
  ASSUME MaxInFlight = 1
  PROVE  Spec => []ConcurrentScansCapped
<1>1. AdmissionInv => ConcurrentScansCapped
  <2> SUFFICES ASSUME AdmissionInv, NEW t \in Tenants
               PROVE  Cardinality(ActiveScans(t)) <= MAX_CONCURRENT_SCANS_PER_TENANT
    BY DEF ConcurrentScansCapped
  <2>1. ActiveScans(t) \in SUBSET Jobs /\ PassedActive(t) \in SUBSET Jobs
    BY DEF ActiveScans, PassedActive, RequestsOf
  <2>2. Cardinality(ActiveScans(t)) \in Nat /\ Cardinality(PassedActive(t)) \in Nat
    BY <2>1, FiniteSubsets
  <2>3. Cardinality(ActiveScans(t)) + Cardinality(PassedActive(t))
          <= MAX_CONCURRENT_SCANS_PER_TENANT - 1 + MaxInFlight
    BY DEF AdmissionInv, ActiveScansBounded
  <2> QED
    BY <2>2, <2>3, LimitAssumption
<1> QED
  BY <1>1, AdmissionInit, AdmissionStep, PTL DEF Spec
-------------------------------------------------------------------------------
(* The queue.  Its three lists are one: what waits, oldest first.             *)

Waiting == micro \o mockPending \o immediates

\* A job waits in one place or runs, and it was handed over by a request that is over.
PlacedOnce(waiting, runs, state) ==
  /\ \A i, k \in 1..Len(waiting) : waiting[i] = waiting[k] => i = k
  /\ \A i \in 1..Len(waiting) : waiting[i] \notin runs /\ state[waiting[i]] = "over"
  /\ \A j \in runs : state[j] = "over"

OnePlace == PlacedOnce(Waiting, running, request)

QueueInv == QueueTypeOK /\ SlotsInUse /\ OnePlace

LEMMA HeadAndTail ==
  ASSUME NEW S, NEW p \in Seq(S), p # <<>>
  PROVE  /\ Head(p) \in S /\ Tail(p) \in Seq(S) /\ Len(p) >= 1
         /\ Head(p) = p[1] /\ Len(Tail(p)) = Len(p) - 1
         /\ \A i \in 1..(Len(p) - 1) : Tail(p)[i] = p[i + 1]
BY HeadTailProperties

\* Moving the head of a list to the end of the list before it changes nothing.
LEMMA MoveHead ==
  ASSUME NEW S, NEW m \in Seq(S), NEW p \in Seq(S), p # <<>>
  PROVE  Append(m, Head(p)) \o Tail(p) = m \o p
<1> DEFINE x == Append(m, Head(p))
<1>1. /\ Head(p) \in S /\ Tail(p) \in Seq(S) /\ Head(p) = p[1] /\ Len(Tail(p)) = Len(p) - 1
      /\ \A i \in 1..(Len(p) - 1) : Tail(p)[i] = p[i + 1]
      /\ Len(m) \in Nat /\ Len(p) \in Nat /\ Len(p) >= 1
  BY HeadAndTail
<1>2. /\ x \in Seq(S) /\ Len(x) = Len(m) + 1 /\ x[Len(m) + 1] = p[1]
      /\ \A i \in 1..Len(m) : x[i] = m[i]
  BY <1>1
<1> HIDE DEF x
<1>3. /\ x \o Tail(p) \in Seq(S) /\ Len(x \o Tail(p)) = Len(x) + Len(Tail(p))
      /\ \A i \in 1..(Len(x) + Len(Tail(p))) :
           (x \o Tail(p))[i] = IF i <= Len(x) THEN x[i] ELSE Tail(p)[i - Len(x)]
  BY <1>1, <1>2, ConcatProperties
<1>4. /\ m \o p \in Seq(S) /\ Len(m \o p) = Len(m) + Len(p)
      /\ \A i \in 1..(Len(m) + Len(p)) : (m \o p)[i] = IF i <= Len(m) THEN m[i] ELSE p[i - Len(m)]
  BY ConcatProperties
<1>5. Len(x \o Tail(p)) = Len(m \o p)
  BY <1>1, <1>2, <1>3, <1>4
<1>6. ASSUME NEW i \in 1..Len(x \o Tail(p)) PROVE (x \o Tail(p))[i] = (m \o p)[i]
  <2>1. i \in 1..(Len(m) + Len(p)) /\ i \in 1..(Len(x) + Len(Tail(p)))
    BY <1>3, <1>4, <1>5
  <2>2. CASE i <= Len(m)
    BY <1>1, <1>2, <1>3, <1>4, <2>1, <2>2
  <2>3. CASE i = Len(m) + 1
    BY <1>1, <1>2, <1>3, <1>4, <2>1, <2>3
  <2>4. CASE i > Len(m) + 1
    <3>1. (x \o Tail(p))[i] = Tail(p)[i - (Len(m) + 1)]
      BY <1>1, <1>2, <1>3, <2>1, <2>4
    <3>2. i - (Len(m) + 1) \in 1..(Len(p) - 1)
      BY <1>1, <2>1, <2>4
    <3>3. Tail(p)[i - (Len(m) + 1)] = p[i - Len(m)]
      BY <1>1, <3>2
    <3> QED
      BY <1>1, <1>4, <2>1, <2>4, <3>1, <3>3
  <2> QED
    BY <1>1, <2>1, <2>2, <2>3, <2>4
<1> QED
  BY <1>3, <1>4, <1>5, <1>6, SeqEqual DEF x

LEMMA HeadOfConcat ==
  ASSUME NEW S, NEW m \in Seq(S), NEW p \in Seq(S), m # <<>>
  PROVE  /\ Head(m \o p) = Head(m) /\ Tail(m \o p) = Tail(m) \o p
         /\ m \o p # <<>>
<1>1. /\ Tail(m) \in Seq(S) /\ Head(m) = m[1] /\ Len(Tail(m)) = Len(m) - 1 /\ Len(m) >= 1
      /\ \A i \in 1..(Len(m) - 1) : Tail(m)[i] = m[i + 1]
      /\ Len(m) \in Nat /\ Len(p) \in Nat
  BY HeadAndTail
<1>2. /\ m \o p \in Seq(S) /\ Len(m \o p) = Len(m) + Len(p)
      /\ \A i \in 1..(Len(m) + Len(p)) : (m \o p)[i] = IF i <= Len(m) THEN m[i] ELSE p[i - Len(m)]
  BY ConcatProperties
<1>3. m \o p # <<>>
  BY <1>1, <1>2
<1>4. /\ Tail(m \o p) \in Seq(S) /\ Head(m \o p) = (m \o p)[1]
      /\ Len(Tail(m \o p)) = Len(m) + Len(p) - 1
      /\ \A i \in 1..(Len(m) + Len(p) - 1) : Tail(m \o p)[i] = (m \o p)[i + 1]
  BY <1>1, <1>2, <1>3, HeadAndTail
<1>5. /\ Tail(m) \o p \in Seq(S) /\ Len(Tail(m) \o p) = Len(Tail(m)) + Len(p)
      /\ \A i \in 1..(Len(Tail(m)) + Len(p)) :
           (Tail(m) \o p)[i] = IF i <= Len(Tail(m)) THEN Tail(m)[i] ELSE p[i - Len(Tail(m))]
  BY <1>1, ConcatProperties
<1>6. Len(Tail(m \o p)) = Len(Tail(m) \o p)
  BY <1>1, <1>4, <1>5
<1>7. ASSUME NEW i \in 1..Len(Tail(m \o p)) PROVE Tail(m \o p)[i] = (Tail(m) \o p)[i]
  <2>1. i \in 1..(Len(m) + Len(p) - 1) /\ i + 1 \in 1..(Len(m) + Len(p))
    BY <1>1, <1>4
  <2>2. CASE i <= Len(m) - 1
    BY <1>1, <1>2, <1>4, <1>5, <2>1, <2>2
  <2>3. CASE i > Len(m) - 1
    <3>1. Tail(m \o p)[i] = p[i + 1 - Len(m)]
      BY <1>1, <1>2, <1>4, <2>1, <2>3
    <3>2. (Tail(m) \o p)[i] = p[i - (Len(m) - 1)]
      BY <1>1, <1>5, <2>1, <2>3
    <3> QED
      BY <1>1, <2>1, <3>1, <3>2
  <2> QED
    BY <1>1, <2>1, <2>2, <2>3
<1>8. Tail(m \o p) = Tail(m) \o p
  BY <1>4, <1>5, <1>6, <1>7, SeqEqual
<1>9. Head(m \o p) = Head(m)
  BY <1>1, <1>2, <1>4
<1> QED
  BY <1>3, <1>8, <1>9

LEMMA AddedLast ==
  ASSUME NEW S, NEW m \in Seq(S), NEW p \in Seq(S), NEW i \in Seq(S), NEW j \in S
  PROVE  m \o p \o Append(i, j) = Append(m \o p \o i, j)
<1>1. m \o p \in Seq(S) /\ m \o p \o i \in Seq(S) /\ <<j>> \in Seq(S)
  BY ConcatProperties
<1>2. Append(i, j) = i \o <<j>> /\ Append(m \o p \o i, j) = (m \o p \o i) \o <<j>>
  BY <1>1, AppendIsConcat
<1>3. (m \o p \o i) \o <<j>> = (m \o p) \o (i \o <<j>>)
  BY <1>1, ConcatAssociative, SMTT(20)
<1> QED
  BY <1>2, <1>3

\* What one step of the pool does to the places of its jobs.
LEMMA PlacedOnceKept ==
  ASSUME NEW w \in Seq(Jobs), NEW R \in SUBSET Jobs, NEW s, PlacedOnce(w, R, s),
         NEW w2 \in Seq(Jobs), NEW R2 \in SUBSET Jobs, NEW s2,
         \A j \in Jobs : s[j] = "over" => s2[j] = "over",
         \/ \E j \in Jobs : w2 = Append(w, j) /\ R2 = R /\ s[j] # "over" /\ s2[j] = "over"
         \/ w # <<>> /\ w2 = Tail(w) /\ R2 = R \cup {Head(w)}
         \/ w2 = w /\ R2 \subseteq R
         \/ w2 = <<>> /\ R2 = {}
  PROVE  PlacedOnce(w2, R2, s2)
<1> USE DEF PlacedOnce
<1>1. Len(w) \in Nat /\ \A i \in 1..Len(w) : w[i] \in Jobs
  BY ElementOfSeq
<1>2. ASSUME NEW j \in Jobs, w2 = Append(w, j), R2 = R, s[j] # "over", s2[j] = "over"
      PROVE  PlacedOnce(w2, R2, s2)
  <2>1. /\ Len(w2) = Len(w) + 1 /\ w2[Len(w) + 1] = j
        /\ \A i \in 1..Len(w) : w2[i] = w[i]
    BY <1>2, AppendProperties
  <2>2. \A i \in 1..Len(w2) : i \in 1..Len(w) \/ i = Len(w) + 1
    BY <1>1, <2>1
  <2>3. \A i \in 1..Len(w) : w2[i] # j /\ w2[i] = w[i] /\ w2[i] \in Jobs
    BY <1>1, <1>2, <2>1
  <2>4. j \notin R
    BY <1>2
  <2>5. \A i, k \in 1..Len(w2) : w2[i] = w2[k] => i = k
    BY <2>1, <2>2, <2>3
  <2>6. \A i \in 1..Len(w2) : w2[i] \notin R2 /\ s2[w2[i]] = "over"
    BY <1>2, <2>1, <2>2, <2>3, <2>4
  <2> QED
    BY <1>2, <2>5, <2>6
<1>3. CASE w # <<>> /\ w2 = Tail(w) /\ R2 = R \cup {Head(w)}
  <2>1. /\ Head(w) = w[1] /\ Len(w2) = Len(w) - 1 /\ Len(w) >= 1 /\ Head(w) \in Jobs
        /\ \A i \in 1..(Len(w) - 1) : w2[i] = w[i + 1]
    BY <1>3, HeadAndTail
  <2>2. \A i \in 1..Len(w2) : i + 1 \in 1..Len(w) /\ i + 1 # 1 /\ w2[i] = w[i + 1]
    BY <1>1, <2>1
  <2>3. 1 \in 1..Len(w)
    BY <1>1, <2>1
  <2>4. \A i, k \in 1..Len(w2) : w2[i] = w2[k] => i = k
    <3> SUFFICES ASSUME NEW i \in 1..Len(w2), NEW k \in 1..Len(w2), w2[i] = w2[k]
                 PROVE  i = k
      OBVIOUS
    <3>1. i + 1 = k + 1
      BY <2>2
    <3> QED
      BY <1>1, <2>1, <3>1
  <2>5. ASSUME NEW i \in 1..Len(w2)
        PROVE  w2[i] \notin R2 /\ s2[w2[i]] = "over"
    <3>1. w2[i] # w[1]
      BY <2>2, <2>3
    <3>2. w2[i] \in Jobs /\ w2[i] \notin R /\ s[w2[i]] = "over"
      BY <1>1, <2>2
    <3> QED
      BY <1>3, <2>1, <3>1, <3>2
  <2>6. s[Head(w)] = "over"
    BY <2>1, <2>3
  <2>7. \A j \in R2 : s2[j] = "over"
    BY <1>3, <2>1, <2>6
  <2> QED
    BY <2>4, <2>5, <2>7
<1>4. CASE w2 = w /\ R2 \subseteq R
  BY <1>1, <1>4
<1>5. CASE w2 = <<>> /\ R2 = {}
  <2>1. Len(w2) = 0
    BY <1>5
  <2> QED
    BY <1>5, <2>1
<1> QED
  BY <1>2, <1>3, <1>4, <1>5

\* The steps of the pool, with what they say about the requests.
Submits == \E j \in Jobs : /\ Waiting' = Append(Waiting, j) /\ running' = running
                           /\ request[j] # "over" /\ request'[j] = "over"
Starts  == /\ Waiting # <<>> /\ Cardinality(running) < MOCK_QUEUE_CONCURRENCY
           /\ Waiting' = Tail(Waiting) /\ running' = running \cup {Head(Waiting)}
Ends    == \E j \in running : running' = running \ {j} /\ Waiting' = Waiting
Wipes   == Waiting' = <<>> /\ running' = {}
PoolStep ==
  \/ Submits \/ Starts \/ Ends \/ Wipes
  \/ Waiting' = Waiting /\ running' = running

LEMMA ThreeLists == \A m, p, i \in Seq(Jobs) : m \o p \o i \in Seq(Jobs)
<1> SUFFICES ASSUME NEW m \in Seq(Jobs), NEW p \in Seq(Jobs), NEW i \in Seq(Jobs)
             PROVE  m \o p \o i \in Seq(Jobs)
  OBVIOUS
<1>1. m \o p \in Seq(Jobs)
  BY ConcatProperties
<1> QED
  BY <1>1, ConcatProperties

\* The Cardinality of BoundedPool is that of this module.
LEMMA SameCardinality == \A S : Pool!Cardinality(S) = Cardinality(S)
BY Zenon DEF Pool!Cardinality, Cardinality

LEMMA EmptySlot ==
  ASSUME QueueTypeOK, NEW j
  PROVE  /\ IsFiniteSet(running) /\ Cardinality(running) \in Nat
         /\ j \in Jobs /\ j \notin running => Cardinality(running \cup {j}) = Cardinality(running) + 1
         /\ j \in running => /\ Cardinality(running \ {j}) = Cardinality(running) - 1
                             /\ Cardinality(running) >= 1
<1>1. IsFiniteSet(running) /\ Cardinality(running) \in Nat /\ running \in SUBSET Jobs
  BY FiniteSubsets DEF QueueTypeOK
<1>2. ASSUME j \in Jobs, j \notin running
      PROVE  Cardinality(running \cup {j}) = Cardinality(running) + 1
  BY <1>1, <1>2, FS_AddElement
<1>3. ASSUME j \in running
      PROVE  /\ Cardinality(running \ {j}) = Cardinality(running) - 1
             /\ Cardinality(running) >= 1
  <2>1. Cardinality(running \ {j}) = Cardinality(running) - 1
    BY <1>1, <1>3, FS_RemoveElement
  <2>2. running \ {j} \in SUBSET Jobs
    BY <1>1
  <2>3. Cardinality(running \ {j}) \in Nat
    BY <2>2, FiniteSubsets
  <2> QED
    BY <1>1, <2>1, <2>3
<1> QED
  BY <1>1, <1>2, <1>3

\* A job that arrives at a full queue goes to the end of mockPending, and is
\* still where it was in Waiting; one that finds a slot is the oldest of all.
LEMMA ArriveStep ==
  ASSUME QueueInv, Arrive
  PROVE  QueueTypeOK' /\ SlotsInUse' /\ PoolStep
<1> USE DEF QueueInv
<1>1. /\ micro \in Seq(Jobs) /\ mockPending \in Seq(Jobs) /\ immediates \in Seq(Jobs)
      /\ mockRunning \in Nat /\ running \in SUBSET Jobs
      /\ micro = <<>> /\ immediates # <<>> /\ immediates' = Tail(immediates) /\ micro' = micro
      /\ Len(micro) = 0
  BY DEF QueueTypeOK, Arrive
<1>2. Head(immediates) \in Jobs /\ Tail(immediates) \in Seq(Jobs)
  BY <1>1, HeadAndTail
<1>3. micro \o mockPending = mockPending /\ micro' \o mockPending' = mockPending'
  <2>1. mockPending' = Append(mockPending, Head(immediates)) \/ mockPending' = mockPending
    BY DEF Arrive
  <2>2. Append(mockPending, Head(immediates)) \in Seq(Jobs)
    BY <1>1, <1>2, AppendProperties
  <2> QED
    BY <1>1, <2>1, <2>2, ConcatEmptySeq
<1>4. Waiting = mockPending \o immediates /\ Waiting' = mockPending' \o Tail(immediates)
  BY <1>1, <1>3 DEF Waiting
<1>5. CASE mockRunning >= MOCK_QUEUE_CONCURRENCY
  <2>1. /\ mockPending' = Append(mockPending, Head(immediates))
        /\ mockRunning' = mockRunning /\ running' = running
    BY <1>5 DEF Arrive
  <2>2. mockPending' \in Seq(Jobs) /\ mockPending' # <<>>
    BY <1>1, <1>2, <2>1, AppendProperties
  <2>3. Waiting' = Waiting
    BY <1>1, <1>4, <2>1, MoveHead
  <2>4. mockRunning + Len(micro) = MOCK_QUEUE_CONCURRENCY
    BY <1>1, <1>5, ConcurrencyAssumption DEF SlotsInUse
  <2> QED
    BY <1>1, <1>2, <2>1, <2>2, <2>3, <2>4, ConcurrencyAssumption
       DEF QueueTypeOK, SlotsInUse, PoolStep
<1>6. CASE ~(mockRunning >= MOCK_QUEUE_CONCURRENCY)
  <2>1. /\ mockPending' = mockPending /\ mockRunning' = mockRunning + 1
        /\ running' = running \cup {Head(immediates)}
    BY <1>6 DEF Arrive, StartRun
  <2>2. mockPending = <<>>
    BY <1>1, <1>6, ConcurrencyAssumption DEF SlotsInUse
  <2>3. Waiting = immediates /\ Waiting' = Tail(immediates)
    BY <1>1, <1>2, <1>4, <2>1, <2>2, ConcatEmptySeq
  <2>4. Cardinality(running) < MOCK_QUEUE_CONCURRENCY
    BY <1>1, <1>6, ConcurrencyAssumption DEF SlotsInUse
  <2>5. Head(immediates) \notin running
    BY <1>1, <2>3, HeadAndTail DEF OnePlace, PlacedOnce
  <2>6. Cardinality(running') = mockRunning'
    BY <1>2, <2>1, <2>5, EmptySlot DEF SlotsInUse
  <2>7. SlotsInUse'
    BY <1>1, <1>6, <2>1, <2>2, <2>6, ConcurrencyAssumption DEF SlotsInUse
  <2>8. QueueTypeOK'
    BY <1>1, <1>2, <2>1 DEF QueueTypeOK
  <2> QED
    BY <1>1, <2>1, <2>3, <2>4, <2>7, <2>8 DEF PoolStep, Starts
<1> QED
  BY <1>5, <1>6

\* The job that resumes is the oldest, and its slot was kept for it.
LEMMA ResumeStep ==
  ASSUME QueueInv, Resume
  PROVE  QueueTypeOK' /\ SlotsInUse' /\ PoolStep
<1> USE DEF QueueInv
<1>1. /\ micro \in Seq(Jobs) /\ mockPending \in Seq(Jobs) /\ immediates \in Seq(Jobs)
      /\ mockRunning \in Nat /\ running \in SUBSET Jobs
      /\ micro # <<>> /\ micro' = Tail(micro) /\ immediates' = immediates
      /\ mockPending' = mockPending /\ mockRunning' = mockRunning + 1
      /\ running' = running \cup {Head(micro)}
  BY DEF QueueTypeOK, Resume, StartRun
<1>2. /\ Head(micro) \in Jobs /\ Tail(micro) \in Seq(Jobs) /\ Len(Tail(micro)) = Len(micro) - 1
      /\ Len(micro) >= 1 /\ Len(micro) \in Nat
  BY <1>1, HeadAndTail
<1>3. /\ micro \o mockPending \in Seq(Jobs) /\ micro \o mockPending # <<>>
      /\ Head(micro \o mockPending) = Head(micro)
      /\ Tail(micro \o mockPending) = Tail(micro) \o mockPending
  BY <1>1, HeadOfConcat, ConcatProperties
<1>4. /\ Waiting # <<>> /\ Head(Waiting) = Head(micro)
      /\ Tail(Waiting) = Tail(micro) \o mockPending \o immediates
  BY <1>1, <1>3, HeadOfConcat DEF Waiting
<1>5. Waiting' = Tail(Waiting)
  BY <1>1, <1>4 DEF Waiting
<1>6. /\ mockRunning + Len(micro) <= MOCK_QUEUE_CONCURRENCY
      /\ Cardinality(running) = mockRunning
      /\ mockPending # <<>> => mockRunning + Len(micro) = MOCK_QUEUE_CONCURRENCY
  BY DEF SlotsInUse
<1>7. Cardinality(running) < MOCK_QUEUE_CONCURRENCY
  BY <1>1, <1>2, <1>6, ConcurrencyAssumption
<1>8. Head(micro) \notin running
  <2>1. Waiting \in Seq(Jobs)
    BY <1>1, ThreeLists DEF Waiting
  <2> QED
    BY <1>4, <2>1, HeadAndTail DEF OnePlace, PlacedOnce
<1>9. Cardinality(running') = mockRunning'
  BY <1>1, <1>2, <1>6, <1>8, EmptySlot
<1>10. SlotsInUse'
  <2>1. Len(micro') = Len(micro) - 1
    BY <1>1, <1>2
  <2>2. mockRunning' + Len(micro') = mockRunning + Len(micro)
    BY <1>1, <1>2, <2>1
  <2> QED
    BY <1>1, <1>6, <1>9, <2>2 DEF SlotsInUse
<1>11. QueueTypeOK'
  BY <1>1, <1>2 DEF QueueTypeOK
<1> QED
  BY <1>1, <1>4, <1>5, <1>7, <1>10, <1>11 DEF PoolStep, Starts

\* A scan that ends passes its slot to the oldest waiter, which stays the oldest.
LEMMA FinishStep ==
  ASSUME QueueInv, NEW j \in Jobs, FinishRun(j)
  PROVE  QueueTypeOK' /\ SlotsInUse' /\ PoolStep
<1> USE DEF QueueInv
<1>1. /\ micro \in Seq(Jobs) /\ mockPending \in Seq(Jobs) /\ immediates \in Seq(Jobs)
      /\ mockRunning \in Nat /\ running \in SUBSET Jobs /\ Len(micro) \in Nat
      /\ j \in running /\ running' = running \ {j} /\ mockRunning' = mockRunning - 1
      /\ immediates' = immediates
  BY DEF QueueTypeOK, FinishRun
<1>2. /\ mockRunning + Len(micro) <= MOCK_QUEUE_CONCURRENCY
      /\ Cardinality(running) = mockRunning
      /\ mockPending # <<>> => mockRunning + Len(micro) = MOCK_QUEUE_CONCURRENCY
  BY DEF SlotsInUse
<1>3. Cardinality(running') = mockRunning' /\ mockRunning' \in Nat
  <2>1. Cardinality(running \ {j}) = Cardinality(running) - 1 /\ Cardinality(running) >= 1
    BY <1>1, EmptySlot
  <2> QED
    BY <1>1, <1>2, <2>1
<1>4. CASE mockPending = <<>>
  <2>1. mockPending' = mockPending /\ micro' = micro
    BY <1>4 DEF FinishRun
  <2>2. Waiting' = Waiting
    BY <1>1, <2>1 DEF Waiting
  <2>3. SlotsInUse'
    BY <1>1, <1>2, <1>3, <1>4, <2>1, ConcurrencyAssumption DEF SlotsInUse
  <2>4. QueueTypeOK'
    BY <1>1, <1>3, <2>1 DEF QueueTypeOK
  <2> QED
    BY <1>1, <2>2, <2>3, <2>4 DEF PoolStep, Ends
<1>5. CASE mockPending # <<>>
  <2>1. mockPending' = Tail(mockPending) /\ micro' = Append(micro, Head(mockPending))
    BY <1>5 DEF FinishRun
  <2>2. micro' \o mockPending' = micro \o mockPending
    BY <1>1, <1>5, <2>1, MoveHead
  <2>3. Waiting' = Waiting
    BY <1>1, <2>2 DEF Waiting
  <2>4. Head(mockPending) \in Jobs /\ Tail(mockPending) \in Seq(Jobs)
    BY <1>1, <1>5, HeadAndTail
  <2>5. micro' \in Seq(Jobs) /\ Len(micro') = Len(micro) + 1
    BY <1>1, <2>1, <2>4, AppendProperties
  <2>6. SlotsInUse'
    BY <1>1, <1>2, <1>3, <1>5, <2>5, ConcurrencyAssumption DEF SlotsInUse
  <2>7. QueueTypeOK'
    BY <1>1, <1>3, <2>1, <2>4, <2>5 DEF QueueTypeOK
  <2> QED
    BY <1>1, <2>3, <2>6, <2>7 DEF PoolStep, Ends
<1> QED
  BY <1>4, <1>5

LEMMA EnqueueStep ==
  ASSUME QueueInv, AdmissionTypeOK, NEW r \in Jobs, Enqueue(r)
  PROVE  QueueTypeOK' /\ SlotsInUse' /\ PoolStep
<1> USE DEF QueueInv
<1>1. /\ immediates' = Append(immediates, r)
      /\ UNCHANGED <<mockPending, micro, mockRunning, running>>
      /\ request[r] # "over" /\ request'[r] = "over"
      /\ micro \in Seq(Jobs) /\ mockPending \in Seq(Jobs) /\ immediates \in Seq(Jobs)
  BY DEF Enqueue, AddScanJob, Goto, AdmissionTypeOK, QueueTypeOK
<1>2. Waiting' = Append(Waiting, r)
  BY <1>1, AddedLast DEF Waiting
<1>3. QueueTypeOK'
  BY <1>1, AppendProperties DEF QueueTypeOK
<1>4. SlotsInUse'
  BY <1>1 DEF SlotsInUse
<1> QED
  BY <1>1, <1>2, <1>3, <1>4 DEF PoolStep, Submits

LEMMA RestartStep ==
  ASSUME Restart PROVE QueueTypeOK' /\ SlotsInUse' /\ PoolStep
<1>1. /\ immediates' = <<>> /\ mockPending' = <<>> /\ micro' = <<>> /\ running' = {}
      /\ mockRunning' = 0
  BY DEF Restart
<1>2. Cardinality({}) = 0 /\ Len(<<>>) = 0 /\ <<>> \in Seq(Jobs)
  BY FS_EmptySet, EmptySeq
<1>3. <<>> \o <<>> \o <<>> = <<>>
  BY <1>2, ConcatEmptySeq
<1>4. Waiting' = <<>>
  BY <1>1, <1>3 DEF Waiting
<1>5. QueueTypeOK'
  BY <1>1, <1>2 DEF QueueTypeOK
<1>6. SlotsInUse'
  BY <1>1, <1>2, ConcurrencyAssumption DEF SlotsInUse
<1> QED
  BY <1>1, <1>4, <1>5, <1>6 DEF PoolStep, Wipes

LEMMA QueueInvInit == Init => QueueInv
<1> SUFFICES ASSUME Init PROVE QueueInv
  OBVIOUS
<1>1. /\ immediates = <<>> /\ mockPending = <<>> /\ micro = <<>> /\ running = {}
      /\ mockRunning = 0
  BY DEF Init, QueueInit
<1>2. Cardinality({}) = 0 /\ Len(<<>>) = 0 /\ <<>> \in Seq(Jobs)
  BY FS_EmptySet, EmptySeq
<1>3. <<>> \o <<>> \o <<>> = <<>>
  BY <1>2, ConcatEmptySeq
<1>4. Waiting = <<>>
  BY <1>1, <1>3 DEF Waiting
<1>5. OnePlace
  BY <1>1, <1>2, <1>4 DEF OnePlace, PlacedOnce
<1>6. QueueTypeOK /\ SlotsInUse
  BY <1>1, <1>2, ConcurrencyAssumption DEF QueueTypeOK, SlotsInUse
<1> QED
  BY <1>5, <1>6 DEF QueueInv

\* Whatever happens to the rest, the queue makes a step of the pool or none.
LEMMA EveryStepIsOfThePool ==
  ASSUME QueueInv, AdmissionTypeOK, [Next]_vars
  PROVE  QueueTypeOK' /\ SlotsInUse' /\ PoolStep
<1>1. ASSUME UNCHANGED queueVars PROVE QueueTypeOK' /\ SlotsInUse' /\ PoolStep
  BY <1>1 DEF QueueInv, queueVars, QueueTypeOK, SlotsInUse, PoolStep, Waiting
<1>2. ASSUME NEW r \in Jobs, Ask(r) \/ CountActive(r) \/ CountHourly(r) \/ AssertScanRateLimit(r)
                             \/ InsertScan(r) \/ QueryFails(r) \/ StoreOutcome(r) \/ HourPasses(r)
      PROVE  UNCHANGED queueVars
  BY <1>2 DEF Ask, CountActive, CountHourly, AssertScanRateLimit, InsertScan, QueryFails,
              StoreOutcome, HourPasses
<1>3. ASSUME NEW r \in Jobs, RunSettles(r) PROVE FinishRun(r)
  BY <1>3 DEF RunSettles
<1>4. CASE UNCHANGED vars
  BY <1>1, <1>4 DEF vars
<1>5. CASE QueueStep
  BY <1>5, ArriveStep, ResumeStep DEF QueueStep
<1>6. CASE Restart
  BY <1>6, RestartStep
<1>7. ASSUME NEW r \in Jobs, Ask(r) \/ RequestStep(r) \/ QueryFails(r) \/ RunStep(r) \/ HourPasses(r)
      PROVE  QueueTypeOK' /\ SlotsInUse' /\ PoolStep
  <2>1. CASE Enqueue(r)
    BY <2>1, EnqueueStep
  <2>2. CASE RunSettles(r)
    BY <2>2, <1>3, FinishStep
  <2>3. CASE ~Enqueue(r) /\ ~RunSettles(r)
    BY <1>1, <1>2, <1>7, <2>3 DEF RequestStep, RunStep
  <2> QED
    BY <2>1, <2>2, <2>3
<1> QED
  BY <1>4, <1>5, <1>6, <1>7 DEF Next

\* No step takes back that a request is over.
LEMMA OverIsOver ==
  ASSUME AdmissionTypeOK, [Next]_vars
  PROVE  \A r \in Jobs : request[r] = "over" => request'[r] = "over"
<1>1. CASE Restart
  BY <1>1 DEF Restart, AdmissionTypeOK, InFlight
<1>2. CASE QueueStep \/ UNCHANGED vars
  BY <1>2 DEF QueueStep, vars, requestVars
<1>3. ASSUME NEW q \in Jobs, Ask(q) \/ RequestStep(q) \/ QueryFails(q) \/ RunStep(q) \/ HourPasses(q)
      PROVE  \A r \in Jobs : request[r] = "over" => request'[r] = "over"
  <2>1. CASE RunStep(q) \/ HourPasses(q) \/ CountActive(q) \/ CountHourly(q)
    BY <2>1 DEF RunStep, HourPasses, StoreOutcome, RunSettles, CountActive, CountHourly, requestVars
  <2>2. CASE Ask(q) \/ AssertScanRateLimit(q) \/ InsertScan(q) \/ Enqueue(q) \/ QueryFails(q)
    <3>1. /\ request[q] # "over"
          /\ \E there \in RequestState : request' = [request EXCEPT ![q] = there]
      BY <2>2 DEF Ask, AssertScanRateLimit, InsertScan, Enqueue, QueryFails, Goto, RequestState,
                  InFlight
    <3> QED
      BY <3>1 DEF AdmissionTypeOK
  <2> QED
    BY <1>3, <2>1, <2>2 DEF RequestStep
<1> QED
  BY <1>1, <1>2, <1>3 DEF Next

LEMMA QueueKept ==
  ASSUME QueueInv, AdmissionTypeOK, [Next]_vars
  PROVE  QueueInv' /\ PoolStep
<1>1. QueueTypeOK' /\ SlotsInUse' /\ PoolStep
  BY EveryStepIsOfThePool
<1>2. /\ Waiting \in Seq(Jobs) /\ running \in SUBSET Jobs
      /\ Waiting' \in Seq(Jobs) /\ running' \in SUBSET Jobs
  <2>1. Waiting \in Seq(Jobs) /\ running \in SUBSET Jobs
    BY ThreeLists DEF QueueInv, QueueTypeOK, Waiting
  <2>2. (Waiting \in Seq(Jobs) /\ running \in SUBSET Jobs)'
    BY <1>1, ThreeLists DEF QueueTypeOK, Waiting
  <2> QED
    BY <2>1, <2>2
<1>3. \A r \in Jobs : request[r] = "over" => request'[r] = "over"
  BY OverIsOver
<1>4. \/ \E j \in Jobs : /\ Waiting' = Append(Waiting, j) /\ running' = running
                         /\ request[j] # "over" /\ request'[j] = "over"
      \/ Waiting # <<>> /\ Waiting' = Tail(Waiting) /\ running' = running \cup {Head(Waiting)}
      \/ Waiting' = Waiting /\ running' \subseteq running
      \/ Waiting' = <<>> /\ running' = {}
  BY <1>1 DEF PoolStep, Submits, Starts, Ends, Wipes
<1>5. PlacedOnce(Waiting, running, request)
  BY DEF QueueInv, OnePlace
<1>6. PlacedOnce(Waiting', running', request')
  BY <1>2, <1>3, <1>4, <1>5, PlacedOnceKept
<1> QED
  BY <1>1, <1>6 DEF QueueInv, OnePlace

\* The type invariant is that of the requests and that of the queue together.
THEOREM AdmissionTypesOK == Spec => []TypeOK
<1>1. Init => AdmissionInv /\ QueueInv
  BY AdmissionInit, QueueInvInit
<1>2. AdmissionInv /\ QueueInv /\ [Next]_vars => (AdmissionInv /\ QueueInv)'
  BY AdmissionStep, QueueKept DEF AdmissionInv
<1>3. AdmissionInv /\ QueueInv => TypeOK
  BY DEF AdmissionInv, QueueInv, TypeOK
<1> QED
  BY <1>1, <1>2, <1>3, PTL DEF Spec

(* Whatever the limit, the number of jobs and the interleaving, mockRunning   *)
(* (scan-queue.service.ts) is the number of scans that run, never exceeds     *)
(* MOCK_QUEUE_CONCURRENCY, and no job waits while a slot is free and not      *)
(* already promised to another.                                               *)
THEOREM SlotsAlwaysInUse == Spec => []SlotsInUse
<1>1. Init => AdmissionInv /\ QueueInv
  BY AdmissionInit, QueueInvInit
<1>2. AdmissionInv /\ QueueInv /\ [Next]_vars => (AdmissionInv /\ QueueInv)'
  BY AdmissionStep, QueueKept DEF AdmissionInv
<1>3. AdmissionInv /\ QueueInv => SlotsInUse
  BY DEF QueueInv
<1> QED
  BY <1>1, <1>2, <1>3, PTL DEF Spec

(* The in-memory queue implements the bounded pool: its setImmediate          *)
(* callbacks, resolve functions and microtasks together are one               *)
(* first-come-first-served queue.  (The fairness of the pool, the other half  *)
(* of ImplementsPool, is checked by TLC.)                                     *)
THEOREM QueueImplementsPool == Spec => Pool!Spec
<1>1. Init => AdmissionInv /\ QueueInv
  BY AdmissionInit, QueueInvInit
<1>2. AdmissionInv /\ QueueInv /\ [Next]_vars => (AdmissionInv /\ QueueInv)'
  BY AdmissionStep, QueueKept DEF AdmissionInv
<1>3. Init => Pool!Init
  <2> SUFFICES ASSUME Init PROVE Pool!Init
    OBVIOUS
  <2>1. <<>> \o <<>> \o <<>> = <<>>
    BY EmptySeq, ConcatEmptySeq
  <2> QED
    BY <2>1 DEF Init, QueueInit, Pool!Init
<1>4. AdmissionInv /\ QueueInv /\ [Next]_vars => [Pool!Next]_(Pool!poolVars)
  <2> SUFFICES ASSUME AdmissionInv, QueueInv, [Next]_vars
               PROVE  [Pool!Next]_(Pool!poolVars)
    OBVIOUS
  <2>1. PoolStep
    BY QueueKept DEF AdmissionInv
  <2>2. ASSUME Submits PROVE \E j \in Jobs : Pool!Submit(j)
    BY <2>2 DEF Submits, Waiting, Pool!Submit
  <2>3. ASSUME Starts PROVE Pool!Start
    BY <2>3, SameCardinality DEF Starts, Waiting, Pool!Start
  <2>4. ASSUME Ends PROVE \E j \in Jobs : Pool!End(j)
    BY <2>4 DEF Ends, Waiting, Pool!End, QueueInv, QueueTypeOK
  <2>5. ASSUME Wipes PROVE Pool!Wipe
    BY <2>5 DEF Wipes, Waiting, Pool!Wipe
  <2>6. ASSUME Waiting' = Waiting, running' = running PROVE UNCHANGED Pool!poolVars
    BY <2>6 DEF Waiting, Pool!poolVars
  <2> QED
    BY <2>1, <2>2, <2>3, <2>4, <2>5, <2>6 DEF PoolStep, Pool!Next
<1> QED
  BY <1>1, <1>2, <1>3, <1>4, PTL DEF Spec, Pool!Spec
===============================================================================
