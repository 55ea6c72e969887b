------------------------ MODULE EvalCoordinatorProofs ------------------------
(***************************************************************************)
(* Proofs about EvalCoordinator for every population, budget, cap, number   *)
(* of attempts, lease length and set of ticks. Everything follows from one  *)
(* inductive invariant, IInv. The actions are built on the pool of units    *)
(* that _expire_due leaves behind, so the proof is too: first what expiry   *)
(* does to the pool and to the reservation, then one step per action.       *)
(***************************************************************************)
EXTENDS EvalCoordinator, FiniteSetTheorems, TLAPS

LeasedIn(pool) == {u \in Units : pool[u].state = "LEASED"}
SettledIn(pool) == {u \in Units : pool[u].result # NoResult}

\* The per-unit part of IInv, for a pool that is not the present one.
PoolConsistent(pool) ==
  /\ pool \in [Units -> MutableUnit]
  /\ \A u \in Units : UnitConsistent(pool[u], u)

-----------------------------------------------------------------------------
(* Arithmetic of caps and populations.                                      *)

\* Every set of units is finite and has a natural number of members.
LEMMA UnitSets ==
  ASSUME NEW S \in SUBSET Units
  PROVE  IsFiniteSet(S) /\ Cardinality(S) \in Nat
<1>1. IsFiniteSet(Units)
  BY FS_Interval, SpecAssumption DEF Units, SpecAccepted
<1>2. IsFiniteSet(S)
  BY <1>1, FS_Subset
<1>3. QED
  BY <1>2, FS_CardinalityType

\* The reservation released or taken for a number of units is that many caps.
LEMMA CapArithmetic ==
  ASSUME NEW a \in Int, NEW b \in Int
  PROVE  /\ UnitCap * (a + b) = UnitCap * a + UnitCap * b
         /\ UnitCap * (a - b) = UnitCap * a - UnitCap * b
         /\ UnitCap * (a + 1) = UnitCap * a + UnitCap
         /\ UnitCap * (a - 1) = UnitCap * a - UnitCap
         /\ a <= b => UnitCap * a <= UnitCap * b
<1>1. UnitCap \in Nat
  BY SpecAssumption DEF SpecAccepted
<1>2. a <= b => UnitCap * a <= UnitCap * b
  <2>1. SUFFICES ASSUME a <= b PROVE UnitCap * a <= UnitCap * b
    OBVIOUS
  <2>2. PICK d \in Nat : b = a + d
    <3>1. b - a \in Nat /\ b = a + (b - a)
      BY <2>1
    <3>2. QED
      BY <3>1
  <2>3. UnitCap * b = UnitCap * a + UnitCap * d /\ UnitCap * d >= 0
    BY <1>1, <2>2
  <2>4. UnitCap * a \in Int /\ UnitCap * d \in Int
    BY <1>1, <2>2
  <2>5. QED
    BY <2>3, <2>4
<1>3. QED
  BY <1>1, <1>2

\* Pending, leased and settled units are disjoint, so their caps fit together
\* into the budget that DistributedEvalSpec demands.
LEMMA PopulationFitsBudget ==
  ASSUME NEW P \in SUBSET Units, NEW L \in SUBSET Units, NEW S \in SUBSET Units,
         P \cap L = {}, P \cap S = {}, L \cap S = {}
  PROVE  UnitCap * Cardinality(P) + UnitCap * Cardinality(L) + UnitCap * Cardinality(S)
           <= GlobalBudget
<1>1. /\ Cardinality(P) \in Nat /\ Cardinality(L) \in Nat /\ Cardinality(S) \in Nat
      /\ IsFiniteSet(P) /\ IsFiniteSet(L) /\ IsFiniteSet(S)
  BY UnitSets
<1>2. IsFiniteSet(P \cup L) /\ Cardinality(P \cup L) = Cardinality(P) + Cardinality(L)
  BY <1>1, FS_Union, FS_EmptySet
<1>3. Cardinality((P \cup L) \cup S) = Cardinality(P) + Cardinality(L) + Cardinality(S)
  <2>1. (P \cup L) \cap S = {}
    OBVIOUS
  <2>2. Cardinality((P \cup L) \cup S)
          = Cardinality(P \cup L) + Cardinality(S) - Cardinality((P \cup L) \cap S)
    BY <1>1, <1>2, FS_Union
  <2>3. Cardinality((P \cup L) \cap S) = 0
    BY <2>1, FS_EmptySet
  <2>4. QED
    BY <1>1, <1>2, <2>2, <2>3
<1>4. Cardinality((P \cup L) \cup S) <= NumUnits
  <2>1. IsFiniteSet(Units) /\ Cardinality(Units) = NumUnits
    BY FS_Interval, SpecAssumption DEF Units, SpecAccepted
  <2>2. (P \cup L) \cup S \in SUBSET Units
    OBVIOUS
  <2>3. QED
    BY <2>1, <2>2, FS_Subset
<1>5. UnitCap * (Cardinality(P) + Cardinality(L) + Cardinality(S)) <= UnitCap * NumUnits
  BY <1>1, <1>3, <1>4, CapArithmetic, SpecAssumption DEF SpecAccepted
<1>6. UnitCap * (Cardinality(P) + Cardinality(L) + Cardinality(S))
        = UnitCap * Cardinality(P) + UnitCap * Cardinality(L) + UnitCap * Cardinality(S)
  <2>1. UnitCap \in Nat
    BY SpecAssumption DEF SpecAccepted
  <2>2. QED
    BY <1>1, <2>1
<1>7. UnitCap * NumUnits <= GlobalBudget
  BY SpecAssumption DEF SpecAccepted
<1>8. /\ UnitCap * Cardinality(P) \in Int /\ UnitCap * Cardinality(L) \in Int
      /\ UnitCap * Cardinality(S) \in Int /\ UnitCap * NumUnits \in Int /\ GlobalBudget \in Int
  BY <1>1, SpecAssumption DEF SpecAccepted
<1>9. QED
  BY <1>5, <1>6, <1>7, <1>8

-----------------------------------------------------------------------------
(* What _expire_due does to a consistent pool.                              *)

\* A unit that expiry touches stays consistent; attempts and result survive.
LEMMA ExpiredUnitConsistent ==
  ASSUME TypeOK, NEW u \in Units, UnitConsistent(unit[u], u), unit[u].state = "LEASED"
  PROVE  /\ ExpiredUnit(u) \in MutableUnit
         /\ UnitConsistent(ExpiredUnit(u), u)
         /\ ExpiredUnit(u).state \in {"PENDING", "QUARANTINED"}
         /\ ExpiredUnit(u).attempts = unit[u].attempts
         /\ ExpiredUnit(u).result = unit[u].result
<1>1. unit[u] \in MutableUnit
  BY DEF TypeOK
<1>2. CASE OutOfAttempts(u)
  <2>1. ExpiredUnit(u) = [unit[u] EXCEPT !.state = "QUARANTINED", !.lease = NoLease,
                                         !.reason = "LEASE_EXPIRED_MAX_ATTEMPTS"]
    BY <1>2 DEF ExpiredUnit, QuarantinedUnit
  <2>2. QED
    BY <1>1, <2>1 DEF MutableUnit, UnitState, Reasons, UnitConsistent
<1>3. CASE ~OutOfAttempts(u)
  <2>1. ExpiredUnit(u) = [unit[u] EXCEPT !.state = "PENDING", !.lease = NoLease]
    BY <1>3 DEF ExpiredUnit
  <2>2. unit[u].attempts < MaxAttempts
    BY <1>3, SpecAssumption DEF OutOfAttempts, UnitConsistent, SpecAccepted
  <2>3. QED
    BY <1>1, <2>1, <2>2 DEF MutableUnit, UnitState, UnitConsistent
<1>4. QED
  BY <1>2, <1>3

\* After expiry the pool is consistent, what is leased is what was not due, and
\* the reservation is again one cap for each leased unit.
LEMMA ExpiryOnPool ==
  ASSUME IInv, NEW t \in Nat
  PROVE  LET pool == UnitsAfterExpiry(t) IN
         /\ PoolConsistent(pool)
         /\ \A u \in Units : /\ pool[u].attempts = unit[u].attempts
                             /\ pool[u].result = unit[u].result
                             /\ u \notin Due(t) => pool[u] = unit[u]
                             /\ pool[u].state = "LEASED" => u \notin Due(t)
         /\ SettledIn(pool) = Settled
         /\ ReservedAfterExpiry(t) = UnitCap * Cardinality(LeasedIn(pool))
<1> DEFINE pool == UnitsAfterExpiry(t)
<1>1. TypeOK /\ \A u \in Units : UnitConsistent(unit[u], u)
  BY DEF IInv
<1>2. ASSUME NEW u \in Units
      PROVE  /\ pool[u] \in MutableUnit
             /\ UnitConsistent(pool[u], u)
             /\ pool[u].attempts = unit[u].attempts
             /\ pool[u].result = unit[u].result
             /\ u \notin Due(t) => pool[u] = unit[u]
             /\ pool[u].state = "LEASED" => u \notin Due(t)
  <2>1. CASE u \in Due(t)
    <3>1. pool[u] = ExpiredUnit(u) /\ unit[u].state = "LEASED"
      BY <2>1 DEF UnitsAfterExpiry, Due
    <3>2. QED
      BY <1>1, <2>1, <3>1, ExpiredUnitConsistent
  <2>2. CASE u \notin Due(t)
    <3>1. pool[u] = unit[u]
      BY <2>2 DEF UnitsAfterExpiry
    <3>2. QED
      BY <1>1, <2>2, <3>1 DEF TypeOK
  <2>3. QED
    BY <2>1, <2>2
<1>3. PoolConsistent(pool)
  BY <1>2 DEF PoolConsistent, UnitsAfterExpiry
<1>4. SettledIn(pool) = Settled
  BY <1>2 DEF SettledIn, Settled
<1>5. LeasedIn(pool) = InState("LEASED") \ Due(t)
  BY <1>2 DEF LeasedIn, InState, Due
<1>6. ReservedAfterExpiry(t) = UnitCap * Cardinality(LeasedIn(pool))
  <2>1. InState("LEASED") \in SUBSET Units /\ Due(t) \in SUBSET InState("LEASED")
    BY DEF InState, Due
  <2>2. InState("LEASED") \cap Due(t) = Due(t)
    BY <2>1
  <2>3. Due(t) \in SUBSET Units
    BY <2>1
  <2>4. Cardinality(LeasedIn(pool)) = Cardinality(InState("LEASED")) - Cardinality(Due(t))
    BY <1>5, <2>1, <2>2, UnitSets, FS_Difference
  <2>5. /\ Cardinality(InState("LEASED")) \in Int
        /\ Cardinality(Due(t)) \in Int
    BY <2>1, <2>3, UnitSets
  <2>6. UnitCap * (Cardinality(InState("LEASED")) - Cardinality(Due(t)))
          = UnitCap * Cardinality(InState("LEASED")) - UnitCap * Cardinality(Due(t))
    BY <2>5, CapArithmetic
  <2>7. reserved = UnitCap * Cardinality(InState("LEASED"))
    BY DEF IInv
  <2>8. QED
    BY <2>4, <2>6, <2>7 DEF ReservedAfterExpiry
<1>7. QED
  BY <1>2, <1>3, <1>4, <1>6

\* No pending unit is out of attempts, so the scan of claim changes nothing.
LEMMA ScanIsIdle ==
  ASSUME IInv, NEW t \in Nat
  PROVE  /\ Exhausted(t) = {}
         /\ \A stop : UnitsAfterScan(t, stop) = UnitsAfterExpiry(t)
<1>1. PoolConsistent(UnitsAfterExpiry(t))
  BY ExpiryOnPool
<1>2. \A u \in Units : UnitsAfterExpiry(t)[u].attempts = unit[u].attempts
  BY ExpiryOnPool
<1>3. ASSUME NEW u \in PendingAfterExpiry(t) PROVE ~OutOfAttempts(u)
  <2>1. u \in Units /\ UnitsAfterExpiry(t)[u].state = "PENDING"
    BY DEF PendingAfterExpiry
  <2>2. UnitConsistent(UnitsAfterExpiry(t)[u], u)
    BY <1>1, <2>1 DEF PoolConsistent
  <2>3. unit[u].attempts < MaxAttempts /\ unit[u].attempts \in Int
    BY <1>2, <2>1, <2>2 DEF UnitConsistent
  <2>4. QED
    BY <2>3, SpecAssumption DEF OutOfAttempts, SpecAccepted
<1>4. Exhausted(t) = {}
  BY <1>3 DEF Exhausted
<1>5. ASSUME NEW stop PROVE UnitsAfterScan(t, stop) = UnitsAfterExpiry(t)
  <2>1. UnitsAfterExpiry(t) = [u \in Units |-> UnitsAfterExpiry(t)[u]]
    BY DEF UnitsAfterExpiry
  <2>2. QED
    BY <1>4, <2>1 DEF UnitsAfterScan
<1>6. QED
  BY <1>4, <1>5

-----------------------------------------------------------------------------
(* The inductive invariant.                                                 *)

\* A step that only expires leases.
LEMMA ExpiryPreservesIInv ==
  ASSUME IInv, NEW t \in Nat,
         unit' = UnitsAfterExpiry(t), reserved' = ReservedAfterExpiry(t),
         budgetBlocks' \in 0..MaxBlocks,
         UNCHANGED <<spent, issued, certificate>>
  PROVE  IInv'
<1> DEFINE pool == UnitsAfterExpiry(t)
<1>1. /\ PoolConsistent(pool)
      /\ \A u \in Units : pool[u].attempts = unit[u].attempts /\ pool[u].result = unit[u].result
      /\ \A u \in Units : u \notin Due(t) => pool[u] = unit[u]
      /\ SettledIn(pool) = Settled
      /\ ReservedAfterExpiry(t) = UnitCap * Cardinality(LeasedIn(pool))
  BY ExpiryOnPool
<1>2. TypeOK'
  <2>1. Cardinality(LeasedIn(pool)) \in Int /\ UnitCap \in Int
    BY UnitSets, SpecAssumption DEF LeasedIn, SpecAccepted
  <2>2. reserved' \in Int
    BY <1>1, <2>1
  <2>3. QED
    BY <1>1, <2>2 DEF IInv, TypeOK, PoolConsistent
<1>3. \A u \in Units : UnitConsistent(unit[u], u)'
  BY <1>1 DEF PoolConsistent, UnitConsistent
<1>4. LeasesNumbered'
  <2>1. \A l \in issued : l.unit \in Units
    BY DEF IInv, TypeOK, Lease
  <2>2. \A l \in issued : l.attempt \in 1..unit'[l.unit].attempts
    BY <1>1, <2>1 DEF IInv, LeasesNumbered
  <2>3. QED
    BY <2>2 DEF IInv, LeasesNumbered
<1>5. Settled' = Settled
  BY <1>1 DEF Settled, SettledIn
<1>6. OnlyLatestLeaseCommits'
  <2>1. \A u \in Settled : u \in Units
    BY DEF Settled
  <2>2. QED
    BY <1>1, <1>5, <2>1 DEF IInv, OnlyLatestLeaseCommits
<1>7. (reserved = UnitCap * Cardinality(InState("LEASED")))'
  BY <1>1 DEF LeasedIn, InState
<1>8. (spent \in 0..UnitCap * Cardinality(Settled))'
  BY <1>5 DEF IInv
<1>9. (certificate # NoCertificate =>
         \A u \in Units : unit[u].state \in {"COMMITTED", "QUARANTINED"})'
  <2>1. \A u \in Units : unit[u].state \in {"COMMITTED", "QUARANTINED"} => pool[u] = unit[u]
    BY <1>1 DEF Due
  <2>2. QED
    BY <2>1 DEF IInv
<1>10. CertificateStaysTrue'
  BY <1>1 DEF IInv, CertificateStaysTrue
<1>11. QED
  BY <1>2, <1>3, <1>4, <1>6, <1>7, <1>8, <1>9, <1>10 DEF IInv

LEMMA InitEstablishesIInv == Init => IInv
<1> SUFFICES ASSUME Init PROVE IInv
  OBVIOUS
<1>1. \A u \in Units : unit[u] = FreshUnit
  BY DEF Init
<1>2. FreshUnit \in MutableUnit
  BY DEF FreshUnit, MutableUnit, UnitState
<1>3. TypeOK
  BY <1>2, InputAssumption DEF Init, TypeOK
<1>4. \A u \in Units : UnitConsistent(unit[u], u)
  BY <1>1, SpecAssumption, NullAssumption DEF FreshUnit, UnitConsistent, SpecAccepted, Reasons
<1>5. InState("LEASED") = {} /\ Settled = {}
  BY <1>1 DEF InState, Settled, FreshUnit
<1>6. Cardinality({}) = 0
  BY FS_EmptySet
<1>7. reserved = UnitCap * Cardinality(InState("LEASED"))
  BY <1>5, <1>6, SpecAssumption DEF Init, SpecAccepted
<1>8. spent \in 0..UnitCap * Cardinality(Settled)
  BY <1>5, <1>6, SpecAssumption DEF Init, SpecAccepted
<1>9. LeasesNumbered /\ OnlyLatestLeaseCommits /\ CertificateStaysTrue
  BY <1>5 DEF Init, LeasesNumbered, OnlyLatestLeaseCommits, CertificateStaysTrue
<1>10. QED
  BY <1>3, <1>4, <1>7, <1>8, <1>9 DEF IInv, Init

\* claim hands out a lease.
LEMMA GrantPreservesIInv ==
  ASSUME IInv, NEW u \in Units, NEW w \in Workers, NEW t \in Nat, ClaimGranted(u, w, t)
  PROVE  IInv'
<1> DEFINE pool == UnitsAfterExpiry(t)
           l    == NewLease(u, w, t)
<1>1. /\ PoolConsistent(pool)
      /\ \A v \in Units : pool[v].attempts = unit[v].attempts /\ pool[v].result = unit[v].result
      /\ \A v \in Units : v \notin Due(t) => pool[v] = unit[v]
      /\ SettledIn(pool) = Settled
      /\ ReservedAfterExpiry(t) = UnitCap * Cardinality(LeasedIn(pool))
  BY ExpiryOnPool
<1>2. /\ unit' = [pool EXCEPT ![u] = LeasedUnit(pool[u], l)]
      /\ reserved' = ReservedAfterExpiry(t) + UnitCap
      /\ issued' = issued \cup {l}
      /\ UNCHANGED <<spent, budgetBlocks, certificate>>
  BY ScanIsIdle DEF ClaimGranted
<1>3. pool[u].state = "PENDING" /\ pool[u] \in MutableUnit /\ UnitConsistent(pool[u], u)
  BY <1>1 DEF ClaimGranted, FirstClaimable, PendingAfterExpiry, PoolConsistent
<1>4. unit[u].attempts \in Nat /\ unit[u].attempts < MaxAttempts
  BY <1>1, <1>3, SpecAssumption DEF UnitConsistent, SpecAccepted
<1>5. l \in Lease /\ l # NoLease
  <2>1. unit[u].attempts + 1 \in Nat /\ t + LeaseTTL \in Nat
    BY <1>4, SpecAssumption DEF SpecAccepted
  <2>2. l \in Lease
    BY <2>1 DEF NewLease, Lease
  <2>3. QED
    BY <2>2, NullAssumption
<1>6. l.unit = u /\ l.attempt = unit[u].attempts + 1
  BY DEF NewLease
<1>7. /\ unit'[u] = [pool[u] EXCEPT !.state = "LEASED", !.attempts = l.attempt, !.lease = l]
      /\ \A v \in Units : v # u => unit'[v] = pool[v]
  BY <1>1, <1>2 DEF PoolConsistent, LeasedUnit
<1>8. unit'[u] \in MutableUnit /\ unit'[u].result = unit[u].result
  BY <1>1, <1>3, <1>5, <1>7 DEF MutableUnit, UnitState, Lease
<1>9. TypeOK'
  <2>1. unit' \in [Units -> MutableUnit]
    BY <1>1, <1>2, <1>7, <1>8 DEF PoolConsistent
  <2>2. Cardinality(LeasedIn(pool)) \in Int /\ UnitCap \in Int
    BY UnitSets, SpecAssumption DEF LeasedIn, SpecAccepted
  <2>3. reserved' \in Int
    BY <1>1, <1>2, <2>2
  <2>4. QED
    BY <1>2, <1>5, <2>1, <2>3 DEF IInv, TypeOK
<1>10. ASSUME NEW v \in Units PROVE UnitConsistent(unit[v], v)'
  <2>1. CASE v = u
    <3>1. /\ unit'[u].state = "LEASED" /\ unit'[u].attempts = unit[u].attempts + 1
          /\ unit'[u].lease = l /\ unit'[u].result = pool[u].result
          /\ unit'[u].reason = pool[u].reason
      BY <1>3, <1>6, <1>7 DEF MutableUnit
    <3>2. unit'[u].attempts \in 0..MaxAttempts
      BY <1>4, <3>1, SpecAssumption DEF SpecAccepted
    <3>3. QED
      BY <1>2, <1>3, <1>5, <1>6, <2>1, <3>1, <3>2 DEF UnitConsistent
  <2>2. CASE v # u
    <3>1. unit'[v] = pool[v] /\ UnitConsistent(pool[v], v)
      BY <1>1, <1>7, <2>2 DEF PoolConsistent
    <3>2. QED
      BY <1>2, <3>1 DEF UnitConsistent
  <2>3. QED
    BY <2>1, <2>2
<1>11. \A v \in Units : /\ unit'[v].attempts \in Nat
                        /\ unit'[v].attempts = IF v = u THEN unit[u].attempts + 1
                                                        ELSE unit[v].attempts
  <2>1. \A v \in Units : pool[v].attempts \in Nat /\ pool[v] \in MutableUnit
    BY <1>1 DEF PoolConsistent, MutableUnit
  <2>2. unit'[u].attempts = unit[u].attempts + 1
    BY <1>3, <1>6, <1>7 DEF MutableUnit
  <2>3. ASSUME NEW v \in Units, v # u
        PROVE  unit'[v].attempts = unit[v].attempts /\ unit'[v].attempts \in Nat
    <3>1. unit'[v] = pool[v]
      BY <1>7, <2>3
    <3>2. QED
      BY <1>1, <2>1, <3>1
  <2>4. unit[u].attempts + 1 \in Nat
    BY <1>4
  <2>5. QED
    BY <2>2, <2>3, <2>4
<1>12. LeasesNumbered'
  <2>1. \A k \in issued : k.unit \in Units /\ k.attempt \in Nat
    BY DEF IInv, TypeOK, Lease
  <2>2. \A k \in issued : k.attempt >= 1 /\ k.attempt <= unit[k.unit].attempts
    BY <2>1 DEF IInv, LeasesNumbered
  <2>3. \A k \in issued : k.unit = u => k.attempt # l.attempt
    BY <1>4, <1>6, <2>1, <2>2
  <2>4. \A k, j \in issued' : k.unit = j.unit /\ k.attempt = j.attempt => k = j
    BY <1>2, <1>6, <2>3 DEF IInv, LeasesNumbered
  <2>5. \A k \in issued : k.attempt \in 1..unit'[k.unit].attempts
    BY <1>4, <1>11, <2>1, <2>2
  <2>6. l.attempt \in 1..unit'[u].attempts
    BY <1>4, <1>6, <1>11
  <2>7. QED
    BY <1>2, <1>6, <2>4, <2>5, <2>6 DEF LeasesNumbered
<1>13. Settled' = Settled /\ u \notin Settled
  <2>1. \A v \in Units : unit'[v].result = unit[v].result
    BY <1>1, <1>7, <1>8
  <2>2. QED
    BY <1>1, <1>3, <2>1 DEF Settled, UnitConsistent
<1>14. OnlyLatestLeaseCommits'
  <2>1. \A v \in Settled : v \in Units /\ v # u /\ unit'[v].result = unit[v].result
                           /\ unit'[v].attempts = unit[v].attempts
    BY <1>1, <1>7, <1>13 DEF Settled
  <2>2. QED
    BY <1>2, <1>13, <2>1 DEF IInv, OnlyLatestLeaseCommits
<1>15. (reserved = UnitCap * Cardinality(InState("LEASED")))'
  <2>1. InState("LEASED")' = LeasedIn(pool) \cup {u} /\ u \notin LeasedIn(pool)
    BY <1>3, <1>7 DEF InState, LeasedIn, MutableUnit
  <2>2. Cardinality(InState("LEASED")') = Cardinality(LeasedIn(pool)) + 1
    BY <2>1, UnitSets, FS_AddElement DEF LeasedIn
  <2>3. Cardinality(LeasedIn(pool)) \in Int
    BY UnitSets DEF LeasedIn
  <2>4. UnitCap * (Cardinality(LeasedIn(pool)) + 1)
          = UnitCap * Cardinality(LeasedIn(pool)) + UnitCap
    BY <2>3, CapArithmetic
  <2>5. QED
    BY <1>1, <1>2, <2>2, <2>4
<1>16. certificate = NoCertificate
  <2>1. unit[u].state \in {"COMMITTED", "QUARANTINED"} => pool[u].state # "PENDING"
    BY <1>1 DEF Due
  <2>2. QED
    BY <1>3, <2>1 DEF IInv
<1>17. QED
  BY <1>2, <1>9, <1>10, <1>12, <1>13, <1>14, <1>15, <1>16 DEF IInv, CertificateStaysTrue

\* A late result that contradicts the recorded one quarantines its unit.
LEMMA ConflictPreservesIInv ==
  ASSUME IInv, NEW l \in issued, NEW p \in Payloads, CommitConflicting(l, p)
  PROVE  IInv'
<1> DEFINE u == l.unit
<1>1. u \in Units /\ unit[u] \in MutableUnit /\ UnitConsistent(unit[u], u)
  BY DEF IInv, TypeOK, Lease
<1>2. /\ unit[u].state = "COMMITTED"
      /\ unit' = [unit EXCEPT ![u] = QuarantinedUnit(unit[u], "CONFLICTING_DUPLICATE_RESULT")]
      /\ UNCHANGED <<spent, reserved, budgetBlocks, issued, certificate>>
  BY DEF CommitConflicting
<1>3. /\ unit'[u] = QuarantinedUnit(unit[u], "CONFLICTING_DUPLICATE_RESULT")
      /\ \A v \in Units : v # u => unit'[v] = unit[v]
      /\ DOMAIN unit' = Units
  BY <1>1, <1>2 DEF IInv, TypeOK
<1>4. /\ unit'[u] \in MutableUnit /\ UnitConsistent(unit'[u], u)
      /\ unit'[u].state = "QUARANTINED"
      /\ unit'[u].attempts = unit[u].attempts /\ unit'[u].result = unit[u].result
  BY <1>1, <1>2, <1>3 DEF QuarantinedUnit, MutableUnit, UnitState, Reasons, UnitConsistent
<1> HIDE DEF u
<1>5. \A v \in Units : unit'[v].attempts = unit[v].attempts /\ unit'[v].result = unit[v].result
  BY <1>3, <1>4
<1>6. TypeOK'
  BY <1>2, <1>3, <1>4 DEF IInv, TypeOK
<1>7. \A v \in Units : UnitConsistent(unit[v], v)'
  BY <1>2, <1>3, <1>4 DEF IInv, UnitConsistent
<1>8. LeasesNumbered'
  <2>1. \A k \in issued : k.unit \in Units
    BY DEF IInv, TypeOK, Lease
  <2>2. QED
    BY <1>2, <1>5, <2>1 DEF IInv, LeasesNumbered
<1>9. Settled' = Settled
  BY <1>5 DEF Settled
<1>10. OnlyLatestLeaseCommits'
  <2>1. \A v \in Settled : v \in Units
    BY DEF Settled
  <2>2. QED
    BY <1>2, <1>5, <1>9, <2>1 DEF IInv, OnlyLatestLeaseCommits
<1>11. InState("LEASED")' = InState("LEASED")
  BY <1>2, <1>3, <1>4 DEF InState
<1>12. (certificate # NoCertificate =>
          \A v \in Units : unit[v].state \in {"COMMITTED", "QUARANTINED"})'
  BY <1>2, <1>3, <1>4 DEF IInv
<1>13. CertificateStaysTrue'
  BY <1>2, <1>5 DEF IInv, CertificateStaysTrue
<1>14. QED
  BY <1>2, <1>6, <1>7, <1>8, <1>9, <1>10, <1>11, <1>12, <1>13 DEF IInv

\* A leased unit has a cap of its own left in the budget, whatever else was
\* spent and reserved: a commit within the cap is within the budget.
LEMMA CommitIsWithinBudget ==
  ASSUME IInv, NEW u \in InState("LEASED"), NEW c \in Nat, c <= UnitCap
  PROVE  WithinBudget(c) /\ u \notin Settled
           /\ spent + c <= UnitCap * Cardinality(Settled) + UnitCap
<1>1. u \in Units /\ u \notin Settled /\ {u} \cap Settled = {}
  BY DEF IInv, InState, Settled, UnitConsistent
<1>2. {u} \in SUBSET Units /\ Settled \in SUBSET Units /\ {} \in SUBSET Units
  BY <1>1 DEF Settled
<1>3. Cardinality({}) = 0 /\ Cardinality({u}) = 1
  BY FS_EmptySet, FS_Singleton
<1>4. UnitCap * Cardinality({}) + UnitCap * Cardinality({u}) + UnitCap * Cardinality(Settled)
        <= GlobalBudget
  BY <1>1, <1>2, PopulationFitsBudget
<1>5. /\ UnitCap \in Nat /\ GlobalBudget \in Nat
      /\ Cardinality(Settled) \in Nat /\ UnitCap * Cardinality(Settled) \in Int
  <2>1. Cardinality(Settled) \in Nat /\ UnitCap \in Nat /\ GlobalBudget \in Nat
    BY <1>2, UnitSets, SpecAssumption DEF SpecAccepted
  <2>2. QED
    BY <2>1
<1>6. UnitCap + UnitCap * Cardinality(Settled) <= GlobalBudget
  BY <1>3, <1>4, <1>5
<1>7. spent \in Int /\ spent <= UnitCap * Cardinality(Settled)
  BY <1>5 DEF IInv
<1>8. QED
  BY <1>1, <1>5, <1>6, <1>7 DEF WithinBudget

\* A result committed in time.
LEMMA CommitPreservesIInv ==
  ASSUME IInv, NEW l \in issued, NEW p \in Payloads, NEW c \in Nat, NEW t \in Nat,
         CommitInTime(l, p, c, t)
  PROVE  IInv'
<1> DEFINE u   == l.unit
           rec == [attempt |-> l.attempt, worker |-> l.worker,
                   payload |-> p, cost |-> c, tick |-> t]
<1>1. /\ u \in Units /\ unit[u] \in MutableUnit /\ UnitConsistent(unit[u], u)
      /\ l \in Lease /\ l.attempt \in Nat /\ l.worker \in Workers
  BY DEF IInv, TypeOK, Lease
<1>2. unit[u].state = "LEASED" /\ unit[u].lease = l /\ t < l.expires /\ c <= UnitCap
  BY DEF CommitInTime, HoldsActiveLease
<1>3. u \in InState("LEASED")
  BY <1>1, <1>2 DEF InState
<1>4. WithinBudget(c) /\ u \notin Settled /\ spent + c <= UnitCap * Cardinality(Settled) + UnitCap
  BY <1>2, <1>3, CommitIsWithinBudget
<1>5. /\ reserved' = reserved - UnitCap
      /\ UNCHANGED <<budgetBlocks, issued, certificate>>
      /\ CommitRecord(u, rec)
  BY <1>4 DEF CommitInTime
<1>6. rec \in ResultRecord /\ rec # NoResult
  <2>1. rec \in ResultRecord
    BY <1>1 DEF ResultRecord
  <2>2. QED
    BY <2>1, NullAssumption
<1>7. /\ unit'[u] = [unit[u] EXCEPT !.state = "COMMITTED", !.lease = NoLease, !.result = rec]
      /\ \A v \in Units : v # u => unit'[v] = unit[v]
      /\ DOMAIN unit' = Units
      /\ spent' = spent + c
  BY <1>1, <1>5 DEF CommitRecord, IInv, TypeOK
<1>8. /\ unit'[u] \in MutableUnit /\ UnitConsistent(unit'[u], u)
      /\ unit'[u].state = "COMMITTED" /\ unit'[u].result = rec
      /\ unit'[u].attempts = unit[u].attempts
  BY <1>1, <1>2, <1>6, <1>7 DEF MutableUnit, UnitState, UnitConsistent
<1>9. /\ rec.attempt = l.attempt /\ rec.worker = l.worker /\ rec.tick = t
      /\ l.attempt = unit[u].attempts
  BY <1>1, <1>2 DEF UnitConsistent
<1>10. l.unit = u /\ l \in issued
  OBVIOUS
<1> HIDE DEF u, rec
<1>11. TypeOK'
  <2>1. spent \in Int /\ reserved \in Int /\ UnitCap \in Int
    BY SpecAssumption DEF IInv, TypeOK, SpecAccepted
  <2>2. spent' \in Int /\ reserved' \in Int
    BY <1>5, <1>7, <2>1
  <2>3. unit' \in [Units -> MutableUnit]
    BY <1>1, <1>5, <1>7, <1>8 DEF IInv, TypeOK, CommitRecord
  <2>4. QED
    BY <1>5, <2>2, <2>3 DEF IInv, TypeOK
<1>12. \A v \in Units : UnitConsistent(unit[v], v)'
  <2>1. \A v \in Units : UnitConsistent(unit'[v], v)
    BY <1>7, <1>8 DEF IInv
  <2>2. QED
    BY <1>5, <2>1 DEF UnitConsistent
<1>13. LeasesNumbered'
  <2>1. \A k \in issued : k.unit \in Units
    BY DEF IInv, TypeOK, Lease
  <2>2. \A v \in Units : unit'[v].attempts = unit[v].attempts
    BY <1>7, <1>8
  <2>3. QED
    BY <1>5, <2>1, <2>2 DEF IInv, LeasesNumbered
<1>14. Settled' = Settled \cup {u}
  BY <1>1, <1>6, <1>7, <1>8 DEF Settled
<1>15. OnlyLatestLeaseCommits'
  <2>1. ASSUME NEW v \in Settled
        PROVE  v \in Units /\ v # u /\ unit'[v] = unit[v]
    BY <1>4, <1>7 DEF Settled
  <2>2. \E k \in issued : k.unit = u /\ k.attempt = rec.attempt /\ k.worker = rec.worker
                          /\ rec.tick < k.expires
    BY <1>2, <1>9, <1>10
  <2>3. QED
    BY <1>5, <1>8, <1>9, <1>14, <2>1, <2>2 DEF IInv, OnlyLatestLeaseCommits
<1>16. (reserved = UnitCap * Cardinality(InState("LEASED")))'
  <2>1. InState("LEASED")' = InState("LEASED") \ {u}
    BY <1>7, <1>8 DEF InState
  <2>2. InState("LEASED") \in SUBSET Units
    BY DEF InState
  <2>3. /\ Cardinality(InState("LEASED")') = Cardinality(InState("LEASED")) - 1
        /\ Cardinality(InState("LEASED")) \in Int
    BY <1>3, <2>1, <2>2, UnitSets, FS_RemoveElement
  <2>4. UnitCap * (Cardinality(InState("LEASED")) - 1)
          = UnitCap * Cardinality(InState("LEASED")) - UnitCap
    BY <2>3, CapArithmetic
  <2>5. QED
    BY <1>5, <2>3, <2>4 DEF IInv
<1>17. (spent \in 0..UnitCap * Cardinality(Settled))'
  <2>1. Settled \in SUBSET Units
    BY DEF Settled
  <2>2. /\ Cardinality(Settled') = Cardinality(Settled) + 1
        /\ Cardinality(Settled) \in Int
    BY <1>4, <1>14, <2>1, UnitSets, FS_AddElement
  <2>3. /\ UnitCap * (Cardinality(Settled) + 1) = UnitCap * Cardinality(Settled) + UnitCap
        /\ UnitCap * Cardinality(Settled) + UnitCap \in Int
    <3>1. UnitCap \in Int
      BY SpecAssumption DEF SpecAccepted
    <3>2. UnitCap * (Cardinality(Settled) + 1) = UnitCap * Cardinality(Settled) + UnitCap
      BY <2>2, CapArithmetic
    <3>3. UnitCap * Cardinality(Settled) \in Int
      BY <2>2, <3>1
    <3>4. QED
      BY <3>1, <3>2, <3>3
  <2>4. spent \in Int /\ spent >= 0
    BY DEF IInv
  <2>5. QED
    BY <1>4, <1>7, <2>2, <2>3, <2>4
<1>18. certificate = NoCertificate
  BY <1>1, <1>2 DEF IInv
<1>19. QED
  BY <1>5, <1>11, <1>12, <1>13, <1>15, <1>16, <1>17, <1>18 DEF IInv, CertificateStaysTrue

\* A certificate is handed out of a pool in which expiry finds nothing to do.
LEMMA CompletePoolIsIdle ==
  ASSUME IInv, Complete, NEW t \in Nat
  PROVE  UnitsAfterExpiry(t) = unit /\ InState("QUARANTINED") = {} /\ Settled = Units
<1>1. Due(t) = {} /\ InState("QUARANTINED") = {}
  BY DEF Complete, Due, InState
<1>2. UnitsAfterExpiry(t) = [u \in Units |-> unit[u]]
  BY <1>1 DEF UnitsAfterExpiry
<1>3. unit = [u \in Units |-> unit[u]]
  BY DEF IInv, TypeOK
<1>4. Settled = Units
  BY DEF IInv, Complete, Settled, UnitConsistent
<1>5. QED
  BY <1>1, <1>2, <1>3, <1>4

LEMMA CertifyPreservesIInv ==
  ASSUME IInv, NEW t \in Nat, Certify(t)
  PROVE  IInv'
<1>1. /\ unit' = UnitsAfterExpiry(t) /\ reserved' = ReservedAfterExpiry(t)
      /\ UNCHANGED <<spent, budgetBlocks, issued>>
  BY DEF Certify, ExpireDue
<1>2. budgetBlocks' \in 0..MaxBlocks
  BY <1>1 DEF IInv, TypeOK
<1>3. CASE ~Complete
  <2>1. certificate' = certificate
    BY <1>3 DEF Certify
  <2>2. QED
    BY <1>1, <1>2, <2>1, ExpiryPreservesIInv
<1>4. CASE Complete
  <2>1. unit' = unit /\ InState("LEASED")' = InState("LEASED") /\ Settled' = Settled
    BY <1>1, <1>4, CompletePoolIsIdle DEF InState, Settled
  <2>2. certificate' = [population |-> [u \in Units |-> unit[u].result], total |-> spent]
    BY <1>4 DEF Certify
  <2>3. certificate' \in Certificate /\ reserved' \in Int
    <3>1. \A u \in Units : unit[u].result \in ResultRecord
      BY <1>4 DEF Complete, IInv, TypeOK, MutableUnit, UnitConsistent
    <3>2. certificate' \in Certificate
      BY <2>2, <3>1 DEF IInv, TypeOK, Certificate
    <3>3. Cardinality(LeasedIn(UnitsAfterExpiry(t))) \in Int /\ UnitCap \in Int
      BY UnitSets, SpecAssumption DEF LeasedIn, SpecAccepted
    <3>4. reserved' = UnitCap * Cardinality(LeasedIn(UnitsAfterExpiry(t)))
      BY <1>1, ExpiryOnPool
    <3>5. reserved' \in Int
      BY <3>3, <3>4
    <3>6. QED
      BY <3>2, <3>5
  <2>4. TypeOK'
    BY <1>1, <1>2, <2>1, <2>3 DEF IInv, TypeOK
  <2>5. (\A u \in Units : UnitConsistent(unit[u], u))' /\ LeasesNumbered' /\ OnlyLatestLeaseCommits'
    BY <1>1, <2>1 DEF IInv, UnitConsistent, LeasesNumbered, OnlyLatestLeaseCommits
  <2>6. (reserved = UnitCap * Cardinality(InState("LEASED")))'
    <3>1. reserved' = UnitCap * Cardinality(LeasedIn(UnitsAfterExpiry(t)))
      BY <1>1, ExpiryOnPool
    <3>2. LeasedIn(UnitsAfterExpiry(t)) = InState("LEASED")
      BY <1>1, <2>1 DEF LeasedIn, InState
    <3>3. QED
      BY <2>1, <3>1, <3>2
  <2>7. (spent \in 0..UnitCap * Cardinality(Settled))'
    BY <1>1, <2>1 DEF IInv
  <2>8. (\A u \in Units : unit[u].state \in {"COMMITTED", "QUARANTINED"})' /\ CertificateStaysTrue'
    BY <1>1, <1>4, <2>1, <2>2 DEF Complete, CertificateStaysTrue
  <2>9. QED
    BY <2>4, <2>5, <2>6, <2>7, <2>8 DEF IInv
<1>5. QED
  BY <1>3, <1>4

LEMMA NextPreservesIInv == IInv /\ [Next]_vars => IInv'
<1> SUFFICES ASSUME IInv, [Next]_vars PROVE IInv'
  OBVIOUS
<1>1. Ticks \subseteq Nat /\ Costs \subseteq Nat
  BY InputAssumption
<1>2. ASSUME NEW t \in Ticks, ClaimBlocked(t) PROVE IInv'
  <2>1. budgetBlocks' \in 0..MaxBlocks
    BY <1>2, InputAssumption DEF ClaimBlocked, IInv, TypeOK
  <2>2. QED
    BY <1>1, <1>2, <2>1, ExpiryPreservesIInv DEF ClaimBlocked, ExpireDue
<1>3. ASSUME NEW t \in Ticks, ClaimNothing(t) PROVE IInv'
  <2>1. unit' = UnitsAfterExpiry(t)
    BY <1>1, <1>3, ScanIsIdle DEF ClaimNothing
  <2>2. budgetBlocks' \in 0..MaxBlocks
    BY <1>3 DEF ClaimNothing, IInv, TypeOK
  <2>3. QED
    BY <1>1, <1>3, <2>1, <2>2, ExpiryPreservesIInv DEF ClaimNothing
<1>4. ASSUME NEW u \in Units, NEW w \in Workers, NEW t \in Ticks, ClaimGranted(u, w, t)
      PROVE  IInv'
  BY <1>1, <1>4, GrantPreservesIInv
<1>5. ASSUME NEW l \in issued, NEW p \in Payloads, CommitConflicting(l, p) PROVE IInv'
  BY <1>5, ConflictPreservesIInv
<1>6. ASSUME NEW l \in issued, NEW t \in Ticks, CommitTooLate(l, t) PROVE IInv'
  <2>1. budgetBlocks' \in 0..MaxBlocks
    BY <1>6 DEF CommitTooLate, IInv, TypeOK
  <2>2. QED
    BY <1>1, <1>6, <2>1, ExpiryPreservesIInv DEF CommitTooLate, ExpireDue
<1>7. ASSUME NEW l \in issued, NEW p \in Payloads, NEW c \in Costs, NEW t \in Ticks,
             CommitInTime(l, p, c, t)
      PROVE  IInv'
  BY <1>1, <1>7, CommitPreservesIInv
<1>8. ASSUME NEW t \in Ticks, Snapshot(t) PROVE IInv'
  <2>1. budgetBlocks' \in 0..MaxBlocks
    BY <1>8 DEF Snapshot, IInv, TypeOK
  <2>2. QED
    BY <1>1, <1>8, <2>1, ExpiryPreservesIInv DEF Snapshot, ExpireDue
<1>9. ASSUME NEW t \in Ticks, Certify(t) PROVE IInv'
  BY <1>1, <1>9, CertifyPreservesIInv
<1>10. CASE UNCHANGED vars
  BY <1>10 DEF vars, IInv, TypeOK, UnitConsistent, LeasesNumbered, OnlyLatestLeaseCommits,
               InState, Settled, CertificateStaysTrue
<1>11. QED
  BY <1>2, <1>3, <1>4, <1>5, <1>6, <1>7, <1>8, <1>9, <1>10 DEF Next

\* IInv holds in every reachable state.
THEOREM InductiveInvariant == Spec => []IInv
<1>1. Init => IInv
  BY InitEstablishesIInv
<1>2. IInv /\ [Next]_vars => IInv'
  BY NextPreservesIInv
<1>3. QED
  BY <1>1, <1>2, PTL DEF Spec

-----------------------------------------------------------------------------
(* The safety properties of EvalCoordinator.                                *)

\* The coordinator's state keeps its type: counters never leave their range.
THEOREM TypeCorrect == Spec => []TypeOK
<1>1. IInv => TypeOK
  BY DEF IInv
<1>2. QED
  BY <1>1, InductiveInvariant, PTL

\* Caps reserved, and money spent, for disjoint sets of units.
LEMMA PoolIsFunded ==
  ASSUME IInv
  PROVE  BudgetConserved /\ PendingIsFunded
<1> DEFINE L == InState("LEASED")
           P == InState("PENDING")
<1>1. P \in SUBSET Units /\ L \in SUBSET Units /\ Settled \in SUBSET Units /\ {} \in SUBSET Units
  BY DEF InState, Settled
<1>2. P \cap L = {} /\ P \cap Settled = {} /\ L \cap Settled = {}
  BY DEF IInv, InState, Settled, UnitConsistent
<1>3. UnitCap * Cardinality(P) + UnitCap * Cardinality(L) + UnitCap * Cardinality(Settled)
        <= GlobalBudget
  BY <1>1, <1>2, PopulationFitsBudget
<1>4. UnitCap \in Nat /\ GlobalBudget \in Nat
  BY SpecAssumption DEF SpecAccepted
<1>5. Cardinality(P) \in Nat /\ Cardinality(L) \in Nat /\ Cardinality(Settled) \in Nat
  BY <1>1, UnitSets
<1>6. /\ UnitCap * Cardinality(P) \in Nat /\ UnitCap * Cardinality(L) \in Nat
      /\ UnitCap * Cardinality(Settled) \in Nat
  BY <1>4, <1>5
<1>7. spent \in Int /\ spent <= UnitCap * Cardinality(Settled) /\ reserved = UnitCap * Cardinality(L)
  BY <1>6 DEF IInv
<1> HIDE DEF L, P
<1>8. spent + reserved <= GlobalBudget
  BY <1>3, <1>4, <1>6, <1>7
<1>9. GlobalBudget - spent - reserved >= UnitCap * Cardinality(P)
  BY <1>3, <1>4, <1>6, <1>7
<1>10. QED
  BY <1>7, <1>8, <1>9 DEF BudgetConserved, PendingIsFunded, L, P

\* However claims, expiries, commits and conflicts interleave, money reserved is
\* one cap for each live lease, and money spent and reserved is within the budget.
THEOREM BudgetIsConserved == Spec => []BudgetConserved
<1>1. IInv => BudgetConserved
  BY PoolIsFunded
<1>2. QED
  BY <1>1, InductiveInvariant, PTL

\* The admission check of DistributedEvalSpec is enough: every pending unit can
\* always be paid for, so no claim is refused for money while a unit is pending.
THEOREM PendingIsAlwaysFunded == Spec => []PendingIsFunded
<1>1. IInv => PendingIsFunded
  BY PoolIsFunded
<1>2. QED
  BY <1>1, InductiveInvariant, PTL

\* The quarantines for an exhausted count at claim and for a budget breach at
\* commit are dead code.
THEOREM DefensiveQuarantinesAreDead == Spec => []NoDefensiveQuarantine
<1>1. IInv => NoDefensiveQuarantine
  BY DEF IInv, NoDefensiveQuarantine, UnitConsistent
<1>2. QED
  BY <1>1, InductiveInvariant, PTL

\* A recorded result came with the last lease of its unit, before it expired,
\* whatever older leases are submitted and whatever ticks the callers pass.
THEOREM StaleLeasesNeverCommit == Spec => []OnlyLatestLeaseCommits
<1>1. IInv => OnlyLatestLeaseCommits
  BY DEF IInv
<1>2. QED
  BY <1>1, InductiveInvariant, PTL

\* No unit is ever leased more than max_attempts_per_unit times.
THEOREM AttemptsAreBounded == Spec => []AttemptsBounded
<1>1. IInv => AttemptsBounded
  <2>1. SUFFICES ASSUME IInv PROVE AttemptsBounded
    OBVIOUS
  <2>2. ASSUME NEW l \in issued PROVE l.attempt \in 1..MaxAttempts
    <3>1. l.unit \in Units
      BY <2>1 DEF IInv, TypeOK, Lease
    <3>2. unit[l.unit].attempts \in 0..MaxAttempts /\ l.attempt \in 1..unit[l.unit].attempts
      BY <2>1, <3>1 DEF IInv, UnitConsistent, LeasesNumbered
    <3>3. QED
      BY <3>2, SpecAssumption DEF SpecAccepted
  <2>3. QED
    BY <2>1, <2>2 DEF IInv, LeasesNumbered, AttemptsBounded
<1>2. QED
  BY <1>1, InductiveInvariant, PTL

\* All the units together: a panel never costs more invocations than its population
\* times max_attempts_per_unit, the failed ones, whose cost is never committed, included.
InvocationsBounded == Cardinality(issued) <= NumUnits * MaxAttempts

\* A lease is known by its unit and its attempt number.
LEMMA LeasesAreCounted ==
  ASSUME IInv
  PROVE  IsFiniteSet(issued) /\ Cardinality(issued) \in Nat /\ InvocationsBounded
<1> DEFINE slots == Units \X (1..MaxAttempts)
           slot  == [l \in issued |-> <<l.unit, l.attempt>>]
<1>1. NumUnits \in Nat /\ MaxAttempts \in Nat
  BY SpecAssumption DEF SpecAccepted
<1>2. /\ IsFiniteSet(Units) /\ Cardinality(Units) = NumUnits
      /\ IsFiniteSet(1..MaxAttempts) /\ Cardinality(1..MaxAttempts) = MaxAttempts
  BY <1>1, FS_Interval DEF Units
<1>3. IsFiniteSet(slots) /\ Cardinality(slots) = NumUnits * MaxAttempts
  BY <1>2, FS_Product
<1>4. ASSUME NEW l \in issued PROVE <<l.unit, l.attempt>> \in slots
  <2>1. l.unit \in Units /\ l.attempt \in 1..unit[l.unit].attempts
    BY DEF IInv, TypeOK, Lease, LeasesNumbered
  <2>2. unit[l.unit].attempts \in 0..MaxAttempts
    BY <2>1 DEF IInv, UnitConsistent
  <2> QED
    BY <1>1, <2>1, <2>2
<1>5. \A l, k \in issued : slot[l] = slot[k] => l = k
  BY DEF IInv, LeasesNumbered
<1>6. slot \in [issued -> slots]
  BY <1>4
<1>7. slot \in Injection(issued, slots)
  BY <1>5, <1>6 DEF Injection, IsInjective
<1> HIDE DEF slots, slot
<1> QED
  BY <1>3, <1>7, FS_Injection, FS_CardinalityType DEF InvocationsBounded

\* The number of leases ever granted, and so of invocations, is bounded by the
\* population and the retry budget, whatever the workers do with the leases.
THEOREM InvocationsAreBounded == Spec => []InvocationsBounded
<1>1. IInv => InvocationsBounded
  BY LeasesAreCounted
<1> QED
  BY <1>1, InductiveInvariant, PTL

\* Nothing is recorded or charged behind the back of a certificate.
THEOREM CertificatesStayTrue == Spec => []CertificateStaysTrue
<1>1. IInv => CertificateStaysTrue
  BY DEF IInv
<1>2. QED
  BY <1>1, InductiveInvariant, PTL

-----------------------------------------------------------------------------
(* What a step may not do.                                                  *)

\* Expiry leaves every unit that is not leased alone, and only ever takes a
\* leased one back to the pool or to quarantine.
LEMMA ExpiryUndoesNothing ==
  ASSUME IInv, NEW t \in Nat, NEW u \in Units, unit' = UnitsAfterExpiry(t)
  PROVE  /\ unit[u].state # "LEASED" => unit'[u] = unit[u]
         /\ unit'[u].attempts = unit[u].attempts
         /\ unit'[u].result = unit[u].result
BY ExpiryOnPool DEF Due

\* What NothingIsUndone says of one step.
Kept == /\ \A u \in Units :
             /\ unit[u].state = "QUARANTINED" => unit'[u] = unit[u]
             /\ unit[u].state = "COMMITTED" => unit'[u].state \in {"COMMITTED", "QUARANTINED"}
             /\ unit[u].result # NoResult => unit'[u].result = unit[u].result
             /\ unit'[u].attempts >= unit[u].attempts
        /\ spent' >= spent

\* The part of IInv that says what a number is.
LEMMA Numbers ==
  ASSUME IInv
  PROVE  /\ spent \in Int
         /\ \A u \in Units : unit[u].attempts \in Int
BY DEF IInv, TypeOK, MutableUnit

LEMMA ExpiryKeeps ==
  ASSUME IInv, NEW t \in Nat, unit' = UnitsAfterExpiry(t), spent' = spent
  PROVE  Kept
BY ExpiryUndoesNothing, Numbers DEF Kept

LEMMA NextKeeps == IInv /\ [Next]_vars => [Kept]_vars
<1> SUFFICES ASSUME IInv, Next PROVE Kept
  OBVIOUS
<1>1. Ticks \subseteq Nat /\ Costs \subseteq Nat
  BY InputAssumption
<1>2. ASSUME NEW t \in Ticks, ClaimBlocked(t) PROVE Kept
  BY <1>1, <1>2, ExpiryKeeps DEF ClaimBlocked, ExpireDue
<1>3. ASSUME NEW t \in Ticks, ClaimNothing(t) PROVE Kept
  BY <1>1, <1>3, ScanIsIdle, ExpiryKeeps DEF ClaimNothing
<1>4. ASSUME NEW u \in Units, NEW w \in Workers, NEW t \in Ticks, ClaimGranted(u, w, t)
      PROVE  Kept
  <2> DEFINE pool == UnitsAfterExpiry(t)
  <2>1. /\ \A v \in Units : pool[v].attempts = unit[v].attempts /\ pool[v].result = unit[v].result
        /\ \A v \in Units : unit[v].state # "LEASED" => pool[v] = unit[v]
        /\ pool \in [Units -> MutableUnit]
    BY <1>1, ExpiryOnPool DEF PoolConsistent, Due
  <2>2. unit' = [pool EXCEPT ![u] = LeasedUnit(pool[u], NewLease(u, w, t))] /\ spent' = spent
    BY <1>1, <1>4, ScanIsIdle DEF ClaimGranted
  <2>3. pool[u].state = "PENDING" /\ pool[u] \in MutableUnit
    BY <1>4, <2>1 DEF ClaimGranted, FirstClaimable, PendingAfterExpiry
  <2>4. unit'[u].attempts = unit[u].attempts + 1 /\ unit'[u].result = pool[u].result
    BY <2>1, <2>2, <2>3 DEF LeasedUnit, NewLease, MutableUnit
  <2>5. \A v \in Units : v # u => unit'[v] = pool[v]
    BY <2>1, <2>2
  <2> HIDE DEF pool
  <2>6. ASSUME NEW v \in Units
        PROVE  /\ unit[v].state = "QUARANTINED" => unit'[v] = unit[v]
               /\ unit[v].state = "COMMITTED" => unit'[v] = unit[v]
               /\ unit'[v].result = unit[v].result
    BY <2>1, <2>3, <2>4, <2>5
  <2>7. ASSUME NEW v \in Units PROVE unit'[v].attempts >= unit[v].attempts
    <3>1. unit'[v].attempts = unit[v].attempts \/ unit'[v].attempts = unit[v].attempts + 1
      BY <2>1, <2>4, <2>5
    <3>2. QED
      BY <3>1, Numbers
  <2>8. spent' >= spent
    BY <2>2, Numbers
  <2>9. QED
    BY <2>6, <2>7, <2>8 DEF Kept
<1>5. ASSUME NEW l \in issued, NEW p \in Payloads, CommitConflicting(l, p) PROVE Kept
  <2>1. l.unit \in Units /\ unit[l.unit] \in MutableUnit /\ unit[l.unit].state = "COMMITTED"
    BY <1>5 DEF IInv, TypeOK, Lease, CommitConflicting
  <2>2. /\ unit'[l.unit] = QuarantinedUnit(unit[l.unit], "CONFLICTING_DUPLICATE_RESULT")
        /\ \A v \in Units : v # l.unit => unit'[v] = unit[v]
        /\ spent' = spent
    BY <1>5, <2>1 DEF IInv, TypeOK, CommitConflicting
  <2>3. /\ unit'[l.unit].state = "QUARANTINED" /\ unit'[l.unit].result = unit[l.unit].result
        /\ unit'[l.unit].attempts = unit[l.unit].attempts
    BY <2>1, <2>2 DEF QuarantinedUnit, MutableUnit
  <2>4. QED
    BY <2>1, <2>2, <2>3, Numbers DEF Kept
<1>6. ASSUME NEW l \in issued, NEW t \in Ticks, CommitTooLate(l, t) PROVE Kept
  BY <1>1, <1>6, ExpiryKeeps DEF CommitTooLate, ExpireDue
<1>7. ASSUME NEW l \in issued, NEW p \in Payloads, NEW c \in Costs, NEW t \in Ticks,
             CommitInTime(l, p, c, t)
      PROVE  Kept
  <2>1. /\ l.unit \in Units /\ unit[l.unit] \in MutableUnit /\ unit[l.unit].state = "LEASED"
        /\ unit[l.unit].result = NoResult /\ c \in Nat /\ c <= UnitCap
    BY <1>1, <1>7 DEF IInv, TypeOK, Lease, CommitInTime, HoldsActiveLease, UnitConsistent
  <2>2. WithinBudget(c)
    BY <2>1, CommitIsWithinBudget DEF InState
  <2>3. CommitRecord(l.unit, [attempt |-> l.attempt, worker |-> l.worker,
                              payload |-> p, cost |-> c, tick |-> t])
    BY <1>7, <2>2 DEF CommitInTime
  <2>4. /\ unit'[l.unit].state = "COMMITTED"
        /\ unit'[l.unit].attempts = unit[l.unit].attempts
        /\ \A v \in Units : v # l.unit => unit'[v] = unit[v]
        /\ spent' = spent + c
    BY <2>1, <2>3 DEF CommitRecord, IInv, TypeOK, MutableUnit
  <2>5. spent' >= spent /\ \A v \in Units : unit'[v].attempts >= unit[v].attempts
    BY <2>1, <2>4, Numbers
  <2>6. QED
    BY <2>1, <2>4, <2>5 DEF Kept
<1>8. ASSUME NEW t \in Ticks, Snapshot(t) PROVE Kept
  BY <1>1, <1>8, ExpiryKeeps DEF Snapshot, ExpireDue
<1>9. ASSUME NEW t \in Ticks, Certify(t) PROVE Kept
  BY <1>1, <1>9, ExpiryKeeps DEF Certify, ExpireDue
<1>10. QED
  BY <1>2, <1>3, <1>4, <1>5, <1>6, <1>7, <1>8, <1>9 DEF Next

\* No step reopens a quarantined unit, replaces a result, hands back an attempt
\* or refunds money.
THEOREM NothingIsEverUndone == Spec => NothingIsUndone
<1>1. IInv /\ [Next]_vars => [Kept]_vars
  BY NextKeeps
<1>2. Spec => [][Kept]_vars
  BY <1>1, InductiveInvariant, PTL DEF Spec
<1>3. QED
  BY <1>2 DEF Kept, NothingIsUndone

-----------------------------------------------------------------------------
(* The audit log. Replay is a recursive function, and no property of it is  *)
(* proved by induction: the invariant says of each log that it can be       *)
(* replayed and that every replay of it ends with the unit's state, and one *)
(* more event keeps both.                                                   *)

\* f[n] is the unit after the first n events of a log.
IsReplay(f, log) ==
  f = [n \in 0..Len(log) |-> IF n = 0 THEN FreshUnit ELSE Replayed(f[n - 1], log[n])]

\* A log can be replayed, and however it is, it ends with m.
EndsWith(log, m) ==
  /\ \E f : IsReplay(f, log)
  /\ \A f : IsReplay(f, log) => f[Len(log)] = m

\* Replay is one of the replays, so it ends where all of them do.
LEMMA ReplayEnds ==
  ASSUME NEW log, NEW m, EndsWith(log, m)
  PROVE  Replay(log) = m
<1> DEFINE after == CHOOSE f : IsReplay(f, log)
<1>1. IsReplay(after, log)
  BY DEF EndsWith
<1>2. after[Len(log)] = m
  BY <1>1 DEF EndsWith
<1>3. Replay(log) = after[Len(log)]
  BY DEF Replay, IsReplay
<1> QED
  BY <1>2, <1>3

LEMMA EmptyLog == EndsWith(<< >>, FreshUnit)
<1>1. Len(<< >>) = 0 /\ 0..0 = {0}
  OBVIOUS
<1>2. IsReplay([n \in 0..0 |-> FreshUnit], << >>)
  BY <1>1 DEF IsReplay
<1>3. \A f : IsReplay(f, << >>) => f[0] = FreshUnit
  BY <1>1 DEF IsReplay
<1> QED
  BY <1>1, <1>2, <1>3 DEF EndsWith

\* One more event takes the unit one step further.
LEMMA OneMoreEvent ==
  ASSUME NEW E, NEW log \in Seq(E), NEW e \in E, NEW m, EndsWith(log, m)
  PROVE  EndsWith(Append(log, e), Replayed(m, e))
<1> DEFINE new == Append(log, e)
           n == Len(log)
<1>1. /\ n \in Nat /\ Len(new) = n + 1 /\ new[n + 1] = e
      /\ \A i \in 1..n : new[i] = log[i]
  OBVIOUS
<1> HIDE DEF new
<1> HIDE DEF n
<1>2. \E f : IsReplay(f, new)
  <2>1. PICK f : IsReplay(f, log)
    BY DEF EndsWith
  <2> DEFINE g == [i \in 0..(n + 1) |-> IF i = n + 1 THEN Replayed(f[n], e) ELSE f[i]]
  <2>2. ASSUME NEW i \in 0..(n + 1)
        PROVE  g[i] = IF i = 0 THEN FreshUnit ELSE Replayed(g[i - 1], new[i])
    <3>0. f = [j \in 0..n |-> IF j = 0 THEN FreshUnit ELSE Replayed(f[j - 1], log[j])]
      BY <2>1 DEF IsReplay, n
    <3>1. CASE i = n + 1
      BY <1>1, <3>1
    <3>2. CASE i # n + 1 /\ i # 0
      <4>1. i \in 1..n /\ i - 1 \in 0..n /\ i \in 0..n /\ i - 1 # n + 1 /\ i - 1 \in 0..(n + 1)
        BY <1>1, <3>2
      <4>2. f[i] = Replayed(f[i - 1], log[i])
        BY <3>0, <4>1, <3>2
      <4>3. g[i] = f[i] /\ g[i - 1] = f[i - 1] /\ new[i] = log[i]
        BY <1>1, <4>1, <3>2
      <4> QED
        BY <3>2, <4>2, <4>3
    <3>3. CASE i = 0
      BY <1>1, <3>0, <3>3
    <3> QED
      BY <3>1, <3>2, <3>3
  <2>3. IsReplay(g, new)
    BY <1>1, <2>2 DEF IsReplay
  <2> QED
    BY <2>3
<1>3. ASSUME NEW f, IsReplay(f, new) PROVE f[n + 1] = Replayed(m, e)
  <2> DEFINE g == [i \in 0..n |-> f[i]]
  <2>1. \A i \in 0..(n + 1) : f[i] = IF i = 0 THEN FreshUnit ELSE Replayed(f[i - 1], new[i])
    BY <1>1, <1>3 DEF IsReplay
  <2>2. \A i \in 0..n : g[i] = IF i = 0 THEN FreshUnit ELSE Replayed(g[i - 1], log[i])
    <3> TAKE i \in 0..n
    <3>1. i \in 0..(n + 1) /\ (i # 0 => i - 1 \in 0..n /\ i \in 1..n)
      BY <1>1
    <3> QED
      BY <1>1, <2>1, <3>1
  <2>3. IsReplay(g, log)
    BY <2>2 DEF IsReplay, n
  <2>4. g[n] = m
    BY <2>3 DEF EndsWith, n
  <2>5. n + 1 \in 0..(n + 1) /\ n + 1 # 0 /\ (n + 1) - 1 = n /\ n \in 0..n
    BY <1>1
  <2> QED
    BY <1>1, <2>1, <2>4, <2>5
<1> QED
  BY <1>1, <1>2, <1>3 DEF EndsWith, new

\* The events that a unit's log can hold.
Event ==
  [kind : {"LEASE_GRANTED"}, lease : Lease] \cup [kind : {"LEASE_EXPIRED"}]
    \cup [kind : {"QUARANTINE"}, reason : Reasons]
    \cup [kind : {"RESULT_COMMITTED"}, result : ResultRecord]

\* The log of every unit, replayed, ends with the present state of the unit.
Logged(log, pool) ==
  \A u \in Units : log[u] \in Seq(Event) /\ EndsWith(log[u], pool[u])

AuditIInv == audit = [u \in Units |-> audit[u]] /\ Logged(audit, unit)

\* A step that logs one event of unit u.
LEMMA OneEvent ==
  ASSUME NEW log, NEW pool, Logged(log, pool), NEW u \in Units, NEW e \in Event,
         NEW log2, log2[u] = Append(log[u], e),
         NEW pool2, pool2[u] = Replayed(pool[u], e),
         \A v \in Units : v # u => log2[v] = log[v] /\ pool2[v] = pool[v]
  PROVE  Logged(log2, pool2)
<1>1. EndsWith(Append(log[u], e), Replayed(pool[u], e)) /\ Append(log[u], e) \in Seq(Event)
  BY OneMoreEvent DEF Logged
<1> QED
  BY <1>1 DEF Logged

\* Expiry logs what it does to each unit that is due.
LEMMA ExpiryIsLogged ==
  ASSUME IInv, AuditIInv, NEW t \in Nat
  PROVE  Logged(AuditAfterExpiry(t), UnitsAfterExpiry(t))
<1>1. ASSUME NEW u \in Units
      PROVE  /\ AuditAfterExpiry(t)[u] \in Seq(Event)
             /\ EndsWith(AuditAfterExpiry(t)[u], UnitsAfterExpiry(t)[u])
  <2>0. audit[u] \in Seq(Event) /\ EndsWith(audit[u], unit[u])
    BY DEF AuditIInv, Logged
  <2>1. CASE u \in Due(t)
    <3>1. ExpiryEvent(u) \in Event
      BY DEF ExpiryEvent, Event, Expired, Quarantined, Reasons
    <3>2. ExpiredUnit(u) = Replayed(unit[u], ExpiryEvent(u))
      BY DEF ExpiryEvent, ExpiredUnit, Expired, Quarantined, Replayed
    <3>3. /\ AuditAfterExpiry(t)[u] = Append(audit[u], ExpiryEvent(u))
          /\ UnitsAfterExpiry(t)[u] = ExpiredUnit(u)
      BY <2>1 DEF AuditAfterExpiry, UnitsAfterExpiry
    <3> QED
      BY <2>0, <3>1, <3>2, <3>3, OneMoreEvent
  <2>2. CASE u \notin Due(t)
    BY <2>0, <2>2 DEF AuditAfterExpiry, UnitsAfterExpiry
  <2> QED
    BY <2>1, <2>2
<1> QED
  BY <1>1 DEF Logged

LEMMA NextIsLogged == IInv /\ AuditIInv /\ [Next]_vars => AuditIInv'
<1> SUFFICES ASSUME IInv, AuditIInv, [Next]_vars PROVE AuditIInv'
  OBVIOUS
<1>1. Ticks \subseteq Nat /\ Costs \subseteq Nat
  BY InputAssumption
<1>2. ASSUME NEW t \in Ticks, unit' = UnitsAfterExpiry(t), audit' = AuditAfterExpiry(t)
      PROVE  AuditIInv'
  <2>1. Logged(audit', unit')
    BY <1>1, <1>2, ExpiryIsLogged
  <2>2. audit' = [u \in Units |-> audit'[u]]
    BY <1>2 DEF AuditAfterExpiry
  <2> QED
    BY <2>1, <2>2 DEF AuditIInv, Logged
<1>3. ASSUME NEW t \in Ticks, NEW stop
      PROVE  UnitsAfterScan(t, stop) = UnitsAfterExpiry(t) /\ AuditAfterScan(t, stop) = AuditAfterExpiry(t)
  <2>1. Exhausted(t) = {} /\ UnitsAfterScan(t, stop) = UnitsAfterExpiry(t)
    BY <1>1, ScanIsIdle
  <2>2. AuditAfterExpiry(t) = [u \in Units |-> AuditAfterExpiry(t)[u]]
    BY DEF AuditAfterExpiry
  <2> QED
    BY <2>1, <2>2 DEF AuditAfterScan
<1>4. ASSUME NEW t \in Ticks,
             ClaimBlocked(t) \/ ClaimNothing(t) \/ Snapshot(t) \/ Certify(t)
             \/ \E l \in issued : CommitTooLate(l, t)
      PROVE  AuditIInv'
  BY <1>2, <1>3, <1>4 DEF ClaimBlocked, ClaimNothing, Snapshot, Certify, CommitTooLate, ExpireDue
<1>5. ASSUME NEW u \in Units, NEW w \in Workers, NEW t \in Ticks, ClaimGranted(u, w, t)
      PROVE  AuditIInv'
  <2> DEFINE l == NewLease(u, w, t)
             pool == UnitsAfterExpiry(t)
             log == AuditAfterExpiry(t)
  <2>1. Logged(log, pool)
    BY <1>1, ExpiryIsLogged
  <2>2. /\ unit' = [pool EXCEPT ![u] = LeasedUnit(pool[u], l)]
        /\ audit' = [log EXCEPT ![u] = Append(log[u], Granted(l))]
    BY <1>3, <1>5 DEF ClaimGranted
  <2>3. unit[u].attempts \in Nat /\ LeaseTTL \in Nat /\ t \in Nat
    BY <1>1, SpecAssumption DEF IInv, TypeOK, MutableUnit, SpecAccepted
  <2>4. Granted(l) \in Event
    BY <2>3 DEF Granted, Event, NewLease, Lease
  <2>5. LeasedUnit(pool[u], l) = Replayed(pool[u], Granted(l))
    BY DEF Replayed, Granted
  <2>6. pool = [v \in Units |-> pool[v]] /\ log = [v \in Units |-> log[v]]
    BY DEF UnitsAfterExpiry, AuditAfterExpiry
  <2> HIDE DEF pool, log, l
  <2>7. /\ unit'[u] = Replayed(pool[u], Granted(l)) /\ audit'[u] = Append(log[u], Granted(l))
        /\ \A v \in Units : v # u => audit'[v] = log[v] /\ unit'[v] = pool[v]
        /\ audit' = [v \in Units |-> audit'[v]]
    BY <2>2, <2>5, <2>6
  <2>8. Logged(audit', unit')
    BY <2>1, <2>4, <2>7, OneEvent DEF AuditIInv
  <2> QED
    BY <2>7, <2>8 DEF AuditIInv, Logged
<1>6. ASSUME NEW l \in issued, NEW p \in Payloads, CommitConflicting(l, p) PROVE AuditIInv'
  <2> DEFINE e == Quarantined("CONFLICTING_DUPLICATE_RESULT")
  <2>1. l.unit \in Units /\ unit = [v \in Units |-> unit[v]]
        /\ audit = [v \in Units |-> audit[v]]
    BY DEF IInv, TypeOK, Lease, AuditIInv
  <2>2. e \in Event
    BY DEF Event, Quarantined, Reasons
  <2>3. QuarantinedUnit(unit[l.unit], "CONFLICTING_DUPLICATE_RESULT") = Replayed(unit[l.unit], e)
    BY DEF Replayed, Quarantined
  <2>4. /\ unit' = [unit EXCEPT ![l.unit] = QuarantinedUnit(unit[l.unit], "CONFLICTING_DUPLICATE_RESULT")]
        /\ audit' = [audit EXCEPT ![l.unit] = Append(audit[l.unit], e)]
    BY <1>6 DEF CommitConflicting
  <2> HIDE DEF e
  <2>5. /\ unit'[l.unit] = Replayed(unit[l.unit], e)
        /\ audit'[l.unit] = Append(audit[l.unit], e)
        /\ \A v \in Units : v # l.unit => audit'[v] = audit[v] /\ unit'[v] = unit[v]
        /\ audit' = [v \in Units |-> audit'[v]]
    BY <2>1, <2>3, <2>4
  <2>8. Logged(audit', unit')
    BY <2>1, <2>2, <2>5, OneEvent DEF AuditIInv
  <2> QED
    BY <2>5, <2>8 DEF AuditIInv, Logged
<1>7. ASSUME NEW l \in issued, NEW p \in Payloads, NEW c \in Costs, NEW t \in Ticks,
             CommitInTime(l, p, c, t)
      PROVE  AuditIInv'
  <2> DEFINE rec == [attempt |-> l.attempt, worker |-> l.worker, payload |-> p,
                     cost |-> c, tick |-> t]
  <2>1. l \in Lease /\ l.unit \in Units /\ unit = [v \in Units |-> unit[v]]
        /\ audit = [v \in Units |-> audit[v]]
    BY DEF IInv, TypeOK, Lease, AuditIInv
  <2>2. CASE WithinBudget(c)
    <3> DEFINE e == Committed(rec)
    <3>1. e \in Event
      BY <1>1, <2>1 DEF Event, Committed, ResultRecord, Lease
    <3>2. /\ unit' = [unit EXCEPT ![l.unit] = [unit[l.unit] EXCEPT !.state = "COMMITTED",
                                                 !.lease = NoLease, !.result = rec]]
          /\ audit' = [audit EXCEPT ![l.unit] = Append(audit[l.unit], e)]
      BY <1>7, <2>2 DEF CommitInTime, CommitRecord
    <3>3. [unit[l.unit] EXCEPT !.state = "COMMITTED", !.lease = NoLease, !.result = rec]
            = Replayed(unit[l.unit], e)
      BY DEF Replayed, Committed
    <3> HIDE DEF rec, e
    <3>4. /\ unit'[l.unit] = Replayed(unit[l.unit], e)
          /\ audit'[l.unit] = Append(audit[l.unit], e)
          /\ \A v \in Units : v # l.unit => audit'[v] = audit[v] /\ unit'[v] = unit[v]
          /\ audit' = [v \in Units |-> audit'[v]]
      BY <2>1, <3>2, <3>3
    <3>8. Logged(audit', unit')
      BY <2>1, <3>1, <3>4, OneEvent DEF AuditIInv
    <3> QED
      BY <3>4, <3>8 DEF AuditIInv, Logged
  <2>3. CASE ~WithinBudget(c)
    <3> DEFINE e == Quarantined("GLOBAL_BUDGET_BREACH")
    <3>1. e \in Event
      BY DEF Event, Quarantined, Reasons
    <3>2. /\ unit' = [unit EXCEPT ![l.unit] = QuarantinedUnit(unit[l.unit], "GLOBAL_BUDGET_BREACH")]
          /\ audit' = [audit EXCEPT ![l.unit] = Append(audit[l.unit], e)]
      BY <1>7, <2>3 DEF CommitInTime, CommitBreach
    <3>3. QuarantinedUnit(unit[l.unit], "GLOBAL_BUDGET_BREACH") = Replayed(unit[l.unit], e)
      BY DEF Replayed, Quarantined
    <3> HIDE DEF e
    <3>4. /\ unit'[l.unit] = Replayed(unit[l.unit], e)
          /\ audit'[l.unit] = Append(audit[l.unit], e)
          /\ \A v \in Units : v # l.unit => audit'[v] = audit[v] /\ unit'[v] = unit[v]
          /\ audit' = [v \in Units |-> audit'[v]]
      BY <2>1, <3>2, <3>3
    <3>8. Logged(audit', unit')
      BY <2>1, <3>1, <3>4, OneEvent DEF AuditIInv
    <3> QED
      BY <3>4, <3>8 DEF AuditIInv, Logged
  <2> QED
    BY <2>2, <2>3
<1>8. CASE UNCHANGED vars
  BY <1>8 DEF vars, AuditIInv, Logged
<1> QED
  BY <1>4, <1>5, <1>6, <1>7, <1>8 DEF Next

\* Replaying the events of a unit rebuilds its whole state, however long its log.
THEOREM AuditRebuildsState == Spec => []AuditDeterminesState
<1>1. Init => AuditIInv
  BY EmptyLog DEF Init, AuditIInv, Logged
<1>2. IInv /\ AuditIInv /\ [Next]_vars => AuditIInv'
  BY NextIsLogged
<1>3. AuditIInv => AuditDeterminesState
  BY ReplayEnds DEF AuditIInv, Logged, AuditDeterminesState
<1> QED
  BY <1>1, <1>2, <1>3, InductiveInvariant, PTL DEF Spec

-----------------------------------------------------------------------------
(* The refinement of the frozen panel.                                      *)

\* The decisions, the spoiled units and the certificate bit, as the panel sees them.
Decisions == [u \in Units |-> DecisionOf(u)]
Spoilt    == InState("QUARANTINED")
IsCertified == certificate # NoCertificate

\* A step that records no result and certifies nothing spoils some units, or none.
LEMMA SpoilingStep ==
  ASSUME IInv, spent' = spent, certificate' = certificate,
         \A u \in Units : unit'[u].result = unit[u].result,
         Spoilt \subseteq Spoilt'
  PROVE  Panel!Next
<1>1. Decisions' = Decisions
  BY DEF Decisions, DecisionOf
<1>2. Spoilt' \in SUBSET Units /\ Spoilt' = Spoilt \cup Spoilt'
  BY DEF Spoilt, InState
<1>3. Panel!Spoil(Spoilt')
  BY <1>1, <1>2 DEF Panel!Spoil, Decisions, Spoilt
<1>4. QED
  BY <1>2, <1>3 DEF Panel!Next

LEMMA ExpirySpoils ==
  ASSUME IInv, NEW t \in Nat, unit' = UnitsAfterExpiry(t),
         spent' = spent, certificate' = certificate
  PROVE  Panel!Next
<1>1. \A u \in Units : unit[u].state = "QUARANTINED" => unit'[u] = unit[u]
  BY ExpiryUndoesNothing
<1>2. Spoilt \subseteq Spoilt'
  BY <1>1 DEF Spoilt, InState
<1>3. QED
  BY <1>2, ExpiryUndoesNothing, SpoilingStep

\* A commit in time decides its unit, once and within the budget.
LEMMA CommitDecides ==
  ASSUME IInv, NEW l \in issued, NEW p \in Payloads, NEW c \in Costs, NEW t \in Nat,
         CommitInTime(l, p, c, t)
  PROVE  Panel!Next
<1> DEFINE u   == l.unit
           rec == [attempt |-> l.attempt, worker |-> l.worker,
                   payload |-> p, cost |-> c, tick |-> t]
<1>1. /\ u \in Units /\ unit[u] \in MutableUnit /\ unit[u].state = "LEASED"
      /\ unit[u].result = NoResult /\ c \in Nat /\ c <= UnitCap
      /\ l \in Lease
  BY InputAssumption
     DEF IInv, TypeOK, Lease, CommitInTime, HoldsActiveLease, UnitConsistent
<1>2. WithinBudget(c)
  BY <1>1, CommitIsWithinBudget DEF InState
<1>3. CommitRecord(u, rec) /\ certificate' = certificate
  BY <1>2 DEF CommitInTime
<1>4. rec # NoResult /\ rec.payload = p /\ rec.cost = c
  <2>1. rec \in ResultRecord
    BY <1>1 DEF ResultRecord, Lease
  <2>2. QED
    BY <2>1, NullAssumption
<1> HIDE DEF u, rec
<1>5. /\ unit'[u].state = "COMMITTED" /\ unit'[u].result = rec
      /\ \A v \in Units : v # u => unit'[v] = unit[v]
      /\ spent' = spent + c
  BY <1>1, <1>3, <1>4 DEF CommitRecord, IInv, TypeOK, MutableUnit
<1>6. Decisions' = [Decisions EXCEPT ![u] = p]
  <2>1. DecisionOf(u)' = p
    BY <1>4, <1>5 DEF DecisionOf
  <2>2. \A v \in Units : v # u => DecisionOf(v)' = DecisionOf(v)
    BY <1>5 DEF DecisionOf
  <2>3. QED
    BY <1>1, <2>1, <2>2 DEF Decisions
<1>7. Spoilt' = Spoilt /\ u \notin Spoilt
  BY <1>1, <1>5 DEF Spoilt, InState
<1>8. Decisions[u] = NoResult
  BY <1>1 DEF Decisions, DecisionOf
<1>9. Panel!Decide(u, p, c)
  BY <1>2, <1>3, <1>5, <1>6, <1>7, <1>8
     DEF Panel!Decide, Decisions, Spoilt, WithinBudget
<1>10. QED
  BY <1>1, <1>9 DEF Panel!Next

LEMMA CertifyCertifies ==
  ASSUME IInv, NEW t \in Nat, Certify(t)
  PROVE  Panel!Next
<1>1. unit' = UnitsAfterExpiry(t) /\ spent' = spent
  BY DEF Certify, ExpireDue
<1>2. CASE ~Complete
  BY <1>1, <1>2, ExpirySpoils DEF Certify
<1>3. CASE Complete
  <2>1. unit' = unit /\ Spoilt = {}
    BY <1>1, <1>3, CompletePoolIsIdle DEF Spoilt
  <2>2. Decisions' = Decisions /\ Spoilt' = Spoilt
    BY <2>1 DEF Decisions, DecisionOf, Spoilt, InState
  <2>3. \A u \in Units : Decisions[u] # NoResult
    <3>1. \A u \in Units : unit[u].result \in ResultRecord
      BY <1>3 DEF Complete, IInv, TypeOK, MutableUnit, UnitConsistent
    <3>2. \A u \in Units : unit[u].result # NoResult /\ unit[u].result.payload \in Payloads
      BY <3>1, NullAssumption DEF ResultRecord
    <3>3. NoResult \notin Payloads
      BY NullAssumption
    <3>4. QED
      BY <3>2, <3>3 DEF Decisions, DecisionOf
  <2>4. IsCertified'
    <3>1. certificate' = [population |-> [u \in Units |-> unit[u].result], total |-> spent]
      BY <1>3 DEF Certify
    <3>2. \A u \in Units : unit[u].result \in ResultRecord
      BY <1>3 DEF Complete, IInv, TypeOK, MutableUnit, UnitConsistent
    <3>3. certificate' \in Certificate
      BY <3>1, <3>2, Numbers DEF Certificate
    <3>4. QED
      BY <3>3, NullAssumption DEF IsCertified
  <2>5. Panel!Certify
    BY <1>1, <2>1, <2>2, <2>3, <2>4 DEF Panel!Certify, Decisions, Spoilt, IsCertified
  <2>6. QED
    BY <2>5 DEF Panel!Next
<1>4. QED
  BY <1>2, <1>3

LEMMA StepsArePanelSteps == IInv /\ [Next]_vars => [Panel!Next]_(Panel!panelVars)
<1> SUFFICES ASSUME IInv, [Next]_vars PROVE Panel!Next \/ UNCHANGED Panel!panelVars
  OBVIOUS
<1>1. Ticks \subseteq Nat
  BY InputAssumption
<1>2. ASSUME NEW t \in Ticks, ClaimBlocked(t) PROVE Panel!Next
  BY <1>1, <1>2, ExpirySpoils DEF ClaimBlocked, ExpireDue
<1>3. ASSUME NEW t \in Ticks, ClaimNothing(t) PROVE Panel!Next
  BY <1>1, <1>3, ScanIsIdle, ExpirySpoils DEF ClaimNothing
<1>4. ASSUME NEW u \in Units, NEW w \in Workers, NEW t \in Ticks, ClaimGranted(u, w, t)
      PROVE  Panel!Next
  <2> DEFINE pool == UnitsAfterExpiry(t)
  <2>1. /\ \A v \in Units : pool[v].result = unit[v].result
        /\ \A v \in Units : unit[v].state # "LEASED" => pool[v] = unit[v]
        /\ pool \in [Units -> MutableUnit]
    BY <1>1, ExpiryOnPool DEF PoolConsistent, Due
  <2>2. /\ unit' = [pool EXCEPT ![u] = LeasedUnit(pool[u], NewLease(u, w, t))]
        /\ UNCHANGED <<spent, certificate>>
    BY <1>1, <1>4, ScanIsIdle DEF ClaimGranted
  <2>3. pool[u].state = "PENDING" /\ pool[u] \in MutableUnit
    BY <1>4, <2>1 DEF ClaimGranted, FirstClaimable, PendingAfterExpiry
  <2>4. unit'[u].result = pool[u].result /\ \A v \in Units : v # u => unit'[v] = pool[v]
    BY <2>1, <2>2, <2>3 DEF LeasedUnit, NewLease, MutableUnit
  <2> HIDE DEF pool
  <2>5. \A v \in Units : unit[v].state = "QUARANTINED" => unit'[v] = unit[v]
    BY <2>1, <2>3, <2>4
  <2>6. \A v \in Units : unit'[v].result = unit[v].result
    BY <2>1, <2>4
  <2>7. Spoilt \subseteq Spoilt'
    BY <2>5 DEF Spoilt, InState
  <2>8. QED
    BY <2>2, <2>6, <2>7, SpoilingStep
<1>5. ASSUME NEW l \in issued, NEW p \in Payloads, CommitConflicting(l, p) PROVE Panel!Next
  <2>1. l.unit \in Units /\ unit[l.unit] \in MutableUnit /\ unit[l.unit].state = "COMMITTED"
    BY <1>5 DEF IInv, TypeOK, Lease, CommitConflicting
  <2>2. /\ unit'[l.unit] = QuarantinedUnit(unit[l.unit], "CONFLICTING_DUPLICATE_RESULT")
        /\ \A v \in Units : v # l.unit => unit'[v] = unit[v]
        /\ UNCHANGED <<spent, certificate>>
    BY <1>5, <2>1 DEF IInv, TypeOK, CommitConflicting
  <2>3. unit'[l.unit].result = unit[l.unit].result
    BY <2>1, <2>2 DEF QuarantinedUnit, MutableUnit
  <2>4. Spoilt \subseteq Spoilt' /\ \A v \in Units : unit'[v].result = unit[v].result
    BY <2>1, <2>2, <2>3 DEF Spoilt, InState
  <2>5. QED
    BY <2>2, <2>4, SpoilingStep
<1>6. ASSUME NEW l \in issued, NEW t \in Ticks, CommitTooLate(l, t) PROVE Panel!Next
  BY <1>1, <1>6, ExpirySpoils DEF CommitTooLate, ExpireDue
<1>7. ASSUME NEW l \in issued, NEW p \in Payloads, NEW c \in Costs, NEW t \in Ticks,
             CommitInTime(l, p, c, t)
      PROVE  Panel!Next
  BY <1>1, <1>7, CommitDecides
<1>8. ASSUME NEW t \in Ticks, Snapshot(t) PROVE Panel!Next
  BY <1>1, <1>8, ExpirySpoils DEF Snapshot, ExpireDue
<1>9. ASSUME NEW t \in Ticks, Certify(t) PROVE Panel!Next
  BY <1>1, <1>9, CertifyCertifies
<1>10. CASE UNCHANGED vars
  BY <1>10 DEF vars, Panel!panelVars, DecisionOf, InState
<1>11. QED
  BY <1>2, <1>3, <1>4, <1>5, <1>6, <1>7, <1>8, <1>9, <1>10 DEF Next

LEMMA InitIsPanelInit == Init => Panel!Init
<1> SUFFICES ASSUME Init PROVE Panel!Init
  OBVIOUS
<1>1. \A u \in Units : unit[u] = FreshUnit
  BY DEF Init
<1>2. \A u \in Units : DecisionOf(u) = NoResult
  BY <1>1 DEF DecisionOf, FreshUnit
<1>3. InState("QUARANTINED") = {}
  BY <1>1 DEF InState, FreshUnit
<1>4. QED
  BY <1>2, <1>3 DEF Init, Panel!Init

\* Leases, retries, expiries and stale workers are invisible to the experiment:
\* the coordinator behaves like a panel that decides each unit at most once.
THEOREM CoordinatorImplementsPanel == Spec => ImplementsFrozenPanel
<1>1. Init => Panel!Init
  BY InitIsPanelInit
<1>2. IInv /\ [Next]_vars => [Panel!Next]_(Panel!panelVars)
  BY StepsArePanelSteps
<1>3. QED
  BY <1>1, <1>2, InductiveInvariant, PTL DEF Spec, ImplementsFrozenPanel, Panel!Spec
=============================================================================
