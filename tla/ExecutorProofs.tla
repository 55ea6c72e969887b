---------------------------- MODULE ExecutorProofs ----------------------------
(***************************************************************************)
(* Proofs about FrozenPanelExecutor, on top of the coordinator's: the       *)
(* executor calls its coordinator in an order and at ticks that leave it in *)
(* step, and what it publishes is the population it was certified for.      *)
(* ExecIInv is the inductive invariant; there is one lemma per action.      *)
(***************************************************************************)
EXTENDS FrozenPanelExecutor, EvalCoordinatorProofs

\* A step that leaves the coordinator alone.
LEMMA CoordinatorRests == ASSUME IInv, UNCHANGED vars PROVE IInv'
  BY NextPreservesIInv

\* Expiry as the executor sees it: it loses leases, and nothing that is committed.
LEMMA ExpiryIsLoss ==
  ASSUME ExecIInv, NEW t \in Nat
  PROVE  LET pool == UnitsAfterExpiry(t) IN
         \A u \in Units :
           /\ pool[u].state = "COMMITTED" <=> unit[u].state = "COMMITTED"
           /\ pool[u].state = "COMMITTED" => pool[u] = unit[u]
           /\ pool[u].state = "LEASED" => u \in InState("LEASED") \ Due(t)
           /\ pool[u].state = "QUARANTINED" => pool[u].reason = "LEASE_EXPIRED_MAX_ATTEMPTS"
<1>1. IInv /\ TypeOK /\ \A u \in Units : UnitConsistent(unit[u], u)
  BY DEF ExecIInv, IInv
<1>2. \A u \in Units : UnitsAfterExpiry(t)[u] = IF u \in Due(t) THEN ExpiredUnit(u) ELSE unit[u]
  BY DEF UnitsAfterExpiry
<1>3. \A u \in Due(t) : unit[u].state = "LEASED" /\ u \in Units
  BY DEF Due
<1>4. \A u \in Due(t) : ExpiredUnit(u).state \in {"PENDING", "QUARANTINED"}
  BY <1>1, <1>3, ExpiredUnitConsistent
<1>5. ASSUME NEW u \in Due(t), ExpiredUnit(u).state = "QUARANTINED"
      PROVE  ExpiredUnit(u).reason = "LEASE_EXPIRED_MAX_ATTEMPTS"
  <2>1. unit[u] \in MutableUnit
    BY <1>1, <1>3 DEF TypeOK
  <2> QED
    BY <1>5, <2>1 DEF ExpiredUnit, QuarantinedUnit, MutableUnit
<1> QED
  BY <1>2, <1>3, <1>4, <1>5 DEF ExecIInv, OnlyLossesQuarantine, InState

\* With no lease out, expiry finds nothing to do.
LEMMA NothingToExpire ==
  ASSUME IInv, InState("LEASED") = {}, NEW t
  PROVE  UnitsAfterExpiry(t) = unit
<1>1. Due(t) = {}
  BY DEF Due, InState
<1>2. UnitsAfterExpiry(t) = [u \in Units |-> unit[u]]
  BY <1>1 DEF UnitsAfterExpiry
<1> QED
  BY <1>2 DEF IInv, TypeOK

\* A step of a run that goes on: what is left to show of it.
LEMMA RunGoesOn ==
  ASSUME ExecIInv, phase \in Live, phase' \in Live, UNCHANGED <<staging, raised, worldVars>>,
         IInv', tick' \in Nat, held' \in Lease \cup {NoLease},
         records' \in [Units -> ResultRecord \cup {NoResult}],
         LeaseInStep', RunInOrder', OnlyLossesQuarantine'
  PROVE  ExecIInv'
<1>1. final' # "us"
  BY DEF RunInOrder, ExecIInv, worldVars, bundleVars
<1>2. BundleIsPopulation' /\ (LeaseTTL >= 2 => FailureHasCause')
  BY <1>1 DEF BundleIsPopulation, FailureHasCause, Live
<1>3. ExecTypeOK'
  BY DEF ExecIInv, ExecTypeOK, IInv, Phases, worldVars, bundleVars
<1>4. StagingFollowsProcess'
  BY DEF ExecIInv, StagingFollowsProcess, worldVars, bundleVars
<1> QED
  BY <1>1, <1>2, <1>3, <1>4 DEF ExecIInv

\* A step that ends a run with an exception: its staging directory may be left.
LEMMA RunFails ==
  ASSUME ExecIInv, phase \in Live, Abort, raised' \in BOOLEAN, UNCHANGED bundleVars,
         IInv', OnlyLossesQuarantine', LeaseTTL >= 2 => FailureHasCause'
  PROVE  ExecIInv'
<1>1. phase' = "failed" /\ phase' \notin Live /\ final' # "us"
  BY DEF Abort, RunInOrder, ExecIInv, bundleVars, Live
<1>2. ExecTypeOK'
  <2>1. TypeOK' /\ phase' \in Phases /\ orphans' \in Nat
    BY DEF ExecIInv, ExecTypeOK, IInv, Phases, Abort
  <2> QED
    BY <2>1 DEF ExecIInv, ExecTypeOK, bundleVars, Abort
<1>3. LeaseInStep' /\ RunInOrder' /\ BundleIsPopulation'
  BY <1>1 DEF LeaseInStep, RunInOrder, BundleIsPopulation, Live
<1>4. StagingFollowsProcess'
  <2>1. orphans \in Nat /\ runs \in Nat /\ orphans < runs
    BY DEF ExecIInv, ExecTypeOK, StagingFollowsProcess
  <2>2. orphans' <= runs' /\ staging' = FALSE /\ orphans' \in Nat /\ runs' \in Nat
    BY <2>1 DEF Abort, bundleVars
  <2> QED
    BY <1>1, <2>2 DEF StagingFollowsProcess, Live
<1> QED
  BY <1>1, <1>2, <1>3, <1>4 DEF ExecIInv

-----------------------------------------------------------------------------
(* The actions.                                                             *)

LEMMA ExecInitIsGood == ExecInit => ExecIInv
<1> SUFFICES ASSUME ExecInit PROVE ExecIInv
  OBVIOUS
<1>1. IInv
  BY InitEstablishesIInv DEF ExecInit
<1>2. phase = "stopped" /\ final = "nobody" /\ phase \notin Live
  BY DEF ExecInit, Live
<1>3. NoRecords \in [Units -> ResultRecord \cup {NoResult}]
  BY DEF NoRecords
<1>4. ExecTypeOK
  <2>1. TypeOK /\ 0 \in 0..MaxRuns
    BY <1>1, ExecutorAssumption DEF IInv
  <2> QED
    BY <1>3, <2>1 DEF ExecInit, ExecTypeOK, Phases
<1>5. OnlyLossesQuarantine
  BY DEF ExecInit, Init, FreshUnit, OnlyLossesQuarantine
<1> QED
  BY <1>1, <1>2, <1>4, <1>5
  DEF ExecIInv, ExecInit, LeaseInStep, RunInOrder, StagingFollowsProcess, BundleIsPopulation,
      FailureHasCause

\* A new run begins with the coordinator's initial state.
LEMMA StartKeeps == ASSUME ExecIInv, StartRun PROVE ExecIInv'
<1>1. Init'
  BY DEF StartRun, Init
<1>2. IInv'
  BY <1>1, InitEstablishesIInv, PTL
<1>3. /\ phase' = "claim" /\ phase' \in Live /\ phase \notin Live
      /\ final' = "nobody" /\ runs' = runs + 1 /\ orphans' = orphans
  BY DEF StartRun, Live
<1>4. \A u \in Units : unit'[u].state = "PENDING"
  BY DEF StartRun, FreshUnit
<1>5. ExecTypeOK'
  <2>1. runs' \in 0..MaxRuns
    BY <1>3, ExecutorAssumption DEF StartRun, ExecIInv, ExecTypeOK
  <2>2. NoRecords \in [Units -> ResultRecord \cup {NoResult}]
    BY DEF NoRecords
  <2> QED
    BY <1>2, <2>1, <2>2 DEF StartRun, ExecIInv, ExecTypeOK, IInv, Phases, Live
<1>6. orphans \in Nat /\ runs \in Nat /\ orphans <= runs /\ staging' = TRUE
  BY DEF ExecIInv, ExecTypeOK, StagingFollowsProcess, StartRun, Live
<1>7. LeaseInStep'
  BY <1>3, <1>4 DEF LeaseInStep, InState
<1>8. RunInOrder' /\ OnlyLossesQuarantine'
  BY <1>3, <1>4, <1>6 DEF RunInOrder, OnlyLossesQuarantine
<1>9. StagingFollowsProcess'
  BY <1>3, <1>6 DEF StagingFollowsProcess
<1> QED
  BY <1>2, <1>3, <1>5, <1>7, <1>8, <1>9 DEF ExecIInv, BundleIsPopulation, FailureHasCause

\* The claim of a unit: the unit is the only one leased, and it was not committed.
LEMMA ClaimKeeps == ASSUME ExecIInv, NEW u \in Units, ClaimUnit(u) PROVE ExecIInv'
<1> DEFINE l == NewLease(u, Worker, tick)
           pool == UnitsAfterExpiry(tick)
<1>1. tick \in Nat /\ IInv /\ Worker \in Workers
  BY ExecutorAssumption DEF ExecIInv, ExecTypeOK
<1>2. phase = "claim" /\ phase' = "invoke" /\ held' = l /\ tick' = tick + 1
      /\ ClaimGranted(u, Worker, tick) /\ UNCHANGED <<records, staging, raised, worldVars>>
  BY DEF ClaimUnit
<1>3. IInv'
  BY <1>1, <1>2, GrantPreservesIInv
<1>4. unit' = [pool EXCEPT ![u] = LeasedUnit(pool[u], l)] /\ u \in PendingAfterExpiry(tick)
  BY <1>1, <1>2, ScanIsIdle DEF ClaimGranted, FirstClaimable
<1>5. l \in Lease /\ l.unit = u /\ l.expires = tick + LeaseTTL
  BY <1>1, SpecAssumption DEF NewLease, Lease, ExecIInv, IInv, UnitConsistent, SpecAccepted
<1> HIDE DEF l
<1>6. pool \in [Units -> MutableUnit] /\ pool[u].state = "PENDING"
  BY <1>1, <1>4, ExpiryOnPool DEF PoolConsistent, PendingAfterExpiry
<1>7. unit'[u].state = "LEASED" /\ unit'[u].lease = l
  BY <1>4, <1>6 DEF LeasedUnit, MutableUnit
<1>8. \A v \in Units : v # u => unit'[v] = pool[v]
  BY <1>4, <1>6
<1>9. /\ \A v \in Units : pool[v].state = "COMMITTED" <=> unit[v].state = "COMMITTED"
      /\ \A v \in Units : pool[v].state = "COMMITTED" => pool[v] = unit[v]
      /\ \A v \in Units : pool[v].state = "LEASED" => unit[v].state = "LEASED"
      /\ \A v \in Units : pool[v].state = "QUARANTINED" =>
                            pool[v].reason = "LEASE_EXPIRED_MAX_ATTEMPTS"
  BY <1>1, ExpiryIsLoss DEF InState
<1>10. OnlyLossesQuarantine'
  BY <1>7, <1>8, <1>9 DEF OnlyLossesQuarantine
<1>11. LeaseInStep'
  <2> SUFFICES ASSUME LeaseTTL >= 2
               PROVE  /\ HoldsActiveLease(held)' /\ tick' < held'.expires
                      /\ InState("LEASED")' = {u}
    BY <1>2, <1>5 DEF LeaseInStep
  <2>1. InState("LEASED") = {}
    BY <1>2 DEF ExecIInv, LeaseInStep, Live
  <2>2. InState("LEASED")' = {u}
    BY <2>1, <1>7, <1>8, <1>9 DEF InState
  <2> QED
    BY <2>2, <1>1, <1>2, <1>5, <1>7, SpecAssumption DEF HoldsActiveLease, SpecAccepted
<1>12. RunInOrder'
  BY <1>2, <1>5, <1>7, <1>8, <1>9 DEF RunInOrder, ExecIInv, worldVars, bundleVars, Live
<1> QED
  BY <1>1, <1>2, <1>3, <1>5, <1>10, <1>11, <1>12, RunGoesOn DEF Live, ExecIInv, ExecTypeOK

\* No unit is pending and none is leased: the run is complete or a unit is lost.
LEMMA NoClaimLeft ==
  ASSUME ExecIInv, phase = "claim", LeaseTTL >= 2, ClaimBlocked(tick) \/ ClaimNothing(tick)
  PROVE  Complete' \/ \E u \in Units : unit'[u].reason = "LEASE_EXPIRED_MAX_ATTEMPTS"
<1>1. tick \in Nat /\ IInv /\ InState("LEASED") = {}
  BY DEF ExecIInv, ExecTypeOK, LeaseInStep, Live
<1>2. UnitsAfterExpiry(tick) = unit
  BY <1>1, NothingToExpire
<1>3. unit' = unit
  BY <1>1, <1>2, ScanIsIdle DEF ClaimBlocked, ClaimNothing, ExpireDue
<1>4. InState("PENDING") = {}
  <2>1. CASE ClaimNothing(tick)
    BY <1>1, <1>2, <2>1, ScanIsIdle DEF ClaimNothing, PendingAfterExpiry, InState
  <2>2. CASE ClaimBlocked(tick)
    <3>1. ReservedAfterExpiry(tick) = reserved
      <4>1. Due(tick) = {} /\ Cardinality({}) = 0
        BY <1>1, FS_EmptySet DEF Due, InState
      <4>2. reserved \in Int /\ UnitCap \in Nat
        BY <1>1, SpecAssumption DEF IInv, TypeOK, SpecAccepted
      <4> QED
        BY <4>1, <4>2 DEF ReservedAfterExpiry
    <3>2. ~(GlobalBudget - spent - reserved >= UnitCap)
      BY <2>2, <3>1 DEF ClaimBlocked, Affordable
    <3>3. GlobalBudget - spent - reserved >= UnitCap * Cardinality(InState("PENDING"))
      BY <1>1, PoolIsFunded DEF PendingIsFunded
    <3>4. IsFiniteSet(InState("PENDING")) /\ Cardinality(InState("PENDING")) \in Nat
      BY UnitSets DEF InState
    <3>5. GlobalBudget \in Int /\ spent \in Int /\ reserved \in Int /\ UnitCap \in Nat
      BY <1>1, SpecAssumption DEF IInv, TypeOK, SpecAccepted
    <3>6. Cardinality(InState("PENDING")) = 0
      <4>1. SUFFICES ASSUME 1 <= Cardinality(InState("PENDING")) PROVE FALSE
        BY <3>4
      <4>2. UnitCap * 1 <= UnitCap * Cardinality(InState("PENDING"))
        BY <3>4, <4>1, CapArithmetic
      <4>3. UnitCap * 1 = UnitCap /\ UnitCap * Cardinality(InState("PENDING")) \in Int
        BY <3>4, <3>5
      <4> QED
        BY <3>2, <3>3, <3>5, <4>2, <4>3
    <3> QED
      BY <3>4, <3>6, FS_EmptySet
  <2> QED
    BY <2>1, <2>2
<1>5. \A u \in Units : unit[u].state \in {"COMMITTED", "QUARANTINED"}
  BY <1>1, <1>4 DEF IInv, TypeOK, MutableUnit, UnitState, InState
<1> QED
  BY <1>3, <1>5 DEF Complete, ExecIInv, OnlyLossesQuarantine

\* The loop ends.
LEMMA ClaimNoneKeeps == ASSUME ExecIInv, ClaimNone PROVE ExecIInv'
<1>1. tick \in Nat /\ IInv /\ phase = "claim" /\ phase \in Live
  BY DEF ExecIInv, ExecTypeOK, ClaimNone, Live
<1>2. unit' = UnitsAfterExpiry(tick)
  BY <1>1, ScanIsIdle DEF ClaimNone, ClaimBlocked, ClaimNothing, ExpireDue
<1>3. /\ reserved' = ReservedAfterExpiry(tick) /\ budgetBlocks' \in 0..MaxBlocks
      /\ UNCHANGED <<spent, issued, certificate>>
  <2>1. budgetBlocks \in 0..MaxBlocks /\ MaxBlocks \in Nat
    BY <1>1, InputAssumption DEF IInv, TypeOK
  <2> QED
    BY <2>1 DEF ClaimNone, ClaimBlocked, ClaimNothing, ExpireDue
<1>4. IInv'
  BY <1>1, <1>2, <1>3, ExpiryPreservesIInv
<1>5. /\ OnlyLossesQuarantine'
      /\ \A u \in Units : /\ unit'[u].state = "LEASED" => u \in InState("LEASED")
                          /\ unit'[u].state = "COMMITTED" => unit'[u] = unit[u]
  BY <1>1, <1>2, ExpiryIsLoss DEF OnlyLossesQuarantine
<1>6. CASE Complete'
  <2>1. phase' = "certify" /\ UNCHANGED <<tick, held, records, staging, raised, worldVars>>
    BY <1>6 DEF ClaimNone, worldVars
  <2>2. LeaseInStep'
    BY <1>1, <1>5, <2>1 DEF ExecIInv, LeaseInStep, InState, Live
  <2>3. RunInOrder'
    BY <1>1, <1>5, <1>6, <2>1 DEF ExecIInv, RunInOrder, worldVars, bundleVars
  <2> QED
    BY <1>1, <1>4, <1>5, <2>1, <2>2, <2>3, RunGoesOn DEF Live, ExecIInv, ExecTypeOK
<1>7. CASE ~Complete'
  <2>1. Abort /\ UNCHANGED <<raised, bundleVars>>
    BY <1>7 DEF ClaimNone, AbortQuietly
  <2>2. LeaseTTL >= 2 => FailureHasCause'
    BY <1>1, <1>7, NoClaimLeft DEF ClaimNone, FailureHasCause
  <2> QED
    BY <1>1, <1>4, <1>5, <2>1, <2>2, RunFails DEF ExecIInv, ExecTypeOK
<1> QED
  BY <1>6, <1>7

\* A failed invocation: the tick is past the lease, so that the lease is given up.
LEMMA FailureKeeps == ASSUME ExecIInv, InvokeFails PROVE ExecIInv'
<1>1. tick \in Nat /\ IInv /\ phase = "invoke" /\ held \in Lease
  BY DEF ExecIInv, ExecTypeOK, InvokeFails, RunInOrder, Live
<1>2. held.expires \in Nat
  BY <1>1 DEF Lease
<1>3. tick' \in Nat /\ tick' >= held.expires
  BY <1>1, <1>2 DEF InvokeFails, TickAfterFailure
<1>4. /\ Snapshot(tick') /\ held' = NoLease /\ phase' = "claim"
      /\ UNCHANGED <<records, staging, raised, worldVars>>
  BY DEF InvokeFails
<1>5. unit' = UnitsAfterExpiry(tick') /\ reserved' = ReservedAfterExpiry(tick')
      /\ UNCHANGED <<spent, budgetBlocks, issued, certificate>>
  BY <1>4 DEF Snapshot, ExpireDue
<1>6. IInv'
  BY <1>1, <1>3, <1>5, ExpiryPreservesIInv DEF IInv, TypeOK
<1> DEFINE t == tick'
<1>7. t \in Nat /\ unit' = UnitsAfterExpiry(t) /\ t >= held.expires
  BY <1>3, <1>5
<1> HIDE DEF t
<1>8. /\ OnlyLossesQuarantine'
      /\ \A u \in Units : /\ unit'[u].state = "LEASED" => u \in InState("LEASED") \ Due(t)
                          /\ unit'[u].state = "COMMITTED" => unit'[u] = unit[u]
  BY <1>7, ExpiryIsLoss DEF OnlyLossesQuarantine
<1>9. LeaseInStep'
  <2> SUFFICES ASSUME LeaseTTL >= 2 PROVE InState("LEASED")' = {}
    BY <1>4 DEF LeaseInStep
  <2>1. InState("LEASED") = {held.unit} /\ unit[held.unit].lease = held
    BY <1>1 DEF ExecIInv, LeaseInStep, HoldsActiveLease
  <2>2. held.unit \in Due(t)
    BY <1>7, <2>1 DEF Due, InState
  <2> QED
    BY <1>8, <2>1, <2>2 DEF InState
<1>10. RunInOrder'
  BY <1>1, <1>4, <1>8 DEF ExecIInv, RunInOrder, worldVars, bundleVars, Live
<1> QED
  BY <1>1, <1>3, <1>4, <1>6, <1>8, <1>9, <1>10, RunGoesOn DEF Live, ExecIInv, ExecTypeOK

\* An answer that comes in time is committed, since it is within the cap.
LEMMA AnswerInTime ==
  ASSUME ExecIInv, NEW p \in Payloads, NEW c \in Costs, InvokeAnswers(p, c),
         HoldsActiveLease(held), tick < held.expires
  PROVE  ExecIInv'
<1>1. tick \in Nat /\ IInv /\ phase = "invoke" /\ held \in Lease /\ c \in Nat /\ c <= UnitCap
  BY InputAssumption DEF ExecIInv, ExecTypeOK, InvokeAnswers, RunInOrder, Live
<1>2. CommitInTime(held, p, c, tick) /\ phase' = "record"
      /\ UNCHANGED <<tick, held, records, staging, raised, worldVars>>
  BY DEF InvokeAnswers, worldVars
<1> DEFINE u   == held.unit
           rec == [attempt |-> held.attempt, worker |-> held.worker,
                   payload |-> p, cost |-> c, tick |-> tick]
<1>3. u \in InState("LEASED") /\ held \in issued
  BY <1>1 DEF Lease, HoldsActiveLease, InState, IInv, UnitConsistent
<1>4. IInv'
  BY <1>1, <1>2, <1>3, CommitPreservesIInv
<1>5. CommitRecord(u, rec)
  BY <1>1, <1>2, <1>3, CommitIsWithinBudget DEF CommitInTime
<1>6. unit[u] \in MutableUnit /\ unit \in [Units -> MutableUnit] /\ u \in Units
  BY <1>1, <1>3 DEF IInv, TypeOK, InState
<1>7. unit'[u].state = "COMMITTED" /\ \A v \in Units : v # u => unit'[v] = unit[v]
  BY <1>5, <1>6 DEF CommitRecord, MutableUnit
<1>8. OnlyLossesQuarantine'
  BY <1>7 DEF ExecIInv, OnlyLossesQuarantine
<1>9. LeaseInStep'
  BY <1>1, <1>2, <1>7 DEF ExecIInv, LeaseInStep, InState
<1>10. RunInOrder'
  BY <1>1, <1>2, <1>7 DEF ExecIInv, RunInOrder, worldVars, bundleVars, Live
<1> QED
  BY <1>1, <1>2, <1>4, <1>8, <1>9, <1>10, RunGoesOn DEF Live, ExecIInv, ExecTypeOK

\* An answer that the coordinator refuses ends the run: with leases of one tick.
LEMMA AnswerTooLate ==
  ASSUME ExecIInv, NEW p \in Payloads, NEW c \in Costs, InvokeAnswers(p, c),
         ~(HoldsActiveLease(held) /\ tick < held.expires)
  PROVE  ExecIInv'
<1>1. tick \in Nat /\ IInv /\ phase = "invoke" /\ phase \in Live /\ held \in Lease
  BY DEF ExecIInv, ExecTypeOK, InvokeAnswers, RunInOrder, Live
<1>2. ~(LeaseTTL >= 2)
  BY <1>1 DEF ExecIInv, LeaseInStep
<1>3. Abort /\ UNCHANGED <<raised, bundleVars>>
      /\ (IF HoldsActiveLease(held) THEN CommitTooLate(held, tick) ELSE UNCHANGED vars)
  BY DEF InvokeAnswers, AbortQuietly
<1>4. IInv' /\ OnlyLossesQuarantine'
  <2>1. CASE HoldsActiveLease(held)
    <3>1. unit' = UnitsAfterExpiry(tick) /\ reserved' = ReservedAfterExpiry(tick)
          /\ UNCHANGED <<spent, budgetBlocks, issued, certificate>>
      BY <1>3, <2>1 DEF CommitTooLate, ExpireDue
    <3>2. IInv'
      BY <1>1, <3>1, ExpiryPreservesIInv DEF IInv, TypeOK
    <3> QED
      BY <1>1, <3>1, <3>2, ExpiryIsLoss DEF OnlyLossesQuarantine
  <2>2. CASE ~HoldsActiveLease(held)
    BY <1>1, <1>3, <2>2, CoordinatorRests DEF vars, ExecIInv, OnlyLossesQuarantine
  <2> QED
    BY <2>1, <2>2
<1> QED
  BY <1>1, <1>2, <1>3, <1>4, RunFails DEF ExecIInv, ExecTypeOK

LEMMA RecordKeeps == ASSUME ExecIInv, WriteRecord PROVE ExecIInv'
<1>1. tick \in Nat /\ IInv /\ phase = "record" /\ held \in Lease
  BY DEF ExecIInv, ExecTypeOK, WriteRecord, RunInOrder, Live
<1>2. /\ records' = [records EXCEPT ![held.unit] = unit[held.unit].result]
      /\ tick' = tick + 1 /\ held' = NoLease /\ phase' = "claim"
      /\ UNCHANGED <<vars, staging, raised, worldVars>>
  BY DEF WriteRecord
<1>3. IInv'
  BY <1>1, <1>2, CoordinatorRests
<1>4. unit' = unit /\ unit \in [Units -> MutableUnit] /\ held.unit \in Units
  BY <1>1, <1>2 DEF vars, IInv, TypeOK, Lease
<1>5. records \in [Units -> ResultRecord \cup {NoResult}]
  BY DEF ExecIInv, ExecTypeOK
<1>6. records' \in [Units -> ResultRecord \cup {NoResult}]
  BY <1>2, <1>4, <1>5 DEF MutableUnit
<1>7. LeaseInStep' /\ OnlyLossesQuarantine'
  BY <1>1, <1>2, <1>4
  DEF ExecIInv, LeaseInStep, OnlyLossesQuarantine, InState, HoldsActiveLease, Live
<1>8. RunInOrder'
  BY <1>1, <1>2, <1>4, <1>5 DEF ExecIInv, RunInOrder, worldVars, bundleVars, Live
<1> QED
  BY <1>1, <1>2, <1>3, <1>6, <1>7, <1>8, RunGoesOn DEF Live

\* The certificate is of a complete population, for which nothing is to expire.
LEMMA CertifyKeeps == ASSUME ExecIInv, CertifyRun PROVE ExecIInv'
<1>1. tick \in Nat /\ IInv /\ phase = "certify" /\ Complete
  BY DEF ExecIInv, ExecTypeOK, CertifyRun, RunInOrder, Live
<1>2. Certify(tick) /\ phase' = "replace"
      /\ UNCHANGED <<tick, held, records, staging, raised, worldVars>>
  BY <1>1 DEF CertifyRun, worldVars
<1>3. IInv'
  BY <1>1, <1>2, CertifyPreservesIInv
<1>4. unit' = unit
  BY <1>1, <1>2, CompletePoolIsIdle DEF Certify, ExpireDue
<1>5. certificate' # NoCertificate
  <2>1. certificate' = [population |-> [u \in Units |-> unit[u].result], total |-> spent]
    BY <1>1, <1>2 DEF Certify
  <2>2. \A u \in Units : unit[u].result \in ResultRecord
    BY <1>1 DEF IInv, TypeOK, MutableUnit, Complete, UnitConsistent
  <2>3. certificate' \in Certificate
    BY <1>1, <2>1, <2>2 DEF Certificate, IInv, TypeOK
  <2> QED
    BY <2>3, NullAssumption
<1>6. LeaseInStep' /\ OnlyLossesQuarantine'
  BY <1>1, <1>2, <1>4
  DEF ExecIInv, LeaseInStep, OnlyLossesQuarantine, InState, Live
<1>7. RunInOrder'
  BY <1>1, <1>2, <1>4, <1>5 DEF ExecIInv, RunInOrder, worldVars, bundleVars, Live, Complete
<1> QED
  BY <1>1, <1>2, <1>3, <1>6, <1>7, RunGoesOn DEF Live, ExecIInv, ExecTypeOK

\* The bundle is moved to its name, or a bundle of another executor is in the way.
LEMMA ReplaceKeeps == ASSUME ExecIInv, Replace PROVE ExecIInv'
<1>1. IInv /\ phase = "replace" /\ phase \in Live /\ UNCHANGED <<vars, runs>>
  BY DEF Replace, ExecIInv, Live
<1>2. IInv'
  BY <1>1, CoordinatorRests
<1>3. OnlyLossesQuarantine'
  BY <1>1 DEF ExecIInv, OnlyLossesQuarantine, vars
<1>4. CASE final = "nobody"
  <2>1. final' = "us" /\ bundle' = records /\ phase' = "published" /\ staging' = FALSE
        /\ UNCHANGED <<tick, held, records, raised, orphans>>
    BY <1>4 DEF Replace
  <2>2. Complete /\ certificate # NoCertificate
        /\ \A u \in Units : records[u] = unit[u].result
    BY <1>1 DEF ExecIInv, RunInOrder, Complete
  <2>3. records = [u \in Units |-> unit[u].result]
    BY <2>2 DEF ExecIInv, ExecTypeOK
  <2>4. certificate.population = [u \in Units |-> unit[u].result]
    <3>1. certificate.population \in [Units -> ResultRecord]
          /\ \A u \in Units : unit[u].result = certificate.population[u]
      BY <1>1, <2>2 DEF IInv, TypeOK, CertificateStaysTrue, Certificate
    <3> QED
      BY <3>1
  <2>5. BundleIsPopulation'
    BY <1>1, <2>1, <2>2, <2>3, <2>4 DEF BundleIsPopulation, vars, Complete
  <2>6. ExecTypeOK'
    BY <1>1, <1>2, <2>1 DEF ExecIInv, ExecTypeOK, IInv, Phases
  <2>7. StagingFollowsProcess'
    BY <1>1, <2>1 DEF ExecIInv, StagingFollowsProcess, Live
  <2> QED
    BY <1>2, <1>3, <2>1, <2>5, <2>6, <2>7
    DEF ExecIInv, LeaseInStep, RunInOrder, FailureHasCause, Live
<1>5. CASE final # "nobody"
  <2>1. Abort /\ UNCHANGED <<raised, bundleVars>>
    BY <1>1, <1>5 DEF Replace, AbortQuietly, bundleVars
  <2>2. final' = "other"
    BY <1>1, <1>5, <2>1 DEF ExecIInv, ExecTypeOK, RunInOrder, bundleVars
  <2> QED
    BY <1>1, <1>2, <1>3, <2>1, <2>2, RunFails DEF FailureHasCause, ExecIInv, ExecTypeOK
<1> QED
  BY <1>4, <1>5

LEMMA RaiseKeeps == ASSUME ExecIInv, Raise PROVE ExecIInv'
<1>1. IInv /\ UNCHANGED <<vars, bundleVars>> /\ Abort /\ raised' = TRUE /\ phase \in Live
  BY DEF Raise, ExecIInv
<1>2. IInv'
  BY <1>1, CoordinatorRests
<1>3. OnlyLossesQuarantine'
  BY <1>1 DEF ExecIInv, OnlyLossesQuarantine, vars
<1> QED
  BY <1>1, <1>2, <1>3, RunFails DEF FailureHasCause

\* A kill leaves the staging directory, and nothing else, behind.
LEMMA KillKeeps == ASSUME ExecIInv, Kill PROVE ExecIInv'
<1>1. /\ IInv /\ phase \in Live /\ phase' = "stopped" /\ staging' = FALSE
      /\ orphans' = orphans + 1
      /\ UNCHANGED <<vars, tick, held, records, raised, final, bundle, runs>>
  BY DEF Kill, ExecIInv
<1>2. IInv'
  BY <1>1, CoordinatorRests
<1>3. final' # "us" /\ orphans < runs /\ orphans \in Nat /\ runs \in Nat
  BY <1>1 DEF ExecIInv, RunInOrder, StagingFollowsProcess, ExecTypeOK
<1>4. ExecTypeOK'
  <2>1. TypeOK' /\ orphans' \in Nat /\ phase' \in Phases
    BY <1>1, <1>2, <1>3 DEF IInv, Phases
  <2> QED
    BY <1>1, <2>1 DEF ExecIInv, ExecTypeOK
<1>5. OnlyLossesQuarantine'
  BY <1>1 DEF ExecIInv, OnlyLossesQuarantine, vars
<1>6. StagingFollowsProcess'
  BY <1>1, <1>3 DEF StagingFollowsProcess, Live
<1>7. LeaseInStep' /\ RunInOrder'
  BY <1>1 DEF LeaseInStep, RunInOrder, Live
<1>8. BundleIsPopulation' /\ FailureHasCause'
  BY <1>1, <1>3 DEF BundleIsPopulation, FailureHasCause
<1> QED
  BY <1>2, <1>3, <1>4, <1>5, <1>6, <1>7, <1>8 DEF ExecIInv

\* What another executor does, or nobody, is nothing to a run but a name taken.
LEMMA WorldKeeps ==
  ASSUME ExecIInv, OtherPublishes \/ UNCHANGED execVars PROVE ExecIInv'
<1>1. IInv /\ UNCHANGED <<vars, runVars, orphans, bundle, runs>>
      /\ (final' = final \/ (final = "nobody" /\ final' = "other"))
  BY DEF OtherPublishes, execVars, worldVars, bundleVars, ExecIInv
<1>2. IInv'
  BY <1>1, CoordinatorRests
<1>3. ExecTypeOK'
  BY <1>1, <1>2 DEF ExecIInv, ExecTypeOK, IInv, runVars
<1>4. LeaseInStep' /\ OnlyLossesQuarantine' /\ StagingFollowsProcess'
  BY <1>1 DEF ExecIInv, LeaseInStep, OnlyLossesQuarantine, StagingFollowsProcess,
              InState, HoldsActiveLease, vars, runVars
<1>5. RunInOrder' /\ BundleIsPopulation'
  BY <1>1 DEF ExecIInv, RunInOrder, BundleIsPopulation, Complete, vars, runVars
<1>6. (LeaseTTL >= 2 => FailureHasCause') /\ (final' = "us" => phase' = "published")
  BY <1>1 DEF ExecIInv, FailureHasCause, vars, runVars
<1> QED
  BY <1>2, <1>3, <1>4, <1>5, <1>6 DEF ExecIInv

-----------------------------------------------------------------------------
(* The theorems.                                                            *)

\* ExecIInv holds in every reachable state of the executor and its coordinator.
THEOREM ExecutorInvariant == ExecSpec => []ExecIInv
<1>1. ExecInit => ExecIInv
  BY ExecInitIsGood
<1>2. ExecIInv /\ [ExecNext]_execVars => ExecIInv'
  <2> SUFFICES ASSUME ExecIInv, [ExecNext]_execVars PROVE ExecIInv'
    OBVIOUS
  <2>1. ASSUME NEW p \in Payloads, NEW c \in Costs, InvokeAnswers(p, c) PROVE ExecIInv'
    BY <2>1, AnswerInTime, AnswerTooLate
  <2>2. CASE Loop
    BY <2>1, <2>2, ClaimKeeps, ClaimNoneKeeps, FailureKeeps, RecordKeeps, CertifyKeeps,
       ReplaceKeeps DEF Loop
  <2> QED
    BY <2>2, StartKeeps, RaiseKeeps, KillKeeps, WorldKeeps DEF ExecNext
<1> QED
  BY <1>1, <1>2, PTL DEF ExecSpec

\* The variables of the executor keep their types.
THEOREM ExecutorTypeCorrect == ExecSpec => []ExecTypeOK
<1>1. ExecIInv => ExecTypeOK
  BY DEF ExecIInv
<1> QED
  BY <1>1, ExecutorInvariant, PTL

\* The executor's ticks and its coordinator's leases go together, for any lease of
\* two ticks or more.
THEOREM TicksStayInStep == ExecSpec => []LeaseInStep
<1>1. ExecIInv => LeaseInStep
  BY DEF ExecIInv
<1> QED
  BY <1>1, ExecutorInvariant, PTL

\* A run fails for a unit that is lost, another bundle, or a foreign exception only:
\* a panel is never given up for a claim that comes at the wrong tick.
THEOREM FailuresHaveCauses == ASSUME LeaseTTL >= 2 PROVE ExecSpec => []FailureHasCause
<1>1. ExecIInv => FailureHasCause
  BY DEF ExecIInv
<1> QED
  BY <1>1, ExecutorInvariant, PTL

\* What is published is the certified population, record by record.
THEOREM PublishedIsCertified == ExecSpec => []BundleIsPopulation
<1>1. ExecIInv => BundleIsPopulation
  BY DEF ExecIInv
<1> QED
  BY <1>1, ExecutorInvariant, PTL

\* Each run leaves at most one staging directory behind, and one that publishes none.
THEOREM StagingIsCleaned == ExecSpec => []StagingFollowsProcess
<1>1. ExecIInv => StagingFollowsProcess
  BY DEF ExecIInv
<1> QED
  BY <1>1, ExecutorInvariant, PTL

\* Of two executors on one output root, one publishes, once.
THEOREM BundleStays == ExecSpec => BundleIsImmutable
<1> DEFINE Sealed == final # "nobody" => UNCHANGED <<final, bundle>>
<1>1. [ExecNext]_execVars => [Sealed]_execVars
  BY DEF ExecNext, Loop, ClaimUnit, ClaimNone, InvokeFails, InvokeAnswers, WriteRecord,
         CertifyRun, Replace, StartRun, Raise, Kill, OtherPublishes, worldVars, bundleVars
<1> QED
  BY <1>1, PTL DEF ExecSpec, BundleIsImmutable
-----------------------------------------------------------------------------
(* The executor as a client of its coordinator.                             *)

\* Every call the executor makes is one the coordinator allows, at a tick of its own;
\* a new process begins with a new coordinator; nothing else touches it.
LEMMA ExecutorCalls ==
  ASSUME Ticks = Nat, ExecIInv, ExecNext
  PROVE  Next \/ Init' \/ UNCHANGED vars
<1>1. tick \in Ticks /\ Worker \in Workers
  BY ExecutorAssumption DEF ExecIInv, ExecTypeOK
<1>2. ASSUME NEW u \in Units, ClaimUnit(u) PROVE Next
  BY <1>1, <1>2 DEF ClaimUnit, Next
<1>3. CASE ClaimNone
  BY <1>1, <1>3 DEF ClaimNone, Next
<1>4. CASE InvokeFails
  <2>1. phase = "invoke" /\ held \in Lease
    BY <1>4 DEF InvokeFails, ExecIInv, RunInOrder, Live
  <2>2. tick' \in Ticks /\ Snapshot(tick')
    BY <1>1, <1>4, <2>1 DEF InvokeFails, TickAfterFailure, Lease
  <2> QED
    BY <2>2 DEF Next
<1>5. ASSUME NEW p \in Payloads, NEW c \in Costs, InvokeAnswers(p, c)
      PROVE  Next \/ UNCHANGED vars
  <2>1. phase = "invoke" /\ held \in Lease
    BY <1>5 DEF InvokeAnswers, ExecIInv, RunInOrder, Live
  <2>2. CASE HoldsActiveLease(held)
    <3>1. held \in issued
      BY <2>1, <2>2 DEF HoldsActiveLease, Lease, ExecIInv, IInv, UnitConsistent
    <3> QED
      BY <1>1, <1>5, <2>2, <3>1 DEF InvokeAnswers, Next
  <2>3. CASE ~HoldsActiveLease(held)
    BY <1>5, <2>3 DEF InvokeAnswers
  <2> QED
    BY <2>2, <2>3
<1>6. CASE CertifyRun
  BY <1>1, <1>6 DEF CertifyRun, Next
<1>7. CASE WriteRecord \/ Replace \/ Raise \/ Kill \/ OtherPublishes
  BY <1>7 DEF WriteRecord, Replace, Raise, Kill, OtherPublishes, vars
<1>8. CASE StartRun
  BY <1>8 DEF StartRun, Init
<1> QED
  BY <1>2, <1>3, <1>4, <1>5, <1>6, <1>7, <1>8 DEF ExecNext, Loop

\* frozen_panel_executor drives distributed_eval_control: between two starts the
\* executor's history is a history of the coordinator, so that everything proved of
\* the coordinator's steps for arbitrary workers holds of this worker.
ClientSteps == [][Next \/ Init']_vars

THEOREM ExecutorRunsCoordinator ==
  ASSUME Ticks = Nat PROVE ExecSpec => Init /\ ClientSteps
<1>1. ExecInit => Init
  BY DEF ExecInit
<1>2. ExecIInv /\ [ExecNext]_execVars => [Next \/ Init']_vars
  BY ExecutorCalls DEF execVars
<1> QED
  BY <1>1, <1>2, ExecutorInvariant, PTL DEF ExecSpec, ClientSteps

\* The log of each of the executor's coordinators rebuilds its units at every moment
\* of every run, a run that fails or is killed included.
THEOREM ExecutorAuditRebuilds ==
  ASSUME Ticks = Nat PROVE ExecSpec => []AuditDeterminesState
<1>1. Init => AuditIInv
  BY EmptyLog DEF Init, AuditIInv, Logged
<1>2. Init' => AuditIInv'
  BY <1>1, PTL
<1>3. ExecInit => AuditIInv
  BY <1>1 DEF ExecInit
<1>4. ExecIInv /\ AuditIInv /\ [ExecNext]_execVars => AuditIInv'
  <2> SUFFICES ASSUME ExecIInv, AuditIInv, [ExecNext]_execVars PROVE AuditIInv'
    OBVIOUS
  <2>1. Next \/ Init' \/ UNCHANGED vars
    BY ExecutorCalls DEF execVars
  <2>2. IInv
    BY DEF ExecIInv
  <2> QED
    BY <1>2, <2>1, <2>2, NextIsLogged
<1>5. AuditIInv => AuditDeterminesState
  BY ReplayEnds DEF AuditIInv, Logged, AuditDeterminesState
<1> QED
  BY <1>3, <1>4, <1>5, ExecutorInvariant, PTL DEF ExecSpec

\* The bound on invocations holds of each run.
THEOREM RunInvocationsAreBounded == ExecSpec => []InvocationsBounded
<1>1. ExecIInv => InvocationsBounded
  BY LeasesAreCounted DEF ExecIInv
<1> QED
  BY <1>1, ExecutorInvariant, PTL

-----------------------------------------------------------------------------
(* How long a run can be.                                                   *)

\* The steps a run can still take, at most: three for each lease that can still be
\* granted (claim, answer, record), and three for the end of the run (the claim that
\* finds nothing, the certificate, the rename).
StepsInPhase ==
  [p \in Phases |-> CASE p = "invoke" -> 5 [] p = "record" -> 4 [] p = "claim" -> 3
                      [] p = "certify" -> 2 [] p = "replace" -> 1 [] OTHER -> 0]

LeasesLeft == NumUnits * MaxAttempts - Cardinality(issued)
StepsLeft  == StepsInPhase[phase] + 3 * LeasesLeft

\* A step of a running executor uses up one of its steps, unless it ends the run or is
\* the one step of the other executor.
UsesStep ==
  phase \in Live =>
    \/ StepsLeft' \in 0..(StepsLeft - 1)
    \/ phase' \notin Live
    \/ final' # final

\* The loop of execute_frozen_panel goes round a bounded number of times: no answer,
\* failure or timeout of the adapter, and no tick, takes the executor back to where it
\* was.
RunsRunOut == [][UsesStep]_execVars

LeasesLeftOK == LeasesLeft \in Nat

LEMMA LeasesLeftIsNat == (IInv => LeasesLeftOK) /\ (IInv' => LeasesLeftOK')
<1>1. IInv => LeasesLeftOK
  <2> SUFFICES ASSUME IInv PROVE LeasesLeft \in Nat
    BY DEF LeasesLeftOK
  <2>1. NumUnits * MaxAttempts \in Nat
    BY SpecAssumption DEF SpecAccepted
  <2>2. Cardinality(issued) \in Nat /\ Cardinality(issued) <= NumUnits * MaxAttempts
    BY LeasesAreCounted DEF InvocationsBounded
  <2> QED
    BY <2>1, <2>2 DEF LeasesLeft
<1>2. IInv' => LeasesLeftOK'
  BY <1>1, PTL
<1> QED
  BY <1>1, <1>2

\* A claim that is granted uses up a lease: its attempt number is new.
LEMMA ClaimUsesLease ==
  ASSUME ExecIInv, NEW u \in Units, ClaimUnit(u)
  PROVE  LeasesLeft' = LeasesLeft - 1
<1> DEFINE l == NewLease(u, Worker, tick)
<1>1. issued' = issued \cup {l}
  BY DEF ClaimUnit, ClaimGranted
<1>2. l.unit = u /\ l.attempt = unit[u].attempts + 1 /\ unit[u].attempts \in Nat
  BY DEF NewLease, ExecIInv, IInv, TypeOK, MutableUnit
<1>3. l \notin issued
  BY <1>2 DEF ExecIInv, IInv, LeasesNumbered
<1> HIDE DEF l
<1>4. IsFiniteSet(issued) /\ Cardinality(issued) \in Nat
  BY LeasesAreCounted DEF ExecIInv
<1>5. Cardinality(issued') = Cardinality(issued) + 1
  BY <1>1, <1>3, <1>4, FS_AddElement
<1>6. NumUnits * MaxAttempts \in Nat
  BY SpecAssumption DEF SpecAccepted
<1> QED
  BY <1>4, <1>5, <1>6 DEF LeasesLeft

\* Every step of the loop moves to a phase with fewer steps, or has used a lease.
LEMMA LoopUsesSteps ==
  ASSUME ExecIInv, ExecIInv', Loop
  PROVE  StepsLeft' \in 0..(StepsLeft - 1)
<1>1. LeasesLeft \in Nat /\ LeasesLeft' \in Nat
  BY LeasesLeftIsNat DEF ExecIInv, LeasesLeftOK
<1>2. StepsLeft = StepsInPhase[phase] + 3 * LeasesLeft
      /\ StepsLeft' = StepsInPhase[phase'] + 3 * LeasesLeft'
  BY DEF StepsLeft, StepsInPhase
<1>3. /\ StepsInPhase["invoke"] = 5 /\ StepsInPhase["record"] = 4 /\ StepsInPhase["claim"] = 3
      /\ StepsInPhase["certify"] = 2 /\ StepsInPhase["replace"] = 1
      /\ StepsInPhase["failed"] = 0 /\ StepsInPhase["published"] = 0
  BY DEF StepsInPhase, Phases, Live
<1>4. ASSUME NEW u \in Units, ClaimUnit(u) PROVE StepsLeft' \in 0..(StepsLeft - 1)
  <2>1. phase = "claim" /\ phase' = "invoke"
    BY <1>4 DEF ClaimUnit
  <2>2. LeasesLeft' = LeasesLeft - 1
    BY <1>4, ClaimUsesLease
  <2> QED
    BY <1>1, <1>2, <1>3, <2>1, <2>2
<1>5. ASSUME UNCHANGED issued,
             \/ phase = "claim" /\ phase' \in {"certify", "failed"}
             \/ phase = "invoke" /\ phase' \in {"claim", "record", "failed"}
             \/ phase = "record" /\ phase' = "claim"
             \/ phase = "certify" /\ phase' \in {"replace", "failed"}
             \/ phase = "replace" /\ phase' \in {"published", "failed"}
      PROVE  StepsLeft' \in 0..(StepsLeft - 1)
  <2>1. LeasesLeft' = LeasesLeft
    BY <1>5 DEF LeasesLeft
  <2> QED
    BY <1>1, <1>2, <1>3, <1>5, <2>1
<1>6. CASE ClaimNone
  BY <1>5, <1>6 DEF ClaimNone, ClaimBlocked, ClaimNothing, AbortQuietly, Abort
<1>7. CASE InvokeFails
  BY <1>5, <1>7 DEF InvokeFails, Snapshot
<1>8. ASSUME NEW p \in Payloads, NEW c \in Costs, InvokeAnswers(p, c)
      PROVE  StepsLeft' \in 0..(StepsLeft - 1)
  BY <1>5, <1>8 DEF InvokeAnswers, CommitInTime, CommitTooLate, AbortQuietly, Abort, vars
<1>9. CASE WriteRecord
  BY <1>5, <1>9 DEF WriteRecord, vars
<1>10. CASE CertifyRun
  BY <1>5, <1>10 DEF CertifyRun, Certify, AbortQuietly, Abort
<1>11. CASE Replace
  BY <1>5, <1>11 DEF Replace, AbortQuietly, Abort, vars
<1> QED
  BY <1>4, <1>6, <1>7, <1>8, <1>9, <1>10, <1>11 DEF Loop

\* Whatever the adapter does, a run has a bounded number of steps in it, fixed by the
\* population and the retry budget: what TLC checks as RunEnds needs beyond this only
\* that the loop is scheduled and can always step.
THEOREM RunsAreShort == ExecSpec => RunsRunOut
<1>1. ExecIInv /\ ExecIInv' /\ [ExecNext]_execVars => [UsesStep]_execVars
  <2> SUFFICES ASSUME ExecIInv, ExecIInv', ExecNext PROVE UsesStep
    OBVIOUS
  <2>1. CASE Loop
    BY <2>1, LoopUsesSteps DEF UsesStep
  <2>2. CASE StartRun
    BY <2>2 DEF StartRun, Live, UsesStep
  <2>3. CASE Raise \/ Kill
    BY <2>3 DEF Raise, Kill, Abort, Live, UsesStep
  <2>4. CASE OtherPublishes
    BY <2>4 DEF OtherPublishes, UsesStep
  <2> QED
    BY <2>1, <2>2, <2>3, <2>4 DEF ExecNext
<1> QED
  BY <1>1, ExecutorInvariant, PTL DEF ExecSpec, RunsRunOut
===============================================================================
