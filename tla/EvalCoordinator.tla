--------------------------- MODULE EvalCoordinator ---------------------------
(***************************************************************************)
(* DistributedEvalCoordinator of cwc/governance/distributed_eval_control.py *)
(* a frozen population of work units, each leased to one worker at a time,  *)
(* with a bounded number of attempts, a cost reservation per live lease and *)
(* a hash-chained audit log.                                                *)
(*                                                                          *)
(* Every public method is atomic (one Python thread) but its callers are    *)
(* not: a worker may come back with any lease it was ever given, at any     *)
(* tick, and ticks are supplied by the callers, so they need not increase.  *)
(* A call that raises before it changes anything is a stuttering step and   *)
(* has no action; a call that raises after it expired leases has one.       *)
(*                                                                          *)
(* Money is an integer number of cost quanta, so the 1e-12 tolerances of    *)
(* the float comparisons are left out.                                      *)
(***************************************************************************)
EXTENDS Integers, Sequences, FiniteSets

CONSTANTS
  NumUnits,      \* |task_ids| * |policy_ids| * replicates
  Workers,       \* worker ids that call claim
  Payloads,      \* (result_digest, evidence_digest) pairs a worker can submit
  Costs,         \* costs a worker can declare, some above the cap
  MaxAttempts,   \* max_attempts_per_unit
  LeaseTTL,      \* lease_ttl_ticks
  UnitCap,       \* max_cost_per_unit_usd
  GlobalBudget,  \* global_budget_usd
  Ticks,         \* ticks the callers pass
  MaxBlocks,     \* bound on the number of BUDGET_BLOCK events
  NoLease, NoResult, NoReason, NoCertificate

\* spec.units() in sorted order: claim walks them from the first.
Units == 1..NumUnits

\* What DistributedEvalSpec.__post_init__ accepts.
SpecAccepted ==
  /\ NumUnits \in Nat \ {0}
  /\ MaxAttempts \in Nat \ {0}
  /\ LeaseTTL \in Nat \ {0}
  /\ UnitCap \in Nat \ {0}
  /\ GlobalBudget \in Nat
  /\ GlobalBudget >= NumUnits * UnitCap

ASSUME SpecAssumption == SpecAccepted
ASSUME InputAssumption ==
  /\ Ticks \subseteq Nat
  /\ Costs \subseteq Nat
  /\ MaxBlocks \in Nat

VARIABLES
  unit,         \* _units: the _MutableUnit of every work unit
  spent,        \* _spent_usd
  reserved,     \* _reserved_usd
  audit,        \* _audit, split by unit_id: the events of each unit, in order
  budgetBlocks, \* number of BUDGET_BLOCK events (they carry no unit_id)
  issued,       \* every lease claim has handed to a worker
  certificate   \* the last CompletionCertificate handed out

vars == <<unit, spent, reserved, audit, budgetBlocks, issued, certificate>>

UnitState == {"PENDING", "LEASED", "COMMITTED", "QUARANTINED"}
Reasons == {"LEASE_EXPIRED_MAX_ATTEMPTS", "MAX_ATTEMPTS_EXHAUSTED",
            "CONFLICTING_DUPLICATE_RESULT", "GLOBAL_BUDGET_BREACH"}

\* The token is a digest of the other fields and the reservation is always
\* UnitCap: both are left out, equality of leases is equality of these fields.
Lease == [unit : Units, worker : Workers, attempt : Nat, issuedAt : Nat, expires : Nat]

ResultRecord == [attempt : Nat, worker : Workers, payload : Payloads,
                 cost : Nat, tick : Nat]

MutableUnit == [state : UnitState, attempts : Nat, lease : Lease \cup {NoLease},
                result : ResultRecord \cup {NoResult}, reason : Reasons \cup {NoReason}]

Certificate == [population : [Units -> ResultRecord], total : Int]

ASSUME NullAssumption ==
  /\ NoLease \notin Lease
  /\ NoResult \notin ResultRecord \cup Payloads
  /\ NoReason \notin Reasons
  /\ NoCertificate \notin Certificate

FreshUnit == [state |-> "PENDING", attempts |-> 0, lease |-> NoLease,
              result |-> NoResult, reason |-> NoReason]

\* Audit events, with the part of the payload that a transition depends on.
Granted(l)      == [kind |-> "LEASE_GRANTED", lease |-> l]
Expired         == [kind |-> "LEASE_EXPIRED"]
Quarantined(r)  == [kind |-> "QUARANTINE", reason |-> r]
Committed(rec)  == [kind |-> "RESULT_COMMITTED", result |-> rec]

InState(s) == {u \in Units : unit[u].state = s}

-----------------------------------------------------------------------------
(* _expire_due: every due lease is given up, in one pass over the units.    *)

Due(t) == {u \in Units : unit[u].state = "LEASED" /\ t >= unit[u].lease.expires}

\* Mutant: one attempt too many.
OutOfAttemptsOffByOne(u) == unit[u].attempts > MaxAttempts

OutOfAttempts(u) == unit[u].attempts >= MaxAttempts

\* Mutant: quarantine wipes the result on record.
QuarantinedUnitWiped(m, r) ==
  [m EXCEPT !.state = "QUARANTINED", !.lease = NoLease, !.reason = r, !.result = NoResult]

QuarantinedUnit(m, r) == [m EXCEPT !.state = "QUARANTINED", !.lease = NoLease, !.reason = r]

\* Mutant: a unit that lost its last attempt goes back to the pool.
ExpiredUnitAlwaysPending(u) == [unit[u] EXCEPT !.state = "PENDING", !.lease = NoLease]

ExpiredUnit(u) ==
  IF OutOfAttempts(u)
  THEN QuarantinedUnit(unit[u], "LEASE_EXPIRED_MAX_ATTEMPTS")
  ELSE [unit[u] EXCEPT !.state = "PENDING", !.lease = NoLease]

\* Mutant: the quarantine on the last attempt is logged as a plain expiry.
ExpiryEventAlwaysExpired(u) == Expired

ExpiryEvent(u) ==
  IF OutOfAttempts(u) THEN Quarantined("LEASE_EXPIRED_MAX_ATTEMPTS") ELSE Expired

UnitsAfterExpiry(t) == [u \in Units |-> IF u \in Due(t) THEN ExpiredUnit(u) ELSE unit[u]]

AuditAfterExpiry(t) ==
  [u \in Units |-> IF u \in Due(t) THEN Append(audit[u], ExpiryEvent(u)) ELSE audit[u]]

\* Mutant: an expired lease keeps its reservation.
ReservedAfterExpiryNotReleased(t) == reserved

ReservedAfterExpiry(t) == reserved - UnitCap * Cardinality(Due(t))

ExpireDue(t) ==
  /\ unit' = UnitsAfterExpiry(t)
  /\ audit' = AuditAfterExpiry(t)
  /\ reserved' = ReservedAfterExpiry(t)

-----------------------------------------------------------------------------
(* claim(worker_id, tick)                                                   *)

\* Mutant: quarantined units are offered again.
OpenAfterExpiry(t) ==
  {u \in Units : UnitsAfterExpiry(t)[u].state \in {"PENDING", "QUARANTINED"}}

PendingAfterExpiry(t) == {u \in Units : UnitsAfterExpiry(t)[u].state = "PENDING"}

Affordable(t) == GlobalBudget - spent - ReservedAfterExpiry(t) >= UnitCap

Exhausted(t) == {u \in PendingAfterExpiry(t) : OutOfAttempts(u)}

\* The pending unit the loop stops at: exhausted ones before it are quarantined.
FirstClaimable(u, t) ==
  /\ u \in PendingAfterExpiry(t) \ Exhausted(t)
  /\ \A v \in PendingAfterExpiry(t) \ Exhausted(t) : u <= v

\* The loop over the units up to, not including, `stop`.
UnitsAfterScan(t, stop) ==
  [u \in Units |-> IF u \in Exhausted(t) /\ u < stop
                   THEN QuarantinedUnit(UnitsAfterExpiry(t)[u], "MAX_ATTEMPTS_EXHAUSTED")
                   ELSE UnitsAfterExpiry(t)[u]]

AuditAfterScan(t, stop) ==
  [u \in Units |-> IF u \in Exhausted(t) /\ u < stop
                   THEN Append(AuditAfterExpiry(t)[u], Quarantined("MAX_ATTEMPTS_EXHAUSTED"))
                   ELSE AuditAfterExpiry(t)[u]]

\* Mutant: a lease that expired is granted again under the same attempt number.
NewLeaseNotCounted(u, w, t) ==
  [unit |-> u, worker |-> w, attempt |-> unit[u].attempts,
   issuedAt |-> t, expires |-> t + LeaseTTL]

NewLease(u, w, t) ==
  [unit |-> u, worker |-> w, attempt |-> unit[u].attempts + 1,
   issuedAt |-> t, expires |-> t + LeaseTTL]

ClaimBlocked(t) ==
  /\ ~Affordable(t)
  /\ budgetBlocks < MaxBlocks
  /\ ExpireDue(t)
  /\ budgetBlocks' = budgetBlocks + 1
  /\ UNCHANGED <<spent, issued, certificate>>

ClaimNothing(t) ==
  /\ Affordable(t)
  /\ PendingAfterExpiry(t) \subseteq Exhausted(t)
  /\ unit' = UnitsAfterScan(t, NumUnits + 1)
  /\ audit' = AuditAfterScan(t, NumUnits + 1)
  /\ reserved' = ReservedAfterExpiry(t)
  /\ UNCHANGED <<spent, budgetBlocks, issued, certificate>>

LeasedUnit(m, l) == [m EXCEPT !.state = "LEASED", !.attempts = l.attempt, !.lease = l]

ClaimGranted(u, w, t) ==
  LET l == NewLease(u, w, t) IN
  /\ Affordable(t)
  /\ FirstClaimable(u, t)
  /\ unit' = [UnitsAfterScan(t, u) EXCEPT ![u] = LeasedUnit(@, l)]
  /\ audit' = [AuditAfterScan(t, u) EXCEPT ![u] = Append(@, Granted(l))]
  /\ reserved' = ReservedAfterExpiry(t) + UnitCap
  /\ issued' = issued \cup {l}
  /\ UNCHANGED <<spent, budgetBlocks, certificate>>

-----------------------------------------------------------------------------
(* commit(lease, tick, result_payload, evidence_digest, actual_cost_usd)    *)

\* Mutant: any lease of a leased unit will do.
HoldsSomeLease(l) == unit[l.unit].state = "LEASED"

\* The checks that reach the body: an identical duplicate returns the stored
\* record and any other lease than the active one raises, both without effect.
HoldsActiveLease(l) == unit[l.unit].state = "LEASED" /\ unit[l.unit].lease = l

\* Mutant: the last result wins.
CommitOverwriting(l, p) ==
  /\ unit[l.unit].state = "COMMITTED"
  /\ unit[l.unit].result.payload # p
  /\ unit' = [unit EXCEPT ![l.unit].result.payload = p]
  /\ UNCHANGED <<spent, reserved, audit, budgetBlocks, issued, certificate>>

\* A duplicate for a committed unit is compared by payload alone: the lease it
\* came with, its tick and its attempt are not looked at.
CommitConflicting(l, p) ==
  LET u == l.unit IN
  /\ unit[u].state = "COMMITTED"
  /\ unit[u].result.payload # p
  /\ unit' = [unit EXCEPT ![u] = QuarantinedUnit(@, "CONFLICTING_DUPLICATE_RESULT")]
  /\ audit' = [audit EXCEPT ![u] = Append(@, Quarantined("CONFLICTING_DUPLICATE_RESULT"))]
  /\ UNCHANGED <<spent, reserved, budgetBlocks, issued, certificate>>

\* Mutant: the late lease's reservation is released here as well as by expiry.
CommitTooLateReleasing(l, t) ==
  /\ HoldsActiveLease(l)
  /\ t >= l.expires
  /\ unit' = UnitsAfterExpiry(t)
  /\ audit' = AuditAfterExpiry(t)
  /\ reserved' = ReservedAfterExpiry(t) - UnitCap
  /\ UNCHANGED <<spent, budgetBlocks, issued, certificate>>

CommitTooLate(l, t) ==
  /\ HoldsActiveLease(l)
  /\ t >= l.expires
  /\ ExpireDue(t)
  /\ UNCHANGED <<spent, budgetBlocks, issued, certificate>>

WithinBudget(c) == spent + c <= GlobalBudget

CommitBreach(u) ==
  /\ unit' = [unit EXCEPT ![u] = QuarantinedUnit(@, "GLOBAL_BUDGET_BREACH")]
  /\ audit' = [audit EXCEPT ![u] = Append(@, Quarantined("GLOBAL_BUDGET_BREACH"))]
  /\ UNCHANGED spent

CommitRecord(u, rec) ==
  /\ unit' = [unit EXCEPT ![u] =
                [@ EXCEPT !.state = "COMMITTED", !.lease = NoLease, !.result = rec]]
  /\ audit' = [audit EXCEPT ![u] = Append(@, Committed(rec))]
  /\ spent' = spent + rec.cost

CommitInTime(l, p, c, t) ==
  /\ HoldsActiveLease(l)
  /\ t < l.expires
  /\ c <= UnitCap
  /\ reserved' = reserved - UnitCap
  /\ IF WithinBudget(c)
     THEN CommitRecord(l.unit, [attempt |-> l.attempt, worker |-> l.worker,
                                payload |-> p, cost |-> c, tick |-> t])
     ELSE CommitBreach(l.unit)
  /\ UNCHANGED <<budgetBlocks, issued, certificate>>

-----------------------------------------------------------------------------
(* snapshot(tick) and completion_certificate(tick)                          *)

Snapshot(t) == ExpireDue(t) /\ UNCHANGED <<spent, budgetBlocks, issued, certificate>>

\* Mutant: a quarantined unit counts as done.
CompleteButQuarantined == \A u \in Units : unit[u].state \in {"COMMITTED", "QUARANTINED"}

Complete == \A u \in Units : unit[u].state = "COMMITTED"

\* Raises unless every unit is committed, after it has expired the due leases.
Certify(t) ==
  /\ ExpireDue(t)
  /\ certificate' = IF Complete
                    THEN [population |-> [u \in Units |-> unit[u].result], total |-> spent]
                    ELSE certificate
  /\ UNCHANGED <<spent, budgetBlocks, issued>>

-----------------------------------------------------------------------------
Init ==
  /\ unit = [u \in Units |-> FreshUnit]
  /\ spent = 0
  /\ reserved = 0
  /\ audit = [u \in Units |-> << >>]
  /\ budgetBlocks = 0
  /\ issued = {}
  /\ certificate = NoCertificate

Next ==
  \/ \E t \in Ticks : ClaimBlocked(t)
  \/ \E t \in Ticks : ClaimNothing(t)
  \/ \E u \in Units, w \in Workers, t \in Ticks : ClaimGranted(u, w, t)
  \/ \E l \in issued, p \in Payloads : CommitConflicting(l, p)
  \/ \E l \in issued, t \in Ticks : CommitTooLate(l, t)
  \/ \E l \in issued, p \in Payloads, c \in Costs, t \in Ticks : CommitInTime(l, p, c, t)
  \/ \E t \in Ticks : Snapshot(t)
  \/ \E t \in Ticks : Certify(t)

Spec == Init /\ [][Next]_vars

-----------------------------------------------------------------------------
(* Properties                                                               *)

TypeOK ==
  /\ unit \in [Units -> MutableUnit]
  /\ spent \in Int
  /\ reserved \in Int
  /\ budgetBlocks \in 0..MaxBlocks
  /\ issued \subseteq Lease
  /\ certificate \in Certificate \cup {NoCertificate}

\* Units whose first result was recorded, still committed or quarantined since.
Settled == {u \in Units : unit[u].result # NoResult}

\* Money reserved is one cap for each live lease, whatever order of claims,
\* late expiries, commits and conflicts produced the present state, and money
\* spent plus money reserved stays within global_budget_usd.
BudgetConserved ==
  /\ reserved = UnitCap * Cardinality(InState("LEASED"))
  /\ spent + reserved <= GlobalBudget

\* The admission check of DistributedEvalSpec (budget >= population * cap) is
\* enough for the whole run: the money for every pending unit is always there,
\* so claim answers BUDGET_BLOCK only when there is nothing left to claim.
PendingIsFunded ==
  GlobalBudget - spent - reserved >= UnitCap * Cardinality(InState("PENDING"))

\* The two branches that quarantine a unit for an exhausted attempt count at
\* claim and for a budget breach at commit are never taken.
NoDefensiveQuarantine ==
  \A u \in Units : unit[u].reason \notin {"MAX_ATTEMPTS_EXHAUSTED", "GLOBAL_BUDGET_BREACH"}

\* "Stale/forged/expired leases cannot commit": the result on record came with
\* the last lease granted for its unit, by its worker and before it expired,
\* even if leases of earlier attempts are submitted at any later time.
OnlyLatestLeaseCommits ==
  \A u \in Settled :
    LET r == unit[u].result IN
    /\ r.attempt = unit[u].attempts
    /\ \E l \in issued : l.unit = u /\ l.attempt = r.attempt /\ l.worker = r.worker
                        /\ r.tick < l.expires

\* The retry budget: no two leases of a unit carry the same attempt number, and
\* no more than max_attempts_per_unit leases are ever granted for it.
AttemptsBounded ==
  /\ \A l, k \in issued : l.unit = k.unit /\ l.attempt = k.attempt => l = k
  /\ \A l \in issued : l.attempt \in 1..MaxAttempts

\* "Every state transition is hash-chained for audit": replaying the events of
\* a unit rebuilds its whole state, so no transition escaped the log.
Replayed(m, e) ==
  CASE e.kind = "LEASE_GRANTED"    -> LeasedUnit(m, e.lease)
    [] e.kind = "LEASE_EXPIRED"    -> [m EXCEPT !.state = "PENDING", !.lease = NoLease]
    [] e.kind = "QUARANTINE"       -> QuarantinedUnit(m, e.reason)
    [] e.kind = "RESULT_COMMITTED" -> [m EXCEPT !.state = "COMMITTED", !.lease = NoLease,
                                                !.result = e.result]

Replay(log) ==
  LET after[n \in 0..Len(log)] == IF n = 0 THEN FreshUnit ELSE Replayed(after[n - 1], log[n])
  IN  after[Len(log)]

AuditDeterminesState == \A u \in Units : unit[u] = Replay(audit[u])

\* A certificate stays a true account of results and money for ever: nothing is
\* charged or recorded after it, though a late conflicting duplicate may still
\* quarantine a unit it covers.
CertificateStaysTrue ==
  certificate # NoCertificate =>
    /\ certificate.total = spent
    /\ \A u \in Units : unit[u].result = certificate.population[u]

\* The inductive strengthening of the invariants above. A unit's state, lease,
\* result and attempt count agree with each other and with the leases issued.
UnitConsistent(m, u) ==
  /\ m.attempts \in 0..MaxAttempts
  /\ m.state = "PENDING" => m.attempts < MaxAttempts
  /\ m.state = "LEASED" <=> m.lease # NoLease
  /\ m.state = "LEASED" => m.lease.unit = u /\ m.lease.attempt = m.attempts /\ m.lease \in issued
  /\ m.state \in {"PENDING", "LEASED"} => m.result = NoResult
  /\ m.state = "COMMITTED" => m.result # NoResult
  /\ m.reason \notin {"MAX_ATTEMPTS_EXHAUSTED", "GLOBAL_BUDGET_BREACH"}

\* The leases issued for a unit are numbered, and no number is ahead of the unit.
LeasesNumbered ==
  /\ \A l, k \in issued : l.unit = k.unit /\ l.attempt = k.attempt => l = k
  /\ \A l \in issued : l.attempt \in 1..unit[l.unit].attempts

IInv ==
  /\ TypeOK
  /\ \A u \in Units : UnitConsistent(unit[u], u)
  /\ LeasesNumbered
  /\ OnlyLatestLeaseCommits
  /\ reserved = UnitCap * Cardinality(InState("LEASED"))
  /\ spent \in 0..UnitCap * Cardinality(Settled)
  /\ certificate # NoCertificate =>
       \A u \in Units : unit[u].state \in {"COMMITTED", "QUARANTINED"}
  /\ CertificateStaysTrue

\* What no step may do: reopen a quarantined unit, take a committed unit
\* anywhere but to quarantine, replace a result, hand back an attempt or refund
\* money spent.
NothingIsUndone ==
  [][ /\ \A u \in Units :
           /\ unit[u].state = "QUARANTINED" => unit'[u] = unit[u]
           /\ unit[u].state = "COMMITTED" => unit'[u].state \in {"COMMITTED", "QUARANTINED"}
           /\ unit[u].result # NoResult => unit'[u].result = unit[u].result
           /\ unit'[u].attempts >= unit[u].attempts
      /\ spent' >= spent ]_vars

\* The coordinator implements the frozen panel.
DecisionOf(u) == IF unit[u].result = NoResult THEN NoResult ELSE unit[u].result.payload

Panel == INSTANCE FrozenPanel WITH
  Amounts   <- Costs,
  Budget    <- GlobalBudget,
  Undecided <- NoResult,
  decision  <- [u \in Units |-> DecisionOf(u)],
  spoiled   <- InState("QUARANTINED"),
  bill      <- spent,
  certified <- certificate # NoCertificate

ImplementsFrozenPanel == Panel!Spec
=============================================================================
