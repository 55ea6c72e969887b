------------------------ MODULE FrozenPanelExecutor ------------------------
(***************************************************************************)
(* The process that executes a frozen panel on its own coordinator          *)
(* (governance/frozen_panel_executor.py; frozen_mechanism_executor.py has   *)
(* the same loop): claim a unit, invoke the adapter, commit its answer,     *)
(* write the record into a staging directory, and, when every unit is       *)
(* committed, rename the staging directory to the immutable bundle.         *)
(*                                                                          *)
(* The coordinator lives in the process: it is lost with it, and a run that *)
(* is started again begins from nothing. Two things outlive the process:    *)
(* the bundle, which a second executor may publish first, and the staging   *)
(* directories that no process removed.                                     *)
(***************************************************************************)
EXTENDS EvalCoordinator

CONSTANTS
  Worker,    \* the worker_id the executor claims with
  MaxRuns,   \* bound on the number of times the executor is started
  MaxTick    \* bound on tick, above any tick a run reaches

ASSUME ExecutorAssumption ==
  /\ Worker \in Workers
  /\ MaxRuns \in Nat
  /\ MaxTick \in Nat

VARIABLES
  phase,     \* where the process is; "stopped": there is none
  tick,      \* the local tick
  held,      \* the lease in hand, or NoLease
  records,   \* record documents in the staging directory, by unit
  staging,   \* does the running process own a staging directory?
  orphans,   \* staging directories whose process is gone: it was killed, or
             \* the removal failed
  final,     \* who published the bundle: "nobody", "us", "other"
  bundle,    \* the record documents we published
  raised,    \* did the run end on an exception that is not the executor's own?
  runs       \* runs started

runVars   == <<phase, tick, held, records, staging, raised>>
bundleVars == <<final, bundle, runs>>
worldVars == <<orphans, bundleVars>>
execVars  == <<vars, runVars, worldVars>>

Live == {"claim", "invoke", "record", "certify", "replace"}
Phases == Live \cup {"stopped", "failed", "published"}

NoRecords == [u \in Units |-> NoResult]

\* Mutant: the staging directory is not removed at all.
AbortUnclean == phase' = "failed" /\ UNCHANGED <<staging, orphans, tick, held, records>>

\* except BaseException: the staging directory is removed, if that can be done:
\* rmtree ignores errors and may leave the directory there.
Abort ==
  /\ phase' = "failed" /\ staging' = FALSE
  /\ orphans' \in {orphans, orphans + 1}
  /\ UNCHANGED <<tick, held, records>>

AbortQuietly == Abort /\ UNCHANGED raised

\* A new process: a fresh coordinator, an empty staging directory, tick 0.
StartRun ==
  /\ phase \in {"stopped", "failed"}
  /\ runs < MaxRuns
  /\ final = "nobody"
  /\ unit' = [u \in Units |-> FreshUnit]
  /\ spent' = 0 /\ reserved' = 0 /\ budgetBlocks' = 0
  /\ audit' = [u \in Units |-> << >>]
  /\ issued' = {} /\ certificate' = NoCertificate
  /\ phase' = "claim" /\ tick' = 0 /\ held' = NoLease
  /\ records' = NoRecords /\ staging' = TRUE /\ raised' = FALSE
  /\ runs' = runs + 1
  /\ UNCHANGED <<orphans, final, bundle>>

\* Mutant: the clock of the executor outruns the lease.
ClaimUnitSlowly(u) ==
  /\ phase = "claim"
  /\ tick < MaxTick
  /\ ClaimGranted(u, Worker, tick)
  /\ held' = NewLease(u, Worker, tick)
  /\ tick' = tick + LeaseTTL
  /\ phase' = "invoke"
  /\ UNCHANGED <<records, staging, raised, worldVars>>

ClaimUnit(u) ==
  /\ phase = "claim"
  /\ tick < MaxTick
  /\ ClaimGranted(u, Worker, tick)
  /\ held' = NewLease(u, Worker, tick)
  /\ tick' = tick + 1
  /\ phase' = "invoke"
  /\ UNCHANGED <<records, staging, raised, worldVars>>

\* The loop ends when claim returns None; snapshot at the same tick adds nothing.
ClaimNone ==
  /\ phase = "claim"
  /\ ClaimBlocked(tick) \/ ClaimNothing(tick)
  /\ IF Complete'
     THEN phase' = "certify" /\ UNCHANGED <<tick, held, records, staging, raised, orphans>>
     ELSE AbortQuietly
  /\ UNCHANGED bundleVars

\* Mutant: a failed invocation does not move the tick.
TickUnmoved == tick

\* The adapter or the risk endpoint fails, times out, answers out of range or
\* above the cap: the tick jumps to the end of the lease and the lease expires.
TickAfterFailure == IF tick >= held.expires THEN tick ELSE held.expires

InvokeFails ==
  /\ phase = "invoke"
  /\ tick' = TickAfterFailure
  /\ Snapshot(tick')
  /\ held' = NoLease
  /\ phase' = "claim"
  /\ UNCHANGED <<records, staging, raised, worldVars>>

\* The adapter answers within the cap and the answer is committed at the tick
\* that followed the claim. A ValueError of commit ends the run.
InvokeAnswers(p, c) ==
  /\ phase = "invoke"
  /\ c <= UnitCap
  /\ IF HoldsActiveLease(held) /\ tick < held.expires
     THEN /\ CommitInTime(held, p, c, tick)
          /\ phase' = "record"
          /\ UNCHANGED <<tick, held, records, staging, raised, orphans>>
     ELSE /\ IF HoldsActiveLease(held) THEN CommitTooLate(held, tick) ELSE UNCHANGED vars
          /\ AbortQuietly
  /\ UNCHANGED bundleVars

\* Mutant: every record is written under the same name.
WriteRecordOverLast ==
  /\ phase = "record"
  /\ records' = [NoRecords EXCEPT ![held.unit] = unit[held.unit].result]
  /\ tick' = tick + 1
  /\ held' = NoLease
  /\ phase' = "claim"
  /\ UNCHANGED <<vars, staging, raised, worldVars>>

WriteRecord ==
  /\ phase = "record"
  /\ records' = [records EXCEPT ![held.unit] = unit[held.unit].result]
  /\ tick' = tick + 1
  /\ held' = NoLease
  /\ phase' = "claim"
  /\ UNCHANGED <<vars, staging, raised, worldVars>>

CertifyRun ==
  /\ phase = "certify"
  /\ Certify(tick)
  /\ IF Complete
     THEN phase' = "replace" /\ UNCHANGED <<tick, held, records, staging, raised, orphans>>
     ELSE AbortQuietly
  /\ UNCHANGED bundleVars

\* Mutant: the bundle is moved over whatever is there.
ReplaceAnything ==
  /\ phase = "replace"
  /\ final' = "us" /\ bundle' = records
  /\ phase' = "published" /\ staging' = FALSE
  /\ UNCHANGED <<tick, held, records, raised, vars, orphans, runs>>

\* os.replace moves the staging directory onto a free name in one step and
\* fails on a directory that is there and not empty.
Replace ==
  /\ phase = "replace"
  /\ IF final = "nobody"
     THEN /\ final' = "us" /\ bundle' = records
          /\ phase' = "published" /\ staging' = FALSE
          /\ UNCHANGED <<tick, held, records, raised, orphans>>
     ELSE AbortQuietly /\ UNCHANGED <<final, bundle>>
  /\ UNCHANGED <<vars, runs>>

\* Any other exception, at any point: a full disk, an adapter that answers
\* nonsense, a bundle that does not verify.
Raise ==
  /\ phase \in Live
  /\ Abort
  /\ raised' = TRUE
  /\ UNCHANGED <<vars, bundleVars>>

\* The process is killed: nothing cleans up after it.
Kill ==
  /\ phase \in Live
  /\ phase' = "stopped" /\ staging' = FALSE
  /\ orphans' = orphans + 1
  /\ UNCHANGED <<vars, tick, held, records, raised, final, bundle, runs>>

\* A second executor with the same output root publishes first.
OtherPublishes ==
  /\ final = "nobody"
  /\ final' = "other"
  /\ UNCHANGED <<vars, runVars, orphans, bundle, runs>>

-----------------------------------------------------------------------------
ExecInit ==
  /\ Init
  /\ phase = "stopped" /\ tick = 0 /\ held = NoLease
  /\ records = NoRecords /\ staging = FALSE /\ raised = FALSE
  /\ orphans = 0 /\ final = "nobody" /\ bundle = NoRecords /\ runs = 0

\* The loop itself. Invocations end because subprocesses run with a timeout.
Loop ==
  \/ \E u \in Units : ClaimUnit(u)
  \/ ClaimNone
  \/ InvokeFails
  \/ \E p \in Payloads, c \in Costs : InvokeAnswers(p, c)
  \/ WriteRecord
  \/ CertifyRun
  \/ Replace

ExecNext == Loop \/ StartRun \/ Raise \/ Kill \/ OtherPublishes

\* A single thread in a loop: it is not suspended for ever while it can step.
ExecSpec == ExecInit /\ [][ExecNext]_execVars /\ WF_execVars(Loop)

-----------------------------------------------------------------------------
(* Properties                                                               *)

ExecTypeOK ==
  /\ TypeOK
  /\ phase \in Phases
  /\ tick \in Nat
  /\ held \in Lease \cup {NoLease}
  /\ records \in [Units -> ResultRecord \cup {NoResult}]
  /\ bundle \in [Units -> ResultRecord \cup {NoResult}]
  /\ staging \in BOOLEAN /\ raised \in BOOLEAN
  /\ orphans \in Nat /\ runs \in 0..MaxRuns
  /\ final \in {"nobody", "us", "other"}

\* The executor's arithmetic on ticks keeps it in step with its coordinator:
\* while it invokes it holds the only live lease and can still commit on it, and
\* otherwise no lease is live, so a retry never waits for the executor's own
\* forgotten lease. It needs a lease of two ticks or more: the tick is advanced
\* between claim and commit, and with lease_ttl_ticks = 1, which the
\* specification accepts, every commit comes too late.
LeaseInStep ==
  LeaseTTL >= 2 =>
    /\ phase = "invoke" =>
         HoldsActiveLease(held) /\ tick < held.expires /\ InState("LEASED") = {held.unit}
    /\ phase \in Live \ {"invoke"} => InState("LEASED") = {}

\* A run fails only because a unit lost all its attempts, because somebody else
\* published, or on a foreign exception: the coordinator never refuses a result
\* of the executor and never withholds a unit it could still claim.
FailureHasCause ==
  phase = "failed" =>
    raised \/ final = "other" \/ \E u \in Units : unit[u].reason = "LEASE_EXPIRED_MAX_ATTEMPTS"

\* "Completion requires all preregistered units": what is published is the
\* record of every unit, the very results the certificate covers, though every
\* record was written by a step of its own after the commit.
BundleIsPopulation ==
  final = "us" =>
    /\ bundle = [u \in Units |-> unit[u].result]
    /\ certificate # NoCertificate /\ certificate.population = bundle
    /\ \A u \in Units : unit[u].state = "COMMITTED"

\* A staging directory has a process, or is left behind by a run that was killed
\* or could not remove it: at most one by each run, and none by one that publishes.
StagingFollowsProcess ==
  /\ staging <=> phase \in Live
  /\ orphans <= runs
  /\ phase \in Live \cup {"published"} => orphans < runs

\* "execution bundle output is immutable", for two executors as well, although
\* the test that the name is free is made once, before the first claim.
BundleIsImmutable == [][final # "nobody" => UNCHANGED <<final, bundle>>]_execVars

\* Whatever the adapter does, a run ends: failed attempts are counted, and each
\* of them moves the tick far enough for the unit to be retried or given up.
RunEnds == (phase \in Live) ~> (phase \notin Live)
-----------------------------------------------------------------------------
(* The inductive strengthening.                                             *)

\* What a run knows at each of its points: every committed unit has its record,
\* but for the one whose record is about to be written, and what is left to do.
RunInOrder ==
  phase \in Live =>
    /\ final # "us"
    /\ phase \in {"invoke", "record"} => held \in Lease
    /\ phase = "record" => unit[held.unit].state = "COMMITTED"
    /\ \A u \in Units :
         unit[u].state = "COMMITTED" /\ (phase = "record" => u # held.unit)
           => records[u] = unit[u].result
    /\ phase \in {"certify", "replace"} => Complete
    /\ phase = "replace" => certificate # NoCertificate

\* The executor commits once per unit and never above the cap, so a unit is only
\* ever lost by running out of attempts.
OnlyLossesQuarantine ==
  \A u \in Units : unit[u].state = "QUARANTINED"
                   => unit[u].reason = "LEASE_EXPIRED_MAX_ATTEMPTS"

ExecIInv ==
  /\ IInv /\ ExecTypeOK
  /\ LeaseInStep /\ RunInOrder /\ OnlyLossesQuarantine
  /\ StagingFollowsProcess
  /\ final = "us" => phase = "published"
  /\ BundleIsPopulation
  /\ LeaseTTL >= 2 => FailureHasCause
=============================================================================
