# A verification project for the Cognitive Wiring Core

The repository is a research programme around adaptive computation: numerical
code, a large governance layer that decides which experimental results may be
claimed, and a small "cognitive line" that remembers claims and plans from them.
The numerical part is tested by running it. The part that is hard to test is the
one that keeps state between calls: leases, ledgers, bundles, certificates. This
directory holds TLA+ models of that part, TLC instances that check them, and
TLAPS proofs of what matters most.

    tlc -config MCEvalCoordinator.cfg MCEvalCoordinator    check a model
    tlapm EvalCoordinatorProofs.tla                        check the proofs

## The system

| component | state it keeps | operations | with whom |
|---|---|---|---|
| `DistributedEvalCoordinator` (`cwc/governance/distributed_eval_control.py`) | a unit of work per task, policy and replicate; money spent and reserved; audit chain | `claim`, `commit`, `snapshot`, `completion_certificate` | called by executors, with their ticks |
| frozen panel executor (`frozen_panel_executor.py`; `frozen_mechanism_executor.py` is a copy of its loop) | local tick, lease in hand, staging directory | one call runs a whole panel: claim, invoke adapter and risk endpoint, commit, write the record, certify, rename | owns a coordinator; subprocesses; file system |
| `EvidenceClosureLedger` (`evidence_closure.py`) | a JSON file, one receipt per closed stage | `load`, `next_stage`, `advance` | closure scripts; file system |
| `AtomicEvidenceGeneration` (`materialization_transaction.py`) | staging directory, final root | enter, `publish`, exit | the materializing script; other materializers |
| materialization closure (`materialization_closure.py`, `external_evidence_reference.py`) | an immutable reference file | `close_source_verified`, `close_materialized_verified` | reads a published generation, writes to the closure ledger |
| `EpistemicMachine` (`cwc/epistemics/lattice.py`) | none: immutable records and capabilities | observe, issue, transition | source of the records memory is bound to |
| `EpistemicMemoryLedger` (`cwc/memory/epistemic_store.py`) | current records, histories, event chain, invalidated assumptions | `consolidate`, `retract`, `invalidate_assumption` | read by the planner, written by self-falsification |
| planner (`cwc/planning/proof_carrying.py`) | certificates, kept by the callers | `plan_counterfactual`, `verify_plan_certificate` | reads the memory ledger |
| self-falsification, countermodels, information acquisition (`cwc/epistemics/`) | budgets and records of one search | run a round, select an action | planner, memory, lattice |
| calibration lifecycle, continuous assurance (`cwc/governance/`) | a calibration authority; observations | activate, invalidate, recalibrate, promote; observe, evaluate | certificates for deployed estimates |
| instrumentation (`cwc/instrumentation/`) | event pool, pending scopes, buffers | scope, resolve, flush, close | training and evaluation loops |
| freeze, authority, qualification, P19 documents (about a hundred modules of `cwc/governance/`) | none: digest-bound files | build, verify | bound to each other by digest |
| training job (`scripts/base_train.py`, `nanochat/dataloader.py`, `nanochat/checkpoint_manager.py`) | loader position per rank, weights, checkpoint files | train, save, resume | ranks with each other; file system |
| statistics, causal estimators, replay, plasticity, the rest of nanochat | arrays | numerical | - |

What must be right, component by component:

* **Coordinator.** No result from a lease that is not the latest and alive; each
  unit decided once and charged once; money reserved for whatever is running and
  available for whatever is waiting; attempts bounded; every change in the audit
  log; a certificate that stays true.
* **Executor.** Its ticks keep it in step with its coordinator; it ends; it fails
  only for a reason outside itself; what it publishes is the certified population;
  the bundle is immutable even for two executors; staging is cleaned up.
* **Closure ledger.** Stages in order, receipts chained, the file always one that
  loads, nothing lost that was acknowledged.
* **Memory.** Authority only on valid foundations; retraction transitive and no
  wider than that; nothing strengthened by bad news; nothing forgotten.
* **Planner.** A certificate that verifies is worth what it was when it was made;
  a robust action is backed by every world and by its memories.
* **Self-falsification.** An attack is applied to the plan it was proposed for, as it
  was then, or not at all; its negative outcome voids that plan.
* **Evidence generation.** A publication is all or nothing under kills and power loss,
  and is never replaced; what the ledger records of it has its reference beside it; a
  retry gets there.
* **Calibration.** Nothing of an invalidated generation guards the next one.
* **Run meter.** No event pair in two windows; a record is of its own scope.
* **Training.** Ranks share no data; a resume repeats none; a checkpoint is of one save.
* **Not yet modelled.** The lattice's terminal states absorbing and its capabilities
  bound; a failed observation never hidden by continuous assurance; no metric written twice.

Hard behaviour: late, repeated and out-of-order calls (coordinator, memory,
certificates, attacks), kills and crashes between file operations (executor, ledger,
generation, checkpoints), power loss (generation, reference), two processes on the same
files (executor, ledger, generation), retries and termination (executor, closure), ranks
at their own pace (training). Each process is a single Python thread, so one method call on an
object is one step, and the steps of different processes interleave at file
operations. The complete list is under `hazards` in `PROJECT.json`, each at its line.

## Modules

| module | role |
|---|---|
| `EvalCoordinator` | the coordinator: one action per outcome of each method |
| `FrozenPanel` | what the coordinator promises: decide once, charge once, spoil, certify |
| `EvalCoordinatorProofs` | theorems about `EvalCoordinator`, for all constants |
| `FrozenPanelExecutor` | extends `EvalCoordinator` by the executor's process and the file system |
| `ExecutorProofs` | theorems about `FrozenPanelExecutor`, on those about `EvalCoordinator` |
| `EvidenceClosure` | the closure ledger, at the grain of file operations |
| `EvidenceClosureProofs` | theorems about `EvidenceClosure`, for one closer and for any number |
| `StageChain` | what the closure ledger promises: append the next stage |
| `MemoryLedger` | the memory ledger |
| `MemoryLedgerProofs` | theorems about `MemoryLedger` |
| `ProofPlanning` | extends `MemoryLedger` by the planner and a certificate kept while the ledger changes |
| `SelfFalsification` | extends `ProofPlanning` by attacks on the kept plan and their outcomes |
| `PlanningProofs` | theorems about `SelfFalsification`, and so about plans and certificates |
| `EvidenceGeneration` | materializers on one final root, with what they see and what is on disk |
| `MaterializationClosure` | extends it by the closer that verifies, references and records the generation |
| `MaterializationClosureProofs` | theorems about both |
| `DocumentBatches` | which row groups a rank reads, and where it resumes |
| `TrainingRun` | extends it by the training loop, its checkpoints, crashes and launches |
| `TrainingRunProofs` | theorems about `TrainingRun` |
| `CalibrationLifecycle` | calibration authorities |
| `RunMeter`, `RunMeterProofs` | the run meter with its event pool, and theorems about it |
| `MC*` | instances for TLC |

Operators whose comment begins with "Mutant" are wrong on purpose: plausible
mistakes in the code, used to show that each property can fail. `PROJECT.json`
says which one breaks which property, and maps each definition to the lines it
models.

### EvalCoordinator

`unit` is `_units`, `spent` and `reserved` are the two totals. The audit chain is
kept as one sequence of events per unit (the chain itself only orders them), the
`BUDGET_BLOCK` events, which belong to no unit, as a count. `issued` is not in the
code: it is every lease a worker ever got, and the workers may come back with any
of them. `certificate` is the last one handed out.

Each method is split by outcome: `claim` into `ClaimBlocked` (budget),
`ClaimNothing` (returns None after the scan) and `ClaimGranted`; `commit` into
`CommitConflicting`, `CommitTooLate`, and `CommitInTime`, which ends in a record or
in a breach; `Snapshot`; `Certify`. Expiry of the due leases is the part of each
that it is in the code, and so is the scan that quarantines exhausted units before
the one it grants. Calls that raise without a change are stuttering. Money is a
whole number of quanta; the tolerance of 1e-12 and the drift of float sums are not
modelled. Tokens and digests are replaced by what they are computed from: two
leases have the same token when their fields are equal.

### FrozenPanelExecutor

One process in a loop, the phases being the points between a coordinator call and
the next effect: `ClaimUnit`, `InvokeAnswers` (invocation, evidence, commit),
`InvokeFails`, `WriteRecord`, `CertifyRun`, `Replace`. `Raise` is any other exception
at any point and `Kill` the end of the process without one; `StartRun` starts it
again with a new coordinator, as the code does. `OtherPublishes` is a second
executor with the same output root. `os.replace` succeeds on a free name and fails
on a directory that is not empty, as POSIX has it. The removal of a staging directory
after an exception ignores errors, so it may leave the directory: `orphans` counts what
is left behind, by this and by kills. `raised` is not in the code: it
records that a foreign exception ended the run. The frozen mechanism executor has the
same control points, without the risk endpoint.

### EvidenceClosure

`data` maps inodes to contents; `ledger` and `tmp` are the two names. A call of
`advance` is `Begin` (first load and test), `CommandsPass` or `CommandsFail`,
`Reload` (second load, append), `OpenTmp`, `WriteTmp`, `Replace`; `Crash` may come
between any two. A file that is opened is truncated and does not parse until it is
written. Writing over what another closer wrote through the same inode may leave a
tail of the longer document. A crash of the process loses nothing that was written, and
an exception in a file operation leaves what a crash there leaves;
power loss, with the ledger write as one step, is in `MaterializationClosure`.

### MemoryLedger and ProofPlanning

`current`, `history`, `events`, `invalidated` are the four fields of the ledger, with
the events split by memory. The loop of `_dependency_closure` is given by what it
computes, the least set above its roots that is closed under dependents. A version
number stands for the digest of a record. UNIDENTIFIED, FALSIFIED, OOD and ABSTAIN
are one state, since neither ledger nor planner tells them apart. What a record may
carry as assumptions follows the lattice (`transition`): none before
ASSUMPTION_CONDITIONAL, at least one from there on.

`Plan` takes any set of record versions the caller may hold (`Held`), optionally with
something unfit (a legacy object, an unknown id, another context), any set of
admitted worlds, each reduced to its best action and whether that leads by the
margin, and the outcome of the information channel. One certificate is kept; plans
do not change the ledger, so what holds of one holds of each. `Verifies` is
`verify_plan_certificate`.

### SelfFalsification

One decision of `select_self_falsification_attack` is kept, a proposal, since no other
can be applied; `bindings` and `loadAssumptions` are what it binds of the plan's
foundations. Which of several eligible attacks is chosen depends on rates and budgets
and is left open: any eligible attack may be proposed. `FalsifyMemory` and
`FalsifyAssumption` are `apply_self_falsification_outcome` with the two negative
outcomes, each with the ledger operation it calls. The ledger may change in any way
before, between and after.

### EvidenceGeneration and MaterializationClosure

`made` and `content` are the directories as programs see them, `final` the one that has
the final name. `stable`, `entries` and `settled` are what of it is on disk: bytes after
`_fsync_file`, names after `_fsync_dir` of their directory, the final name after
`_fsync_dir(parent)`, which the code calls before the rename. A directory has three
parts, since later parts hold digests of earlier ones. `Raise` and `Kill` may come at
any step and differ in who cleans up; after a `PowerLoss` what was not on disk may be
there, gone or torn. A rename onto a name that is taken fails. The closer's steps are
those of `_write_immutable` (create, write, sync, or unlink on an exception) between
the verification of the generation and the receipt. One closer runs at a time and a
ledger write is one step, `EvidenceClosure` having the other case.

### DocumentBatches and TrainingRun

A position is a pass over one file and a row group in it; a pass counts files and epochs
together, as the loader goes round them. `ResumeGroups` is the arithmetic of the resume
branch, `NextGroups` what the loops come to after a row group. The loader refills its
buffer until that is full, which may take several row groups, at the start and at any
training step: a rank reads `Upto` one of those it comes to. How far it gets depends on
the sizes of row groups and documents and is left open. The batches of a training step, one
per rank or several with gradient accumulation, may hold text of any groups the rank has
read, the first one only of those it had read before the step. `trained` is in no variable of the code: it is what the weights have seen in their
lineage, and goes into the checkpoint with them. A row group counts as read, and as
trained on, with its first document: a resume skips what was left of the saved group and
of the buffer. A digest of weights stands for launch, step and lineage. The write of a file
is one step; the ranks write without waiting for each other and meet again in the next
training step, so a crash may cut off a file of each of them at once.

### CalibrationLifecycle and RunMeter

Authorities are frozen values, so `authorities` holds all that were ever made and any of
them may be used again. `replaces` is not in the code: it keeps the guard of the
generation that was invalidated. In `RunMeter`, `open` is the stack of nested scopes,
`pending` and `records` are the meter's lists, `available` and `dropped` the pool's;
`left` is not in the code, it keeps when a scope ended.

## Runs

| run | instance | distinct states | what it shows |
|---|---|---|---|
| `coordinator` | 2 units, 2 workers, 2 payloads, 2 attempts, ticks 0..2, lease of 1 tick, cost 1..3 with cap 2, budget 4 | 251,518 | ten properties of the coordinator, among them that it implements `FrozenPanel` |
| `executor` | 3 units, 2 attempts, 2 payloads, costs 1..2, 2 starts | 64,762 | seven properties, one of them liveness |
| `closure` | one closer, all 17 stages, 3 inodes | 306 | the ledger loads, keeps what it acknowledged, and implements `StageChain`, whatever crashes; retries close every stage |
| `closure_race` | two closers | violation | `StagesInOrder` fails: finding 1 |
| `memory` | 3 memories, 1 assumption, 1 countermodel | 77,589 | seven properties |
| `planning` | 2 memories, 1 assumption, 1 countermodel, 1 other world, 2 actions, one attack | 158,620 | certificates, robust actions and attacks on them |
| `hidden_debt` | as `planning`, without attacks | violation | `RobustHasNoHiddenDebt` fails: finding 2 |
| `materialization` | 2 materializers, a closer, 2 faults, 1 power loss, 6 directory names | 382,504 | publication and closure, one property of liveness |
| `training` | 2 ranks, files of 3 and 2 row groups, 2 iterations, a save at each, 3 launches, 3 row groups read in a launch | 1,032,097 | sharding, resume, checkpoints |
| `training_ranks` | the same | violation | `NoRankRepeats` fails: finding 3 |
| `recalibration` | 4 authorities, 2 of each digest | violation | `FreshDriftGuard` fails: finding 4 |
| `run_meter` | 2 pairs, 3 scopes, 3 ticks | violation | `RecordTimesItsScope` fails: finding 5 |

**Bounds.** Coordinator: a budget of exactly population times cap is the tightest the
specification accepts; two attempts give a first lease that is lost and a second that
races it; with three ticks in any order a lease is granted, expires, is granted
again and expires again, and stale leases of both attempts are around; a cost above
the cap is among the inputs. `MaxBlocks` bounds the count of `BUDGET_BLOCK` events
only. Two units are what the scan order and the accounting across units need.
Executor: three units, so that units before and after a lost one are executed;
`MaxTick` is above any tick a run reaches (three units, two attempts, two ticks each,
and one more per record), `MaxRuns = 2` starts allow a restart after a failure or
a kill. `CHECK_DEADLOCK FALSE`: a published bundle and a second failure are ends.
Closure: nothing is cut, `NumStages` is the real one; its type invariant is left to the proof. Memory: three memories are the
chain for which a transitive closure differs from a direct one; with a memory's own
assumption and one below it both ways of losing validity occur. All ids used and
everything retracted is an end. Planning: two memories, one below the other, so that an
attack can strike the plan's own memory or the one it rests on. Materialization: two
materializers race for the name; two faults are a kill of one process and of another, or
of the same one twice; a power loss may come before, between and after. Training: with
files of two strides and of one, ranks cross files, epochs and the ends of files while
resuming; three launches are what it takes for the files of one step to come from two
launches and be loaded by a third. `MaxReads = 3` lets one of the two ranks fill its buffer with
two row groups at the start, or read on later, and so be a group ahead of the other;
`MaxRounds = 1` lets a rank look ahead by a whole round of the files, more than three reads
take. That both ranks read on, or several groups in one training step, is left to the
proofs, which hold for every value of these bounds. A finished closure and the last launch are ends. Symmetry
is used where ids, workers, payloads and actions are interchangeable, in runs whose
properties are invariants, action properties and a refinement without fairness.

**Fairness.** Three runs have a liveness property. `RunEnds` of the executor is under weak
fairness of the executor's own loop: it is one thread that does not wait for anybody,
and an invocation ends because `subprocess.run` has a timeout (`_invoke`,
`_invoke_risk_endpoint`). No fairness is assumed of adapters, of their answers, of
kills, of restarts or of other processes: the loop ends even if each invocation fails.
`ClosedOrNeedsRepair` of the materialization assumes that whoever runs the two scripts
starts them again until they succeed: weak fairness of each materializer's own steps and
of the closer's. Faults are not fair and, as in the code's own terms, not endless. The
property names the two states that no retry gets out of: a torn reference, which
`_write_immutable` refuses for ever, and a ledger torn by a power loss.
`EveryStageCloses` of the closure ledger has no such exceptions, since without power loss
nothing an attempt leaves is in the way of the next one. It assumes that whoever closes the
stages calls `advance` again after a failure, and that no step of a call fails every time:
commands may fail and the process die without end, so the fairness of the call's steps is
strong (`FairSpec`); with weak fairness a crash before each rename would be a counterexample
that says nothing of the code.

## Proofs

TLAPS proves the following for every value of the constants that satisfies the
named assumptions.

`EvalCoordinatorProofs` (assumptions: `SpecAssumption`, what the specification's
constructor accepts; `InputAssumption`, ticks and costs are natural numbers;
`NullAssumption`, the null values are no leases, results or certificates). The
properties are not inductive one by one. `IInv` adds to them that a unit's state,
lease, result and attempt count agree (`UnitConsistent`), that leases are numbered
up to the unit's count (`LeasesNumbered`), and the one idea the budget needs:
`spent` is at most one cap per *settled* unit, `reserved` is one cap per leased one.
Units that are pending are neither, so with a budget of at least one cap per unit the
money for all of them is left: this is why `PendingIsFunded` holds, why `CommitBreach`
is never reached, and, with attempts of pending units below the maximum, why the
branch for exhausted attempts at claim is dead. The proof has a lemma for expiry,
which is part of almost every action, with the cardinality argument for the
reservations it releases, then one lemma per action. Action properties and the step
simulation of `FrozenPanel` follow from `IInv`: an expiry that quarantines is a
`Spoil`, a commit in time is a `Decide`, a conflict is a `Spoil` of one unit, a
certificate is `Certify` (after a stutter), and the rest stutters.
`AuditRebuildsState`: the replay is a function over the length of the log, so no
induction over logs is needed, only that a step that appends events moves the unit to
where these events take it (`Logged`; one lemma per action, the expiry of several units
in one call being the hard one). `InvocationsAreBounded` counts over all units: a lease
is known by its unit and attempt number, so leases inject into population times attempts.
That is the only bound there is on what failed attempts cost.

`MemoryLedgerProofs` (assumption: `MemoryAssumption`, ids are finite and the null
value is no record). `MemIInv` keeps the local form of authority: an active memory
has valid assumptions and active *direct* dependencies. That retraction keeps it is
the point of the closure: what is retracted is closed under dependents, so an active
memory that is left has no dependency in it (`ClosureClosed`). The deep form,
`AuthorityRestsOnValidity`, follows since the active memories are a set closed under
dependencies and contain the foundations, the least such set (`FoundationsLeast`).
`RetractionReachesAll` is the same argument upwards (`ClosureReachesUp`), and
`RetractionIsMinimal` uses that the closure is the *least* such set: without its members
that have lost nothing it would still be closed, so there are none but the root.

`EvidenceClosureProofs` (assumptions: `ClosureAssumption`, which gives every process an
inode of its own and two to the names; and in all theorems but the last that there is one closer,
since with two `closure_race` refutes them, and `TornIsNoDocument`, torn bytes are no
sequence). The number of stages is any positive one. `ClosureIInv` says what a call
knows between its steps: its stage is still the next one, its document is still the
ledger plus its receipt, the temporary file is not the ledger's inode, torn while it is
written and the document after that. Every step but `Replace` leaves the receipts on
file alone (`QuietStep`), and `Replace` puts a document there that `load` accepts
(`DocumentIsAccepted`) and that is `Extend` of `StageChain`. A crash gives up the call
and touches no file, so nothing of `ClosureIInv` depends on it.
With any number of closers less is true, and `RacesMisplaceOneReceipt` says what: the file
is torn or a chain in which all receipts *but the last* are in order. `RaceIInv` says so
of every inode and of every document in hand: the second load refuses to append to what
is out of order, so a misplaced receipt is never built on. Finding 1 is the other half.

`ExecutorProofs` (the coordinator's assumptions and `ExecutorAssumption`). `ExecIInv` puts
`RunInOrder`, what a run knows at each of its points, and `OnlyLossesQuarantine` on top
of the coordinator's `IInv`. With leases of two ticks or more, the lease in hand is the
only one out and ends after the next tick, so a commit is in time, a failure gives the
lease up, and every claim finds no lease out. Then a claim that returns nothing means no
pending unit (by `PendingIsFunded` and the idle scan), so the run is complete or a unit
is lost. A committed unit's result never changes, so the records written one by one are
the population of the certificate. A run leaves at most one staging directory behind, and one
that publishes none: `orphans` is at most the number of runs, and less while a run may still
publish (`StagingFollowsProcess`). With leases of one tick `FailureHasCause` is false,
and the theorem says so in its assumption. All this is for any number of attempts, so it
holds for the mechanism executor's constants as well.
`ExecutorRunsCoordinator` shows by a case per step that each of the executor's steps is a
step of the coordinator, a stutter, or the construction of a new one (with `Ticks` all the
natural numbers, as the coordinator has it), so that the audit theorem carries over
(`ExecutorAuditRebuilds`). `RunsAreShort` is the part of `RunEnds`
that a prover reaches: `StepsLeft`, three per lease that is left plus what the phase still
takes, is a natural number and falls with every step of a live run but its last (and the
one step of the other executor). That the loop is scheduled, and is never stuck, is TLC's.

`PlanningProofs` (assumptions of the ledger and `PlanAssumption`). `SelfIInv` adds to `MemIInv` that a
certificate binds no version that is still to come, that one that verifies would be issued again, and that
a decision's bindings are the plan's foundations as they are, as long as the certificate
verifies. The core is `FoundationsStay`: a memory below the plan's can only lose its
status by a retraction that reaches every dependent (`RetractionReaches`, from the
ledger's proofs), so the plan's own memories change version with it, and the certificate
that binds only these is void. Versions only rise, so it stays void.

`MaterializationClosureProofs` (`GenerationAssumption`). `GenerationIInv`: a staging directory
belongs to one publisher, is not the published one, and holds what its place in
`publish` says; what is published was complete and on disk before. `ClosureIInv` for the
closer: what it verified stays published, and a reference whose bytes are not on disk is
being written or was left by a kill. From both, `RecordedEvidenceStays`: once recorded,
receipt, reference and generation are frozen for as long as the power stays on.

`TrainingRunProofs` (`LoaderAssumption`, `TrainingAssumption`). `TrainingIInv`: ranks read in
their own residue class of row groups; rank 0's position has reached all of rank 0's
groups that its model was trained on, and a saved position those of the weights whose
digest is beside it; a step whose save ended has all its files from one save. That the
loader always has exactly one row group to go to next (`LoaderYields`) needs that every
non-empty set of numbers has a least one: `SmallestMember` gets it from the library's
well-foundedness of strict subset on finite sets, since the induction theorem over numbers
is out of reach. A rank that resumes in the stride that was saved goes on with exactly its
next row groups (`ResumeInStride`, so `SaverSkipsNothing`), and what a rank reads in a launch
has no gaps, however many row groups it reads at once (`RanksLeaveNoGaps`, from
`GroupsBetween`). With one rank that is all there is to reading once (`OneRankReadsOnce`); finding 3 is what
several ranks add.

`RunMeterProofs`: the pairs of open and pending scopes and of the pool are apart
(`WindowsApart`); every scope is open, pending or in one record (`ScopesAreRecordedOnce`:
the ids cover `1..entered` and are as many as were entered); and the error of finding 5 has
one sign, no record is too short (`RecordsAreNeverShort`). For any pool, number of scopes
and nesting; these properties are in no run, since the run of the meter is the violation.

Every safety property of a passing run is proved. Those of the violation runs are proved
where they hold: `StagesInOrder` for one closer, `NoRankRepeats` for one rank.

**Checked by TLC only.** Liveness: `RunEnds`, of which `RunsAreShort` is the safety half,
`ClosedOrNeedsRepair` and `EveryStageCloses`; the prover has no `ENABLED` and no fairness
rules. The
counterexamples (`RobustHasNoHiddenDebt`, `FreshDriftGuard`, `RecordTimesItsScope`, and the
two above for several closers and ranks). `CalibrationLifecycle` has no theorem.

## Findings

1. *Two closers of a stage* (`closure_race`, `evidence_closure.py:262`). The stage is
   tested before the commands run, the ledger is loaded again after them, and the
   receipt is appended without another test. The second closer appends a stage that
   is there already, its caller gets a receipt, and the ledger never loads again.
2. *Debt that worlds do not represent* (`hidden_debt`, `proof_carrying.py:281`). A
   memory that is quarantined for an invalidated assumption or a retracted dependency,
   and has countermodels too, passes once its countermodels are admitted worlds.
3. *Resumed ranks repeat data* (`training_ranks`, `dataloader.py:55`). Only rank 0's
   position is saved. A rank that was a stride ahead of it reads again, after the resume,
   what the model was trained on. For rank 0 itself `SaverNeverRepeats` holds. The loader's
   docstring calls the resume approximate; the comment at line 55 promises more.
4. *A drift guard that is not fresh* (`recalibration`, `calibration_lifecycle.py:93`). The
   alarm overwrites the guard's digest, so promotion compares the new guard with the
   alarm, and accepts the guard of the generation that failed.
5. *Scopes timed at resolve* (`run_meter`, `run_meter.py:103`). The end-to-end time of a
   scope runs until it is resolved, which in training is up to a hundred steps later.

Noticed while modelling, no disagreement with a document: `lease_ttl_ticks = 1` is
accepted and cannot be executed (`LeaseInStep`); failed attempts are never charged;
a run that has lost a unit goes on paying for the others; a scope that raises does not
return its event pair; a reference file torn by a kill blocks its stage until somebody
removes it; a rank that lags behind rank 0 at a save skips data after a resume; only the
weights of a checkpoint are bound by digest, so shards of an interrupted save may be
loaded with them (`ResumedTogether` names the case).

## Not modelled

Hash functions (a digest is what it digests), JSON, schemas, the contents of requests,
evidence and documents; float rounding; symbolic links and the other checks on evidence
paths; tensors, optimizers and batch packing; the buffered metrics writer and the energy,
memory and FLOP counters; the lattice, continuous assurance, and the other components
marked `not_modelled` in `PROJECT.json`, each with the reason. Most of the repository's
lines are numerical code and builders and verifiers of digest-bound documents, which keep
no state between calls: tests reach those, and these models say nothing about them.

## Plan

Done: coordinator, executor, closure ledger, memory, planner, self-falsification, evidence
generation and its closure, training job, calibration lifecycle, run meter; proofs of all
safety properties of the passing runs.

1. `EpistemicLattice`: records, capabilities and transitions of `lattice.py`; terminal
   states absorb, a capability is of use for one parent and claim only, authority rises
   one step at a time. Then its records feed `MemoryLedger` in place of
   `RecordsAssumptions`.
2. `ContinuousAssurance`: small, with hazards at `continuous_assurance.py:163`.
3. The metrics writer, with flushes that fail in the middle.
4. The executor's run with the mechanism executor's constants.
5. Theorems: a measure for the closer and the materializers like `StepsLeft`, the safety half
   of `ClosedOrNeedsRepair`; the closure ledger as seen by `MaterializationClosure` (a ledger
   write in one step) as an abstraction of `EvidenceClosure` with one closer; what does hold
   of drift guards in `CalibrationLifecycle`.
