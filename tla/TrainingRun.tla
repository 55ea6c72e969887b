----------------------------- MODULE TrainingRun -----------------------------
(***************************************************************************)
(* The training loop of scripts/base_train.py with its checkpoints          *)
(* (nanochat/checkpoint_manager.py) and its data (DocumentBatches). The     *)
(* ranks of a launch read their row groups at their own pace, take each     *)
(* training step together, and every SaveEvery steps write a checkpoint:    *)
(* rank 0 the model and then the metadata with the model's digest and its   *)
(* own loader position, each rank its optimizer shard. A crash takes all    *)
(* ranks down, and the job is launched again, afresh or from a checkpoint   *)
(* of the same directory.                                                   *)
(***************************************************************************)
EXTENDS DocumentBatches, FiniteSets

CONSTANTS
  NumIterations, SaveEvery,
  MaxLaunches,  \* bound: launches
  MaxReads,     \* bound: row groups that the ranks read in a launch, together
  None, Torn    \* no file; a file that was cut off

ASSUME TrainingAssumption ==
  /\ NumIterations \in Nat \ {0} /\ SaveEvery \in Nat \ {0}
  /\ MaxLaunches \in Nat /\ MaxReads \in Nat

VARIABLES
  phase,     \* of each rank: "down", "train", "model", "meta", "optim" or "done"
  launch,    \* number of the launch
  resumed,   \* resume_from_step, 0 without one
  step,
  trained,   \* row groups the model in memory has been trained on, in its lineage
  pos,       \* the row group that each rank has read last
  ahead,     \* the row groups that each rank has read in this launch
  model, meta, optim,  \* the checkpoint files of each step
  unfinished \* steps whose last save is going on, or was cut short by a crash

loader == <<pos, ahead>>
files == <<model, meta, optim>>
vars == <<phase, launch, resumed, step, trained, loader, files, unfinished>>

Steps == 1..NumIterations

\* The weights, as far as their digest tells them apart.
Weights == [launch |-> launch, step |-> step, trained |-> trained]

AllAt(p) == \A r \in Ranks : phase[r] = p

\* The ways for each rank to take one of its choices.
EachOf(choices) ==
  LET pairs == UNION {{r} \X choices[r] : r \in Ranks} IN
  {f \in [Ranks -> {p[2] : p \in pairs}] : \A r \in Ranks : <<r, f[r]>> \in pairs}

-----------------------------------------------------------------------------
(* Launching the job, up to the first batch that the loader yields. A rank  *)
(* reads as many of its next row groups as it takes to fill its buffer.     *)

ReadsBounded == Cardinality(UNION {ahead[r] : r \in Ranks}) <= MaxReads

Start(lineage, from, groups) ==
  /\ AllAt("down")
  /\ launch < MaxLaunches
  /\ launch' = launch + 1
  /\ phase' = [r \in Ranks |-> "train"]
  /\ trained' = lineage
  /\ step' = from /\ resumed' = from
  /\ pos' \in EachOf(groups)
  /\ ahead' = [r \in Ranks |-> Upto(groups[r], pos'[r])]
  /\ ReadsBounded'
  /\ UNCHANGED <<files, unfinished>>

LaunchFresh == Start({}, 0, [r \in Ranks |-> FirstGroups(r)])

\* Mutant: the weights are not compared with the digest in the metadata.
LoadsUnverified(k) ==
  /\ model[k] \notin {None, Torn} /\ meta[k] \notin {None, Torn}
  /\ \A r \in Ranks : optim[r][k] \notin {None, Torn}

\* load_checkpoint: every file of the step can be read, and the weights are those
\* of which the metadata hold the digest. The optimizer shards are not checked.
Loads(k) ==
  /\ model[k] \notin {None, Torn} /\ meta[k] \notin {None, Torn}
  /\ \A r \in Ranks : optim[r][k] \notin {None, Torn}
  /\ meta[k].digest = model[k]

\* All ranks resume from the one loader position in the metadata.
LaunchFrom(k) ==
  /\ Loads(k)
  /\ Start(model[k].trained, k, [r \in Ranks |-> ResumeGroups(r, meta[k].dataloader)])

-----------------------------------------------------------------------------
(* Training.                                                                *)

SaveDue(k) == k = NumIterations \/ (k # resumed /\ k % SaveEvery = 0)

\* The loop comes to step k, where a checkpoint may be due.
ToLoopTop(k) ==
  IF SaveDue(k)
  THEN /\ phase' = [r \in Ranks |-> IF r = 0 THEN "model" ELSE "optim"]
       /\ unfinished' = unfinished \cup {k}
  ELSE /\ phase' = [r \in Ranks |-> "train"]
       /\ UNCHANGED unfinished

\* grad_accum_steps times forward and backward on a batch per rank, and the next batch,
\* for which the rank may read on; then the update, for which the ranks reduce their
\* gradients together. The first batch is of row groups read before; the documents of the
\* others are of any that the rank has read, those it has read in this step among them.
TrainStep ==
  /\ AllAt("train")
  /\ step < NumIterations
  /\ pos' \in EachOf([r \in Ranks |-> {pos[r]} \cup NextGroups(r, pos[r])])
  /\ ahead' = [r \in Ranks |-> ahead[r] \cup Upto(NextGroups(r, pos[r]), pos'[r])]
  /\ ReadsBounded'
  /\ \E batch \in EachOf([r \in Ranks |-> {b \in SUBSET ahead'[r] : b \cap ahead[r] # {}}]) :
       trained' = trained \cup UNION {batch[r] : r \in Ranks}
  /\ step' = step + 1
  /\ ToLoopTop(step + 1)
  /\ UNCHANGED <<launch, resumed, files>>

\* A launch from the last checkpoint trains no step, and saves that step again.
SaveAgain ==
  /\ AllAt("train")
  /\ step = NumIterations
  /\ ToLoopTop(step)
  /\ UNCHANGED <<launch, resumed, step, trained, loader, files>>

-----------------------------------------------------------------------------
(* save_checkpoint: no rank waits for another one.                          *)

\* Rank r has saved its part. The save is over with the last rank.
Saved(r) ==
  /\ phase' = [phase EXCEPT ![r] = IF step = NumIterations THEN "done" ELSE "train"]
  /\ unfinished' = IF \A q \in Ranks \ {r} : phase[q] \in {"train", "done"}
                   THEN unfinished \ {step} ELSE unfinished

SaveModel ==
  /\ phase[0] = "model"
  /\ model' = [model EXCEPT ![step] = Weights]
  /\ phase' = [phase EXCEPT ![0] = "meta"]
  /\ UNCHANGED <<launch, resumed, step, trained, loader, meta, optim, unfinished>>

SaveMeta ==
  /\ phase[0] = "meta"
  /\ meta' = [meta EXCEPT ![step] = [digest |-> Weights, dataloader |-> pos[0]]]
  /\ phase' = [phase EXCEPT ![0] = "optim"]
  /\ UNCHANGED <<launch, resumed, step, trained, loader, model, optim, unfinished>>

\* Mutant: a shard that exists is not written again.
SaveOptimOnce(r) ==
  /\ phase[r] = "optim"
  /\ optim' = [optim EXCEPT ![r][step] = IF @ = None THEN Weights ELSE @]
  /\ Saved(r)
  /\ UNCHANGED <<launch, resumed, step, trained, loader, model, meta>>

SaveOptim(r) ==
  /\ phase[r] = "optim"
  /\ optim' = [optim EXCEPT ![r][step] = Weights]
  /\ Saved(r)
  /\ UNCHANGED <<launch, resumed, step, trained, loader, model, meta>>

\* The run is over: its processes are gone.
Exit ==
  /\ AllAt("done")
  /\ launch < MaxLaunches
  /\ phase' = [r \in Ranks |-> "down"]
  /\ trained' = {} /\ step' = 0 /\ resumed' = 0
  /\ pos' = [r \in Ranks |-> None] /\ ahead' = [r \in Ranks |-> {}]
  /\ UNCHANGED <<launch, files, unfinished>>

\* All ranks die; any of the files that were being written is as it was, or cut off.
Crash ==
  /\ ~AllAt("down") /\ ~AllAt("done")
  /\ launch < MaxLaunches
  /\ phase' = [r \in Ranks |-> "down"]
  /\ \E cut \in SUBSET {r \in Ranks : phase[r] \in {"model", "meta", "optim"}} :
       /\ model' = IF 0 \in cut /\ phase[0] = "model" THEN [model EXCEPT ![step] = Torn] ELSE model
       /\ meta' = IF 0 \in cut /\ phase[0] = "meta" THEN [meta EXCEPT ![step] = Torn] ELSE meta
       /\ optim' = [r \in Ranks |-> IF r \in cut /\ phase[r] = "optim"
                                    THEN [optim[r] EXCEPT ![step] = Torn] ELSE optim[r]]
  /\ trained' = {} /\ step' = 0 /\ resumed' = 0
  /\ pos' = [r \in Ranks |-> None] /\ ahead' = [r \in Ranks |-> {}]
  /\ UNCHANGED <<launch, unfinished>>

-----------------------------------------------------------------------------
Init ==
  /\ phase = [r \in Ranks |-> "down"]
  /\ launch = 0 /\ resumed = 0 /\ step = 0
  /\ trained = {}
  /\ pos = [r \in Ranks |-> None] /\ ahead = [r \in Ranks |-> {}]
  /\ model = [k \in Steps |-> None]
  /\ meta = [k \in Steps |-> None]
  /\ optim = [r \in Ranks |-> [k \in Steps |-> None]]
  /\ unfinished = {}

Next ==
  \/ LaunchFresh \/ \E k \in Steps : LaunchFrom(k)
  \/ TrainStep \/ SaveAgain
  \/ SaveModel \/ SaveMeta \/ \E r \in Ranks : SaveOptim(r)
  \/ Exit \/ Crash

Spec == Init /\ [][Next]_vars
-----------------------------------------------------------------------------
(* Properties                                                               *)

Phases == {"down", "train", "model", "meta", "optim", "done"}
Position == [pass : Nat, group : GroupNumbers]
WeightsType == [launch : Nat, step : Nat, trained : SUBSET Position]
MetaType == [digest : WeightsType, dataloader : Position]

TypeOK ==
  /\ phase \in [Ranks -> Phases]
  /\ launch \in Nat /\ resumed \in Nat /\ step \in Nat
  /\ trained \in SUBSET Position
  /\ pos \in [Ranks -> Position \cup {None}]
  /\ ahead \in [Ranks -> SUBSET Position]
  /\ model \in [Steps -> WeightsType \cup {None, Torn}]
  /\ meta \in [Steps -> MetaType \cup {None, Torn}]
  /\ optim \in [Ranks -> [Steps -> WeightsType \cup {None, Torn}]]
  /\ unfinished \in SUBSET Steps

\* The sharding of the data: in one launch, resumed or not, no two ranks read the
\* same row group.
RanksReadApart ==
  \A r, q \in Ranks : r # q => ahead[r] \cap ahead[q] = {}

\* What the model had been trained on before a step; at a launch, what it was loaded with.
TrainedBefore == IF launch' = launch THEN trained ELSE trained'

\* "advance by 1 so we don't repeat data after resuming", for every rank: a row
\* group that the resumed model has been trained on is not read again.
NoRankRepeats ==
  [][\A r \in Ranks : (ahead'[r] \ ahead[r]) \cap TrainedBefore = {}]_vars

\* The same for rank 0, whose position it is that is saved, over every chain of
\* launches and crashes.
SaverNeverRepeats == [][(ahead'[0] \ ahead[0]) \cap TrainedBefore = {}]_vars

\* A run resumes with the optimizer state of the very weights that it loads, of
\* whatever launches the files of that step come from: only the weights are checked
\* against the metadata. A step whose last save was cut short is the one case in which
\* the code lets another shard through, and is left out.
ResumedTogether ==
  [][\A k \in Steps :
       k \notin unfinished /\ (\E r \in Ranks : optim[r][k] # model[k]) => ~LaunchFrom(k)]_vars

-----------------------------------------------------------------------------
(* The inductive invariant.                                                 *)

Shard(r) == {p \in Position : p.group % WorldSize = r}

\* A running rank has read row groups, all of its own shard.
ReadsItsShard ==
  \A r \in Ranks :
    /\ ahead[r] \subseteq Shard(r)
    /\ phase[r] # "down" => pos[r] \in ahead[r]

\* No row group of rank 0 in S comes after a position.
Reached(S, at) == \A p \in S \cap Shard(0) : ~Before(at, p)

\* The position of rank 0 has reached what rank 0 has read and what the model has
\* been trained on; a saved one, what the model of that digest has been trained on.
PositionReachesTrained ==
  /\ phase[0] # "down" => Reached(ahead[0] \cup trained, pos[0])
  /\ \A k \in Steps : meta[k] \notin {None, Torn} =>
       /\ meta[k].dataloader \in Shard(0)
       /\ Reached(meta[k].digest.trained, meta[k].dataloader)

Saving == {"model", "meta", "optim"}

\* During a save, the step is unfinished, and what has been saved is of the weights
\* in memory; every other step has its files from one save.
SavedTogether ==
  /\ \A r \in Ranks : r # 0 => phase[r] \notin {"model", "meta"}
  /\ (\E r \in Ranks : phase[r] \in Saving) =>
       /\ step \in unfinished
       /\ phase[0] # "model" => model[step] = Weights
       /\ \A r \in Ranks : phase[r] \in {"train", "done"} => optim[r][step] = Weights
  /\ \A k \in Steps \ unfinished : \A r \in Ranks : optim[r][k] = model[k]

TrainingIInv == TypeOK /\ ReadsItsShard /\ PositionReachesTrained /\ SavedTogether
=============================================================================
