-------------------------- MODULE TrainingRunProofs --------------------------
(***************************************************************************)
(* Theorems about TrainingRun, for any number of ranks, files, row groups,  *)
(* steps and launches.                                                      *)
(***************************************************************************)
EXTENDS TrainingRun, Integers, FiniteSetTheorems, TLAPS

-----------------------------------------------------------------------------
(* The positions of the loader.                                             *)

LEMMA RankZero == 0 \in Ranks /\ Ranks \subseteq Nat /\ WorldSize \in Nat \ {0}
BY LoaderAssumption DEF Ranks

LEMMA GroupNumbersNat == GroupNumbers \subseteq Nat
<1> SUFFICES ASSUME NEW g \in GroupNumbers PROVE g \in Nat
  OBVIOUS
<1>1. PICK f \in 1..Len(RowGroups) : g \in 0..(RowGroups[f] - 1)
  BY DEF GroupNumbers
<1>2. RowGroups[f] \in Nat
  BY LoaderAssumption
<1> QED
  BY <1>1, <1>2

\* A rank looks ahead by whole rounds of the files, and by one at least.
LEMMA Horizon ==
  /\ Len(RowGroups) \in Nat
  /\ MaxRounds * Len(RowGroups) \in Nat
  /\ MaxRounds * Len(RowGroups) >= Len(RowGroups)
<1>1. Len(RowGroups) \in Nat /\ MaxRounds \in Nat \ {0}
  BY LoaderAssumption
<1> HIDE LoaderAssumption
<1>2. ASSUME NEW m \in Nat \ {0}, NEW n \in Nat PROVE m * n \in Nat /\ m * n >= n
  <2>1. m - 1 \in Nat /\ m * n = (m - 1) * n + n
    BY <1>2
  <2>2. (m - 1) * n \in Nat
    BY <2>1, <1>2
  <2> QED
    BY <1>2, <2>1, <2>2
<1> QED
  BY <1>1, <1>2

LEMMA AssignedInShard ==
  ASSUME NEW r \in Ranks, NEW n \in Nat
  PROVE  /\ Assigned(r, n) \subseteq Shard(r)
         /\ \A q \in Assigned(r, n) : q.pass >= n
<1> DEFINE h == MaxRounds * Len(RowGroups)
<1>1. h \in Nat
  BY Horizon
<1>2. Assigned(r, n) = {p \in [pass : n..(n + h), group : GroupNumbers] :
                          p.group < GroupsOf(p.pass) /\ p.group % WorldSize = r}
  BY DEF Assigned
<1> HIDE DEF h
<1>3. n..(n + h) \subseteq Nat
  BY <1>1
<1>4. ASSUME NEW q \in Assigned(r, n) PROVE q \in Shard(r) /\ q.pass >= n
  <2>1. /\ q \in [pass : n..(n + h), group : GroupNumbers]
        /\ q.pass \in n..(n + h) /\ q.group \in GroupNumbers /\ q.group % WorldSize = r
    BY <1>2
  <2>2. q \in Position
    BY <1>3, <2>1 DEF Position
  <2> QED
    BY <1>1, <2>1, <2>2 DEF Shard
<1> QED
  BY <1>4

\* A larger quotient is one of a larger number.
LEMMA DivMonotone ==
  ASSUME NEW a \in Nat, NEW b \in Nat, NEW w \in Nat \ {0}, a \div w > b \div w
  PROVE  a > b
<1> DEFINE qa == a \div w
           qb == b \div w
<1>1. qa \in Int /\ qb \in Int
  OBVIOUS
<1>2. w * qa <= a
  OBVIOUS
<1>3. b < w * (qb + 1)
  OBVIOUS
<1>4. w * (qb + 1) <= w * qa
  <2>1. qb + 1 <= qa
    BY <1>1
  <2> HIDE DEF qa, qb
  <2> QED
    BY <1>1, <2>1
<1> QED
  <2> HIDE DEF qa, qb
  <2> QED
    BY <1>1, <1>2, <1>3, <1>4

\* Where a rank starts is in its shard.
LEMMA FirstFacts ==
  ASSUME NEW r \in Ranks PROVE FirstGroups(r) \subseteq Shard(r)
BY AssignedInShard DEF FirstGroups

\* Where it goes on is in its shard, and after where it was.
LEMMA NextFacts ==
  ASSUME NEW r \in Ranks, NEW p \in Position
  PROVE  /\ NextGroups(r, p) \subseteq Shard(r)
         /\ \A q \in NextGroups(r, p) : Before(p, q)
<1>1. p.pass \in Nat
  BY DEF Position
<1> QED
  BY <1>1, AssignedInShard DEF NextGroups

\* Where it resumes is in its shard, and after the saved position.
LEMMA ResumeFacts ==
  ASSUME NEW r \in Ranks, NEW at \in Position
  PROVE  /\ ResumeGroups(r, at) \subseteq Shard(r)
         /\ \A q \in ResumeGroups(r, at) : Before(at, q)
<1> SUFFICES ASSUME NEW q \in ResumeGroups(r, at) PROVE q \in Shard(r) /\ Before(at, q)
  OBVIOUS
<1>1. /\ q \in Assigned(r, at.pass)
      /\ q.pass = at.pass => q.group \div WorldSize > at.group \div WorldSize
  BY DEF ResumeGroups
<1>2. at.pass \in Nat /\ at.group \in Nat
  BY GroupNumbersNat DEF Position
<1>3. q \in Shard(r) /\ q.pass >= at.pass
  BY <1>1, <1>2, AssignedInShard
<1>4. q.pass \in Nat /\ q.group \in Nat
  BY <1>3, GroupNumbersNat DEF Shard, Position
<1>5. CASE q.pass = at.pass
  <2>1. q.group > at.group
    BY <1>1, <1>2, <1>4, <1>5, DivMonotone, RankZero
  <2> QED
    BY <1>3, <1>5, <2>1, <1>2, <1>4 DEF Before
<1>6. CASE q.pass # at.pass
  BY <1>2, <1>3, <1>4, <1>6 DEF Before
<1> QED
  BY <1>5, <1>6

\* Two shards have no row group in common.
LEMMA ShardsApart ==
  ASSUME NEW r, NEW q, r # q PROVE Shard(r) \cap Shard(q) = {}
BY DEF Shard

LEMMA BeforeOrder ==
  ASSUME NEW p \in Position, NEW q \in Position, NEW s \in Position
  PROVE  /\ ~Before(p, p)
         /\ Before(p, q) => ~Before(q, p)
         /\ ~Before(p, s) /\ Before(p, q) => ~Before(q, s)
<1>1. /\ p.pass \in Nat /\ p.group \in Nat /\ q.pass \in Nat /\ q.group \in Nat
      /\ s.pass \in Nat /\ s.group \in Nat
  BY GroupNumbersNat DEF Position
<1> QED
  BY <1>1 DEF Before

\* Reading up to a row group takes that one, and none that comes after it.
LEMMA UptoFacts ==
  ASSUME NEW S, S \subseteq Position, NEW q \in S
  PROVE  /\ q \in Upto(S, q) /\ Upto(S, q) \subseteq S
         /\ \A p \in Upto(S, q) : ~Before(q, p)
BY BeforeOrder DEF Upto

LEMMA EachOfFacts ==
  ASSUME NEW choices, NEW f \in EachOf(choices)
  PROVE  /\ f = [r \in Ranks |-> f[r]]
         /\ \A r \in Ranks : f[r] \in choices[r]
<1> DEFINE pairs == UNION {{r} \X choices[r] : r \in Ranks}
<1>1. /\ f \in [Ranks -> {p[2] : p \in pairs}]
      /\ \A r \in Ranks : <<r, f[r]>> \in pairs
  BY DEF EachOf
<1>2. ASSUME NEW r \in Ranks PROVE f[r] \in choices[r]
  <2>1. PICK q \in Ranks : <<r, f[r]>> \in {q} \X choices[q]
    BY <1>1
  <2>2. r = q /\ f[r] \in choices[q]
    BY <2>1
  <2> QED
    BY <2>2
<1> QED
  BY <1>1, <1>2

-----------------------------------------------------------------------------
(* The inductive invariant.                                                 *)

LEMMA ShardPosition == \A r : Shard(r) \subseteq Position
BY DEF Shard

LEMMA TrainingInit == Init => TrainingIInv
<1> SUFFICES ASSUME Init PROVE TrainingIInv
  OBVIOUS
<1>1. TypeOK
  BY DEF Init, TypeOK, Phases
<1>2. ReadsItsShard
  BY DEF Init, ReadsItsShard
<1>3. PositionReachesTrained
  BY RankZero DEF Init, PositionReachesTrained
<1>4. SavedTogether
  BY RankZero DEF Init, SavedTogether, Saving
<1> QED
  BY <1>1, <1>2, <1>3, <1>4 DEF TrainingIInv

\* Starting the ranks, each on row groups of its shard; rank 0 after what the model
\* has been trained on.
LEMMA StartStep ==
  ASSUME TrainingIInv, NEW lineage \in SUBSET Position, NEW from \in Nat, NEW groups,
         Start(lineage, from, groups),
         \A r \in Ranks : groups[r] \subseteq Shard(r),
         \A q \in groups[0] : \A p \in lineage \cap Shard(0) : Before(p, q)
  PROVE  TrainingIInv'
<1>1. /\ pos' = [r \in Ranks |-> pos'[r]]
      /\ \A r \in Ranks : pos'[r] \in groups[r]
  BY EachOfFacts DEF Start
<1>2. \A r \in Ranks : pos'[r] \in Shard(r) /\ pos'[r] \in Position /\ groups[r] \subseteq Position
  BY <1>1, ShardPosition
<1>3. \A r \in Ranks : ahead'[r] = Upto(groups[r], pos'[r]) /\ phase'[r] = "train"
  BY DEF Start
<1> DEFINE at == pos'
<1>4. ASSUME NEW r \in Ranks
      PROVE  /\ pos'[r] \in ahead'[r] /\ ahead'[r] \subseteq Shard(r)
             /\ \A p \in ahead'[r] : ~Before(pos'[r], p)
  <2>1. at[r] \in groups[r] /\ groups[r] \subseteq Position
    BY <1>1, <1>2
  <2> HIDE DEF at
  <2>2. /\ at[r] \in Upto(groups[r], at[r]) /\ Upto(groups[r], at[r]) \subseteq groups[r]
        /\ \A p \in Upto(groups[r], at[r]) : ~Before(at[r], p)
    BY <2>1, UptoFacts
  <2> QED
    BY <1>3, <2>2 DEF at
<1>5. TypeOK'
  <2>1. pos' \in [Ranks -> Position \cup {None}]
    BY <1>1, <1>2
  <2>2. ahead' \in [Ranks -> SUBSET Position]
    <3>1. ahead' = [r \in Ranks |-> ahead'[r]]
      BY DEF Start
    <3> QED
      BY <1>4, <3>1, ShardPosition
  <2>3. launch' \in Nat /\ phase' \in [Ranks -> Phases]
    BY DEF Start, TrainingIInv, TypeOK, Phases
  <2> QED
    BY <2>1, <2>2, <2>3 DEF Start, TrainingIInv, TypeOK, files
<1>6. ReadsItsShard'
  BY <1>4 DEF ReadsItsShard
<1>7. PositionReachesTrained'
  <2>1. Reached(ahead'[0] \cup trained', pos'[0])
    <3> SUFFICES ASSUME NEW p \in (ahead'[0] \cup trained') \cap Shard(0)
                 PROVE ~Before(pos'[0], p)
      BY DEF Reached
    <3>1. p \in Position /\ pos'[0] \in Position
      BY <1>2, RankZero, ShardPosition
    <3>2. CASE p \in ahead'[0]
      BY <1>4, <3>2, RankZero
    <3>3. CASE p \in trained'
      <4>1. Before(p, pos'[0])
        BY <1>1, <3>3, RankZero DEF Start
      <4> QED
        BY <3>1, <4>1, BeforeOrder
    <3> QED
      BY <3>2, <3>3
  <2>2. meta' = meta
    BY DEF Start, files
  <2> QED
    BY <2>1, <2>2 DEF TrainingIInv, PositionReachesTrained, Reached
<1>8. SavedTogether'
  <2>1. /\ \A r \in Ranks : phase'[r] \notin Saving /\ phase'[r] \notin {"model", "meta"}
        /\ unfinished' = unfinished /\ optim' = optim /\ model' = model
    BY <1>3 DEF Start, Saving, files
  <2> QED
    BY <2>1 DEF TrainingIInv, SavedTogether
<1> QED
  BY <1>5, <1>6, <1>7, <1>8 DEF TrainingIInv

LEMMA LaunchFreshStep == ASSUME TrainingIInv, LaunchFresh PROVE TrainingIInv'
<1> DEFINE groups == [r \in Ranks |-> FirstGroups(r)]
<1>1. \A r \in Ranks : groups[r] \subseteq Shard(r)
  BY FirstFacts
<1>2. Start({}, 0, groups)
  BY DEF LaunchFresh
<1> HIDE DEF groups
<1> QED
  BY <1>1, <1>2, StartStep

\* What a readable checkpoint of step k says.
LEMMA LoadsFacts ==
  ASSUME TrainingIInv, NEW k \in Steps, Loads(k)
  PROVE  /\ model[k].trained \in SUBSET Position
         /\ meta[k].dataloader \in Shard(0)
         /\ Reached(model[k].trained, meta[k].dataloader)
<1>1. model[k] \in WeightsType /\ meta[k] \notin {None, Torn} /\ meta[k].digest = model[k]
  BY DEF Loads, TrainingIInv, TypeOK
<1> QED
  BY <1>1 DEF TrainingIInv, PositionReachesTrained, WeightsType

\* The position that rank 0 resumes at comes after all that it has trained on.
LEMMA ResumesAfter ==
  ASSUME TrainingIInv, NEW k \in Steps, Loads(k),
         NEW q \in ResumeGroups(0, meta[k].dataloader),
         NEW p \in model[k].trained \cap Shard(0)
  PROVE  Before(p, q)
<1> DEFINE at == meta[k].dataloader
<1>1. /\ at \in Position /\ p \in Position /\ ~Before(at, p)
  BY LoadsFacts, ShardPosition DEF Reached
<1>2. q \in Position /\ Before(at, q)
  BY <1>1, RankZero, ResumeFacts, ShardPosition
<1>3. /\ at.pass \in Nat /\ at.group \in Nat /\ p.pass \in Nat /\ p.group \in Nat
      /\ q.pass \in Nat /\ q.group \in Nat
  BY <1>1, <1>2, GroupNumbersNat DEF Position
<1> QED
  BY <1>1, <1>2, <1>3 DEF Before

LEMMA LaunchFromStep ==
  ASSUME TrainingIInv, NEW k \in Steps, LaunchFrom(k) PROVE TrainingIInv'
<1> DEFINE groups == [r \in Ranks |-> ResumeGroups(r, meta[k].dataloader)]
           lineage == model[k].trained
<1>1. Loads(k) /\ Start(lineage, k, groups)
  BY DEF LaunchFrom
<1>2. lineage \in SUBSET Position /\ meta[k].dataloader \in Position
  BY <1>1, LoadsFacts, ShardPosition
<1>3. \A r \in Ranks : groups[r] \subseteq Shard(r)
  BY <1>2, ResumeFacts
<1>4. \A q \in groups[0] : \A p \in lineage \cap Shard(0) : Before(p, q)
  BY <1>1, RankZero, ResumesAfter
<1>5. k \in Nat
  BY TrainingAssumption DEF Steps
<1> HIDE DEF groups, lineage
<1> QED
  BY <1>1, <1>2, <1>3, <1>4, <1>5, StartStep

\* The loop comes to a step with nothing saved of it yet.
LEMMA ToLoopTopStep ==
  ASSUME TrainingIInv, AllAt("train"), NEW k \in Steps, ToLoopTop(k), step' = k,
         UNCHANGED files
  PROVE  /\ phase' \in [Ranks -> Phases]
         /\ unfinished' \in SUBSET Steps
         /\ SavedTogether'
<1>1. CASE SaveDue(k)
  <2>1. /\ phase' = [r \in Ranks |-> IF r = 0 THEN "model" ELSE "optim"]
        /\ unfinished' = unfinished \cup {k}
    BY <1>1 DEF ToLoopTop
  <2>2. /\ phase'[0] = "model"
        /\ \A r \in Ranks : r # 0 => phase'[r] = "optim"
    BY <2>1, RankZero
  <2>3. \A j \in Steps \ unfinished' : \A r \in Ranks : optim'[r][j] = model'[j]
    BY <2>1 DEF TrainingIInv, SavedTogether, files
  <2>4. phase' \in [Ranks -> Phases] /\ unfinished' \in SUBSET Steps
    BY <2>1 DEF TrainingIInv, TypeOK, Phases
  <2>5. \A r \in Ranks : phase'[r] \notin {"train", "done"}
    BY <2>2
  <2>6. step' \in unfinished'
    BY <2>1
  <2> QED
    BY <2>2, <2>3, <2>4, <2>5, <2>6 DEF SavedTogether
<1>2. CASE ~SaveDue(k)
  <2>1. phase' = [r \in Ranks |-> "train"] /\ unfinished' = unfinished
    BY <1>2 DEF ToLoopTop
  <2>2. phase' \in [Ranks -> Phases] /\ unfinished' \in SUBSET Steps
    BY <2>1 DEF TrainingIInv, TypeOK, Phases
  <2>3. \A r \in Ranks : phase'[r] \notin Saving /\ phase'[r] \notin {"model", "meta"}
    BY <2>1 DEF Saving
  <2> QED
    BY <2>1, <2>2, <2>3 DEF TrainingIInv, SavedTogether, files
<1> QED
  BY <1>1, <1>2

\* Where the next batches take a rank: nowhere, or to later row groups of its own.
LEMMA TrainReads ==
  ASSUME TrainingIInv, TrainStep, NEW r \in Ranks
  PROVE  /\ pos[r] \in ahead[r] /\ pos[r] \in Shard(r)
         /\ ahead'[r] = ahead[r] \cup Upto(NextGroups(r, pos[r]), pos'[r])
         /\ pos'[r] \in ahead'[r] /\ ahead'[r] \subseteq Shard(r)
         /\ pos'[r] = pos[r] \/ Before(pos[r], pos'[r])
         /\ \A p \in ahead'[r] \ ahead[r] : Before(pos[r], p) /\ ~Before(pos'[r], p)
<1> DEFINE next == NextGroups(r, pos[r])
           at == pos'[r]
<1>1. pos[r] \in ahead[r] /\ pos[r] \in Shard(r) /\ ahead[r] \subseteq Shard(r)
  BY DEF TrainStep, AllAt, TrainingIInv, ReadsItsShard
<1>2. at \in {pos[r]} \cup next
  BY EachOfFacts DEF TrainStep
<1>3. pos[r] \in Position
  BY <1>1, ShardPosition
<1>4. ahead'[r] = ahead[r] \cup Upto(next, at)
  BY DEF TrainStep
<1>5. next \subseteq Shard(r) /\ next \subseteq Position /\ \A q \in next : Before(pos[r], q)
  BY <1>3, NextFacts, ShardPosition
<1> HIDE DEF next, at
<1>6. Upto(next, at) \subseteq next /\ \A p \in Upto(next, at) : ~Before(at, p)
  BY DEF Upto
<1>7. at \in next => at \in Upto(next, at)
  BY <1>5, UptoFacts
<1> QED
  BY <1>1, <1>2, <1>4, <1>5, <1>6, <1>7 DEF next, at

\* What a step trains on has been read by then, by the rank whose shard it is of.
LEMMA TrainsOnReads ==
  ASSUME TrainingIInv, TrainStep
  PROVE  /\ trained' \in SUBSET Position
         /\ \A p \in trained' \cap Shard(0) : p \in trained \cup ahead'[0]
<1>1. PICK batch \in EachOf([r \in Ranks |-> {b \in SUBSET ahead'[r] : b \cap ahead[r] # {}}]) :
        trained' = trained \cup UNION {batch[r] : r \in Ranks}
  BY DEF TrainStep
<1> DEFINE read == [r \in Ranks |-> {b \in SUBSET ahead'[r] : b \cap ahead[r] # {}}]
<1>2. \A r \in Ranks : batch[r] \subseteq ahead'[r]
  <2>1. \A r \in Ranks : batch[r] \in read[r]
    <3> HIDE DEF read
    <3> QED
      BY <1>1, EachOfFacts DEF read
  <2> QED
    BY <2>1
<1>3. \A r \in Ranks : batch[r] \subseteq Shard(r)
  BY <1>2, TrainReads
<1>4. trained' \in SUBSET Position
  BY <1>1, <1>3, ShardPosition DEF TrainingIInv, TypeOK
<1>5. ASSUME NEW p \in trained' \cap Shard(0), p \notin trained PROVE p \in ahead'[0]
  <2>1. PICK r \in Ranks : p \in batch[r]
    BY <1>1, <1>5
  <2>2. r = 0
    BY <1>3, <1>5, <2>1, RankZero, ShardsApart
  <2> QED
    BY <1>2, <2>1, <2>2
<1> QED
  BY <1>4, <1>5

LEMMA TrainStepStep == ASSUME TrainingIInv, TrainStep PROVE TrainingIInv'
<1>1. /\ phase' \in [Ranks -> Phases] /\ unfinished' \in SUBSET Steps
      /\ SavedTogether'
  <2>1. step + 1 \in Steps
    BY TrainingAssumption DEF TrainingIInv, TypeOK, TrainStep, Steps
  <2> QED
    BY <2>1, ToLoopTopStep DEF TrainStep
<1>2. TypeOK'
  <2>1. pos' \in [Ranks -> Position \cup {None}]
    <3>1. pos' = [r \in Ranks |-> pos'[r]]
      BY EachOfFacts DEF TrainStep
    <3> QED
      BY <3>1, TrainReads, ShardPosition
  <2>2. ahead' \in [Ranks -> SUBSET Position]
    <3>1. ahead' = [r \in Ranks |-> ahead'[r]]
      BY DEF TrainStep
    <3> QED
      BY <3>1, TrainReads, ShardPosition
  <2>3. step' \in Nat
    BY DEF TrainStep, TrainingIInv, TypeOK
  <2> QED
    BY <1>1, <2>1, <2>2, <2>3, TrainsOnReads DEF TrainStep, TrainingIInv, TypeOK, files
<1>3. ReadsItsShard'
  BY TrainReads DEF ReadsItsShard, TrainingIInv
<1>4. PositionReachesTrained'
  <2>1. Reached(ahead'[0] \cup trained', pos'[0])
    <3> SUFFICES ASSUME NEW p \in (ahead'[0] \cup trained') \cap Shard(0)
                 PROVE ~Before(pos'[0], p)
      BY DEF Reached
    <3>1. p \in trained \cup ahead'[0]
      BY TrainsOnReads
    <3>2. CASE p \in ahead'[0] \ ahead[0]
      BY <3>2, TrainReads, RankZero
    <3>3. CASE p \in ahead[0] \cup trained
      <4>1. ~Before(pos[0], p)
        BY <3>3, RankZero DEF TrainStep, AllAt, TrainingIInv, PositionReachesTrained, Reached
      <4>2. p \in Position /\ pos[0] \in Position /\ pos'[0] \in Position
        BY TrainReads, RankZero, ShardPosition
      <4> QED
        BY <4>1, <4>2, TrainReads, RankZero, BeforeOrder
    <3> QED
      BY <3>1, <3>2, <3>3
  <2>2. meta' = meta
    BY DEF TrainStep, files
  <2> QED
    BY <2>1, <2>2 DEF TrainingIInv, PositionReachesTrained, Reached
<1> QED
  BY <1>1, <1>2, <1>3, <1>4 DEF TrainingIInv

LEMMA SaveAgainStep == ASSUME TrainingIInv, SaveAgain PROVE TrainingIInv'
<1>1. /\ phase' \in [Ranks -> Phases] /\ unfinished' \in SUBSET Steps
      /\ SavedTogether'
  <2>1. step \in Steps /\ step' = step
    BY TrainingAssumption DEF SaveAgain, Steps
  <2> QED
    BY <2>1, ToLoopTopStep DEF SaveAgain
<1>2. TypeOK'
  BY <1>1 DEF SaveAgain, TrainingIInv, TypeOK, loader, files
<1>3. \A r \in Ranks : phase[r] # "down"
  BY DEF SaveAgain, AllAt
<1>4. ReadsItsShard' /\ PositionReachesTrained'
  BY <1>3, RankZero DEF SaveAgain, TrainingIInv, ReadsItsShard, PositionReachesTrained, Reached, loader, files
<1> QED
  BY <1>1, <1>2, <1>4 DEF TrainingIInv

\* What a save writes is of the type of the files, and of the step being saved.
LEMMA SavingFacts ==
  ASSUME TrainingIInv, NEW r \in Ranks, phase[r] \in Saving
  PROVE  Weights \in WeightsType /\ step \in Steps /\ step \in unfinished
BY DEF TrainingIInv, TypeOK, SavedTogether, Weights, WeightsType

\* A step that writes only a file of the step being saved, or moves only ranks that
\* are running, leaves the reads and the trained row groups as they were.
LEMMA ReadsKept ==
  ASSUME TrainingIInv, UNCHANGED <<trained, loader, meta>>,
         \A r \in Ranks : phase'[r] # "down" => phase[r] # "down"
  PROVE  ReadsItsShard' /\ PositionReachesTrained'
BY RankZero DEF TrainingIInv, ReadsItsShard, PositionReachesTrained, Reached, loader

LEMMA SaveModelStep == ASSUME TrainingIInv, SaveModel PROVE TrainingIInv'
<1>1. Weights \in WeightsType /\ step \in Steps /\ step \in unfinished
  BY RankZero, SavingFacts DEF SaveModel, Saving
<1>2. /\ model' = [model EXCEPT ![step] = Weights]
      /\ phase' = [phase EXCEPT ![0] = "meta"]
      /\ phase[0] = "model"
      /\ UNCHANGED <<launch, resumed, step, trained, loader, meta, optim, unfinished>>
  BY DEF SaveModel
<1>3. /\ phase \in [Ranks -> Phases]
      /\ model \in [Steps -> WeightsType \cup {None, Torn}]
  BY DEF TrainingIInv, TypeOK
<1>4. /\ phase'[0] = "meta" /\ phase' \in [Ranks -> Phases]
      /\ \A r \in Ranks : r # 0 => phase'[r] = phase[r]
  BY <1>2, <1>3, RankZero DEF Phases
<1>5. /\ model'[step] = Weights
      /\ model' \in [Steps -> WeightsType \cup {None, Torn}]
      /\ \A k \in Steps : k # step => model'[k] = model[k]
  BY <1>1, <1>2, <1>3
<1>6. TypeOK'
  BY <1>2, <1>4, <1>5 DEF TrainingIInv, TypeOK, loader
<1>7. ReadsItsShard' /\ PositionReachesTrained'
  BY <1>2, <1>4, ReadsKept
<1>8. SavedTogether'
  <2>1. Weights' = Weights
    BY <1>2 DEF Weights
  <2>2. \A r \in Ranks : phase'[r] \in {"train", "done"} => optim'[r][step] = Weights
    BY <1>2, <1>4, RankZero DEF TrainingIInv, SavedTogether, Saving
  <2>3. \A k \in Steps \ unfinished' : \A r \in Ranks : optim'[r][k] = model'[k]
    BY <1>1, <1>2, <1>5 DEF TrainingIInv, SavedTogether
  <2>4. \A r \in Ranks : r # 0 => phase'[r] \notin {"model", "meta"}
    BY <1>4 DEF TrainingIInv, SavedTogether
  <2> QED
    BY <1>1, <1>2, <1>5, <2>1, <2>2, <2>3, <2>4 DEF SavedTogether
<1> QED
  BY <1>6, <1>7, <1>8 DEF TrainingIInv

LEMMA SaveMetaStep == ASSUME TrainingIInv, SaveMeta PROVE TrainingIInv'
<1> DEFINE m == [digest |-> Weights, dataloader |-> pos[0]]
<1>1. Weights \in WeightsType /\ step \in Steps /\ step \in unfinished
  BY RankZero, SavingFacts DEF SaveMeta, Saving
<1>2. /\ meta' = [meta EXCEPT ![step] = m]
      /\ phase' = [phase EXCEPT ![0] = "optim"]
      /\ phase[0] = "meta"
      /\ UNCHANGED <<launch, resumed, step, trained, loader, model, optim, unfinished>>
  BY DEF SaveMeta
<1>3. /\ pos[0] \in Shard(0) /\ pos[0] \in Position
      /\ Reached(trained, pos[0])
  BY <1>2, RankZero, ShardPosition DEF TrainingIInv, ReadsItsShard, PositionReachesTrained, Reached
<1>4. m \in MetaType /\ m.dataloader = pos[0] /\ m.digest.trained = trained
  BY <1>1, <1>3 DEF MetaType, Weights
<1>5. /\ phase \in [Ranks -> Phases]
      /\ meta \in [Steps -> MetaType \cup {None, Torn}]
  BY DEF TrainingIInv, TypeOK
<1> HIDE DEF m
<1>6. /\ phase'[0] = "optim" /\ phase' \in [Ranks -> Phases]
      /\ \A r \in Ranks : r # 0 => phase'[r] = phase[r]
  BY <1>2, <1>5, RankZero DEF Phases
<1>7. /\ meta'[step] = m
      /\ meta' \in [Steps -> MetaType \cup {None, Torn}]
      /\ \A k \in Steps : k # step => meta'[k] = meta[k]
  BY <1>1, <1>2, <1>4, <1>5
<1>8. TypeOK'
  BY <1>2, <1>6, <1>7 DEF TrainingIInv, TypeOK, loader
<1>9. ReadsItsShard'
  BY <1>2, <1>6, RankZero DEF TrainingIInv, ReadsItsShard, loader
<1>10. PositionReachesTrained'
  <2>1. Reached(ahead'[0] \cup trained', pos'[0])
    BY <1>2 DEF TrainingIInv, PositionReachesTrained, Reached, loader
  <2>2. ASSUME NEW k \in Steps, meta'[k] \notin {None, Torn}
        PROVE  /\ meta'[k].dataloader \in Shard(0)
               /\ Reached(meta'[k].digest.trained, meta'[k].dataloader)
    BY <1>3, <1>4, <1>7, <2>2 DEF TrainingIInv, PositionReachesTrained
  <2> QED
    BY <2>1, <2>2 DEF PositionReachesTrained, Reached
<1>11. SavedTogether'
  <2>1. Weights' = Weights
    BY <1>2 DEF Weights
  <2>2. \A r \in Ranks : phase'[r] \in {"train", "done"} => optim'[r][step] = Weights
    BY <1>2, <1>6, RankZero DEF TrainingIInv, SavedTogether, Saving
  <2>3. model'[step] = Weights
    BY <1>2, RankZero DEF TrainingIInv, SavedTogether, Saving
  <2>4. \A k \in Steps \ unfinished' : \A r \in Ranks : optim'[r][k] = model'[k]
    BY <1>2 DEF TrainingIInv, SavedTogether
  <2>5. \A r \in Ranks : r # 0 => phase'[r] \notin {"model", "meta"}
    BY <1>6 DEF TrainingIInv, SavedTogether
  <2> QED
    BY <1>1, <1>2, <2>1, <2>2, <2>3, <2>4, <2>5 DEF SavedTogether
<1> QED
  BY <1>8, <1>9, <1>10, <1>11 DEF TrainingIInv

LEMMA SaveOptimStep ==
  ASSUME TrainingIInv, NEW r \in Ranks, SaveOptim(r) PROVE TrainingIInv'
<1> DEFINE next == IF step = NumIterations THEN "done" ELSE "train"
<1>1. Weights \in WeightsType /\ step \in Steps /\ step \in unfinished
  BY SavingFacts DEF SaveOptim, Saving
<1>2. /\ optim' = [optim EXCEPT ![r][step] = Weights]
      /\ phase' = [phase EXCEPT ![r] = next]
      /\ phase[r] = "optim"
      /\ UNCHANGED <<launch, resumed, step, trained, loader, model, meta>>
  BY DEF SaveOptim, Saved
<1>3. /\ phase \in [Ranks -> Phases]
      /\ optim \in [Ranks -> [Steps -> WeightsType \cup {None, Torn}]]
  BY DEF TrainingIInv, TypeOK
<1>4. next \in {"train", "done"}
  OBVIOUS
<1> HIDE DEF next
<1>5. /\ phase'[r] = next /\ phase' \in [Ranks -> Phases]
      /\ \A q \in Ranks : q # r => phase'[q] = phase[q]
  BY <1>2, <1>3, <1>4 DEF Phases
<1>6. /\ optim' \in [Ranks -> [Steps -> WeightsType \cup {None, Torn}]]
      /\ optim'[r][step] = Weights
      /\ \A k \in Steps : k # step => optim'[r][k] = optim[r][k]
      /\ \A q \in Ranks : q # r => optim'[q] = optim[q]
  BY <1>1, <1>2, <1>3
<1>7. unfinished' \in {unfinished, unfinished \ {step}}
  BY DEF SaveOptim, Saved
<1>8. TypeOK'
  BY <1>2, <1>5, <1>6, <1>7 DEF TrainingIInv, TypeOK, loader
<1>9. ReadsItsShard' /\ PositionReachesTrained'
  BY <1>2, <1>5, ReadsKept
<1>10. /\ phase[0] # "model" => model[step] = Weights
       /\ \A q \in Ranks : phase[q] \in {"train", "done"} => optim[q][step] = Weights
  BY <1>2 DEF TrainingIInv, SavedTogether, Saving
<1>11. Weights' = Weights
  BY <1>2 DEF Weights
<1>12. \A q \in Ranks : phase'[q] \in {"train", "done"} => optim'[q][step] = Weights
  BY <1>5, <1>6, <1>10
<1>13. \A q \in Ranks : q # 0 => phase'[q] \notin {"model", "meta"}
  BY <1>4, <1>5 DEF TrainingIInv, SavedTogether
<1>14. phase'[0] # "model" => model'[step] = Weights
  BY <1>2, <1>5, <1>10, RankZero
<1>15. SavedTogether'
  <2>1. CASE \A q \in Ranks \ {r} : phase[q] \in {"train", "done"}
    <3>1. unfinished' = unfinished \ {step}
      BY <2>1 DEF SaveOptim, Saved
    <3>2. \A q \in Ranks : phase'[q] \in {"train", "done"}
      BY <1>4, <1>5, <2>1
    <3>3. \A q \in Ranks : phase'[q] \notin Saving
      BY <3>2 DEF Saving
    <3>4. model'[step] = Weights
      BY <1>14, <3>2, RankZero
    <3>5. ASSUME NEW k \in Steps \ unfinished', NEW q \in Ranks
          PROVE  optim'[q][k] = model'[k]
      <4>1. CASE k = step
        BY <1>12, <3>2, <3>4, <4>1
      <4>2. CASE k # step
        BY <1>2, <1>6, <3>1, <4>2 DEF TrainingIInv, SavedTogether
      <4> QED
        BY <4>1, <4>2
    <3> QED
      BY <1>13, <3>3, <3>5 DEF SavedTogether
  <2>2. CASE ~\A q \in Ranks \ {r} : phase[q] \in {"train", "done"}
    <3>1. unfinished' = unfinished
      BY <2>2 DEF SaveOptim, Saved
    <3>2. \A k \in Steps \ unfinished' : \A q \in Ranks : optim'[q][k] = model'[k]
      BY <1>1, <1>2, <1>6, <3>1 DEF TrainingIInv, SavedTogether
    <3> QED
      BY <1>1, <1>2, <1>11, <1>12, <1>13, <1>14, <3>1, <3>2 DEF SavedTogether
  <2> QED
    BY <2>1, <2>2
<1> QED
  BY <1>8, <1>9, <1>15 DEF TrainingIInv

\* The ranks are gone, and of the files only those of the step that was being saved have
\* changed; the metadata are as they were, or cut off.
LEMMA DownStep ==
  ASSUME TrainingIInv,
         phase' = [r \in Ranks |-> "down"],
         trained' = {} /\ step' = 0 /\ resumed' = 0,
         pos' = [r \in Ranks |-> None] /\ ahead' = [r \in Ranks |-> {}],
         UNCHANGED <<launch, unfinished>>,
         \A k \in Steps : meta'[k] \in {meta[k], Torn},
         \A k \in Steps \ unfinished :
           model'[k] = model[k] /\ \A r \in Ranks : optim'[r][k] = optim[r][k],
         model' \in [Steps -> WeightsType \cup {None, Torn}],
         meta' \in [Steps -> MetaType \cup {None, Torn}],
         optim' \in [Ranks -> [Steps -> WeightsType \cup {None, Torn}]]
  PROVE  TrainingIInv'
<1>1. TypeOK'
  BY DEF TrainingIInv, TypeOK, Phases
<1>2. ReadsItsShard'
  BY DEF ReadsItsShard
<1>3. PositionReachesTrained'
  <2>1. phase'[0] = "down"
    BY RankZero
  <2>2. ASSUME NEW k \in Steps, meta'[k] \notin {None, Torn}
        PROVE  /\ meta'[k].dataloader \in Shard(0)
               /\ Reached(meta'[k].digest.trained, meta'[k].dataloader)
    BY <2>2 DEF TrainingIInv, PositionReachesTrained
  <2> QED
    BY <2>1, <2>2 DEF PositionReachesTrained, Reached
<1>4. SavedTogether'
  BY DEF TrainingIInv, SavedTogether, Saving
<1> QED
  BY <1>1, <1>2, <1>3, <1>4 DEF TrainingIInv

LEMMA ExitStep == ASSUME TrainingIInv, Exit PROVE TrainingIInv'
<1>1. /\ model \in [Steps -> WeightsType \cup {None, Torn}]
      /\ meta \in [Steps -> MetaType \cup {None, Torn}]
      /\ optim \in [Ranks -> [Steps -> WeightsType \cup {None, Torn}]]
  BY DEF TrainingIInv, TypeOK
<1>2. model' = model /\ meta' = meta /\ optim' = optim
  BY DEF Exit, files
<1> QED
  BY <1>1, <1>2, DownStep DEF Exit

LEMMA CrashStep == ASSUME TrainingIInv, Crash PROVE TrainingIInv'
<1> DEFINE Writing == {r \in Ranks : phase[r] \in {"model", "meta", "optim"}}
<1>1. /\ model \in [Steps -> WeightsType \cup {None, Torn}]
      /\ meta \in [Steps -> MetaType \cup {None, Torn}]
      /\ optim \in [Ranks -> [Steps -> WeightsType \cup {None, Torn}]]
  BY DEF TrainingIInv, TypeOK
<1>2. PICK cut \in SUBSET Writing :
        /\ model' = IF 0 \in cut /\ phase[0] = "model" THEN [model EXCEPT ![step] = Torn] ELSE model
        /\ meta' = IF 0 \in cut /\ phase[0] = "meta" THEN [meta EXCEPT ![step] = Torn] ELSE meta
        /\ optim' = [r \in Ranks |-> IF r \in cut /\ phase[r] = "optim"
                                     THEN [optim[r] EXCEPT ![step] = Torn] ELSE optim[r]]
  BY DEF Crash
<1>3. ASSUME cut # {} PROVE step \in Steps /\ step \in unfinished
  BY <1>3, SavingFacts DEF Saving
<1>4. /\ model' \in [Steps -> WeightsType \cup {None, Torn}]
      /\ \A k \in Steps \ unfinished : model'[k] = model[k]
  <2>1. CASE model' = model
    BY <1>1, <2>1
  <2>2. CASE cut # {} /\ model' = [model EXCEPT ![step] = Torn]
    BY <1>1, <1>3, <2>2
  <2> QED
    BY <1>2, <2>1, <2>2
<1>5. /\ meta' \in [Steps -> MetaType \cup {None, Torn}]
      /\ \A k \in Steps : meta'[k] \in {meta[k], Torn}
  <2>1. CASE meta' = meta
    BY <1>1, <2>1
  <2>2. CASE meta' = [meta EXCEPT ![step] = Torn]
    BY <1>1, <2>2
  <2> QED
    BY <1>2, <2>1, <2>2
<1>6. ASSUME NEW r \in Ranks
      PROVE  /\ optim'[r] \in [Steps -> WeightsType \cup {None, Torn}]
             /\ \A k \in Steps \ unfinished : optim'[r][k] = optim[r][k]
  <2>1. CASE optim'[r] = optim[r]
    BY <1>1, <2>1
  <2>2. CASE cut # {} /\ optim'[r] = [optim[r] EXCEPT ![step] = Torn]
    BY <1>1, <1>3, <2>2
  <2>3. \/ optim'[r] = optim[r]
        \/ cut # {} /\ optim'[r] = [optim[r] EXCEPT ![step] = Torn]
    BY <1>2
  <2> QED
    BY <2>1, <2>2, <2>3
<1>7. optim' \in [Ranks -> [Steps -> WeightsType \cup {None, Torn}]]
  <2>1. optim' = [r \in Ranks |-> optim'[r]]
    BY <1>2
  <2> QED
    BY <1>6, <2>1
<1> QED
  BY <1>4, <1>5, <1>6, <1>7, DownStep DEF Crash

LEMMA TrainingStep == TrainingIInv /\ [Next]_vars => TrainingIInv'
<1> SUFFICES ASSUME TrainingIInv, [Next]_vars PROVE TrainingIInv'
  OBVIOUS
<1>1. CASE UNCHANGED vars
  <2>1. Weights' = Weights
    BY <1>1 DEF vars, Weights
  <2> QED
    BY <1>1, <2>1 DEF vars, loader, files, TrainingIInv, TypeOK, ReadsItsShard, PositionReachesTrained, Reached, SavedTogether
<1>2. CASE Next
  BY <1>2, LaunchFreshStep, LaunchFromStep, TrainStepStep, SaveAgainStep, SaveModelStep,
     SaveMetaStep, SaveOptimStep, ExitStep, CrashStep DEF Next
<1> QED
  BY <1>1, <1>2

-----------------------------------------------------------------------------
(* The theorems.                                                            *)

\* TrainingIInv is inductive: ranks read their own shards, the position that is saved
\* has reached what the model has been trained on, and a finished save is of one model.
THEOREM TrainingInvariant == Spec => []TrainingIInv
<1> QED
  BY TrainingInit, TrainingStep, PTL DEF Spec

\* Two ranks never read the same row group in one launch, from wherever it resumes.
THEOREM ReadApart == Spec => []RanksReadApart
<1>1. TrainingIInv => RanksReadApart
  <2> SUFFICES ASSUME TrainingIInv, NEW r \in Ranks, NEW q \in Ranks, r # q
               PROVE ahead[r] \cap ahead[q] = {}
    BY DEF RanksReadApart
  <2>1. ahead[r] \subseteq Shard(r) /\ ahead[q] \subseteq Shard(q)
    BY DEF TrainingIInv, ReadsItsShard
  <2> QED
    BY <2>1, ShardsApart
<1> QED
  BY <1>1, TrainingInvariant, PTL

\* A row group that rank 0 reads now has not been trained on.
LEMMA SaverReadsNew ==
  ASSUME TrainingIInv, Next PROVE (ahead'[0] \ ahead[0]) \cap TrainedBefore = {}
<1>1. ASSUME NEW lineage, NEW from, NEW groups, Start(lineage, from, groups)
      PROVE  TrainedBefore = lineage /\ ahead'[0] \subseteq groups[0]
  <2>1. launch' # launch /\ trained' = lineage
    BY <1>1 DEF Start, TrainingIInv, TypeOK
  <2>2. ahead'[0] = Upto(groups[0], pos'[0])
    BY <1>1, RankZero DEF Start
  <2> QED
    BY <2>1, <2>2 DEF TrainedBefore, Upto
<1>2. CASE LaunchFresh
  <2>1. TrainedBefore = {}
    BY <1>1, <1>2 DEF LaunchFresh
  <2> QED
    BY <2>1
<1>3. CASE \E k \in Steps : LaunchFrom(k)
  <2>1. PICK k \in Steps : LaunchFrom(k)
    BY <1>3
  <2> DEFINE groups == [r \in Ranks |-> ResumeGroups(r, meta[k].dataloader)]
  <2>2. Loads(k) /\ Start(model[k].trained, k, groups)
    BY <2>1 DEF LaunchFrom
  <2>3. TrainedBefore = model[k].trained /\ ahead'[0] \subseteq groups[0]
    <3> HIDE DEF groups
    <3> QED
      BY <1>1, <2>2
  <2>4. ahead'[0] \subseteq ResumeGroups(0, meta[k].dataloader)
    BY <2>3, RankZero
  <2>5. ResumeGroups(0, meta[k].dataloader) \subseteq Shard(0)
    BY <2>2, LoadsFacts, ResumeFacts, RankZero, ShardPosition
  <2>6. ASSUME NEW q \in ahead'[0], q \in model[k].trained PROVE FALSE
    <3>1. Before(q, q)
      BY <2>2, <2>4, <2>5, <2>6, ResumesAfter
    <3> QED
      BY <2>4, <2>5, <2>6, <3>1, ShardPosition, BeforeOrder
  <2> QED
    BY <2>3, <2>6
<1>4. CASE TrainStep
  <2>1. TrainedBefore = trained
    BY <1>4 DEF TrainStep, TrainedBefore
  <2>2. Reached(trained, pos[0])
    BY <1>4, RankZero DEF TrainStep, AllAt, TrainingIInv, PositionReachesTrained, Reached
  <2>3. \A p \in ahead'[0] \ ahead[0] : Before(pos[0], p) /\ p \in Shard(0)
    BY <1>4, TrainReads, RankZero
  <2> QED
    BY <2>1, <2>2, <2>3 DEF Reached
<1>5. CASE SaveAgain \/ SaveModel \/ SaveMeta \/ \E r \in Ranks : SaveOptim(r)
  BY <1>5 DEF SaveAgain, SaveModel, SaveMeta, SaveOptim, loader
<1>6. CASE Exit \/ Crash
  BY <1>6, RankZero DEF Exit, Crash
<1> QED
  BY <1>2, <1>3, <1>4, <1>5, <1>6 DEF Next

\* Rank 0 never reads again what the model it resumed has been trained on.
THEOREM SaverReadsOnce == Spec => SaverNeverRepeats
<1>1. TrainingIInv /\ [Next]_vars => [(ahead'[0] \ ahead[0]) \cap TrainedBefore = {}]_vars
  BY SaverReadsNew
<1> QED
  BY <1>1, TrainingInvariant, PTL DEF Spec, SaverNeverRepeats

\* A checkpoint whose last save was finished resumes with the optimizer shards of the
\* model that is loaded, on every rank: a step with another shard is not resumed from.
THEOREM Resumed == Spec => ResumedTogether
<1>1. TrainingIInv /\ [Next]_vars =>
        [\A k \in Steps :
           k \notin unfinished /\ (\E r \in Ranks : optim[r][k] # model[k]) => ~LaunchFrom(k)]_vars
  BY DEF TrainingIInv, SavedTogether
<1> QED
  BY <1>1, TrainingInvariant, PTL DEF Spec, ResumedTogether

\* On one rank the saved position is the position of every rank, and no row group is
\* read again: that other ranks do read theirs again is what a run of TrainingRun shows.
THEOREM OneRankReadsOnce == ASSUME WorldSize = 1 PROVE Spec => NoRankRepeats
<1>1. \A r \in Ranks : r = 0
  BY DEF Ranks
<1>2. [(ahead'[0] \ ahead[0]) \cap TrainedBefore = {}]_vars
        => [\A r \in Ranks : (ahead'[r] \ ahead[r]) \cap TrainedBefore = {}]_vars
  BY <1>1
<1> QED
  BY <1>2, SaverReadsOnce, PTL DEF SaverNeverRepeats, NoRankRepeats

-----------------------------------------------------------------------------
(* The loader never ends.                                                   *)

\* The least-number principle, from the well-founded order of the subsets of 0..n.
LEMMA SmallestMember ==
  ASSUME NEW T, T \subseteq Nat, T # {} PROVE \E m \in T : \A k \in T : m <= k
<1>1. PICK n \in T : n \in Nat
  OBVIOUS
<1> DEFINE S == 0..n
           F == {0..k : k \in T \cap S}
<1>2. FiniteSubsetsOf(S) = SUBSET S
  <2>1. IsFiniteSet(S)
    BY <1>1, FS_Interval
  <2> HIDE DEF S
  <2> QED BY <2>1, FS_FiniteSubsetsOfFinite
<1>3. F \subseteq FiniteSubsetsOf(S) /\ F # {}
  BY <1>1, <1>2
<1>4. IsWellFoundedOn(StrictSubsetOrdering(S), FiniteSubsetsOf(S))
  BY FS_StrictSubsetOrderingWellFounded
<1> HIDE DEF F
<1>5. PICK X \in F : \A Y \in F : ~(<<Y, X>> \in StrictSubsetOrdering(S))
  BY <1>3, <1>4, WFMin
<1>6. PICK m \in T \cap S : X = 0..m
  BY <1>5 DEF F
<1>7. ASSUME NEW k \in T, k < m PROVE FALSE
  <2>1. k \in T \cap S /\ m \in Nat /\ k \in Nat /\ m <= n
    BY <1>1, <1>6, <1>7
  <2>2. 0..k \in F
    BY <2>1 DEF F
  <2>3. 0..k \subseteq 0..m /\ 0..m \subseteq S /\ 0..k \subseteq S /\ 0..k # 0..m
    BY <1>7, <2>1
  <2>4. <<0..k, 0..m>> \in StrictSubsetOrdering(S)
    BY <1>1, <2>3 DEF StrictSubsetOrdering
  <2> QED BY <1>5, <1>6, <2>2, <2>4
<1> QED BY <1>6, <1>7

\* The row group of a set that a rank comes to first.
Least(S) == {p \in S : \A q \in S : q = p \/ Before(p, q)}

\* A set of positions has one least member.
LEMMA LeastExists ==
  ASSUME NEW S, S \subseteq Position, S # {}
  PROVE  \E q \in S : Least(S) = {q}
<1> DEFINE passes == {p.pass : p \in S}
<1>1. \A p \in S : p.pass \in Nat /\ p.group \in Nat /\ p = [pass |-> p.pass, group |-> p.group]
  <2> SUFFICES ASSUME NEW p \in S
               PROVE  p.pass \in Nat /\ p.group \in Nat /\ p = [pass |-> p.pass, group |-> p.group]
    OBVIOUS
  <2>1. p \in [pass : Nat, group : GroupNumbers]
    BY DEF Position
  <2>2. p.pass \in Nat /\ p.group \in GroupNumbers
    BY <2>1
  <2>3. p = [pass |-> p.pass, group |-> p.group]
    BY <2>1
  <2> QED
    BY <2>2, <2>3, GroupNumbersNat
<1>2. PICK m \in passes : \A k \in passes : m <= k
  <2>1. passes \subseteq Nat /\ passes # {}
    BY <1>1
  <2> HIDE DEF passes
  <2> QED
    BY <2>1, SmallestMember
<1> DEFINE groups == {p.group : p \in {s \in S : s.pass = m}}
<1>3. PICK g \in groups : \A k \in groups : g <= k
  <2>1. groups \subseteq Nat /\ groups # {}
    BY <1>1, <1>2
  <2> HIDE DEF groups
  <2> QED
    BY <2>1, SmallestMember
<1>4. PICK q \in S : q.pass = m /\ q.group = g
  BY <1>3
<1>5. \A s \in S : s = q \/ Before(q, s)
  BY <1>1, <1>2, <1>3, <1>4 DEF Before
<1>6. \A s \in S : (\A t \in S : t = s \/ Before(s, t)) => s = q
  BY <1>1, <1>5 DEF Before
<1> QED
  BY <1>4, <1>5, <1>6 DEF Least

\* The remainder of a number that is written as a multiple and a remainder.
LEMMA RemainderIsUnique ==
  ASSUME NEW w \in Nat \ {0}, NEW k \in Nat, NEW b \in 0..(w - 1)
  PROVE  (w * k + b) % w = b /\ b % w = b
OBVIOUS

\* A file with a row group for every rank comes round within as many passes as there
\* are files, after any pass.
LEMMA RoundHasGroup ==
  ASSUME NEW r \in Ranks, NEW n \in Nat
  PROVE  \E q \in Assigned(r, n) : q.pass > n
<1> DEFINE L == Len(RowGroups)
<1>1. PICK f \in 1..L : RowGroups[f] >= WorldSize
  BY LoaderAssumption
<1>2. L \in Nat \ {0} /\ RowGroups[f] \in Nat /\ f - 1 \in 0..(L - 1)
  BY <1>1, LoaderAssumption
<1>3. PICK pass \in (n + 1)..(n + L) : pass % L = f - 1
  <2> DEFINE k == (n + 1) \div L
             m == (n + 1) % L
  <2>1. k \in Nat /\ m \in 0..(L - 1) /\ n + 1 = L * k + m
    BY <1>2
  <2> HIDE DEF k, m, L
  <2>2. (L * k + (f - 1)) % L = f - 1 /\ (L * (k + 1) + (f - 1)) % L = f - 1
    <3>1. k + 1 \in Nat
      BY <2>1
    <3> QED
      BY <1>2, <2>1, <3>1, RemainderIsUnique
  <2>3. L * (k + 1) = L * k + L /\ L * k \in Nat
    BY <1>2, <2>1
  <2>4. CASE f - 1 >= m
    <3>1. L * k + (f - 1) \in (n + 1)..(n + L)
      BY <1>2, <2>1, <2>3, <2>4
    <3> QED
      BY <2>2, <3>1
  <2>5. CASE ~(f - 1 >= m)
    <3>1. L * (k + 1) + (f - 1) \in (n + 1)..(n + L)
      BY <1>2, <2>1, <2>3, <2>5
    <3> QED
      BY <2>2, <3>1
  <2> QED
    BY <2>4, <2>5
<1>4. GroupsOf(pass) = RowGroups[f]
  BY <1>2, <1>3 DEF GroupsOf
<1> DEFINE q == [pass |-> pass, group |-> r]
<1>5. r \in Nat /\ r < WorldSize /\ WorldSize \in Nat \ {0} /\ r % WorldSize = r
  <2>1. WorldSize \in Nat \ {0} /\ r \in 0..(WorldSize - 1)
    BY LoaderAssumption DEF Ranks
  <2> QED
    BY <2>1, RemainderIsUnique
<1>6. r \in GroupNumbers
  BY <1>1, <1>2, <1>5 DEF GroupNumbers
<1>7. pass \in n..(n + MaxRounds * L) /\ pass > n
  <2>1. MaxRounds * L \in Nat /\ MaxRounds * L >= L
    BY Horizon
  <2> DEFINE h == MaxRounds * L
  <2> HIDE DEF h, L
  <2> QED
    BY <1>2, <1>3, <2>1 DEF h
<1>8. q \in Assigned(r, n)
  BY <1>1, <1>2, <1>4, <1>5, <1>6, <1>7 DEF Assigned
<1> QED
  BY <1>7, <1>8

\* _document_batches yields for ever, and where it goes is determined: wherever a rank
\* is and wherever it resumes, there is one row group that it reads next, although a
\* file may have none for it. It needs one file with a row group for every rank.
THEOREM LoaderYields ==
  ASSUME NEW r \in Ranks, NEW p \in Position
  PROVE  /\ \E q \in Shard(r) : Least(FirstGroups(r)) = {q}
         /\ \E q \in Shard(r) : Least(NextGroups(r, p)) = {q}
         /\ \E q \in Shard(r) : Least(ResumeGroups(r, p)) = {q}
<1>1. p.pass \in Nat
  BY DEF Position
<1>2. ASSUME NEW n \in Nat, NEW S \in SUBSET Assigned(r, n), S # {}
      PROVE  \E q \in Shard(r) : Least(S) = {q}
  BY <1>2, AssignedInShard, ShardPosition, LeastExists
<1>3. PICK a \in Assigned(r, 0) : TRUE
  BY RoundHasGroup
<1>4. PICK b \in Assigned(r, p.pass) : b.pass > p.pass
  BY <1>1, RoundHasGroup
<1>5. Before(p, b) /\ b.pass # p.pass
  <2>1. b.pass \in Nat
    BY <1>1, <1>4, AssignedInShard, ShardPosition DEF Position
  <2> QED
    BY <1>1, <1>4, <2>1 DEF Before
<1>6. Assigned(r, 0) # {}
  BY <1>3
<1>7. {q \in Assigned(r, p.pass) : Before(p, q)} # {}
  BY <1>4, <1>5
<1>8. {q \in Assigned(r, p.pass) :
         q.pass = p.pass => q.group \div WorldSize > p.group \div WorldSize} # {}
  BY <1>4, <1>5
<1> QED
  BY <1>1, <1>2, <1>6, <1>7, <1>8 DEF FirstGroups, NextGroups, ResumeGroups

-----------------------------------------------------------------------------
(* Where a rank goes on after a resume.                                     *)

\* Of numbers with one remainder, the larger has the larger quotient.
LEMMA DivSameRemainder ==
  ASSUME NEW a \in Nat, NEW b \in Nat, NEW w \in Nat \ {0}, a % w = b % w, a > b
  PROVE  a \div w > b \div w
<1> DEFINE qa == a \div w
           qb == b \div w
           m  == a % w
<1>1. qa \in Nat /\ qb \in Nat /\ m \in Nat /\ a = w * qa + m
  OBVIOUS
<1>2. b = w * qb + m
  OBVIOUS
<1>3. qa <= qb => w * qa <= w * qb
  <2> HIDE DEF qa, qb, m
  <2> QED
    BY <1>1
<1>4. w * qa \in Nat /\ w * qb \in Nat
  BY <1>1
<1> HIDE DEF qa, qb, m
<1>5. ~(qa <= qb)
  BY <1>1, <1>2, <1>3, <1>4
<1> QED
  BY <1>1, <1>5 DEF qa, qb

\* A rank that was in the stride of the saved position, as all ranks are that read in
\* step with rank 0, resumes at the very row groups that it would have read next: it
\* neither repeats nor skips one.
THEOREM ResumeInStride ==
  ASSUME NEW r \in Ranks, NEW at \in Position, NEW p \in Shard(r),
         p.pass = at.pass, p.group \div WorldSize = at.group \div WorldSize
  PROVE  ResumeGroups(r, at) = NextGroups(r, p)
<1>1. /\ p \in Position /\ p.pass \in Nat /\ p.group \in Nat /\ p.group % WorldSize = r
      /\ WorldSize \in Nat \ {0}
  BY ShardPosition, GroupNumbersNat, LoaderAssumption DEF Position, Shard
<1>2. ASSUME NEW q \in Assigned(r, p.pass)
      PROVE  (q.pass = p.pass => q.group \div WorldSize > p.group \div WorldSize) <=> Before(p, q)
  <2>1. q.pass \in Nat /\ q.group \in Nat /\ q.group % WorldSize = r
    BY <1>1, AssignedInShard, ShardPosition, GroupNumbersNat DEF Position, Shard
  <2>2. q.pass >= p.pass
    BY <1>1, AssignedInShard
  <2>3. q.group \div WorldSize > p.group \div WorldSize <=> q.group > p.group
    BY <1>1, <2>1, DivMonotone, DivSameRemainder
  <2> QED
    BY <1>1, <2>1, <2>2, <2>3 DEF Before
<1>3. {q \in Assigned(r, at.pass) :
         q.pass = at.pass => q.group \div WorldSize > at.group \div WorldSize}
        = {q \in Assigned(r, p.pass) : Before(p, q)}
  BY <1>2
<1> QED
  BY <1>3 DEF ResumeGroups, NextGroups

\* "advance by 1 so we don't repeat data after resuming": nor is a row group left out.
\* Rank 0 begins a resumed launch with the row groups that follow the one it had saved.
\* What was left of that one is not read: the resume is approximate.
SaverGoesOn ==
  [][\A k \in Steps : LaunchFrom(k) =>
       LET rest == NextGroups(0, meta[k].dataloader) IN
       pos'[0] \in rest /\ ahead'[0] = Upto(rest, pos'[0])]_vars

THEOREM SaverSkipsNothing == Spec => SaverGoesOn
<1>1. ASSUME TrainingIInv, NEW k \in Steps, LaunchFrom(k)
      PROVE  LET rest == NextGroups(0, meta[k].dataloader)
             IN  pos'[0] \in rest /\ ahead'[0] = Upto(rest, pos'[0])
  <2> DEFINE at == meta[k].dataloader
             groups == [r \in Ranks |-> ResumeGroups(r, at)]
  <2>1. at \in Shard(0) /\ at \in Position
    BY <1>1, LoadsFacts, ShardPosition DEF LaunchFrom
  <2>2. ResumeGroups(0, at) = NextGroups(0, at)
    BY <2>1, RankZero, ResumeInStride
  <2>3. pos'[0] \in groups[0] /\ ahead'[0] = Upto(groups[0], pos'[0])
    BY <1>1, EachOfFacts, RankZero DEF LaunchFrom, Start
  <2>4. groups[0] = ResumeGroups(0, at)
    BY RankZero
  <2> QED
    BY <2>2, <2>3, <2>4
<1>2. TrainingIInv /\ [Next]_vars =>
        [\A k \in Steps : LaunchFrom(k) =>
           LET rest == NextGroups(0, meta[k].dataloader) IN
           pos'[0] \in rest /\ ahead'[0] = Upto(rest, pos'[0])]_vars
  BY <1>1
<1> QED
  BY <1>2, TrainingInvariant, PTL DEF Spec, SaverGoesOn

-----------------------------------------------------------------------------
(* What a rank reads in one launch.                                         *)

\* The row groups of the dataset that are rank r's, in any pass.
RowGroupsOf(r) == {q \in Shard(r) : q.group < GroupsOf(q.pass)}

\* A rank reads its row groups without a gap: between one that it has read in this
\* launch and the one where it is, it has read all of its own, through files that have
\* none for it and from one epoch into the next.
NoGaps ==
  \A r \in Ranks : \A p \in ahead[r], q \in RowGroupsOf(r) :
    Before(p, q) /\ ~Before(pos[r], q) => q \in ahead[r]

\* From a pass on, a rank comes to every row group of its own that is not after one that
\* it comes to.
LEMMA AssignedBetween ==
  ASSUME NEW r \in Ranks, NEW n \in Nat, NEW u \in Assigned(r, n), NEW q \in RowGroupsOf(r),
         q.pass >= n, ~Before(u, q)
  PROVE  q \in Assigned(r, n)
<1> DEFINE h == MaxRounds * Len(RowGroups)
<1>1. h \in Nat
  BY Horizon
<1>2. Assigned(r, n) = {p \in [pass : n..(n + h), group : GroupNumbers] :
                          p.group < GroupsOf(p.pass) /\ p.group % WorldSize = r}
  BY DEF Assigned
<1> HIDE DEF h
<1>3. u.pass \in n..(n + h)
  BY <1>2
<1>4. /\ q \in Position /\ q.pass \in Nat
      /\ q.group < GroupsOf(q.pass) /\ q.group % WorldSize = r
  BY ShardPosition DEF RowGroupsOf, Shard, Position
<1>5. q.pass \in n..(n + h)
  BY <1>1, <1>3, <1>4 DEF Before
<1> QED
  BY <1>2, <1>4, <1>5 DEF Position

\* Wherever it begins, it comes to all of its own between two that it comes to.
LEMMA GroupsBetween ==
  ASSUME NEW r \in Ranks, NEW at \in Position, NEW groups,
         groups \in {FirstGroups(r), ResumeGroups(r, at), NextGroups(r, at)},
         NEW p \in groups, NEW u \in groups, NEW q \in RowGroupsOf(r),
         Before(p, q), ~Before(u, q)
  PROVE  q \in groups
<1>1. /\ at.pass \in Nat /\ at.group \in Nat /\ q \in Position
      /\ q.pass \in Nat /\ q.group \in Nat /\ WorldSize \in Nat \ {0}
  <2>1. q \in Position
    BY ShardPosition DEF RowGroupsOf
  <2> QED
    BY <2>1, GroupNumbersNat, RankZero DEF Position
<1>2. CASE groups = FirstGroups(r)
  BY <1>1, <1>2, AssignedBetween DEF FirstGroups
<1>3. ASSUME p \in Assigned(r, at.pass), u \in Assigned(r, at.pass)
      PROVE  /\ q \in Assigned(r, at.pass)
             /\ p \in Position /\ p.pass \in Nat /\ p.group \in Nat /\ p.pass >= at.pass
  <2>1. p \in Position /\ p.pass >= at.pass
    BY <1>1, <1>3, AssignedInShard, ShardPosition
  <2>2. p.pass \in Nat /\ p.group \in Nat
    BY <2>1, GroupNumbersNat DEF Position
  <2>3. q.pass >= at.pass
    BY <1>1, <2>1, <2>2 DEF Before
  <2> QED
    BY <1>1, <1>3, <2>1, <2>2, <2>3, AssignedBetween
<1>4. CASE groups = NextGroups(r, at)
  <2>1. q \in Assigned(r, at.pass) /\ p \in Position /\ Before(at, p)
    BY <1>3, <1>4 DEF NextGroups
  <2>2. Before(at, q)
    BY <1>1, <1>3, <1>4, <2>1 DEF NextGroups, Before
  <2> QED
    BY <1>4, <2>1, <2>2 DEF NextGroups
<1>5. CASE groups = ResumeGroups(r, at)
  <2>1. /\ q \in Assigned(r, at.pass)
        /\ p.pass \in Nat /\ p.group \in Nat /\ p.pass >= at.pass
        /\ p.pass = at.pass => p.group \div WorldSize > at.group \div WorldSize
    BY <1>3, <1>5 DEF ResumeGroups
  <2>2. ASSUME q.pass = at.pass PROVE q.group \div WorldSize > at.group \div WorldSize
    <3>1. p.pass = at.pass /\ p.group < q.group
      BY <1>1, <2>1, <2>2 DEF Before
    <3>2. ~(p.group \div WorldSize > q.group \div WorldSize)
      BY <1>1, <2>1, <3>1, DivMonotone
    <3>3. /\ p.group \div WorldSize \in Int /\ q.group \div WorldSize \in Int
          /\ at.group \div WorldSize \in Int
      BY <1>1, <2>1
    <3> QED
      BY <2>1, <3>1, <3>2, <3>3
  <2> QED
    BY <1>5, <2>1, <2>2 DEF ResumeGroups
<1> QED
  BY <1>2, <1>4, <1>5

LEMMA NoGapsStep == TrainingIInv /\ NoGaps /\ [Next]_vars => NoGaps'
<1> SUFFICES ASSUME TrainingIInv, NoGaps, [Next]_vars PROVE NoGaps'
  OBVIOUS
<1>1. CASE LaunchFresh \/ \E k \in Steps : LaunchFrom(k)
  <2> SUFFICES ASSUME NEW r \in Ranks, NEW p \in ahead'[r], NEW q \in RowGroupsOf(r),
                      Before(p, q), ~Before(pos'[r], q)
               PROVE  q \in ahead'[r]
    BY DEF NoGaps, RowGroupsOf, Shard, Position, GroupNumbers, GroupsOf
  <2>1. PICK at \in Position : \E groups \in {FirstGroups(r), ResumeGroups(r, at)} :
          pos'[r] \in groups /\ ahead'[r] = Upto(groups, pos'[r])
    <3>1. CASE LaunchFresh
      <4>1. pos'[r] \in FirstGroups(r) /\ ahead'[r] = Upto(FirstGroups(r), pos'[r])
        BY <3>1, EachOfFacts DEF LaunchFresh, Start
      <4>2. q \in Position
        BY ShardPosition DEF RowGroupsOf
      <4> QED
        BY <4>1, <4>2
    <3>2. CASE \E k \in Steps : LaunchFrom(k)
      <4>1. PICK k \in Steps : LaunchFrom(k)
        BY <3>2
      <4>2. meta[k].dataloader \in Position
        BY <4>1, LoadsFacts, ShardPosition DEF LaunchFrom
      <4>3. /\ pos'[r] \in ResumeGroups(r, meta[k].dataloader)
            /\ ahead'[r] = Upto(ResumeGroups(r, meta[k].dataloader), pos'[r])
        BY <4>1, EachOfFacts DEF LaunchFrom, Start
      <4> QED
        BY <4>2, <4>3
    <3> QED
      BY <1>1, <3>1, <3>2
  <2>2. PICK groups \in {FirstGroups(r), ResumeGroups(r, at)} :
          pos'[r] \in groups /\ ahead'[r] = Upto(groups, pos'[r])
    BY <2>1
  <2>3. p \in groups
    BY <2>2 DEF Upto
  <2>4. q \in groups
    BY <2>2, <2>3, GroupsBetween
  <2> QED
    BY <2>2, <2>4 DEF Upto
<1>2. CASE TrainStep
  <2> SUFFICES ASSUME NEW r \in Ranks, NEW p \in ahead'[r], NEW q \in RowGroupsOf(r),
                      Before(p, q), ~Before(pos'[r], q)
               PROVE  q \in ahead'[r]
    BY DEF NoGaps, RowGroupsOf, Shard, Position, GroupNumbers, GroupsOf
  <2> DEFINE next == NextGroups(r, pos[r])
  <2>1. /\ pos[r] \in ahead[r] /\ pos[r] \in Position
        /\ ahead'[r] = ahead[r] \cup Upto(next, pos'[r])
        /\ pos'[r] \in {pos[r]} \cup next
    <3>1. pos' \in EachOf([i \in Ranks |-> {pos[i]} \cup NextGroups(i, pos[i])])
      BY <1>2 DEF TrainStep
    <3> QED
      BY <1>2, <3>1, TrainReads, ShardPosition, EachOfFacts
  <2>2. q \in Position /\ p \in Position /\ next \subseteq Position
    BY <1>2, <2>1, TrainReads, NextFacts, ShardPosition DEF RowGroupsOf
  <2>3. CASE p \in ahead[r] /\ ~Before(pos[r], q)
    BY <2>1, <2>3 DEF NoGaps
  <2>4. CASE Before(pos[r], q)
    <3>1. pos'[r] \in next
      BY <2>1, <2>4
    <3>2. /\ pos[r].pass \in Nat /\ q.pass \in Nat /\ q.pass >= pos[r].pass
          /\ pos'[r] \in Assigned(r, pos[r].pass)
      BY <2>1, <2>2, <2>4, <3>1 DEF Position, Before, NextGroups
    <3>3. q \in next
      BY <2>4, <3>2, AssignedBetween DEF NextGroups
    <3> QED
      BY <2>1, <3>3 DEF Upto
  <2>5. CASE p \notin ahead[r]
    <3>1. Before(pos[r], p)
      BY <2>5, <1>2, TrainReads
    <3> QED
      BY <3>1, <2>1, <2>2, <2>4, BeforeOrder
  <2> QED
    BY <2>3, <2>4, <2>5
<1>3. CASE SaveAgain \/ SaveModel \/ SaveMeta \/ \E r \in Ranks : SaveOptim(r)
  BY <1>3 DEF SaveAgain, SaveModel, SaveMeta, SaveOptim, loader, NoGaps
<1>4. CASE Exit \/ Crash
  <2>1. \A r \in Ranks : ahead'[r] = {}
    BY <1>4 DEF Exit, Crash
  <2> QED
    BY <2>1 DEF NoGaps
<1>5. CASE UNCHANGED vars
  BY <1>5 DEF vars, loader, NoGaps
<1> QED
  BY <1>1, <1>2, <1>3, <1>4, <1>5 DEF Next

\* In every launch, fresh or resumed, each rank reads a gapless run of its shard.
THEOREM RanksLeaveNoGaps == Spec => []NoGaps
<1>1. Init => NoGaps
  BY DEF Init, NoGaps
<1> QED
  BY <1>1, NoGapsStep, TrainingInvariant, PTL DEF Spec
=============================================================================
