---------------------- MODULE MaterializationClosureProofs ----------------------
(***************************************************************************)
(* Theorems about EvidenceGeneration and MaterializationClosure, for any    *)
(* set of publishers and directories and any number of faults and power     *)
(* losses.                                                                  *)
(***************************************************************************)
EXTENDS MaterializationClosure, TLAPS

-----------------------------------------------------------------------------
(* The publication of a generation.                                         *)

LEMMA GenerationInit == Init => GenerationIInv
<1> SUFFICES ASSUME Init PROVE GenerationIInv
  OBVIOUS
<1>1. TypeOK
  BY GenerationAssumption DEF Init, TypeOK, PCs, Empty, Parts, PartStates
<1> QED
  BY <1>1 DEF Init, GenerationIInv, PublisherConsistent

\* Opening a staging directory: it is a fresh one.
LEMMA OpenStep == ASSUME GenerationIInv, NEW p \in Publishers, Open(p) PROVE GenerationIInv'
<1> DEFINE f == FreshDir
<1>1. f \in Dirs /\ f \notin made
  BY DEF Open, FreshDir
<1>2. TypeOK'
  BY <1>1 DEF GenerationIInv, TypeOK, Open, PCs, Empty, Parts, PartStates
<1>3. \A d \in Dirs : d # f => /\ content'[d] = content[d]
                              /\ stable'[d] = stable[d] /\ entries'[d] = entries[d]
  BY <1>1 DEF GenerationIInv, TypeOK, Open
<1>4. final' = NoDir /\ settled' = NoDir
  BY DEF Open, GenerationIInv
<1>5. ASSUME NEW q \in Publishers PROVE PublisherConsistent(q)'
  <2>1. CASE q = p
    <3>1. pc'[q] = "payload" /\ dir'[q] = f /\ f \in made' /\ f # NoDir
      BY <1>1, <2>1, GenerationAssumption DEF GenerationIInv, TypeOK, Open
    <3>2. \A r \in Publishers : r # q /\ pc'[r] # "idle" => dir'[r] # f
      BY <1>1, <2>1 DEF GenerationIInv, TypeOK, Open, PublisherConsistent
    <3> QED
      BY <1>4, <3>1, <3>2 DEF PublisherConsistent, AtStep
  <2>2. CASE q # p /\ pc'[q] # "idle"
    <3>1. pc'[q] = pc[q] /\ dir'[q] = dir[q] /\ pc[q] # "idle"
      BY <2>2 DEF GenerationIInv, TypeOK, Open
    <3>2. PublisherConsistent(q) /\ dir[q] \in made /\ dir[q] \in Dirs /\ dir[q] # f
      BY <1>1, <3>1 DEF GenerationIInv, TypeOK, PublisherConsistent
    <3>3. \A r \in Publishers : r # q /\ pc'[r] # "idle" => dir'[r] # dir[q]
      BY <3>1, <3>2 DEF GenerationIInv, TypeOK, Open, PublisherConsistent
    <3>4. dir[q] # NoDir /\ dir[q] \in made'
      BY <3>2, GenerationAssumption DEF Open
    <3> QED
      BY <1>3, <1>4, <3>1, <3>2, <3>3, <3>4 DEF PublisherConsistent, AtStep
  <2> QED
    BY <2>1, <2>2 DEF PublisherConsistent
<1> QED
  BY <1>2, <1>4, <1>5 DEF GenerationIInv

\* A step of one publisher that leaves all directories and all names but its own
\* alone keeps the others consistent, and what is published.
LEMMA OthersKept ==
  ASSUME GenerationIInv, NEW p \in Publishers, pc[p] # "idle",
         \A q \in Publishers : q # p => pc'[q] = pc[q] /\ dir'[q] = dir[q],
         \A d \in Dirs : d # dir[p] =>
           content'[d] = content[d] /\ stable'[d] = stable[d] /\ entries'[d] = entries[d],
         \A d \in made : d # dir[p] => d \in made',
         pc'[p] = "idle" \/ dir'[p] = dir[p],
         final' = final
  PROVE  /\ \A q \in Publishers : q # p => PublisherConsistent(q)'
         /\ final # NoDir => /\ final \in made' /\ Complete(final)'
                             /\ stable'[final] = Parts /\ entries'[final] = Parts
<1>1. dir[p] \in made /\ made \subseteq Dirs /\ dir[p] # final
  BY DEF GenerationIInv, TypeOK, PublisherConsistent
<1>2. ASSUME NEW q \in Publishers, q # p, pc'[q] # "idle" PROVE PublisherConsistent(q)'
  <2>1. pc'[q] = pc[q] /\ dir'[q] = dir[q] /\ PublisherConsistent(q) /\ pc[q] # "idle"
    BY <1>2 DEF GenerationIInv
  <2>2. dir[q] # dir[p] /\ dir[q] \in made /\ dir[q] \in Dirs /\ dir[q] # final
    BY <1>1, <1>2, <2>1 DEF PublisherConsistent
  <2>3. \A r \in Publishers : r # q /\ pc'[r] # "idle" => dir'[r] # dir[q]
    BY <2>1, <2>2 DEF PublisherConsistent
  <2> QED
    BY <2>1, <2>2, <2>3 DEF PublisherConsistent, AtStep
<1>3. final # NoDir => final \in Dirs /\ final \in made
  BY <1>1 DEF GenerationIInv
<1> QED
  BY <1>1, <1>2, <1>3 DEF PublisherConsistent, GenerationIInv, Complete

LEMMA WriteStep ==
  ASSUME GenerationIInv, NEW p \in Publishers,
         \/ WritePayload(p) \/ WriteReceipt(p) \/ WriteManifest(p)
  PROVE  GenerationIInv'
<1>1. PICK part \in Parts, next \in {"receipt", "manifest", "files"} :
        /\ Write(p, part, next)
        /\ <<part, next>> \in {<<"payload", "receipt">>, <<"receipt", "manifest">>, <<"manifest", "files">>}
  BY DEF WritePayload, WriteReceipt, WriteManifest, Parts
<1>2. pc[p] # "idle" /\ dir[p] \in Dirs /\ dir[p] \in made
  BY <1>1 DEF Write, GenerationIInv, TypeOK, PublisherConsistent, Parts
<1>3. TypeOK'
  BY <1>1, <1>2 DEF GenerationIInv, TypeOK, Write, names, PCs, Parts, PartStates
<1>4. /\ \A q \in Publishers : q # p => PublisherConsistent(q)'
      /\ final # NoDir => /\ final \in made' /\ Complete(final)'
                          /\ stable'[final] = Parts /\ entries'[final] = Parts
  <2>1. /\ \A q \in Publishers : q # p => pc'[q] = pc[q] /\ dir'[q] = dir[q]
        /\ \A d \in Dirs : d # dir[p] =>
             content'[d] = content[d] /\ stable'[d] = stable[d] /\ entries'[d] = entries[d]
        /\ made' = made /\ dir'[p] = dir[p] /\ final' = final
    BY <1>1, <1>2 DEF Write, names, GenerationIInv, TypeOK
  <2> QED
    BY <1>2, <2>1, OthersKept
<1>5. PublisherConsistent(p)'
  <2>1. /\ pc'[p] = next /\ dir' = dir /\ made' = made /\ final' = final
        /\ content'[dir[p]] = [content[dir[p]] EXCEPT ![part] = "whole"]
        /\ \A q \in Publishers : q # p => pc'[q] = pc[q]
    BY <1>1, <1>2 DEF Write, names, GenerationIInv, TypeOK
  <2>2. content[dir[p]] \in [Parts -> PartStates]
    BY <1>2 DEF GenerationIInv, TypeOK
  <2>3. PublisherConsistent(p) /\ pc[p] = part
    BY <1>1 DEF GenerationIInv, Write
  <2> QED
    BY <1>1, <1>2, <2>1, <2>2, <2>3 DEF PublisherConsistent, AtStep, Parts
<1> QED
  BY <1>1, <1>3, <1>4, <1>5 DEF GenerationIInv, Write, names

LEMMA SyncStep ==
  ASSUME GenerationIInv, NEW p \in Publishers,
         SyncFiles(p) \/ SyncDirectories(p) \/ SyncParent(p)
  PROVE  GenerationIInv'
<1>1. /\ pc[p] \in {"files", "directories", "parent"} /\ dir[p] \in Dirs /\ dir[p] \in made
      /\ content' = content /\ dir' = dir /\ made' = made /\ final' = final
      /\ faults' = faults /\ losses' = losses
  BY DEF SyncFiles, SyncDirectories, SyncParent, names, GenerationIInv, TypeOK, PublisherConsistent
<1>2. /\ \A q \in Publishers : q # p => pc'[q] = pc[q] /\ dir'[q] = dir[q]
      /\ \A d \in Dirs : d # dir[p] => stable'[d] = stable[d] /\ entries'[d] = entries[d]
      /\ pc'[p] \in {"directories", "parent", "rename"}
      /\ settled' \in {settled, final}
  BY <1>1 DEF SyncFiles, SyncDirectories, SyncParent, GenerationIInv, TypeOK
<1>3. TypeOK'
  <2>1. pc' \in [Publishers -> PCs] /\ stable' \in [Dirs -> SUBSET Parts]
        /\ entries' \in [Dirs -> SUBSET Parts]
    BY <1>1 DEF SyncFiles, SyncDirectories, SyncParent, GenerationIInv, TypeOK, PCs
  <2> QED
    BY <1>1, <1>2, <2>1 DEF GenerationIInv, TypeOK
<1>4. /\ \A q \in Publishers : q # p => PublisherConsistent(q)'
      /\ final # NoDir => /\ final \in made' /\ Complete(final)'
                          /\ stable'[final] = Parts /\ entries'[final] = Parts
  BY <1>1, <1>2, OthersKept
<1>5. PublisherConsistent(p)'
  <2>1. /\ PublisherConsistent(p)
        /\ \/ pc[p] = "files" /\ pc'[p] = "directories" /\ stable'[dir[p]] = Parts
           \/ /\ pc[p] = "directories" /\ pc'[p] = "parent"
              /\ stable' = stable /\ entries'[dir[p]] = Parts
           \/ /\ pc[p] = "parent" /\ pc'[p] = "rename"
              /\ stable' = stable /\ entries' = entries
    BY <1>1 DEF SyncFiles, SyncDirectories, SyncParent, GenerationIInv, TypeOK
  <2> QED
    BY <1>1, <1>2, <2>1 DEF PublisherConsistent, AtStep
<1> QED
  BY <1>1, <1>2, <1>3, <1>4, <1>5 DEF GenerationIInv

\* Removing the staging directory, by __exit__ or after a failed rename, and
\* leaving it behind in a kill.
LEMMA DropStep ==
  ASSUME GenerationIInv, NEW p \in Publishers, pc[p] # "idle",
         pc' = [pc EXCEPT ![p] = "idle"], dir' = [dir EXCEPT ![p] = NoDir],
         content' = [content EXCEPT ![dir[p]] = Empty],
         made' \in {made, made \ {dir[p]}},
         UNCHANGED <<stable, entries, final, settled>>,
         faults' \in {faults, faults + 1}, losses' = losses
  PROVE  GenerationIInv'
<1>1. dir[p] \in Dirs /\ dir[p] \in made
  BY DEF GenerationIInv, TypeOK, PublisherConsistent
<1>2. TypeOK'
  BY <1>1 DEF GenerationIInv, TypeOK, PCs, Empty, Parts, PartStates
<1>3. /\ \A q \in Publishers : q # p => pc'[q] = pc[q] /\ dir'[q] = dir[q]
      /\ \A d \in Dirs : d # dir[p] => content'[d] = content[d]
      /\ pc'[p] = "idle"
  BY <1>1 DEF GenerationIInv, TypeOK
<1>4. /\ \A q \in Publishers : q # p => PublisherConsistent(q)'
      /\ final # NoDir => /\ final \in made' /\ Complete(final)'
                          /\ stable'[final] = Parts /\ entries'[final] = Parts
  BY <1>1, <1>3, OthersKept
<1> QED
  BY <1>2, <1>3, <1>4 DEF GenerationIInv, PublisherConsistent

LEMMA ReplaceStep == ASSUME GenerationIInv, NEW p \in Publishers, Replace(p) PROVE GenerationIInv'
<1>1. pc[p] = "rename" /\ dir[p] \in Dirs /\ dir[p] \in made
  BY DEF Replace, GenerationIInv, TypeOK, PublisherConsistent
<1>2. CASE final # NoDir
  BY <1>1, <1>2, DropStep DEF Replace, RmTree
<1>3. CASE final = NoDir
  <2>1. /\ final' = dir[p] /\ settled' = NoDir
        /\ made' = made /\ content' = content /\ stable' = stable /\ entries' = entries
        /\ pc'[p] = "idle"
        /\ \A q \in Publishers : q # p => pc'[q] = pc[q] /\ dir'[q] = dir[q]
    BY <1>1, <1>3 DEF Replace, GenerationIInv, TypeOK
  <2>2. TypeOK'
    BY <1>1, <1>3, <2>1 DEF Replace, GenerationIInv, TypeOK, PCs
  <2>3. Complete(dir[p]) /\ stable[dir[p]] = Parts /\ entries[dir[p]] = Parts
    BY <1>1 DEF GenerationIInv, PublisherConsistent, AtStep, Complete, Parts
  <2>4. ASSUME NEW q \in Publishers, pc'[q] # "idle" PROVE PublisherConsistent(q)'
    <3>1. /\ q # p /\ pc'[q] = pc[q] /\ dir'[q] = dir[q] /\ pc[q] # "idle"
          /\ PublisherConsistent(q) /\ dir[q] # dir[p]
      BY <1>1, <2>1, <2>4 DEF GenerationIInv, PublisherConsistent
    <3>2. \A r \in Publishers : r # q /\ pc'[r] # "idle" => dir'[r] # dir[q]
      BY <2>1, <3>1 DEF PublisherConsistent
    <3> QED
      BY <2>1, <3>1, <3>2 DEF PublisherConsistent, AtStep
  <2> QED
    BY <1>1, <2>1, <2>2, <2>3, <2>4 DEF GenerationIInv, PublisherConsistent, Complete
<1> QED
  BY <1>2, <1>3

\* What is published loses its name or keeps all of its parts.
LEMMA PowerLossStep == ASSUME GenerationIInv, PowerLoss PROVE GenerationIInv'
<1>1. PICK after \in [Parts -> PartStates] :
        /\ IF final' = NoDir THEN after = Empty ELSE Survives(final', after)
        /\ content' = [d \in Dirs |-> IF d = final' THEN after ELSE Empty]
  BY DEF PowerLoss
<1>2. final' \in {final, NoDir} /\ settled' = final' /\ made' = made
  BY DEF PowerLoss, GenerationIInv
<1>3. Empty \in [Parts -> PartStates]
  BY DEF Empty, Parts, PartStates
<1>4. TypeOK'
  <2>1. content' \in [Dirs -> [Parts -> PartStates]]
    BY <1>1, <1>3
  <2>2. pc' \in [Publishers -> PCs] /\ dir' \in [Publishers -> Dirs \cup {NoDir}]
        /\ stable' \in [Dirs -> SUBSET Parts] /\ entries' \in [Dirs -> SUBSET Parts]
        /\ losses' \in Nat /\ faults' = faults
    BY DEF PowerLoss, GenerationIInv, TypeOK, PCs
  <2> QED
    BY <1>2, <2>1, <2>2 DEF GenerationIInv, TypeOK
<1>5. ASSUME final' # NoDir
      PROVE  final' \in made' /\ Complete(final)' /\ stable'[final'] = Parts /\ entries'[final'] = Parts
  <2>1. /\ final' = final /\ final \in made /\ final \in Dirs
        /\ Complete(final) /\ stable[final] = Parts /\ entries[final] = Parts
    BY <1>2, <1>5 DEF GenerationIInv, TypeOK
  <2>2. Survives(final, after) /\ content'[final] = after
    BY <1>1, <1>5, <2>1
  <2>3. \A part \in Parts : after[part] = "whole"
    BY <2>1, <2>2 DEF Survives, Complete
  <2> QED
    BY <1>2, <2>1, <2>2, <2>3 DEF PowerLoss, Complete
<1>6. \A p \in Publishers : PublisherConsistent(p)'
  BY DEF PowerLoss, PublisherConsistent
<1> QED
  BY <1>2, <1>4, <1>5, <1>6 DEF GenerationIInv

LEMMA GenerationStep == GenerationIInv /\ [Next]_vars => GenerationIInv'
<1> SUFFICES ASSUME GenerationIInv, [Next]_vars PROVE GenerationIInv'
  OBVIOUS
<1>1. ASSUME NEW p \in Publishers, Enter(p) PROVE GenerationIInv'
  BY <1>1, OpenStep DEF Enter
<1>2. ASSUME NEW p \in Publishers, WritePayload(p) \/ WriteReceipt(p) \/ WriteManifest(p)
      PROVE  GenerationIInv'
  BY <1>2, WriteStep
<1>3. ASSUME NEW p \in Publishers, SyncFiles(p) \/ SyncDirectories(p) \/ SyncParent(p)
      PROVE  GenerationIInv'
  BY <1>3, SyncStep
<1>4. ASSUME NEW p \in Publishers, Replace(p) PROVE GenerationIInv'
  BY <1>4, ReplaceStep
<1>5. ASSUME NEW p \in Publishers, Raise(p) PROVE GenerationIInv'
  BY <1>5, DropStep DEF Raise, RmTree
<1>6. ASSUME NEW p \in Publishers, Kill(p) PROVE GenerationIInv'
  BY <1>6, DropStep DEF Kill
<1>7. CASE PowerLoss
  BY <1>7, PowerLossStep
<1>8. CASE UNCHANGED vars
  BY <1>8 DEF vars, GenerationIInv, TypeOK, PublisherConsistent, AtStep, Complete
<1> QED
  BY <1>1, <1>2, <1>3, <1>4, <1>5, <1>6, <1>7, <1>8 DEF Next, Materialize

\* GenerationIInv is inductive: the facts of a publisher's place in publish().
THEOREM GenerationInvariant == Spec => []GenerationIInv
<1> QED
  BY GenerationInit, GenerationStep, PTL DEF Spec

\* What has the final name is whole, whatever is killed and however often the
\* power is lost.
THEOREM PublishedComplete == Spec => []PublishedIsComplete
<1>1. GenerationIInv => PublishedIsComplete
  BY DEF GenerationIInv, PublishedIsComplete
<1> QED
  BY <1>1, GenerationInvariant, PTL
LEMMA WriteOnceStep ==
  ASSUME GenerationIInv, Next, final # NoDir, losses' = losses PROVE final' = final
<1>1. CASE PowerLoss
  BY <1>1 DEF PowerLoss, GenerationIInv, TypeOK
<1>2. ASSUME NEW p \in Publishers, Materialize(p) \/ Raise(p) \/ Kill(p) PROVE final' = final
  BY <1>2 DEF Materialize, Enter, Open, Write, WritePayload, WriteReceipt, WriteManifest,
       SyncFiles, SyncDirectories, SyncParent, Replace, RmTree, Raise, Kill, names
<1> QED
  BY <1>1, <1>2 DEF Next

\* No step of a publisher takes the final name from a generation that has it.
THEOREM WriteOnce == Spec => FinalIsWriteOnce
<1>1. GenerationIInv /\ [Next]_vars => [final # NoDir /\ losses' = losses => final' = final]_vars
  BY WriteOnceStep DEF vars
<1> QED
  BY <1>1, GenerationInvariant, PTL DEF Spec, FinalIsWriteOnce

-----------------------------------------------------------------------------
(* The closing of a generation.                                             *)

\* The materializers of the composed system do what they do alone.
LEMMA ClosureKeepsGeneration ==
  ASSUME [MNext]_mvars PROVE [Next]_vars \/ CloserFault
<1> QED
  BY DEF MNext, mvars, Next, vars

LEMMA CloserFaultStep == ASSUME GenerationIInv, CloserFault PROVE GenerationIInv'
<1> QED
  BY DEF CloserFault, GenerationIInv, TypeOK, PublisherConsistent, AtStep, Complete

\* The publication is safe in the composed system too.
THEOREM ComposedGenerationInvariant == MSpec => []GenerationIInv
<1>1. MInit => GenerationIInv
  BY GenerationInit DEF MInit
<1>2. GenerationIInv /\ [MNext]_mvars => GenerationIInv'
  BY ClosureKeepsGeneration, CloserFaultStep, GenerationStep
<1> QED
  BY <1>1, <1>2, PTL DEF MSpec

\* Closing a generation takes nothing away from it either.
THEOREM ComposedWriteOnce == MSpec => FinalIsWriteOnce
<1>1. GenerationIInv /\ [MNext]_mvars => [final # NoDir /\ losses' = losses => final' = final]_vars
  <2> SUFFICES ASSUME GenerationIInv, [MNext]_mvars, final # NoDir, losses' = losses,
                      ~ UNCHANGED vars
               PROVE  final' = final
    OBVIOUS
  <2>1. CASE CloserFault
    BY <2>1 DEF CloserFault
  <2>2. CASE Next
    BY <2>2, WriteOnceStep
  <2> QED
    BY <2>1, <2>2, ClosureKeepsGeneration
<1> QED
  BY <1>1, ComposedGenerationInvariant, PTL DEF MSpec, FinalIsWriteOnce

LEMMA ClosureInit == MInit => ClosureIInv
<1> QED
  BY DEF MInit, ClosureIInv, ClosureTypeOK, RecordedReferenceIntact, CloserPCs, PartStates, Torn

LEMMA CloseStep ==
  ASSUME GenerationIInv, ClosureIInv, Close, UNCHANGED vars PROVE ClosureIInv'
<1> USE DEF ClosureIInv, ClosureTypeOK, RecordedReferenceIntact, CloserPCs, PartStates, Torn
<1>1. UNCHANGED <<final, faults, losses>>
  BY DEF vars
<1>2. CASE CloseSource
  BY <1>1, <1>2 DEF CloseSource
<1>3. CASE VerifyGeneration
  BY <1>1, <1>3 DEF VerifyGeneration
<1>4. CASE CheckReference
  <2>1. /\ ledger = 1 /\ ledger' = 1 /\ ledgerStable' = ledgerStable /\ final' = final /\ final # NoDir
        /\ faults' = faults /\ refStable \in BOOLEAN /\ cpc = "verified" /\ ledger' # 2
        /\ faults = 0 /\ reference = "whole" => refStable
    BY <1>1, <1>4 DEF CheckReference
  <2>2. CASE reference = "absent" /\ reference' = "torn" /\ refStable' = FALSE /\ cpc' = "created"
    BY <2>1, <2>2
  <2>3. CASE /\ reference' = reference /\ refStable' = refStable
             /\ \/ reference = "whole" /\ cpc' = "record"
                \/ reference = "torn" /\ cpc' = "idle"
    BY <2>1, <2>3
  <2> QED
    BY <1>4, <2>2, <2>3 DEF CheckReference
<1>5. CASE WriteReference
  BY <1>1, <1>5 DEF WriteReference
<1>6. CASE SyncReference
  BY <1>1, <1>6 DEF SyncReference
<1>7. CASE RecordMaterialized
  BY <1>1, <1>7 DEF RecordMaterialized
<1> QED
  BY <1>2, <1>3, <1>4, <1>5, <1>6, <1>7 DEF Close

LEMMA CloserFaultClosure ==
  ASSUME GenerationIInv, ClosureIInv, CloserFault PROVE ClosureIInv'
<1>1. faults' # 0 /\ final' = final /\ losses' = losses /\ cpc' = "idle" /\ ledger' = ledger
      /\ ledgerStable' = ledgerStable /\ refStable' = refStable /\ ledger = 1
      /\ reference' \in {reference, "absent"}
  BY DEF CloserFault, UnlinkReference, KillCloser, GenerationIInv, TypeOK, ClosureIInv
<1> QED
  BY <1>1 DEF ClosureIInv, ClosureTypeOK, RecordedReferenceIntact, CloserPCs, PartStates, Torn

\* The publishers neither fault-clear nor unpublish: what the closer relies on
\* stays, and the count of faults only grows.
LEMMA PublisherKeepsClosure ==
  ASSUME GenerationIInv, ClosureIInv, UNCHANGED closure,
         NEW p \in Publishers, Materialize(p) \/ Raise(p) \/ Kill(p)
  PROVE  ClosureIInv'
<1>1. losses' = losses /\ (faults' = 0 => faults = 0)
  BY DEF Materialize, Enter, Open, Write, WritePayload, WriteReceipt, WriteManifest,
       SyncFiles, SyncDirectories, SyncParent, Replace, RmTree, Raise, Kill,
       GenerationIInv, TypeOK
<1>2. final # NoDir => final' = final
  BY DEF Materialize, Enter, Open, Write, WritePayload, WriteReceipt, WriteManifest,
       SyncFiles, SyncDirectories, SyncParent, Replace, RmTree, Raise, Kill, names
<1> QED
  BY <1>1, <1>2 DEF closure, ClosureIInv, ClosureTypeOK, RecordedReferenceIntact

LEMMA LossStep ==
  ASSUME GenerationIInv, ClosureIInv, PowerLoss, LoseClosure PROVE ClosureIInv'
<1>1. losses' # 0 /\ faults' = faults
  BY DEF PowerLoss, GenerationIInv, TypeOK
<1>2. cpc' = "idle" /\ refStable' = TRUE /\ reference' \in PartStates
  BY DEF LoseClosure, ClosureIInv, ClosureTypeOK, PartStates
<1>3. ledger' \in {0, 1, 2, Torn} /\ ledgerStable' \in 0..2 /\ ledgerStable' <= ledger'
  BY DEF LoseClosure, ClosureIInv, ClosureTypeOK, Torn
<1>4. ASSUME faults = 0, ledger' = 2 PROVE reference' # "torn"
  <2>1. ledger = 2
    BY <1>4 DEF LoseClosure, ClosureIInv, ClosureTypeOK, Torn
  <2>2. reference # "torn" /\ (reference = "whole" => refStable)
    BY <1>4, <2>1 DEF ClosureIInv, RecordedReferenceIntact
  <2> QED
    BY <2>2 DEF LoseClosure
<1> QED
  BY <1>1, <1>2, <1>3, <1>4 DEF ClosureIInv, ClosureTypeOK, RecordedReferenceIntact, CloserPCs

\* ClosureIInv is inductive beside GenerationIInv: what the closer has verified
\* stays published, and it records only what is whole and, without a kill, synced.
THEOREM ClosureInvariant == MSpec => []ClosureIInv
<1>1. GenerationIInv /\ ClosureIInv /\ [MNext]_mvars => ClosureIInv'
  <2> SUFFICES ASSUME GenerationIInv, ClosureIInv, [MNext]_mvars PROVE ClosureIInv'
    OBVIOUS
  <2>1. CASE UNCHANGED mvars
    BY <2>1 DEF mvars, vars, closure, ClosureIInv, ClosureTypeOK, RecordedReferenceIntact
  <2> QED
    BY <2>1, CloseStep, CloserFaultClosure, PublisherKeepsClosure, LossStep DEF MNext
<1> QED
  BY <1>1, ClosureInit, ComposedGenerationInvariant, PTL DEF MSpec

\* A recorded materialization has its reference and its generation until the
\* power is lost, and never half a reference unless a closer was killed.
THEOREM RecordedReference == MSpec => []RecordedReferenceIntact
<1>1. ClosureIInv => RecordedReferenceIntact
  BY DEF ClosureIInv
<1> QED
  BY <1>1, ClosureInvariant, PTL
-----------------------------------------------------------------------------
\* dgc_close_external_materialization.py, advance, AtomicEvidenceGeneration:
\* what a receipt of MATERIALIZED_VERIFIED speaks of is frozen. Without a power
\* loss no later attempt of any materializer or closer takes the receipt back,
\* touches the reference that it holds the digest of, or replaces or damages the
\* generation that the reference points to.
EvidenceIsFrozen ==
  [][ledger = 2 /\ losses' = losses =>
       /\ ledger' = 2 /\ reference' = reference
       /\ final # NoDir => final' = final /\ content'[final] = content[final]]_mvars

\* What was recorded of a generation stays true of it for as long as the power
\* stays on, whoever is started again.
THEOREM RecordedEvidenceStays == MSpec => EvidenceIsFrozen
<1> DEFINE Frozen == ledger = 2 /\ losses' = losses =>
                       /\ ledger' = 2 /\ reference' = reference
                       /\ final # NoDir => final' = final /\ content'[final] = content[final]
<1>1. GenerationIInv /\ ClosureIInv /\ [MNext]_mvars => [Frozen]_mvars
  <2> SUFFICES ASSUME GenerationIInv, ClosureIInv, MNext, ledger = 2, losses' = losses
               PROVE  Frozen
    OBVIOUS
  <2>1. cpc = "idle"
    BY DEF ClosureIInv
  <2>2. ASSUME NEW p \in Publishers, Materialize(p) \/ Raise(p) \/ Kill(p), UNCHANGED closure
        PROVE  Frozen
    <3>1. final # NoDir => final' = final
      BY <2>2, WriteOnceStep DEF Next
    <3>2. GenerationIInv'
      BY <2>2, GenerationStep DEF Next
    <3>3. final # NoDir => content'[final] = content[final]
      BY <3>1, <3>2 DEF GenerationIInv, TypeOK, Complete
    <3> QED
      BY <2>2, <3>1, <3>3 DEF closure
  <2>3. CASE Close /\ UNCHANGED vars
    BY <2>1, <2>3 DEF Close, CloseSource, VerifyGeneration, CheckReference, WriteReference,
         SyncReference, RecordMaterialized
  <2>4. CASE CloserFault
    BY <2>1, <2>4 DEF CloserFault, UnlinkReference, KillCloser
  <2>5. CASE PowerLoss
    BY <2>5 DEF PowerLoss, GenerationIInv, TypeOK
  <2> QED
    BY <2>2, <2>3, <2>4, <2>5 DEF MNext
<1> QED
  BY <1>1, ComposedGenerationInvariant, ClosureInvariant, PTL DEF MSpec, EvidenceIsFrozen
=============================================================================
