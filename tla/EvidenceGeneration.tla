-------------------------- MODULE EvidenceGeneration --------------------------
(***************************************************************************)
(* AtomicEvidenceGeneration of cwc/governance/materialization_transaction.py: *)
(* a materializer fills a staging directory beside the final one, adds the  *)
(* control files, syncs the files, the directories and the parent, and      *)
(* renames staging to the final name. Several materializers may be started  *)
(* on one final root, and each may raise, be killed, or lose power.         *)
(*                                                                          *)
(* What a program sees and what the disk holds are kept apart: the bytes of *)
(* a file are on disk once it is synced, its name once its directory is,    *)
(* the final name once the parent is. What is not on disk may or may not    *)
(* survive a power loss.                                                    *)
(***************************************************************************)
EXTENDS Naturals, FiniteSets

CONSTANTS
  Publishers,  \* processes that may materialize into this final root
  Dirs,        \* directories that mkdtemp may create beside it
  NoDir,       \* no directory
  MaxFaults,   \* bound: kills and raised exceptions
  MaxLosses    \* bound: power losses

ASSUME GenerationAssumption ==
  /\ NoDir \notin Dirs
  /\ MaxFaults \in Nat /\ MaxLosses \in Nat

VARIABLES
  pc,       \* where each publisher is between __enter__ and os.replace
  dir,      \* the staging_root of each publisher
  made,     \* the directories that exist, under a staging name or the final one
  content,  \* for each directory, the state of each of its parts
  stable,   \* the parts whose bytes are on disk
  entries,  \* the parts whose names are on disk
  final,    \* the directory that has the final name
  settled,  \* the directory that has it on disk
  faults, losses

names == <<dir, made, final>>
vars == <<pc, dir, made, content, stable, entries, final, settled, faults, losses>>

\* The family trees; MATERIALIZATION_RECEIPT and _PROVENANCE, which hold the
\* digest of the payload; GENERATION_MANIFEST, which holds the digest of both.
Parts == {"payload", "receipt", "manifest"}
PartStates == {"absent", "torn", "whole"}
PCs == {"idle", "payload", "receipt", "manifest", "files", "directories", "parent", "rename"}

Empty == [part \in Parts |-> "absent"]
Complete(d) == \A part \in Parts : content[d][part] = "whole"

-----------------------------------------------------------------------------
(* __enter__ and __exit__.                                                  *)

\* mkdtemp: a directory that no attempt has made before it.
FreshDir == CHOOSE d \in Dirs \ made : TRUE

Open(p) ==
  /\ pc[p] = "idle"
  /\ final = NoDir
  /\ Dirs \ made # {}
  /\ dir' = [dir EXCEPT ![p] = FreshDir]
  /\ made' = made \cup {FreshDir}
  /\ content' = [content EXCEPT ![FreshDir] = Empty]
  /\ stable' = [stable EXCEPT ![FreshDir] = {}]
  /\ entries' = [entries EXCEPT ![FreshDir] = {}]
  /\ pc' = [pc EXCEPT ![p] = "payload"]
  /\ UNCHANGED <<final, settled, faults, losses>>

\* Mutant: the staging directory has one name for all attempts.
EnterFixedName(p) == made = {} /\ Open(p)

\* A final root that exists is refused.
Enter(p) == Open(p)

\* Leaving the block without having published removes the staging directory.
RmTree(p) ==
  /\ made' = made \ {dir[p]}
  /\ content' = [content EXCEPT ![dir[p]] = Empty]
  /\ dir' = [dir EXCEPT ![p] = NoDir]
  /\ pc' = [pc EXCEPT ![p] = "idle"]

\* A download, a verification, a write or a sync raises.
Raise(p) ==
  /\ pc[p] # "idle"
  /\ faults < MaxFaults
  /\ faults' = faults + 1
  /\ RmTree(p)
  /\ UNCHANGED <<stable, entries, final, settled, losses>>

-----------------------------------------------------------------------------
(* The caller's writes, then publish().                                     *)

Write(p, part, next) ==
  /\ pc[p] = part
  /\ content' = [content EXCEPT ![dir[p]][part] = "whole"]
  /\ pc' = [pc EXCEPT ![p] = next]
  /\ UNCHANGED <<stable, entries, names, settled, faults, losses>>

WritePayload(p) == Write(p, "payload", "receipt")
WriteReceipt(p) == Write(p, "receipt", "manifest")
WriteManifest(p) == Write(p, "manifest", "files")

\* Mutant: the payload is not walked, only the control files are synced.
SyncControlFiles(p) ==
  /\ pc[p] = "files"
  /\ stable' = [stable EXCEPT ![dir[p]] = {"receipt", "manifest"}]
  /\ pc' = [pc EXCEPT ![p] = "directories"]
  /\ UNCHANGED <<content, entries, names, settled, faults, losses>>

SyncFiles(p) ==
  /\ pc[p] = "files"
  /\ stable' = [stable EXCEPT ![dir[p]] = Parts]
  /\ pc' = [pc EXCEPT ![p] = "directories"]
  /\ UNCHANGED <<content, entries, names, settled, faults, losses>>

SyncDirectories(p) ==
  /\ pc[p] = "directories"
  /\ entries' = [entries EXCEPT ![dir[p]] = Parts]
  /\ pc' = [pc EXCEPT ![p] = "parent"]
  /\ UNCHANGED <<content, stable, names, settled, faults, losses>>

\* The parent is synced before the rename: what settles is the final name as it
\* was until now, of another publisher at best.
SyncParent(p) ==
  /\ pc[p] = "parent"
  /\ settled' = final
  /\ pc' = [pc EXCEPT ![p] = "rename"]
  /\ UNCHANGED <<content, stable, entries, names, faults, losses>>

\* Mutant: the final root is removed before the rename, so that it succeeds.
ReplaceAnyway(p) ==
  /\ pc[p] = "rename"
  /\ final' = dir[p]
  /\ dir' = [dir EXCEPT ![p] = NoDir]
  /\ pc' = [pc EXCEPT ![p] = "idle"]
  /\ UNCHANGED <<made, content, stable, entries, settled, faults, losses>>

\* os.replace: a directory does not replace one that has entries.
Replace(p) ==
  /\ pc[p] = "rename"
  /\ IF final = NoDir
     THEN /\ final' = dir[p]
          /\ dir' = [dir EXCEPT ![p] = NoDir]
          /\ pc' = [pc EXCEPT ![p] = "idle"]
          /\ UNCHANGED <<made, content>>
     ELSE RmTree(p) /\ UNCHANGED final
  /\ UNCHANGED <<stable, entries, settled, faults, losses>>

-----------------------------------------------------------------------------
(* A kill leaves the staging directory behind; nothing reads it any more, so *)
(* what it holds is dropped. A power loss kills every process, and of the   *)
(* published generation what was not on disk may be gone or torn.           *)

Kill(p) ==
  /\ pc[p] # "idle"
  /\ faults < MaxFaults
  /\ faults' = faults + 1
  /\ pc' = [pc EXCEPT ![p] = "idle"]
  /\ dir' = [dir EXCEPT ![p] = NoDir]
  /\ content' = [content EXCEPT ![dir[p]] = Empty]
  /\ UNCHANGED <<made, stable, entries, final, settled, losses>>

\* What a power loss may leave of directory d.
Survives(d, after) ==
  \A part \in Parts :
    \/ after[part] = content[d][part]
    \/ after[part] = "absent" /\ part \notin entries[d]
    \/ after[part] = "torn" /\ part \notin stable[d]

PowerLoss ==
  /\ losses < MaxLosses
  /\ losses' = losses + 1
  /\ pc' = [p \in Publishers |-> "idle"]
  /\ dir' = [p \in Publishers |-> NoDir]
  /\ final' \in {final, settled}
  /\ settled' = final'
  /\ \E after \in [Parts -> PartStates] :
       /\ IF final' = NoDir THEN after = Empty ELSE Survives(final', after)
       /\ content' = [d \in Dirs |-> IF d = final' THEN after ELSE Empty]
  /\ stable' = [d \in Dirs |-> Parts]
  /\ entries' = [d \in Dirs |-> Parts]
  /\ UNCHANGED <<made, faults>>

-----------------------------------------------------------------------------
Init ==
  /\ pc = [p \in Publishers |-> "idle"]
  /\ dir = [p \in Publishers |-> NoDir]
  /\ made = {}
  /\ content = [d \in Dirs |-> Empty]
  /\ stable = [d \in Dirs |-> {}]
  /\ entries = [d \in Dirs |-> {}]
  /\ final = NoDir /\ settled = NoDir
  /\ faults = 0 /\ losses = 0

\* The steps of a materializer that runs, and is started again until it is done.
Materialize(p) ==
  \/ Enter(p)
  \/ WritePayload(p) \/ WriteReceipt(p) \/ WriteManifest(p)
  \/ SyncFiles(p) \/ SyncDirectories(p) \/ SyncParent(p)
  \/ Replace(p)

Next ==
  \/ \E p \in Publishers : Materialize(p) \/ Raise(p) \/ Kill(p)
  \/ PowerLoss

Spec == Init /\ [][Next]_vars
-----------------------------------------------------------------------------
(* Properties                                                               *)

TypeOK ==
  /\ pc \in [Publishers -> PCs]
  /\ dir \in [Publishers -> Dirs \cup {NoDir}]
  /\ made \subseteq Dirs
  /\ content \in [Dirs -> [Parts -> PartStates]]
  /\ stable \in [Dirs -> SUBSET Parts] /\ entries \in [Dirs -> SUBSET Parts]
  /\ final \in Dirs \cup {NoDir} /\ settled \in Dirs \cup {NoDir}
  /\ faults \in Nat /\ losses \in Nat

\* "The final path is never populated incrementally": whatever has the final
\* name is whole, payload and control files, also after a power loss that took
\* everything that was not on disk.
PublishedIsComplete == final # NoDir => Complete(final)

\* "evidence generations are immutable": the final name never passes from one
\* generation to another, and is lost to a power loss only.
FinalIsWriteOnce == [][final # NoDir /\ losses' = losses => final' = final]_vars

\* The inductive strengthening. A directory that a publisher fills belongs to it
\* alone and is not the published one; what it has written and synced is what
\* its place in publish() says; what is published was on disk before.
AtStep(p, steps) == pc[p] \in steps

PublisherConsistent(p) ==
  pc[p] # "idle" =>
    /\ dir[p] \in made /\ dir[p] # final
    /\ \A q \in Publishers : q # p /\ pc[q] # "idle" => dir[q] # dir[p]
    /\ ~AtStep(p, {"payload"}) => content[dir[p]]["payload"] = "whole"
    /\ ~AtStep(p, {"payload", "receipt"}) => content[dir[p]]["receipt"] = "whole"
    /\ ~AtStep(p, {"payload", "receipt", "manifest"}) => content[dir[p]]["manifest"] = "whole"
    /\ AtStep(p, {"directories", "parent", "rename"}) => stable[dir[p]] = Parts
    /\ AtStep(p, {"parent", "rename"}) => entries[dir[p]] = Parts

GenerationIInv ==
  /\ TypeOK
  /\ final # NoDir =>
       final \in made /\ Complete(final) /\ stable[final] = Parts /\ entries[final] = Parts
  /\ settled \in {NoDir, final}
  /\ \A p \in Publishers : PublisherConsistent(p)
=============================================================================
