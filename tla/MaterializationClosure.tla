------------------------ MODULE MaterializationClosure ------------------------
(***************************************************************************)
(* The closing of SOURCE_VERIFIED and MATERIALIZED_VERIFIED                 *)
(* (cwc/governance/materialization_closure.py and                           *)
(* scripts/dgc_close_external_materialization.py) over a generation that is *)
(* being published: the closer verifies the published generation, writes an *)
(* immutable reference to it, and records the digest of the reference in    *)
(* the closure ledger. A closer that raises or is killed is started again.  *)
(*                                                                          *)
(* One closer runs at a time and a ledger write is one step: closers that   *)
(* overlap, and the steps of a write, are in EvidenceClosure.               *)
(***************************************************************************)
EXTENDS EvidenceGeneration

VARIABLES
  cpc,           \* where the closer is
  reference,     \* materialization-reference.json
  refStable,     \* its bytes are on disk
  ledger,        \* completed stages of the ledger on file, or Torn
  ledgerStable   \* stages that the file on disk holds for certain

closure == <<cpc, reference, refStable, ledger, ledgerStable>>
mvars == <<vars, closure>>

Torn == 99  \* a ledger file that is no JSON document
CloserPCs == {"idle", "verified", "created", "written", "record"}

-----------------------------------------------------------------------------
\* close_source_verified: the registry is part of the clean repository.
CloseSource ==
  /\ cpc = "idle"
  /\ ledger = 0
  /\ ledger' = 1
  /\ UNCHANGED <<cpc, reference, refStable, ledgerStable>>

\* verify_materialization_generation accepts what is published when every file
\* is in the manifest with its digest, and rebuilds the reference from it.
VerifyGeneration ==
  /\ cpc = "idle"
  /\ ledger = 1
  /\ final # NoDir /\ Complete(final)
  /\ cpc' = "verified"
  /\ UNCHANGED <<reference, refStable, ledger, ledgerStable>>

\* _write_immutable: a reference that exists must have the very bytes, and one
\* that does not is created exclusively.
CheckReference ==
  /\ cpc = "verified"
  /\ \/ /\ reference = "absent"
        /\ reference' = "torn" /\ refStable' = FALSE /\ cpc' = "created"
     \/ /\ reference = "whole"
        /\ cpc' = "record" /\ UNCHANGED <<reference, refStable>>
     \/ /\ reference = "torn"
        /\ cpc' = "idle" /\ UNCHANGED <<reference, refStable>>
  /\ UNCHANGED <<ledger, ledgerStable>>

WriteReference ==
  /\ cpc = "created"
  /\ reference' = "whole"
  /\ cpc' = "written"
  /\ UNCHANGED <<refStable, ledger, ledgerStable>>

\* Mutant: the file is flushed and not synced.
FlushReference ==
  /\ cpc = "written"
  /\ cpc' = "record"
  /\ UNCHANGED <<reference, refStable, ledger, ledgerStable>>

SyncReference ==
  /\ cpc = "written"
  /\ refStable' = TRUE
  /\ cpc' = "record"
  /\ UNCHANGED <<reference, ledger, ledgerStable>>

\* The write or the sync raises, and the file is removed.
UnlinkReference ==
  /\ cpc \in {"created", "written"}
  /\ faults < MaxFaults
  /\ reference' = "absent"
  /\ cpc' = "idle"
  /\ UNCHANGED <<refStable, ledger, ledgerStable>>

\* advance() compares the digest of the file with the one that was just taken
\* and puts the receipt on the ledger; neither file nor directory is synced.
RecordMaterialized ==
  /\ cpc = "record"
  /\ ledger' = 2
  /\ cpc' = "idle"
  /\ UNCHANGED <<reference, refStable, ledgerStable>>

-----------------------------------------------------------------------------
KillCloser ==
  /\ cpc # "idle"
  /\ faults < MaxFaults
  /\ cpc' = "idle"
  /\ UNCHANGED <<reference, refStable, ledger, ledgerStable>>

\* The directory of the reference and of the ledger is never synced either.
LoseClosure ==
  /\ cpc' = "idle"
  /\ reference' \in {reference, "absent"}
                      \cup (IF reference = "whole" /\ ~refStable THEN {"torn"} ELSE {})
  /\ refStable' = TRUE
  /\ ledger' \in IF ledger = Torn THEN {Torn}
                 ELSE (ledgerStable..ledger) \cup (IF ledger = ledgerStable THEN {} ELSE {Torn})
  /\ ledgerStable' = IF ledger' = Torn THEN 0 ELSE ledger'

-----------------------------------------------------------------------------
MInit ==
  /\ Init
  /\ cpc = "idle"
  /\ reference = "absent" /\ refStable = TRUE
  /\ ledger = 0 /\ ledgerStable = 0

Close ==
  \/ CloseSource \/ VerifyGeneration \/ CheckReference
  \/ WriteReference \/ SyncReference \/ RecordMaterialized

CloserFault ==
  /\ UnlinkReference \/ KillCloser
  /\ faults' = faults + 1
  /\ UNCHANGED <<pc, dir, made, content, stable, entries, final, settled, losses>>

MNext ==
  \/ /\ \E p \in Publishers : Materialize(p) \/ Raise(p) \/ Kill(p)
     /\ UNCHANGED closure
  \/ Close /\ UNCHANGED vars
  \/ CloserFault
  \/ PowerLoss /\ LoseClosure

\* Whoever runs the two scripts starts them again until they succeed.
MSpec ==
  /\ MInit /\ [][MNext]_mvars
  /\ \A p \in Publishers : WF_mvars(Materialize(p) /\ UNCHANGED closure)
  /\ WF_mvars(Close /\ UNCHANGED vars)
-----------------------------------------------------------------------------
(* Properties                                                               *)

ClosureTypeOK ==
  /\ cpc \in CloserPCs /\ reference \in PartStates /\ refStable \in BOOLEAN
  /\ ledger \in {0, 1, 2, Torn} /\ ledgerStable \in 0..2

\* A materialization that the ledger records has its reference beside it and its
\* generation in place as long as the machine has not lost power. After a power
\* loss the reference may be gone but is no torn one, unless a closer was killed
\* between its write and its sync: the retry finds the bytes and syncs nothing.
RecordedReferenceIntact ==
  ledger = 2 =>
    /\ losses = 0 => reference = "whole" /\ final # NoDir
    /\ faults = 0 => reference # "torn"

\* Whatever the attempts that died have left behind, a generation is published
\* and its materialization closed in the end, unless a closer died while it wrote
\* the reference or a power loss tore the ledger: the code has no way out of
\* these two.
ClosedOrNeedsRepair == <>[](ledger = 2 \/ ledger = Torn \/ reference = "torn")

\* The inductive strengthening for the reference: what the closer has verified
\* stays published while it runs, and bytes that are not on disk are those it is
\* writing, or were left by a closer that was killed.
ClosureIInv ==
  /\ ClosureTypeOK
  /\ cpc # "idle" => ledger = 1 /\ final # NoDir
  /\ cpc \in {"written", "record"} => reference = "whole"
  /\ faults = 0 /\ reference = "whole" /\ cpc # "written" => refStable
  /\ ledgerStable <= ledger
  /\ RecordedReferenceIntact
=============================================================================
