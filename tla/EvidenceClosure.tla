--------------------------- MODULE EvidenceClosure ---------------------------
(***************************************************************************)
(* EvidenceClosureLedger of cwc/governance/evidence_closure.py: a JSON file  *)
(* with one receipt per closed stage, each bound to the digest of the one   *)
(* before it. advance() reads the file to learn the next stage, runs that   *)
(* stage's commands, which may take hours, verifies the evidence, reads the *)
(* file again, appends the receipt and replaces the file through a          *)
(* temporary one that has a fixed name.                                     *)
(*                                                                          *)
(* Each closer is a process in one call of advance at a time. Files are     *)
(* modelled as names bound to inodes, because a process that has opened the *)
(* temporary file keeps writing to it after another has renamed it.         *)
(***************************************************************************)
EXTENDS Naturals, Sequences, FiniteSets

CONSTANTS
  Closers,    \* processes that may call advance on this ledger
  NumStages,  \* Len(STAGES)
  Inodes,     \* as many as can be open or named at once
  NoFile,     \* a name that is bound to no inode
  Torn,       \* bytes that are not a JSON document
  Genesis     \* None, the prior digest of the first receipt

ASSUME ClosureAssumption ==
  /\ NumStages \in Nat \ {0}
  /\ NoFile \notin Inodes
  /\ IsFiniteSet(Closers) /\ IsFiniteSet(Inodes)
  /\ Cardinality(Inodes) >= Cardinality(Closers) + 2

VARIABLES
  data,      \* content of each inode: the receipts of a ledger document, or Torn
  ledger,    \* inode of ledger_path, or NoFile
  tmp,       \* inode of ledger_path.tmp, or NoFile
  pc,        \* where each closer is in advance
  stage,     \* execution.stage of its call
  document,  \* the new state it is about to write
  fd,        \* the inode it has open
  returned   \* receipts that advance has returned to its callers

vars == <<data, ledger, tmp, pc, stage, document, fd, returned>>
callVars == <<stage, document, fd>>

Stages == 1..NumStages

PCs == {"idle", "commands", "reload", "open", "write", "replace"}

-----------------------------------------------------------------------------
(* load(): the receipts on file, if it accepts them.                        *)

Content == IF ledger = NoFile THEN << >> ELSE data[ledger]

\* Stages in order without a gap, each receipt bound to the one before it.
Accepted(doc) ==
  /\ doc # Torn
  /\ Len(doc) <= NumStages
  /\ \A i \in 1..Len(doc) :
       /\ doc[i].stage = i
       /\ doc[i].prior = IF i = 1 THEN Genesis ELSE doc[i - 1]

\* The digest of a receipt stands for the receipt.
Receipt(c, doc) ==
  [stage |-> stage[c], by |-> c,
   prior |-> IF doc = << >> THEN Genesis ELSE doc[Len(doc)]]

-----------------------------------------------------------------------------
(* advance(execution), up to the first read and from it to the return.      *)

\* Mutant: the caller's stage is not compared with the next one.
BeginAnywhere(c) ==
  /\ pc[c] = "idle"
  /\ Accepted(Content)
  /\ Len(Content) < NumStages
  /\ \E s \in Stages : stage' = [stage EXCEPT ![c] = s]
  /\ pc' = [pc EXCEPT ![c] = "commands"]
  /\ UNCHANGED <<data, ledger, tmp, document, fd, returned>>

\* next_stage(), and the test that the caller wants to close exactly that one.
Begin(c) ==
  /\ pc[c] = "idle"
  /\ Accepted(Content)
  /\ Len(Content) < NumStages
  /\ stage' = [stage EXCEPT ![c] = Len(Content) + 1]
  /\ pc' = [pc EXCEPT ![c] = "commands"]
  /\ UNCHANGED <<data, ledger, tmp, document, fd, returned>>

\* The stage's commands succeed and its artifacts have the expected bytes.
CommandsPass(c) ==
  /\ pc[c] = "commands"
  /\ pc' = [pc EXCEPT ![c] = "reload"]
  /\ UNCHANGED <<data, ledger, tmp, callVars, returned>>

CommandsFail(c) ==
  /\ pc[c] = "commands"
  /\ pc' = [pc EXCEPT ![c] = "idle"]
  /\ UNCHANGED <<data, ledger, tmp, callVars, returned>>

\* Mutant: the receipts on file are not carried over.
ReloadNothing(c) ==
  /\ pc[c] = "reload"
  /\ document' = [document EXCEPT ![c] = <<Receipt(c, << >>)>>]
  /\ pc' = [pc EXCEPT ![c] = "open"]
  /\ UNCHANGED <<data, ledger, tmp, stage, fd, returned>>

\* The file is loaded again and the receipt appended to what it holds now; that
\* the stage is still the next one is not tested again.
Reload(c) ==
  /\ pc[c] = "reload"
  /\ IF Accepted(Content)
     THEN /\ document' = [document EXCEPT ![c] = Append(Content, Receipt(c, Content))]
          /\ pc' = [pc EXCEPT ![c] = "open"]
     ELSE pc' = [pc EXCEPT ![c] = "idle"] /\ UNCHANGED document
  /\ UNCHANGED <<data, ledger, tmp, stage, fd, returned>>

FreeInodes == Inodes \ ({ledger, tmp} \cup {fd[c] : c \in Closers})

\* Mutant: the ledger is rewritten in place.
OpenLedger(c) ==
  /\ pc[c] = "open"
  /\ LET i == IF ledger # NoFile THEN ledger ELSE CHOOSE j \in FreeInodes : TRUE IN
     /\ tmp' = i
     /\ fd' = [fd EXCEPT ![c] = i]
     /\ data' = [data EXCEPT ![i] = Torn]
  /\ pc' = [pc EXCEPT ![c] = "write"]
  /\ UNCHANGED <<ledger, stage, document, returned>>

\* Mutant: the temporary file is created exclusively, and one that is there is an error.
OpenTmpExclusively(c) ==
  /\ pc[c] = "open"
  /\ IF tmp # NoFile
     THEN pc' = [pc EXCEPT ![c] = "idle"] /\ UNCHANGED <<data, tmp, fd>>
     ELSE LET i == CHOOSE j \in FreeInodes : TRUE IN
          /\ tmp' = i
          /\ fd' = [fd EXCEPT ![c] = i]
          /\ data' = [data EXCEPT ![i] = Torn]
          /\ pc' = [pc EXCEPT ![c] = "write"]
  /\ UNCHANGED <<ledger, stage, document, returned>>

\* write_bytes opens the temporary file, creating it or cutting it to nothing.
OpenTmp(c) ==
  /\ pc[c] = "open"
  /\ LET i == IF tmp # NoFile THEN tmp ELSE CHOOSE j \in FreeInodes : TRUE IN
     /\ tmp' = i
     /\ fd' = [fd EXCEPT ![c] = i]
     /\ data' = [data EXCEPT ![i] = Torn]
  /\ pc' = [pc EXCEPT ![c] = "write"]
  /\ UNCHANGED <<ledger, stage, document, returned>>

\* The bytes go to the start of the open file: what another closer has written
\* there is covered, but for a tail when it was longer.
WriteTmp(c) ==
  /\ pc[c] = "write"
  /\ \E bytes \in IF data[fd[c]] = Torn THEN {document[c]} ELSE {document[c], Torn} :
       data' = [data EXCEPT ![fd[c]] = bytes]
  /\ fd' = [fd EXCEPT ![c] = NoFile]
  /\ pc' = [pc EXCEPT ![c] = "replace"]
  /\ UNCHANGED <<ledger, tmp, stage, document, returned>>

\* os.replace moves whatever has the temporary name by now; without one it raises.
Replace(c) ==
  /\ pc[c] = "replace"
  /\ IF tmp # NoFile
     THEN /\ ledger' = tmp
          /\ tmp' = NoFile
          /\ returned' = returned \cup {document[c][Len(document[c])]}
     ELSE UNCHANGED <<ledger, tmp, returned>>
  /\ pc' = [pc EXCEPT ![c] = "idle"]
  /\ UNCHANGED <<data, callVars>>

\* The process dies; its files stay as they are.
Crash(c) ==
  /\ pc[c] # "idle"
  /\ pc' = [pc EXCEPT ![c] = "idle"]
  /\ fd' = [fd EXCEPT ![c] = NoFile]
  /\ UNCHANGED <<data, ledger, tmp, stage, document, returned>>

-----------------------------------------------------------------------------
Init ==
  /\ data = [i \in Inodes |-> Torn]
  /\ ledger = NoFile /\ tmp = NoFile
  /\ pc = [c \in Closers |-> "idle"]
  /\ stage = [c \in Closers |-> 1]
  /\ document = [c \in Closers |-> << >>]
  /\ fd = [c \in Closers |-> NoFile]
  /\ returned = {}

Next ==
  \E c \in Closers :
    \/ Begin(c)
    \/ CommandsPass(c)
    \/ CommandsFail(c)
    \/ Reload(c)
    \/ OpenTmp(c)
    \/ WriteTmp(c)
    \/ Replace(c)
    \/ Crash(c)

Spec == Init /\ [][Next]_vars

\* Whoever closes the generation calls advance again and again, and no step of it meets a
\* failure every time. Commands may fail and processes die for ever: hence strong fairness.
Retried(c) ==
  /\ SF_vars(Begin(c)) /\ SF_vars(CommandsPass(c)) /\ SF_vars(Reload(c))
  /\ SF_vars(OpenTmp(c)) /\ SF_vars(WriteTmp(c)) /\ SF_vars(Replace(c))

FairSpec == Spec /\ \A c \in Closers : Retried(c)
-----------------------------------------------------------------------------
(* Properties                                                               *)

TypeOK ==
  /\ ledger \in Inodes \cup {NoFile} /\ tmp \in Inodes \cup {NoFile}
  /\ pc \in [Closers -> PCs]
  /\ stage \in [Closers -> Stages]
  /\ fd \in [Closers -> Inodes \cup {NoFile}]
  /\ \A r \in returned : r.stage \in Stages /\ r.by \in Closers

\* "The ledger enforces ordering ... and receipt-chain integrity": the file that
\* advance leaves behind is one that load accepts, at every moment, so no
\* sequence of calls and crashes locks the generation out of its own ledger.
LedgerLoads == Accepted(Content)

\* The same promise for any number of closers, as far as it concerns documents
\* that are complete: a stage is recorded once, after the one before it.
StagesInOrder == Content # Torn => \A i \in 1..Len(Content) : Content[i].stage = i

\* A receipt that advance has returned is on the ledger.
ReturnedIsRecorded ==
  \A r \in returned : Content # Torn /\ \E i \in 1..Len(Content) : Content[i] = r

\* Nothing else happens to the receipts on file, whatever crashes leave behind:
\* the next stage is appended, one receipt at a time.
Chain == INSTANCE StageChain WITH chain <- Content

ImplementsStageChain == Chain!Spec

\* Nothing that an attempt leaves behind when it raises or dies, wherever it does, stands in
\* the way of the next one: with one closer each stage is closed in the end, up to the last.
EveryStageCloses ==
  \A s \in Stages : <>(Content # Torn /\ Len(Content) >= s)

\* The inductive strengthening for one closer at a time. Between two steps of a
\* call the ledger is what the call has read from it, the temporary file is
\* another one, and what it holds is torn while it is open and the new document
\* after that.
CallConsistent(c) ==
  /\ pc[c] # "idle" => stage[c] = Len(Content) + 1
  /\ pc[c] \in {"open", "write", "replace"} => document[c] = Append(Content, Receipt(c, Content))
  /\ fd[c] # NoFile <=> pc[c] = "write"
  /\ pc[c] = "write" => tmp = fd[c] /\ data[tmp] = Torn
  /\ pc[c] = "replace" => tmp # NoFile /\ data[tmp] = document[c]

ClosureIInv ==
  /\ TypeOK
  /\ data = [i \in Inodes |-> data[i]] /\ document = [c \in Closers |-> document[c]]
  /\ LedgerLoads
  /\ Content \in Seq({Content[i] : i \in DOMAIN Content})
  /\ ledger # NoFile => ledger # tmp
  /\ ReturnedIsRecorded
  /\ \A c \in Closers : CallConsistent(c)
=============================================================================
