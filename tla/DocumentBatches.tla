--------------------------- MODULE DocumentBatches ---------------------------
(***************************************************************************)
(* _document_batches of nanochat/dataloader.py: which row groups of the     *)
(* dataset's parquet files a rank reads, and where it goes on after a       *)
(* resume. The files are read round after round, one round per epoch, so a  *)
(* pair of epoch and file is counted as one pass over one file: pass 0 is   *)
(* the first file of the first epoch.                                       *)
(***************************************************************************)
EXTENDS Naturals, Sequences

CONSTANTS
  WorldSize,  \* ddp_world_size
  RowGroups,  \* the number of row groups of each file
  MaxRounds   \* bound: rounds of the files that a rank reads at once

Ranks == 0..(WorldSize - 1)

\* Every rank finds a row group in some file: a rank that finds none goes round
\* the files without end and never yields.
ASSUME LoaderAssumption ==
  /\ WorldSize \in Nat \ {0}
  /\ RowGroups \in Seq(Nat)
  /\ \E f \in 1..Len(RowGroups) : RowGroups[f] >= WorldSize
  /\ MaxRounds \in Nat \ {0}

\* The number of row groups of the file that a pass reads.
GroupsOf(pass) == RowGroups[(pass % Len(RowGroups)) + 1]

GroupNumbers == UNION {0..(RowGroups[f] - 1) : f \in 1..Len(RowGroups)}

Before(p, q) == p.pass < q.pass \/ (p.pass = q.pass /\ p.group < q.group)

\* The row groups of rank r from pass n on: every WorldSize-th one of a file, from
\* its own number on.
Assigned(r, n) ==
  {p \in [pass : n..(n + MaxRounds * Len(RowGroups)), group : GroupNumbers] :
     p.group < GroupsOf(p.pass) /\ p.group % WorldSize = r}

\* Those that rank r comes to, in this order: afresh, and after it has read p.
FirstGroups(r) == Assigned(r, 0)
NextGroups(r, p) == {q \in Assigned(r, p.pass) : Before(p, q)}

\* Mutant: the rank is left out of the group to resume at.
ResumeUnranked(r, at) ==
  {q \in Assigned(0, at.pass) :
     q.pass = at.pass => q.group \div WorldSize > at.group \div WorldSize}

\* And after a resume from a saved position: those in a later stride of WorldSize
\* groups than the saved position, and those of later files.
ResumeGroups(r, at) ==
  {q \in Assigned(r, at.pass) :
     q.pass = at.pass => q.group \div WorldSize > at.group \div WorldSize}

\* The buffer is refilled until it is full: a rank reads the row groups that it comes
\* to, one after the other, up to one of them.
Upto(groups, q) == {p \in groups : ~Before(q, p)}
=============================================================================
