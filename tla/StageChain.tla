----------------------------- MODULE StageChain -----------------------------
(***************************************************************************)
(* What the evidence closure ledger promises: a chain of receipts, one for  *)
(* each stage of a fixed order, extended at its end and nowhere else.       *)
(***************************************************************************)
EXTENDS Naturals, Sequences

CONSTANTS NumStages, Closers, Genesis

VARIABLE chain   \* the receipts, in order

Init == chain = << >>

\* The next stage is closed, on top of the receipts that are there.
Extend(c) ==
  /\ Len(chain) < NumStages
  /\ chain' = Append(chain, [stage |-> Len(chain) + 1, by |-> c,
                             prior |-> IF chain = << >> THEN Genesis ELSE chain[Len(chain)]])

Next == \E c \in Closers : Extend(c)

Spec == Init /\ [][Next]_chain
=============================================================================
