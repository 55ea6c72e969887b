----------------------------- MODULE FrozenPanel -----------------------------
(***************************************************************************)
(* What the distributed evaluation coordinator promises to the experiment   *)
(* that runs on it, with no leases, attempts or ticks: each unit of the     *)
(* frozen population is decided once, a decision is charged once and only   *)
(* within the budget, a decision can be spoiled but never replaced, and the *)
(* certificate exists only when every unit has its decision.                *)
(***************************************************************************)
EXTENDS Integers

CONSTANTS Units, Payloads, Amounts, Budget, Undecided

VARIABLES
  decision,   \* the payload recorded for each unit, or Undecided
  spoiled,    \* units that can no longer count towards completion
  bill,       \* total cost charged
  certified   \* has a certificate been handed out?

panelVars == <<decision, spoiled, bill, certified>>

Init ==
  /\ decision = [u \in Units |-> Undecided]
  /\ spoiled = {}
  /\ bill = 0
  /\ certified = FALSE

\* Record a first decision for a unit that is not spoiled, within the budget.
Decide(u, p, c) ==
  /\ decision[u] = Undecided
  /\ u \notin spoiled
  /\ bill + c <= Budget
  /\ decision' = [decision EXCEPT ![u] = p]
  /\ bill' = bill + c
  /\ UNCHANGED <<spoiled, certified>>

\* Give up on some units; what was decided and charged for them stays.
Spoil(S) ==
  /\ spoiled' = spoiled \cup S
  /\ UNCHANGED <<decision, bill, certified>>

Certify ==
  /\ spoiled = {}
  /\ \A u \in Units : decision[u] # Undecided
  /\ certified' = TRUE
  /\ UNCHANGED <<decision, spoiled, bill>>

Next ==
  \/ \E u \in Units, p \in Payloads, c \in Amounts : Decide(u, p, c)
  \/ \E S \in SUBSET Units : Spoil(S)
  \/ Certify

Spec == Init /\ [][Next]_panelVars
=============================================================================
