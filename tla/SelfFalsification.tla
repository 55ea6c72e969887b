-------------------------- MODULE SelfFalsification --------------------------
(***************************************************************************)
(* select_self_falsification_attack and apply_self_falsification_outcome of *)
(* cwc/epistemics/self_falsification.py: a test against the memories and    *)
(* assumptions a plan rests on is proposed, runs for a while outside of the *)
(* program, and its negative outcome is applied to the memory ledger. The   *)
(* ledger goes on changing between the proposal and the outcome.             *)
(*                                                                          *)
(* Of the decisions only proposals are kept: no other can be applied.       *)
(* Outcomes that are not negative change nothing and are left out, and so   *)
(* are costs, rates and budgets: whether the information governor lets an   *)
(* eligible attack pass is an input.                                        *)
(***************************************************************************)
EXTENDS ProofPlanning

CONSTANT NoDecision  \* nothing is proposed yet

\* FalsificationAttack: the worlds, memories and assumptions it can refute.
Attacks ==
  {k \in [worlds : (SUBSET Worlds) \ {{}}, memories : SUBSET Ids, assumptions : SUBSET Assumptions] :
     k.memories # {} \/ k.assumptions # {}}

VARIABLE decision  \* the SelfFalsificationDecision that is kept

selfVars == <<planVars, decision>>

-----------------------------------------------------------------------------
(* select_self_falsification_attack(ledger, plan_certificate, worlds,        *)
(* candidate_world_id, attacks)                                              *)

\* _load_bearing_closure: all that the memories of the certificate rest on.
LoadBearing == UNION {Foundations(m) : m \in DOMAIN certificate.memories}
LoadAssumptions == UNION {current[m].assumptions : m \in LoadBearing}
Bindings == [m \in LoadBearing |-> current[m].version]

\* The worlds in which another action is best than in the candidate.
CrossDecision(worlds, candidate) ==
  {w \in DOMAIN worlds : worlds[w].top # worlds[candidate].top}

\* Mutant of Eligible: what the attack refutes need not carry the plan.
EligibleAnywhere(attack, cross) == cross \subseteq attack.worlds

Eligible(attack, cross) ==
  /\ cross \subseteq attack.worlds
  /\ attack.memories \subseteq LoadBearing
  /\ attack.assumptions \subseteq LoadAssumptions

ProposeAttack(candidate, attack) ==
  LET worlds == certificate.worlds
      cross == CrossDecision(worlds, candidate) IN
  /\ decision = NoDecision
  /\ Valid /\ certificate.decision # "BLOCKED_MEMORY_AUTHORITY"
  /\ candidate \in DOMAIN worlds /\ AllMargin(worlds)
  /\ cross # {} /\ Eligible(attack, cross)
  /\ decision' = [bindings |-> Bindings, loadAssumptions |-> LoadAssumptions,
                  memories |-> attack.memories, assumptions |-> attack.assumptions]
  /\ UNCHANGED planVars

-----------------------------------------------------------------------------
(* apply_self_falsification_outcome(decision, ledger, outcome, target_id)    *)

\* verify_self_falsification_decision
VerifiesDecision ==
  /\ decision # NoDecision /\ Valid
  /\ decision.bindings = Bindings /\ decision.loadAssumptions = LoadAssumptions

\* FALSIFIED_MEMORY
FalsifyMemory(m) ==
  /\ VerifiesDecision /\ m \in decision.memories
  /\ Retract(m)
  /\ UNCHANGED <<certificate, decision>>

\* INVALIDATED_ASSUMPTION
FalsifyAssumption(a) ==
  /\ VerifiesDecision /\ a \in decision.assumptions
  /\ InvalidateAssumption(a)
  /\ UNCHANGED <<certificate, decision>>

ApplyNegativeOutcome ==
  \/ \E m \in Ids : FalsifyMemory(m)
  \/ \E a \in Assumptions : FalsifyAssumption(a)

-----------------------------------------------------------------------------
SelfInit == PlanInit /\ decision = NoDecision

SelfNext ==
  \/ PlanNext /\ UNCHANGED decision
  \/ \E candidate \in Worlds, attack \in Attacks : ProposeAttack(candidate, attack)
  \/ ApplyNegativeOutcome

SelfSpec == SelfInit /\ [][SelfNext]_selfVars

-----------------------------------------------------------------------------
(* Properties                                                               *)

\* The certificate binds the versions of the memories the plan asked for, and of
\* none below them. That is enough: as long as it verifies, all that the plan
\* rests on is as it was when the attack was proposed.
PlanBindsItsClosure ==
  decision # NoDecision /\ Valid => VerifiesDecision

\* A negative outcome always takes the plan it was bound to with it, however far
\* below the plan's own memories it strikes: a decision is applied at most once.
FalsifiedPlanIsVoid ==
  [][ApplyNegativeOutcome => ~Valid']_selfVars

\* The inductive strengthening of the properties of certificates and decisions:
\* a certificate binds no version that is still to come, and the targets of a
\* decision are among what it binds.
SelfIInv ==
  /\ MemIInv /\ PlanTypeOK /\ ValidCertificateReplans /\ PlanBindsItsClosure
  /\ certificate # NoCertificate =>
       \A m \in DOMAIN certificate.memories : certificate.memories[m] \in 1..current[m].version
  /\ decision # NoDecision =>
       /\ certificate # NoCertificate /\ certificate.decision # "BLOCKED_MEMORY_AUTHORITY"
       /\ decision.memories \subseteq DOMAIN decision.bindings
       /\ decision.assumptions \subseteq decision.loadAssumptions
=============================================================================
