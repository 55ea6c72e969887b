---------------------------- MODULE ProofPlanning ----------------------------
(***************************************************************************)
(* plan_counterfactual and verify_plan_certificate of                       *)
(* cwc/planning/proof_carrying.py over a live memory ledger: a plan is made *)
(* from memory records the caller holds, which may be of old versions, and   *)
(* from a set of admitted worlds, and leaves a certificate. The ledger goes  *)
(* on changing while the certificate is kept, and is verified at any time.   *)
(*                                                                          *)
(* Of a world's utilities only its best action is kept, and whether that     *)
(* leads by the robust margin. The certified information channel either      *)
(* licenses an acquisition, or does not, or there is none. Scopes, costs,    *)
(* digests and reasons are left out.                                        *)
(***************************************************************************)
EXTENDS MemoryLedger

CONSTANTS
  Actions,       \* what a plan can choose from
  BaseWorlds,    \* admissible worlds that are not countermodels
  NoAction,      \* no action is selected
  NoCertificate  \* nothing is planned yet

Worlds == Countermodels \cup BaseWorlds

\* The admitted worlds of a plan: at least one, each with its utilities.
WorldSets ==
  UNION {[W -> [top : Actions, clear : BOOLEAN]] : W \in (SUBSET Worlds) \ {{}}}

PlanState == {"ROBUST_ACTION", "ASSUMPTION_CONDITIONAL_PLAN", "ACQUIRE_INFORMATION",
              "ABSTAIN_WORLD_DISAGREEMENT", "ABSTAIN_NO_UNIQUE_ROBUST_ACTION",
              "BLOCKED_MEMORY_AUTHORITY"}

ASSUME PlanAssumption == NoAction \notin Actions /\ Countermodels \cap BaseWorlds = {}

VARIABLE certificate  \* the PlanCertificate that is kept

planVars == <<memVars, certificate>>

-----------------------------------------------------------------------------
(* plan_counterfactual(ledger, required_memories, worlds, information_actions) *)

\* Mutant of QuarantineBlocks: the countermodels are not compared.
QuarantineBlocksUncountered(rec, worlds) ==
  /\ rec.status = "QUARANTINED"
  /\ rec.state \notin {"ASSUMPTION_CONDITIONAL", "INTERVENTION_SUPPORTED"}

\* A quarantined memory is an obstacle, unless it is conditional on assumptions,
\* or its countermodels are all among the admitted worlds.
QuarantineBlocks(rec, worlds) ==
  /\ rec.status = "QUARANTINED"
  /\ rec.state # "ASSUMPTION_CONDITIONAL"
  /\ rec.state = "INTERVENTION_SUPPORTED" /\ rec.countermodels # {}
       => ~(rec.countermodels \subseteq DOMAIN worlds)

\* The record the caller holds of m is version v.
MemoryBlocks(m, v, worlds) ==
  \/ v # current[m].version
  \/ current[m].status = "RETRACTED"
  \/ QuarantineBlocks(current[m], worlds)

IsConditional(ms) ==
  \E m \in ms : current[m].status = "QUARANTINED"
                /\ current[m].state = "ASSUMPTION_CONDITIONAL"

SameTop(worlds) == \A v, w \in DOMAIN worlds : worlds[v].top = worlds[w].top
AllMargin(worlds) == \A w \in DOMAIN worlds : worlds[w].clear

\* _robust_winner
RobustWinner(worlds) ==
  IF SameTop(worlds) /\ AllMargin(worlds)
  THEN worlds[CHOOSE w \in DOMAIN worlds : TRUE].top ELSE NoAction

\* What is decided over the current records of ms when none of them blocks.
Decide(ms, worlds, info) ==
  CASE IsConditional(ms) -> "ASSUMPTION_CONDITIONAL_PLAN"
    [] ~IsConditional(ms) /\ RobustWinner(worlds) # NoAction -> "ROBUST_ACTION"
    [] ~IsConditional(ms) /\ SameTop(worlds) /\ ~AllMargin(worlds) ->
         "ABSTAIN_NO_UNIQUE_ROBUST_ACTION"
    [] OTHER -> IF info = "LICENSED" THEN "ACQUIRE_INFORMATION"
                                     ELSE "ABSTAIN_WORLD_DISAGREEMENT"

\* The certificate binds the current version of each memory, also when the
\* caller's is older.
Certificate(ms, worlds, state) ==
  [decision |-> state,
   action |-> IF state \in {"ROBUST_ACTION", "ASSUMPTION_CONDITIONAL_PLAN"}
              THEN RobustWinner(worlds) ELSE NoAction,
   memories |-> [m \in ms |-> current[m].version],
   worlds |-> worlds]

\* required: the versions of memories the caller holds; unfit: whether it also
\* asks for something that is no memory of this ledger and context. One plan is
\* made: plans leave the ledger alone and share nothing else, so what holds of
\* any certificate holds of each.
Plan(required, unfit, worlds, info) ==
  LET ms == {r[1] : r \in required}
      invalid == unfit \/ \E r \in required : MemoryBlocks(r[1], r[2], worlds) IN
  /\ certificate = NoCertificate
  /\ certificate' = Certificate(ms, worlds,
                   IF invalid THEN "BLOCKED_MEMORY_AUTHORITY" ELSE Decide(ms, worlds, info))
  /\ UNCHANGED memVars

-----------------------------------------------------------------------------
(* verify_plan_certificate(certificate, ledger, worlds)                     *)

\* Mutant of Verifies: the versions of the memories are not compared.
VerifiesIds(cert, worlds) ==
  DOMAIN cert.memories \subseteq Known /\ cert.worlds = worlds

Verifies(cert, worlds) ==
  /\ \A m \in DOMAIN cert.memories :
       m \in Known /\ cert.memories[m] = current[m].version
  /\ cert.worlds = worlds

Valid == certificate # NoCertificate /\ Verifies(certificate, certificate.worlds)

-----------------------------------------------------------------------------
Held == {r \in Ids \X (1..2) : r[1] \in Known /\ r[2] <= Len(history[r[1]])}

PlanInit == MemInit /\ certificate = NoCertificate

PlanNext ==
  \/ MemNext /\ UNCHANGED certificate
  \/ \E required \in SUBSET Held, unfit \in BOOLEAN, worlds \in WorldSets,
        info \in {"NONE", "REFUSED", "LICENSED"} :
       Plan(required, unfit, worlds, info)

PlanSpec == PlanInit /\ [][PlanNext]_planVars

-----------------------------------------------------------------------------
(* Properties                                                               *)

PlanTypeOK ==
  \/ certificate = NoCertificate
  \/ /\ certificate.decision \in PlanState
     /\ certificate.action \in Actions \cup {NoAction}
     /\ DOMAIN certificate.memories \subseteq Known
     /\ certificate.worlds \in WorldSets

\* A certificate that verifies is worth what it was: whatever was consolidated,
\* retracted and invalidated since, planning again with what it binds is not
\* blocked and selects the same action under the same authority.
ValidCertificateReplans ==
  Valid /\ certificate.decision # "BLOCKED_MEMORY_AUTHORITY" =>
    LET ms == DOMAIN certificate.memories IN
    /\ \A m \in ms : ~MemoryBlocks(m, certificate.memories[m], certificate.worlds)
    /\ \E info \in {"REFUSED", "LICENSED"} :
         certificate = Certificate(ms, certificate.worlds,
                                   Decide(ms, certificate.worlds, info))

\* "a robust action exists only if" it leads by the margin "for every admitted
\* world", and a memory that is not active takes part "only when every surviving
\* countermodel id is explicitly represented in the admitted world set". Every
\* other memory of a valid certificate rests on active memories all the way down.
RobustActionIsJustified ==
  Valid /\ certificate.decision = "ROBUST_ACTION" =>
    /\ \A w \in DOMAIN certificate.worlds :
         certificate.worlds[w] = [top |-> certificate.action, clear |-> TRUE]
    /\ \A m \in DOMAIN certificate.memories :
         \/ \A n \in Foundations(m) : IsActive(n) /\ current[n].assumptions \cap invalidated = {}
         \/ /\ current[m].state = "INTERVENTION_SUPPORTED" /\ current[m].countermodels # {}
            /\ current[m].countermodels \subseteq DOMAIN certificate.worlds

\* "Memory revision/retraction [...] invalidates the old certificate", for good.
VoidStaysVoid ==
  [][certificate # NoCertificate /\ ~Valid => ~Valid']_planVars

\* "required memory is legacy, stale, retracted, context-mismatched, or has
\* unrepresented authority debt" is why a plan is blocked: so an action without
\* conditions rests on no retracted memory and on no invalidated assumption.
RobustHasNoHiddenDebt ==
  Valid /\ certificate.decision = "ROBUST_ACTION" =>
    \A m \in DOMAIN certificate.memories : \A n \in Foundations(m) :
      current[n].status # "RETRACTED" /\ current[n].assumptions \cap invalidated = {}
=============================================================================
