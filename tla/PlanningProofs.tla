---------------------------- MODULE PlanningProofs ----------------------------
(***************************************************************************)
(* What a plan certificate and a self-falsification decision are worth while *)
(* the memory ledger changes under them, for all memories, assumptions,      *)
(* worlds and actions. The inductive invariant is that of the ledger, with   *)
(* what the certificate and the decision remember of it.                     *)
(***************************************************************************)
EXTENDS SelfFalsification, MemoryLedgerProofs

-----------------------------------------------------------------------------
(* The ledger, seen from a certificate                                      *)

\* A memory of the ledger is revised at most once in its life, by a retraction.
LEMMA RecordStep ==
  ASSUME MemIInv, MemNext \/ UNCHANGED memVars, NEW m \in Known
  PROVE  /\ m \in Known'
         /\ current[m] \in MemoryRecord /\ current'[m].deps = current[m].deps
         /\ \/ current'[m] = current[m]
            \/ /\ current[m].status # "RETRACTED" /\ current'[m].status = "RETRACTED"
               /\ current[m].version = 1 /\ current'[m].version = 2
<1>1. current[m] \in MemoryRecord /\ m \in Ids
  BY DEF MemIInv, MemTypeOK, Known
<1>2. ASSUME NEW targets \in SUBSET Known, RetractAll(targets)
      PROVE  /\ m \in Known' /\ current'[m].deps = current[m].deps
             /\ \/ current'[m] = current[m]
                \/ /\ current[m].status # "RETRACTED" /\ current'[m].status = "RETRACTED"
                   /\ current[m].version = 1 /\ current'[m].version = 2
  <2>1. m \in Known'
    BY <1>2, RetractStep
  <2>2. CASE m \in ToRetract(targets)
    <3>1. current'[m] = Retracted(current[m]) /\ current[m].version = 1
      BY <1>2, <2>2, RetractStep
    <3>2. current[m].status # "RETRACTED"
      BY <2>2 DEF ToRetract
    <3> QED BY <1>1, <2>1, <3>1, <3>2, RetractedRecord
  <2>3. CASE m \notin ToRetract(targets)
    BY <1>1, <1>2, <2>1, <2>3, RetractStep
  <2> QED BY <2>2, <2>3
<1>3. CASE \E k \in Ids, state \in States, assumptions \in SUBSET Assumptions,
            counters \in SUBSET Countermodels, deps \in SUBSET Ids :
            Consolidate(k, state, assumptions, counters, deps)
  BY <1>1, <1>3, ConsolidateStep
<1>4. ASSUME NEW k \in Ids, Retract(k)
      PROVE  \E targets \in SUBSET Known : RetractAll(targets)
  BY <1>4, ClosureContains DEF Retract
<1>5. ASSUME NEW a \in Assumptions, InvalidateAssumption(a)
      PROVE  \E targets \in SUBSET Known : RetractAll(targets)
  BY <1>5, ClosureContains DEF InvalidateAssumption, Carriers
<1>6. CASE UNCHANGED memVars
  BY <1>1, <1>6 DEF memVars, Known
<1> QED BY <1>1, <1>2, <1>3, <1>4, <1>5, <1>6 DEF MemNext

\* All that a memory rests on is a set of memories that contains it and is closed
\* under dependencies.
LEMMA FoundationsClosed ==
  ASSUME MemTypeOK, NEW m \in Known
  PROVE  /\ Foundations(m) \in SUBSET Known /\ m \in Foundations(m)
         /\ \A k \in Foundations(m) : current[k].deps \subseteq Foundations(m)
<1>1. Foundations(m) \in SUBSET Known /\ m \in Foundations(m)
  BY DEF Foundations
<1>2. SUFFICES ASSUME NEW k \in Foundations(m), NEW d \in current[k].deps,
                      NEW S \in SUBSET Known, m \in S, \A j \in S : current[j].deps \subseteq S
               PROVE  d \in Known /\ d \in S
  BY <1>1 DEF Foundations, MemTypeOK
<1>3. k \in S
  BY <1>2 DEF Foundations
<1> QED BY <1>2, <1>3

\* What a memory rests on is settled when it is consolidated.
LEMMA FoundationsStay ==
  ASSUME MemIInv, MemIInv', MemNext \/ UNCHANGED memVars, NEW m \in Known
  PROVE  Foundations(m)' = Foundations(m)
<1>1. /\ Known \subseteq Known'
      /\ \A k \in Known : current'[k].deps = current[k].deps /\ current[k].deps \subseteq Known
  BY RecordStep DEF MemIInv, MemTypeOK
<1>2. ASSUME NEW n \in Foundations(m)' PROVE n \in Foundations(m)
  <2>1. /\ Foundations(m) \in SUBSET Known /\ m \in Foundations(m)
        /\ \A k \in Foundations(m) : current[k].deps \subseteq Foundations(m)
    BY FoundationsClosed DEF MemIInv
  <2>2. \A S \in SUBSET Known' :
          m \in S /\ (\A k \in S : current'[k].deps \subseteq S) => n \in S
    BY <1>2 DEF Foundations
  <2>3. Foundations(m) \in SUBSET Known'
    BY <1>1, <2>1
  <2>4. \A k \in Foundations(m) : current'[k].deps \subseteq Foundations(m)
    BY <1>1, <2>1
  <2> HIDE DEF Foundations
  <2> QED BY <2>1, <2>2, <2>3, <2>4
<1>3. ASSUME NEW n \in Foundations(m) PROVE n \in Foundations(m)'
  <2>1. n \in Known /\ n \in Known'
    BY <1>1 DEF Foundations
  <2>2. SUFFICES ASSUME NEW S \in SUBSET (Known'), m \in S,
                        \A k \in S : current'[k].deps \subseteq S
                 PROVE  n \in S
    BY <2>1 DEF Foundations
  <2> DEFINE T == S \cap Known
  <2>3. T \in SUBSET Known /\ m \in T /\ \A k \in T : current[k].deps \subseteq T
    BY <1>1, <2>2
  <2>4. n \in T
    BY <2>3 DEF Foundations
  <2> QED BY <2>4
<1> QED BY <1>2, <1>3

-----------------------------------------------------------------------------
(* Planning                                                                 *)

\* What is decided is never that memory blocks the plan.
LEMMA DecideNeverBlocks ==
  ASSUME NEW ms, NEW worlds, NEW info
  PROVE  Decide(ms, worlds, info) \in PlanState \ {"BLOCKED_MEMORY_AUTHORITY"}
<1> DEFINE conditional == IsConditional(ms)
           robust == RobustWinner(worlds) # NoAction
           unclear == SameTop(worlds) /\ ~AllMargin(worlds)
<1>1. CASE conditional
  BY <1>1 DEF Decide, PlanState
<1>2. CASE ~conditional /\ robust
  BY <1>2 DEF Decide, PlanState
<1>3. CASE ~conditional /\ ~robust
  <2>1. CASE unclear
    BY <1>3, <2>1 DEF Decide, PlanState
  <2>2. CASE ~unclear
    BY <1>3, <2>2 DEF Decide, PlanState
  <2> QED BY <2>1, <2>2
<1> QED BY <1>1, <1>2, <1>3

\* The winner is the best action of every world, or there is none.
LEMMA WinnerIsTop ==
  ASSUME NEW worlds \in WorldSets
  PROVE  /\ RobustWinner(worlds) \in Actions \cup {NoAction}
         /\ RobustWinner(worlds) # NoAction =>
              \A w \in DOMAIN worlds :
                worlds[w] = [top |-> RobustWinner(worlds), clear |-> TRUE]
<1>1. PICK W \in (SUBSET Worlds) \ {{}} : worlds \in [W -> [top : Actions, clear : BOOLEAN]]
  BY DEF WorldSets
<1> DEFINE v == CHOOSE w \in DOMAIN worlds : TRUE
<1>2. v \in DOMAIN worlds
  BY <1>1
<1> HIDE DEF v
<1>3. CASE SameTop(worlds) /\ AllMargin(worlds)
  <2>1. RobustWinner(worlds) = worlds[v].top
    BY <1>3 DEF RobustWinner, v
  <2>2. ASSUME NEW w \in DOMAIN worlds PROVE worlds[w] = [top |-> worlds[v].top, clear |-> TRUE]
    <3>1. worlds[w] \in [top : Actions, clear : BOOLEAN]
      BY <1>1
    <3>2. worlds[w].top = worlds[v].top /\ worlds[w].clear = TRUE
      BY <1>2, <1>3, <3>1 DEF SameTop, AllMargin
    <3> QED BY <3>1, <3>2
  <2> QED BY <1>1, <1>2, <2>1, <2>2
<1>4. CASE ~(SameTop(worlds) /\ AllMargin(worlds))
  BY <1>4 DEF RobustWinner
<1> QED BY <1>3, <1>4

\* A new certificate binds the ledger as it is, and unless it is blocked it says
\* what the planner says of the records it binds.
LEMMA PlanIssues ==
  ASSUME SelfIInv, NEW required \in SUBSET Held, NEW unfit \in BOOLEAN, NEW worlds \in WorldSets,
         NEW info \in {"NONE", "REFUSED", "LICENSED"}, Plan(required, unfit, worlds, info)
  PROVE  /\ PlanTypeOK' /\ ValidCertificateReplans'
         /\ \A m \in DOMAIN certificate'.memories :
              certificate'.memories[m] \in 1..current'[m].version
<1> DEFINE ms == {r[1] : r \in required}
           invalid == unfit \/ \E r \in required : MemoryBlocks(r[1], r[2], worlds)
           decided == Decide(ms, worlds, info)
           state == IF invalid THEN "BLOCKED_MEMORY_AUTHORITY" ELSE decided
           new == Certificate(ms, worlds, state)
<1>1. certificate' = new /\ UNCHANGED memVars
  BY DEF Plan
<1>2. ms \subseteq Known /\ \A m \in ms : current[m].version \in 1..current[m].version
  <2>1. ms \subseteq Known
    BY DEF Held
  <2>2. \A m \in ms : current[m].version \in {1, 2}
    BY <2>1 DEF SelfIInv, MemIInv, MemTypeOK, Known, MemoryRecord
  <2> QED BY <2>1, <2>2
<1>3. decided \in PlanState \ {"BLOCKED_MEMORY_AUTHORITY"}
  BY DecideNeverBlocks
<1>4. /\ new.decision = state /\ new.worlds = worlds
      /\ new.memories = [m \in ms |-> current[m].version]
      /\ new.action \in {RobustWinner(worlds), NoAction}
  BY DEF Certificate
<1>5. RobustWinner(worlds) \in Actions \cup {NoAction}
  BY WinnerIsTop
<1> HIDE DEF ms, decided
<1>6. state \in PlanState
  BY <1>3 DEF PlanState
<1> HIDE DEF new, state, invalid
<1>7. PlanTypeOK'
  BY <1>1, <1>2, <1>4, <1>5, <1>6 DEF PlanTypeOK, memVars, Known
<1>8. \A m \in DOMAIN certificate'.memories : certificate'.memories[m] \in 1..current'[m].version
  BY <1>1, <1>2, <1>4 DEF memVars
<1>9. ASSUME state # "BLOCKED_MEMORY_AUTHORITY"
      PROVE  /\ \A m \in ms : ~MemoryBlocks(m, current[m].version, worlds)
             /\ \E i \in {"REFUSED", "LICENSED"} : new = Certificate(ms, worlds, Decide(ms, worlds, i))
  <2>1. ~invalid /\ state = decided
    BY <1>9 DEF state
  <2>2. \A m \in ms : \E r \in required : r[1] = m /\ ~MemoryBlocks(m, r[2], worlds)
    BY <2>1 DEF ms, invalid
  <2>3. \A m \in ms : ~MemoryBlocks(m, current[m].version, worlds)
    BY <2>2 DEF MemoryBlocks
  <2>4. \E i \in {"REFUSED", "LICENSED"} : decided = Decide(ms, worlds, i)
    <3>1. CASE info = "NONE"
      BY <3>1 DEF decided, Decide
    <3>2. CASE info # "NONE"
      BY <3>2 DEF decided
    <3> QED BY <3>1, <3>2
  <2> QED BY <2>1, <2>3, <2>4 DEF new
<1>10. ValidCertificateReplans'
  <2>1. /\ current' = current
        /\ DOMAIN certificate'.memories = ms
        /\ \A m \in ms : certificate'.memories[m] = current[m].version
        /\ certificate'.worlds = worlds /\ certificate'.decision = state
    BY <1>1, <1>4 DEF memVars
  <2> QED BY <1>1, <1>9, <2>1 DEF ValidCertificateReplans, MemoryBlocks, QuarantineBlocks, Certificate,
          Decide, IsConditional
<1> QED BY <1>7, <1>8, <1>10

-----------------------------------------------------------------------------
(* The ledger changes under a certificate                                   *)

\* A certificate that verifies after a step of the ledger did so before, and the
\* memories it binds are as they were.
LEMMA ValidIsOld ==
  ASSUME SelfIInv, MemNext \/ UNCHANGED memVars, UNCHANGED certificate, Valid'
  PROVE  Valid /\ \A m \in DOMAIN certificate.memories : m \in Known /\ current'[m] = current[m]
<1>1. /\ certificate # NoCertificate
      /\ \A m \in DOMAIN certificate.memories : certificate.memories[m] = current'[m].version
  BY DEF Valid, Verifies
<1>2. ASSUME NEW m \in DOMAIN certificate.memories
      PROVE  m \in Known /\ current'[m] = current[m] /\ certificate.memories[m] = current[m].version
  <2>1. m \in Known /\ certificate.memories[m] \in 1..current[m].version
    BY <1>1, <1>2 DEF SelfIInv, PlanTypeOK
  <2>2. \/ current'[m] = current[m]
        \/ current[m].version = 1 /\ current'[m].version = 2
    BY <2>1, RecordStep DEF SelfIInv
  <2>3. certificate.memories[m] # 2 \/ current[m].version # 1
    BY <2>1
  <2> QED BY <1>1, <1>2, <2>1, <2>2, <2>3
<1> QED BY <1>1, <1>2 DEF Valid, Verifies

\* What is said of a certificate stays true while the ledger changes.
LEMMA LedgerKeepsCertificate ==
  ASSUME SelfIInv, MemNext \/ UNCHANGED memVars, UNCHANGED certificate
  PROVE  /\ PlanTypeOK' /\ ValidCertificateReplans'
         /\ certificate' # NoCertificate =>
              \A m \in DOMAIN certificate'.memories :
                certificate'.memories[m] \in 1..current'[m].version
<1>1. PlanTypeOK'
  <2>1. Known \subseteq Known'
    BY RecordStep DEF SelfIInv
  <2> QED BY <2>1 DEF SelfIInv, PlanTypeOK
<1>2. ASSUME certificate # NoCertificate, NEW m \in DOMAIN certificate.memories
      PROVE  certificate.memories[m] \in 1..current'[m].version
  <2>1. m \in Known /\ certificate.memories[m] \in 1..current[m].version
    BY <1>2 DEF SelfIInv, PlanTypeOK
  <2>2. \/ current'[m] = current[m]
        \/ current[m].version = 1 /\ current'[m].version = 2
    BY <2>1, RecordStep DEF SelfIInv
  <2> QED BY <2>1, <2>2
<1>3. ASSUME Valid', certificate.decision # "BLOCKED_MEMORY_AUTHORITY"
      PROVE  ValidCertificateReplans'
  <2>1. Valid /\ \A m \in DOMAIN certificate.memories : current'[m] = current[m]
    BY <1>3, ValidIsOld
  <2>2. ValidCertificateReplans
    BY DEF SelfIInv
  <2>3. \A m \in DOMAIN certificate.memories :
          ~MemoryBlocks(m, certificate.memories[m], certificate.worlds)'
    BY <1>3, <2>1, <2>2 DEF ValidCertificateReplans, MemoryBlocks, QuarantineBlocks
  <2> DEFINE ms == DOMAIN certificate.memories
  <2>4. IsConditional(ms)' = IsConditional(ms)
    BY <2>1 DEF IsConditional
  <2>5. ASSUME NEW info
        PROVE  Decide(ms, certificate.worlds, info)' = Decide(ms, certificate.worlds, info)
    BY <2>4 DEF Decide
  <2>6. ASSUME NEW state
        PROVE  Certificate(ms, certificate.worlds, state)' = Certificate(ms, certificate.worlds, state)
    BY <2>1 DEF Certificate
  <2>7. PICK info \in {"REFUSED", "LICENSED"} :
          certificate = Certificate(ms, certificate.worlds, Decide(ms, certificate.worlds, info))
    BY <1>3, <2>1, <2>2 DEF ValidCertificateReplans
  <2>8. certificate' = Certificate(ms, certificate.worlds, Decide(ms, certificate.worlds, info))'
    BY <2>5, <2>6, <2>7
  <2> QED BY <2>3, <2>8 DEF ValidCertificateReplans
<1>4. ValidCertificateReplans'
  BY <1>3 DEF ValidCertificateReplans
<1> QED BY <1>1, <1>2, <1>4

\* Nothing that a plan rests on changes without the plan: a retraction below
\* would have reached its memories, and none of them is retracted already.
LEMMA ClosureStays ==
  ASSUME SelfIInv, MemIInv', MemNext \/ UNCHANGED memVars, UNCHANGED certificate, Valid',
         certificate.decision # "BLOCKED_MEMORY_AUTHORITY"
  PROVE  Bindings' = Bindings /\ LoadAssumptions' = LoadAssumptions
<1>1. Valid /\ \A m \in DOMAIN certificate.memories : m \in Known /\ current'[m] = current[m]
  BY ValidIsOld
<1>2. \A m \in DOMAIN certificate.memories : current[m].status # "RETRACTED"
  BY <1>1 DEF SelfIInv, ValidCertificateReplans, MemoryBlocks
<1>3. \A m \in DOMAIN certificate.memories : Foundations(m)' = Foundations(m)
  BY <1>1, FoundationsStay DEF SelfIInv
<1>4. LoadBearing' = LoadBearing
  BY <1>3 DEF LoadBearing
<1>5. ASSUME NEW n \in LoadBearing PROVE current'[n] = current[n]
  <2>1. PICK m \in DOMAIN certificate.memories : n \in Foundations(m)
    BY DEF LoadBearing
  <2>2. n \in Known
    BY <2>1 DEF Foundations
  <2>3. SUFFICES ASSUME MemNext, current[n].status # "RETRACTED", current'[n].status = "RETRACTED"
                 PROVE  FALSE
    BY <2>2, RecordStep DEF SelfIInv, memVars
  <2>4. current'[m].status = "RETRACTED"
    BY <1>1, <2>1, <2>3, RetractionReaches DEF SelfIInv
  <2> QED BY <1>1, <1>2, <2>4
<1> QED BY <1>4, <1>5 DEF Bindings, LoadAssumptions

-----------------------------------------------------------------------------
(* The inductive invariant                                                  *)

\* A negative outcome is a retraction of the ledger.
LEMMA FalsifyIsLedgerStep ==
  ASSUME ApplyNegativeOutcome
  PROVE  MemNext /\ UNCHANGED <<certificate, decision>>
BY DEF ApplyNegativeOutcome, FalsifyMemory, FalsifyAssumption, MemNext

\* The ledger may change in any way under a certificate and a decision.
LEMMA LedgerKeepsInvariant ==
  ASSUME SelfIInv, MemNext \/ UNCHANGED memVars, UNCHANGED <<certificate, decision>>
  PROVE  SelfIInv'
<1>1. MemIInv'
  BY MemNextKeepsInvariant, MemStutter DEF SelfIInv
<1>2. /\ PlanTypeOK' /\ ValidCertificateReplans'
      /\ certificate' # NoCertificate =>
           \A m \in DOMAIN certificate'.memories :
             certificate'.memories[m] \in 1..current'[m].version
  BY LedgerKeepsCertificate
<1>3. ASSUME decision # NoDecision, Valid' PROVE VerifiesDecision'
  <2>1. Valid /\ certificate.decision # "BLOCKED_MEMORY_AUTHORITY"
    BY <1>3, ValidIsOld DEF SelfIInv
  <2>2. decision.bindings = Bindings /\ decision.loadAssumptions = LoadAssumptions
    BY <1>3, <2>1 DEF SelfIInv, PlanBindsItsClosure, VerifiesDecision
  <2>3. Bindings' = Bindings /\ LoadAssumptions' = LoadAssumptions
    BY <1>1, <1>3, <2>1, ClosureStays
  <2> QED BY <1>3, <2>2, <2>3 DEF VerifiesDecision
<1>4. PlanBindsItsClosure'
  BY <1>3 DEF PlanBindsItsClosure
<1> QED BY <1>1, <1>2, <1>4 DEF SelfIInv

\* A proposal binds what verifies at that moment, and targets a part of it.
LEMMA ProposeKeepsInvariant ==
  ASSUME SelfIInv, NEW candidate \in Worlds, NEW attack \in Attacks, ProposeAttack(candidate, attack)
  PROVE  SelfIInv'
<1> DEFINE new == [bindings |-> Bindings, loadAssumptions |-> LoadAssumptions,
                   memories |-> attack.memories, assumptions |-> attack.assumptions]
<1>1. /\ Valid /\ certificate.decision # "BLOCKED_MEMORY_AUTHORITY"
      /\ attack.memories \subseteq LoadBearing /\ attack.assumptions \subseteq LoadAssumptions
      /\ decision' = new /\ UNCHANGED planVars
  BY DEF ProposeAttack, Eligible
<1>2. /\ new.bindings = Bindings /\ new.loadAssumptions = LoadAssumptions
      /\ new.memories \subseteq DOMAIN Bindings /\ new.assumptions \subseteq LoadAssumptions
  BY <1>1 DEF Bindings
<1> HIDE DEF new
<1>3. UNCHANGED memVars /\ UNCHANGED certificate
  BY <1>1 DEF planVars
<1>4. /\ MemIInv' /\ PlanTypeOK' /\ ValidCertificateReplans'
      /\ certificate' # NoCertificate =>
           \A m \in DOMAIN certificate'.memories :
             certificate'.memories[m] \in 1..current'[m].version
  BY <1>3, MemStutter, LedgerKeepsCertificate DEF SelfIInv
<1>5. Bindings' = Bindings /\ LoadAssumptions' = LoadAssumptions
  BY <1>3 DEF Bindings, LoadAssumptions, LoadBearing, Foundations, Known, memVars
<1>6. PlanBindsItsClosure'
  BY <1>1, <1>2, <1>5 DEF PlanBindsItsClosure, VerifiesDecision
<1> QED BY <1>1, <1>2, <1>3, <1>4, <1>6 DEF SelfIInv, Valid

\* There is no decision before there is a certificate.
LEMMA PlanKeepsInvariant ==
  ASSUME SelfIInv, NEW required \in SUBSET Held, NEW unfit \in BOOLEAN, NEW worlds \in WorldSets,
         NEW info \in {"NONE", "REFUSED", "LICENSED"}, Plan(required, unfit, worlds, info),
         UNCHANGED decision
  PROVE  SelfIInv'
<1>1. certificate = NoCertificate /\ UNCHANGED memVars
  BY DEF Plan
<1>2. MemIInv'
  BY <1>1, MemStutter DEF SelfIInv
<1>3. decision' = NoDecision
  BY <1>1 DEF SelfIInv
<1> QED BY <1>2, <1>3, PlanIssues DEF SelfIInv, PlanBindsItsClosure

\* The inductive invariant holds of every reachable certificate and decision.
THEOREM SelfInvariant == SelfSpec => []SelfIInv
<1>1. SelfInit => SelfIInv
  <2> SUFFICES ASSUME SelfInit PROVE SelfIInv
    OBVIOUS
  <2>1. MemIInv
    BY MemInitInvariant DEF SelfInit, PlanInit
  <2> QED BY <2>1 DEF SelfInit, PlanInit, SelfIInv, PlanTypeOK, ValidCertificateReplans,
                  PlanBindsItsClosure, Valid
<1>2. SelfIInv /\ [SelfNext]_selfVars => SelfIInv'
  <2> SUFFICES ASSUME SelfIInv, [SelfNext]_selfVars PROVE SelfIInv'
    OBVIOUS
  <2>1. CASE MemNext /\ UNCHANGED <<certificate, decision>>
    BY <2>1, LedgerKeepsInvariant
  <2>2. CASE /\ UNCHANGED decision
             /\ \E required \in SUBSET Held, unfit \in BOOLEAN, worlds \in WorldSets,
                  info \in {"NONE", "REFUSED", "LICENSED"} : Plan(required, unfit, worlds, info)
    BY <2>2, PlanKeepsInvariant
  <2>3. CASE \E candidate \in Worlds, attack \in Attacks : ProposeAttack(candidate, attack)
    BY <2>3, ProposeKeepsInvariant
  <2>4. CASE ApplyNegativeOutcome
    BY <2>4, FalsifyIsLedgerStep, LedgerKeepsInvariant
  <2>5. CASE UNCHANGED selfVars
    BY <2>5, LedgerKeepsInvariant DEF selfVars, planVars
  <2> QED BY <2>1, <2>2, <2>3, <2>4, <2>5 DEF SelfNext, PlanNext
<1> QED BY <1>1, <1>2, PTL DEF SelfSpec

-----------------------------------------------------------------------------
(* The properties of certificates and decisions                             *)

\* A certificate that verifies would be issued again as it is, whatever happened
\* to the ledger in the meantime.
THEOREM CertificatesReplan == SelfSpec => []ValidCertificateReplans
<1>1. SelfIInv => ValidCertificateReplans
  BY DEF SelfIInv
<1> QED BY <1>1, SelfInvariant, PTL

\* A robust action that verifies leads in every admitted world, and each memory
\* it asked for is active down to its foundations, or has its countermodels
\* among the admitted worlds.
THEOREM RobustIsJustified == SelfSpec => []RobustActionIsJustified
<1>1. SelfIInv => RobustActionIsJustified
  <2> SUFFICES ASSUME SelfIInv, Valid, certificate.decision = "ROBUST_ACTION"
               PROVE  RobustActionIsJustified
    BY DEF RobustActionIsJustified
  <2> DEFINE ms == DOMAIN certificate.memories
             worlds == certificate.worlds
  <2>1. PICK info \in {"REFUSED", "LICENSED"} :
          certificate = Certificate(ms, worlds, Decide(ms, worlds, info))
    BY DEF SelfIInv, ValidCertificateReplans
  <2>2. worlds \in WorldSets /\ ms \subseteq Known
    BY DEF SelfIInv, PlanTypeOK, Valid
  <2>3. \A m \in ms : ~MemoryBlocks(m, certificate.memories[m], worlds)
    BY DEF SelfIInv, ValidCertificateReplans
  <2>4. /\ Decide(ms, worlds, info) = "ROBUST_ACTION"
        /\ certificate.action = RobustWinner(worlds)
    BY <2>1 DEF Certificate
  <2>5. ~IsConditional(ms) /\ RobustWinner(worlds) # NoAction
    BY <2>4 DEF Decide
  <2>6. \A w \in DOMAIN worlds : worlds[w] = [top |-> certificate.action, clear |-> TRUE]
    BY <2>2, <2>4, <2>5, WinnerIsTop
  <2>7. ASSUME NEW m \in ms
        PROVE  \/ \A n \in Foundations(m) : IsActive(n) /\ current[n].assumptions \cap invalidated = {}
               \/ /\ current[m].state = "INTERVENTION_SUPPORTED" /\ current[m].countermodels # {}
                  /\ current[m].countermodels \subseteq DOMAIN worlds
    <3>1. current[m].status \in Status
      BY <2>2, <2>7 DEF SelfIInv, MemIInv, MemTypeOK, Known, MemoryRecord
    <3>2. CASE IsActive(m)
      BY <2>2, <2>7, <3>2, InvariantIsGrounded DEF SelfIInv, AuthorityRestsOnValidity
    <3>3. CASE ~IsActive(m)
      <4>1. current[m].status = "QUARANTINED"
        BY <2>3, <2>7, <3>1, <3>3 DEF MemoryBlocks, Status, IsActive
      <4> QED BY <2>3, <2>5, <2>7, <4>1 DEF MemoryBlocks, QuarantineBlocks, IsConditional
    <3> QED BY <3>2, <3>3
  <2> QED BY <2>6, <2>7 DEF RobustActionIsJustified
<1> QED BY <1>1, SelfInvariant, PTL

\* The direct bindings of a certificate stand for all that its plan rests on.
THEOREM PlanBindsClosure == SelfSpec => []PlanBindsItsClosure
<1>1. SelfIInv => PlanBindsItsClosure
  BY DEF SelfIInv
<1> QED BY <1>1, SelfInvariant, PTL

\* A certificate that does not verify never will again.
THEOREM VoidForGood == SelfSpec => VoidStaysVoid
<1> DEFINE StaysVoid == certificate # NoCertificate /\ ~Valid => ~Valid'
<1>1. SelfIInv /\ [SelfNext]_selfVars => StaysVoid
  <2> SUFFICES ASSUME SelfIInv, [SelfNext]_selfVars, certificate # NoCertificate, Valid' PROVE Valid
    OBVIOUS
  <2>1. (MemNext \/ UNCHANGED memVars) /\ UNCHANGED certificate
    BY FalsifyIsLedgerStep DEF SelfNext, PlanNext, Plan, ProposeAttack, selfVars, planVars
  <2> QED BY <2>1, ValidIsOld
<1>2. StaysVoid \/ UNCHANGED planVars <=> [StaysVoid]_planVars
  OBVIOUS
<1>3. SelfIInv /\ [SelfNext]_selfVars => [StaysVoid]_planVars
  BY <1>1
<1>4. SelfSpec => [][StaysVoid]_planVars
  BY <1>3, SelfInvariant, PTL DEF SelfSpec
<1> QED BY <1>4 DEF VoidStaysVoid

\* A negative outcome reaches the plan it was bound to, along dependency chains
\* of any length, and leaves its certificate void.
THEOREM FalsificationVoids == SelfSpec => FalsifiedPlanIsVoid
<1>1. ASSUME SelfIInv, VerifiesDecision, UNCHANGED certificate, NEW roots \in SUBSET Known,
             RetractAll(DependencyClosure(roots)), NEW n \in roots, n \in LoadBearing
      PROVE  ~Valid'
  <2>1. PICK m \in DOMAIN certificate.memories : n \in Foundations(m)
    BY <1>1 DEF LoadBearing
  <2>2. /\ certificate # NoCertificate /\ certificate.decision # "BLOCKED_MEMORY_AUTHORITY"
        /\ m \in Known /\ certificate.memories[m] = current[m].version
    BY <1>1 DEF SelfIInv, VerifiesDecision, Valid, Verifies
  <2>3. current[m].status # "RETRACTED"
    BY <1>1, <2>2 DEF SelfIInv, VerifiesDecision, ValidCertificateReplans, MemoryBlocks
  <2>4. DependencyClosure(roots) \in SUBSET Known /\ m \in DependencyClosure(roots)
    BY <1>1, <2>1, <2>2, ClosureContains, ClosureReachesUp DEF SelfIInv, MemIInv
  <2>5. m \in ToRetract(DependencyClosure(roots))
    BY <2>3, <2>4 DEF ToRetract
  <2>6. current[m].version = 1 /\ current'[m].version = 2
    BY <1>1, <2>4, <2>5, RetractStep DEF SelfIInv
  <2> QED BY <1>1, <2>2, <2>6 DEF Valid, Verifies
<1>2. ASSUME SelfIInv, ApplyNegativeOutcome PROVE ~Valid'
  <2>1. ASSUME VerifiesDecision
        PROVE  decision.memories \subseteq LoadBearing /\ decision.assumptions \subseteq LoadAssumptions
    BY <1>2, <2>1 DEF SelfIInv, VerifiesDecision, Bindings
  <2>2. ASSUME NEW m \in Ids, FalsifyMemory(m) PROVE ~Valid'
    <3>1. /\ VerifiesDecision /\ m \in decision.memories /\ UNCHANGED certificate
          /\ {m} \in SUBSET Known /\ RetractAll(DependencyClosure({m}))
      BY <2>2 DEF FalsifyMemory, Retract
    <3> QED BY <1>1, <1>2, <2>1, <3>1
  <2>3. ASSUME NEW a \in Assumptions, FalsifyAssumption(a) PROVE ~Valid'
    <3>1. /\ VerifiesDecision /\ a \in decision.assumptions /\ UNCHANGED certificate
          /\ RetractAll(DependencyClosure(Carriers(a)))
      BY <2>3 DEF FalsifyAssumption, InvalidateAssumption
    <3>2. PICK n \in LoadBearing : a \in current[n].assumptions
      BY <2>1, <3>1 DEF LoadAssumptions
    <3>3. n \in Carriers(a) /\ Carriers(a) \in SUBSET Known
      BY <3>2 DEF LoadBearing, Foundations, Carriers
    <3> QED BY <1>1, <1>2, <3>1, <3>2, <3>3
  <2> QED BY <1>2, <2>2, <2>3 DEF ApplyNegativeOutcome
<1>3. SelfIInv => [ApplyNegativeOutcome => ~Valid']_selfVars
  BY <1>2
<1>4. SelfSpec => [][ApplyNegativeOutcome => ~Valid']_selfVars
  BY <1>3, SelfInvariant, PTL DEF SelfSpec
<1> QED BY <1>4 DEF FalsifiedPlanIsVoid
=============================================================================
