---------------------------- MODULE MemoryLedger ----------------------------
(***************************************************************************)
(* EpistemicMemoryLedger of cwc/memory/epistemic_store.py: memories bound   *)
(* to an epistemic record, with assumptions, surviving countermodels and    *)
(* dependencies on earlier memories. Memories arrive, are retracted and     *)
(* lose assumptions in any order; a change of status is a new version of    *)
(* the record, and the old one stays in the history.                        *)
(*                                                                          *)
(* Claims, scopes, operators, evidence, reasons and the lineage revision_of *)
(* are carried along and never looked at: they are left out. A version of a *)
(* memory stands for its digest.                                            *)
(***************************************************************************)
EXTENDS Naturals, Sequences, FiniteSets

CONSTANTS
  Ids,           \* memory ids
  Assumptions,   \* assumption ids
  Countermodels, \* countermodel ids
  NoMemory       \* an id that is not consolidated

\* UNIDENTIFIED, FALSIFIED, OOD and ABSTAIN end a claim, and the ledger and the
\* planner treat them alike: they are one state, TERMINAL.
States == {"OBSERVED", "PREDICTIVE", "ASSUMPTION_CONDITIONAL", "INTERVENTION_SUPPORTED",
           "TERMINAL"}

Status == {"ACTIVE", "QUARANTINED", "RETRACTED"}

\* A record is revised at most once, when it is retracted.
MemoryRecord == [state : States, assumptions : SUBSET Assumptions,
                 countermodels : SUBSET Countermodels, deps : SUBSET Ids,
                 version : {1, 2}, status : Status, causal : BOOLEAN]

ASSUME MemoryAssumption == IsFiniteSet(Ids) /\ NoMemory \notin MemoryRecord

VARIABLES
  current,      \* _current: the latest version of each memory
  history,      \* _history: all its versions
  events,       \* _events, split by memory id
  invalidated   \* _invalidated_assumptions

memVars == <<current, history, events, invalidated>>

Known == {m \in Ids : current[m] # NoMemory}

IsActive(m) == current[m].status = "ACTIVE"

-----------------------------------------------------------------------------
(* consolidate(memory_id, epistemic_record, countermodel_ids, dependency_ids) *)

\* What the lattice puts into an epistemic record: observations and predictions
\* assume nothing, and identification and intervention always assume something.
RecordsAssumptions(state) ==
  CASE state \in {"OBSERVED", "PREDICTIVE"} -> {{}}
    [] state \in {"ASSUMPTION_CONDITIONAL", "INTERVENTION_SUPPORTED"} ->
         (SUBSET Assumptions) \ {{}}
    [] OTHER -> SUBSET Assumptions

\* Mutant of IsCausal: the assumptions are not checked.
CausalDespiteInvalidation(state, assumptions, counters, deps) ==
  state = "INTERVENTION_SUPPORTED" /\ counters = {} /\ \A d \in deps : IsActive(d)

IsCausal(state, assumptions, counters, deps) ==
  /\ state = "INTERVENTION_SUPPORTED"
  /\ counters = {}
  /\ \A d \in deps : IsActive(d)
  /\ assumptions \cap invalidated = {}

\* Mutant of StatusOnArrival: observations are taken in whatever they rest on.
ObservationsAlwaysActive(state, assumptions, counters, deps) ==
  IF state \in {"OBSERVED", "PREDICTIVE"} \/ IsCausal(state, assumptions, counters, deps)
  THEN "ACTIVE" ELSE IF state = "TERMINAL" THEN "RETRACTED" ELSE "QUARANTINED"

StatusOnArrival(state, assumptions, counters, deps) ==
  CASE state \in {"OBSERVED", "PREDICTIVE"} ->
         IF \A d \in deps : IsActive(d) THEN "ACTIVE" ELSE "QUARANTINED"
    [] state = "ASSUMPTION_CONDITIONAL" -> "QUARANTINED"
    [] state = "INTERVENTION_SUPPORTED" ->
         IF IsCausal(state, assumptions, counters, deps) THEN "ACTIVE" ELSE "QUARANTINED"
    [] OTHER -> "RETRACTED"

\* Mutant of MayConsolidate: a memory id can be used again.
MayReconsolidate(m, deps) == deps \subseteq Known

\* A new memory id, which depends on existing memories only.
MayConsolidate(m, deps) == m \notin Known /\ deps \subseteq Known

Consolidate(m, state, assumptions, counters, deps) ==
  LET rec == [state |-> state, assumptions |-> assumptions, countermodels |-> counters,
              deps |-> deps, version |-> 1,
              status |-> StatusOnArrival(state, assumptions, counters, deps),
              causal |-> IsCausal(state, assumptions, counters, deps)] IN
  /\ MayConsolidate(m, deps)
  /\ assumptions \in RecordsAssumptions(state)
  /\ current' = [current EXCEPT ![m] = rec]
  /\ history' = [history EXCEPT ![m] = <<rec>>]
  /\ events' = [events EXCEPT ![m] = <<"CONSOLIDATE">>]
  /\ UNCHANGED invalidated

-----------------------------------------------------------------------------
(* retract(memory_id) and invalidate_assumption(assumption_id)              *)

\* Closed under dependents: whoever depends on a member is a member.
Closed(S) == \A m \in Known : current[m].deps \cap S # {} => m \in S

\* Mutant of DependencyClosure: one round of the loop only.
DirectDependents(roots) ==
  roots \cup {m \in Known : current[m].deps \cap roots # {}}

\* Mutant of DependencyClosure: the loop is left out.
RootsOnly(roots) == roots

\* Mutant of DependencyClosure: the dependencies go with the dependents.
WholeNeighbourhood(roots) ==
  roots \cup {m \in Known : \E r \in roots : m \in current[r].deps \/ r \in current[m].deps}

\* _dependency_closure: the least closed set above the roots, which its loop
\* reaches by adding dependents until none is left.
DependencyClosure(roots) ==
  {m \in Known : \A S \in SUBSET Known : roots \subseteq S /\ Closed(S) => m \in S}

\* Mutant of Retracted: the revision keeps the version of its predecessor.
RetractedInPlace(rec) == [rec EXCEPT !.status = "RETRACTED", !.causal = FALSE]

\* _revise_status(.., RETRACTED, False): the next version of the record.
Retracted(rec) ==
  [rec EXCEPT !.version = @ + 1, !.status = "RETRACTED", !.causal = FALSE]

\* Mutant of ToRetract: what is retracted is retracted once more.
AllTargets(targets) == targets

ToRetract(targets) == {m \in targets : current[m].status # "RETRACTED"}

\* Every target that is not retracted yet becomes so, in one call.
RetractAll(targets) ==
  LET changed == ToRetract(targets) IN
  /\ current' = [m \in Ids |-> IF m \in changed THEN Retracted(current[m]) ELSE current[m]]
  /\ history' = [m \in Ids |-> IF m \in changed THEN Append(history[m], Retracted(current[m]))
                                                ELSE history[m]]
  /\ events' = [m \in Ids |-> IF m \in changed THEN Append(events[m], "RETRACT")
                                               ELSE events[m]]

Retract(m) ==
  /\ m \in Known
  /\ RetractAll(DependencyClosure({m}))
  /\ UNCHANGED invalidated

Carriers(a) == {m \in Known : a \in current[m].assumptions}

\* The assumption-level event that goes with it is left out of the log.
InvalidateAssumption(a) ==
  /\ invalidated' = invalidated \cup {a}
  /\ RetractAll(DependencyClosure(Carriers(a)))

-----------------------------------------------------------------------------
MemInit ==
  /\ current = [m \in Ids |-> NoMemory]
  /\ history = [m \in Ids |-> << >>]
  /\ events = [m \in Ids |-> << >>]
  /\ invalidated = {}

MemNext ==
  \/ \E m \in Ids, state \in States, assumptions \in SUBSET Assumptions,
        counters \in SUBSET Countermodels, deps \in SUBSET Ids :
       Consolidate(m, state, assumptions, counters, deps)
  \/ \E m \in Ids : Retract(m)
  \/ \E a \in Assumptions : InvalidateAssumption(a)

MemSpec == MemInit /\ [][MemNext]_memVars

-----------------------------------------------------------------------------
(* Properties                                                               *)

MemTypeOK ==
  /\ current \in [Ids -> MemoryRecord \cup {NoMemory}]
  /\ invalidated \subseteq Assumptions
  /\ \A m \in Known : current[m].deps \subseteq Known
  /\ \A m \in Ids : history[m] = << >> <=> m \notin Known

\* assert_invariants: causal_usable = INTERVENTION_SUPPORTED AND no_countermodels
\* AND assumptions_valid AND dependencies_active, not only when the memory was
\* consolidated but after every later retraction and invalidation.
CausalIsUsable ==
  \A m \in Known : current[m].causal =>
    /\ IsActive(m)
    /\ current[m].state = "INTERVENTION_SUPPORTED"
    /\ current[m].countermodels = {}
    /\ current[m].assumptions \cap invalidated = {}
    /\ \A d \in current[m].deps : IsActive(d)

\* All that m rests on, directly or not: the least set with m that contains the
\* dependencies of its members.
Foundations(m) ==
  {n \in Known : \A S \in SUBSET Known :
     m \in S /\ (\A k \in S : current[k].deps \subseteq S) => n \in S}

\* An active memory rests on active memories only, all the way down, and on no
\* assumption that was ever invalidated.
AuthorityRestsOnValidity ==
  \A m \in Known : IsActive(m) =>
    \A n \in Foundations(m) : IsActive(n) /\ current[n].assumptions \cap invalidated = {}

\* "Historical versions remain in the ledger": every version is in the history
\* and in the log, and the current one is the last.
HistoryIsComplete ==
  \A m \in Known :
    /\ Len(history[m]) = current[m].version /\ Len(events[m]) = current[m].version
    /\ history[m][current[m].version] = current[m]
    /\ \A i \in 1..Len(history[m]) : history[m][i].version = i

\* "Invalid evidence can reduce reusable authority, but cannot strengthen it",
\* and neither can a late consolidation of another memory.
NeverStrengthened ==
  [][ \A m \in Known :
        /\ current[m].status = "RETRACTED" => current'[m] = current[m]
        /\ current[m].status = "QUARANTINED" => current'[m].status # "ACTIVE"
        /\ current'[m].causal => current[m].causal
        /\ SubSeq(history'[m], 1, Len(history[m])) = history[m] ]_memVars

\* The memories that a step retracts without a reason of their own: no assumption
\* of theirs is invalidated and no dependency retracted.
Unprovoked ==
  {m \in Known :
     /\ current[m].status # "RETRACTED" /\ current'[m].status = "RETRACTED"
     /\ current[m].assumptions \cap invalidated' = {}
     /\ \A d \in current[m].deps : current'[d].status # "RETRACTED"}

\* Retraction takes no more than it must: of the memories that lose their status
\* in one step all but one have a retracted dependency or a broken assumption.
RetractionHasReason == [][Cardinality(Unprovoked) <= 1]_memVars

\* "If a parent memory is retracted, every reachable dependent memory must be
\* retracted. Likewise, invalidating an assumption retracts every memory carrying
\* that assumption": whoever rests on what is lost in a step is lost in that step.
RetractionReachesAll ==
  [][ \A m \in Known :
        (\E n \in Foundations(m) :
           \/ current[n].status # "RETRACTED" /\ current'[n].status = "RETRACTED"
           \/ current[n].assumptions \cap (invalidated' \ invalidated) # {})
        => current'[m].status = "RETRACTED" ]_memVars

\* The inductive strengthening of the invariants: what makes a memory active, or
\* causal, holds of its own assumptions, countermodels and direct dependencies,
\* and a record that was revised is retracted.
MemIInv ==
  /\ MemTypeOK
  /\ history \in [Ids -> Seq(MemoryRecord)]
  /\ events \in [Ids -> Seq({"CONSOLIDATE", "RETRACT"})]
  /\ HistoryIsComplete
  /\ \A m \in Known : current[m].version = 2 => current[m].status = "RETRACTED"
  /\ \A m \in Known : IsActive(m) =>
       /\ current[m].assumptions \cap invalidated = {}
       /\ \A d \in current[m].deps : IsActive(d)
  /\ \A m \in Known : current[m].causal =>
       IsActive(m) /\ current[m].state = "INTERVENTION_SUPPORTED" /\ current[m].countermodels = {}
=============================================================================
