------------------------- MODULE MemoryLedgerProofs -------------------------
(***************************************************************************)
(* Proofs about MemoryLedger, for any number of memories, assumptions and   *)
(* countermodels. The two sets that the ledger and its properties compute   *)
(* by iteration, DependencyClosure and Foundations, are least closed sets:  *)
(* all that is needed of them is which closed sets they are below.          *)
(***************************************************************************)
EXTENDS MemoryLedger, SequenceTheorems, FiniteSetTheorems, TLAPS

\* The closure of a set of memories contains it.
LEMMA ClosureContains ==
  ASSUME NEW roots \in SUBSET Known
  PROVE  roots \subseteq DependencyClosure(roots) /\ DependencyClosure(roots) \subseteq Known
BY DEF DependencyClosure

\* Whoever depends on a member of the closure is a member.
LEMMA ClosureClosed ==
  ASSUME NEW roots \in SUBSET Known
  PROVE  Closed(DependencyClosure(roots))
<1>1. SUFFICES ASSUME NEW m \in Known, current[m].deps \cap DependencyClosure(roots) # {},
                      NEW S \in SUBSET Known, roots \subseteq S, Closed(S)
               PROVE  m \in S
  BY DEF DependencyClosure, Closed
<1>2. PICK d \in current[m].deps : d \in DependencyClosure(roots)
  BY <1>1
<1>3. d \in S
  BY <1>1, <1>2 DEF DependencyClosure
<1> QED BY <1>1, <1>2, <1>3 DEF Closed

\* The foundations of a memory are in every set with it that is closed under
\* dependencies.
LEMMA FoundationsLeast ==
  ASSUME NEW m \in Known, NEW S \in SUBSET Known, m \in S,
         \A k \in S : current[k].deps \subseteq S
  PROVE  Foundations(m) \subseteq S
BY DEF Foundations

\* A memory that rests on a member of the closure is a member, however long the
\* way: what is outside the closure is closed under dependencies.
LEMMA ClosureReachesUp ==
  ASSUME MemTypeOK, NEW roots \in SUBSET Known, NEW m \in Known,
         NEW n \in Foundations(m), n \in DependencyClosure(roots)
  PROVE  m \in DependencyClosure(roots)
<1> DEFINE Rest == Known \ DependencyClosure(roots)
<1>1. SUFFICES ASSUME m \in Rest PROVE FALSE
  OBVIOUS
<1>2. \A k \in Rest : current[k].deps \subseteq Rest
  BY ClosureClosed DEF Closed, MemTypeOK
<1>3. Foundations(m) \subseteq Rest
  BY <1>1, <1>2, FoundationsLeast
<1> QED BY <1>3

-----------------------------------------------------------------------------
(* What the two kinds of steps do to the records.                           *)

\* A consolidation adds one well-formed record, whose status and causal flag are
\* earned, and changes no other.
LEMMA ConsolidateStep ==
  ASSUME MemIInv, NEW m \in Ids, NEW state \in States, NEW assumptions \in SUBSET Assumptions,
         NEW counters \in SUBSET Countermodels, NEW deps \in SUBSET Ids,
         Consolidate(m, state, assumptions, counters, deps)
  PROVE  /\ m \notin Known /\ Known' = Known \cup {m}
         /\ \A k \in Known : current'[k] = current[k] /\ history'[k] = history[k]
                             /\ events'[k] = events[k]
         /\ current' \in [Ids -> MemoryRecord \cup {NoMemory}]
         /\ current'[m] \in MemoryRecord /\ current'[m].version = 1
         /\ current'[m].deps \subseteq Known
         /\ history'[m] = <<current'[m]>> /\ events'[m] = <<"CONSOLIDATE">>
         /\ IsActive(m)' => /\ current'[m].assumptions \cap invalidated = {}
                            /\ \A d \in current'[m].deps : IsActive(d)
         /\ current'[m].causal => /\ IsActive(m)' /\ current'[m].countermodels = {}
                                  /\ current'[m].state = "INTERVENTION_SUPPORTED"
<1> DEFINE status == StatusOnArrival(state, assumptions, counters, deps)
           causal == IsCausal(state, assumptions, counters, deps)
           rec == [state |-> state, assumptions |-> assumptions, countermodels |-> counters,
                   deps |-> deps, version |-> 1, status |-> status, causal |-> causal]
<1>1. /\ m \notin Known /\ deps \subseteq Known
      /\ current' = [current EXCEPT ![m] = rec]
      /\ history' = [history EXCEPT ![m] = <<rec>>]
      /\ events' = [events EXCEPT ![m] = <<"CONSOLIDATE">>]
      /\ assumptions \in RecordsAssumptions(state)
  BY DEF Consolidate, MayConsolidate
<1>2. status \in Status /\ causal \in BOOLEAN
  BY DEF StatusOnArrival, IsCausal, Status
<1>3. rec \in MemoryRecord
  BY <1>2 DEF MemoryRecord
<1>4. rec # NoMemory
  BY <1>3, MemoryAssumption
<1>5. /\ current \in [Ids -> MemoryRecord \cup {NoMemory}]
      /\ history \in [Ids -> Seq(MemoryRecord)] /\ DOMAIN events = Ids
  BY DEF MemIInv, MemTypeOK
<1>6. /\ current'[m] = rec /\ history'[m] = <<rec>> /\ events'[m] = <<"CONSOLIDATE">>
      /\ \A k \in Ids \ {m} : current'[k] = current[k] /\ history'[k] = history[k]
                              /\ events'[k] = events[k]
  BY <1>1, <1>5
<1>7. Known' = Known \cup {m}
  BY <1>4, <1>6 DEF Known
<1>8. status = "ACTIVE" => assumptions \cap invalidated = {} /\ \A d \in deps : IsActive(d)
  <2>1. CASE state \in {"OBSERVED", "PREDICTIVE"}
    <3>1. assumptions = {}
      BY <1>1, <2>1 DEF RecordsAssumptions
    <3> QED BY <2>1, <3>1 DEF StatusOnArrival
  <2>2. CASE state = "ASSUMPTION_CONDITIONAL"
    BY <2>2 DEF StatusOnArrival
  <2>3. CASE state = "INTERVENTION_SUPPORTED"
    BY <2>3 DEF StatusOnArrival, IsCausal
  <2>4. CASE state = "TERMINAL"
    BY <2>4 DEF StatusOnArrival
  <2> QED BY <2>1, <2>2, <2>3, <2>4 DEF States
<1>9. causal => status = "ACTIVE" /\ counters = {} /\ state = "INTERVENTION_SUPPORTED"
  BY DEF StatusOnArrival, IsCausal
<1>10. \A d \in deps : d # m
  BY <1>1
<1>11. current' \in [Ids -> MemoryRecord \cup {NoMemory}]
  BY <1>1, <1>3, <1>5
<1>12. IsActive(m)' <=> status = "ACTIVE"
  BY <1>6 DEF IsActive
<1> HIDE DEF status, causal
<1>13. \A k \in Known : k # m
  BY <1>1
<1>14. /\ rec.version = 1 /\ rec.deps = deps /\ rec.assumptions = assumptions
       /\ rec.causal = causal /\ rec.countermodels = counters /\ rec.state = state
  OBVIOUS
<1> HIDE DEF rec
<1>15. \A k \in Known : k \in Ids \ {m}
  BY <1>13 DEF Known
<1> QED BY <1>1, <1>3, <1>6, <1>7, <1>8, <1>9, <1>11, <1>12, <1>14, <1>15

\* What a log of one entry is after another was appended.
LEMMA AppendSecond ==
  ASSUME NEW S, NEW log \in Seq(S), NEW entry \in S, Len(log) = 1
  PROVE  /\ Len(Append(log, entry)) = 2
         /\ Append(log, entry)[1] = log[1] /\ Append(log, entry)[2] = entry
<1>1. Len(Append(log, entry)) = Len(log) + 1
  BY AppendProperties
<1>2. \A i \in 1..Len(log) : Append(log, entry)[i] = log[i]
  BY AppendProperties
<1>3. Append(log, entry)[Len(log) + 1] = entry
  BY AppendProperties
<1> QED BY <1>1, <1>2, <1>3

\* Appending keeps what was there.
LEMMA AppendKeepsPrefix ==
  ASSUME NEW S, NEW log \in Seq(S), NEW entry \in S
  PROVE  SubSeq(Append(log, entry), 1, Len(log)) = log
<1> DEFINE new == Append(log, entry)
           prefix == SubSeq(new, 1, Len(log))
<1>1. Len(log) \in Nat /\ \A i \in 1..Len(log) : new[i] = log[i] /\ log[i] \in S
  BY AppendProperties, ElementOfSeq, LenProperties
<1> HIDE DEF new
<1>2. \A i \in 1..Len(log) : new[i] \in S
  BY <1>1
<1>3. /\ prefix \in Seq(S)
      /\ Len(prefix) = IF 1 <= Len(log) THEN Len(log) - 1 + 1 ELSE 0
      /\ \A i \in 1..Len(log) - 1 + 1 : prefix[i] = new[1 + i - 1]
  BY <1>1, <1>2, SubSeqProperties
<1> HIDE DEF prefix
<1>4. Len(prefix) = Len(log)
  BY <1>1, <1>3
<1>5. \A i \in 1..Len(prefix) : prefix[i] = log[i]
  BY <1>1, <1>3, <1>4
<1>6. prefix = log
  BY <1>3, <1>4, <1>5, SeqEqual
<1> QED BY <1>6 DEF prefix, new

\* The revision of a record that was not revised yet.
LEMMA RetractedRecord ==
  ASSUME NEW rec \in MemoryRecord, rec.version = 1
  PROVE  /\ Retracted(rec) \in MemoryRecord /\ Retracted(rec).version = 2
         /\ Retracted(rec).status = "RETRACTED" /\ Retracted(rec).causal = FALSE
         /\ Retracted(rec).deps = rec.deps /\ Retracted(rec).assumptions = rec.assumptions
<1> DEFINE new == [rec EXCEPT !.version = 2, !.status = "RETRACTED", !.causal = FALSE]
<1>1. rec.version + 1 = 2
  OBVIOUS
<1>2. Retracted(rec) = new
  BY <1>1, Zenon DEF Retracted
<1>3. new \in MemoryRecord
  BY DEF MemoryRecord, Status
<1>4. /\ new.version = 2 /\ new.status = "RETRACTED" /\ new.causal = FALSE
      /\ new.deps = rec.deps /\ new.assumptions = rec.assumptions
  BY DEF MemoryRecord
<1> QED BY <1>2, <1>3, <1>4

\* A retraction of a set of memories revises those that are not retracted yet
\* and leaves everybody else alone.
LEMMA RetractStep ==
  ASSUME MemIInv, NEW targets \in SUBSET Known, RetractAll(targets)
  PROVE  /\ Known' = Known
         /\ current' \in [Ids -> MemoryRecord \cup {NoMemory}]
         /\ history' \in [Ids -> Seq(MemoryRecord)]
         /\ events' \in [Ids -> Seq({"CONSOLIDATE", "RETRACT"})]
         /\ \A k \in ToRetract(targets) :
              /\ current'[k] = Retracted(current[k])
              /\ history'[k] = Append(history[k], Retracted(current[k]))
              /\ events'[k] = Append(events[k], "RETRACT")
              /\ current[k].version = 1 /\ Retracted(current[k]).version = 2
         /\ \A k \in Ids \ ToRetract(targets) :
              current'[k] = current[k] /\ history'[k] = history[k] /\ events'[k] = events[k]
<1> DEFINE changed == ToRetract(targets)
<1>1. changed \subseteq Known /\ \A k \in changed : current[k].status # "RETRACTED"
  BY DEF ToRetract
<1>2. /\ current' = [m \in Ids |-> IF m \in changed THEN Retracted(current[m]) ELSE current[m]]
      /\ history' = [m \in Ids |-> IF m \in changed THEN Append(history[m], Retracted(current[m]))
                                                   ELSE history[m]]
      /\ events' = [m \in Ids |-> IF m \in changed THEN Append(events[m], "RETRACT")
                                                  ELSE events[m]]
  BY DEF RetractAll
<1>3. /\ current \in [Ids -> MemoryRecord \cup {NoMemory}]
      /\ history \in [Ids -> Seq(MemoryRecord)]
      /\ events \in [Ids -> Seq({"CONSOLIDATE", "RETRACT"})]
  BY DEF MemIInv, MemTypeOK
<1>4. \A k \in Known : current[k] \in MemoryRecord /\ k \in Ids
  BY <1>3 DEF Known
<1>5. \A k \in changed : current[k].version = 1
  BY <1>1, <1>4 DEF MemIInv, MemoryRecord
<1>6. \A k \in changed : Retracted(current[k]) \in MemoryRecord /\ Retracted(current[k]).version = 2
  BY <1>1, <1>4, <1>5, RetractedRecord
<1>7. \A k \in changed : Retracted(current[k]) # NoMemory
  BY <1>6, MemoryAssumption
<1> HIDE DEF changed
<1>8. Known' = Known
  BY <1>1, <1>2, <1>7 DEF Known
<1>9. current' \in [Ids -> MemoryRecord \cup {NoMemory}]
  BY <1>2, <1>3, <1>6
<1>10. history' \in [Ids -> Seq(MemoryRecord)]
  BY <1>2, <1>3, <1>6
<1>11. events' \in [Ids -> Seq({"CONSOLIDATE", "RETRACT"})]
  BY <1>2, <1>3
<1>12. changed \subseteq Ids
  BY <1>1, <1>4
<1> QED BY <1>2, <1>5, <1>6, <1>8, <1>9, <1>10, <1>11, <1>12 DEF changed

\* What a retracting step does to the whole of the invariant, given that no
\* memory is left active on a retracted one or on an invalidated assumption.
LEMMA RetractKeepsInvariant ==
  ASSUME MemIInv, NEW targets \in SUBSET Known, RetractAll(targets), Closed(targets),
         invalidated' \subseteq Assumptions,
         \A k \in Known \ targets : current[k].assumptions \cap (invalidated' \ invalidated) = {}
  PROVE  MemIInv'
<1> DEFINE changed == ToRetract(targets)
<1>1. /\ Known' = Known /\ changed \subseteq targets
      /\ \A k \in changed : /\ current'[k] = Retracted(current[k])
                            /\ history'[k] = Append(history[k], Retracted(current[k]))
                            /\ events'[k] = Append(events[k], "RETRACT")
                            /\ current[k].version = 1
      /\ \A k \in Ids \ changed :
           current'[k] = current[k] /\ history'[k] = history[k] /\ events'[k] = events[k]
  BY RetractStep DEF ToRetract
<1>2. /\ current' \in [Ids -> MemoryRecord \cup {NoMemory}]
      /\ history' \in [Ids -> Seq(MemoryRecord)]
      /\ events' \in [Ids -> Seq({"CONSOLIDATE", "RETRACT"})]
  BY RetractStep
<1>3. \A k \in Known : k \in Ids /\ current[k] \in MemoryRecord
  BY DEF MemIInv, MemTypeOK, Known
<1>4. \A k \in changed : /\ current'[k].status = "RETRACTED" /\ current'[k].version = 2
                          /\ current'[k].deps = current[k].deps /\ ~current'[k].causal
  <2>1. SUFFICES ASSUME NEW k \in changed
                 PROVE  /\ current'[k].status = "RETRACTED" /\ current'[k].version = 2
                        /\ current'[k].deps = current[k].deps /\ current'[k].causal = FALSE
    OBVIOUS
  <2>2. current[k] \in MemoryRecord /\ current[k].version = 1
    BY <1>1, <1>3
  <2>3. current'[k] = Retracted(current[k])
    BY <1>1
  <2> QED BY <2>2, <2>3, RetractedRecord
<1>5. \A k \in Known : k \in targets => current'[k].status = "RETRACTED"
  <2>1. SUFFICES ASSUME NEW k \in Known, k \in targets, k \notin changed
                 PROVE  current'[k].status = "RETRACTED"
    BY <1>4
  <2>2. current[k].status = "RETRACTED"
    BY <2>1 DEF ToRetract
  <2> QED BY <2>1, <2>2, <1>1, <1>3
<1>6. \A k \in Known : current'[k].deps = current[k].deps
  BY <1>1, <1>3, <1>4
<1>7. \A k \in Known : IsActive(k)' => k \notin targets /\ k \notin changed /\ current'[k] = current[k]
  BY <1>1, <1>3, <1>5 DEF IsActive
<1>8. MemTypeOK'
  <2>1. \A m \in Known' : current'[m].deps \subseteq Known'
    BY <1>1, <1>6 DEF MemIInv, MemTypeOK
  <2>2. \A m \in Ids : history'[m] = << >> <=> m \notin Known'
    <3>1. SUFFICES ASSUME NEW m \in Ids PROVE history'[m] = << >> <=> m \notin Known
      BY <1>1
    <3>2. history[m] \in Seq(MemoryRecord) /\ (history[m] = << >> <=> m \notin Known)
      BY DEF MemIInv, MemTypeOK
    <3>3. CASE m \in changed
      <4>1. m \in Known /\ Retracted(current[m]) \in MemoryRecord
        BY <1>1, <1>3, <3>3, RetractedRecord
      <4>2. history'[m] # << >>
        BY <1>1, <3>2, <3>3, <4>1
      <4> QED BY <4>1, <4>2
    <3>4. CASE m \notin changed
      BY <1>1, <3>2, <3>4
    <3> QED BY <3>3, <3>4
  <2> QED BY <1>2, <2>1, <2>2 DEF MemTypeOK
<1>9. HistoryIsComplete'
  <2>1. SUFFICES ASSUME NEW m \in Known
                 PROVE  /\ Len(history'[m]) = current'[m].version
                        /\ Len(events'[m]) = current'[m].version
                        /\ history'[m][current'[m].version] = current'[m]
                        /\ \A i \in 1..Len(history'[m]) : history'[m][i].version = i
    BY <1>1 DEF HistoryIsComplete
  <2>2. /\ Len(history[m]) = current[m].version /\ Len(events[m]) = current[m].version
        /\ history[m][current[m].version] = current[m]
        /\ \A i \in 1..Len(history[m]) : history[m][i].version = i
    BY <2>1 DEF MemIInv, HistoryIsComplete
  <2>3. /\ history[m] \in Seq(MemoryRecord) /\ events[m] \in Seq({"CONSOLIDATE", "RETRACT"})
    BY <1>3, <2>1 DEF MemIInv
  <2>4. CASE m \in changed
    <3>1. /\ history'[m] = Append(history[m], current'[m])
          /\ events'[m] = Append(events[m], "RETRACT")
          /\ Len(history[m]) = 1 /\ Len(events[m]) = 1
          /\ current'[m].version = 2 /\ history[m][1].version = 1
      BY <1>1, <1>4, <2>2, <2>4
    <3>2. current'[m] \in MemoryRecord
      BY <1>1, <1>3, <2>4, RetractedRecord
    <3>3. /\ Len(history'[m]) = 2 /\ history'[m][1] = history[m][1]
          /\ history'[m][2] = current'[m] /\ Len(events'[m]) = 2
      <4> DEFINE h == history[m]  r == current'[m]  e == events[m]
      <4>1. h \in Seq(MemoryRecord) /\ Len(h) = 1 /\ e \in Seq({"CONSOLIDATE", "RETRACT"})
            /\ Len(e) = 1 /\ r \in MemoryRecord
        BY <2>3, <3>1, <3>2
      <4> HIDE DEF h, r, e
      <4>2. /\ Len(Append(h, r)) = 2 /\ Append(h, r)[1] = h[1] /\ Append(h, r)[2] = r
        BY <4>1, AppendSecond
      <4>3. "RETRACT" \in {"CONSOLIDATE", "RETRACT"}
        OBVIOUS
      <4>4. Len(Append(e, "RETRACT")) = 2
        BY <4>1, <4>3, AppendSecond
      <4> QED BY <3>1, <4>2, <4>4 DEF h, r, e
    <3> HIDE DEF changed
    <3>4. \A i \in 1..2 : i = 1 \/ i = 2
      OBVIOUS
    <3> QED BY <3>1, <3>3, <3>4
  <2>5. CASE m \notin changed
    BY <1>1, <1>3, <2>2, <2>5
  <2> QED BY <2>4, <2>5
<1>10. \A m \in Known' : current'[m].version = 2 => current'[m].status = "RETRACTED"
  BY <1>1, <1>3, <1>4 DEF MemIInv
<1>11. \A m \in Known' : IsActive(m)' =>
         /\ current'[m].assumptions \cap invalidated' = {}
         /\ \A d \in current'[m].deps : IsActive(d)'
  <2>1. SUFFICES ASSUME NEW m \in Known, IsActive(m)'
                 PROVE  /\ current[m].assumptions \cap invalidated' = {}
                        /\ \A d \in current[m].deps : IsActive(d)'
    BY <1>1, <1>7
  <2>2. m \notin targets /\ IsActive(m)
    BY <1>7, <2>1 DEF IsActive
  <2>3. current[m].assumptions \cap invalidated' = {}
    BY <2>2 DEF MemIInv
  <2>4. ASSUME NEW d \in current[m].deps PROVE IsActive(d)'
    <3>1. d \in Known /\ IsActive(d)
      BY <2>2 DEF MemIInv, MemTypeOK
    <3>2. d \notin targets
      BY <2>2 DEF Closed
    <3> QED BY <1>1, <1>3, <3>1, <3>2 DEF IsActive
  <2> QED BY <2>3, <2>4
<1>12. \A m \in Known' : current'[m].causal =>
         /\ IsActive(m)' /\ current'[m].state = "INTERVENTION_SUPPORTED"
         /\ current'[m].countermodels = {}
  <2>1. SUFFICES ASSUME NEW m \in Known, current'[m].causal
                 PROVE  /\ IsActive(m)' /\ current'[m].state = "INTERVENTION_SUPPORTED"
                        /\ current'[m].countermodels = {}
    BY <1>1
  <2>2. current'[m] = current[m]
    BY <1>1, <1>3, <1>4, <2>1
  <2> QED BY <2>1, <2>2 DEF MemIInv, IsActive
<1>13. MemTypeOK' /\ HistoryIsComplete'
  BY <1>8, <1>9
<1> QED BY <1>2, <1>10, <1>11, <1>12, <1>13 DEF MemIInv

-----------------------------------------------------------------------------
(* The inductive invariant and what follows from it.                        *)

LEMMA MemInitInvariant == MemInit => MemIInv
<1> SUFFICES ASSUME MemInit PROVE MemIInv
  OBVIOUS
<1>1. Known = {}
  BY DEF MemInit, Known
<1>2. /\ current \in [Ids -> MemoryRecord \cup {NoMemory}]
      /\ history \in [Ids -> Seq(MemoryRecord)]
      /\ events \in [Ids -> Seq({"CONSOLIDATE", "RETRACT"})]
      /\ invalidated \subseteq Assumptions
      /\ \A m \in Ids : history[m] = << >>
  BY DEF MemInit
<1> QED BY <1>1, <1>2 DEF MemIInv, MemTypeOK, HistoryIsComplete

LEMMA ConsolidateKeepsInvariant ==
  ASSUME MemIInv, NEW m \in Ids, NEW state \in States, NEW assumptions \in SUBSET Assumptions,
         NEW counters \in SUBSET Countermodels, NEW deps \in SUBSET Ids,
         Consolidate(m, state, assumptions, counters, deps)
  PROVE  MemIInv'
<1>1. /\ m \notin Known /\ Known' = Known \cup {m}
      /\ \A k \in Known : current'[k] = current[k] /\ history'[k] = history[k]
                          /\ events'[k] = events[k]
      /\ current' \in [Ids -> MemoryRecord \cup {NoMemory}]
      /\ current'[m] \in MemoryRecord /\ current'[m].version = 1
      /\ current'[m].deps \subseteq Known
      /\ history'[m] = <<current'[m]>> /\ events'[m] = <<"CONSOLIDATE">>
      /\ IsActive(m)' => /\ current'[m].assumptions \cap invalidated = {}
                         /\ \A d \in current'[m].deps : IsActive(d)
      /\ current'[m].causal => /\ IsActive(m)' /\ current'[m].countermodels = {}
                               /\ current'[m].state = "INTERVENTION_SUPPORTED"
  BY ConsolidateStep
<1>2. invalidated' = invalidated
  BY DEF Consolidate
<1>3. /\ history' \in [Ids -> Seq(MemoryRecord)] /\ events' \in [Ids -> Seq({"CONSOLIDATE", "RETRACT"})]
      /\ \A k \in Ids \ {m} : history'[k] = history[k]
  <2> DEFINE rec == current'[m]
  <2>1. /\ \E r : history' = [history EXCEPT ![m] = <<r>>]
        /\ events' = [events EXCEPT ![m] = <<"CONSOLIDATE">>]
    BY DEF Consolidate
  <2>2. /\ history \in [Ids -> Seq(MemoryRecord)] /\ events \in [Ids -> Seq({"CONSOLIDATE", "RETRACT"})]
    BY DEF MemIInv
  <2>3. history' = [history EXCEPT ![m] = <<rec>>]
    BY <1>1, <2>1, <2>2
  <2>4. <<rec>> \in Seq(MemoryRecord) /\ <<"CONSOLIDATE">> \in Seq({"CONSOLIDATE", "RETRACT"})
    BY <1>1
  <2> HIDE DEF rec
  <2> QED BY <2>1, <2>2, <2>3, <2>4
<1>4. \A k \in Known : IsActive(k)' <=> IsActive(k)
  BY <1>1 DEF IsActive
<1>5. MemTypeOK'
  <2>1. \A k \in Known' : current'[k].deps \subseteq Known'
    BY <1>1 DEF MemIInv, MemTypeOK
  <2>2. \A k \in Ids : history'[k] = << >> <=> k \notin Known'
    <3>1. <<current'[m]>> # << >>
      OBVIOUS
    <3> QED BY <1>1, <1>3, <3>1 DEF MemIInv, MemTypeOK
  <2> QED BY <1>1, <1>2, <2>1, <2>2 DEF MemIInv, MemTypeOK
<1>6. HistoryIsComplete'
  <2>1. SUFFICES ASSUME NEW k \in Known'
                 PROVE  /\ Len(history'[k]) = current'[k].version
                        /\ Len(events'[k]) = current'[k].version
                        /\ history'[k][current'[k].version] = current'[k]
                        /\ \A i \in 1..Len(history'[k]) : history'[k][i].version = i
    BY DEF HistoryIsComplete
  <2>2. CASE k \in Known
    BY <1>1, <2>2 DEF MemIInv, HistoryIsComplete
  <2>3. CASE k = m
    <3> DEFINE rec == current'[m]
    <3>1. Len(<<rec>>) = 1 /\ Len(<<"CONSOLIDATE">>) = 1 /\ <<rec>>[1] = rec
      OBVIOUS
    <3>2. \A i \in 1..1 : i = 1
      OBVIOUS
    <3> QED BY <1>1, <2>3, <3>1, <3>2
  <2> QED BY <1>1, <2>1, <2>2, <2>3
<1>7. \A k \in Known' : current'[k].version = 2 => current'[k].status = "RETRACTED"
  <2>1. current'[m].version # 2
    BY <1>1
  <2>2. \A k \in Known : current[k].version = 2 => current[k].status = "RETRACTED"
    BY DEF MemIInv
  <2> QED BY <1>1, <2>1, <2>2, Zenon
<1>8. \A k \in Known' : IsActive(k)' =>
        /\ current'[k].assumptions \cap invalidated' = {}
        /\ \A d \in current'[k].deps : IsActive(d)'
  <2>1. ASSUME NEW k \in Known, IsActive(k)'
        PROVE  /\ current'[k].assumptions \cap invalidated' = {}
               /\ \A d \in current'[k].deps : IsActive(d)'
    BY <1>1, <1>2, <1>4, <2>1 DEF MemIInv, MemTypeOK
  <2>2. ASSUME IsActive(m)'
        PROVE  /\ current'[m].assumptions \cap invalidated' = {}
               /\ \A d \in current'[m].deps : IsActive(d)'
    BY <1>1, <1>2, <1>4, <2>2
  <2> QED BY <1>1, <2>1, <2>2
<1>9. \A k \in Known' : current'[k].causal =>
        /\ IsActive(k)' /\ current'[k].state = "INTERVENTION_SUPPORTED"
        /\ current'[k].countermodels = {}
  BY <1>1, <1>4 DEF MemIInv
<1> QED BY <1>3, <1>5, <1>6, <1>7, <1>8, <1>9 DEF MemIInv

\* The targets of retract and invalidate_assumption are closed under dependents,
\* and those of an invalidation contain the carriers of the assumption.
LEMMA MemNextKeepsInvariant ==
  ASSUME MemIInv, MemNext
  PROVE  MemIInv'
<1>1. CASE \E m \in Ids, state \in States, assumptions \in SUBSET Assumptions,
            counters \in SUBSET Countermodels, deps \in SUBSET Ids :
            Consolidate(m, state, assumptions, counters, deps)
  BY <1>1, ConsolidateKeepsInvariant
<1>2. ASSUME NEW m \in Ids, Retract(m) PROVE MemIInv'
  <2>1. m \in Known /\ RetractAll(DependencyClosure({m})) /\ invalidated' = invalidated
    BY <1>2 DEF Retract
  <2>2. {m} \in SUBSET Known
    BY <2>1
  <2>3. DependencyClosure({m}) \in SUBSET Known /\ Closed(DependencyClosure({m}))
    BY <2>2, ClosureContains, ClosureClosed
  <2>4. invalidated' \subseteq Assumptions
    BY <2>1 DEF MemIInv, MemTypeOK
  <2> QED BY <2>1, <2>3, <2>4, RetractKeepsInvariant
<1>3. ASSUME NEW a \in Assumptions, InvalidateAssumption(a) PROVE MemIInv'
  <2>1. invalidated' = invalidated \cup {a} /\ RetractAll(DependencyClosure(Carriers(a)))
    BY <1>3 DEF InvalidateAssumption
  <2>2. Carriers(a) \in SUBSET Known
    BY DEF Carriers
  <2>3. /\ DependencyClosure(Carriers(a)) \in SUBSET Known
        /\ Closed(DependencyClosure(Carriers(a))) /\ Carriers(a) \subseteq DependencyClosure(Carriers(a))
    BY <2>2, ClosureContains, ClosureClosed
  <2>4. invalidated' \subseteq Assumptions
    BY <2>1 DEF MemIInv, MemTypeOK
  <2>5. \A k \in Known \ DependencyClosure(Carriers(a)) :
          current[k].assumptions \cap (invalidated' \ invalidated) = {}
    BY <2>1, <2>3 DEF Carriers
  <2> QED BY <2>1, <2>3, <2>4, <2>5, RetractKeepsInvariant
<1> QED BY <1>1, <1>2, <1>3 DEF MemNext

LEMMA MemStutter == MemIInv /\ UNCHANGED memVars => MemIInv'
BY DEF MemIInv, MemTypeOK, HistoryIsComplete, memVars, Known, IsActive

\* The inductive invariant holds of every reachable ledger.
THEOREM LedgerInvariant == MemSpec => []MemIInv
<1>1. MemInit => MemIInv
  BY MemInitInvariant
<1>2. MemIInv /\ [MemNext]_memVars => MemIInv'
  BY MemNextKeepsInvariant, MemStutter
<1> QED BY <1>1, <1>2, PTL DEF MemSpec

\* Every reachable ledger is well typed: dependencies exist, and a memory has a
\* history exactly when it is consolidated.
THEOREM LedgerTypeCorrect == MemSpec => []MemTypeOK
<1>1. MemIInv => MemTypeOK
  BY DEF MemIInv
<1> QED BY <1>1, LedgerInvariant, PTL

\* A causal memory is one that could be consolidated as causal at this moment,
\* whatever was retracted and invalidated since it was: assert_invariants never
\* raises.
THEOREM CausalStaysUsable == MemSpec => []CausalIsUsable
<1>1. MemIInv => CausalIsUsable
  BY DEF MemIInv, CausalIsUsable
<1> QED BY <1>1, LedgerInvariant, PTL

\* What is active directly rests on what is active, so it does all the way down.
LEMMA InvariantIsGrounded == MemIInv => AuthorityRestsOnValidity
<1> SUFFICES ASSUME MemIInv, NEW m \in Known, IsActive(m)
             PROVE  \A n \in Foundations(m) :
                      IsActive(n) /\ current[n].assumptions \cap invalidated = {}
  BY DEF AuthorityRestsOnValidity
<1> DEFINE Sound == {n \in Known : IsActive(n)}
<1>1. \A k \in Sound : current[k].deps \subseteq Sound
  BY DEF MemIInv, MemTypeOK
<1>2. Foundations(m) \subseteq Sound
  BY <1>1, FoundationsLeast
<1> QED BY <1>2 DEF MemIInv

\* An active memory rests on active memories and valid assumptions only, along
\* dependency chains of any length.
THEOREM AuthorityIsGrounded == MemSpec => []AuthorityRestsOnValidity
BY InvariantIsGrounded, LedgerInvariant, PTL

\* No version is ever lost, and versions are numbered without gaps.
THEOREM HistoryStaysComplete == MemSpec => []HistoryIsComplete
<1>1. MemIInv => HistoryIsComplete
  BY DEF MemIInv
<1> QED BY <1>1, LedgerInvariant, PTL

\* Whoever rests on a memory or on an assumption that is lost in a step is
\* retracted in that very step.
LEMMA RetractionReaches ==
  ASSUME MemIInv, MemNext, NEW m \in Known, NEW n \in Foundations(m),
         \/ current[n].status # "RETRACTED" /\ current'[n].status = "RETRACTED"
         \/ current[n].assumptions \cap (invalidated' \ invalidated) # {}
  PROVE  current'[m].status = "RETRACTED"
<1>1. n \in Known
  BY DEF Foundations
<1>2. ASSUME NEW roots \in SUBSET Known, RetractAll(DependencyClosure(roots)),
             n \in DependencyClosure(roots)
      PROVE  current'[m].status = "RETRACTED"
  <2>1. m \in DependencyClosure(roots)
    BY <1>2, ClosureReachesUp DEF MemIInv
  <2>2. DependencyClosure(roots) \in SUBSET Known
    BY <1>2, ClosureContains
  <2>3. CASE m \in ToRetract(DependencyClosure(roots))
    <3>1. current'[m] = Retracted(current[m]) /\ current[m].version = 1
      BY <1>2, <2>2, <2>3, RetractStep
    <3>2. current[m] \in MemoryRecord
      BY DEF MemIInv, MemTypeOK, Known
    <3> QED BY <3>1, <3>2, RetractedRecord
  <2>4. CASE m \notin ToRetract(DependencyClosure(roots))
    <3>1. current'[m] = current[m]
      BY <1>2, <2>2, <2>4, RetractStep DEF Known
    <3>2. current[m].status = "RETRACTED"
      BY <2>1, <2>4 DEF ToRetract
    <3> QED BY <3>1, <3>2
  <2> QED BY <2>3, <2>4
<1>3. ASSUME NEW roots \in SUBSET Known, RetractAll(DependencyClosure(roots)),
             n \notin DependencyClosure(roots)
      PROVE  current'[n] = current[n]
  <2>1. DependencyClosure(roots) \in SUBSET Known
    BY <1>3, ClosureContains
  <2>2. n \in Ids \ ToRetract(DependencyClosure(roots))
    BY <1>1, <1>3 DEF ToRetract, Known
  <2> QED BY <1>3, <2>1, <2>2, RetractStep
<1>4. CASE \E k \in Ids, state \in States, assumptions \in SUBSET Assumptions,
            counters \in SUBSET Countermodels, deps \in SUBSET Ids :
            Consolidate(k, state, assumptions, counters, deps)
  <2>1. current'[n] = current[n]
    BY <1>1, <1>4, ConsolidateStep
  <2>2. invalidated' = invalidated
    BY <1>4 DEF Consolidate
  <2> QED BY <2>1, <2>2
<1>5. ASSUME NEW k \in Ids, Retract(k) PROVE current'[m].status = "RETRACTED"
  <2>1. {k} \in SUBSET Known /\ RetractAll(DependencyClosure({k})) /\ invalidated' = invalidated
    BY <1>5 DEF Retract
  <2> QED BY <1>2, <1>3, <2>1
<1>6. ASSUME NEW a \in Assumptions, InvalidateAssumption(a)
      PROVE  current'[m].status = "RETRACTED"
  <2>1. /\ Carriers(a) \in SUBSET Known /\ RetractAll(DependencyClosure(Carriers(a)))
        /\ invalidated' = invalidated \cup {a}
    BY <1>6 DEF InvalidateAssumption, Carriers
  <2>2. n \in Carriers(a) => n \in DependencyClosure(Carriers(a))
    BY <2>1, ClosureContains
  <2>3. current[n].assumptions \cap (invalidated' \ invalidated) # {} => n \in Carriers(a)
    BY <1>1, <2>1 DEF Carriers
  <2> QED BY <1>2, <1>3, <2>1, <2>2, <2>3
<1> QED BY <1>4, <1>5, <1>6 DEF MemNext

\* Retraction and invalidation reach every dependent, in one step.
THEOREM RetractionIsComplete == MemSpec => RetractionReachesAll
<1> DEFINE Lost(n) ==
      \/ current[n].status # "RETRACTED" /\ current'[n].status = "RETRACTED"
      \/ current[n].assumptions \cap (invalidated' \ invalidated) # {}
    Reaches == \A m \in Known : (\E n \in Foundations(m) : Lost(n)) => current'[m].status = "RETRACTED"
<1>1. ASSUME MemIInv, MemNext PROVE Reaches
  BY <1>1, RetractionReaches
<1>2. ASSUME UNCHANGED memVars PROVE Reaches
  BY <1>2 DEF memVars
<1>3. MemIInv /\ [MemNext]_memVars => Reaches
  BY <1>1, <1>2
<1>4. MemSpec => [][Reaches]_memVars
  BY <1>3, LedgerInvariant, PTL DEF MemSpec
<1> QED BY <1>4 DEF RetractionReachesAll

\* All members of the closure end up retracted.
LEMMA ClosureIsRetracted ==
  ASSUME MemIInv, NEW targets \in SUBSET Known, RetractAll(targets), NEW m \in targets
  PROVE  current'[m].status = "RETRACTED"
<1>1. current[m] \in MemoryRecord /\ m \in Ids
  BY DEF MemIInv, MemTypeOK, Known
<1>2. CASE m \in ToRetract(targets)
  <2>1. current'[m] = Retracted(current[m]) /\ current[m].version = 1
    BY <1>2, RetractStep
  <2> QED BY <1>1, <2>1, RetractedRecord
<1>3. CASE m \notin ToRetract(targets)
  BY <1>1, <1>3, RetractStep DEF ToRetract
<1> QED BY <1>2, <1>3

\* The closure holds no more than it must: without a member that is no root and
\* has no dependency in it, it would still be closed.
LEMMA ClosureIsNeeded ==
  ASSUME NEW roots \in SUBSET Known, NEW m \in DependencyClosure(roots), m \notin roots
  PROVE  current[m].deps \cap DependencyClosure(roots) # {}
<1> DEFINE Rest == DependencyClosure(roots) \ {m}
<1>1. roots \subseteq Rest /\ Rest \in SUBSET Known
  BY ClosureContains
<1>2. ~Closed(Rest)
  BY <1>1 DEF DependencyClosure
<1>3. PICK k \in Known : current[k].deps \cap Rest # {} /\ k \notin Rest
  BY <1>2 DEF Closed
<1>4. k \in DependencyClosure(roots)
  BY <1>3, ClosureClosed DEF Closed
<1> QED BY <1>3, <1>4

\* What a step retracts without a reason is among the roots of the retraction.
LEMMA OnlyRootsAreUnprovoked ==
  ASSUME MemIInv, NEW roots \in SUBSET Known, RetractAll(DependencyClosure(roots))
  PROVE  Unprovoked \subseteq roots
<1>1. SUFFICES ASSUME NEW m \in Unprovoked, m \notin roots PROVE FALSE
  OBVIOUS
<1>2. DependencyClosure(roots) \in SUBSET Known
  BY ClosureContains
<1>3. m \in Known /\ m \in Ids /\ current'[m] # current[m]
  BY DEF Unprovoked, Known
<1>4. m \in DependencyClosure(roots)
  BY <1>2, <1>3, RetractStep DEF ToRetract
<1>5. PICK d \in current[m].deps : d \in DependencyClosure(roots)
  BY <1>1, <1>4, ClosureIsNeeded
<1>6. current'[d].status = "RETRACTED"
  BY <1>2, <1>5, ClosureIsRetracted
<1> QED BY <1>5, <1>6 DEF Unprovoked

\* Retraction takes no more than it must: all that one step retracts, but for the
\* one memory that it was asked to retract, has lost a dependency or an assumption.
THEOREM RetractionIsMinimal == MemSpec => RetractionHasReason
<1>1. ASSUME MemIInv, MemNext PROVE \E k : Unprovoked \subseteq {k}
  <2>1. CASE \E k \in Ids, state \in States, assumptions \in SUBSET Assumptions,
              counters \in SUBSET Countermodels, deps \in SUBSET Ids :
              Consolidate(k, state, assumptions, counters, deps)
    <3>1. \A m \in Known : current'[m] = current[m]
      BY <1>1, <2>1, ConsolidateStep
    <3> QED BY <3>1 DEF Unprovoked
  <2>2. ASSUME NEW k \in Ids, Retract(k) PROVE Unprovoked \subseteq {k}
    BY <1>1, <2>2, OnlyRootsAreUnprovoked DEF Retract
  <2>3. ASSUME NEW a \in Assumptions, InvalidateAssumption(a) PROVE Unprovoked = {}
    <3>1. /\ Carriers(a) \in SUBSET Known /\ RetractAll(DependencyClosure(Carriers(a)))
          /\ a \in invalidated'
      BY <2>3 DEF InvalidateAssumption, Carriers
    <3>2. \A m \in Carriers(a) : m \notin Unprovoked
      BY <3>1 DEF Carriers, Unprovoked
    <3> QED BY <1>1, <3>1, <3>2, OnlyRootsAreUnprovoked
  <2> QED BY <1>1, <2>1, <2>2, <2>3 DEF MemNext
<1>2. ASSUME UNCHANGED memVars PROVE Unprovoked = {}
  BY <1>2 DEF memVars, Unprovoked
<1>3. ASSUME NEW k, Unprovoked \subseteq {k} PROVE Cardinality(Unprovoked) <= 1
  <2>1. CASE Unprovoked = {}
    BY <2>1, FS_EmptySet
  <2>2. CASE Unprovoked # {}
    <3>1. Unprovoked = {k}
      BY <1>3, <2>2
    <3> QED BY <3>1, FS_Singleton
  <2> QED BY <2>1, <2>2
<1>4. MemIInv /\ [MemNext]_memVars => Cardinality(Unprovoked) <= 1
  BY <1>1, <1>2, <1>3
<1>5. MemSpec => [][Cardinality(Unprovoked) <= 1]_memVars
  BY <1>4, LedgerInvariant, PTL DEF MemSpec
<1> QED BY <1>5 DEF RetractionHasReason

\* Authority only shrinks: a retracted memory never changes again, a quarantined
\* one never becomes active, none becomes causal later, and history only grows.
THEOREM AuthorityNeverGrows == MemSpec => NeverStrengthened
<1> DEFINE Weaker(m) ==
      /\ current[m].status = "RETRACTED" => current'[m] = current[m]
      /\ current[m].status = "QUARANTINED" => current'[m].status # "ACTIVE"
      /\ current'[m].causal => current[m].causal
      /\ SubSeq(history'[m], 1, Len(history[m])) = history[m]
<1>1. ASSUME MemIInv, NEW m \in Known, current'[m] = current[m], history'[m] = history[m]
      PROVE  Weaker(m)
  <2>1. history[m] \in Seq(MemoryRecord)
    BY <1>1 DEF MemIInv, Known
  <2>2. SubSeq(history[m], 1, Len(history[m])) = history[m]
    BY <2>1, SubSeqFull
  <2> QED BY <1>1, <2>2
<1>2. ASSUME MemIInv, NEW targets \in SUBSET Known, RetractAll(targets), NEW m \in Known
      PROVE  Weaker(m)
  <2>1. CASE m \in ToRetract(targets)
    <3>1. /\ current'[m] = Retracted(current[m]) /\ current[m].version = 1
          /\ history'[m] = Append(history[m], Retracted(current[m]))
          /\ current[m].status # "RETRACTED"
      BY <1>2, <2>1, RetractStep DEF ToRetract
    <3>2. current[m] \in MemoryRecord /\ history[m] \in Seq(MemoryRecord)
      BY <1>2 DEF MemIInv, MemTypeOK, Known
    <3>3. /\ Retracted(current[m]) \in MemoryRecord
          /\ current'[m].status = "RETRACTED" /\ current'[m].causal = FALSE
      BY <3>1, <3>2, RetractedRecord
    <3>4. SubSeq(history'[m], 1, Len(history[m])) = history[m]
      BY <3>1, <3>2, <3>3, AppendKeepsPrefix
    <3> QED BY <3>1, <3>3, <3>4
  <2>2. CASE m \notin ToRetract(targets)
    <3>1. current'[m] = current[m] /\ history'[m] = history[m]
      BY <1>2, <2>2, RetractStep DEF Known
    <3> QED BY <1>1, <1>2, <3>1
  <2> QED BY <2>1, <2>2
<1>3. ASSUME MemIInv, MemNext, NEW m \in Known PROVE Weaker(m)
  <2>1. CASE \E k \in Ids, state \in States, assumptions \in SUBSET Assumptions,
              counters \in SUBSET Countermodels, deps \in SUBSET Ids :
              Consolidate(k, state, assumptions, counters, deps)
    <3>1. current'[m] = current[m] /\ history'[m] = history[m]
      BY <1>3, <2>1, ConsolidateStep
    <3> QED BY <1>1, <1>3, <3>1
  <2>2. ASSUME NEW k \in Ids, Retract(k) PROVE Weaker(m)
    <3>1. {k} \in SUBSET Known /\ RetractAll(DependencyClosure({k}))
      BY <2>2 DEF Retract
    <3>2. DependencyClosure({k}) \in SUBSET Known
      BY <3>1, ClosureContains
    <3> QED BY <1>2, <1>3, <3>1, <3>2
  <2>3. ASSUME NEW a \in Assumptions, InvalidateAssumption(a) PROVE Weaker(m)
    <3>1. Carriers(a) \in SUBSET Known /\ RetractAll(DependencyClosure(Carriers(a)))
      BY <2>3 DEF InvalidateAssumption, Carriers
    <3>2. DependencyClosure(Carriers(a)) \in SUBSET Known
      BY <3>1, ClosureContains
    <3> QED BY <1>2, <1>3, <3>1, <3>2
  <2> QED BY <1>3, <2>1, <2>2, <2>3 DEF MemNext
<1>4. ASSUME MemIInv, UNCHANGED memVars, NEW m \in Known PROVE Weaker(m)
  <2>1. current'[m] = current[m] /\ history'[m] = history[m]
    BY <1>4 DEF memVars
  <2> QED BY <1>1, <1>4, <2>1
<1>5. MemIInv /\ [MemNext]_memVars => \A m \in Known : Weaker(m)
  BY <1>3, <1>4
<1>6. MemSpec => [][\A m \in Known : Weaker(m)]_memVars
  BY <1>5, LedgerInvariant, PTL DEF MemSpec
<1> QED BY <1>6 DEF NeverStrengthened
=============================================================================
