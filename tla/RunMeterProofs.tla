---------------------------- MODULE RunMeterProofs ----------------------------
(***************************************************************************)
(* Theorems about RunMeter, for any pool and any number of scopes.          *)
(***************************************************************************)
EXTENDS RunMeter, TLAPS

MeterIInv == TypeOK /\ PairsHeldOnce

LEMMA MeterInit == Init => MeterIInv
<1> SUFFICES ASSUME Init PROVE MeterIInv
  OBVIOUS
<1>1. open = <<>> /\ pending = <<>> /\ available = Pairs
  BY DEF Init
<1>2. TypeOK
  BY <1>1 DEF Init, TypeOK
<1>3. Held = {} /\ DOMAIN open = {} /\ DOMAIN pending = {}
  BY <1>1 DEF Held
<1> QED
  BY <1>2, <1>3 DEF MeterIInv, PairsHeldOnce

\* Entering a scope: its pair is from the pool, or it has none.
LEMMA EnterStep ==
  ASSUME NoPair \notin Pairs, MeterIInv, EnterScope PROVE MeterIInv'
<1>1. PICK pair \in Pairs \cup {NoPair} :
        /\ acquire(pair)
        /\ open' = Append(open, [id |-> entered + 1, start |-> now, pair |-> pair])
  BY DEF EnterScope
<1> DEFINE s == [id |-> entered + 1, start |-> now, pair |-> pair]
<1>2. /\ available' \in SUBSET available /\ pair \notin available'
      /\ pair # NoPair => pair \in available
      /\ dropped' \in Nat
  BY <1>1 DEF acquire, MeterIInv, TypeOK
<1>3. s \in Scope /\ s.pair = pair /\ open \in Seq(Scope) /\ entered' \in Nat
  BY DEF MeterIInv, TypeOK, Scope, EnterScope
<1> HIDE DEF s
<1>4. /\ open' \in Seq(Scope) /\ DOMAIN open' = 1..(Len(open) + 1) /\ DOMAIN open = 1..Len(open)
      /\ open'[Len(open) + 1] = s
      /\ \A i \in DOMAIN open : i \in DOMAIN open' /\ open'[i] = open[i] /\ i # Len(open) + 1
      /\ \A i \in DOMAIN open' : i \in DOMAIN open \/ i = Len(open) + 1
  BY <1>1, <1>3 DEF s
<1>5. pending' = pending /\ now' = now
  BY DEF EnterScope
<1>6. TypeOK'
  BY <1>2, <1>3, <1>4, <1>5 DEF MeterIInv, TypeOK
<1>7. \A i \in DOMAIN open : open[i].pair = pair => pair = NoPair
  BY <1>2 DEF MeterIInv, PairsHeldOnce, Held
<1>8. \A i \in DOMAIN pending : pending[i].scope.pair = pair => pair = NoPair
  BY <1>2 DEF MeterIInv, PairsHeldOnce, Held
<1>9. Held' = Held \cup {pair}
  BY <1>3, <1>4, <1>5 DEF Held
<1>10. available' \cap Held' = {}
  BY <1>2, <1>9 DEF MeterIInv, PairsHeldOnce
<1>11. \A i, j \in DOMAIN open' : open'[i].pair = open'[j].pair => i = j \/ open'[i].pair = NoPair
  BY <1>3, <1>4, <1>7 DEF MeterIInv, PairsHeldOnce
<1>12. \A i \in DOMAIN open', j \in DOMAIN pending' :
         open'[i].pair = pending'[j].scope.pair => open'[i].pair = NoPair
  BY <1>3, <1>4, <1>5, <1>8 DEF MeterIInv, PairsHeldOnce
<1>13. \A i, j \in DOMAIN pending' :
         pending'[i].scope.pair = pending'[j].scope.pair => i = j \/ pending'[i].scope.pair = NoPair
  BY <1>5 DEF MeterIInv, PairsHeldOnce
<1> QED
  BY <1>6, <1>10, <1>11, <1>12, <1>13 DEF MeterIInv, PairsHeldOnce

\* The innermost scope and the others.
LEMMA FrontFacts ==
  ASSUME MeterIInv, open # <<>>
  PROVE  /\ Front(open) \in Seq(Scope) /\ Len(open) \in DOMAIN open
         /\ Last(open) = open[Len(open)] /\ Last(open) \in Scope
         /\ DOMAIN open = 1..Len(open) /\ DOMAIN Front(open) = 1..(Len(open) - 1)
         /\ \A i \in DOMAIN Front(open) :
              i \in DOMAIN open /\ i # Len(open) /\ Front(open)[i] = open[i]
<1>1. open \in Seq(Scope)
  BY DEF MeterIInv, TypeOK
<1>2. Len(open) \in Nat /\ Len(open) # 0 /\ DOMAIN open = 1..Len(open)
  BY <1>1
<1> QED
  BY <1>1, <1>2 DEF Front, Last

LEMMA LeaveStep == ASSUME MeterIInv, LeaveScope PROVE MeterIInv'
<1> DEFINE p == [scope |-> Last(open), left |-> now]
           n == Len(pending) + 1
<1>1. /\ open' = Front(open) /\ pending' = Append(pending, p) /\ open # <<>>
      /\ UNCHANGED <<now, entered, pool>>
  BY DEF LeaveScope
<1>2. p \in Pending /\ p.scope = open[Len(open)]
  BY <1>1, FrontFacts DEF MeterIInv, TypeOK, Pending
<1> HIDE DEF p
<1>3. /\ pending \in Seq(Pending) /\ pending' \in Seq(Pending)
      /\ pending'[n] = p
      /\ \A i \in DOMAIN pending : i \in DOMAIN pending' /\ pending'[i] = pending[i] /\ i # n
      /\ \A i \in DOMAIN pending' : i \in DOMAIN pending \/ i = n
  BY <1>1, <1>2 DEF MeterIInv, TypeOK
<1> HIDE DEF n
<1>4. TypeOK'
  BY <1>1, <1>3, FrontFacts DEF MeterIInv, TypeOK, pool
<1>5. \A i \in DOMAIN open' : i \in DOMAIN open /\ i # Len(open) /\ open'[i] = open[i]
  BY <1>1, FrontFacts
<1>6. Held' \subseteq Held
  BY <1>1, <1>2, <1>3, <1>5, FrontFacts DEF Held
<1>7. available' \cap Held' = {}
  BY <1>1, <1>6 DEF MeterIInv, PairsHeldOnce, pool
<1>8. \A i, j \in DOMAIN open' : open'[i].pair = open'[j].pair => i = j \/ open'[i].pair = NoPair
  BY <1>5 DEF MeterIInv, PairsHeldOnce
<1>9. \A i \in DOMAIN open', j \in DOMAIN pending' :
        open'[i].pair = pending'[j].scope.pair => open'[i].pair = NoPair
  BY <1>1, <1>2, <1>3, <1>5, FrontFacts DEF MeterIInv, PairsHeldOnce
<1>10. \A i, j \in DOMAIN pending' :
         pending'[i].scope.pair = pending'[j].scope.pair => i = j \/ pending'[i].scope.pair = NoPair
  BY <1>1, <1>2, <1>3, FrontFacts DEF MeterIInv, PairsHeldOnce
<1> QED
  BY <1>4, <1>7, <1>8, <1>9, <1>10 DEF MeterIInv, PairsHeldOnce

LEMMA RaiseStep == ASSUME MeterIInv, RaiseInScope PROVE MeterIInv'
<1>1. /\ open' = Front(open) /\ open # <<>>
      /\ UNCHANGED <<now, entered, pool, pending>>
  BY DEF RaiseInScope
<1>2. TypeOK'
  BY <1>1, FrontFacts DEF MeterIInv, TypeOK, pool
<1>3. \A i \in DOMAIN open' : i \in DOMAIN open /\ open'[i] = open[i]
  BY <1>1, FrontFacts
<1>4. Held' \subseteq Held
  BY <1>1, <1>3 DEF Held
<1> QED
  BY <1>1, <1>2, <1>3, <1>4 DEF MeterIInv, PairsHeldOnce, pool

LEMMA ResolveStep ==
  ASSUME NoPair \notin Pairs, MeterIInv, ResolvePending PROVE MeterIInv'
<1> DEFINE returned == {pending[i].scope.pair : i \in DOMAIN pending} \ {NoPair}
<1>1. /\ available' = available \cup returned /\ pending' = <<>> /\ open' = open
      /\ UNCHANGED <<now, entered, dropped>>
  BY DEF ResolvePending
<1>2. returned \in SUBSET Pairs
  <2>1. \A i \in DOMAIN pending : pending[i] \in Pending
    BY DEF MeterIInv, TypeOK
  <2>2. \A i \in DOMAIN pending : pending[i].scope.pair \in Pairs \cup {NoPair}
    BY <2>1 DEF Pending, Scope
  <2> QED
    BY <2>2
<1>3. TypeOK'
  BY <1>1, <1>2 DEF MeterIInv, TypeOK
<1>4. DOMAIN pending' = {}
  BY <1>1
<1>5. Held' = {open[i].pair : i \in DOMAIN open}
  BY <1>1, <1>4 DEF Held
<1>6. returned \cap Held' = {}
  BY <1>5 DEF MeterIInv, PairsHeldOnce
<1>7. available \cap Held' = {}
  BY <1>5 DEF MeterIInv, PairsHeldOnce, Held
<1> QED
  BY <1>1, <1>3, <1>4, <1>6, <1>7 DEF MeterIInv, PairsHeldOnce

LEMMA MeterStep ==
  ASSUME NoPair \notin Pairs PROVE MeterIInv /\ [Next]_vars => MeterIInv'
<1> SUFFICES ASSUME MeterIInv, [Next]_vars PROVE MeterIInv'
  OBVIOUS
<1>1. CASE UNCHANGED vars
  BY <1>1 DEF vars, pool, MeterIInv, TypeOK, PairsHeldOnce, Held
<1>2. CASE Tick
  BY <1>2 DEF Tick, pool, MeterIInv, TypeOK, PairsHeldOnce, Held
<1>3. CASE resolve \/ close
  BY <1>3, ResolveStep DEF resolve, close
<1> QED
  BY <1>1, <1>2, <1>3, EnterStep, LeaveStep, RaiseStep DEF Next

\* A pair is in the pool or in one window, for any pool and however scopes nest,
\* raise and are resolved: no reading mixes two scopes.
THEOREM WindowsApart == ASSUME NoPair \notin Pairs PROVE Spec => []PairsHeldOnce
<1>1. MeterIInv => PairsHeldOnce
  BY DEF MeterIInv
<1> QED
  BY <1>1, MeterInit, MeterStep, PTL DEF Spec
-----------------------------------------------------------------------------
(* The records.                                                             *)

Record == [id : Nat, status : {"ok", "error"}, end_to_end : Nat, took : Nat, gpu : BOOLEAN]

OpenIds    == {open[i].id : i \in DOMAIN open}
PendingIds == {pending[i].scope.id : i \in DOMAIN pending}
RecordIds  == {records[i].id : i \in DOMAIN records}

\* Every scope that was entered is open, pending or recorded, and there are as many of
\* these as scopes were entered: none is lost or recorded twice, whichever of them raise
\* and whatever calls of resolve and close come in between, close with scopes still open
\* included. (What scope does not catch, as a KeyboardInterrupt, ends the job here.)
ScopesRecordedOnce ==
  /\ OpenIds \cup PendingIds \cup RecordIds = 1..entered
  /\ Len(open) + Len(pending) + Len(records) = entered

\* The error of a record is on one side: the time of resolve is charged to the scope, and
\* no record says less than the scope took.
RecordsNeverShort ==
  \A i \in DOMAIN records : records[i].end_to_end >= records[i].took

RecordIInv ==
  /\ TypeOK
  /\ \A i \in DOMAIN open : open[i].start <= now
  /\ \A i \in DOMAIN pending : pending[i].scope.start <= pending[i].left /\ pending[i].left <= now
  /\ records \in Seq(Record)
  /\ ScopesRecordedOnce
  /\ RecordsNeverShort

LEMMA RecordInit == Init => RecordIInv
<1> SUFFICES ASSUME Init PROVE RecordIInv
  OBVIOUS
<1>1. open = <<>> /\ pending = <<>> /\ records = <<>> /\ entered = 0 /\ now = 0
      /\ available = Pairs /\ dropped = 0
  BY DEF Init
<1>2. TypeOK /\ records \in Seq(Record)
  BY <1>1 DEF TypeOK
<1>3. /\ DOMAIN open = {} /\ DOMAIN pending = {} /\ DOMAIN records = {}
      /\ Len(open) = 0 /\ Len(pending) = 0 /\ Len(records) = 0
  BY <1>1
<1>4. ScopesRecordedOnce
  BY <1>1, <1>3 DEF ScopesRecordedOnce, OpenIds, PendingIds, RecordIds
<1> QED
  BY <1>2, <1>3, <1>4 DEF RecordIInv, RecordsNeverShort

\* What Append does to a sequence, and to the images of its places.
LEMMA AppendFacts ==
  ASSUME NEW S, NEW s \in Seq(S), NEW e \in S
  PROVE  LET t == Append(s, e) IN
         /\ t \in Seq(S) /\ Len(t) = Len(s) + 1 /\ Len(s) \in Nat
         /\ DOMAIN s = 1..Len(s) /\ DOMAIN t = 1..(Len(s) + 1)
         /\ \A i \in DOMAIN s : t[i] = s[i]
         /\ t[Len(s) + 1] = e
OBVIOUS

LEMMA ConcatFacts ==
  ASSUME NEW S, NEW s \in Seq(S), NEW t \in Seq(S)
  PROVE  /\ s \o t \in Seq(S) /\ Len(s \o t) = Len(s) + Len(t)
         /\ DOMAIN (s \o t) = 1..(Len(s) + Len(t))
         /\ \A i \in DOMAIN s : (s \o t)[i] = s[i]
         /\ \A i \in DOMAIN t : (s \o t)[Len(s) + i] = t[i]
OBVIOUS

\* What is in a window.
LEMMA WindowFacts ==
  ASSUME TypeOK
  PROVE  /\ \A i \in DOMAIN open : open[i].start \in Nat
         /\ \A i \in DOMAIN pending : /\ pending[i].left \in Nat
                                      /\ pending[i].scope.start \in Nat
                                      /\ pending[i].scope.id \in Nat
                                      /\ pending[i].scope.pair \in Pairs \cup {NoPair}
<1>1. ASSUME NEW i \in DOMAIN open PROVE open[i].start \in Nat
  <2>1. open[i] \in Scope
    BY DEF TypeOK
  <2> QED
    BY <2>1 DEF Scope
<1>2. ASSUME NEW i \in DOMAIN pending
      PROVE  /\ pending[i].left \in Nat /\ pending[i].scope.start \in Nat
             /\ pending[i].scope.id \in Nat /\ pending[i].scope.pair \in Pairs \cup {NoPair}
  <2>1. pending[i] \in Pending
    BY DEF TypeOK
  <2>2. pending[i].left \in Nat /\ pending[i].scope \in Scope
    BY <2>1 DEF Pending
  <2> QED
    BY <2>2 DEF Scope
<1> QED
  BY <1>1, <1>2

\* The innermost scope and the others.
LEMMA InnermostFacts ==
  ASSUME RecordIInv, open # <<>>
  PROVE  /\ Front(open) \in Seq(Scope) /\ Len(open) \in DOMAIN open
         /\ Last(open) = open[Len(open)] /\ Last(open) \in Scope
         /\ Len(open) \in Nat /\ Len(Front(open)) = Len(open) - 1
         /\ DOMAIN open = 1..Len(open) /\ DOMAIN Front(open) = 1..(Len(open) - 1)
         /\ \A i \in DOMAIN Front(open) : Front(open)[i] = open[i]
<1>1. open \in Seq(Scope)
  BY DEF RecordIInv, TypeOK
<1>2. Len(open) \in Nat /\ Len(open) # 0 /\ DOMAIN open = 1..Len(open)
  BY <1>1
<1> QED
  BY <1>1, <1>2 DEF Front, Last

LEMMA TickRecords == ASSUME RecordIInv, Tick PROVE RecordIInv'
<1>1. now' = now + 1 /\ now \in Nat /\ UNCHANGED <<entered, pool, open, pending, records>>
  BY DEF Tick, RecordIInv, TypeOK
<1>2. TypeOK' /\ ScopesRecordedOnce' /\ RecordsNeverShort'
  BY <1>1 DEF RecordIInv, TypeOK, pool, ScopesRecordedOnce, OpenIds, PendingIds, RecordIds,
              RecordsNeverShort
<1>3. \A i \in DOMAIN open : open[i].start \in Nat
  BY WindowFacts DEF RecordIInv
<1>4. \A i \in DOMAIN pending : pending[i].left \in Nat
  BY WindowFacts DEF RecordIInv
<1> QED
  BY <1>1, <1>2, <1>3, <1>4 DEF RecordIInv

LEMMA EnterRecords == ASSUME RecordIInv, EnterScope PROVE RecordIInv'
<1>1. PICK pair \in Pairs \cup {NoPair} :
        /\ acquire(pair)
        /\ open' = Append(open, [id |-> entered + 1, start |-> now, pair |-> pair])
  BY DEF EnterScope
<1> DEFINE e == [id |-> entered + 1, start |-> now, pair |-> pair]
<1>2. entered' = entered + 1 /\ UNCHANGED <<now, pending, records>>
  BY DEF EnterScope
<1>3. open \in Seq(Scope) /\ now \in Nat /\ entered \in Nat /\ dropped \in Nat
  BY DEF RecordIInv, TypeOK
<1>4. e \in Scope /\ e.id = entered + 1 /\ e.start = now
  BY <1>3 DEF Scope
<1> HIDE DEF e
<1>5. /\ open' \in Seq(Scope) /\ Len(open') = Len(open) + 1 /\ Len(open) \in Nat
      /\ DOMAIN open = 1..Len(open) /\ DOMAIN open' = 1..(Len(open) + 1)
      /\ \A i \in DOMAIN open : open'[i] = open[i]
      /\ open'[Len(open) + 1] = e
  BY <1>1, <1>3, <1>4, AppendFacts DEF e
<1>6. TypeOK'
  BY <1>1, <1>2, <1>3, <1>5 DEF RecordIInv, TypeOK, acquire
<1>7. \A i \in DOMAIN open' : open'[i].start <= now'
  BY <1>2, <1>3, <1>4, <1>5 DEF RecordIInv
<1>8. OpenIds' = OpenIds \cup {entered + 1}
  BY <1>4, <1>5 DEF OpenIds
<1>9. ScopesRecordedOnce'
  <2>1. PendingIds' = PendingIds /\ RecordIds' = RecordIds
    BY <1>2 DEF PendingIds, RecordIds
  <2>2. OpenIds' \cup PendingIds' \cup RecordIds' = 1..(entered + 1)
    BY <1>3, <1>8, <2>1 DEF RecordIInv, ScopesRecordedOnce
  <2>3. Len(pending) \in Nat /\ Len(records) \in Nat
    BY DEF RecordIInv, TypeOK
  <2> QED
    BY <1>2, <1>3, <1>5, <2>2, <2>3 DEF RecordIInv, ScopesRecordedOnce
<1> QED
  BY <1>2, <1>6, <1>7, <1>9 DEF RecordIInv, RecordsNeverShort

LEMMA LeaveRecords == ASSUME RecordIInv, LeaveScope PROVE RecordIInv'
<1> DEFINE p == [scope |-> Last(open), left |-> now]
<1>1. /\ open # <<>> /\ open' = Front(open) /\ pending' = Append(pending, p)
      /\ UNCHANGED <<now, entered, pool, records>>
  BY DEF LeaveScope
<1>2. p \in Pending /\ p.scope = open[Len(open)] /\ p.left = now /\ now \in Nat
  BY <1>1, InnermostFacts DEF RecordIInv, TypeOK, Pending
<1>3. pending \in Seq(Pending)
  BY DEF RecordIInv, TypeOK
<1> HIDE DEF p
<1>4. /\ pending' \in Seq(Pending) /\ Len(pending') = Len(pending) + 1 /\ Len(pending) \in Nat
      /\ DOMAIN pending = 1..Len(pending) /\ DOMAIN pending' = 1..(Len(pending) + 1)
      /\ \A i \in DOMAIN pending : pending'[i] = pending[i]
      /\ pending'[Len(pending) + 1] = p
  BY <1>1, <1>2, <1>3, AppendFacts
<1>5. /\ open' \in Seq(Scope) /\ Len(open) \in DOMAIN open /\ Len(open) \in Nat
      /\ Len(open') = Len(open) - 1
      /\ DOMAIN open = 1..Len(open) /\ DOMAIN open' = 1..(Len(open) - 1)
      /\ \A i \in DOMAIN open' : open'[i] = open[i]
  BY <1>1, InnermostFacts
<1>6. TypeOK'
  BY <1>1, <1>4, <1>5 DEF RecordIInv, TypeOK, pool
<1>7. /\ \A i \in DOMAIN open' : open'[i].start <= now'
      /\ \A i \in DOMAIN pending' :
           pending'[i].scope.start <= pending'[i].left /\ pending'[i].left <= now'
  BY <1>1, <1>2, <1>4, <1>5 DEF RecordIInv
<1>8. OpenIds' \cup PendingIds' = OpenIds \cup PendingIds
  <2>1. PendingIds' = PendingIds \cup {open[Len(open)].id}
    BY <1>2, <1>4 DEF PendingIds
  <2>2. OpenIds' \cup {open[Len(open)].id} = OpenIds
    BY <1>5 DEF OpenIds
  <2> QED
    BY <2>1, <2>2
<1>9. ScopesRecordedOnce'
  <2>1. Len(records) \in Nat
    BY DEF RecordIInv
  <2> QED
    BY <1>1, <1>4, <1>5, <1>8, <2>1 DEF RecordIInv, ScopesRecordedOnce, RecordIds
<1> QED
  BY <1>1, <1>6, <1>7, <1>9 DEF RecordIInv, RecordsNeverShort

LEMMA RaiseRecords == ASSUME RecordIInv, RaiseInScope PROVE RecordIInv'
<1> DEFINE r == [id |-> Last(open).id, status |-> "error",
                 end_to_end |-> now - Last(open).start,
                 took |-> now - Last(open).start, gpu |-> FALSE]
<1>1. /\ open # <<>> /\ open' = Front(open) /\ records' = Append(records, r)
      /\ UNCHANGED <<now, entered, pool, pending>>
  BY DEF RaiseInScope
<1>2. /\ open' \in Seq(Scope) /\ Len(open) \in DOMAIN open /\ Len(open) \in Nat
      /\ Len(open') = Len(open) - 1
      /\ DOMAIN open = 1..Len(open) /\ DOMAIN open' = 1..(Len(open) - 1)
      /\ \A i \in DOMAIN open' : open'[i] = open[i]
      /\ Last(open) = open[Len(open)] /\ Last(open) \in Scope
  BY <1>1, InnermostFacts
<1>3. now - Last(open).start \in Nat /\ Last(open).id \in Nat
  <2>1. Last(open).start <= now /\ now \in Nat
    BY <1>2 DEF RecordIInv, TypeOK
  <2>2. Last(open).start \in Nat /\ Last(open).id \in Nat
    BY <1>2 DEF Scope
  <2> QED
    BY <2>1, <2>2
<1>4. r \in Record /\ r.id = open[Len(open)].id /\ r.end_to_end >= r.took
  BY <1>2, <1>3 DEF Record
<1>5. records \in Seq(Record)
  BY DEF RecordIInv
<1> HIDE DEF r
<1>6. /\ records' \in Seq(Record) /\ Len(records') = Len(records) + 1 /\ Len(records) \in Nat
      /\ DOMAIN records = 1..Len(records) /\ DOMAIN records' = 1..(Len(records) + 1)
      /\ \A i \in DOMAIN records : records'[i] = records[i]
      /\ records'[Len(records) + 1] = r
  BY <1>1, <1>4, <1>5, AppendFacts
<1>7. TypeOK'
  BY <1>1, <1>2 DEF RecordIInv, TypeOK, pool
<1>8. \A i \in DOMAIN open' : open'[i].start <= now'
  BY <1>1, <1>2 DEF RecordIInv
<1>9. RecordsNeverShort'
  BY <1>4, <1>6 DEF RecordIInv, RecordsNeverShort
<1>10. OpenIds' \cup RecordIds' = OpenIds \cup RecordIds
  <2>1. RecordIds' = RecordIds \cup {open[Len(open)].id}
    BY <1>4, <1>6 DEF RecordIds
  <2>2. OpenIds' \cup {open[Len(open)].id} = OpenIds
    BY <1>2 DEF OpenIds
  <2> QED
    BY <2>1, <2>2
<1>11. ScopesRecordedOnce'
  <2>1. Len(pending) \in Nat
    BY DEF RecordIInv, TypeOK
  <2>2. PendingIds' = PendingIds
    BY <1>1 DEF PendingIds
  <2> QED
    BY <1>1, <1>2, <1>6, <1>10, <2>1, <2>2 DEF RecordIInv, ScopesRecordedOnce
<1> QED
  BY <1>1, <1>6, <1>7, <1>8, <1>9, <1>11 DEF RecordIInv

LEMMA ResolveRecords == ASSUME RecordIInv, ResolvePending PROVE RecordIInv'
<1> DEFINE new == [i \in DOMAIN pending |-> Resolved(pending[i])]
<1>1. /\ records' = records \o new /\ pending' = <<>>
      /\ available' = available \cup ({pending[i].scope.pair : i \in DOMAIN pending} \ {NoPair})
      /\ UNCHANGED <<now, entered, dropped, open>>
  BY DEF ResolvePending
<1>2. pending \in Seq(Pending) /\ Len(pending) \in Nat /\ DOMAIN pending = 1..Len(pending)
  BY DEF RecordIInv, TypeOK
<1>3. ASSUME NEW i \in DOMAIN pending
      PROVE  /\ Resolved(pending[i]) \in Record
             /\ Resolved(pending[i]).id = pending[i].scope.id
             /\ Resolved(pending[i]).end_to_end >= Resolved(pending[i]).took
  <2> DEFINE start == pending[i].scope.start
             left  == pending[i].left
  <2>1. start \in Nat /\ left \in Nat /\ now \in Nat /\ pending[i].scope.id \in Nat
    BY WindowFacts DEF RecordIInv, TypeOK
  <2>2. start <= left /\ left <= now
    BY DEF RecordIInv
  <2>3. now - start \in Nat /\ left - start \in Nat /\ now - start >= left - start
    <3> HIDE DEF start, left
    <3> QED
      BY <2>1, <2>2
  <2> QED
    BY <2>1, <2>3 DEF Resolved, Record
<1>4. new \in Seq(Record) /\ Len(new) = Len(pending) /\ DOMAIN new = DOMAIN pending
  BY <1>2, <1>3
<1>5. records \in Seq(Record) /\ Len(records) \in Nat /\ DOMAIN records = 1..Len(records)
  BY DEF RecordIInv
<1>6. \A i \in DOMAIN pending : new[i] = Resolved(pending[i])
  OBVIOUS
<1> HIDE DEF new
<1>7. /\ records' \in Seq(Record) /\ Len(records') = Len(records) + Len(pending)
      /\ DOMAIN records' = 1..(Len(records) + Len(pending))
      /\ \A i \in DOMAIN records : records'[i] = records[i]
      /\ \A i \in DOMAIN pending : records'[Len(records) + i] = Resolved(pending[i])
  <2>1. /\ records \o new \in Seq(Record) /\ Len(records \o new) = Len(records) + Len(new)
        /\ DOMAIN (records \o new) = 1..(Len(records) + Len(new))
        /\ \A i \in DOMAIN records : (records \o new)[i] = records[i]
        /\ \A i \in DOMAIN new : (records \o new)[Len(records) + i] = new[i]
    BY <1>4, <1>5, ConcatFacts
  <2> QED
    BY <1>1, <1>4, <1>6, <2>1
<1>8. \A k \in DOMAIN records' : k \in DOMAIN records \/ \E i \in DOMAIN pending : k = Len(records) + i
  <2> SUFFICES ASSUME NEW k \in DOMAIN records', k \notin DOMAIN records
               PROVE  \E i \in DOMAIN pending : k = Len(records) + i
    OBVIOUS
  <2>1. k - Len(records) \in DOMAIN pending /\ k = Len(records) + (k - Len(records))
    BY <1>2, <1>5, <1>7
  <2> QED
    BY <2>1
<1>9. \A i \in DOMAIN pending : Len(records) + i \in DOMAIN records'
  BY <1>2, <1>5, <1>7
<1>10. \A i \in DOMAIN records : i \in DOMAIN records'
  BY <1>2, <1>5, <1>7
<1>11. RecordIds' = RecordIds \cup PendingIds
  BY <1>3, <1>7, <1>8, <1>9, <1>10 DEF RecordIds, PendingIds
<1>12. PendingIds' = {} /\ Len(pending') = 0 /\ DOMAIN pending' = {}
  BY <1>1 DEF PendingIds
<1>13. RecordsNeverShort'
  BY <1>3, <1>7, <1>8 DEF RecordIInv, RecordsNeverShort
<1>14. ScopesRecordedOnce'
  <2>1. OpenIds' = OpenIds /\ Len(open) \in Nat
    BY <1>1 DEF OpenIds, RecordIInv, TypeOK
  <2> QED
    BY <1>1, <1>2, <1>5, <1>7, <1>11, <1>12, <2>1 DEF RecordIInv, ScopesRecordedOnce
<1>15. TypeOK'
  <2>1. \A i \in DOMAIN pending : pending[i].scope.pair \in Pairs \cup {NoPair}
    BY WindowFacts DEF RecordIInv
  <2> QED
    BY <1>1, <2>1 DEF RecordIInv, TypeOK
<1> QED
  BY <1>1, <1>7, <1>12, <1>13, <1>14, <1>15 DEF RecordIInv

THEOREM RecordsInvariant == Spec => []RecordIInv
<1>1. RecordIInv /\ [Next]_vars => RecordIInv'
  <2> SUFFICES ASSUME RecordIInv, [Next]_vars PROVE RecordIInv'
    OBVIOUS
  <2>1. CASE UNCHANGED vars
    BY <2>1 DEF vars, pool, RecordIInv, TypeOK, ScopesRecordedOnce, OpenIds, PendingIds,
                RecordIds, RecordsNeverShort
  <2>2. CASE resolve \/ close
    BY <2>2, ResolveRecords DEF resolve, close
  <2> QED
    BY <2>1, <2>2, TickRecords, EnterRecords, LeaveRecords, RaiseRecords DEF Next
<1> QED
  BY <1>1, RecordInit, PTL DEF Spec

\* However scopes nest, raise and are resolved, each is recorded once or still to be.
THEOREM ScopesAreRecordedOnce == Spec => []ScopesRecordedOnce
<1>1. RecordIInv => ScopesRecordedOnce
  BY DEF RecordIInv
<1> QED
  BY <1>1, RecordsInvariant, PTL

\* A record can be too long, as a run of RunMeter shows, and is never too short.
THEOREM RecordsAreNeverShort == Spec => []RecordsNeverShort
<1>1. RecordIInv => RecordsNeverShort
  BY DEF RecordIInv
<1> QED
  BY <1>1, RecordsInvariant, PTL
=============================================================================
