------------------------------- MODULE RunMeter -------------------------------
(***************************************************************************)
(* RunMeter (cwc/instrumentation/run_meter.py) and the EventPool that its    *)
(* scopes borrow CUDA event pairs from (event_buffer.py, clock.py). A scope  *)
(* that ends stays pending, with its pair, until resolve makes the records   *)
(* of all pending scopes; a scope that raises is recorded at once.           *)
(***************************************************************************)
EXTENDS Naturals, Sequences, SequencesExt

CONSTANTS
  Pairs,      \* the event pairs that warm_up allocates
  NoPair,     \* cuda_window is None
  MaxScopes,  \* bound: scopes entered
  MaxTime     \* bound: the clock

VARIABLES
  now,        \* time.perf_counter_ns
  entered,    \* number of scopes entered, whose numbers name them
  available, dropped,          \* of the pool
  open, pending, records,      \* of the meter; open scopes are nested
  closed

pool == <<available, dropped>>
vars == <<now, entered, pool, open, pending, records, closed>>

Tick ==
  /\ now < MaxTime
  /\ now' = now + 1
  /\ UNCHANGED <<entered, pool, open, pending, records, closed>>

\* EventPool.acquire: an empty pool counts a dropped pair and gives none.
acquire(pair) ==
  \/ /\ pair \in available
     /\ available' = available \ {pair} /\ UNCHANGED dropped
  \/ /\ available = {} /\ pair = NoPair
     /\ dropped' = dropped + 1 /\ UNCHANGED available

\* scope, up to the block.
EnterScope ==
  /\ entered < MaxScopes
  /\ entered' = entered + 1
  /\ \E pair \in Pairs \cup {NoPair} :
       /\ acquire(pair)
       /\ open' = Append(open, [id |-> entered + 1, start |-> now, pair |-> pair])
  /\ UNCHANGED <<now, pending, records, closed>>

\* The innermost block ends. left is a history variable of a pending scope: when.
LeaveScope ==
  /\ open # <<>>
  /\ open' = Front(open)
  /\ pending' = Append(pending, [scope |-> Last(open), left |-> now])
  /\ UNCHANGED <<now, entered, pool, records, closed>>

\* The innermost block raises: its window goes with it.
RaiseInScope ==
  /\ open # <<>>
  /\ open' = Front(open)
  /\ records' = Append(records,
       [id |-> Last(open).id, status |-> "error", end_to_end |-> now - Last(open).start,
        took |-> now - Last(open).start, gpu |-> FALSE])
  /\ UNCHANGED <<now, entered, pool, pending, closed>>

\* The elapsed time of a pending scope is taken now.
Resolved(p) ==
  [id |-> p.scope.id, status |-> "ok", end_to_end |-> now - p.scope.start,
   took |-> p.left - p.scope.start, gpu |-> p.scope.pair # NoPair]

\* resolve: the pairs go back to the pool.
ResolvePending ==
  /\ records' = records \o [i \in DOMAIN pending |-> Resolved(pending[i])]
  /\ available' = available \cup ({pending[i].scope.pair : i \in DOMAIN pending} \ {NoPair})
  /\ pending' = <<>>
  /\ UNCHANGED <<now, entered, dropped, open>>

resolve == ResolvePending /\ UNCHANGED closed

close == ~closed /\ ResolvePending /\ closed' = TRUE

Init ==
  /\ now = 0 /\ entered = 0
  /\ available = Pairs /\ dropped = 0
  /\ open = <<>> /\ pending = <<>> /\ records = <<>>
  /\ closed = FALSE

Next == Tick \/ EnterScope \/ LeaveScope \/ RaiseInScope \/ resolve \/ close

Spec == Init /\ [][Next]_vars
-----------------------------------------------------------------------------
(* Properties                                                               *)

\* A scope, and a pending one.
Scope == [id : Nat, start : Nat, pair : Pairs \cup {NoPair}]
Pending == [scope : Scope, left : Nat]

TypeOK ==
  /\ now \in Nat /\ entered \in Nat /\ dropped \in Nat
  /\ available \in SUBSET Pairs
  /\ open \in Seq(Scope) /\ pending \in Seq(Pending)

Held == {open[i].pair : i \in DOMAIN open} \cup {pending[i].scope.pair : i \in DOMAIN pending}

\* A pair in the pool is not in the window of a scope, and two scopes that are open
\* or pending have windows of their own: a pair is never recorded for two scopes at
\* once, however scopes nest, raise and are resolved.
PairsHeldOnce ==
  /\ available \cap Held = {}
  /\ \A i, j \in DOMAIN open : open[i].pair = open[j].pair => i = j \/ open[i].pair = NoPair
  /\ \A i, j \in DOMAIN pending :
       pending[i].scope.pair = pending[j].scope.pair => i = j \/ pending[i].scope.pair = NoPair
  /\ \A i \in DOMAIN open, j \in DOMAIN pending :
       open[i].pair = pending[j].scope.pair => open[i].pair = NoPair

\* "Coarse-scope timing meter [...] only whole training steps": the end-to-end time
\* of a record is the time that its scope took.
RecordTimesItsScope ==
  \A i \in DOMAIN records : records[i].end_to_end = records[i].took
=============================================================================
