------------------------- MODULE CalibrationLifecycle -------------------------
(***************************************************************************)
(* The calibration authority of cwc/governance/calibration_lifecycle.py:     *)
(* ACTIVE, invalidated by a drift alarm, recalibrated in the shadow, and     *)
(* promoted to the next generation. An authority is an immutable value: an   *)
(* operation makes a new one, and its holder may still use the old one.      *)
(***************************************************************************)
EXTENDS Naturals, FiniteSets

CONSTANTS
  Artifacts,  \* digests of calibrations with their risk control
  Traces,     \* digests of source traces
  Guards,     \* digests of drift guards
  Alarms,     \* digests of drift alarms
  Preregs,    \* digests of preregistrations
  None,
  MaxAuthorities  \* bound: authorities made

VARIABLES
  authorities,  \* the CalibrationAuthority values made so far
  minted        \* the authorities that certificates have been minted from

vars == <<authorities, minted>>

\* replaces is a history variable: the drift guard of the generation that the
\* authority invalidates or replaces.
Authority ==
  [state : {"ACTIVE", "INVALIDATED_DRIFT", "SHADOW_RECALIBRATION"}, generation : Nat,
   calibration : Artifacts, risk_control : Artifacts, source_trace : Traces,
   drift_guard : Guards \cup Alarms, preregistration : Preregs,
   candidate_source_trace : Traces \cup {None}, replaces : Guards \cup {None}]

Make(a) ==
  /\ Cardinality(authorities) < MaxAuthorities
  /\ authorities' = authorities \cup {a}
  /\ UNCHANGED minted

-----------------------------------------------------------------------------
activate_initial_calibration ==
  \E cal, risk \in Artifacts, trace \in Traces, guard \in Guards, prereg \in Preregs :
    Make([state |-> "ACTIVE", generation |-> 0, calibration |-> cal, risk_control |-> risk,
          source_trace |-> trace, drift_guard |-> guard, preregistration |-> prereg,
          candidate_source_trace |-> None, replaces |-> None])

\* The alarm takes the place of the drift guard.
invalidate_calibration_on_drift(a) ==
  /\ a.state = "ACTIVE"
  /\ \E alarm \in Alarms :
       Make([a EXCEPT !.state = "INVALIDATED_DRIFT", !.drift_guard = alarm,
                      !.replaces = a.drift_guard])

begin_shadow_recalibration(a) ==
  /\ a.state = "INVALIDATED_DRIFT"
  /\ \E trace \in Traces \ {a.source_trace}, prereg \in Preregs \ {a.preregistration} :
       Make([a EXCEPT !.state = "SHADOW_RECALIBRATION", !.preregistration = prereg,
                      !.candidate_source_trace = trace])

\* The new artifacts and the new guard are compared with those of the authority.
promote_shadow_recalibration(a) ==
  /\ a.state = "SHADOW_RECALIBRATION"
  /\ \E cal \in Artifacts \ {a.calibration}, risk \in Artifacts \ {a.risk_control},
        guard \in Guards \ {a.drift_guard} :
       Make([a EXCEPT !.state = "ACTIVE", !.generation = @ + 1,
                      !.calibration = cal, !.risk_control = risk,
                      !.source_trace = a.candidate_source_trace, !.drift_guard = guard,
                      !.candidate_source_trace = None])

certify_estimate_from_active_calibration(a) ==
  /\ a.state = "ACTIVE"
  /\ minted' = minted \cup {a}
  /\ UNCHANGED authorities

-----------------------------------------------------------------------------
Init == authorities = {} /\ minted = {}

Next ==
  \/ activate_initial_calibration
  \/ \E a \in authorities :
       \/ invalidate_calibration_on_drift(a)
       \/ begin_shadow_recalibration(a)
       \/ promote_shadow_recalibration(a)
       \/ certify_estimate_from_active_calibration(a)

Spec == Init /\ [][Next]_vars
-----------------------------------------------------------------------------
(* Properties                                                               *)

TypeOK == authorities \subseteq Authority /\ minted \subseteq authorities

\* "Promotion requires [...] fresh drift guard": a new generation is not guarded by
\* the guard of the generation that it replaces.
FreshDriftGuard ==
  \A a \in authorities : a.state = "ACTIVE" => a.drift_guard # a.replaces
=============================================================================
