-------------------------------- MODULE Radar --------------------------------
(***************************************************************************)
(* The radar as it runs: the builder of ChangeRadar rewrites the table     *)
(* that the loop of RadarDispatch reads, in one process, against one       *)
(* clock.  RadarDispatch's specification, where the table may become       *)
(* anything, is what this one implements.                                  *)
(***************************************************************************)
EXTENDS ChangeRadar, RadarDispatch

radarVars == <<vars, buildVars>>

(* A weight for every age, and a key for every entity there may be.        *)
ASSUME RadarBuildAssumption ==
    /\ \A n \in 0..MaxDays : n \in DOMAIN Decay /\ Decay[n] \in Nat
    /\ \A row \in Pinned : IsRow(row)
    /\ \A s \in Sources :
          IF s.kind = "alert" THEN EntityOf(s) \in Keys \cup {None} ELSE s.key \in Keys

RadarInit == BuildInit /\ Init

Dispatcher == <<ledger, clock, cycleVars, announced, faults>>

BuilderStep == BuildStep /\ UNCHANGED Dispatcher

DispatcherStep == (Tick \/ Cycle \/ CycleFails) /\ UNCHANGED buildVars

(* A restart of the process ends the rebuilds too.                         *)
RadarRestart ==
    /\ Restart
    /\ bpc' = [b \in Builders |-> "idle"]
    /\ doomed' = [b \in Builders |-> {}] /\ got' = [b \in Builders |-> {}]
    /\ UNCHANGED <<live, changes, requests, aborts, alone, whole>>

RadarNext ==
    /\ BuilderStep \/ DispatcherStep \/ RadarRestart
    /\ faults' + aborts' <= MaxFaults

RadarSpec == RadarInit /\ [][RadarNext]_radarVars

(* Both loops run for as long as the process does, and a rebuild that has  *)
(* started, whoever asked for it, goes through its statements.  The admin  *)
(* API need not be called and sources need not change.                     *)
FairRadarSpec ==
    /\ RadarSpec
    /\ WF_radarVars(UNCHANGED buildVars /\ Cycle)
    /\ WF_radarVars(UNCHANGED Dispatcher /\ Rebuild("loop"))
    /\ \A b \in Builders \ {"loop"} :
          WF_radarVars(UNCHANGED Dispatcher /\ Proceed(b))

-----------------------------------------------------------------------------
DispatchSpec == Spec

(* Proactive, end to end: while nothing fails, an alert whose signal is    *)
(* critical by itself and touches money is pushed to the RM, or goes away. *)
CriticalAlone(a) ==
    /\ a.kind = "alert" /\ a.class \notin NewsClasses
    /\ EntityOf(a) # None
    /\ AlertSignal(a).magnitude >= CriticalAt
    /\ Exposure(AlertSignal(a)) > 0

CriticalSurfaces ==
    [](faults = 0 /\ aborts = 0) =>
        \A a \in {s \in Sources : CriticalAlone(s)} :
            a \in live
               ~> \/ \E i \in DOMAIN ledger : ledger[i].key = EntityOf(a)
                  \/ a \notin live
=============================================================================
