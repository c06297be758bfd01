---------------------------- MODULE MCObservedTurns ----------------------------
(* The instances of ObservedTurns that TLC checks. *)
EXTENDS ObservedTurns

MCDeployments == {"daemon", "worker"}
MCReasonings  == {"tool"}
MCGenerated   == {2}
================================================================================
