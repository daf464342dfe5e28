----------------------------- MODULE RecoveryClient -----------------------------
(***************************************************************************)
(* A controller's side of the recovery service: how its calls end, and     *)
(* what else happens to the service meanwhile.  Calls to Windows and to    *)
(* the service fail at most MaxFaults times in a behaviour.                *)
(***************************************************************************)
EXTENDS RecoveryService

CONSTANT MaxFaults  \* bound on calls that fail

ASSUME FaultsAssumption == MaxFaults \in Nat

VARIABLE faults     \* how many more calls may fail

Fault == faults > 0 /\ faults' = faults - 1

Granted == Acknowledge /\ UNCHANGED faults

\* A latched service refuses at once; an unanswered call latches it.
Denied == \/ latched /\ call = NoCall /\ UNCHANGED <<serviceVars, faults>>
          \/ Abandon /\ Fault

\* The helper's own progress.
ServiceActs == (Land \/ LateLand \/ LateLoss) /\ UNCHANGED faults
================================================================================
