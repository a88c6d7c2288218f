---------------------------- MODULE TestbedFaults ----------------------------
(* The faults the set-up of a test has to live with: a remote command that   *)
(* fails, a query without a usable answer, a machine that hangs.  They are   *)
(* counted together, so that their number can be bounded.                    *)
EXTENDS Integers

CONSTANT MaxFaults      \* bound on the faults of a behaviour

ASSUME FaultsAssumption == MaxFaults \in Nat

VARIABLE faults         \* faults so far

FaultsInit == faults = 0

Fault == faults < MaxFaults /\ faults' = faults + 1

NoFault == faults' = faults

FaultsSpec == FaultsInit /\ [][Fault]_faults

(* A step that succeeds, or fails with the given outcome. *)
May(success, failure) == \/ NoFault /\ success
                         \/ Fault /\ failure
=============================================================================
