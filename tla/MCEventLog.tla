----------------------------- MODULE MCEventLog -----------------------------
(* Instances of EventLog for TLC: one relay that connects several times.    *)
EXTENDS EventLog

CONSTANTS c1, c2

ConnSymmetry == Permutations(Conns)
=============================================================================
