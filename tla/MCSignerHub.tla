---------------------------- MODULE MCSignerHub ----------------------------
(* Instances of SignerHub for TLC: one account, a few sessions and calls.  *)
(* An account's sessions and calls meet in the hub only with each other,   *)
(* so one account is enough for what the runs ask.                         *)
EXTENDS SignerHubRefinement, TLC

CONSTANTS d1, c1, c2, r1, r2, r3

OneDid == {d1}
AllConnsOfD1 == [c \in Conns |-> d1]
AllReqsOfD1 == [r \in Requests |-> d1]

\* Sound for the safety runs: no definition names a session or a request.
EvictionSymmetry == Permutations(Conns) \cup Permutations(Requests)
QueueSymmetry == Permutations(Requests)
=============================================================================
