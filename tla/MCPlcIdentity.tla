--------------------------- MODULE MCPlcIdentity ----------------------------
(* An instance of PlcIdentity for TLC.                                      *)
EXTENDS PlcIdentity, TLC

CONSTANTS k0, k1, k2, h0, h1, c1, c2, f1, f2

Symmetry == Permutations(Keys \ {FirstKey}) \cup Permutations(Calls) \cup Permutations(Fetches)
=============================================================================
