------------------------------ MODULE MCOAuth -------------------------------
(* An instance of OAuthFlow for TLC.                                        *)
EXTENDS OAuthFlow, TLC

CONSTANTS u1, u2, r1, p1, p2, x1, x2, x3

Symmetry == Permutations(Users) \cup Permutations(Approvals) \cup Permutations(Exchanges)
=============================================================================
