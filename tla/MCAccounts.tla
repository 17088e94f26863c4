----------------------------- MODULE MCAccounts -----------------------------
(* An instance of Accounts for TLC: one account with a session, and calls   *)
(* that use it or sign up beside it.                                        *)
EXTENDS Accounts, TLC

CONSTANTS s0, a, b, c3, d1, d2, d3, h1, h2, h3, e1, e2, e3, i1

\* A new account, one that moves here, and one that comes back after deletion
\* and wants what the new one wants.
WantedHere == {[handle |-> h2, email |-> e2, did |-> None],
               [handle |-> h3, email |-> e3, did |-> d3],
               [handle |-> h2, email |-> e2, did |-> d1]}
CallSymmetry == Permutations(Calls \ {s0})
=============================================================================
