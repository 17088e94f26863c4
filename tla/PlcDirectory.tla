---------------------------- MODULE PlcDirectory ----------------------------
(***************************************************************************)
(* The PLC directory's entry of one account, as the server uses it         *)
(* (plc/client.go, identity/identity.go).  The directory is another        *)
(* service: it takes an operation that follows the latest one and is       *)
(* signed by one of the rotation keys of that one.                         *)
(***************************************************************************)
EXTENDS Integers, Sequences, FiniteSets

CONSTANTS
    Keys,       \* the keys of the user's passkeys
    FirstKey,   \* the one of a passkey that is registered already
    Pds,        \* the server's own key
    Handles,
    FirstHandle,
    None

ASSUME KeysAssumption ==
    /\ Pds \notin Keys /\ None \notin Keys /\ Pds # None /\ FirstKey \in Keys
    /\ FirstHandle \in Handles /\ None \notin Handles \cup Nat

VARIABLE directory      \* the latest operation, numbered for its CID

Signers == Keys \cup {Pds}

\* createDidCredentialsFromPublicKey, for a sign-up: the server's key signs and rotates.
NewDid == [number |-> 1, atproto |-> Pds, rotation |-> {Pds},
           aka |-> <<FirstHandle>>, here |-> TRUE]
\* The same after a first registration.
OwnedDid == [NewDid EXCEPT !.number = 2, !.atproto = FirstKey, !.rotation = {FirstKey}]

\* An operation on top of a latest one, before it is signed.
Following(latest, content) ==
    [prev |-> latest.number, by |-> None, atproto |-> content.atproto,
     rotation |-> content.rotation, aka |-> content.aka, here |-> content.here]
Unchanged(latest) == [atproto |-> latest.atproto, rotation |-> latest.rotation,
                      aka |-> latest.aka, here |-> latest.here]

\* The names of a list but one, in their order.
Without(names, name) ==
    LET kept == {i \in 1..Len(names) : names[i] # name}
    IN  [n \in 1..Cardinality(kept) |->
            names[CHOOSE i \in kept : Cardinality({k \in kept : k <= i}) = n]]

Accepted(op) == op.prev = directory.number /\ op.by \in directory.rotation
Applied(op) == [number |-> op.prev + 1, atproto |-> op.atproto, rotation |-> op.rotation,
                aka |-> op.aka, here |-> op.here]
=============================================================================
