------------------------------ MODULE RepoTree ------------------------------
(* A repository's content: what is stored under each record path (the MST), *)
(* and what a batch of writes does to it.                                   *)
EXTENDS Naturals, Sequences

CONSTANTS
    Keys,       \* record paths: collection/rkey
    Writers,    \* calls of applyWrites
    Importers,  \* calls of importRepo
    Batches,    \* the batches a client may send
    Absent      \* nothing under this path

Jobs == Writers \cup Importers

\* A record is named by the call that wrote it.
Trees == [Keys -> Jobs \cup {Absent}]
EmptyTree == [k \in Keys |-> Absent]

\* An "invalid" operation is one that phase 1 of applyWrites refuses.
Ops == [kind : {"create", "update", "delete", "invalid"}, key : Keys]

ASSUME BatchesAssumption == Batches \subseteq Seq(Ops) /\ <<>> \notin Batches
ASSUME AbsentAssumption == Absent \notin Jobs
ASSUME JobsAssumption == Writers \cap Importers = {}

Value(op, w) == IF op.kind = "delete" THEN Absent ELSE w

\* The last of the first n of a sequence of changes [key, val] that is about k.
LastOn(s, n, k) ==
    {j \in 1..n : s[j].key = k /\ \A i \in 1..n : s[i].key = k => i <= j}

TheOne(S) == CHOOSE x \in S : TRUE

\* What a path holds after the first n changes of the tree t: what the last
\* change of it left, or what it held before.
Holds(s, n, t, k) ==
    IF LastOn(s, n, k) = {} THEN t[k]
    ELSE s[TheOne(LastOn(s, n, k))].val

Overlay(s, n, t) == [k \in Keys |-> Holds(s, n, t, k)]

\* The changes that w's batch b asks for.
Changes(b, w) == [j \in 1..Len(b) |-> [key |-> b[j].key, val |-> Value(b[j], w)]]

Effect(b, w, t) == Overlay(Changes(b, w), Len(b), t)
=============================================================================
