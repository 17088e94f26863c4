---------------------------- MODULE MCRepoWrites ----------------------------
(* Instances of RepoWrites for TLC: the repository of one account.          *)
EXTENDS RepoWritesRefinement, TLC

CONSTANTS k1, k2, w1, w2, i1, p1

Op(kind, key) == [kind |-> kind, key |-> key]

\* A single write, a delete with a write beside it, a batch refused half-way,
\* and a path written and deleted in the same batch.
FourBatches ==
    {<<Op("create", k1)>>,
     <<Op("delete", k1), Op("create", k2)>>,
     <<Op("update", k2), Op("invalid", k1)>>,
     <<Op("create", k1), Op("delete", k1)>>}

WriteSymmetry == Permutations(Writers)
=============================================================================
