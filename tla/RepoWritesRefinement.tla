------------------------ MODULE RepoWritesRefinement ------------------------
(* One write at a time, applyWrites and importRepo implement RepoStore.     *)
EXTENDS RepoWrites

JobState(j) ==
    CASE pc[j] = "idle" -> "idle"
      [] pc[j] = "acked" -> "done"
      [] pc[j] = "failed" -> "failed"
      [] OTHER -> "open"

Store == INSTANCE RepoStore WITH
    content <- root.tree,
    job <- [j \in Jobs |-> JobState(j)],
    asked <- batch

\* A client that waits for each answer before it writes again sees its batches
\* take effect as a whole and in order, whatever fails and whenever the server
\* restarts: a write that failed has changed nothing in the repository.
ImplementsStore == Store!Spec
=============================================================================
