------------------------------ MODULE RepoStore ------------------------------
(* What a repository promises the clients that write to it: a batch takes   *)
(* effect as a whole, on the content of the moment, or not at all.          *)
EXTENDS RepoTree

VARIABLES
    content,    \* what the repository holds
    job,        \* idle, open, done or failed
    asked       \* the batch of a writer

vars == <<content, job, asked>>

Init ==
    /\ content = EmptyTree
    /\ job = [j \in Jobs |-> "idle"]
    /\ asked = [w \in Writers |-> <<>>]

Submit(w) ==
    /\ job[w] = "idle"
    /\ job' = [job EXCEPT ![w] = "open"]
    /\ \E b \in Batches : asked' = [asked EXCEPT ![w] = b]
    /\ UNCHANGED content

Apply(w) ==
    /\ job[w] = "open"
    /\ job' = [job EXCEPT ![w] = "done"]
    /\ content' = Effect(asked[w], w, content)
    /\ UNCHANGED asked

SubmitImport(i) ==
    /\ job[i] = "idle"
    /\ job' = [job EXCEPT ![i] = "open"]
    /\ UNCHANGED <<content, asked>>

\* An import replaces the content by what it brought.
ApplyImport(i) ==
    /\ job[i] = "open"
    /\ job' = [job EXCEPT ![i] = "done"]
    /\ content' \in [Keys -> {i, Absent}]
    /\ UNCHANGED asked

\* A restart may end several calls at once.
Fail ==
    /\ job' \in [Jobs -> {"idle", "open", "done", "failed"}]
    /\ \A j \in Jobs : job'[j] # job[j] => job[j] \in {"idle", "open"} /\ job'[j] = "failed"
    /\ UNCHANGED <<content, asked>>

Next ==
    \/ \E w \in Writers : Submit(w) \/ Apply(w)
    \/ \E i \in Importers : SubmitImport(i) \/ ApplyImport(i)
    \/ Fail

Spec == Init /\ [][Next]_vars
=============================================================================
