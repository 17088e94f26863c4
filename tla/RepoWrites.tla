----------------------------- MODULE RepoWrites -----------------------------
(***************************************************************************)
(* Writes to one account's repository: applyWrites (server/repo.go) behind *)
(* createRecord, putRecord, deleteRecord and applyWrites, importRepo       *)
(* (server/handle_import_repo.go), and getRecordProof, which shares the    *)
(* cached tree with them.                                                  *)
(*                                                                         *)
(* A write is built on the root that the session middleware loaded with    *)
(* the account, under the lock of the account's cached repository; the     *)
(* lock is released before the signature is asked for.  What follows       *)
(* (commit block, record rows, event, root) are separate statements: no    *)
(* transaction and no lock covers them, and none rereads the root.         *)
(*                                                                         *)
(* A commit is content-addressed, so it is its own name: a record of its   *)
(* revision, its tree and whose key signed it.  A commit is in "blocks"    *)
(* when its block and the root of its tree are.                            *)
(***************************************************************************)
EXTENDS RepoTree, FiniteSets

CONSTANTS
    Readers,    \* calls of getRecordProof
    MaxOpen,    \* how many writes and imports clients have open at a time
    Faults,     \* what may fail: "ipfs", "db", "event", "crash"
    None        \* no commit, no job

ASSUME MaxOpenAssumption == MaxOpen \in Nat
ASSUME NoneAssumption == None \notin Jobs /\ None \notin Readers

Commits == [rev : Nat, tree : Trees, by : {"user", "pds"}]
ASSUME NoCommitAssumption == None \notin Commits

VARIABLES
    root,       \* the root (and rev) column of the account's repos row
    records,    \* the rows of the records table
    blocks,     \* the commits stored in IPFS
    events,     \* the commit events added to the firehose
    lastRev,    \* the last revision stamped: revisions follow the clock
    lock,       \* who holds the mutex of the cached repository
    cacheRoot,  \* the commit the cached tree is filed under
    cacheTree,  \* the cached tree
    pc,         \* where a write or an import is
    base,       \* the root a write was given by the middleware
    batch,      \* the operations of a write
    step,       \* the index of the loop a write is in
    entries,    \* the paths a write changes and their new content
    draft,      \* the commit a write or an import is making, or reports
    reading     \* the root a proof is asked of

cacheVars == <<lock, cacheRoot, cacheTree>>
jobVars == <<pc, base, batch, step, entries, draft>>
storeVars == <<root, records, blocks, events>>
vars == <<storeVars, lastRev, cacheVars, jobVars, reading>>

Genesis == [rev |-> 0, tree |-> EmptyTree, by |-> "pds"]

Init ==
    /\ root = Genesis
    /\ records = EmptyTree
    /\ blocks = {Genesis}
    /\ events = <<>>
    /\ lastRev = 0
    /\ lock = None
    /\ cacheRoot = None
    /\ cacheTree = EmptyTree
    /\ pc = [j \in Jobs |-> "idle"]
    /\ base = [w \in Writers |-> Genesis]
    /\ batch = [w \in Writers |-> <<>>]
    /\ step = [w \in Writers |-> 1]
    /\ entries = [w \in Writers |-> <<>>]
    /\ draft = [j \in Jobs |-> None]
    /\ reading = [r \in Readers |-> None]

Ended == {"idle", "acked", "failed"}
Room == Cardinality({j \in Jobs : pc[j] \notin Ended}) < MaxOpen

MoveTo(j, place) == pc' = [pc EXCEPT ![j] = place]

\* withRepo gives the lock back; the tree is filed under c.
Release(c) == lock' = None /\ cacheRoot' = c

-----------------------------------------------------------------------------
(* Phase 1: the tree is changed and the commit built, under the lock.      *)

\* The middleware reads the account's row; the handler makes the batch.
Begin(w) ==
    /\ pc[w] = "idle"
    /\ Room
    /\ base' = [base EXCEPT ![w] = root]
    /\ \E b \in Batches : batch' = [batch EXCEPT ![w] = b]
    /\ MoveTo(w, "loaded")
    /\ UNCHANGED <<storeVars, lastRev, cacheVars, step, entries, draft, reading>>

\* The cached tree is used if it is filed under the write's root; otherwise
\* the tree is loaded from the commit's block.
OpenCached(w) ==
    /\ pc[w] = "loaded"
    /\ lock = None
    /\ lock' = w
    /\ \/ cacheRoot = base[w] /\ UNCHANGED <<cacheRoot, cacheTree>>
       \/ cacheRoot # base[w] /\ cacheRoot' = base[w] /\ cacheTree' = base[w].tree
    /\ MoveTo(w, "mutate")
    /\ UNCHANGED <<storeVars, lastRev, base, batch, step, entries, draft, reading>>

\* The commit cannot be loaded: the cache is left as it is.
OpenFails(w) ==
    /\ pc[w] = "loaded"
    /\ lock = None
    /\ cacheRoot # base[w]
    /\ "ipfs" \in Faults
    /\ MoveTo(w, "failed")
    /\ UNCHANGED <<storeVars, lastRev, cacheVars, base, batch, step, entries, draft, reading>>

\* Mutant: a create leaves a path alone that is already in the tree.
ApplySkipsExisting(w) ==
    /\ pc[w] = "mutate"
    /\ step[w] <= Len(batch[w])
    /\ LET op == batch[w][step[w]]
       IN  /\ op.kind # "invalid"
           /\ IF \/ op.kind = "delete" /\ cacheTree[op.key] = Absent
                 \/ op.kind = "create" /\ cacheTree[op.key] # Absent
              THEN UNCHANGED <<cacheTree, entries>>
              ELSE /\ cacheTree' = [cacheTree EXCEPT ![op.key] = Value(op, w)]
                   /\ entries' = [entries EXCEPT ![w] =
                                     Append(@, [key |-> op.key, val |-> Value(op, w)])]
    /\ step' = [step EXCEPT ![w] = @ + 1]
    /\ UNCHANGED <<storeVars, lastRev, lock, cacheRoot, pc, base, batch, draft, reading>>

\* Deleting what is not there is a result and nothing else.  A create of an
\* existing path is an update.
ApplyNext(w) ==
    /\ pc[w] = "mutate"
    /\ step[w] <= Len(batch[w])
    /\ LET op == batch[w][step[w]]
       IN  /\ op.kind # "invalid"
           /\ IF op.kind = "delete" /\ cacheTree[op.key] = Absent
              THEN UNCHANGED <<cacheTree, entries>>
              ELSE /\ cacheTree' = [cacheTree EXCEPT ![op.key] = Value(op, w)]
                   /\ entries' = [entries EXCEPT ![w] =
                                     Append(@, [key |-> op.key, val |-> Value(op, w)])]
    /\ step' = [step EXCEPT ![w] = @ + 1]
    /\ UNCHANGED <<storeVars, lastRev, lock, cacheRoot, pc, base, batch, draft, reading>>

\* Mutant: the half-changed tree stays filed under the old root.
BuildFailsKeepsCache(w) ==
    /\ pc[w] = "mutate"
    /\ \/ step[w] <= Len(batch[w]) /\ batch[w][step[w]].kind = "invalid"
       \/ Faults \cap {"ipfs", "db"} # {}
    /\ lock' = None
    /\ MoveTo(w, "failed")
    /\ UNCHANGED <<storeVars, lastRev, cacheRoot, cacheTree, base, batch, step,
                   entries, draft, reading>>

\* A refused operation, a block or a row that cannot be read or written: the
\* tree may be half changed, and is forgotten.
BuildFails(w) ==
    /\ pc[w] = "mutate"
    /\ \/ step[w] <= Len(batch[w]) /\ batch[w][step[w]].kind = "invalid"
       \/ Faults \cap {"ipfs", "db"} # {}
    /\ Release(None)
    /\ MoveTo(w, "failed")
    /\ UNCHANGED <<storeVars, lastRev, cacheTree, base, batch, step, entries, draft, reading>>

\* Mutant: the revision of the base is used again.
BuildSameRev(w) ==
    /\ pc[w] = "mutate"
    /\ step[w] > Len(batch[w])
    /\ Release(None)
    /\ IF entries[w] = <<>>
       THEN draft' = [draft EXCEPT ![w] = base[w]] /\ MoveTo(w, "acked")
       ELSE /\ draft' = [draft EXCEPT ![w] =
                            [rev |-> base[w].rev, tree |-> cacheTree, by |-> "user"]]
            /\ MoveTo(w, "sign")
    /\ UNCHANGED <<storeVars, lastRev, cacheTree, base, batch, step, entries, reading>>

\* The tree's new blocks are written and the commit is stamped.  A batch that
\* changed nothing is answered with the old commit.
BuildCommit(w) ==
    /\ pc[w] = "mutate"
    /\ step[w] > Len(batch[w])
    /\ lastRev' = lastRev + 1
    /\ Release(None)
    /\ IF entries[w] = <<>>
       THEN draft' = [draft EXCEPT ![w] = base[w]] /\ MoveTo(w, "acked")
       ELSE /\ draft' = [draft EXCEPT ![w] =
                            [rev |-> lastRev + 1, tree |-> cacheTree, by |-> "user"]]
            /\ MoveTo(w, "sign")
    /\ UNCHANGED <<storeVars, cacheTree, base, batch, step, entries, reading>>

-----------------------------------------------------------------------------
(* Phases 3 to 5: signature, commit block, rows, event, root.              *)

\* Mutant: what the hub returned is not looked at.
SignAnyway(w) ==
    /\ pc[w] = "sign"
    /\ pc' \in {[pc EXCEPT ![w] = "finalise"], [pc EXCEPT ![w] = "persist"]}
    /\ step' = [step EXCEPT ![w] = 1]
    /\ UNCHANGED <<storeVars, lastRev, cacheVars, base, batch, entries, draft, reading>>

\* The hub returns a signature that verifies, or the write fails: rejected,
\* timed out, nobody connected, no key registered, bad signature.
Sign(w) ==
    /\ pc[w] = "sign"
    /\ pc' \in {[pc EXCEPT ![w] = "finalise"], [pc EXCEPT ![w] = "failed"]}
    /\ step' = [step EXCEPT ![w] = 1]
    /\ UNCHANGED <<storeVars, lastRev, cacheVars, base, batch, entries, draft, reading>>

\* The tree's blocks are written again, then the commit block, and both are
\* looked up; the blocks of the event are collected.
Finalise(w) ==
    /\ pc[w] = "finalise"
    /\ blocks' = blocks \cup {draft[w]}
    /\ MoveTo(w, "persist")
    /\ UNCHANGED <<root, records, events, lastRev, cacheVars, base, batch, step, entries,
                   draft, reading>>

\* Any of these may fail, before or after the commit block was written.
FinaliseFails(w) ==
    /\ pc[w] = "finalise"
    /\ "ipfs" \in Faults
    /\ blocks' \in {blocks, blocks \cup {draft[w]}}
    /\ MoveTo(w, "failed")
    /\ UNCHANGED <<root, records, events, lastRev, cacheVars, base, batch, step, entries,
                   draft, reading>>

\* Mutant: only entries with a record are handled.
PersistNoDelete(w) ==
    /\ pc[w] = "persist"
    /\ step[w] <= Len(entries[w])
    /\ LET e == entries[w][step[w]]
       IN  records' = IF e.val = Absent THEN records
                      ELSE [records EXCEPT ![e.key] = e.val]
    /\ step' = [step EXCEPT ![w] = @ + 1]
    /\ UNCHANGED <<root, blocks, events, lastRev, cacheVars, pc, base, batch, entries,
                   draft, reading>>

\* One upsert or delete after the other, each a statement of its own.
PersistRecord(w) ==
    /\ pc[w] = "persist"
    /\ step[w] <= Len(entries[w])
    /\ LET e == entries[w][step[w]]
       IN  records' = [records EXCEPT ![e.key] = e.val]
    /\ step' = [step EXCEPT ![w] = @ + 1]
    /\ UNCHANGED <<root, blocks, events, lastRev, cacheVars, pc, base, batch, entries,
                   draft, reading>>

\* A row, or the counts of the blobs it refers to, cannot be written.
PersistFails(w) ==
    /\ pc[w] = "persist"
    /\ "db" \in Faults
    /\ MoveTo(w, "failed")
    /\ UNCHANGED <<storeVars, lastRev, cacheVars, base, batch, step, entries, draft, reading>>

\* Mutant: the event says it follows the commit it is about.
EmitSinceItself(w) ==
    /\ pc[w] = "persist"
    /\ step[w] > Len(entries[w])
    /\ events' = Append(events, [commit |-> draft[w], since |-> draft[w].rev,
                                 ops |-> entries[w]])
    /\ MoveTo(w, "update")
    /\ UNCHANGED <<root, records, blocks, lastRev, cacheVars, base, batch, step, entries,
                   draft, reading>>

\* An event that cannot be added is logged, and the write goes on.
Emit(w) ==
    /\ pc[w] = "persist"
    /\ step[w] > Len(entries[w])
    /\ \/ events' = Append(events, [commit |-> draft[w], since |-> base[w].rev,
                                    ops |-> entries[w]])
       \/ "event" \in Faults /\ UNCHANGED events
    /\ MoveTo(w, "update")
    /\ UNCHANGED <<root, records, blocks, lastRev, cacheVars, base, batch, step, entries,
                   draft, reading>>

\* Mutant: the root of the cached repository is stored.
UpdateFromCache(j) ==
    /\ pc[j] = "update"
    /\ root' = cacheRoot
    /\ MoveTo(j, "acked")
    /\ UNCHANGED <<records, blocks, events, lastRev, cacheVars, base, batch, step, entries,
                   draft, reading>>

\* Whatever the root is by now.
UpdateRoot(j) ==
    /\ pc[j] = "update"
    /\ root' = draft[j]
    /\ MoveTo(j, "acked")
    /\ UNCHANGED <<records, blocks, events, lastRev, cacheVars, base, batch, step, entries,
                   draft, reading>>

UpdateFails(j) ==
    /\ pc[j] = "update"
    /\ "db" \in Faults
    /\ MoveTo(j, "failed")
    /\ UNCHANGED <<storeVars, lastRev, cacheVars, base, batch, step, entries, draft, reading>>

-----------------------------------------------------------------------------
(* importRepo: the client brings a whole repository.                       *)

\* All blocks of the CAR are stored, and its root commit is opened.
ImportBlocks(i) ==
    /\ pc[i] = "idle"
    /\ Room
    /\ \E t \in [Keys -> {i, Absent}] :
          LET brought == [rev |-> 0, tree |-> t, by |-> "user"]
          IN  draft' = [draft EXCEPT ![i] = brought] /\ blocks' = blocks \cup {brought}
    /\ MoveTo(i, "import")
    /\ UNCHANGED <<root, records, events, lastRev, cacheVars, base, batch, step, entries,
                   reading>>

\* Its records are saved in one transaction; rows of other records stay.  The
\* outcome of the transaction's commit is not looked at.
ImportRecords(i) ==
    /\ pc[i] = "import"
    /\ \/ records' = [k \in Keys |-> IF draft[i].tree[k] = Absent
                                     THEN records[k] ELSE draft[i].tree[k]]
       \/ "db" \in Faults /\ UNCHANGED records
    /\ MoveTo(i, "commit")
    /\ UNCHANGED <<root, blocks, events, lastRev, cacheVars, base, batch, step, entries,
                   draft, reading>>

\* Mutant: a commit block that could not be written is not noticed.
ImportCommitUnchecked(i) ==
    /\ pc[i] = "commit"
    /\ lastRev' = lastRev + 1
    /\ LET c == [rev |-> lastRev + 1, tree |-> draft[i].tree, by |-> "pds"]
       IN  /\ draft' = [draft EXCEPT ![i] = c]
           /\ blocks' \in {blocks, blocks \cup {c}}
    /\ MoveTo(i, "update")
    /\ UNCHANGED <<root, records, events, cacheVars, base, batch, step, entries, reading>>

\* A new commit of the same tree is signed with the PDS's rotation key.
ImportCommit(i) ==
    /\ pc[i] = "commit"
    /\ lastRev' = lastRev + 1
    /\ LET c == [rev |-> lastRev + 1, tree |-> draft[i].tree, by |-> "pds"]
       IN  draft' = [draft EXCEPT ![i] = c] /\ blocks' = blocks \cup {c}
    /\ MoveTo(i, "update")
    /\ UNCHANGED <<root, records, events, cacheVars, base, batch, step, entries, reading>>

\* A block or a row cannot be read or written.  Whether the new commit's block
\* was stored by then makes no difference: nothing names that commit.
ImportFails(i) ==
    /\ pc[i] \in {"import", "commit"}
    /\ Faults \cap {"ipfs", "db"} # {}
    /\ MoveTo(i, "failed")
    /\ UNCHANGED <<storeVars, lastRev, cacheVars, base, batch, step, entries, draft, reading>>

-----------------------------------------------------------------------------
(* getRecordProof, and a restart of the server.                            *)

ReadRoot(r) ==
    /\ reading[r] = None
    /\ reading' = [reading EXCEPT ![r] = root]
    /\ UNCHANGED <<storeVars, lastRev, cacheVars, jobVars>>

\* A proof leaves the tree it used in the cache, filed under its root; when
\* the record is not there, or a block cannot be read, the cache is emptied.
ReadProof(r) ==
    /\ reading[r] # None
    /\ lock = None
    /\ \/ LET tree == IF cacheRoot = reading[r] THEN cacheTree ELSE reading[r].tree
          IN  /\ \E k \in Keys : tree[k] # Absent
              /\ cacheRoot' = reading[r]
              /\ cacheTree' = tree
       \/ cacheRoot' = None /\ UNCHANGED cacheTree
    /\ reading' = [reading EXCEPT ![r] = None]
    /\ UNCHANGED <<storeVars, lastRev, lock, jobVars>>

Crash ==
    /\ "crash" \in Faults
    /\ Release(None)
    /\ pc' = [j \in Jobs |-> IF pc[j] \in Ended THEN pc[j] ELSE "failed"]
    /\ reading' = [r \in Readers |-> None]
    /\ UNCHANGED <<storeVars, lastRev, cacheTree, base, batch, step, entries, draft>>

-----------------------------------------------------------------------------
Phase1(w) ==
    \/ Begin(w) \/ OpenCached(w) \/ OpenFails(w)
    \/ ApplyNext(w) \/ BuildFails(w) \/ BuildCommit(w)

Phase5(w) ==
    \/ Sign(w) \/ Finalise(w) \/ FinaliseFails(w)
    \/ PersistRecord(w) \/ PersistFails(w) \/ Emit(w)

Import(i) == ImportBlocks(i) \/ ImportRecords(i) \/ ImportCommit(i) \/ ImportFails(i)

Next ==
    \/ \E w \in Writers : Phase1(w) \/ Phase5(w)
    \/ \E i \in Importers : Import(i)
    \/ \E j \in Jobs : UpdateRoot(j) \/ UpdateFails(j)
    \/ \E r \in Readers : ReadRoot(r) \/ ReadProof(r)
    \/ Crash

Spec == Init /\ [][Next]_vars

-----------------------------------------------------------------------------
(* Safety.                                                                 *)

PCs == {"idle", "loaded", "mutate", "sign", "finalise", "persist", "update",
        "import", "commit", "acked", "failed"}
Entries == [key : Keys, val : Jobs \cup {Absent}]
Events == [commit : Commits, since : Nat, ops : Seq(Entries)]

\* Every variable stays in its type: the account's root is always a commit.
TypeOK ==
    /\ root \in Commits
    /\ records \in Trees
    /\ blocks \subseteq Commits
    /\ events \in Seq(Events)
    /\ lastRev \in Nat
    /\ lock \in Writers \cup {None}
    /\ cacheRoot \in Commits \cup {None}
    /\ cacheTree \in Trees
    /\ pc \in [Jobs -> PCs]
    /\ base \in [Writers -> Commits]
    /\ batch \in [Writers -> Seq(Ops)]
    /\ step \in [Writers -> Nat \ {0}]
    /\ entries \in [Writers -> Seq(Entries)]
    /\ draft \in [Jobs -> Commits \cup {None}]
    /\ reading \in [Readers -> Commits \cup {None}]

\* The commit a write asks its user to sign holds the content of the root the
\* write was built on with the whole batch applied, whatever other writes,
\* failed writes and proofs have done to the shared cached tree (withRepo).
BuildsOnItsBase ==
    \A w \in Writers :
        pc[w] \in {"sign", "finalise", "persist", "update", "acked"} =>
            draft[w].tree = Effect(batch[w], w, base[w].tree)

\* The account's root and every commit that was announced can be fetched
\* (finaliseCommit before AddEvent and UpdateRepo).
NamedIsStored ==
    /\ root \in blocks
    /\ \A i \in 1..Len(events) : events[i].commit \in blocks

\* The records table never serves what a user has not signed: a row was written
\* by a write whose commit carries the user's signature and is stored.
OnlySignedRecords ==
    \A k \in Keys : records[k] \in Writers =>
        draft[records[k]] \in blocks /\ draft[records[k]].by = "user"

\* With one write at a time revisions advance with the root, also across
\* failures, restarts and imports.
RevAdvances == [][root' # root => root'.rev > root.rev]_vars

\* With one write at a time the records table and the signed tree differ only
\* where a write that has failed, or is in the middle of its phase 5, changes a
\* path; an import keeps the rows of records it does not bring.
RowsFollowRepo ==
    \A k \in Keys : records[k] # root.tree[k] =>
        \/ \E w \in Writers :
              /\ pc[w] \in {"persist", "update", "failed"}
              /\ \E j \in 1..Len(batch[w]) : batch[w][j].key = k
        \/ \E i \in Importers : pc[i] # "idle"

\* With one write at a time an event that is announced follows the root of the
\* moment: it names its revision, and its operations lead from the root's
\* content to that of the commit, also after writes and imports that failed.
EventFollowsRoot ==
    [][events' # events =>
          LET e == events'[Len(events')]
          IN  /\ e.since = root.rev
              /\ e.commit.tree = Overlay(e.ops, Len(e.ops), root.tree)]_vars

-----------------------------------------------------------------------------
(* What comments say, and the code does not do.                            *)

\* repo.go:349-351: clients see a normal response, the signing round-trip is
\* invisible to them: a write that was acknowledged is in the repository until
\* another write touches the same path.
AckedWriteSurvives ==
    \A w \in Writers, k \in Keys :
        (/\ pc[w] = "acked"
         /\ \E j \in 1..Len(batch[w]) : batch[w][j].key = k
         /\ \A v \in Writers \ {w} : \A j \in 1..Len(batch[v]) : batch[v][j].key # k)
        => root.tree[k] = Effect(batch[w], w, base[w].tree)[k]
=============================================================================
