------------------------- MODULE RepoWrites_proofs -------------------------
(***************************************************************************)
(* Theorems about RepoWrites, for every set of paths, writes, imports,     *)
(* proofs and batches, every bound on the open calls and every choice of   *)
(* what may fail.                                                          *)
(***************************************************************************)
EXTENDS RepoWrites, TLAPS

-----------------------------------------------------------------------------
(* Types.                                                                  *)

\* A write or an import that has a commit in the making knows which.
DraftKnown ==
    \A j \in Jobs :
        pc[j] \in {"sign", "finalise", "persist", "update", "import", "commit"} =>
            draft[j] \in Commits

\* TypeOK alone is not inductive: UpdateRoot stores draft[j].
TypeInv == TypeOK /\ DraftKnown

\* The commit of a new account is a commit.
LEMMA GenesisType == Genesis \in Commits
BY DEF Genesis, Commits, Trees, EmptyTree

\* A new account, an empty cache and idle calls are typed.
LEMMA TypeInit == Init => TypeInv
BY GenesisType DEF Init, TypeInv, TypeOK, DraftKnown, PCs, Trees, EmptyTree

\* A commit made from a typed tree is typed.
LEMMA CommitType ==
    ASSUME NEW n \in Nat, NEW t \in Trees, NEW b \in {"user", "pds"}
    PROVE  [rev |-> n + 1, tree |-> t, by |-> b] \in Commits
BY DEF Commits

\* The operation a write is at is one of its batch.
LEMMA OpType ==
    ASSUME TypeOK, NEW w \in Writers, step[w] <= Len(batch[w])
    PROVE  /\ batch[w][step[w]] \in Ops
           /\ batch[w][step[w]].key \in Keys
           /\ Value(batch[w][step[w]], w) \in Jobs \cup {Absent}
<1>1. batch[w] \in Seq(Ops) /\ step[w] \in 1..Len(batch[w])
    BY DEF TypeOK
<1>2. batch[w][step[w]] \in Ops
    BY <1>1
<1>. QED BY <1>2 DEF Ops, Value, Jobs

\* The entry a write is at changes a path to a record or to nothing.
LEMMA EntryType ==
    ASSUME TypeOK, NEW w \in Writers, step[w] <= Len(entries[w])
    PROVE  /\ entries[w][step[w]].key \in Keys
           /\ entries[w][step[w]].val \in Jobs \cup {Absent}
<1>1. entries[w] \in Seq(Entries) /\ step[w] \in 1..Len(entries[w])
    BY DEF TypeOK
<1>2. entries[w][step[w]] \in Entries
    BY <1>1
<1>. QED BY <1>2 DEF Entries

\* Phase 1 of applyWrites keeps the types.
LEMMA Phase1Type ==
    ASSUME TypeInv, NEW w \in Writers, Phase1(w)
    PROVE  TypeInv'
<1>. USE DEF TypeInv, TypeOK, DraftKnown, PCs, MoveTo, Release, storeVars, cacheVars
<1>0. w \in Jobs
    BY DEF Jobs
<1>1. CASE Begin(w)
    BY <1>0, <1>1, BatchesAssumption DEF Begin
<1>2. CASE OpenCached(w)
    <2>1. base[w].tree \in Trees
        BY DEF Commits
    <2>. QED BY <1>0, <1>2, <2>1 DEF OpenCached
<1>3. CASE OpenFails(w)
    BY <1>0, <1>3 DEF OpenFails
<1>4. CASE ApplyNext(w)
    <2>. DEFINE op == batch[w][step[w]]
    <2>1. op.key \in Keys /\ Value(op, w) \in Jobs \cup {Absent}
        BY <1>4, OpType DEF ApplyNext
    <2>2. [cacheTree EXCEPT ![op.key] = Value(op, w)] \in Trees
        BY <2>1 DEF Trees
    <2>3. Append(entries[w], [key |-> op.key, val |-> Value(op, w)]) \in Seq(Entries)
        <3>1. [key |-> op.key, val |-> Value(op, w)] \in Entries
            BY <2>1 DEF Entries
        <3>2. entries[w] \in Seq(Entries)
            OBVIOUS
        <3>. QED BY <3>1, <3>2
    <2>4. \/ UNCHANGED <<cacheTree, entries>>
          \/ /\ cacheTree' = [cacheTree EXCEPT ![op.key] = Value(op, w)]
             /\ entries' = [entries EXCEPT ![w] =
                               Append(@, [key |-> op.key, val |-> Value(op, w)])]
        BY <1>4 DEF ApplyNext
    <2>5. cacheTree' \in Trees /\ entries' \in [Writers -> Seq(Entries)]
        BY <2>2, <2>3, <2>4
    <2>6. step' \in [Writers -> Nat \ {0}]
        BY <1>4 DEF ApplyNext
    <2>7. UNCHANGED <<storeVars, lastRev, lock, cacheRoot, pc, base, batch, draft, reading>>
        BY <1>4 DEF ApplyNext
    <2>. QED BY <2>5, <2>6, <2>7
<1>5. CASE BuildFails(w)
    BY <1>0, <1>5 DEF BuildFails
<1>6. CASE BuildCommit(w)
    <2>1. [rev |-> lastRev + 1, tree |-> cacheTree, by |-> "user"] \in Commits
        BY CommitType
    <2>2. base[w] \in Commits
        OBVIOUS
    <2>3. draft' \in [Jobs -> Commits \cup {None}] /\ draft'[w] \in Commits
        BY <1>0, <1>6, <2>1, <2>2 DEF BuildCommit
    <2>4. \A j \in Jobs \ {w} : draft'[j] = draft[j] /\ pc'[j] = pc[j]
        BY <1>0, <1>6 DEF BuildCommit
    <2>5. pc' \in [Jobs -> PCs]
        BY <1>0, <1>6 DEF BuildCommit
    <2>6. TypeOK'
        BY <1>6, <2>3, <2>5 DEF BuildCommit
    <2>. QED BY <2>3, <2>4, <2>6
<1>. QED BY <1>1, <1>2, <1>3, <1>4, <1>5, <1>6 DEF Phase1

\* Signing and finaliseWriteFromState keep the types.
LEMMA Phase5Type ==
    ASSUME TypeInv, NEW w \in Writers, Phase5(w)
    PROVE  TypeInv'
<1>. USE DEF TypeInv, TypeOK, DraftKnown, PCs, MoveTo, storeVars, cacheVars
<1>0. w \in Jobs
    BY DEF Jobs
<1>1. CASE Sign(w)
    <2>1. \/ pc' = [pc EXCEPT ![w] = "finalise"]
          \/ pc' = [pc EXCEPT ![w] = "failed"]
        BY <1>1 DEF Sign
    <2>2. pc[w] = "sign" /\ draft[w] \in Commits /\ draft' = draft
        BY <1>0, <1>1 DEF Sign
    <2>3. pc' \in [Jobs -> PCs] /\ DraftKnown'
        BY <1>0, <2>1, <2>2
    <2>4. step' \in [Writers -> Nat \ {0}]
        BY <1>1 DEF Sign
    <2>. QED BY <1>1, <2>3, <2>4 DEF Sign
<1>2. CASE Finalise(w)
    BY <1>0, <1>2 DEF Finalise
<1>3. CASE FinaliseFails(w)
    BY <1>0, <1>3 DEF FinaliseFails
<1>4. CASE PersistRecord(w)
    <2>1. records' \in Trees
        BY <1>4, EntryType DEF PersistRecord, Trees
    <2>. QED BY <1>4, <2>1 DEF PersistRecord
<1>5. CASE PersistFails(w)
    BY <1>0, <1>5 DEF PersistFails
<1>6. CASE Emit(w)
    <2>. DEFINE e == [commit |-> draft[w], since |-> base[w].rev, ops |-> entries[w]]
    <2>1. draft[w] \in Commits
        BY <1>0, <1>6 DEF Emit
    <2>2. base[w].rev \in Nat /\ entries[w] \in Seq(Entries)
        BY DEF Commits
    <2>3. e \in Events
        BY <2>1, <2>2 DEF Events
    <2>4. events' \in Seq(Events)
        <3>1. events' = Append(events, e) \/ events' = events
            BY <1>6 DEF Emit
        <3>2. events \in Seq(Events)
            OBVIOUS
        <3>3. Append(events, e) \in Seq(Events)
            BY <2>3, <3>2
        <3>. QED BY <3>1, <3>2, <3>3
    <2>. QED BY <1>0, <1>6, <2>4 DEF Emit
<1>. QED BY <1>1, <1>2, <1>3, <1>4, <1>5, <1>6 DEF Phase5

\* importRepo keeps the types.
LEMMA ImportType ==
    ASSUME TypeInv, NEW i \in Importers, Import(i)
    PROVE  TypeInv'
<1>. USE DEF TypeInv, TypeOK, DraftKnown, PCs, MoveTo, storeVars, cacheVars
<1>0. i \in Jobs
    BY DEF Jobs
<1>1. CASE ImportBlocks(i)
    <2>1. PICK t \in [Keys -> {i, Absent}] :
              /\ draft' = [draft EXCEPT ![i] = [rev |-> 0, tree |-> t, by |-> "user"]]
              /\ blocks' = blocks \cup {[rev |-> 0, tree |-> t, by |-> "user"]}
        BY <1>1 DEF ImportBlocks
    <2>2. [rev |-> 0, tree |-> t, by |-> "user"] \in Commits
        BY <1>0 DEF Commits, Trees
    <2>. QED BY <1>0, <1>1, <2>1, <2>2 DEF ImportBlocks
<1>2. CASE ImportRecords(i)
    <2>1. draft[i].tree \in Trees
        BY <1>0, <1>2 DEF ImportRecords, Commits
    <2>2. records' \in Trees
        BY <1>2, <2>1 DEF ImportRecords, Trees
    <2>. QED BY <1>0, <1>2, <2>2 DEF ImportRecords
<1>3. CASE ImportCommit(i)
    <2>. DEFINE c == [rev |-> lastRev + 1, tree |-> draft[i].tree, by |-> "pds"]
    <2>1. draft[i].tree \in Trees
        BY <1>0, <1>3 DEF ImportCommit, Commits
    <2>2. c \in Commits
        BY <2>1, CommitType
    <2>. QED BY <1>0, <1>3, <2>2 DEF ImportCommit
<1>4. CASE ImportFails(i)
    BY <1>0, <1>4 DEF ImportFails
<1>. QED BY <1>1, <1>2, <1>3, <1>4 DEF Import

\* Root updates, proofs and restarts keep the types.
LEMMA OtherType ==
    ASSUME TypeInv,
           \/ \E j \in Jobs : UpdateRoot(j) \/ UpdateFails(j)
           \/ \E r \in Readers : ReadRoot(r) \/ ReadProof(r)
           \/ Crash
           \/ UNCHANGED vars
    PROVE  TypeInv'
<1>. USE DEF TypeInv, TypeOK, DraftKnown, PCs, MoveTo, Release, storeVars, cacheVars, jobVars
<1>1. ASSUME NEW j \in Jobs, UpdateRoot(j) \/ UpdateFails(j) PROVE TypeInv'
    BY <1>1 DEF UpdateRoot, UpdateFails
<1>2. ASSUME NEW r \in Readers, ReadRoot(r) PROVE TypeInv'
    BY <1>2 DEF ReadRoot
<1>3. ASSUME NEW r \in Readers, ReadProof(r) PROVE TypeInv'
    <2>1. reading[r] \in Commits /\ reading[r].tree \in Trees
        BY <1>3 DEF ReadProof, Commits
    <2>. QED BY <1>3, <2>1 DEF ReadProof
<1>4. CASE Crash
    BY <1>4 DEF Crash, Ended
<1>5. CASE UNCHANGED vars
    BY <1>5 DEF vars
<1>. QED BY <1>1, <1>2, <1>3, <1>4, <1>5

\* The typing invariant is inductive.
LEMMA TypeStep == TypeInv /\ [Next]_vars => TypeInv'
BY Phase1Type, Phase5Type, ImportType, OtherType DEF Next

\* Every reachable state is typed: in particular the root column always holds
\* a commit, never the empty CID of an emptied cache.
THEOREM TypeCorrect == Spec => []TypeOK
<1>1. TypeInv => TypeOK
    BY DEF TypeInv
<1>. QED BY TypeInit, TypeStep, <1>1, PTL DEF Spec

-----------------------------------------------------------------------------
(* What is named is stored.                                                *)

\* NamedIsStored is not inductive: Emit and UpdateRoot name a commit that
\* Finalise and ImportCommit stored.
StoredInv ==
    /\ NamedIsStored
    /\ \A j \in Jobs : pc[j] \in {"persist", "update"} => draft[j] \in blocks

\* Steps that name nothing, forget no block, and bring nobody to "persist" or
\* "update" with another commit than a stored one.
LEMMA NamesNothing ==
    ASSUME StoredInv, UNCHANGED <<root, events>>, blocks \subseteq blocks',
           \A j \in Jobs : pc'[j] \in {"persist", "update"} =>
               \/ draft'[j] \in blocks'
               \/ pc[j] \in {"persist", "update"} /\ draft'[j] = draft[j]
    PROVE  StoredInv'
BY DEF StoredInv, NamedIsStored

\* A write names its commit, in the event, only after finaliseCommit stored it.
LEMMA WriteStored ==
    ASSUME TypeInv, StoredInv, NEW w \in Writers, Phase1(w) \/ Phase5(w)
    PROVE  StoredInv'
<1>. USE DEF MoveTo, storeVars, TypeInv, TypeOK
<1>0. w \in Jobs
    BY DEF Jobs
<1>1. CASE Phase1(w)
    <2>1. UNCHANGED <<root, events, blocks>>
        BY <1>1 DEF Phase1, Begin, OpenCached, OpenFails, ApplyNext, BuildFails, BuildCommit
    <2>2. pc'[w] \notin {"persist", "update"}
        BY <1>0, <1>1 DEF Phase1, Begin, OpenCached, OpenFails, ApplyNext, BuildFails,
                          BuildCommit
    <2>3. \A j \in Jobs \ {w} : pc'[j] = pc[j] /\ draft'[j] = draft[j]
        BY <1>0, <1>1 DEF Phase1, Begin, OpenCached, OpenFails, ApplyNext, BuildFails,
                          BuildCommit
    <2>. QED BY <2>1, <2>2, <2>3, NamesNothing
<1>2. CASE Sign(w)
    <2>1. \A j \in Jobs : pc'[j] \in {"persist", "update"} => pc'[j] = pc[j]
        BY <1>0, <1>2 DEF Sign
    <2>. QED BY <1>2, <2>1, NamesNothing DEF Sign
<1>3. CASE Finalise(w) \/ FinaliseFails(w)
    BY <1>0, <1>3, NamesNothing DEF Finalise, FinaliseFails
<1>4. CASE PersistRecord(w) \/ PersistFails(w)
    BY <1>0, <1>4, NamesNothing DEF PersistRecord, PersistFails
<1>5. CASE Emit(w)
    <2>. DEFINE e == [commit |-> draft[w], since |-> base[w].rev, ops |-> entries[w]]
    <2>1. draft[w] \in blocks /\ UNCHANGED <<root, blocks, draft>>
        BY <1>0, <1>5 DEF Emit, StoredInv
    <2>2. \A i \in 1..Len(events') : events'[i].commit \in blocks'
        <3>1. events' = Append(events, e) \/ events' = events
            BY <1>5 DEF Emit
        <3>2. events \in Seq(Events) /\ \A i \in 1..Len(events) : events[i].commit \in blocks
            BY DEF StoredInv, NamedIsStored
        <3>3. CASE events' = Append(events, e)
            <4>1. Len(events') = Len(events) + 1 /\ events'[Len(events) + 1] = e
                BY <3>2, <3>3
            <4>2. \A i \in 1..Len(events) : events'[i] = events[i]
                BY <3>2, <3>3
            <4>3. e.commit \in blocks
                BY <2>1
            <4>4. Len(events) \in Nat
                BY <3>2
            <4>5. SUFFICES ASSUME NEW i \in 1..Len(events') PROVE events'[i].commit \in blocks'
                OBVIOUS
            <4>6. i = Len(events) + 1 \/ i \in 1..Len(events)
                BY <4>1, <4>4
            <4>. QED BY <2>1, <3>2, <4>1, <4>2, <4>3, <4>6
        <3>. QED BY <2>1, <3>1, <3>2, <3>3
    <2>3. \A j \in Jobs : pc'[j] \in {"persist", "update"} => draft'[j] \in blocks'
        BY <1>0, <1>5, <2>1 DEF Emit, StoredInv
    <2>. QED BY <2>1, <2>2, <2>3 DEF StoredInv, NamedIsStored
<1>. QED BY <1>1, <1>2, <1>3, <1>4, <1>5 DEF Phase5

\* Imports and root updates name only commits that are stored.
LEMMA OtherStored ==
    ASSUME TypeInv, StoredInv,
           \/ \E i \in Importers : Import(i)
           \/ \E j \in Jobs : UpdateRoot(j) \/ UpdateFails(j)
           \/ \E r \in Readers : ReadRoot(r) \/ ReadProof(r)
           \/ Crash
           \/ UNCHANGED vars
    PROVE  StoredInv'
<1>. USE DEF MoveTo, storeVars, jobVars, TypeInv, TypeOK
<1>1. ASSUME NEW i \in Importers, Import(i) PROVE StoredInv'
    <2>0. i \in Jobs
        BY DEF Jobs
    <2>1. CASE ImportBlocks(i)
        BY <2>0, <2>1, NamesNothing DEF ImportBlocks
    <2>2. CASE ImportRecords(i)
        BY <2>0, <2>2, NamesNothing DEF ImportRecords
    <2>3. CASE ImportCommit(i)
        <3>1. draft'[i] \in blocks'
            BY <2>0, <2>3 DEF ImportCommit
        <3>2. \A j \in Jobs \ {i} : draft'[j] = draft[j] /\ pc'[j] = pc[j]
            BY <2>0, <2>3 DEF ImportCommit
        <3>3. UNCHANGED <<root, events>> /\ blocks \subseteq blocks'
            BY <2>3 DEF ImportCommit
        <3>. QED BY <3>1, <3>2, <3>3, NamesNothing
    <2>4. CASE ImportFails(i)
        BY <2>0, <2>4, NamesNothing DEF ImportFails
    <2>. QED BY <1>1, <2>1, <2>2, <2>3, <2>4 DEF Import
<1>2. ASSUME NEW j \in Jobs, UpdateRoot(j) PROVE StoredInv'
    BY <1>2 DEF UpdateRoot, StoredInv, NamedIsStored
<1>3. ASSUME NEW j \in Jobs, UpdateFails(j) PROVE StoredInv'
    BY <1>3, NamesNothing DEF UpdateFails
<1>4. ASSUME NEW r \in Readers, ReadRoot(r) \/ ReadProof(r) PROVE StoredInv'
    BY <1>4, NamesNothing DEF ReadRoot, ReadProof
<1>5. CASE Crash
    BY <1>5, NamesNothing DEF Crash
<1>6. CASE UNCHANGED vars
    BY <1>6, NamesNothing DEF vars
<1>. QED BY <1>1, <1>2, <1>3, <1>4, <1>5, <1>6

\* That what is named is stored is inductive.
LEMMA StoredStep == TypeInv /\ StoredInv /\ [Next]_vars => StoredInv'
BY WriteStored, OtherStored DEF Next

\* createAccount stored the genesis commit that the account's row names.
LEMMA StoredInit == Init => StoredInv
BY DEF Init, StoredInv, NamedIsStored

\* Whatever fails and in whatever order writes and imports finish, the root of
\* the account and every announced commit can be fetched.
THEOREM RootIsStored == Spec => []NamedIsStored
<1>1. StoredInv => NamedIsStored
    BY DEF StoredInv
<1>. QED BY TypeInit, TypeStep, StoredInit, StoredStep, <1>1, PTL DEF Spec

-----------------------------------------------------------------------------
(* Every commit is the batch applied to its base.                          *)

\* No change, no difference.
LEMMA OverlayNone ==
    ASSUME NEW s, NEW t \in Trees
    PROVE  Overlay(s, 0, t) = t
<1>1. \A k \in Keys : LastOn(s, 0, k) = {}
    BY DEF LastOn
<1>2. \A k \in Keys : Holds(s, 0, t, k) = t[k]
    BY <1>1 DEF Holds
<1>. QED BY <1>2 DEF Overlay, Trees

\* The last change of all is the last one about its own path.
LEMMA LastOnSame ==
    ASSUME NEW s, NEW n \in Nat, NEW k, s[n + 1].key = k
    PROVE  LastOn(s, n + 1, k) = {n + 1}
BY DEF LastOn

\* A change of another path is not about this one.
LEMMA LastOnOther ==
    ASSUME NEW s, NEW n \in Nat, NEW k, s[n + 1].key # k
    PROVE  LastOn(s, n + 1, k) = LastOn(s, n, k)
<1>1. 1..(n + 1) = 1..n \cup {n + 1}
    OBVIOUS
<1>. QED BY <1>1 DEF LastOn

\* A path holds what the last change of it left.
LEMMA HoldsSame ==
    ASSUME NEW s, NEW n \in Nat, NEW t, NEW k, s[n + 1].key = k
    PROVE  Holds(s, n + 1, t, k) = s[n + 1].val
<1>1. LastOn(s, n + 1, k) = {n + 1}
    BY LastOnSame
<1>2. TheOne({n + 1}) = n + 1
    BY DEF TheOne
<1>. QED BY <1>1, <1>2 DEF Holds

\* A change of another path leaves this one alone.
LEMMA HoldsOther ==
    ASSUME NEW s, NEW n \in Nat, NEW t, NEW k, s[n + 1].key # k
    PROVE  Holds(s, n + 1, t, k) = Holds(s, n, t, k)
<1>1. LastOn(s, n + 1, k) = LastOn(s, n, k)
    BY LastOnOther
<1>. QED BY <1>1 DEF Holds

\* One more change sets one path.
LEMMA OverlayNext ==
    ASSUME NEW s, NEW n \in Nat, NEW t \in Trees, s[n + 1].key \in Keys
    PROVE  Overlay(s, n + 1, t) =
               [Overlay(s, n, t) EXCEPT ![s[n + 1].key] = s[n + 1].val]
<1>1. Holds(s, n + 1, t, s[n + 1].key) = s[n + 1].val
    BY HoldsSame
<1>2. \A k \in Keys \ {s[n + 1].key} : Holds(s, n + 1, t, k) = Holds(s, n, t, k)
    BY HoldsOther
<1>. QED BY <1>1, <1>2 DEF Overlay

\* What w's batch makes of its base, up to the operation it is at.
SoFar(w) == Overlay(Changes(batch[w], w), step[w] - 1, base[w].tree)

FreshInv ==
    \A w \in Writers : pc[w] \in {"idle", "loaded"} => step[w] = 1 /\ entries[w] = <<>>

MutateInv ==
    \A w \in Writers : pc[w] = "mutate" =>
        /\ lock = w
        /\ step[w] \in 1..(Len(batch[w]) + 1)
        /\ cacheTree = SoFar(w)
        /\ entries[w] = <<>> => cacheTree = base[w].tree

CacheInv == (lock = None /\ cacheRoot # None) => cacheTree = cacheRoot.tree

\* BuildsOnItsBase is not inductive: the tree that goes into a commit has been
\* in the cache, under the lock, since it was loaded or found there.
TreeInv == FreshInv /\ MutateInv /\ CacheInv /\ BuildsOnItsBase

Committed == {"sign", "finalise", "persist", "update", "acked"}

\* Steps that change no tree and lead nobody into phase 1 or out of it into
\* the list of those who have a commit.
LEMMA TreesAlone ==
    ASSUME TypeInv, TreeInv, UNCHANGED <<base, batch, lock, cacheRoot, cacheTree>>,
           \A w \in Writers :
               /\ pc'[w] = pc[w] \/ pc'[w] \notin {"idle", "loaded", "mutate"}
               /\ pc'[w] \in Committed => pc[w] \in Committed /\ draft'[w] = draft[w]
               /\ pc'[w] = pc[w] /\ pc[w] \in {"idle", "loaded", "mutate"} =>
                      step'[w] = step[w] /\ entries'[w] = entries[w]
               /\ pc[w] = "mutate" => pc'[w] \in {"mutate", "failed"}
    PROVE  TreeInv'
<1>1. FreshInv'
    BY DEF TreeInv, FreshInv
<1>2. MutateInv'
    BY DEF TreeInv, MutateInv, SoFar
<1>3. CacheInv'
    BY DEF TreeInv, CacheInv
<1>4. BuildsOnItsBase'
    <2>1. ASSUME NEW w \in Writers, pc'[w] \in Committed
          PROVE  draft'[w].tree = Effect(batch[w], w, base[w].tree)
        BY <2>1 DEF TreeInv, BuildsOnItsBase, Committed
    <2>. QED BY <2>1 DEF BuildsOnItsBase, Committed
<1>. QED BY <1>1, <1>2, <1>3, <1>4 DEF TreeInv

\* Nobody else is in phase 1 while w holds the lock, or while nobody does.
LEMMA OneMutates ==
    ASSUME TypeInv, TreeInv, NEW v \in Writers, pc[v] = "mutate"
    PROVE  lock = v /\ lock # None
BY NoneAssumption DEF TreeInv, MutateInv, Jobs

\* A new write has done nothing yet.
LEMMA BeginTrees ==
    ASSUME TypeInv, TreeInv, NEW w \in Writers, Begin(w)
    PROVE  TreeInv'
<1>. USE DEF TypeInv, TypeOK, MoveTo, cacheVars, Begin
<1>0. w \in Jobs
    BY DEF Jobs
<1>1. /\ pc'[w] = "loaded" /\ pc[w] = "idle"
      /\ \A v \in Writers \ {w} :
             pc'[v] = pc[v] /\ batch'[v] = batch[v] /\ base'[v] = base[v]
      /\ UNCHANGED <<step, entries, draft, lock, cacheRoot, cacheTree>>
    BY <1>0 DEF Jobs
<1>. HIDE DEF Begin
<1>2. FreshInv'
    BY <1>1 DEF TreeInv, FreshInv
<1>3. MutateInv'
    BY <1>1 DEF TreeInv, MutateInv, SoFar
<1>4. CacheInv' /\ BuildsOnItsBase'
    BY <1>1 DEF TreeInv, CacheInv, BuildsOnItsBase
<1>. QED BY <1>2, <1>3, <1>4 DEF TreeInv

\* withRepo gives a write the tree of the root it was built on: the cached one
\* only if it is filed under that root.
LEMMA OpenTrees ==
    ASSUME TypeInv, TreeInv, NEW w \in Writers, OpenCached(w)
    PROVE  TreeInv'
<1>. USE DEF TypeInv, TypeOK, MoveTo
<1>0. w \in Jobs
    BY DEF Jobs
<1>1. /\ pc'[w] = "mutate" /\ pc[w] = "loaded" /\ lock = None /\ lock' = w
      /\ \A v \in Writers \ {w} : pc'[v] = pc[v]
      /\ UNCHANGED <<step, entries, draft, batch, base>>
      /\ \/ cacheRoot = base[w] /\ UNCHANGED <<cacheRoot, cacheTree>>
         \/ cacheRoot' = base[w] /\ cacheTree' = base[w].tree
    BY <1>0 DEF Jobs, OpenCached
<1>2. FreshInv'
    BY <1>1 DEF TreeInv, FreshInv
<1>3. base[w] \in Commits /\ base[w].tree \in Trees
    BY DEF Commits
<1>4. cacheTree' = base[w].tree
    BY <1>1, <1>3, NoCommitAssumption DEF TreeInv, CacheInv
<1>5. SoFar(w)' = base[w].tree
    <2>1. step[w] = 1
        BY <1>1 DEF TreeInv, FreshInv
    <2>2. Overlay(Changes(batch[w], w), 0, base[w].tree) = base[w].tree
        BY <1>3, OverlayNone
    <2>. QED BY <1>1, <2>1, <2>2 DEF SoFar
<1>6. MutateInv'
    <2>1. \A v \in Writers \ {w} : pc'[v] # "mutate"
        BY <1>1, OneMutates
    <2>2. step'[w] \in 1..(Len(batch'[w]) + 1)
        BY <1>1 DEF TreeInv, FreshInv
    <2>. QED BY <1>1, <1>4, <1>5, <2>1, <2>2 DEF MutateInv
<1>7. CacheInv' /\ BuildsOnItsBase'
    BY <1>0, <1>1, NoneAssumption DEF TreeInv, CacheInv, BuildsOnItsBase
<1>. QED BY <1>2, <1>6, <1>7 DEF TreeInv

\* One more operation takes tree and entries from n operations to n + 1.
LEMMA ApplyTrees ==
    ASSUME TypeInv, TreeInv, NEW w \in Writers, ApplyNext(w)
    PROVE  TreeInv'
<1>. DEFINE n == step[w] - 1
            s == Changes(batch[w], w)
            op == batch[w][step[w]]
<1>0. w \in Jobs
    BY DEF Jobs
<1>1. /\ pc[w] = "mutate" /\ step[w] <= Len(batch[w])
      /\ step' = [step EXCEPT ![w] = @ + 1]
      /\ UNCHANGED <<pc, base, batch, draft, lock, cacheRoot>>
    BY DEF ApplyNext
<1>2. \/ /\ Value(op, w) = Absent /\ cacheTree[op.key] = Absent
         /\ UNCHANGED <<cacheTree, entries>>
      \/ /\ cacheTree' = [cacheTree EXCEPT ![op.key] = Value(op, w)]
         /\ entries' = [entries EXCEPT ![w] =
                           Append(@, [key |-> op.key, val |-> Value(op, w)])]
    BY DEF ApplyNext, Value
<1>3. lock = w /\ cacheTree = SoFar(w) /\ step[w] \in 1..Len(batch[w])
    BY <1>1 DEF TypeInv, TypeOK, TreeInv, MutateInv
<1>4. cacheTree' = [cacheTree EXCEPT ![op.key] = Value(op, w)]
    BY <1>2 DEF TypeInv, TypeOK, Trees
<1>5. SoFar(w)' = [SoFar(w) EXCEPT ![op.key] = Value(op, w)]
    <2>1. s[n + 1].key = op.key /\ s[n + 1].val = Value(op, w) /\ n \in Nat
        BY <1>3 DEF Changes
    <2>2. op.key \in Keys
        BY <1>1, OpType DEF TypeInv
    <2>3. base[w].tree \in Trees
        BY DEF TypeInv, TypeOK, Commits
    <2>4. Overlay(s, n + 1, base[w].tree) =
              [Overlay(s, n, base[w].tree) EXCEPT ![op.key] = Value(op, w)]
        BY <2>1, <2>2, <2>3, OverlayNext
    <2>5. step'[w] - 1 = n + 1
        BY <1>1, <1>3 DEF TypeInv, TypeOK
    <2>. QED BY <1>1, <2>4, <2>5 DEF SoFar
<1>6. entries'[w] = <<>> => cacheTree' = cacheTree /\ entries[w] = <<>>
    <2>1. entries[w] \in Seq(Entries)
        BY DEF TypeInv, TypeOK
    <2>2. Append(entries[w], [key |-> op.key, val |-> Value(op, w)]) # <<>>
        BY <2>1
    <2>. QED BY <1>2, <2>2 DEF TypeInv, TypeOK
<1>7. MutateInv'
    <2>1. \A v \in Writers \ {w} : pc'[v] # "mutate"
        BY <1>1, <1>3, OneMutates
    <2>2. step'[w] \in 1..(Len(batch'[w]) + 1)
        BY <1>1, <1>3 DEF TypeInv, TypeOK
    <2>3. entries'[w] = <<>> => cacheTree' = base'[w].tree
        BY <1>1, <1>6 DEF TreeInv, MutateInv
    <2>4. lock' = w /\ cacheTree' = SoFar(w)'
        BY <1>1, <1>3, <1>4, <1>5
    <2>. QED BY <2>1, <2>2, <2>3, <2>4 DEF MutateInv
<1>8. FreshInv'
    <2>1. \A v \in Writers \ {w} : step'[v] = step[v] /\ entries'[v] = entries[v]
        BY <1>1, <1>2 DEF TypeInv, TypeOK
    <2>. QED BY <1>1, <2>1 DEF TreeInv, FreshInv
<1>9. CacheInv' /\ BuildsOnItsBase'
    BY <1>0, <1>1, <1>3, NoneAssumption DEF TreeInv, CacheInv, BuildsOnItsBase
<1>. QED BY <1>7, <1>8, <1>9 DEF TreeInv

\* Whoever leaves phase 1 leaves no changed tree behind in the cache.
LEMMA LeaveTrees ==
    ASSUME TypeInv, TreeInv, NEW w \in Writers, BuildFails(w) \/ BuildCommit(w)
    PROVE  TreeInv'
<1>0. w \in Jobs
    BY DEF Jobs
<1>1. /\ pc[w] = "mutate" /\ pc'[w] \in {"failed", "sign", "acked"}
      /\ \A v \in Writers \ {w} : pc'[v] = pc[v] /\ draft'[v] = draft[v]
      /\ lock' = None /\ cacheRoot' = None
      /\ UNCHANGED <<step, entries, batch, base>>
    BY <1>0 DEF BuildFails, BuildCommit, MoveTo, Release, TypeInv, TypeOK, Jobs
<1>2. FreshInv' /\ CacheInv'
    BY <1>1 DEF TreeInv, FreshInv, CacheInv
<1>3. MutateInv'
    BY <1>1, OneMutates DEF MutateInv
<1>4. BuildsOnItsBase'
    <2>1. CASE BuildFails(w)
        <3>1. pc'[w] = "failed"
            BY <1>0, <2>1 DEF BuildFails, MoveTo, TypeInv, TypeOK
        <3>. QED BY <1>1, <3>1 DEF TreeInv, BuildsOnItsBase
    <2>2. CASE BuildCommit(w)
        <3>1. step[w] - 1 = Len(batch[w]) /\ cacheTree = SoFar(w)
            BY <2>2 DEF BuildCommit, TypeInv, TypeOK, TreeInv, MutateInv
        <3>2. cacheTree = Effect(batch[w], w, base[w].tree)
            BY <3>1 DEF SoFar, Effect
        <3>3. entries[w] = <<>> => cacheTree = base[w].tree
            BY <2>2 DEF BuildCommit, TreeInv, MutateInv
        <3>4. draft'[w].tree = cacheTree
            BY <1>0, <2>2, <3>3 DEF BuildCommit, TypeInv, TypeOK
        <3>. QED BY <1>1, <3>2, <3>4 DEF TreeInv, BuildsOnItsBase
    <2>. QED BY <2>1, <2>2
<1>. QED BY <1>2, <1>3, <1>4 DEF TreeInv

\* What follows the signature, and a failed open, touch no tree.
LEMMA Phase5Trees ==
    ASSUME TypeInv, TreeInv, NEW w \in Writers, OpenFails(w) \/ Phase5(w)
    PROVE  TreeInv'
<1>. USE DEF MoveTo, storeVars, cacheVars, TypeInv, TypeOK, Committed
<1>0. w \in Jobs /\ Writers \subseteq Jobs
    BY DEF Jobs
<1>1. CASE OpenFails(w)
    BY <1>0, <1>1, TreesAlone DEF OpenFails
<1>2. CASE Sign(w)
    <2>1. /\ pc[w] = "sign" /\ pc'[w] \in {"finalise", "failed"}
          /\ \A v \in Writers \ {w} : pc'[v] = pc[v] /\ step'[v] = step[v]
          /\ UNCHANGED <<base, batch, entries, draft, lock, cacheRoot, cacheTree>>
        BY <1>0, <1>2 DEF Sign
    <2>. QED BY <2>1, TreesAlone
<1>3. CASE Finalise(w) \/ FinaliseFails(w)
    BY <1>0, <1>3, TreesAlone DEF Finalise, FinaliseFails
<1>4. CASE PersistRecord(w) \/ PersistFails(w)
    BY <1>0, <1>4, TreesAlone DEF PersistRecord, PersistFails
<1>5. CASE Emit(w)
    BY <1>0, <1>5, TreesAlone DEF Emit
<1>. QED BY <1>1, <1>2, <1>3, <1>4, <1>5 DEF Phase5

\* Imports and root updates leave the cache alone; a proof and a restart leave
\* a clean tree or none.
LEMMA OtherTrees ==
    ASSUME TypeInv, TreeInv,
           \/ \E i \in Importers : Import(i)
           \/ \E j \in Jobs : UpdateRoot(j) \/ UpdateFails(j)
           \/ \E r \in Readers : ReadRoot(r) \/ ReadProof(r)
           \/ Crash
           \/ UNCHANGED vars
    PROVE  TreeInv'
<1>. USE DEF MoveTo, storeVars, cacheVars, jobVars, TypeInv, TypeOK, Committed
<1>0. Writers \subseteq Jobs
    BY DEF Jobs
<1>1. ASSUME NEW i \in Importers, Import(i) PROVE TreeInv'
    <2>1. \A w \in Writers : pc'[w] = pc[w] /\ draft'[w] = draft[w]
        BY <1>0, <1>1, JobsAssumption DEF Import, ImportBlocks, ImportRecords, ImportCommit,
                                          ImportFails
    <2>2. UNCHANGED <<base, batch, step, entries, lock, cacheRoot, cacheTree>>
        BY <1>1 DEF Import, ImportBlocks, ImportRecords, ImportCommit, ImportFails
    <2>. QED BY <2>1, <2>2, TreesAlone
<1>2. ASSUME NEW j \in Jobs, UpdateRoot(j) \/ UpdateFails(j) PROVE TreeInv'
    BY <1>0, <1>2, TreesAlone DEF UpdateRoot, UpdateFails
<1>3. ASSUME NEW r \in Readers, ReadRoot(r) PROVE TreeInv'
    BY <1>0, <1>3, TreesAlone DEF ReadRoot
<1>4. ASSUME NEW r \in Readers, ReadProof(r) PROVE TreeInv'
    <2>1. lock = None /\ lock' = None /\ UNCHANGED jobVars
        BY <1>4 DEF ReadProof
    <2>2. CacheInv'
        BY <1>4, <2>1 DEF ReadProof, TreeInv, CacheInv
    <2>3. MutateInv'
        BY <2>1, OneMutates DEF MutateInv
    <2>. QED BY <2>1, <2>2, <2>3 DEF TreeInv, FreshInv, BuildsOnItsBase
<1>5. CASE Crash
    <2>1. /\ lock' = None /\ cacheRoot' = None
          /\ UNCHANGED <<base, batch, step, entries, draft>>
          /\ \A w \in Writers : (pc'[w] = pc[w] /\ pc[w] # "mutate") \/ pc'[w] = "failed"
        BY <1>0, <1>5 DEF Crash, Release, Ended
    <2>. QED BY <2>1 DEF TreeInv, FreshInv, MutateInv, CacheInv, BuildsOnItsBase
<1>6. CASE UNCHANGED vars
    BY <1>6, TreesAlone DEF vars
<1>. QED BY <1>1, <1>2, <1>3, <1>4, <1>5, <1>6

\* The invariant of trees and commits is inductive.
LEMMA TreeStep == TypeInv /\ TreeInv /\ [Next]_vars => TreeInv'
BY BeginTrees, OpenTrees, ApplyTrees, LeaveTrees, Phase5Trees, OtherTrees DEF Next, Phase1

\* At first nothing is cached and no write is under way.
LEMMA TreeInit == Init => TreeInv
BY DEF Init, TreeInv, FreshInv, MutateInv, CacheInv, BuildsOnItsBase, Jobs

\* The commit a user is asked to sign is the whole batch, and only it, applied
\* to the root the write was built on.
THEOREM CommitIsTheBatch == Spec => []BuildsOnItsBase
<1>1. TreeInv => BuildsOnItsBase
    BY DEF TreeInv
<1>. QED BY TypeInit, TypeStep, TreeInit, TreeStep, <1>1, PTL DEF Spec

-----------------------------------------------------------------------------
(* Only what a user has signed is served.                                  *)

\* A row that a write made stands for a commit that is stored and signed.
RowSigned(r) ==
    r \in Writers =>
        /\ pc[r] \in {"persist", "update", "acked", "failed"}
        /\ draft[r] \in blocks /\ draft[r].by = "user"

\* From the build on, a write's commit is the one its user is asked to sign.
UsersCommit(w) ==
    pc[w] \in {"sign", "finalise", "persist", "update"} => draft[w].by = "user"

\* A write puts its own records at the paths it changes, or none.
OwnEntries(w) == \A n \in 1..Len(entries[w]) : entries[w][n].val \in {w, Absent}

\* An import saves records of its own.
OwnTree(i) == pc[i] = "import" => \A k \in Keys : draft[i].tree[k] \in {i, Absent}

\* OnlySignedRecords is not inductive: PersistRecord makes a row of what the
\* write has had in its entries since phase 1.
SignedInv ==
    /\ \A k \in Keys : RowSigned(records[k])
    /\ \A w \in Writers : UsersCommit(w) /\ OwnEntries(w)
    /\ \A i \in Importers : OwnTree(i)

\* Steps that make no row and no commit and change no entries.
LEMMA SignsNothing ==
    ASSUME TypeInv, SignedInv, UNCHANGED <<records, draft, entries>>,
           blocks \subseteq blocks',
           \A j \in Jobs :
               /\ pc[j] \in {"persist", "update", "acked", "failed"} =>
                      pc'[j] \in {"persist", "update", "acked", "failed"}
               /\ pc'[j] \in {"sign", "finalise", "persist", "update"} =>
                      pc[j] \in {"sign", "finalise", "persist", "update"} \/ j \in Importers
               /\ pc'[j] = "import" => pc[j] = "import"
    PROVE  SignedInv'
<1>0. Writers \subseteq Jobs /\ Importers \subseteq Jobs
    BY DEF Jobs
<1>1. ASSUME NEW k \in Keys PROVE RowSigned(records[k])'
    <2>1. RowSigned(records[k]) /\ records'[k] = records[k]
        BY DEF SignedInv
    <2>. QED BY <1>0, <2>1 DEF RowSigned
<1>2. ASSUME NEW w \in Writers PROVE UsersCommit(w)' /\ OwnEntries(w)'
    <2>1. UsersCommit(w) /\ OwnEntries(w) /\ w \notin Importers
        BY JobsAssumption DEF SignedInv
    <2>. QED BY <1>0, <2>1 DEF UsersCommit, OwnEntries
<1>3. ASSUME NEW i \in Importers PROVE OwnTree(i)'
    <2>1. OwnTree(i)
        BY DEF SignedInv
    <2>. QED BY <1>0, <2>1 DEF OwnTree
<1>. QED BY <1>1, <1>2, <1>3 DEF SignedInv

\* One more operation puts the write's own record among its entries, or none.
LEMMA ApplySigned ==
    ASSUME TypeInv, SignedInv, NEW w \in Writers, ApplyNext(w)
    PROVE  SignedInv'
<1>. DEFINE e == [key |-> batch[w][step[w]].key, val |-> Value(batch[w][step[w]], w)]
<1>1. UNCHANGED <<records, blocks, pc, draft>> /\ entries \in [Writers -> Seq(Entries)]
    BY DEF ApplyNext, storeVars, TypeInv, TypeOK
<1>2. entries' = entries \/ entries' = [entries EXCEPT ![w] = Append(@, e)]
    BY DEF ApplyNext
<1>3. ASSUME NEW v \in Writers PROVE OwnEntries(v)'
    <2>1. OwnEntries(v) /\ entries[v] \in Seq(Entries)
        BY <1>1 DEF SignedInv
    <2>2. CASE entries'[v] = entries[v]
        BY <2>1, <2>2 DEF OwnEntries
    <2>3. CASE v = w /\ entries'[v] = Append(entries[v], e)
        <3>1. e.val \in {w, Absent}
            BY DEF Value
        <3>2. Len(entries'[v]) = Len(entries[v]) + 1 /\ Len(entries[v]) \in Nat
            BY <2>1, <2>3
        <3>3. \A n \in 1..Len(entries[v]) : entries'[v][n] = entries[v][n]
            BY <2>1, <2>3
        <3>4. entries'[v][Len(entries[v]) + 1] = e
            BY <2>1, <2>3
        <3>. HIDE DEF e
        <3>5. SUFFICES ASSUME NEW n \in 1..Len(entries'[v])
                       PROVE  entries'[v][n].val \in {v, Absent}
            BY DEF OwnEntries
        <3>6. n \in 1..Len(entries[v]) \/ n = Len(entries[v]) + 1
            BY <3>2
        <3>. QED BY <2>1, <2>3, <3>1, <3>3, <3>4, <3>6 DEF OwnEntries
    <2>. QED BY <1>1, <1>2, <2>2, <2>3
<1>. QED BY <1>1, <1>3 DEF SignedInv, RowSigned, UsersCommit, OwnTree

\* The commit of a write that changed something is its user's to sign.
LEMMA BuildSigned ==
    ASSUME TypeInv, SignedInv, NEW w \in Writers, BuildCommit(w)
    PROVE  SignedInv'
<1>0. w \in Jobs /\ Writers \subseteq Jobs /\ Importers \subseteq Jobs
    BY DEF Jobs
<1>1. /\ pc[w] = "mutate"
      /\ pc' = [pc EXCEPT ![w] = pc'[w]] /\ draft' = [draft EXCEPT ![w] = draft'[w]]
      /\ (pc'[w] = "sign" /\ draft'[w].by = "user") \/ pc'[w] = "acked"
      /\ UNCHANGED <<records, blocks, entries>>
    BY <1>0 DEF BuildCommit, MoveTo, storeVars, TypeInv, TypeOK
<1>2. ASSUME NEW k \in Keys PROVE RowSigned(records[k])'
    <2>1. RowSigned(records[k])
        BY DEF SignedInv
    <2>. QED BY <1>0, <1>1, <2>1 DEF RowSigned, TypeInv, TypeOK
<1>3. ASSUME NEW v \in Writers PROVE UsersCommit(v)' /\ OwnEntries(v)'
    <2>1. UsersCommit(v) /\ OwnEntries(v)
        BY DEF SignedInv
    <2>. QED BY <1>0, <1>1, <2>1 DEF UsersCommit, OwnEntries, TypeInv, TypeOK
<1>4. ASSUME NEW i \in Importers PROVE OwnTree(i)'
    <2>1. OwnTree(i) /\ i # w
        BY JobsAssumption DEF SignedInv
    <2>. QED BY <1>0, <1>1, <2>1 DEF OwnTree, TypeInv, TypeOK
<1>. QED BY <1>2, <1>3, <1>4 DEF SignedInv

\* A row is written only when the commit is signed and stored.
LEMMA PersistSigned ==
    ASSUME TypeInv, StoredInv, SignedInv, NEW w \in Writers, PersistRecord(w)
    PROVE  SignedInv'
<1>0. w \in Jobs
    BY DEF Jobs
<1>1. pc[w] = "persist" /\ UNCHANGED <<blocks, pc, draft, entries>>
    BY DEF PersistRecord
<1>2. RowSigned(w)'
    BY <1>0, <1>1 DEF RowSigned, StoredInv, SignedInv, UsersCommit
<1>3. ASSUME NEW k \in Keys PROVE RowSigned(records[k])'
    <2>1. RowSigned(records[k])'
          \/ records'[k] = w \/ records'[k] = Absent
        <3>1. step[w] \in 1..Len(entries[w])
            BY DEF PersistRecord, TypeInv, TypeOK
        <3>2. entries[w][step[w]].val \in {w, Absent}
            BY <3>1 DEF SignedInv, OwnEntries
        <3>3. records'[k] \in {records[k], w, Absent}
            BY <3>2 DEF PersistRecord, TypeInv, TypeOK, Trees
        <3>4. RowSigned(records[k])
            BY DEF SignedInv
        <3>. QED BY <1>1, <3>3, <3>4 DEF RowSigned
    <2>2. Absent \notin Writers
        BY AbsentAssumption DEF Jobs
    <2>. QED BY <1>2, <2>1, <2>2 DEF RowSigned
<1>. QED BY <1>1, <1>3 DEF SignedInv, UsersCommit, OwnEntries, OwnTree

\* The other steps of a write make no row.
LEMMA WriteSigned ==
    ASSUME TypeInv, StoredInv, SignedInv, NEW w \in Writers, Phase1(w) \/ Phase5(w)
    PROVE  SignedInv'
<1>. USE DEF MoveTo, storeVars, cacheVars, TypeInv, TypeOK
<1>0. w \in Jobs /\ w \notin Importers
    BY JobsAssumption DEF Jobs
<1>1. CASE Begin(w) \/ OpenCached(w) \/ OpenFails(w) \/ BuildFails(w)
    <2>1. /\ UNCHANGED <<records, draft, entries, blocks>>
          /\ pc' = [pc EXCEPT ![w] = pc'[w]]
          /\ pc'[w] \in {"loaded", "mutate", "failed"}
          /\ pc[w] \in {"idle", "loaded", "mutate"}
        BY <1>0, <1>1 DEF Begin, OpenCached, OpenFails, BuildFails
    <2>. QED BY <1>0, <2>1, SignsNothing
<1>2. CASE Sign(w) \/ Finalise(w) \/ FinaliseFails(w) \/ PersistFails(w) \/ Emit(w)
    <2>1. /\ UNCHANGED <<records, draft, entries>> /\ blocks \subseteq blocks'
          /\ pc' = [pc EXCEPT ![w] = pc'[w]]
          /\ \/ pc[w] \in {"sign", "finalise", "persist"} /\ pc'[w] = "failed"
             \/ pc[w] = "sign" /\ pc'[w] = "finalise"
             \/ pc[w] = "finalise" /\ pc'[w] = "persist"
             \/ pc[w] = "persist" /\ pc'[w] = "update"
        BY <1>0, <1>2 DEF Sign, Finalise, FinaliseFails, PersistFails, Emit
    <2>2. \A j \in Jobs \ {w} : pc'[j] = pc[j]
        BY <1>0, <2>1
    <2>. QED BY <1>0, <2>1, <2>2, SignsNothing
<1>. QED BY <1>1, <1>2, ApplySigned, BuildSigned, PersistSigned DEF Phase1, Phase5

\* An import's rows are its own, and its commits are of the tree it brought;
\* everything else makes no row at all.
LEMMA OtherSigned ==
    ASSUME TypeInv, SignedInv,
           \/ \E i \in Importers : Import(i)
           \/ \E j \in Jobs : UpdateRoot(j) \/ UpdateFails(j)
           \/ \E r \in Readers : ReadRoot(r) \/ ReadProof(r)
           \/ Crash
           \/ UNCHANGED vars
    PROVE  SignedInv'
<1>. USE DEF MoveTo, storeVars, jobVars, TypeInv, TypeOK
<1>0. Writers \subseteq Jobs /\ Importers \subseteq Jobs
    BY DEF Jobs
<1>1. ASSUME NEW i \in Importers, Import(i) PROVE SignedInv'
    <2>0. i \in Jobs /\ i \notin Writers
        BY JobsAssumption DEF Jobs
    <2>1. /\ pc' = [pc EXCEPT ![i] = pc'[i]] /\ draft' = [draft EXCEPT ![i] = draft'[i]]
          /\ UNCHANGED entries /\ blocks \subseteq blocks'
        BY <2>0, <1>1 DEF Import, ImportBlocks, ImportRecords, ImportCommit, ImportFails
    <2>2. \A w \in Writers : UsersCommit(w)' /\ OwnEntries(w)'
        BY <1>0, <2>0, <2>1 DEF SignedInv, UsersCommit, OwnEntries
    <2>3. OwnTree(i)'
        <3>1. CASE ImportBlocks(i)
            <4>1. PICK t \in [Keys -> {i, Absent}] :
                      draft' = [draft EXCEPT ![i] = [rev |-> 0, tree |-> t, by |-> "user"]]
                BY <3>1 DEF ImportBlocks
            <4>. QED BY <2>0, <4>1 DEF OwnTree
        <3>2. CASE ImportRecords(i) \/ ImportCommit(i) \/ ImportFails(i)
            BY <2>0, <3>2 DEF OwnTree, ImportRecords, ImportCommit, ImportFails
        <3>. QED BY <1>1, <3>1, <3>2 DEF Import
    <2>4. \A v \in Importers : OwnTree(v)'
        BY <1>0, <2>0, <2>1, <2>3 DEF SignedInv, OwnTree
    <2>5. ASSUME NEW k \in Keys PROVE RowSigned(records[k])'
        <3>1. records'[k] \in Writers => records'[k] = records[k]
            <4>1. CASE ImportRecords(i)
                <5>1. draft[i].tree[k] \in {i, Absent}
                    BY <4>1 DEF ImportRecords, SignedInv, OwnTree
                <5>. QED BY <2>0, <4>1, <5>1 DEF ImportRecords
            <4>2. CASE ~ImportRecords(i)
                BY <1>1, <4>2 DEF Import, ImportBlocks, ImportCommit, ImportFails
            <4>. QED BY <4>1, <4>2
        <3>2. CASE records'[k] \in Writers
            <4>1. PICK w \in Writers : w = records'[k]
                BY <3>2
            <4>2. RowSigned(w)
                BY <3>1, <4>1 DEF SignedInv
            <4>3. pc'[w] = pc[w] /\ draft'[w] = draft[w] /\ blocks \subseteq blocks'
                BY <1>0, <2>0, <2>1
            <4>4. RowSigned(w)'
                BY <4>2, <4>3 DEF RowSigned
            <4>. QED BY <4>1, <4>4 DEF RowSigned
        <3>3. CASE records'[k] \notin Writers
            BY <3>3 DEF RowSigned
        <3>. QED BY <3>2, <3>3
    <2>. QED BY <2>2, <2>4, <2>5 DEF SignedInv
<1>2. ASSUME NEW j \in Jobs, UpdateRoot(j) \/ UpdateFails(j) PROVE SignedInv'
    BY <1>2, SignsNothing DEF UpdateRoot, UpdateFails
<1>3. ASSUME NEW r \in Readers, ReadRoot(r) \/ ReadProof(r) PROVE SignedInv'
    BY <1>3, SignsNothing DEF ReadRoot, ReadProof
<1>4. CASE Crash
    BY <1>4, SignsNothing DEF Crash, Ended
<1>5. CASE UNCHANGED vars
    BY <1>5, SignsNothing DEF vars
<1>. QED BY <1>1, <1>2, <1>3, <1>4, <1>5

\* That rows are signed for is inductive.
LEMMA SignedStep == TypeInv /\ StoredInv /\ SignedInv /\ [Next]_vars => SignedInv'
BY WriteSigned, OtherSigned DEF Next

\* A new account has no row.
LEMMA SignedInit == Init => SignedInv
BY AbsentAssumption
DEF Init, SignedInv, RowSigned, UsersCommit, OwnEntries, OwnTree, EmptyTree, Jobs

\* The records table serves nothing that its user has not signed, whatever else
\* is open, fails or is repeated.
THEOREM RowsAreSigned == Spec => []OnlySignedRecords
<1>1. SignedInv => OnlySignedRecords
    BY DEF SignedInv, RowSigned, OnlySignedRecords
<1>. QED BY TypeInit, TypeStep, StoredInit, StoredStep, SignedInit, SignedStep, <1>1,
            PTL DEF Spec

-----------------------------------------------------------------------------
(* Each event has a revision of its own, whatever overlaps.                *)

\* The commit of a write has been stamped and not yet announced.
Unannounced == {"sign", "finalise", "persist"}

\* No revision in use is later than the clock.
ClockInv ==
    /\ root.rev <= lastRev
    /\ \A w \in Writers : base[w].rev <= lastRev
    /\ \A j \in Jobs : draft[j] # None => draft[j].rev <= lastRev
    /\ \A i \in 1..Len(events) : events[i].commit.rev <= lastRev

\* A commit that waits to be announced is later than the one it was built on,
\* and no other such commit, nor an event, has its revision.
OwnRevInv ==
    \A w \in Writers : pc[w] \in Unannounced =>
        /\ base[w].rev < draft[w].rev
        /\ \A v \in Writers :
              pc[v] \in Unannounced /\ draft[v].rev = draft[w].rev => v = w
        /\ \A i \in 1..Len(events) : events[i].commit.rev # draft[w].rev

\* An event leads forward in time, and no two events have the same revision,
\* by which a consumer of the firehose tells a repository's commits apart and
\* knows which one it has seen.
EventsHaveOwnRevs ==
    /\ \A i \in 1..Len(events) : events[i].since < events[i].commit.rev
    /\ \A i, j \in 1..Len(events) : events[i].commit.rev = events[j].commit.rev => i = j

\* EventsHaveOwnRevs says nothing of the commits that are about to be announced.
NumberInv == ClockInv /\ OwnRevInv /\ EventsHaveOwnRevs

\* A step that stamps no commit and announces none.
LEMMA NumbersStay ==
    ASSUME NumberInv, UNCHANGED <<events, lastRev>>,
           root'.rev <= lastRev,
           \A w \in Writers : base'[w].rev <= lastRev,
           \A j \in Jobs : draft'[j] # None => draft'[j].rev <= lastRev,
           \A w \in Writers : pc'[w] \in Unannounced =>
               pc[w] \in Unannounced /\ draft'[w] = draft[w] /\ base'[w] = base[w]
    PROVE  NumberInv'
<1>1. ClockInv'
    BY DEF NumberInv, ClockInv
<1>2. OwnRevInv'
    BY DEF NumberInv, OwnRevInv
<1>3. EventsHaveOwnRevs'
    BY DEF NumberInv, EventsHaveOwnRevs
<1>. QED BY <1>1, <1>2, <1>3 DEF NumberInv

\* The revisions that the clock is compared with are numbers.
LEMMA RevType ==
    ASSUME TypeInv
    PROVE  /\ lastRev \in Nat /\ root.rev \in Nat
           /\ \A w \in Writers : base[w].rev \in Nat
           /\ \A j \in Jobs : draft[j] # None => draft[j].rev \in Nat
           /\ events \in Seq(Events) /\ Len(events) \in Nat
           /\ \A i \in 1..Len(events) : events[i].commit.rev \in Nat
<1>1. events \in Seq(Events)
    BY DEF TypeInv, TypeOK
<1>2. \A i \in 1..Len(events) : events[i] \in Events
    BY <1>1
<1>3. \A i \in 1..Len(events) : events[i].commit \in Commits
    BY <1>2 DEF Events
<1>4. \A i \in 1..Len(events) : events[i].commit.rev \in Nat
    BY <1>3 DEF Commits
<1>5. /\ lastRev \in Nat /\ root.rev \in Nat
      /\ \A w \in Writers : base[w].rev \in Nat
      /\ \A j \in Jobs : draft[j] # None => draft[j].rev \in Nat
    BY DEF TypeInv, TypeOK, Commits
<1>. QED BY <1>1, <1>4, <1>5

\* A step that stamps j's commit with the next revision and announces nothing.
LEMMA StampNumbers ==
    ASSUME TypeInv, TypeInv', NumberInv, UNCHANGED <<events, root, base>>, lastRev' = lastRev + 1,
           NEW j \in Jobs,
           draft'[j].rev = lastRev + 1 \/ (pc'[j] \notin Unannounced /\ draft'[j].rev <= lastRev),
           \A i \in Jobs \ {j} : draft'[i] = draft[i] /\ pc'[i] = pc[i]
    PROVE  NumberInv'
<1>1. ClockInv'
    <2>1. /\ root.rev <= lastRev + 1
          /\ \A w \in Writers : base[w].rev <= lastRev + 1
          /\ \A i \in 1..Len(events) : events[i].commit.rev <= lastRev + 1
        BY RevType DEF NumberInv, ClockInv
    <2>2. \A i \in Jobs \ {j} : draft[i] # None => draft[i].rev <= lastRev + 1
        BY RevType DEF NumberInv, ClockInv
    <2>3. draft'[j].rev = lastRev + 1 \/ draft'[j].rev <= lastRev
        OBVIOUS
    <2>4. draft'[j] # None => draft'[j].rev \in Nat
        <3>1. draft' \in [Jobs -> Commits \cup {None}]
            BY DEF TypeInv, TypeOK
        <3>. QED BY <3>1 DEF Commits
    <2>5. draft'[j] # None => draft'[j].rev <= lastRev + 1
        BY <2>3, <2>4, RevType
    <2>. QED BY <2>1, <2>2, <2>5 DEF ClockInv
<1>2. ASSUME NEW w \in Writers, pc'[w] \in Unannounced
      PROVE  /\ base'[w].rev < draft'[w].rev
             /\ \A v \in Writers :
                   pc'[v] \in Unannounced /\ draft'[v].rev = draft'[w].rev => v = w
             /\ \A i \in 1..Len(events') : events'[i].commit.rev # draft'[w].rev
    <2>0. Writers \subseteq Jobs
        BY DEF Jobs
    <2>1. ASSUME NEW v \in Writers \ {j}, pc'[v] \in Unannounced
          PROVE  pc[v] \in Unannounced /\ draft'[v] = draft[v] /\ draft[v].rev \in Nat
                 /\ draft[v].rev <= lastRev
        <3>1. pc[v] \in Unannounced /\ draft'[v] = draft[v]
            BY <2>0, <2>1
        <3>2. draft[v] # None
            BY <2>0, <3>1, NoCommitAssumption DEF TypeInv, DraftKnown, Unannounced
        <3>. QED BY <2>0, <3>1, <3>2, RevType DEF NumberInv, ClockInv
    <2>2. CASE w = j
        <3>1. draft'[w].rev = lastRev + 1
            BY <1>2, <2>2
        <3>2. base'[w].rev <= lastRev /\ \A i \in 1..Len(events) : events[i].commit.rev <= lastRev
            BY DEF NumberInv, ClockInv
        <3>3. \A v \in Writers \ {j} : pc'[v] \in Unannounced => draft'[v].rev <= lastRev
                                                         /\ draft'[v].rev \in Nat
            BY <2>1
        <3>4. lastRev \in Nat /\ base'[w].rev \in Nat
              /\ \A i \in 1..Len(events) : events[i].commit.rev \in Nat
            BY RevType
        <3>5. \A v \in Writers : pc'[v] \in Unannounced /\ draft'[v].rev = draft'[w].rev => v = w
            BY <2>2, <3>1, <3>3, <3>4
        <3>6. \A i \in 1..Len(events) : events[i].commit.rev # draft'[w].rev
            BY <3>1, <3>2, <3>4
        <3>7. base'[w].rev < draft'[w].rev
            BY <3>1, <3>2, <3>4
        <3>. QED BY <3>5, <3>6, <3>7
    <2>3. CASE w # j
        <3>1. /\ pc[w] \in Unannounced /\ draft'[w] = draft[w] /\ draft[w].rev \in Nat
              /\ draft[w].rev <= lastRev
            BY <1>2, <2>1, <2>3
        <3>2. /\ base[w].rev < draft[w].rev
              /\ \A v \in Writers :
                    pc[v] \in Unannounced /\ draft[v].rev = draft[w].rev => v = w
              /\ \A i \in 1..Len(events) : events[i].commit.rev # draft[w].rev
            BY <3>1 DEF NumberInv, OwnRevInv
        <3>3. ASSUME NEW v \in Writers, pc'[v] \in Unannounced, draft'[v].rev = draft'[w].rev
              PROVE  v = w
            <4>1. CASE v = j
                <5>1. draft'[v].rev = lastRev + 1
                    BY <3>3, <4>1
                <5>. QED BY <3>1, <3>3, <5>1, RevType
            <4>2. CASE v # j
                BY <2>1, <3>1, <3>2, <3>3, <4>2
            <4>. QED BY <4>1, <4>2
        <3>. QED BY <3>1, <3>2, <3>3
    <2>. QED BY <2>2, <2>3
<1>3. EventsHaveOwnRevs'
    BY DEF NumberInv, EventsHaveOwnRevs
<1>. QED BY <1>1, <1>2, <1>3 DEF NumberInv, OwnRevInv

\* The event of w takes w's revision with it.
LEMMA EmitNumbers ==
    ASSUME TypeInv, NumberInv, NEW w \in Writers, Emit(w)
    PROVE  NumberInv'
<1>. DEFINE e == [commit |-> draft[w], since |-> base[w].rev, ops |-> entries[w]]
<1>0. w \in Jobs /\ Writers \subseteq Jobs
    BY DEF Jobs
<1>1. /\ pc[w] = "persist" /\ UNCHANGED <<root, lastRev, base, draft>>
      /\ events' = Append(events, e) \/ events' = events
      /\ \A v \in Writers : pc'[v] \in Unannounced => pc[v] \in Unannounced /\ v # w
    BY <1>0 DEF Emit, MoveTo, Unannounced, TypeInv, TypeOK
<1>2. CASE events' = events
    BY <1>1, <1>2, NumbersStay DEF NumberInv, ClockInv
<1>3. CASE events' = Append(events, e)
    <2>1. /\ Len(events') = Len(events) + 1 /\ events'[Len(events) + 1] = e
          /\ \A i \in 1..Len(events) : events'[i] = events[i]
        BY <1>3, RevType
    <2>2. \A i \in 1..Len(events') : i = Len(events) + 1 \/ i \in 1..Len(events)
        BY <2>1, RevType
    <2>3. e.commit = draft[w] /\ e.since = base[w].rev
        OBVIOUS
    <2>. HIDE DEF e
    <2>4. /\ base[w].rev < draft[w].rev
          /\ \A v \in Writers : pc[v] \in Unannounced /\ draft[v].rev = draft[w].rev => v = w
          /\ \A i \in 1..Len(events) : events[i].commit.rev # draft[w].rev
        BY <1>1 DEF NumberInv, OwnRevInv, Unannounced
    <2>5. draft[w].rev <= lastRev
        <3>1. draft[w] # None
            BY <1>0, <1>1, NoCommitAssumption DEF TypeInv, DraftKnown
        <3>. QED BY <1>0, <3>1 DEF NumberInv, ClockInv
    <2>6. ClockInv'
        <3>1. \A i \in 1..Len(events') : events'[i].commit.rev <= lastRev
            BY <2>1, <2>2, <2>3, <2>5 DEF NumberInv, ClockInv
        <3>. QED BY <1>1, <3>1 DEF NumberInv, ClockInv
    <2>7. OwnRevInv'
        <3>. SUFFICES ASSUME NEW v \in Writers, pc'[v] \in Unannounced
                      PROVE  /\ base'[v].rev < draft'[v].rev
                             /\ \A u \in Writers :
                                   pc'[u] \in Unannounced /\ draft'[u].rev = draft'[v].rev => u = v
                             /\ \A i \in 1..Len(events') : events'[i].commit.rev # draft'[v].rev
            BY DEF OwnRevInv
        <3>1. pc[v] \in Unannounced /\ v # w
            BY <1>1
        <3>2. /\ base[v].rev < draft[v].rev
              /\ \A u \in Writers : pc[u] \in Unannounced /\ draft[u].rev = draft[v].rev => u = v
              /\ \A i \in 1..Len(events) : events[i].commit.rev # draft[v].rev
            BY <3>1 DEF NumberInv, OwnRevInv
        <3>3. \A i \in 1..Len(events') : events'[i].commit.rev # draft[v].rev
            BY <2>1, <2>2, <2>3, <2>4, <3>1, <3>2
        <3>. QED BY <1>1, <3>2, <3>3
    <2>8. EventsHaveOwnRevs'
        <3>1. \A i \in 1..Len(events') : events'[i].since < events'[i].commit.rev
            BY <2>1, <2>2, <2>3, <2>4 DEF NumberInv, EventsHaveOwnRevs
        <3>2. ASSUME NEW i \in 1..Len(events'), NEW k \in 1..Len(events'),
                     events'[i].commit.rev = events'[k].commit.rev
              PROVE  i = k
            <4>1. CASE i \in 1..Len(events) /\ k \in 1..Len(events)
                <5>1. events[i].commit.rev = events[k].commit.rev
                    BY <2>1, <3>2, <4>1
                <5>. QED BY <4>1, <5>1 DEF NumberInv, EventsHaveOwnRevs
            <4>2. CASE i = Len(events) + 1 /\ k \in 1..Len(events)
                BY <2>1, <2>3, <2>4, <3>2, <4>2
            <4>3. CASE i \in 1..Len(events) /\ k = Len(events) + 1
                BY <2>1, <2>3, <2>4, <3>2, <4>3
            <4>. QED BY <2>2, <4>1, <4>2, <4>3
        <3>. QED BY <3>1, <3>2 DEF EventsHaveOwnRevs
    <2>. QED BY <2>6, <2>7, <2>8 DEF NumberInv
<1>. QED BY <1>1, <1>2, <1>3

\* Neither phase 1 nor what follows the signature uses a revision twice.
LEMMA WriteNumbers ==
    ASSUME TypeInv, TypeInv', NumberInv, NEW w \in Writers, Phase1(w) \/ Phase5(w)
    PROVE  NumberInv'
<1>0. w \in Jobs /\ Writers \subseteq Jobs
    BY DEF Jobs
<1>1. pc \in [Jobs -> PCs] /\ base \in [Writers -> Commits] /\ draft \in [Jobs -> Commits \cup {None}]
    BY DEF TypeInv, TypeOK
<1>2. /\ root.rev <= lastRev
      /\ \A v \in Writers : base[v].rev <= lastRev
      /\ \A j \in Jobs : draft[j] # None => draft[j].rev <= lastRev
    BY DEF NumberInv, ClockInv
<1>3. CASE Begin(w)
    <2>1. /\ UNCHANGED <<events, lastRev, root, draft>>
          /\ base' = [base EXCEPT ![w] = root] /\ pc' = [pc EXCEPT ![w] = "loaded"]
        BY <1>3 DEF Begin, MoveTo, storeVars
    <2>2. \A v \in Writers : base'[v].rev <= lastRev
        BY <1>1, <1>2, <2>1
    <2>3. \A v \in Writers : pc'[v] \in Unannounced =>
              pc[v] \in Unannounced /\ base'[v] = base[v]
        BY <1>0, <1>1, <2>1 DEF Unannounced
    <2>. QED BY <1>2, <2>1, <2>2, <2>3, NumbersStay
<1>4. CASE BuildCommit(w)
    <2>1. /\ UNCHANGED <<events, root, base>> /\ lastRev' = lastRev + 1
          /\ \/ draft' = [draft EXCEPT ![w] = base[w]] /\ pc' = [pc EXCEPT ![w] = "acked"]
             \/ /\ draft' = [draft EXCEPT ![w] =
                                [rev |-> lastRev + 1, tree |-> cacheTree, by |-> "user"]]
                /\ pc' = [pc EXCEPT ![w] = "sign"]
        BY <1>4 DEF BuildCommit, MoveTo, storeVars
    <2>2. \/ draft'[w].rev = lastRev + 1
          \/ pc'[w] \notin Unannounced /\ draft'[w].rev <= lastRev
        BY <1>0, <1>1, <1>2, <2>1 DEF Unannounced
    <2>3. \A i \in Jobs \ {w} : draft'[i] = draft[i] /\ pc'[i] = pc[i]
        BY <1>1, <2>1
    <2>. QED BY <1>0, <2>1, <2>2, <2>3, StampNumbers
<1>5. CASE OpenCached(w) \/ OpenFails(w) \/ ApplyNext(w) \/ BuildFails(w)
    <2>1. /\ UNCHANGED <<events, lastRev, root, draft, base>>
          /\ \A v \in Writers : pc'[v] \in Unannounced => pc[v] \in Unannounced
        BY <1>0, <1>1, <1>5 DEF OpenCached, OpenFails, ApplyNext, BuildFails, MoveTo, storeVars,
                                Unannounced
    <2>. QED BY <1>2, <2>1, NumbersStay
<1>6. CASE Phase5(w) /\ ~Emit(w)
    <2>1. UNCHANGED <<events, lastRev, root, draft, base>>
        BY <1>6 DEF Phase5, Sign, Finalise, FinaliseFails, PersistRecord, PersistFails, storeVars
    <2>2. \A v \in Writers : pc'[v] \in Unannounced => pc[v] \in Unannounced
        BY <1>0, <1>1, <1>6 DEF Phase5, Sign, Finalise, FinaliseFails, PersistRecord,
                                PersistFails, MoveTo, Unannounced
    <2>. QED BY <1>2, <2>1, <2>2, NumbersStay
<1>. QED BY <1>3, <1>4, <1>5, <1>6, EmitNumbers DEF Phase1

\* Imports, root updates, proofs and restarts use no revision twice.
LEMMA OtherNumbers ==
    ASSUME TypeInv, TypeInv', NumberInv,
           \/ \E i \in Importers : Import(i)
           \/ \E j \in Jobs : UpdateRoot(j) \/ UpdateFails(j)
           \/ \E r \in Readers : ReadRoot(r) \/ ReadProof(r)
           \/ Crash
           \/ UNCHANGED vars
    PROVE  NumberInv'
<1>0. Writers \subseteq Jobs /\ Importers \subseteq Jobs
    BY DEF Jobs
<1>1. pc \in [Jobs -> PCs] /\ draft \in [Jobs -> Commits \cup {None}] /\ lastRev \in Nat
    BY DEF TypeInv, TypeOK
<1>2. /\ root.rev <= lastRev
      /\ \A v \in Writers : base[v].rev <= lastRev
      /\ \A j \in Jobs : draft[j] # None => draft[j].rev <= lastRev
    BY DEF NumberInv, ClockInv
<1>3. ASSUME NEW i \in Importers, ImportBlocks(i) PROVE NumberInv'
    <2>1. PICK t \in [Keys -> {i, Absent}] :
              draft' = [draft EXCEPT ![i] = [rev |-> 0, tree |-> t, by |-> "user"]]
        BY <1>3 DEF ImportBlocks
    <2>2. UNCHANGED <<events, lastRev, root, base>> /\ pc' = [pc EXCEPT ![i] = "import"]
        BY <1>3 DEF ImportBlocks, MoveTo
    <2>3. draft'[i].rev <= lastRev /\ \A j \in Jobs \ {i} : draft'[j] = draft[j]
        BY <1>0, <1>1, <2>1
    <2>4. \A w \in Writers : w # i
        BY JobsAssumption
    <2>5. \A w \in Writers : pc'[w] = pc[w] /\ draft'[w] = draft[w]
        BY <1>0, <1>1, <2>2, <2>3, <2>4
    <2>. QED BY <1>2, <2>2, <2>3, <2>5, NumbersStay
<1>4. ASSUME NEW i \in Importers, ImportCommit(i) PROVE NumberInv'
    <2>1. /\ UNCHANGED <<events, root, base>> /\ lastRev' = lastRev + 1
          /\ draft' = [draft EXCEPT ![i] =
                          [rev |-> lastRev + 1, tree |-> draft[i].tree, by |-> "pds"]]
          /\ pc' = [pc EXCEPT ![i] = "update"]
        BY <1>4 DEF ImportCommit, MoveTo
    <2>2. draft'[i].rev = lastRev + 1
        BY <1>0, <1>1, <2>1
    <2>3. \A j \in Jobs \ {i} : draft'[j] = draft[j] /\ pc'[j] = pc[j]
        BY <1>1, <2>1
    <2>. QED BY <1>0, <2>1, <2>2, <2>3, StampNumbers
<1>5. ASSUME NEW i \in Importers, ImportRecords(i) \/ ImportFails(i) PROVE NumberInv'
    <2>1. /\ UNCHANGED <<events, lastRev, root, draft, base>>
          /\ \A v \in Writers : pc'[v] \in Unannounced => pc[v] \in Unannounced
        BY <1>0, <1>1, <1>5 DEF ImportRecords, ImportFails, MoveTo, storeVars, Unannounced
    <2>. QED BY <1>2, <2>1, NumbersStay
<1>6. ASSUME NEW j \in Jobs, UpdateRoot(j) PROVE NumberInv'
    <2>1. /\ UNCHANGED <<events, lastRev, draft, base>> /\ root' = draft[j] /\ pc[j] = "update"
          /\ pc' = [pc EXCEPT ![j] = "acked"]
        BY <1>6 DEF UpdateRoot, MoveTo
    <2>2. draft[j] # None
        BY <2>1, NoCommitAssumption DEF TypeInv, DraftKnown
    <2>3. \A v \in Writers : pc'[v] \in Unannounced => pc[v] \in Unannounced
        BY <1>0, <1>1, <2>1 DEF Unannounced
    <2>. QED BY <1>2, <2>1, <2>2, <2>3, NumbersStay
<1>7. ASSUME NEW j \in Jobs, UpdateFails(j) PROVE NumberInv'
    <2>1. /\ UNCHANGED <<events, lastRev, root, draft, base>>
          /\ \A v \in Writers : pc'[v] \in Unannounced => pc[v] \in Unannounced
        BY <1>0, <1>1, <1>7 DEF UpdateFails, MoveTo, storeVars, Unannounced
    <2>. QED BY <1>2, <2>1, NumbersStay
<1>8. ASSUME UNCHANGED <<events, lastRev, root, draft, base, pc>> PROVE NumberInv'
    BY <1>2, <1>8, NumbersStay
<1>9. ASSUME NEW r \in Readers, ReadRoot(r) \/ ReadProof(r) PROVE NumberInv'
    BY <1>8, <1>9 DEF ReadRoot, ReadProof, storeVars, jobVars
<1>10. CASE Crash
    <2>1. /\ UNCHANGED <<events, lastRev, root, draft, base>>
          /\ \A v \in Writers : pc'[v] \in Unannounced => pc[v] \in Unannounced
        BY <1>0, <1>1, <1>10 DEF Crash, storeVars, Unannounced
    <2>. QED BY <1>2, <2>1, NumbersStay
<1>11. CASE UNCHANGED vars
    BY <1>8, <1>11 DEF vars, storeVars, jobVars
<1>. QED BY <1>3, <1>4, <1>5, <1>6, <1>7, <1>9, <1>10, <1>11 DEF Import

\* That revisions are used once is inductive.
LEMMA NumberStep == TypeInv /\ TypeInv' /\ NumberInv /\ [Next]_vars => NumberInv'
BY WriteNumbers, OtherNumbers DEF Next

\* A new account has one revision and no event.
LEMMA NumberInit == Init => NumberInv
<1>. SUFFICES ASSUME Init PROVE NumberInv
    OBVIOUS
<1>1. ClockInv
    BY DEF Init, ClockInv, Genesis
<1>2. OwnRevInv
    BY DEF Init, OwnRevInv, Unannounced, Jobs
<1>3. EventsHaveOwnRevs
    BY DEF Init, EventsHaveOwnRevs
<1>. QED BY <1>1, <1>2, <1>3 DEF NumberInv

\* However many writes and imports overlap, fail, or lose each other's changes,
\* no two announced commits have the same revision, and each is later than the
\* one that its event says it follows.
THEOREM EventsAreTellable == Spec => []EventsHaveOwnRevs
<1>1. NumberInv => EventsHaveOwnRevs
    BY DEF NumberInv
<1>. QED BY TypeInit, TypeStep, NumberInit, NumberStep, <1>1, PTL DEF Spec
=============================================================================
