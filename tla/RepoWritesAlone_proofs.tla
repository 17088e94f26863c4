----------------------- MODULE RepoWritesAlone_proofs -----------------------
(***************************************************************************)
(* Theorems about RepoWrites when a client has one write or import open at *)
(* a time: MaxOpen = 1, for every set of paths, writes, imports, proofs    *)
(* and batches and every choice of what may fail.                          *)
(***************************************************************************)
EXTENDS RepoWrites_proofs, RepoWritesRefinement, FiniteSetTheorems

-----------------------------------------------------------------------------
(* Who changes what.                                                       *)

\* A write changes nothing of another call's, and the root only at its end.
LEMMA WriteLocal ==
    ASSUME TypeInv, NEW w \in Writers, Phase1(w) \/ Phase5(w)
    PROVE  /\ root' = root
           /\ \A j \in Jobs \ {w} : pc'[j] = pc[j] /\ draft'[j] = draft[j]
           /\ \A v \in Writers \ {w} : /\ base'[v] = base[v] /\ batch'[v] = batch[v]
                                       /\ step'[v] = step[v] /\ entries'[v] = entries[v]
<1>. USE DEF TypeInv, TypeOK, MoveTo, storeVars, cacheVars
<1>0. w \in Jobs
    BY DEF Jobs
<1>1. CASE Begin(w)
    BY <1>0, <1>1 DEF Begin
<1>2. CASE OpenCached(w) \/ OpenFails(w)
    BY <1>0, <1>2 DEF OpenCached, OpenFails
<1>3. CASE ApplyNext(w)
    BY <1>0, <1>3 DEF ApplyNext
<1>4. CASE BuildFails(w) \/ BuildCommit(w)
    BY <1>0, <1>4 DEF BuildFails, BuildCommit
<1>5. CASE Sign(w)
    BY <1>0, <1>5 DEF Sign
<1>6. CASE Finalise(w) \/ FinaliseFails(w)
    BY <1>0, <1>6 DEF Finalise, FinaliseFails
<1>7. CASE PersistRecord(w) \/ PersistFails(w) \/ Emit(w)
    BY <1>0, <1>7 DEF PersistRecord, PersistFails, Emit
<1>. QED BY <1>1, <1>2, <1>3, <1>4, <1>5, <1>6, <1>7 DEF Phase1, Phase5

\* So does an import, which has nothing but a place and a commit.
LEMMA ImportLocal ==
    ASSUME TypeInv, NEW i \in Importers, Import(i)
    PROVE  /\ UNCHANGED <<root, events, base, batch, step, entries>>
           /\ UNCHANGED <<lock, cacheRoot, cacheTree>>
           /\ \A j \in Jobs \ {i} : pc'[j] = pc[j] /\ draft'[j] = draft[j]
           /\ i \in Jobs /\ i \notin Writers
<1>. USE DEF TypeInv, TypeOK, MoveTo, storeVars, cacheVars
<1>0. i \in Jobs /\ i \notin Writers
    BY JobsAssumption DEF Jobs
<1>1. CASE ImportBlocks(i)
    BY <1>0, <1>1 DEF ImportBlocks
<1>2. CASE ImportRecords(i) \/ ImportCommit(i) \/ ImportFails(i)
    BY <1>0, <1>2 DEF ImportRecords, ImportCommit, ImportFails
<1>. QED BY <1>0, <1>1, <1>2 DEF Import

-----------------------------------------------------------------------------
(* One call is open at a time.                                             *)

OneOpen == \A i, j \in Jobs : pc[i] \notin Ended /\ pc[j] \notin Ended => i = j

\* There is room for another call when none is open.
LEMMA RoomWhenAlone ==
    ASSUME MaxOpen = 1, OneOpen, Room
    PROVE  \A j \in Jobs : pc[j] \in Ended
<1>. DEFINE O == {j \in Jobs : pc[j] \notin Ended}
<1>1. SUFFICES ASSUME NEW j \in O PROVE FALSE
    OBVIOUS
<1>2. O = {j}
    BY DEF OneOpen
<1>3. Cardinality(O) = 1
    BY <1>2, FS_Singleton
<1>. QED BY <1>3 DEF Room

\* A call that has not begun, or has ended, opens only when there is room.
LEMMA OpensInRoom ==
    ASSUME TypeInv, [Next]_vars, NEW j \in Jobs, pc[j] \in Ended, pc'[j] \notin Ended
    PROVE  Room /\ \A i \in Jobs \ {j} : pc'[i] = pc[i]
<1>. USE DEF TypeInv, TypeOK, MoveTo, Ended
<1>1. ASSUME NEW w \in Writers, Phase1(w) \/ Phase5(w) PROVE Room /\ j = w
    <2>0. w \in Jobs /\ j = w
        BY <1>1, WriteLocal DEF Jobs
    <2>1. CASE Begin(w)
        BY <2>0, <2>1 DEF Begin
    <2>2. CASE OpenCached(w) \/ OpenFails(w) \/ ApplyNext(w) \/ BuildFails(w) \/ BuildCommit(w)
        BY <2>0, <2>2 DEF OpenCached, OpenFails, ApplyNext, BuildFails, BuildCommit
    <2>3. CASE Phase5(w)
        BY <2>0, <2>3 DEF Phase5, Sign, Finalise, FinaliseFails, PersistRecord,
                          PersistFails, Emit
    <2>. QED BY <1>1, <2>0, <2>1, <2>2, <2>3 DEF Phase1
<1>2. ASSUME NEW i \in Importers, Import(i) PROVE Room /\ j = i
    <2>0. i \in Jobs /\ j = i
        BY <1>2, ImportLocal
    <2>. QED BY <1>2, <2>0 DEF Import, ImportBlocks, ImportRecords, ImportCommit, ImportFails
<1>3. ASSUME NEW i \in Jobs, UpdateRoot(i) \/ UpdateFails(i) PROVE FALSE
    BY <1>3 DEF UpdateRoot, UpdateFails
<1>4. ASSUME NEW r \in Readers, ReadRoot(r) \/ ReadProof(r) PROVE FALSE
    BY <1>4 DEF ReadRoot, ReadProof, jobVars
<1>5. CASE Crash
    BY <1>5 DEF Crash
<1>6. CASE UNCHANGED vars
    BY <1>6 DEF vars, jobVars
<1>. QED BY <1>1, <1>2, <1>3, <1>4, <1>5, <1>6, WriteLocal, ImportLocal DEF Next

\* That one call is open at a time is inductive.
LEMMA OneOpenStep ==
    ASSUME MaxOpen = 1, TypeInv, OneOpen, [Next]_vars
    PROVE  OneOpen'
<1>1. SUFFICES ASSUME NEW i \in Jobs, NEW j \in Jobs,
                      pc'[i] \notin Ended, pc'[j] \notin Ended
               PROVE  i = j
    BY DEF OneOpen
<1>2. CASE pc[i] \in Ended
    BY <1>1, <1>2, OpensInRoom, RoomWhenAlone
<1>3. CASE pc[j] \in Ended
    BY <1>1, <1>3, OpensInRoom, RoomWhenAlone
<1>. QED BY <1>2, <1>3 DEF OneOpen
\* Once a call stores its root, nobody is open any more.
LEMMA NobodyAfterUpdate ==
    ASSUME TypeInv, OneOpen, NEW j \in Jobs, UpdateRoot(j)
    PROVE  \A i \in Jobs : pc'[i] \in Ended
BY DEF TypeInv, TypeOK, OneOpen, UpdateRoot, MoveTo, Ended

\* Only an update stores a root; nothing else of a call but its place changes
\* with an update, a proof or a restart.
LEMMA OtherLocal ==
    ASSUME TypeInv,
           \/ \E j \in Jobs : UpdateRoot(j) \/ UpdateFails(j)
           \/ \E r \in Readers : ReadRoot(r) \/ ReadProof(r)
           \/ Crash
           \/ UNCHANGED vars
    PROVE  /\ UNCHANGED <<base, batch, step, entries, draft, events, lastRev, records>>
           /\ root' = root \/ \E j \in Jobs : UpdateRoot(j)
           /\ \A j \in Jobs : pc'[j] = pc[j] \/ pc'[j] \in {"acked", "failed"}
BY DEF UpdateRoot, UpdateFails, ReadRoot, ReadProof, Crash, vars, jobVars, storeVars,
       cacheVars, MoveTo, TypeInv, TypeOK, Ended

\* The root that the middleware read is the root until the write ends.
BaseInv == \A w \in Writers : pc[w] \notin Ended => base[w] = root

\* That nobody's root is out of date is inductive when one call is open at a time.
LEMMA BaseStep ==
    ASSUME MaxOpen = 1, TypeInv, OneOpen, BaseInv, [Next]_vars
    PROVE  BaseInv'
<1>. USE DEF TypeInv, TypeOK
<1>0. Writers \subseteq Jobs
    BY DEF Jobs
<1>1. ASSUME NEW w \in Writers, Phase1(w) \/ Phase5(w) PROVE BaseInv'
    <2>1. \A v \in Writers \ {w} : (pc'[v] \notin Ended => base'[v] = root')
        BY <1>0, <1>1, WriteLocal DEF BaseInv
    <2>2. pc'[w] \notin Ended => base'[w] = root'
        <3>1. CASE Begin(w)
            BY <1>0, <3>1 DEF Begin, storeVars
        <3>2. CASE ~Begin(w)
            <4>1. base' = base /\ pc[w] \notin Ended
                BY <1>0, <1>1, <3>2 DEF Phase1, Phase5, OpenCached, OpenFails, ApplyNext,
                       BuildFails, BuildCommit, Sign, Finalise, FinaliseFails, PersistRecord,
                       PersistFails, Emit, Ended
            <4>. QED BY <1>1, <4>1, WriteLocal DEF BaseInv
        <3>. QED BY <3>1, <3>2
    <2>. QED BY <2>1, <2>2 DEF BaseInv
<1>2. ASSUME NEW i \in Importers, Import(i) PROVE BaseInv'
    BY <1>0, <1>2, ImportLocal DEF BaseInv
<1>3. CASE \E j \in Jobs : UpdateRoot(j)
    BY <1>0, <1>3, NobodyAfterUpdate DEF BaseInv
<1>4. CASE /\ ~\E j \in Jobs : UpdateRoot(j)
           /\ \/ \E j \in Jobs : UpdateFails(j)
              \/ \E r \in Readers : ReadRoot(r) \/ ReadProof(r)
              \/ Crash
              \/ UNCHANGED vars
    BY <1>0, <1>4, OtherLocal DEF BaseInv, Ended
<1>. QED BY <1>1, <1>2, <1>3, <1>4 DEF Next

-----------------------------------------------------------------------------
(* Revisions.                                                              *)

\* A commit that has been stamped, and is not yet the root, is newer than it.
Stamped(j) == \/ pc[j] \in {"sign", "finalise", "persist"} /\ j \in Writers
              \/ pc[j] = "update"

RevInv ==
    /\ root.rev <= lastRev
    /\ \A j \in Jobs : Stamped(j) => root.rev < draft[j].rev /\ draft[j].rev <= lastRev

\* The clock goes on, and whoever is stamped was stamped before.
LEMMA StampsNothing ==
    ASSUME TypeInv, RevInv, root' = root, lastRev' \in Nat, lastRev <= lastRev',
           \A j \in Jobs : Stamped(j)' => Stamped(j) /\ draft'[j] = draft[j]
    PROVE  RevInv'
<1>1. root.rev \in Nat /\ lastRev \in Nat
    BY DEF TypeInv, TypeOK, Commits
<1>2. ASSUME NEW j \in Jobs, Stamped(j)
      PROVE  draft[j].rev \in Nat
    BY <1>2 DEF TypeInv, DraftKnown, Stamped, Commits
<1>. QED BY <1>1, <1>2 DEF RevInv

\* A commit is stamped later than every root so far.
LEMMA StampedLater ==
    ASSUME TypeInv, RevInv, root' = root, lastRev' = lastRev + 1, NEW j \in Jobs,
           draft'[j].rev = lastRev + 1,
           \A i \in Jobs \ {j} : pc'[i] = pc[i] /\ draft'[i] = draft[i]
    PROVE  RevInv'
<1>1. root.rev \in Nat /\ lastRev \in Nat
    BY DEF TypeInv, TypeOK, Commits
<1>2. ASSUME NEW i \in Jobs \ {j}, Stamped(i)'
      PROVE  Stamped(i) /\ draft[i].rev \in Nat
    BY <1>2 DEF TypeInv, DraftKnown, Stamped, Commits
<1>. QED BY <1>1, <1>2 DEF RevInv

\* Revisions stay ordered when one call is open at a time.
LEMMA RevStep ==
    ASSUME MaxOpen = 1, TypeInv, OneOpen, RevInv, [Next]_vars
    PROVE  RevInv'
<1>. USE DEF TypeInv, TypeOK, MoveTo
<1>0. Writers \subseteq Jobs /\ lastRev \in Nat
    BY DEF Jobs
<1>1. ASSUME NEW w \in Writers, Phase1(w) \/ Phase5(w) PROVE RevInv'
    <2>1. CASE BuildCommit(w)
        <3>1. CASE pc'[w] = "acked"
            <4>1. \A j \in Jobs : Stamped(j)' => Stamped(j) /\ draft'[j] = draft[j]
                BY <1>1, <3>1, WriteLocal DEF Stamped
            <4>2. lastRev' = lastRev + 1
                BY <2>1 DEF BuildCommit
            <4>. QED BY <1>0, <1>1, <4>1, <4>2, WriteLocal, StampsNothing
        <3>2. CASE pc'[w] # "acked"
            <4>1. draft'[w].rev = lastRev + 1 /\ lastRev' = lastRev + 1
                BY <1>0, <2>1, <3>2 DEF BuildCommit
            <4>. QED BY <1>0, <1>1, <4>1, WriteLocal, StampedLater
        <3>. QED BY <3>1, <3>2
    <2>2. CASE ~BuildCommit(w)
        <3>1. lastRev' = lastRev /\ draft' = draft /\ (Stamped(w)' => Stamped(w))
            BY <1>0, <1>1, <2>2 DEF Phase1, Phase5, Begin, OpenCached, OpenFails, ApplyNext,
                   BuildFails, Sign, Finalise, FinaliseFails, PersistRecord,
                   PersistFails, Emit, Stamped
        <3>2. \A j \in Jobs : Stamped(j)' => Stamped(j) /\ draft'[j] = draft[j]
            BY <1>1, <3>1, WriteLocal DEF Stamped
        <3>. QED BY <1>0, <1>1, <3>1, <3>2, WriteLocal, StampsNothing
    <2>. QED BY <2>1, <2>2
<1>2. ASSUME NEW i \in Importers, Import(i) PROVE RevInv'
    <2>1. CASE ImportCommit(i)
        <3>1. draft'[i].rev = lastRev + 1 /\ lastRev' = lastRev + 1
            BY <1>2, <2>1, ImportLocal DEF ImportCommit
        <3>. QED BY <1>2, <3>1, ImportLocal, StampedLater
    <2>2. CASE ~ImportCommit(i)
        <3>1. lastRev' = lastRev /\ pc'[i] \in {"import", "commit", "failed"}
            BY <1>2, <2>2, ImportLocal DEF Import, ImportBlocks, ImportRecords, ImportFails,
                                           storeVars
        <3>2. \A j \in Jobs : Stamped(j)' => Stamped(j) /\ draft'[j] = draft[j]
            BY <1>2, <3>1, ImportLocal DEF Stamped
        <3>. QED BY <1>0, <1>2, <3>1, <3>2, ImportLocal, StampsNothing
    <2>. QED BY <2>1, <2>2
<1>3. ASSUME NEW j \in Jobs, UpdateRoot(j) PROVE RevInv'
    <2>1. Stamped(j) /\ root' = draft[j] /\ lastRev' = lastRev
        BY <1>3 DEF UpdateRoot, Stamped
    <2>2. \A i \in Jobs : ~Stamped(i)'
        BY <1>3, NobodyAfterUpdate DEF Stamped, Ended
    <2>. QED BY <2>1, <2>2 DEF RevInv
<1>4. CASE /\ ~\E j \in Jobs : UpdateRoot(j)
           /\ \/ \E j \in Jobs : UpdateFails(j)
              \/ \E r \in Readers : ReadRoot(r) \/ ReadProof(r)
              \/ Crash
              \/ UNCHANGED vars
    <2>1. \A j \in Jobs : Stamped(j)' => Stamped(j) /\ draft'[j] = draft[j]
        BY <1>4, OtherLocal DEF Stamped
    <2>. QED BY <1>0, <1>4, <2>1, OtherLocal, StampsNothing
<1>. QED BY <1>1, <1>2, <1>3, <1>4 DEF Next

\* Only an update changes the root.
LEMMA RootChanges ==
    ASSUME TypeInv, [Next]_vars, root' # root
    PROVE  \E j \in Jobs : UpdateRoot(j)
BY WriteLocal, ImportLocal, OtherLocal DEF Next

\* What holds of the calls when one is open at a time.
AloneInv == OneOpen /\ BaseInv /\ RevInv

\* At first no call is open.
LEMMA AloneInit == Init => AloneInv
BY DEF Init, AloneInv, OneOpen, BaseInv, RevInv, Stamped, Genesis, Ended, Jobs

\* The invariant of calls made one after the other is inductive.
LEMMA AloneStep ==
    ASSUME MaxOpen = 1
    PROVE  TypeInv /\ AloneInv /\ [Next]_vars => AloneInv'
BY OneOpenStep, BaseStep, RevStep DEF AloneInv

\* A client that writes one thing after the other sees revisions that only grow.
THEOREM RevisionsAdvance ==
    ASSUME MaxOpen = 1
    PROVE  Spec => RevAdvances
<1>1. TypeInv /\ AloneInv /\ [Next]_vars => [root' # root => root'.rev > root.rev]_vars
    <2>1. SUFFICES ASSUME TypeInv, AloneInv, Next, root' # root PROVE root'.rev > root.rev
        OBVIOUS
    <2>2. PICK j \in Jobs : UpdateRoot(j)
        BY <2>1, RootChanges
    <2>3. Stamped(j) /\ root' = draft[j]
        BY <2>2 DEF UpdateRoot, Stamped
    <2>4. root.rev \in Nat /\ draft[j].rev \in Nat
        BY <2>1, <2>2 DEF UpdateRoot, TypeInv, TypeOK, DraftKnown, Commits
    <2>. QED BY <2>1, <2>3, <2>4 DEF AloneInv, RevInv
<1>. QED BY TypeInit, TypeStep, AloneInit, AloneStep, <1>1, PTL DEF Spec, RevAdvances

-----------------------------------------------------------------------------
(* What a write announces is what it has done.                             *)

\* What counts of a sequence of changes is its first n.
LEMMA OverlaySame ==
    ASSUME NEW r, NEW s, NEW n \in Nat, NEW t, \A i \in 1..n : r[i] = s[i]
    PROVE  Overlay(r, n, t) = Overlay(s, n, t)
<1>1. ASSUME NEW k \in Keys PROVE Holds(r, n, t, k) = Holds(s, n, t, k)
    <2>1. LastOn(r, n, k) = LastOn(s, n, k)
        BY DEF LastOn
    <2>2. ASSUME LastOn(s, n, k) # {}
          PROVE  TheOne(LastOn(s, n, k)) \in 1..n
        <3>1. TheOne(LastOn(s, n, k)) \in LastOn(s, n, k)
            BY <2>2 DEF TheOne
        <3>. QED BY <3>1 DEF LastOn
    <2>. QED BY <2>1, <2>2 DEF Holds
<1>. QED BY <1>1 DEF Overlay

\* A change at the end is the one that its path holds.
LEMMA OverlayAppend ==
    ASSUME NEW s \in Seq(Entries), NEW e \in Entries, NEW t \in Trees
    PROVE  Overlay(Append(s, e), Len(Append(s, e)), t) =
               [Overlay(s, Len(s), t) EXCEPT ![e.key] = e.val]
<1>. DEFINE r == Append(s, e)
<1>1. Len(s) \in Nat /\ Len(r) = Len(s) + 1 /\ r[Len(s) + 1] = e
    OBVIOUS
<1>2. \A i \in 1..Len(s) : r[i] = s[i]
    OBVIOUS
<1>3. e.key \in Keys
    BY DEF Entries
<1>. HIDE DEF r
<1>4. Overlay(r, Len(s), t) = Overlay(s, Len(s), t)
    BY <1>1, <1>2, OverlaySame
<1>5. Overlay(r, Len(s) + 1, t) =
          [Overlay(r, Len(s), t) EXCEPT ![r[Len(s) + 1].key] = r[Len(s) + 1].val]
    BY <1>1, <1>3, OverlayNext
<1>6. Overlay(r, Len(r), t) = [Overlay(s, Len(s), t) EXCEPT ![e.key] = e.val]
    BY <1>1, <1>4, <1>5
<1>. QED BY <1>6 DEF r

\* What a write's entries make of its base.
Made(w) == Overlay(entries[w], Len(entries[w]), base[w].tree)

\* The entries of a write lead from its base to the tree it has changed so far,
\* and then to the one of its commit.
EntryInv ==
    \A w \in Writers :
        /\ pc[w] = "mutate" => cacheTree = Made(w)
        /\ pc[w] \in {"sign", "finalise", "persist", "update"} => draft[w].tree = Made(w)

\* Steps that change no entries, and bring nobody to a tree or a commit.
LEMMA MakesNothing ==
    ASSUME EntryInv, UNCHANGED <<base, entries>>,
           \A w \in Writers :
               /\ pc'[w] = "mutate" => pc[w] = "mutate" /\ cacheTree' = cacheTree
               /\ pc'[w] \in {"sign", "finalise", "persist", "update"} =>
                      /\ pc[w] \in {"sign", "finalise", "persist", "update"}
                      /\ draft'[w] = draft[w]
    PROVE  EntryInv'
BY DEF EntryInv, Made

\* A write that is given the tree of its root has changed nothing yet.
LEMMA OpenMakes ==
    ASSUME TypeInv, TreeInv, EntryInv, NEW w \in Writers, OpenCached(w)
    PROVE  EntryInv'
<1>0. w \in Jobs /\ Writers \subseteq Jobs
    BY DEF Jobs
<1>1. /\ pc[w] = "loaded" /\ lock' = w /\ UNCHANGED <<base, entries, draft>>
      /\ \A v \in Writers \ {w} : pc'[v] = pc[v]
      /\ pc'[w] = "mutate"
    BY <1>0 DEF OpenCached, MoveTo, TypeInv, TypeOK
<1>2. MutateInv'
    BY OpenTrees DEF TreeInv
<1>3. \A v \in Writers \ {w} : pc'[v] # "mutate"
    BY <1>1, <1>2 DEF MutateInv
<1>4. entries[w] = <<>> /\ cacheTree' = base[w].tree
    BY <1>1, <1>2 DEF MutateInv, TreeInv, FreshInv
<1>5. Made(w) = base[w].tree
    <2>1. base[w].tree \in Trees
        BY DEF TypeInv, TypeOK, Commits
    <2>2. Len(entries[w]) = 0
        BY <1>4
    <2>. QED BY <2>1, <2>2, OverlayNone DEF Made
<1>. QED BY <1>1, <1>3, <1>4, <1>5 DEF EntryInv, Made

\* One more operation is one more entry, or none.
LEMMA ApplyMakes ==
    ASSUME TypeInv, TreeInv, EntryInv, NEW w \in Writers, ApplyNext(w)
    PROVE  EntryInv'
<1>. DEFINE e == [key |-> batch[w][step[w]].key, val |-> Value(batch[w][step[w]], w)]
<1>1. /\ pc[w] = "mutate" /\ UNCHANGED <<pc, base, draft>>
      /\ entries \in [Writers -> Seq(Entries)] /\ base[w].tree \in Trees
    BY DEF ApplyNext, TypeInv, TypeOK, Commits
<1>2. \/ UNCHANGED <<cacheTree, entries>>
      \/ /\ cacheTree' = [cacheTree EXCEPT ![e.key] = e.val]
         /\ entries' = [entries EXCEPT ![w] = Append(@, e)]
    BY DEF ApplyNext
<1>3. e \in Entries
    BY OpType DEF ApplyNext, Entries, TypeInv
<1>. HIDE DEF e
<1>4. \A v \in Writers \ {w} : pc'[v] # "mutate" /\ entries'[v] = entries[v]
    BY <1>1, <1>2, OneMutates
<1>5. Overlay(Append(entries[w], e), Len(Append(entries[w], e)), base[w].tree) =
          [Made(w) EXCEPT ![e.key] = e.val]
    BY <1>1, <1>3, OverlayAppend DEF Made
<1>6. cacheTree' = Made(w)'
    <2>1. cacheTree = Made(w)
        BY <1>1 DEF EntryInv
    <2>2. CASE UNCHANGED <<cacheTree, entries>>
        BY <1>1, <2>1, <2>2 DEF Made
    <2>3. CASE ~UNCHANGED <<cacheTree, entries>>
        <3>1. entries'[w] = Append(entries[w], e)
            BY <1>1, <1>2, <2>3
        <3>2. cacheTree' = [Made(w) EXCEPT ![e.key] = e.val]
            BY <1>2, <2>1, <2>3
        <3>. QED BY <1>1, <1>5, <3>1, <3>2 DEF Made
    <2>. QED BY <2>2, <2>3
<1>. QED BY <1>1, <1>4, <1>6 DEF EntryInv, Made

\* What the entries of writes lead to is inductive.
LEMMA EntryStep == TypeInv /\ TreeInv /\ EntryInv /\ [Next]_vars => EntryInv'
<1>. SUFFICES ASSUME TypeInv, TreeInv, EntryInv, [Next]_vars PROVE EntryInv'
    OBVIOUS
<1>0. Writers \subseteq Jobs
    BY DEF Jobs
<1>1. ASSUME NEW w \in Writers, Phase1(w) \/ Phase5(w) PROVE EntryInv'
    <2>1. CASE Begin(w)
        <3>1. pc'[w] = "loaded" /\ UNCHANGED <<entries, draft, cacheTree>>
            BY <1>0, <2>1 DEF Begin, MoveTo, TypeInv, TypeOK, cacheVars
        <3>. QED BY <1>0, <1>1, <3>1, WriteLocal DEF EntryInv, Made
    <2>2. CASE BuildCommit(w)
        <3>1. /\ pc[w] = "mutate" /\ UNCHANGED <<entries, base, cacheTree>>
              /\ pc'[w] \in {"acked", "sign"}
              /\ pc'[w] = "sign" => draft'[w].tree = cacheTree
            BY <1>0, <2>2 DEF BuildCommit, MoveTo, TypeInv, TypeOK
        <3>. QED BY <1>0, <1>1, <3>1, WriteLocal DEF EntryInv, Made
    <2>3. CASE OpenFails(w) \/ BuildFails(w) \/ Phase5(w)
        <3>1. /\ UNCHANGED <<entries, base, cacheTree, draft>>
              /\ \/ pc'[w] = "failed"
                 \/ /\ pc[w] \in {"sign", "finalise", "persist"}
                    /\ pc'[w] \in {"finalise", "persist", "update"}
            BY <1>0, <2>3 DEF Phase5, OpenFails, BuildFails, Sign, Finalise, FinaliseFails,
                   PersistRecord, PersistFails, Emit, MoveTo, TypeInv, TypeOK, cacheVars
        <3>. QED BY <1>0, <1>1, <3>1, WriteLocal, MakesNothing
    <2>. QED BY <1>1, <2>1, <2>2, <2>3, OpenMakes, ApplyMakes DEF Phase1
<1>2. ASSUME NEW i \in Importers, Import(i) PROVE EntryInv'
    BY <1>0, <1>2, ImportLocal, MakesNothing
<1>3. ASSUME NEW r \in Readers, ReadProof(r) PROVE EntryInv'
    BY <1>3, OneMutates, MakesNothing DEF ReadProof, jobVars
<1>4. CASE \/ \E j \in Jobs : UpdateRoot(j) \/ UpdateFails(j)
           \/ \E r \in Readers : ReadRoot(r)
           \/ Crash
           \/ UNCHANGED vars
    <2>1. cacheTree' = cacheTree
        BY <1>4 DEF UpdateRoot, UpdateFails, ReadRoot, Crash, vars, cacheVars
    <2>2. UNCHANGED <<base, entries, draft>>
          /\ \A j \in Jobs : pc'[j] = pc[j] \/ pc'[j] \in {"acked", "failed"}
        BY <1>4, OtherLocal
    <2>. QED BY <1>0, <2>1, <2>2, MakesNothing
<1>. QED BY <1>1, <1>2, <1>3, <1>4 DEF Next

\* At first no write has changed anything.
LEMMA EntryInit == Init => EntryInv
BY DEF Init, EntryInv, Jobs

\* One write after the other, every commit event continues from the root: the
\* operations it lists lead from the content that the subscribers of the firehose
\* know to the content of the commit.
THEOREM EventsFollowTheRoot ==
    ASSUME MaxOpen = 1
    PROVE  Spec => EventFollowsRoot
<1>. DEFINE Follows ==
         LET e == events'[Len(events')]
         IN  /\ e.since = root.rev
             /\ e.commit.tree = Overlay(e.ops, Len(e.ops), root.tree)
<1>1. TypeInv /\ AloneInv /\ EntryInv /\ [Next]_vars => [events' # events => Follows]_vars
    <2>1. SUFFICES ASSUME TypeInv, AloneInv, EntryInv, Next, events' # events PROVE Follows
        OBVIOUS
    <2>2. PICK w \in Writers : Emit(w)
        <3>1. ASSUME NEW w \in Writers, Phase1(w) \/ Phase5(w) PROVE Emit(w)
            BY <2>1, <3>1 DEF Phase1, Phase5, Begin, OpenCached, OpenFails, ApplyNext,
                   BuildFails, BuildCommit, Sign, Finalise, FinaliseFails, PersistRecord,
                   PersistFails, storeVars
        <3>. QED BY <2>1, <3>1, ImportLocal, OtherLocal DEF Next
    <2>. DEFINE e == [commit |-> draft[w], since |-> base[w].rev, ops |-> entries[w]]
    <2>3. w \in Jobs /\ pc[w] = "persist"
        BY <2>2 DEF Emit, Jobs
    <2>4. base[w] = root /\ draft[w].tree = Made(w)
        BY <2>1, <2>3 DEF AloneInv, BaseInv, EntryInv, Ended
    <2>5. events' = Append(events, e) /\ events \in Seq(Events)
        BY <2>1, <2>2 DEF Emit, TypeInv, TypeOK
    <2>6. events'[Len(events')] = e
        BY <2>5
    <2>. QED BY <2>4, <2>6 DEF Made
<1>. QED BY TypeInit, TypeStep, TreeInit, TreeStep, EntryInit, EntryStep, AloneInit, AloneStep,
            <1>1, PTL DEF Spec, EventFollowsRoot

-----------------------------------------------------------------------------
(* The rows are those of the repository.                                   *)

\* A write that has failed, or an import, may have left a row at k.
Left(k) ==
    \/ \E w \in Writers : /\ pc[w] = "failed"
                          /\ \E j \in 1..Len(batch[w]) : batch[w][j].key = k
    \/ \E i \in Importers : pc[i] # "idle"

\* The rows are those of t, but for the paths where something was left.
RowsAre(t) == \A k \in Keys : records[k] = t[k] \/ Left(k)

\* A write changes only paths of its batch.
EntriesOfBatch(w) ==
    \A n \in 1..Len(entries[w]) : \E j \in 1..Len(batch[w]) : batch[w][j].key = entries[w][n].key

\* The loop over the entries starts at the first and ends after the last.
StepInRange(w) ==
    /\ pc[w] = "finalise" => step[w] = 1
    /\ pc[w] = "persist" => step[w] <= Len(entries[w]) + 1

\* What the rows of a repository are while w is at work: those of the root with
\* the entries before the one it is at.
Partly(w) == Overlay(entries[w], step[w] - 1, root.tree)

\* RowsFollowRepo is not inductive: a write that ends well leaves the rows of
\* its commit, and one that fails before its rows has left none.
RowInv ==
    /\ \A w \in Writers : EntriesOfBatch(w) /\ StepInRange(w)
    /\ \A w \in Writers : pc[w] = "persist" => RowsAre(Partly(w))
    /\ \A w \in Writers : pc[w] = "update" => RowsAre(draft[w].tree)
    /\ (\A w \in Writers : pc[w] \notin {"persist", "update"}) => RowsAre(root.tree)

\* A path that no entry changes stays as it is.
LEMMA OverlayElsewhere ==
    ASSUME NEW s, NEW n \in Nat, NEW t \in Trees, NEW k \in Keys,
           \A i \in 1..n : s[i].key # k
    PROVE  Overlay(s, n, t)[k] = t[k]
<1>1. LastOn(s, n, k) = {}
    BY DEF LastOn
<1>. QED BY <1>1 DEF Overlay, Holds

\* Where a write at work in its rows has changed one, its batch says so.
LEMMA ChangedInBatch ==
    ASSUME TypeInv, RowInv, NEW w \in Writers, NEW k \in Keys, NEW n \in Nat,
           n <= Len(entries[w]), NEW t \in Trees, Overlay(entries[w], n, t)[k] # t[k]
    PROVE  \E j \in 1..Len(batch[w]) : batch[w][j].key = k
<1>1. PICK i \in 1..n : entries[w][i].key = k
    BY OverlayElsewhere
<1>2. i \in 1..Len(entries[w])
    BY DEF TypeInv, TypeOK
<1>. QED BY <1>1, <1>2 DEF RowInv, EntriesOfBatch

\* What a write with rows of its own leaves when it fails.
LEMMA LeftByWriter ==
    ASSUME TypeInv, AloneInv, EntryInv, RowInv, NEW w \in Writers,
           pc[w] \in {"persist", "update"}, NEW k \in Keys, records[k] # root.tree[k]
    PROVE  Left(k) \/ \E j \in 1..Len(batch[w]) : batch[w][j].key = k
<1>0. w \in Jobs /\ root.tree \in Trees
    BY DEF Jobs, TypeInv, TypeOK, Commits
<1>1. entries[w] \in Seq(Entries) /\ Len(entries[w]) \in Nat /\ step[w] \in Nat \ {0}
    BY DEF TypeInv, TypeOK
<1>2. CASE pc[w] = "persist"
    <2>1. step[w] - 1 \in Nat /\ step[w] - 1 <= Len(entries[w])
        BY <1>1, <1>2 DEF RowInv, StepInRange
    <2>2. records[k] = Partly(w)[k] \/ Left(k)
        BY <1>2 DEF RowInv, RowsAre
    <2>. QED BY <1>0, <2>1, <2>2, ChangedInBatch DEF Partly
<1>3. CASE pc[w] = "update"
    <2>1. draft[w].tree = Overlay(entries[w], Len(entries[w]), root.tree)
        BY <1>0, <1>3 DEF AloneInv, BaseInv, EntryInv, Made, Ended
    <2>2. records[k] = draft[w].tree[k] \/ Left(k)
        BY <1>3 DEF RowInv, RowsAre
    <2>. QED BY <1>0, <1>1, <2>1, <2>2, ChangedInBatch
<1>. QED BY <1>2, <1>3

\* What was left stays.
LEMMA LeftStays ==
    ASSUME TypeInv, NEW k,
           \A w \in Writers : pc[w] = "failed" => pc'[w] = "failed" /\ batch'[w] = batch[w],
           \A i \in Importers : pc[i] # "idle" => pc'[i] # "idle",
           Left(k)
    PROVE  Left(k)'
BY DEF Left

\* A failed write has failed for good, and an import that was begun is not begun
\* again.
LEMMA LeftKept ==
    ASSUME TypeInv, [Next]_vars, NEW k, Left(k)
    PROVE  Left(k)'
<1>. USE DEF TypeInv, TypeOK, MoveTo
<1>0. Writers \subseteq Jobs /\ Importers \subseteq Jobs
    BY DEF Jobs
<1>1. ASSUME NEW w \in Writers, Phase1(w) \/ Phase5(w) PROVE Left(k)'
    <2>1. pc[w] # "failed"
        BY <1>1 DEF Phase1, Phase5, Begin, OpenCached, OpenFails, ApplyNext, BuildFails,
               BuildCommit, Sign, Finalise, FinaliseFails, PersistRecord, PersistFails, Emit
    <2>2. w \notin Importers
        BY JobsAssumption
    <2>. QED BY <1>0, <1>1, <2>1, <2>2, WriteLocal, LeftStays
<1>2. ASSUME NEW i \in Importers, Import(i) PROVE Left(k)'
    <2>1. pc'[i] # "idle" /\ i \notin Writers
        BY <1>0, <1>2, JobsAssumption
        DEF Import, ImportBlocks, ImportRecords, ImportCommit, ImportFails
    <2>. QED BY <1>0, <1>2, <2>1, ImportLocal, LeftStays
<1>3. ASSUME NEW j \in Jobs, UpdateRoot(j) \/ UpdateFails(j) PROVE Left(k)'
    BY <1>0, <1>3, LeftStays DEF UpdateRoot, UpdateFails
<1>4. ASSUME NEW r \in Readers, ReadRoot(r) \/ ReadProof(r) PROVE Left(k)'
    BY <1>4, LeftStays DEF ReadRoot, ReadProof, jobVars
<1>5. CASE Crash
    BY <1>0, <1>5, LeftStays DEF Crash, Ended
<1>6. CASE UNCHANGED vars
    BY <1>6, LeftStays DEF vars, jobVars
<1>. QED BY <1>1, <1>2, <1>3, <1>4, <1>5, <1>6 DEF Next

\* Every entry is of an operation of the batch.
LEMMA ApplyOfBatch ==
    ASSUME TypeInv, NEW w \in Writers, ApplyNext(w), EntriesOfBatch(w)
    PROVE  EntriesOfBatch(w)'
<1>. DEFINE e == [key |-> batch[w][step[w]].key, val |-> Value(batch[w][step[w]], w)]
<1>1. entries[w] \in Seq(Entries) /\ step[w] \in 1..Len(batch[w]) /\ batch' = batch
    BY DEF ApplyNext, TypeInv, TypeOK
<1>2. entries'[w] = entries[w] \/ entries'[w] = Append(entries[w], e)
    BY DEF ApplyNext, TypeInv, TypeOK
<1>3. CASE entries'[w] = Append(entries[w], e)
    <2>1. Len(entries[w]) \in Nat /\ Len(entries'[w]) = Len(entries[w]) + 1
        BY <1>1, <1>3
    <2>2. \A n \in 1..Len(entries[w]) : entries'[w][n] = entries[w][n]
        BY <1>1, <1>3
    <2>3. entries'[w][Len(entries[w]) + 1].key = batch[w][step[w]].key
        BY <1>1, <1>3
    <2>4. SUFFICES ASSUME NEW n \in 1..Len(entries'[w])
                   PROVE  \E j \in 1..Len(batch[w]) : batch[w][j].key = entries'[w][n].key
        BY <1>1 DEF EntriesOfBatch
    <2>5. n \in 1..Len(entries[w]) \/ n = Len(entries[w]) + 1
        BY <2>1
    <2>. QED BY <1>1, <2>2, <2>3, <2>5 DEF EntriesOfBatch
<1>. QED BY <1>1, <1>2, <1>3 DEF EntriesOfBatch

\* The loops of a write are where they can be.
LEMMA LoopStep ==
    ASSUME TypeInv, TreeInv, NEW w \in Writers, Phase1(w) \/ Phase5(w),
           EntriesOfBatch(w), StepInRange(w)
    PROVE  EntriesOfBatch(w)' /\ StepInRange(w)'
<1>. USE DEF TypeInv, TypeOK, MoveTo, StepInRange
<1>0. w \in Jobs
    BY DEF Jobs
<1>1. CASE Begin(w)
    <2>1. entries'[w] = <<>> /\ pc'[w] = "loaded"
        BY <1>0, <1>1 DEF Begin, TreeInv, FreshInv
    <2>. QED BY <2>1 DEF EntriesOfBatch
<1>2. CASE ApplyNext(w)
    BY <1>2, ApplyOfBatch DEF ApplyNext
<1>3. CASE OpenCached(w) \/ OpenFails(w) \/ BuildFails(w) \/ BuildCommit(w)
    BY <1>0, <1>3 DEF OpenCached, OpenFails, BuildFails, BuildCommit, EntriesOfBatch
<1>4. CASE Sign(w)
    BY <1>0, <1>4 DEF Sign, EntriesOfBatch
<1>5. CASE Finalise(w)
    <2>1. entries[w] \in Seq(Entries) /\ step'[w] = 1 /\ UNCHANGED <<entries, batch>>
        BY <1>0, <1>5 DEF Finalise
    <2>. QED BY <1>0, <1>5, <2>1 DEF Finalise, EntriesOfBatch
<1>6. CASE PersistRecord(w)
    <2>1. /\ Len(entries[w]) \in Nat /\ step[w] <= Len(entries[w]) /\ step'[w] = step[w] + 1
          /\ pc'[w] = "persist" /\ UNCHANGED <<entries, batch>> /\ step[w] \in Nat
        BY <1>6 DEF PersistRecord
    <2>2. EntriesOfBatch(w)'
        BY <2>1 DEF EntriesOfBatch
    <2>3. step'[w] <= Len(entries'[w]) + 1
        BY <2>1
    <2>. QED BY <2>1, <2>2, <2>3
<1>7. CASE FinaliseFails(w) \/ PersistFails(w) \/ Emit(w)
    BY <1>0, <1>7 DEF FinaliseFails, PersistFails, Emit, EntriesOfBatch
<1>. QED BY <1>1, <1>2, <1>3, <1>4, <1>5, <1>6, <1>7 DEF Phase1, Phase5

\* When nobody is at work in the rows, they are the root's.
LEMMA RowsAtRest ==
    ASSUME TypeInv, OneOpen, RowInv, NEW j \in Jobs, pc[j] \notin Ended,
           pc[j] \notin {"persist", "update"}
    PROVE  RowsAre(root.tree)
BY DEF OneOpen, RowInv, Ended, Jobs

\* After a step that no write at work in its rows takes, or at its end, they are.
LEMMA RowsRest ==
    ASSUME \A w \in Writers : EntriesOfBatch(w)' /\ StepInRange(w)',
           \A w \in Writers : pc'[w] \notin {"persist", "update"},
           RowsAre(root.tree)'
    PROVE  RowInv'
BY DEF RowInv

\* The rows of a write that is not at work in them yet.
LEMMA BeforeRows ==
    ASSUME MaxOpen = 1, TypeInv, AloneInv, RowInv, [Next]_vars, NEW w \in Writers,
           \/ Phase1(w) \/ Sign(w) \/ FinaliseFails(w) \/ Finalise(w),
           \A v \in Writers : EntriesOfBatch(v)' /\ StepInRange(v)'
    PROVE  RowInv'
<1>. USE DEF TypeInv, TypeOK, MoveTo, storeVars, cacheVars
<1>0. w \in Jobs /\ Writers \subseteq Jobs /\ root.tree \in Trees
    BY DEF Jobs, Commits
<1>1. /\ root' = root /\ records' = records
      /\ pc'[w] \notin {"update"} /\ (pc'[w] = "persist" => Finalise(w))
      /\ pc[w] \notin {"persist", "update", "acked", "failed"}
      /\ Begin(w) \/ pc[w] # "idle"
    BY <1>0 DEF Phase1, Begin, OpenCached, OpenFails, ApplyNext, BuildFails, BuildCommit,
           Sign, Finalise, FinaliseFails
<1>2. \A v \in Jobs \ {w} : pc[v] \in Ended /\ pc'[v] = pc[v]
    <2>1. CASE Begin(w)
        BY <1>0, <2>1, RoomWhenAlone, WriteLocal DEF Begin, AloneInv, Phase1
    <2>2. CASE pc[w] # "idle"
        BY <1>0, <1>1, <2>2, WriteLocal DEF AloneInv, OneOpen, Ended, Phase5
    <2>. QED BY <1>1, <2>1, <2>2
<1>3. RowsAre(root.tree)
    BY <1>0, <1>1, <1>2 DEF RowInv, Ended
<1>4. RowsAre(root.tree)'
    BY <1>1, <1>3, LeftKept DEF RowsAre
<1>5. CASE pc'[w] # "persist"
    BY <1>0, <1>1, <1>2, <1>4, <1>5, RowsRest DEF Ended
<1>6. CASE pc'[w] = "persist"
    <2>1. Partly(w)' = root'.tree
        <3>1. step'[w] - 1 = 0 /\ root' = root
            BY <1>1, <1>6 DEF RowInv, StepInRange, Finalise
        <3>2. Overlay(entries'[w], 0, root.tree) = root.tree
            BY <1>0, OverlayNone
        <3>. QED BY <3>1, <3>2 DEF Partly
    <2>2. RowsAre(Partly(w))'
        BY <1>4, <2>1 DEF RowsAre
    <2>3. \A v \in Writers \ {w} : pc'[v] \notin {"persist", "update"}
        BY <1>0, <1>2 DEF Ended
    <2>. QED BY <1>6, <2>2, <2>3 DEF RowInv
<1>. QED BY <1>5, <1>6

\* One row after the other follows the entries.
LEMMA PersistRows ==
    ASSUME TypeInv, AloneInv, RowInv, [Next]_vars, NEW w \in Writers, PersistRecord(w),
           \A v \in Writers : EntriesOfBatch(v)' /\ StepInRange(v)'
    PROVE  RowInv'
<1>. DEFINE n == step[w] - 1
            e == entries[w][step[w]]
<1>0. w \in Jobs /\ Writers \subseteq Jobs /\ root.tree \in Trees
    BY DEF Jobs, TypeInv, TypeOK, Commits
<1>1. /\ pc[w] = "persist" /\ records' = [records EXCEPT ![e.key] = e.val]
      /\ UNCHANGED <<root, entries, pc>> /\ step'[w] = step[w] + 1
      /\ n \in Nat /\ step[w] = n + 1 /\ step'[w] - 1 = n + 1
    BY DEF PersistRecord, TypeInv, TypeOK
<1>2. e.key \in Keys
    BY EntryType DEF PersistRecord, TypeInv
<1>3. Partly(w)' = [Partly(w) EXCEPT ![e.key] = e.val]
    <2>1. Overlay(entries[w], n + 1, root.tree) =
              [Overlay(entries[w], n, root.tree) EXCEPT ![e.key] = e.val]
        <3>1. e = entries[w][n + 1] /\ n \in Nat /\ root.tree \in Trees
            BY <1>0, <1>1
        <3>. HIDE DEF e, n
        <3>2. entries[w][n + 1].key \in Keys
            BY <1>2, <3>1
        <3>3. Overlay(entries[w], n + 1, root.tree) =
                  [Overlay(entries[w], n, root.tree)
                      EXCEPT ![entries[w][n + 1].key] = entries[w][n + 1].val]
            BY <3>1, <3>2, OverlayNext
        <3>. QED BY <3>1, <3>3
    <2>. QED BY <1>1, <2>1 DEF Partly
<1>4. RowsAre(Partly(w))
    BY <1>1 DEF RowInv
<1>5. RowsAre(Partly(w))'
    <2>1. DOMAIN Partly(w) = Keys /\ DOMAIN records = Keys
        BY DEF Partly, Overlay, TypeInv, TypeOK, Trees
    <2>. HIDE DEF e
    <2>2. \A k \in Keys : records'[k] = Partly(w)'[k] \/ Left(k)
        BY <1>1, <1>2, <1>3, <1>4, <2>1 DEF RowsAre
    <2>. QED BY <2>2, LeftKept DEF RowsAre
<1>6. \A v \in Writers \ {w} : pc'[v] \notin {"persist", "update"}
    BY <1>0, <1>1 DEF AloneInv, OneOpen, Ended
<1>. QED BY <1>1, <1>5, <1>6 DEF RowInv

\* After the last row they are those of the commit.
LEMMA EmitRows ==
    ASSUME TypeInv, AloneInv, EntryInv, RowInv, [Next]_vars, NEW w \in Writers, Emit(w),
           \A v \in Writers : EntriesOfBatch(v)' /\ StepInRange(v)'
    PROVE  RowInv'
<1>0. w \in Jobs /\ Writers \subseteq Jobs
    BY DEF Jobs
<1>1. /\ pc[w] = "persist" /\ pc'[w] = "update" /\ step[w] > Len(entries[w])
      /\ UNCHANGED <<records, draft>> /\ \A v \in Jobs \ {w} : pc'[v] = pc[v]
    BY <1>0 DEF Emit, MoveTo, TypeInv, TypeOK
<1>2. step[w] - 1 = Len(entries[w])
    <2>1. Len(entries[w]) \in Nat /\ step[w] \in Nat /\ step[w] <= Len(entries[w]) + 1
        BY <1>1 DEF TypeInv, TypeOK, RowInv, StepInRange
    <2>. QED BY <1>1, <2>1
<1>3. Partly(w) = draft[w].tree
    BY <1>0, <1>1, <1>2 DEF Partly, AloneInv, BaseInv, EntryInv, Made, Ended
<1>4. RowsAre(draft[w].tree)'
    BY <1>1, <1>3, LeftKept DEF RowInv, RowsAre
<1>5. \A v \in Writers \ {w} : pc'[v] \notin {"persist", "update"}
    BY <1>0, <1>1 DEF AloneInv, OneOpen, Ended
<1>. QED BY <1>1, <1>4, <1>5 DEF RowInv

\* A write that fails in its rows, and a restart, leave rows only at paths of its
\* batch.
LEMMA FailRows ==
    ASSUME TypeInv, AloneInv, EntryInv, RowInv, [Next]_vars, UNCHANGED <<root, records, batch>>,
           \A j \in Jobs : pc'[j] = pc[j] \/ (pc[j] \notin Ended /\ pc'[j] = "failed"),
           \E j \in Jobs : pc[j] \notin Ended /\ pc'[j] = "failed",
           \A v \in Writers : EntriesOfBatch(v)' /\ StepInRange(v)'
    PROVE  RowInv'
<1>0. Writers \subseteq Jobs
    BY DEF Jobs
<1>1. PICK j \in Jobs : pc[j] \notin Ended /\ pc'[j] = "failed"
    OBVIOUS
<1>2. \A i \in Jobs \ {j} : pc[i] \in Ended /\ pc'[i] = pc[i]
    BY <1>1 DEF AloneInv, OneOpen
<1>3. RowsAre(root.tree)'
    <2>1. CASE j \in Writers /\ pc[j] \in {"persist", "update"}
        <3>1. SUFFICES ASSUME NEW k \in Keys, records[k] # root.tree[k] PROVE Left(k)'
            BY DEF RowsAre
        <3>2. Left(k) \/ \E n \in 1..Len(batch[j]) : batch[j][n].key = k
            BY <2>1, <3>1, LeftByWriter
        <3>3. CASE Left(k)
            BY <3>3, LeftKept
        <3>4. CASE \E n \in 1..Len(batch[j]) : batch[j][n].key = k
            BY <1>1, <2>1, <3>4 DEF Left
        <3>. QED BY <3>2, <3>3, <3>4
    <2>2. CASE j \in Writers /\ pc[j] \notin {"persist", "update"}
        <3>1. RowsAre(root.tree)
            BY <1>1, <2>2, RowsAtRest DEF AloneInv
        <3>. QED BY <3>1, LeftKept DEF RowsAre
    <2>3. CASE j \in Importers
        BY <1>1, <2>3 DEF RowsAre, Left
    <2>. QED BY <2>1, <2>2, <2>3 DEF Jobs
<1>4. \A w \in Writers : pc'[w] \notin {"persist", "update"}
    BY <1>0, <1>1, <1>2 DEF Ended
<1>. QED BY <1>3, <1>4, RowsRest

\* An update that goes well makes the root the commit that the rows follow.
LEMMA UpdateRows ==
    ASSUME TypeInv, AloneInv, RowInv, [Next]_vars, NEW j \in Jobs, UpdateRoot(j),
           \A v \in Writers : EntriesOfBatch(v)' /\ StepInRange(v)'
    PROVE  RowInv'
<1>1. pc[j] = "update" /\ root' = draft[j] /\ UNCHANGED <<records, draft>>
    BY DEF UpdateRoot
<1>2. \A w \in Writers : pc'[w] \notin {"persist", "update"}
    BY NobodyAfterUpdate DEF AloneInv, Ended, Jobs
<1>3. RowsAre(root.tree)'
    <2>1. CASE j \in Writers
        <3>1. RowsAre(draft[j].tree)
            BY <1>1, <2>1 DEF RowInv
        <3>. QED BY <1>1, <3>1, LeftKept DEF RowsAre
    <2>2. CASE j \in Importers
        BY <1>1, <2>2, LeftKept DEF RowsAre, Left
    <2>. QED BY <2>1, <2>2 DEF Jobs
<1>. QED BY <1>2, <1>3, RowsRest

\* An import may leave rows anywhere.
LEMMA ImportRows ==
    ASSUME TypeInv, RowInv, NEW i \in Importers, Import(i)
    PROVE  RowInv'
<1>1. pc'[i] # "idle"
    BY ImportLocal DEF Import, ImportBlocks, ImportRecords, ImportCommit, ImportFails,
           MoveTo, TypeInv, TypeOK
<1>2. \A k \in Keys : Left(k)'
    BY <1>1 DEF Left
<1>3. \A w \in Writers : EntriesOfBatch(w)' /\ StepInRange(w)'
    BY ImportLocal DEF RowInv, EntriesOfBatch, StepInRange, Jobs
<1>. QED BY <1>2, <1>3 DEF RowInv, RowsAre

\* The invariant of rows is inductive when one call is open at a time.
LEMMA RowStep ==
    ASSUME MaxOpen = 1, TypeInv, TreeInv, AloneInv, EntryInv, RowInv, [Next]_vars
    PROVE  RowInv'
<1>0. Writers \subseteq Jobs
    BY DEF Jobs
<1>1. ASSUME NEW w \in Writers, Phase1(w) \/ Phase5(w) PROVE RowInv'
    <2>1. \A v \in Writers : EntriesOfBatch(v)' /\ StepInRange(v)'
        <3>1. EntriesOfBatch(w)' /\ StepInRange(w)'
            BY <1>1, LoopStep DEF RowInv
        <3>2. ASSUME NEW v \in Writers \ {w} PROVE EntriesOfBatch(v)' /\ StepInRange(v)'
            <4>1. /\ pc'[v] = pc[v] /\ batch'[v] = batch[v] /\ step'[v] = step[v]
                  /\ entries'[v] = entries[v]
                BY <1>0, <1>1, WriteLocal
            <4>. QED BY <4>1 DEF RowInv, EntriesOfBatch, StepInRange
        <3>. QED BY <3>1, <3>2
    <2>2. CASE PersistFails(w)
        <3>1. /\ UNCHANGED <<root, records, batch>> /\ pc[w] \notin Ended
              /\ pc' = [pc EXCEPT ![w] = "failed"]
            BY <2>2 DEF PersistFails, MoveTo, storeVars, Ended
        <3>2. pc'[w] = "failed" /\ \A j \in Jobs \ {w} : pc'[j] = pc[j]
            BY <1>0, <3>1 DEF TypeInv, TypeOK
        <3>. QED BY <1>0, <2>1, <3>1, <3>2, FailRows
    <2>. QED BY <1>1, <2>1, <2>2, BeforeRows, PersistRows, EmitRows DEF Phase5
<1>2. ASSUME NEW i \in Importers, Import(i) PROVE RowInv'
    BY <1>2, ImportRows
<1>3. CASE \/ \E j \in Jobs : UpdateRoot(j) \/ UpdateFails(j)
           \/ \E r \in Readers : ReadRoot(r) \/ ReadProof(r)
           \/ Crash
           \/ UNCHANGED vars
    <2>1. \A v \in Writers : EntriesOfBatch(v)' /\ StepInRange(v)'
        <3>1. ASSUME NEW v \in Writers PROVE pc'[v] = pc[v] \/ pc'[v] \in {"acked", "failed"}
            BY <1>0, <1>3, OtherLocal
        <3>2. UNCHANGED <<entries, batch, step>>
            BY <1>3, OtherLocal
        <3>. QED BY <3>1, <3>2 DEF RowInv, EntriesOfBatch, StepInRange
    <2>2. ASSUME NEW j \in Jobs, UpdateRoot(j) PROVE RowInv'
        BY <2>1, <2>2, UpdateRows
    <2>3. ASSUME UNCHANGED <<root, records, pc>> PROVE RowInv'
        <3>1. UNCHANGED <<batch, step, entries, draft>>
            BY <1>3, OtherLocal
        <3>2. \A k \in Keys : Left(k) => Left(k)'
            BY LeftKept
        <3>3. \A w \in Writers : pc[w] = "persist" => RowsAre(Partly(w))'
            BY <2>3, <3>1, <3>2 DEF RowInv, RowsAre, Partly
        <3>4. \A w \in Writers : pc[w] = "update" => RowsAre(draft[w].tree)'
            BY <2>3, <3>1, <3>2 DEF RowInv, RowsAre
        <3>5. (\A w \in Writers : pc[w] \notin {"persist", "update"}) => RowsAre(root.tree)'
            BY <2>3, <3>2 DEF RowInv, RowsAre
        <3>. QED BY <2>1, <2>3, <3>3, <3>4, <3>5 DEF RowInv
    <2>4. ASSUME NEW j \in Jobs, UpdateFails(j) PROVE RowInv'
        <3>1. /\ UNCHANGED <<root, records, batch>> /\ pc[j] \notin Ended
              /\ pc'[j] = "failed" /\ \A i \in Jobs \ {j} : pc'[i] = pc[i]
            BY <2>4 DEF UpdateFails, MoveTo, storeVars, Ended, TypeInv, TypeOK
        <3>. QED BY <2>1, <3>1, FailRows
    <2>5. CASE Crash
        <3>1. /\ UNCHANGED <<root, records, batch>>
              /\ \A j \in Jobs : pc'[j] = IF pc[j] \in Ended THEN pc[j] ELSE "failed"
              /\ pc \in [Jobs -> PCs] /\ pc' \in [Jobs -> PCs]
            BY <2>5 DEF Crash, storeVars, TypeInv, TypeOK, PCs
        <3>2. CASE \E j \in Jobs : pc[j] \notin Ended
            BY <2>1, <3>1, <3>2, FailRows
        <3>3. CASE \A j \in Jobs : pc[j] \in Ended
            <4>1. \A j \in Jobs : pc'[j] = pc[j]
                BY <3>1, <3>3
            <4>2. pc' = pc
                BY <3>1, <4>1
            <4>. QED BY <3>1, <4>2, <2>3
        <3>. QED BY <3>2, <3>3
    <2>6. ASSUME NEW r \in Readers, ReadRoot(r) \/ ReadProof(r) PROVE RowInv'
        BY <2>3, <2>6 DEF ReadRoot, ReadProof, storeVars, jobVars
    <2>7. CASE UNCHANGED vars
        BY <2>3, <2>7 DEF vars, storeVars, jobVars
    <2>. QED BY <1>3, <2>2, <2>4, <2>5, <2>6, <2>7
<1>. QED BY <1>1, <1>2, <1>3 DEF Next

\* A new account has no rows and no records.
LEMMA RowInit == Init => RowInv
BY DEF Init, RowInv, RowsAre, EntriesOfBatch, StepInRange, Genesis, Jobs

\* One write after the other, the records table is the content of the repository,
\* but for the paths of a write that is in its rows or has failed there, and once
\* an import was begun.
THEOREM RowsAreTheRepository ==
    ASSUME MaxOpen = 1
    PROVE  Spec => []RowsFollowRepo
<1>1. TypeInv /\ AloneInv /\ EntryInv /\ RowInv => RowsFollowRepo
    <2>1. SUFFICES ASSUME TypeInv, AloneInv, EntryInv, RowInv, NEW k \in Keys,
                          records[k] # root.tree[k]
                   PROVE  \/ \E w \in Writers :
                                /\ pc[w] \in {"persist", "update", "failed"}
                                /\ \E j \in 1..Len(batch[w]) : batch[w][j].key = k
                          \/ \E i \in Importers : pc[i] # "idle"
        BY DEF RowsFollowRepo
    <2>2. CASE \E w \in Writers : pc[w] \in {"persist", "update"}
        BY <2>1, <2>2, LeftByWriter DEF Left
    <2>3. CASE \A w \in Writers : pc[w] \notin {"persist", "update"}
        BY <2>1, <2>3 DEF RowInv, RowsAre, Left
    <2>. QED BY <2>2, <2>3
<1>. QED BY TypeInit, TypeStep, TreeInit, TreeStep, EntryInit, EntryStep, AloneInit, AloneStep,
            RowInit, RowStep, <1>1, PTL DEF Spec

-----------------------------------------------------------------------------
(* One write after the other, the repository is a store.                   *)

\* An import keeps the tree that it brought.
ImportInv ==
    \A i \in Importers :
        pc[i] \in {"import", "commit", "update"} => draft[i].tree \in [Keys -> {i, Absent}]

\* That imports keep their trees is inductive.
LEMMA ImportStep == TypeInv /\ ImportInv /\ [Next]_vars => ImportInv'
<1>. SUFFICES ASSUME TypeInv, ImportInv, [Next]_vars PROVE ImportInv'
    OBVIOUS
<1>0. Importers \subseteq Jobs /\ Importers \cap Writers = {}
    BY JobsAssumption DEF Jobs
<1>1. ASSUME NEW w \in Writers, Phase1(w) \/ Phase5(w) PROVE ImportInv'
    BY <1>0, <1>1, WriteLocal DEF ImportInv
<1>2. ASSUME NEW i \in Importers, Import(i) PROVE ImportInv'
    <2>1. pc'[i] \in {"import", "commit", "update"} => draft'[i].tree \in [Keys -> {i, Absent}]
        <3>1. CASE ImportBlocks(i)
            <4>1. PICK t \in [Keys -> {i, Absent}] :
                      draft' = [draft EXCEPT ![i] = [rev |-> 0, tree |-> t, by |-> "user"]]
                BY <3>1 DEF ImportBlocks
            <4>. QED BY <1>0, <4>1 DEF TypeInv, TypeOK
        <3>2. CASE ImportRecords(i) \/ ImportCommit(i)
            BY <1>0, <3>2 DEF ImportInv, ImportRecords, ImportCommit, TypeInv, TypeOK
        <3>3. CASE ImportFails(i)
            BY <1>0, <3>3 DEF ImportFails, MoveTo, TypeInv, TypeOK
        <3>. QED BY <1>2, <3>1, <3>2, <3>3 DEF Import
    <2>. QED BY <1>0, <1>2, <2>1, ImportLocal DEF ImportInv
<1>3. CASE \/ \E j \in Jobs : UpdateRoot(j) \/ UpdateFails(j)
           \/ \E r \in Readers : ReadRoot(r) \/ ReadProof(r)
           \/ Crash
           \/ UNCHANGED vars
    <2>1. ASSUME NEW i \in Importers
          PROVE  draft'[i] = draft[i] /\ (pc'[i] = pc[i] \/ pc'[i] \in {"acked", "failed"})
        BY <1>0, <1>3, OtherLocal
    <2>. QED BY <2>1 DEF ImportInv
<1>. QED BY <1>1, <1>2, <1>3 DEF Next

\* What a batch does to a tree is the same for both.
LEMMA SameEffect ==
    ASSUME NEW b, NEW w, NEW t
    PROVE  Store!Effect(b, w, t) = Effect(b, w, t)
BY DEF Store!Effect, Store!Overlay, Store!Holds, Store!LastOn, Store!TheOne, Store!Changes,
       Store!Value, Effect, Overlay, Holds, LastOn, TheOne, Changes, Value

\* A new account is an empty store.
LEMMA StoreInit == Init => Store!Init
BY DEF Init, Store!Init, Store!Jobs, Store!EmptyTree, Jobs, EmptyTree, Genesis, JobState

\* What clients see of the calls.
States == [j \in Jobs |-> JobState(j)]

\* A call's step changes what clients see of that call.
LEMMA CallMoves ==
    ASSUME NEW j \in Jobs, \A i \in Jobs \ {j} : pc'[i] = pc[i]
    PROVE  States' = [States EXCEPT ![j] = JobState(j)']
BY DEF States, JobState

\* A step inside a call is none of the store's.
LEMMA StoreStutters ==
    ASSUME UNCHANGED <<root, batch>>, \A j \in Jobs : JobState(j)' = JobState(j)
    PROVE  UNCHANGED Store!vars
BY DEF Store!vars, Store!Jobs, Jobs

\* A call that fails takes nothing with it.
LEMMA StoreFails ==
    ASSUME TypeInv, UNCHANGED <<root, batch>>,
           \A j \in Jobs : pc'[j] = pc[j] \/ (pc[j] \notin Ended /\ pc'[j] = "failed")
    PROVE  Store!Fail
<1>1. \A j \in Jobs : JobState(j)' \in {"idle", "open", "done", "failed"}
    BY DEF JobState
<1>2. \A j \in Jobs : JobState(j)' # JobState(j) => JobState(j) = "open" /\ JobState(j)' = "failed"
    BY DEF JobState, Ended
<1>. QED BY <1>1, <1>2 DEF Store!Fail, Store!Jobs, Jobs

\* A write takes effect as a whole, when its root is stored, on the content of
\* that moment; a batch that changes nothing does so when it is answered.
LEMMA WriteStore ==
    ASSUME MaxOpen = 1, TypeInv, TreeInv, AloneInv, [Next]_vars, NEW w \in Writers,
           Phase1(w) \/ Phase5(w)
    PROVE  [Store!Next]_(Store!vars)
<1>0. w \in Jobs /\ \A j \in Jobs \ {w} : pc'[j] = pc[j]
    BY WriteLocal DEF Jobs
<1>1. root' = root
    BY WriteLocal
<1>2. pc \in [Jobs -> PCs]
    BY DEF TypeInv, TypeOK
<1>3. CASE Begin(w)
    <2>1. pc[w] = "idle" /\ pc'[w] = "loaded"
        BY <1>0, <1>2, <1>3 DEF Begin, MoveTo
    <2>2. States[w] = "idle" /\ States' = [States EXCEPT ![w] = "open"]
        BY <1>0, <2>1, CallMoves DEF States, JobState
    <2>3. \E b \in Batches : batch' = [batch EXCEPT ![w] = b]
        BY <1>3 DEF Begin
    <2>4. Store!Submit(w)
        BY <1>1, <2>2, <2>3 DEF Store!Submit, States
    <2>. QED BY <2>4 DEF Store!Next
<1>4. CASE ~Begin(w) /\ pc'[w] = "failed"
    <2>1. batch' = batch /\ pc[w] \notin Ended
        BY <1>0, <1>2, <1>4 DEF Phase1, Phase5, OpenCached, OpenFails, ApplyNext, BuildFails,
               BuildCommit, Sign, Finalise, FinaliseFails, PersistRecord, PersistFails, Emit,
               Ended
    <2>2. Store!Fail
        BY <1>0, <1>1, <1>4, <2>1, StoreFails
    <2>. QED BY <2>2 DEF Store!Next
<1>5. CASE BuildCommit(w) /\ entries[w] = <<>>
    <2>1. pc[w] = "mutate" /\ pc'[w] = "acked" /\ batch' = batch /\ draft'[w] = base[w]
          /\ base' = base
        BY <1>0, <1>2, <1>5 DEF BuildCommit, MoveTo, TypeInv, TypeOK
    <2>2. base[w] = root
        BY <1>0, <2>1 DEF AloneInv, BaseInv, Ended
    <2>3. BuildsOnItsBase'
        BY TreeStep DEF TreeInv
    <2>4. root.tree = Effect(batch[w], w, root.tree)
        BY <2>1, <2>2, <2>3 DEF BuildsOnItsBase
    <2>5. root'.tree = Store!Effect(batch[w], w, root.tree)
        BY <1>1, <2>4, SameEffect
    <2>6. States[w] = "open" /\ States' = [States EXCEPT ![w] = "done"]
        BY <1>0, <2>1, CallMoves DEF States, JobState
    <2>7. Store!Apply(w)
        BY <2>1, <2>5, <2>6 DEF Store!Apply, States
    <2>. QED BY <2>7 DEF Store!Next
<1>6. CASE /\ ~Begin(w) /\ pc'[w] # "failed"
           /\ ~(BuildCommit(w) /\ entries[w] = <<>>)
    <2>1. batch' = batch /\ pc[w] \notin Ended /\ pc'[w] \notin Ended
        BY <1>0, <1>2, <1>6 DEF Phase1, Phase5, OpenCached, OpenFails, ApplyNext, BuildFails,
               BuildCommit, Sign, Finalise, FinaliseFails, PersistRecord, PersistFails, Emit,
               Ended, MoveTo
    <2>2. \A j \in Jobs : JobState(j)' = JobState(j)
        BY <1>0, <2>1 DEF JobState, Ended
    <2>. QED BY <1>1, <2>1, <2>2, StoreStutters
<1>. QED BY <1>3, <1>4, <1>5, <1>6

\* An import takes effect when its root is stored.
LEMMA ImportStore ==
    ASSUME TypeInv, NEW i \in Importers, Import(i)
    PROVE  [Store!Next]_(Store!vars)
<1>0. i \in Jobs /\ UNCHANGED <<root, batch>> /\ \A j \in Jobs \ {i} : pc'[j] = pc[j]
    BY ImportLocal
<1>1. pc \in [Jobs -> PCs]
    BY DEF TypeInv, TypeOK
<1>2. CASE ImportBlocks(i)
    <2>1. pc[i] = "idle" /\ pc'[i] = "import"
        BY <1>0, <1>1, <1>2 DEF ImportBlocks, MoveTo
    <2>2. States[i] = "idle" /\ States' = [States EXCEPT ![i] = "open"]
        BY <1>0, <2>1, CallMoves DEF States, JobState
    <2>3. Store!SubmitImport(i)
        BY <1>0, <2>2 DEF Store!SubmitImport, States
    <2>. QED BY <2>3 DEF Store!Next
<1>3. CASE ImportFails(i)
    <2>1. pc[i] \notin Ended /\ pc'[i] = "failed"
        BY <1>0, <1>1, <1>3 DEF ImportFails, MoveTo, Ended
    <2>2. Store!Fail
        BY <1>0, <2>1, StoreFails
    <2>. QED BY <2>2 DEF Store!Next
<1>4. CASE ImportRecords(i) \/ ImportCommit(i)
    <2>1. pc[i] \notin Ended /\ pc'[i] \notin Ended
        BY <1>0, <1>1, <1>4 DEF ImportRecords, ImportCommit, MoveTo, Ended
    <2>2. \A j \in Jobs : JobState(j)' = JobState(j)
        BY <1>0, <2>1 DEF JobState, Ended
    <2>. QED BY <1>0, <2>2, StoreStutters
<1>. QED BY <1>2, <1>3, <1>4 DEF Import

\* The root that is stored is the batch, or the import, applied to the content.
LEMMA UpdateStore ==
    ASSUME TypeInv, TreeInv, AloneInv, ImportInv, NEW j \in Jobs, UpdateRoot(j)
    PROVE  Store!Next
<1>1. /\ pc[j] = "update" /\ root' = draft[j] /\ batch' = batch
      /\ pc'[j] = "acked" /\ \A i \in Jobs \ {j} : pc'[i] = pc[i]
    BY DEF UpdateRoot, MoveTo, TypeInv, TypeOK
<1>2. States[j] = "open" /\ States' = [States EXCEPT ![j] = "done"]
    BY <1>1, CallMoves DEF States, JobState
<1>3. CASE j \in Writers
    <2>1. root'.tree = Effect(batch[j], j, root.tree)
        BY <1>1, <1>3 DEF TreeInv, BuildsOnItsBase, AloneInv, BaseInv, Ended
    <2>2. root'.tree = Store!Effect(batch[j], j, root.tree)
        BY <2>1, SameEffect
    <2>3. Store!Apply(j)
        BY <1>1, <1>2, <2>2 DEF Store!Apply, States
    <2>. QED BY <1>3, <2>3 DEF Store!Next
<1>4. CASE j \in Importers
    <2>1. root'.tree \in [Keys -> {j, Absent}]
        BY <1>1, <1>4 DEF ImportInv
    <2>2. Store!ApplyImport(j)
        BY <1>1, <1>2, <2>1 DEF Store!ApplyImport, States
    <2>. QED BY <1>4, <2>2 DEF Store!Next
<1>. QED BY <1>3, <1>4 DEF Jobs

\* Every step of the server is a step of the store, or none.
LEMMA StoreStep ==
    ASSUME MaxOpen = 1, TypeInv, TreeInv, AloneInv, ImportInv, [Next]_vars
    PROVE  [Store!Next]_(Store!vars)
<1>1. ASSUME NEW w \in Writers, Phase1(w) \/ Phase5(w) PROVE [Store!Next]_(Store!vars)
    BY <1>1, WriteStore
<1>2. ASSUME NEW i \in Importers, Import(i) PROVE [Store!Next]_(Store!vars)
    BY <1>2, ImportStore
<1>3. ASSUME NEW j \in Jobs, UpdateRoot(j) PROVE [Store!Next]_(Store!vars)
    BY <1>3, UpdateStore
<1>4. ASSUME NEW j \in Jobs, UpdateFails(j) PROVE [Store!Next]_(Store!vars)
    <2>1. /\ UNCHANGED <<root, batch>> /\ pc[j] \notin Ended
          /\ pc'[j] = "failed" /\ \A i \in Jobs \ {j} : pc'[i] = pc[i]
        BY <1>4 DEF UpdateFails, MoveTo, storeVars, Ended, TypeInv, TypeOK
    <2>2. Store!Fail
        BY <2>1, StoreFails
    <2>. QED BY <2>2 DEF Store!Next
<1>5. ASSUME NEW r \in Readers, ReadRoot(r) \/ ReadProof(r) PROVE [Store!Next]_(Store!vars)
    <2>1. UNCHANGED <<root, batch, pc>>
        BY <1>5 DEF ReadRoot, ReadProof, storeVars, jobVars
    <2>. QED BY <2>1, StoreStutters DEF JobState
<1>6. CASE Crash
    <2>1. /\ UNCHANGED <<root, batch>>
          /\ \A j \in Jobs : pc'[j] = IF pc[j] \in Ended THEN pc[j] ELSE "failed"
        BY <1>6 DEF Crash, storeVars
    <2>2. Store!Fail
        BY <2>1, StoreFails
    <2>. QED BY <2>2 DEF Store!Next
<1>7. CASE UNCHANGED vars
    <2>1. UNCHANGED <<root, batch, pc>>
        BY <1>7 DEF vars, storeVars, jobVars
    <2>. QED BY <2>1, StoreStutters DEF JobState
<1>. QED BY <1>1, <1>2, <1>3, <1>4, <1>5, <1>6, <1>7 DEF Next

\* At first there is no import.
LEMMA ImportInit == Init => ImportInv
BY DEF Init, ImportInv, Jobs

\* A client that waits for each answer sees a store: a batch takes effect as a
\* whole, on the content of the moment, or not at all, whatever fails and whenever
\* the server restarts.
THEOREM WritesImplementStore ==
    ASSUME MaxOpen = 1
    PROVE  Spec => ImplementsStore
<1>1. TypeInv /\ TreeInv /\ AloneInv /\ ImportInv /\ [Next]_vars => [Store!Next]_(Store!vars)
    BY StoreStep
<1>. QED BY TypeInit, TypeStep, TreeInit, TreeStep, AloneInit, AloneStep, ImportInit, ImportStep,
            StoreInit, <1>1, PTL DEF Spec, ImplementsStore, Store!Spec

=============================================================================
