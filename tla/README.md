# A verification model of Vow

Vow is a personal data server (PDS) for the AT Protocol that never holds a
signing key: every repository commit is signed by the user's passkey, over a
WebSocket that the account page keeps open. This directory holds TLA+ modules
that model the server's core, the TLC configurations that check them on small
instances, and theorems about them that TLAPS proves for every value of the
constants. Paths below are relative to the repository.

    tlc -workers 4 -config MCRepoWrites_together.cfg MCRepoWrites.tla
    tlapm RepoWrites_proofs.tla

## 1. Inventory

What the system consists of, the state each part keeps, what it does, whom it
talks to, what is hard about it, and what would make it correct.

| Part | State | Operations | Hard behaviours | Correct if |
|---|---|---|---|---|
| **Signer hub** `server/signer_hub.go`, `handle_signer_connect.go`, `handle_account_signer.go`, the page script in `templates/account.html` | one connection per DID; per connection a queue, the in-flight request, wake-up and hand-over channels, a done channel; per call a reply channel | Register, Unregister, RequestSignature, deliver, NextRequest, failAll, the two WebSocket handlers | three goroutines per connection and one per call; eviction by a second page; sockets that die; 30 s deadlines; a mutex held across channel sends | requests are not lost, mixed up or shown twice at a time; callers come back; dead connections leave |
| **Repository writes** `server/repo.go` and the four `handle_repo_*` write handlers | `repos.root/rev`, `records` rows, IPFS blocks, events, one cached tree per DID behind a mutex | applyWrites in five phases, finaliseCommit, getRecordProof | the signing round-trip between reading the root and writing it; one cached tree for all calls; no transaction over rows, event and root | a batch takes effect as a whole on current content or not at all; what is named is stored; what is stored is signed |
| **Repository import** `handle_import_repo.go` | the same rows and blocks | store the CAR's blocks, save its rows, commit, move the root | failures between the steps, writes in progress | as above |
| **Blob references** `repo.go:905-1012`, `handle_repo_upload_blob.go`, `ipfs.go` | `blobs.ref_count` | increment, decrement, remove and unpin at zero | concurrent decrement and increment; nested references | the count is the number of references (not modelled, see 6) |
| **Event log and firehose** `persist.go`, `handle_sync_subscribe_repos.go` | sequence counter, event rows, subscribers | persist and broadcast, playback from a cursor, retention, reseeding at start | playback racing broadcast, failed inserts, restarts | each subscriber sees each event once, in order |
| **Accounts and invites** `handle_server_create_account.go`, `handle_account_signup.go`, the invite and activation handlers | repo and actor rows, use counts of invites | sign-up, import of an account, (de)activation, deletion | check and decrement of an invite apart; PLC before the database | an invite is used as often as it says; no half-made account |
| **Bearer sessions** `session.go`, `middleware.go`, `handle_server_refresh_session.go` and others | access and refresh token rows | create, refresh, delete, check | two refreshes of one token; failure between delete and create | one successor per refresh token |
| **E-mail and password codes** `handle_server_request_*`, `reset_password`, `update_email`, `confirm_email` | code and expiry columns | request, use | double use, expiry, overlapping requests | a code works once, until it expires |
| **Identity and keys** `handle_server_supply_signing_key.go`, `handle_identity_*`, `plc/` | public key, handle, the PLC directory | register a key, sign or submit a PLC operation, change a handle | remote and local steps without a transaction | directory and database agree |
| **Identity cache** `identity/` | documents and DIDs by key | fetch, resolve, bust | a slow fetch that ends after a bust | a bust is final |
| **OAuth server and clients** `handle_oauth_*`, `oauth/` | authorisation requests, tokens, client metadata | PAR, authorise, token, refresh, revoke | concurrent approvals, single-use codes, rotation | a code is exchanged once; sessions end when they should |
| **DPoP nonces** `oauth/dpop/` | counter and three nonces; seen proof ids | rotate, hand out, check | several intervals between two calls | a nonce that was handed out stays valid for its window |
| **Everything else** (health, proxying, service tokens, WebAuthn checks, pages, mail, wiring) | none, or one row | one statement or one message | none of its own | not modelled, see `PROJECT.json` |

How they interact: a write handler gets the account's row from the session
middleware, builds a commit under the cached repository's lock, asks the hub
for a signature of it (a call that lasts as long as the user takes), then
stores blocks, rows, event and root. The hub is also used by service
authentication and PLC operations. The event goes through the event log to the
relays. Accounts, sessions and OAuth decide who may call any of this. Sign-ups,
changes of handle and deletions add events too; key registration and PLC
operations change the key that the signer hub verifies against, of which a
connection keeps the copy it read when it was opened.

## 2. Modules

| Module | What it is |
|---|---|
| `SignerHub` | the hub with the goroutines of callers, pumps, main loops and readers |
| `SignatureService` | what the hub promises: prompts in order, one at a time, outcomes that are the signer's |
| `SignerHubRefinement` | the mapping from the first to the second |
| `MCSignerHub` | instances for TLC |
| `SignerHub_proofs` | theorems, the refinement's too |
| `RepoTree` | constants and operators both repository modules share: trees, batches, what a batch does |
| `RepoStore` | what a repository promises: a batch as a whole, on the content of the moment, or not at all |
| `RepoWrites` | applyWrites, importRepo and getRecordProof step by step, with failures and restarts |
| `RepoWritesRefinement` | the mapping from `RepoWrites` to `RepoStore` |
| `MCRepoWrites` | instances for TLC |
| `RepoWrites_proofs` | theorems for any number of calls at a time |
| `RepoWritesAlone_proofs` | theorems for one call at a time, the refinement's too |
| `EventLog` | the log of events, and relays that are played back and then follow it |
| `MCEventLog` | an instance for TLC |
| `EventLog_proofs` | theorems |
| `AccountDb` | the tables that the account handlers share, the life of a request, the bearer middleware, failures and time |
| `SignUp` | createAccount, the sign-up page, invite codes |
| `Sessions` | createSession, refreshSession, deleteSession |
| `AccountCodes` | mailed codes for passwords and addresses |
| `Accounts` | the three together with (de)activation and deletion; the properties |
| `MCAccounts` | an instance for TLC |
| `Accounts_proofs` | theorems |
| `ClientMetadata` | which metadata documents of OAuth clients are accepted |
| `OAuthFlow` | pushed requests, approval, codes, sessions, refresh, revocation, clean-up; the properties |
| `MCOAuth` | an instance for TLC |
| `OAuthFlow_proofs` | theorems |
| `DpopProof` | the window of DPoP nonces and the decisions of CheckProof |
| `DpopProof_proofs` | theorems; this algorithm is proved, not run |
| `PlcDirectory` | operations on a DID and the directory that accepts them |
| `Passport` | the cache of DID documents and the fetches that fill it |
| `PlcIdentity` | the handlers that change a DID, the row, the directory and the cache; the properties |
| `MCPlcIdentity` | an instance for TLC |
| `PlcIdentity_proofs` | theorems |

Definitions named "Mutant" in a comment are variants of an action with a
plausible bug. No specification uses them; they show that a property would
notice the bug, and `PROJECT.json` says which.

### SignerHub and the code

* `hub` is `SignerHub.conns`; `pending`, `inflight`, `notify`, `done` are the
  fields of `signerConn`; `nextReq` and `payloads` are locals of the handlers;
  `reply` is the one-slot channel of a call.
* A caller walks `LookUp`, `Enqueue`, `Notify`, then one arm of the select:
  `ReceiveReply`, `SeeDone`, or `ContextDone` followed by `Cancel`, which needs
  the connection's mutex.
* The pump alternates `PumpTake` / `PumpIdle`, `PumpWake` and `PumpSend`.
* The main loop sends (`SendPrompt`, `WriteFails`), takes answers
  (`DropAnswer`, `RouteAnswer`, then `TakeInflight`, `SendReply`, `WakePump`
  for the body of `deliver`) and ends (`Disconnect`, `TokenExpires`), after
  which `Unregister`, `FailAllLock`, `FailInflight`, `FailPending`,
  `FailAllDone` are the deferred calls.
* A mutex that is held for straight-line code only makes that code one step.
  `failAll` sends on channels while it holds the connection's mutex, so there
  the mutex is visible: state `drain`, tested by `MuHeld`.
* The reader goroutine only moves messages, and is part of `inbound`. A
  hijacked request's context ends when its handler returns, by which time
  `done` is closed, so the pump's context arm is covered by `PumpStop`.
* An answer is sent on the page's current socket, which after a reconnection
  need not be the one that brought the prompt. A prompt is answered once.
  Verification of the assertion is the answer's verdict: `sig`, `bad`, `reject`.

### RepoWrites and the code

* One account. The cache, the rows and the root are all per DID.
* A commit is content-addressed, hence its own name: revision, tree, and whose
  key signed it. `blocks` holds a commit when its block and the root of its
  tree are in IPFS, which is what `finaliseCommit` writes and looks up; inner
  tree nodes and record blocks are abstracted. A record's value is the name of
  the call that wrote it.
* `Begin` is the middleware reading the account and the handler making the
  batch: `base` is the root read then, and nothing rereads it. `OpenCached` /
  `OpenFails`, `ApplyNext`, `BuildFails`, `BuildCommit` are phase 1 under the
  lock; `Sign` phases 3 and 4; `Finalise`, `PersistRecord`, `Emit`,
  `UpdateRoot` phase 5, each a statement of its own as in the code.
* `ApplyNext` is one turn of the loop: a delete of what is absent is a result
  and nothing else, a create of an existing path becomes an update, an
  operation the code refuses makes `BuildFails` the only way on.
* The hub is one step here, `Sign`: it returns a signature that verifies or an
  error. Between `BuildCommit` and `Sign` anything else may happen, which is
  all a write needs to know of the hub; `SignerHub` has the rest.
* Revisions are TIDs from a clock seeded with the base's revision, hence
  larger than every earlier one: `lastRev`. A client that disconnects cancels
  the context of database and IPFS calls; that is a `db` or `ipfs` fault.
* The clean-up of blob reference counts in the row loop is left out (section 6);
  a failure there is `PersistFails`.

### EventLog and the code

* `seq` is the persister's counter, `rows` the stored events by their numbers,
  `writing` the event between its insertion and its broadcast, which one mutex
  covers. `Insert`, `InsertFails` and `Broadcast` are `Persist`; `Cleanup` is
  the retention routine; `Restart` ends all connections and `Resume`s the
  counter, from the highest row or, when there is none, from the clock.
* A connection goes through the states of `Subscribe`: played back page by page
  (`QueryPage`, `SendStored`), registered for live events (`RegisterSub`),
  played back once more up to the first live one (`TakeFirst`, `CaughtUp`), live
  (`SendLive`). The event manager is a library, and these are modelled from how
  the handler uses it. A relay that is too slow for its buffer is dropped.
* `got` is what one relay received over all its connections, `from` where it
  started. `page` is the set of rows a query returned. `reused` notes that numbers were handed out a second time, which a
  restart after retention can do; the relays' properties except that case.

### Accounts and the code

* A request is a name with a place `pc`. Its middleware and its checks are its
  first step, and `view` is the row they read. After that each statement of the
  handler is a step, and any of them may fail (`StatementFails`); the two
  transactions (the insertion of an account, its deletion) are one step each.
* A code, and a session with its two tokens, is named by the request that made
  it. `access` and `refresh` are the rows of the two token tables. The bearer
  middleware looks a refresh token up and an access token not (`AccessToken`).
* `age` counts what the code tells apart: fresh, past a code's ten minutes or an
  access token's three hours, past a refresh token's week.
* `beside` records which requests were open together. It is history, and
  properties of the form "at most once, but for overlapping requests" use it.

### OAuthFlow and the code

* A request row, once redeemed, is `there = FALSE`. A code is named by the
  approval that made it; a session row by the exchange that created it; a token
  pair by the exchange that answered with it.
* `ApproveStart` reads the request and `Approve` updates it by id; `TakeCode`
  deletes it and then checks, `CreateSession` stores the session; `FindSession`
  reads a session by its refresh token and `RotateTokens` updates by that token.
* `client` is what the cached metadata says; any accepted document may be put in
  its place (`ClientChanges`). `ClientMetadata!Documents` has every field by
  which the validation decides; fields that are each refused on their own are
  one Boolean, `sound`.
* Ages of sessions are in the steps that the limits of `constants.go` make.

### PlcIdentity and the code

* An operation names the one it follows (`prev` is the CID, here a number) and
  who signed it. The directory accepts it if it follows the latest one and one
  of that one's rotation keys signed it. `SendOperation` does not look at the
  HTTP status, so a refused operation goes on as if it had been accepted.
* A call reads the log (`ReadLog`), builds its operation, has it signed by the
  server or by the user's signer (`Sign`, `NoSignature`), sends it (`Send`), and
  changes the row and the cache (`StoreKey`, `StoreHandle`, `ClearCode`, `Bust`)
  in the order its handler has. `slipped` notes calls whose send was refused or
  whose later statement failed.
* The signer verifies against the key that the row had when it connected
  (`SignerConnects`). Each registration brings a new passkey.
* In `Passport`, overlapping fetches share one request; `late` notes that the
  cache was busted since it was made.

## 3. What is checked

All runs finish in under three minutes on two workers. `CHECK_DEADLOCK FALSE` is
set everywhere because each call is made once and each session opened once, so
a run of the system may properly end. Symmetry is used on safety runs only.

| Run | Instance | Shows |
|---|---|---|
| `hub_eviction` | 2 sessions of one account, 2 calls, good answers | `TypeOK`; `HubConnectionIsLive` (no done channel closed twice); `OnePromptPerConnection`; `NoLostWakeup`; `NoLostRequest` |
| `hub_queue` | 1 session with expiring token, 3 calls, good, bad and refused answers | `OutcomeIsTheSigners`; `TimedOutIsNotTaken`; `ImplementsService` (refinement of `SignatureService`) |
| `hub_fair` | 1 session, 2 calls, fair goroutines | `CallReturns` (given deadlines); `QueueMoves` (given an honest signer); `DeadConnectionLeavesHub` |
| `repo_together` | 2 writes, 1 import, 1 proof at once, all faults, restarts | `TypeOK`; `BuildsOnItsBase`; `NamedIsStored`; `OnlySignedRecords` |
| `repo_oneatatime` | 2 writes, 1 import, one open at a time, proofs between, all faults | `ImplementsStore` (refinement of `RepoStore`); `RevAdvances`; `EventFollowsRoot`; `RowsFollowRepo` |
| `event_firehose` | 2 connections of a relay, 4 numbers, pages of one row, buffers of one event | `TypeOK`; `SeqCoversLog`; `EachOnceInOrder`; `NoneMissed`; `SentIsCovered` |
| `accounts_beside` | 1 account with a session, 3 requests of any kind, 2 at a time, 1 failure | `TypeOK`; `AccountsAreWhole`; `OverdrawnOnlyTogether`; `SpentCodesStayDead`; `RefreshedOnce`; `SignedOutStaysOut`; `NoTokensWithoutAccount` |
| `oauth_flow` | 1 request, 2 users, 2 approvals, 3 exchanges, any client | `OneSessionPerRequest`; `AnsweredTokensExist`; `RedirectsArePrivate`; `SessionsEndOnce` |
| `identity_beside` | 1 account, 3 keys, 2 handles, 2 calls, 1 code, 1 failure, 2 fetches | `TypeOK`; `KeysAgree`; `HandlesAgree`; `CodeSignsOnce`; `CachedDocIsNew` |
| `hub_hangs`, `hub_wedge`, `repo_lost` | small | counterexamples, see below |

Why the bounds are enough. In the hub, calls and sessions of different
accounts never share state except the map, so one account is used. Eviction,
a reply routed to another connection and a teardown beside a live connection
all need two sessions and no more. A queue with a head in flight, a head
waiting and one behind it needs three calls. In the repository the
interesting collisions are between two overlapping writes, or a write and an
import or proof; two paths allow a batch that touches a second path, a delete
next to a write, a batch refused after its first operation, and a path written
and deleted in one batch (`FourBatches`). `MaxOpen` bounds how many writes and
imports are open together: 1 means a client that waits for each answer, which
is what the properties of `repo_oneatatime` are about.
`Faults` lists what may go wrong in a run. A page of one row and a buffer of one
event make every event a boundary: pages end, hand-overs race and buffers run
over with three events. A second connection lets the relay come back, and
retention of no time makes each stored event one that may go. Accounts meet by
an address, a handle, an invite or a DID, each of which two of three requests
can share; the third spends, deletes or signs out what two others left, and
two of them overlap. An invite with one use is one that two can overdraw. In OAuth two
users may approve one request; three exchanges are a code, its refresh and
another refresh of the same token, or two codes and a refresh. For a DID, two
calls are two different changes that overlap, or one and the retry of it; with
one failure one of them is cut in half, and two fetches share a request or
follow each other across a bust.

Fairness. `FairSpec` is weak fairness of each goroutine's steps and of each
select arm that stays ready (Go picks among ready arms at random, and hands a
freed mutex on). No fairness is assumed of networks, clients or token expiry.
What a property needs beyond that is its premise: `Deadlines`, the context
deadline that applyWrites sets (`repo.go:614`; the caller in
`handle_server_get_service_auth.go` has only the client's patience, so for it
the premise is that the client leaves), or `HonestSigner`, a signer that
answers a prompt while the connection it came on is up, and never with a
signature that fails verification. The repository module states safety only:
whether a write ends is the hub's liveness. The modules of events, accounts,
OAuth and identity state safety only as well: their handlers are straight lines
of statements that end, and what happens between two requests is the clients'
choice.

### Where the code departs from what it says

Runs that expect a violation check one sentence of a comment each;
`PROJECT.json` quotes them.

* `hub_hangs`: after a failed socket write the request is answered but left in
  flight, and `failAll` answers it again. If the first answer has not been
  taken the handler blocks with the mutex held, and if the caller's context
  ends at that moment, caller and handler wait for each other for ever.
  `CallReturns` and `QueueMoves` except exactly this case.
* `hub_wedge`: an answer that fails verification leaves its request in flight,
  so nothing more is sent on that connection.
* `repo_lost`: two writes that overlap in the signing round-trip are built on
  the same root; both are acknowledged and the later one replaces the earlier.
  The same overlap lets two events follow the same commit and can move
  revisions back, so `ImplementsStore`, `RevAdvances`, `EventFollowsRoot` and
  `RowsFollowRepo` are stated for one write at a time.

Behaviours the models also have, without a run of their own:

* A call that times out is cut out of the queue only. If the pump has taken the
  request it is still shown, its slot stays taken until the answer comes, and
  `deliver` finds it (`signer_hub.go:181-182` and `202-203` say otherwise).
* An evicted connection's main loop does not watch `done`: it stays open, with
  its prompt beside the new connection's (`specs.md:531-532`,
  `signer_hub.go:135-136`).
* An import's commit is signed by the rotation key, which `repo.go:258-260`
  reserves for account creation.
* A restart after retention has emptied the log resumes from the clock in
  seconds, and numbers may be handed out twice (`persist.go:46-61`).
* A connection receives no live event until a first one has been taken from its
  buffer and the gap before it was played back again.
* Two sign-ups can use up an invite that had one use left, two refreshes of one
  token both make a session, a code can be spent by two overlapping requests, two
  operations can be signed with one PLC code.
* An access token works until it expires, signed out or not. A sign-out that
  fails between its two statements cannot be repeated: the next one answers
  success and the refresh token stays good.
* A published DID without an account is left behind when the rows are refused.
  A decrement of the invite that fails makes createAccount answer an error
  although the account exists.
* A code mailed to an old address confirms the new one if the address changes in
  between; a change of address needs no code where `requestEmailUpdate` said it
  does (`handle_server_update_email.go`).
* The later of two overlapping approvals wins the request, and the code that the
  earlier one handed out is worth nothing. Redeeming a code uses the request up
  before it is checked, and does not look at its expiry.
* The refresh that loses against another refresh, or a revocation, answers with
  tokens that were never stored.
* An operation that the directory refuses counts as sent: the database then has
  a key or a handle that the directory does not
  (`handle_server_supply_signing_key.go:51` says the document is updated). The
  same happens when the statement after a send fails, and overlapping changes of
  a handle may end with the older name in the row.
* `submitPlcOperation` does not change the row's handle, whatever name the
  operation has.
* A document fetched across a bust is put into the cache after it, and serves
  the old identity for up to five minutes.

Seen while reading, without a run: the first code of an account is stored
without an expiry, so `confirmEmail` always refuses it
(`handle_server_confirm_email.go:35`). A `plain` PKCE challenge never matches,
since two pointers are compared. `handle_sync_subscribe_repos.go:59` expects the
loop to end when a relay leaves, which it does with the next event only.
Deleting an account leaves its OAuth sessions. `handleApplyWrites` always passes a pointer
to `Rkey` (`handle_repo_apply_writes.go:60`), so a create without a key takes
the branch for keyed creates and fails at `ParseRecordKey`, although
`repo.go:385` generates keys for such creates.

## 4. What is proved

TLAPS proves these for all values of the constants: any number of accounts,
sessions, calls, keys or relays, any sizes and any choice of faults. Every
safety property that a passing run checks, and both refinements, has its
theorem; the theorems that have no run of their own say in the table what they
state. A proof has one lemma per group of actions that says what a step
changes, one lemma per invariant that it is kept, and a theorem that puts the
two together.

| Theorem | Property | Inductive invariant, and why it is needed |
|---|---|---|
| `SignerHub_proofs` | | |
| `TypeCorrect` | `TypeOK` | `TypeInv` adds that a delivery in progress exists and that a call under way has a connection: deliver and the queue index with them |
| `HubIsLive` | `HubConnectionIsLive` | `HubInv` adds that an unopened session's channel is open, so that Register installs an open one |
| `OnePromptAtATime` | `OnePromptPerConnection` | `PromptInv` follows a request from the queue (`QueueInv`: once, in its own queue, unsent), through the single slot (`FlightInv`) and the hand-over channels (`HandOverInv`) to the signer (`PromptStateInv`: an open prompt keeps its slot). Steps in which no request moves forward are handled together (`Recedes`, `RecedingStep`) |
| `RequestsAreFound` | `NoLostRequest` | the property itself, on top of `PromptInv`: a request that leaves a queue goes into flight, one that leaves flight is being replied to |
| `WakeupsArrive` | `NoLostWakeup` | the property with `GoneIsDone`: an open connection whose done channel is open is the one in the hub, which is where a delivery looks for the pump to wake |
| `OutcomesAreTheSigners` | `OutcomeIsTheSigners` | `AnswerInv`: an answer in a delivery or in a reply channel is what the signer said to that request, also when it came in on another connection |
| `LateIsNotTaken` | `TimedOutIsNotTaken` | `LateInv`: a call that timed out is in no queue. Cancel finds it in one place only, by `QueueInv` |
| `HubImplementsService` | `ImplementsService` | the conjunction of the above. `CutOut` and `LineForm` say what a cancelled request and the hand-over slots are to the line; one lemma per goroutine says which step of the service each of its steps is |
| `SendsNeverBlock` | `SendsFindRoom`, of the sends that the hub's comment calls buffered | `RoomInv`: who is still in a queue, in flight or handed over has not been told, unless it is by this handler's failed write (`TakenInv`, `FullInv`) |
| `OnlyFailedWritesBlock` | `BlockedByOwnWrite`: what `hub_hangs` shows is the only way to it | `RoomInv` and `PromptInv` |
| `RegisteredHandlersGoOn` | `RegisteredHandlerCanGo`, the safety half of `DeadConnectionLeavesHub` | `OwnRoute`: a handler whose connection is in the hub delivers on its own connection |
| `FailAllEnds` | `DrainOnlyShrinks`, an action property, the safety half of `CallReturns` | none beyond `TypeInv`: what each goroutine may do to a queue whose mutex `failAll` holds |
| `RepoWrites_proofs` | | |
| `TypeCorrect` | `TypeOK` | `TypeInv` adds that a job with a commit in the making has one: `UpdateRoot` stores it |
| `RootIsStored` | `NamedIsStored` | `StoredInv` adds that a job about to name a commit has stored it, which only `Finalise` and `ImportCommit` establish |
| `CommitIsTheBatch` | `BuildsOnItsBase` | `TreeInv`: under the lock the cached tree is the write's base with its first operations applied (`MutateInv`), and when nobody holds the lock the cached tree is that of the commit it is filed under, or filed under none (`CacheInv`). `OverlayNext` says what one more operation does |
| `RowsAreSigned` | `OnlySignedRecords` | `SignedInv`: from the build on a write's commit is the one its user signs, its entries hold its own records only (an import's tree likewise), and a row stands for a commit that is stored and signed |
| `EventsAreTellable` | `EventsHaveOwnRevs`: whatever overlaps, an event is later than the commit it follows and has a revision of its own | `NumberInv` adds that no revision is later than the clock (`ClockInv`), and the same of the commits that are stamped and not yet announced (`OwnRevInv`) |
| `RepoWritesAlone_proofs` | | *these four assume `MaxOpen = 1`, as the run `repo_oneatatime` does* |
| `RevisionsAdvance` | `RevAdvances` | `BaseInv`: the root that the middleware read is still the root; `RevInv`: a stamped commit is newer than it |
| `EventsFollowTheRoot` | `EventFollowsRoot` | `EntryInv`: a write's entries lead from its base to the tree of its commit |
| `RowsAreTheRepository` | `RowsFollowRepo` | `RowInv`: in phase 5 the rows are those of the root with the entries before the one it is at |
| `WritesImplementStore` | `ImplementsStore` | the conjunction of the above: the step that moves the root is the batch, every other one a stutter |
| `EventLog_proofs` | | |
| `EventTypes`, `CounterCoversTheLog` | `TypeOK`, `SeqCoversLog` | `LogInv`: there is a highest row, rows were stored in the order of their numbers, the event being broadcast has the highest: a restart resumes from that row, retention takes the oldest |
| `SentEventsAreCovered` | `SentIsCovered` | `CoverInv`: what was sent, and what is in a page, a buffer or a hand-over, is covered by the rows that are left |
| `EventsComeOnceInOrder`, `NoEventIsMissed` | `EachOnceInOrder`, `NoneMissed` | `InStep`: what the relay received is increasing and complete up to its place, and what its connection holds, in each state of `Subscribe`, continues it (`Follows`) |
| `Accounts_proofs` | | |
| `AccountTypes` | `TypeOK` | `CallsOK`: a call at a statement has the arguments that the statement uses |
| `AccountsStayWhole` | `AccountsAreWhole` | `WholeInv`: a sign-up at its insertion has a published DID |
| `InvitesAreOverdrawnTogether` | `OverdrawnOnlyTogether` | `InviteInv`: an invite that was not shared has a use left for the sign-up that is pending; `TogetherInv` makes "open together" symmetric |
| `RefreshTokensAreExchangedOnce`, `SignedOutSessionsEnd` | `RefreshedOnce`, `SignedOutStaysOut` | `SessionInv`: what a call deleted stays deleted, and a refresh token has an access token beside it, by which a sign-out finds it, or its account was deleted beside it or an earlier sign-out broken off |
| `TokensHaveAccounts` | `NoTokensWithoutAccount` | `AccountInv` also speaks of sessions about to have tokens |
| `CodesWorkOnce` | `SpentCodesStayDead` | `CodeInv`: a spent code is not in its column, and no statement can write it there again |
| `OAuthFlow_proofs` | | |
| `CodesGoToPrivatePlaces` | `RedirectsArePrivate` | none: a code goes to the redirect of a client, and `AcceptedRedirects` and `AcceptedClients` say what the validation lets through |
| `RequestsBuyOnce` | `OneSessionPerRequest` | `SessionInv`: the code in a request's row is that of its last approval (`CodeInv`), what was bought was bought with a code given out, of a request that is gone (`PurchaseInv`), and once (`OnceInv`) |
| `EndedForGood` | `SessionsEndOnce` | `EndedInv`: an ended session had been stored and its exchange answered, so nothing can store it again |
| `RefreshesAreGood` | `AnsweredTokensExist` | `TokenInv`: a refresh under way has its session and its token, or was overtaken by another |
| `PlcIdentity_proofs` | | |
| `IdentityTypes` | `TypeOK` | `CallOK`: an operation that is sent is signed, and only what the kind of call has is built |
| `CodesSignOnce` | `CodeSignsOnce` | `CodeInv`: a code that signed is not in the row, so whoever brings it again began while the first was open |
| `CachedDocsAreNew` | `CachedDocIsNew` | `CacheInv` says the same of the open request's answer and of the document that a fetch is about to put |
| `KeysAgreeAlways` | `KeysAgree` | `KnownInv` (every signature is by a key that was once the row's, or the server's), `BuiltInv` (an operation on the latest one carries what the directory has) and `FrozenInv` (a key that the directory took and the row has not yet is one nobody signs with) give `KeysInv` |
| `HandlesAgreeAlways` | `HandlesAgree` | `HandlesInv`: while no two changes overlapped and nothing slipped, the directory has the row's handle alone, or that of the one change between its two stores |
| `DpopProof_proofs` | | |
| `RotateKeepsWindow` | for every two readings of the clock, `Rotate(Window(k), t) = Window(t)` | none: one function, its cases against a reference definition. It is why the shifting cases of `rotate` are right, also when the clock goes back |
| `RetryIsAnswered` | `OneRetryIsEnough(k, t)` for every k and t | none: `RotateKeepsWindow` reduces both rotations to windows, and the nonce that was handed out lies in the second for two intervals |

The assumptions are those the modules name, and TLC evaluates each of them in
the runs. They say what names are: a session and a call have an account
(`ConnDidAssumption`, `ReqDidAssumption`), `None` is not one of the things it
stands for the absence of (the `NoneAssumption`s; `RowsAssumption` in
`AccountDb` and `OAuthFlow` and `KindsAssumption` in `PlcIdentity` for rows and
kinds), a batch is a non-empty sequence of operations, writers and importers
differ, the account that exists at first is among the accounts
(`FirstAssumption`), keys, the server's key and `None` differ and so do handles
and numbers (`KeysAssumption`), pages and buffers hold at least one event
(`SizesAssumption`), and bounds are numbers (the `BoundsAssumption`s). No bound
is assumed to have a value, but for `MaxOpen = 1` above.

What the proofs changed. `SignedOutStaysOut` did not hold for every value of
the constants: a session made beside the deletion of its account lost the row by
which a sign-out finds it, and the account could come back. The instance was too
small for that, the failed proof step showed it, and the property now says so.
`Passport!FlightEnds` had two arms of a CASE whose guards overlapped, which
TLC resolves by order and the language does not. In `EventLog` a page is the
set of rows that a query returned, sent from the lowest up, and in `PlcDirectory`
and `PlcIdentity` records are written out, so that their fields can be reasoned
about; neither changes what a step does.

Model-checked only:

* `CallReturns`, `QueueMoves` and `DeadConnectionLeavesHub`: liveness under
  fairness needs ENABLED, which the prover does not support. For the first and the
  last the safety half is proved (`SendsNeverBlock`, `OnlyFailedWritesBlock`,
  `RegisteredHandlersGoOn`, `FailAllEnds`): what may block, and that a `failAll`
  which is not blocked has a last step. What is left to TLC is the fairness.
* The three runs that expect a violation: they are counterexamples.

Induction over data is out of the prover's reach too. That is why `Effect` in
`RepoTree` is defined by the last change of each path and not by recursion over
a batch: `OverlayNext` then says what one more operation does, and no induction
over the batch is needed.

## 5. Plan

Done: 1. `SignerHub`, `SignatureService`. 2. `RepoWrites`, `RepoStore`.
3. `EventLog`. 4. `Accounts` with `SignUp`, `Sessions` and `AccountCodes`.
5. `OAuthFlow`, `ClientMetadata`. 6. `PlcIdentity`, `PlcDirectory`, `Passport`.
7. `DpopProof`. 8. A theorem for each safety property of the runs, and for both
refinements. 9. The safety halves of the hub's liveness, and what stays true of
the repository's events when writes overlap.

Not done: for the repository, more of what `EventFollowsRoot` and
`RowsFollowRepo` leave true of calls that overlap; for `OAuthFlow`, an abstract
session that approvals and exchanges implement.

## 6. Not modelled, and why

Cryptography (signatures, WebAuthn, JWTs, the form of DPoP proofs, client
assertions, PKCE) is a verdict on a message. Encodings (CBOR, CAR, CIDs, the
tree's nodes, frames of the firehose) are abstracted to the content they carry.
Read-only handlers have no state. Proxying, mail, pages, metrics and start-up
wiring are I/O.

Blob reference counts: `getBlobCidsFromCbor` (`repo.go:958-1012`) descends from
a record only if the record itself has `$type: "blob"`, which no record of a
known collection has. No count changes after the upload, nothing is removed, and
a model of the counting would be one of code that does not run.

Left out of what is modelled: service tokens and the compatibility mode, `did:web`, the
cache from handles to DIDs (which nothing busts), the directory's 72 hours in
which an operation can be undone, operations that users send to the directory
themselves, a passkey registered twice, the rate limit of crawl requests,
servers that need no invites, and the replay cache of DPoP proofs, whose answer
is an input of `CheckProof`.

`PROJECT.json` lists every part with its status, and the hazards that no property
covers with the reason.
