# A TLA+ model of Univer Workspace

This directory holds TLA+ modules that model Univer Workspace: its server
(`src/apps/workspace/server`) and the parts of its clients that keep protocol
state, TLC configurations that check them on small instances, and TLAPS proofs of
their most important invariants. The code is the
reference: each definition names in `PROJECT.json` ("map") the lines it stands for.

## 1. The system and its parts

One Node.js process serves HTTP. It keeps two stores which share no transaction:

* the **product database** (`db/schema.sql`, node:sqlite, synchronous), which owns
  users, Spaces, Nodes, Resources, worktree rows, intents, Operations, upload
  sessions and outboxes;
* the **collaboration service** (`@univerjs-pro/collaboration-*`, external, own
  SQLite database and worker threads), which owns the content of Units and the
  branches ("worktrees") of Units under review.

A third store holds blob objects (`integrations/blob/blob-store.ts`, a directory of
files).

Execution model used by every module. The process has one thread and SQLite calls
are synchronous, so what a handler does between two `await`s is not interleaved
with other handlers. A call to the collaboration service or the object store is an
`await`: other handlers run meanwhile. A crash may fall between any two SQLite
statements (or transactions, where the code opens one); it loses every request in
memory and keeps both stores.

| Component (sources) | State it keeps | Operations | What is hard | What makes it correct |
|---|---|---|---|---|
| Review worktrees (`modules/worktrees`, `integrations/univer/worktree-store.ts`) | `worktrees`, `worktree_units`, `worktree_node_intents`, Operations; the branch in the service | create, addUnit (trunk, local), setUnitRemoved, markReady, reopen, merge, discard, retry | a saga over two stores: concurrent merge and discard, partial merges, crash between writes, replays of a key | nothing unmerged is published, nothing discarded comes back, processed_at agrees with the service, a finished merge converges |
| Operation journal (`modules/operations`) | `operations` | reserve, complete, fail, retry | a replay races the first attempt | completed is final; completed means done |
| Resource creation (`modules/resources`, `jobs/operation-recovery.ts`) | Operations with leases, `resources`, `univer_resources` | create, resume, retry | lease against slow call, crash, worker and client at once | one Resource per key, it is eventually there or failed |
| Blobs (`modules/blobs`, `jobs/blob-maintenance.ts`, `integrations/blob`) | upload sessions, `blob_resources`, deletion outbox | create session, upload, complete, abort, expire, replace, delete object | abort races upload; crash between put and row | no object is lost while referenced, none leaks |
| Node tree and Trash (`modules/nodes`, `modules/trash`) | `nodes`, `trash_batches` | create, rename, move, trash, restore, remove permanently | nested batches, late inserts under trashed parents, RESTRICT foreign keys | the Nodes are a forest, restore undoes a trash, no batch and no visible Node is lost as a side effect |
| Univer assets (`modules/univer-assets`) | `univer_assets`, `univer_asset_uploads`, objects | upload, publish on merge, remove, recover at the start | uploads outlive merges and removals; three stores and a crash between any two | every object has one owner; images of merged Units are trunk images |
| Access, permissions, Spaces (`modules/access`, `permissions`, `spaces`) | members, grants, link sharing | resolve, grant, revoke, share, tree handlers under capabilities | inheritance along a tree that changes under it | the role is the highest that reaches the Node; a reply can be resolved |
| Content permissions (`integrations/univer/content-permissions.ts`) | rules of protected objects | create, update, decide | rules outlive the file roles they were made under | rules never go beyond the file's roles |
| Identity (`modules/identity`) | users, sessions, email codes, device authorizations | request and use a code, log in, log out | what is read before an await decides after it | a code signs in once; the newest works |
| Issues (`modules/issues`) | issues, relations, events | create, update, delete relations | history and state are written apart; one number sequence with worktrees | the timeline leads to the present state; numbers are unique |
| Exchange (`modules/exchange`) | artifacts and tasks in memory, objects | upload, import, export, expire, dispose | conversions that outlive dispose | no object is left that nobody knows |
| Change feed and its pages (`integrations/realtime`, agent `workspace-*events*.ts`, plugin `univer-api.ts`) | sockets, streams, dirty bits, cached file states | publish, reconnect, follow, invalidate, read | two sockets that break, a coalescing timer, reads that overtake each other | a page that shows what is gone has word coming |
| Agent connection (`apps/agent`) | the account in use, its file, pending logins | three kinds of login, logout, origin setting | all of them overlap, over awaits | one account everywhere; an overtaken login stays out |
| Content runtime (`packages/client-core`) | pooled runtime, sessions, queue | read, execute and commit | lost answers, foreign commits, eviction | a write lands once, on the revision it was made for |
| Views, activity, routers, middleware, gateway, comparison | none of their own | read, proxy | - | - |
| Web, CLI, viewers, other shared packages | client state | render, request | - | - |

`PROJECT.json` lists every component with its status, and "hazards" the behaviours
that are hard to test at the line where they bite.

## 2. Modules

### Worktree.tla - the review saga

One worktree with its Units, the requests that work on it at the same time, users
of the Node tree around it, and crashes.

| State | Code |
|---|---|
| `wt`, `bUnits`, `bRemoved`, `bMerged` | the branch in the collaboration service: status, Units, deletion marks, Units whose content reached the trunk (external) |
| `row`, `mapped` | rows of `worktrees`, `worktree_units` |
| `activated`, `discarded` | `worktree_node_intents.activated_at`, `.discarded_at` |
| `processed` | `worktrees.processed_at` |
| `receipt` | `trash_batches` rows under the worktree's deterministic id (`removalBatchId`) |
| `node`, `target` | the Node of each Unit, the folder local Units are published into |
| `op`, `result` | `operations.state` and the status recorded in `result_json` |
| `req` | the requests in memory: stage, call, what they read before their await, the service's answer, the rows left in their loop |
| `faults` | crashes and failed calls so far (a bound, not code) |

A request moves through stages: `context` (awaits `getWorktree`), `call` (awaits
the service operation), `merging`, `answered`, then for merge `activate`, `trash`,
`process`, `complete`. The last four run between two awaits, so no other handler
acts while a request is there (`LoopFree`) - but a crash may fall between any two of
them, and the service, which has its own threads, may act. Each action is one
handler stage: `Admit` is everything from the answer of `getWorktree` to the next
await (capability checks, target validation, reservation); `Refuse` its early
returns; `CallX` the effect of a call inside the service; `Activate`,
`TrashRemoved`, `MarkProcessed`, `Complete` one transaction each; `Throw` is the
catch of `executeReserved`.

Abstractions. One creator who may do everything the tree allows; access is reduced
to what can change under a worktree: a Node is live, trashed or gone, the target
folder is live or trashed. The key of an addUnit is named by the Unit its
reservation fixed. A conflict or failure of one Unit in a merge is one outcome: not
merged. Changesets, names, visibility, listings, audiences and notifications are
left out.

Properties: see section 3. Fairness (`FairSpec`): the process serves the requests
it has (weak fairness of each request's next step: promises are resumed by the
event loop, external calls return); the client that does not know the outcome of a
merge or discard keeps asking under the same key (strong fairness of `Resubmit`),
as the Idempotency-Key contract in `docs/application-design.md` provides for; there
is no recovery job for worktree Operations in the code, so without such a client
nothing would finish them. Nothing is assumed of other users; a merge can only
converge if the Nodes it needs do not stay out of reach, which is the antecedent of
`MergeConverges`.

### MCWorktree.tla

Model values for the runs and the symmetry of requests, which differ only by what
they carry.

### Worktree_proofs.tla

Theorems about Worktree, for every set of Units, keys and requests, and the proof that
it implements ReviewOutcome; section 4.

### ReviewOutcome.tla - what a review promises

The abstract review: it ends once, content only reaches the trunk, a Unit made in
it is published or given up but never both, deletions reach the tree only with a
whole merge, and clients are told an outcome only if it is the one. Worktree
instantiates it and the run `worktree_crash` checks `ImplementsReviewOutcome`; the
mapping is

| ReviewOutcome | Worktree |
|---|---|
| `phase` | `Phase`, from the status the service reports |
| `landed`, `published`, `givenUp`, `trashed` | `bMerged`, `activated`, `discarded`, `receipt` |
| `settled` | `processed` |
| `reported` | the recorded results that name an outcome |

Requests, keys, stages, crashes, replays and the Node tree are all hidden: steps
that only move those are stutters.

### ResourceCreation.tla - reservation, lease and recovery

The creation of Univer Resources under Idempotency-Keys, by callers (create, Retry)
and by the recovery worker, next to users who trash, restore and remove the created
Nodes and the folder some of them are created in.

| State | Code |
|---|---|
| `op` | `operations.state` |
| `due`, `later` | the pending rows in the order of `next_attempt_at`, split by the clock |
| `leased` | the rows whose `lease_expires_at` lies ahead |
| `unit` | the Units the collaboration service has (external) |
| `node`, `folder` | the Node of each key and the folder: live, trashed in a batch of its own, trashed with the folder, removed |
| `exec` | the key each caller, and the worker, awaits `createUnit` for |
| `todo` | the rest of the rows the worker claimed (it works on them one after the other) |
| `crashes` | restarts so far (a bound, not code) |

An execution has one await, so it is `Create`, `Retry` or `ClaimDue` (its start),
`UnitLands` (the service's effect) and one of `Succeed`, `CallFails`,
`InsertAborts`, `CallRejected` (its answer, with the writes of `execute` that
follow). Nothing stops a lease from running out while its holder still waits:
`LeaseExpires` is free, as 60 and 30 seconds are against a call without a timeout.
Time is reduced to order: a row comes due when its turn in `later` comes, and rows
never tie. A repeated `createUnit` for a Unit that exists may succeed or fail, as
the external service decides. Attempt counters, `step` and error texts decide
nothing and are left out; the Space of a root-level key is taken to stay.

Fairness: the worker's timer and the clock run, calls of the worker are answered,
and a Unit asked for again and again is made in the end (strong fairness of
`UnitLands` and `Succeed` for each key; failures in between are unlimited). A
caller may hang for ever.

`ResourceCreation_proofs.tla` proves its safety properties and the types of the queue
for all constants. The queue is written for that: a key is taken out with `RemoveFirst`
(it waits at most once), and a claim takes the first free places of the queue
(`FirstFree`), which is `ORDER BY next_attempt_at LIMIT n`.

### BlobStorage.tla - upload sessions, replacements, deletion outbox

Rows in SQLite against files in the object store: clients that create, upload,
complete and abort upload sessions, writers that replace the content of a published
Blob, users of the Trash, the maintenance worker, and restarts.

| State | Code |
|---|---|
| `sess`, `overdue` | `blob_upload_sessions.state`; open sessions whose `expires_at` lies behind the clock |
| `rop`, `expected` | `operations.state` of a replacement, the version its If-Match names while its request runs |
| `node`, `current` | the Node of a session's Resource; `blob_resources.object_key`, which stands for the ETag too, since every version has an ETag of its own |
| `put` | a `BlobStore.put` in memory: its file is being opened, it is written, or it is renamed and the put not yet back in its handler |
| `stray` | opens under way of puts that gave up in the meantime |
| `completing` | requests between the check of `complete` and its transaction |
| `temp`, `stored` | files `<key>.upload` and `<key>` |
| `jobs`, `leased`, `backoff` | rows of `object_deletion_jobs`, live leases, attempts that wait |
| `working`, `unlinked` | the jobs of the worker's run in memory, the one it deleted and has not taken off the outbox |
| `escaped` | history: objects deleted while an open of their temporary file was under way |
| `crashes` | restarts so far (a bound, not code) |

A session or a replacement names the object it reserved. What runs between two
awaits is one action: `BeginUpload` (check, `waiting -> verifying`, the put asks for
its temporary file), `OpenFile` (the thread pool opened it, whatever was deleted
meanwhile), `Rename`, `MarkUploaded` or `UploadFails`; `Replace`, `FinishReplace` or
`ReplacementFails`; `StartComplete`, `FinishComplete`; `Maintain` (expire, then
claim), `Unlink`, `CompleteJob` or `FailJob`. `Crash` includes the start that
follows it: `createBlobsModule` reopens interrupted uploads and fails pending
replacements.

Abstractions. The bytes of a put are one step; a wrong length, a broken connection
and a failed rename are all `UploadFails` or `ReplacementFails`. A put that gives up
before its file was opened does not stop that open: it becomes `stray` and leaves a
file later (`StrayOpens`). A file opened twice under one key (the second put of a
session, next to a stray open of the first) is one file here; that the second open
may cut what the first one's stream wrote is not modelled, its bytes being data. A
claim takes all due jobs: its
limit of 25 is above every bound here. Other handlers may act between `Unlink` and
`CompleteJob`, although the file store's delete is synchronous: more behaviours
than the code has, which the safety properties survive. A refused access check is an
action that is not taken; the target folder stays, since the session's foreign key
keeps it. Replays of a completed key and reads change nothing and are left out. The
session's own Operation follows the session's state.

Fairness (`FairSpec`): the timer and the clock run, a claimed job is finished, and a
deletion tried again and again succeeds in the end. Nothing is assumed of clients.

`BlobStorage_proofs.tla` proves its safety properties for all constants.

### NodeTree.tla - the tree and its Trash

All handlers that write `nodes` and `trash_batches`, each synchronous and therefore
one action, on arbitrary trees; and the sagas (creation of Resources, uploads,
publication of worktree Units) that choose a folder, wait, and insert there when it
may be trashed or gone.

| State | Code |
|---|---|
| `parent`, `batch` | `nodes.parent_id`, `nodes.trash_batch_id` |
| `root` | `trash_batches.root_node_id` of open batches |
| `pinned` | Nodes with rows that refer to them ON DELETE RESTRICT |
| `target` | the folder each saga in flight chose |
| `filed` | history: batch and parent of a Node when it was trashed |

Recursive queries are least closed sets (`Subtree`), so that the module has no
RECURSIVE operator. Names, order and listings are data. Ids are reused after a
removal and stand for fresh ones. Anybody may do anything: the capabilities are the
subject of Access, and leaving them out only adds behaviours.

### Access.tla - roles and capabilities

Extends NodeTree with members, grants, links and public read of one Space of either
type. `Role` follows the SQL of `nodeAccessQuery`: the climb that stops at a trashed
parent, the one grant and one link picked by ORDER BY and LIMIT 1, the parent an
outsider does not see. The handlers of the tree run under the capabilities it
grants (`UserCreates`, `UserMoves`, `UserRenames`, `UserTrashes`, `UserRestores`,
`UserRemoves`). `MCAccess` has a model of its own for one finding. The Nodes a Node hangs under
(`Ancestry`) are a least closed set, like `Subtree`, so that `Access_proofs.tla` can
reason about the climb.

### ContentPermissions.tla - rules inside a Unit

One permission object of one Unit over the file roles, which change independently.
Actions are one of each kind the code tells apart; a stored strategy is a function
from actions to the least role (`Strategies`). Objects in draft branches of a
worktree are not modelled.

### UniverAssets.tla - embedded images and files

| State | Code |
|---|---|
| `request`, `stage` | what an upload is for, and where its handler is: authorized, or at `store.put` |
| `upload`, `asset`, `queued` | `univer_asset_uploads.state`, the scope of the row in `univer_assets`, the deletion outbox |
| `files`, `stray`, `escaped` | objects, opens under way of puts that gave up, history: deleted during such an open |
| `trunk`, `intent`, `processed` | `univer_resources`, `worktree_node_intents`, `worktrees.processed_at` |
| `wt`, `done` | the service's worktree, and the Units it reports as merged or unchanged |
| `mergeOp`, `merging`, `discarding` | `operations.state` of each merge key, its request in memory with the answer it waits for or got, a discard between the service's commit and its rows |
| `settled`, `late` | history: Units of merges that completed, uploads that ended when the worktree took no more edits |
| `up`, `crashes` | the process runs; how often it stopped |

The upload runs from authorization to bytes to publication, next to the worktree's
draft, the removal of Units, crashes, and the start that recovers row by row. A merge
is cut at its await: `AskMerge` (checks, reservation), `StartMerge` and `EndMerge` (the
service takes the call and commits, asynchronously), then what the product writes, in
one run of the event loop. That run has three ends: `MergeEnds` (all of it),
`MergeStopsEarly` (after the commit and any number of activations, before the
publication: a lost answer, an aborted transaction, or the process stops), and
`MergeStopsLate` (after the publication, with or without `processed_at`); a call that
never commits is `MergeCallFails`. So a reopen, a discard, a second merge, an upload or
a crash falls between the service's commit and the rows, and between activation and
publication when a merge broke off there. Two merge keys run at once; a key is asked
for again after a failure (`FetchMerged` when the service already reports merged). Of
one key one request runs at a time; two of one key are Worktree's subject, as are the
deletions of a merge. `FairSpec` says that the process is started again and that its
recovery loop goes on; only the run `asset_startup` needs it.

### SignIn.tla - emailed codes

Requests and logins for one address over `email_login_codes`, each cut where the code
awaits a hash, a mail or a comparison. Time is ticks. `spent`, `uses` and `current`
are history. A restart loses handlers and keeps rows. The provider may fail after it
was asked.

### Issues.tla - numbers and timeline

Issues and worktrees of one team Space: each handler is one transaction that writes
the row, the relations and the events. The events of one update are a set, since they
share a time and are read in no particular order. Comments and bodies are left out.

### Exchange.tla - artifacts and tasks

Artifacts and tasks live in two maps of the process while their bytes are objects of
the store. Uploads, conversions, expiry and `dispose` interleave at every await; the
result of a conversion is a choice. A deletion that fails is not tried again, and a put
that gives up before its file was opened leaves that file (`PutLeaks`): both are
`leaked`, as in the code.

### ContentRuntime.tla - the client's runtime of a worktree Unit

The queue of operations of one Unit, the pooled runtime with its session, the
synchronization to the selected revision, the execution and up to three submissions,
of which any may be lost before or after it took effect. The pool and the
collaboration server are external.

### ChangeFeed.tla - from a change to a page

| State | Code |
|---|---|
| `data` | the changes of the product so far (a version) |
| `socket`, `wire` | the agent's one socket: asking for a ticket, dialling, open, forgotten by the server but not yet closed here, waiting to reconnect; frames on it |
| `pending` | the 100 ms timer of `changed` |
| `following`, `dirty`, `frame` | a page's stream, the bit its generator waits for, a frame on its way |
| `snapshot`, `current`, `reading` | `fileStateSnapshots`, `fileStateRequests` and the reads in flight with what they saw |
| `shown` | what a view of the page shows (`WorkspaceSidecar.tsx`) |

Sockets, streams and the agent may break at any time; frames on them are lost. A
frame carries no content, so one counter per socket is enough. A frame of another
connection's version, which the page drops, is not modelled: the page reloads then.

### AgentConnection.tla - logins, logouts and the connection file

| State | Code |
|---|---|
| `active`, `home`, `version` | `active`, the account `workspaceRuntime` is provided for, `connectionVersion` |
| `configured`, `changes`, `written`, `writeFailed` | `configuredOrigin`, its writes, `originWriteError` |
| `file`, `writes`, `read` | the connection file, the chain `stateWrites`, what its first update has read |
| `transition`, `phase`, `upTo` | the chain of switches and where the first of them is |
| `login`, `listed` | logins in flight, and those in the maps of pending authorizations |
| `overtaken` | history: what happened while the Workspace was asked |

Each action is the code between two awaits. Any write may fail or be cut off by the
end of the process; the rename makes a write atomic. Draining the old runtime is taken
to succeed: a rejection there would leave `staged` set for good, since it happens
outside the `try` of `switchConnection`. Expiry may strike at any time. The DSH
runtime, the settings service and the Workspace are external.

### MCServices.tla

The parts that share no state and no transaction with each other (Access,
ContentPermissions, UniverAssets, SignIn, Issues, Exchange, ContentRuntime, ChangeFeed,
AgentConnection), each behaviour one of one of them, chosen in the initial state
while the others rest. It restates their properties under their own names and has the
model values of all of them. `Services_proofs` (the server's parts) and `Clients_proofs`
(the clients') prove those properties for the specification the run checks, `MCSpec`,
with every constant free; its named assumptions say which names the code keeps apart. `MCNodeTree`, `MCSignIn`, `MCUniverAssets`, `MCAccess`,
`MCResourceCreation` and `MCBlobStorage` are models of one module each.

## 3. Runs

| Run | Bounds | What it shows |
|---|---|---|
| `worktree` | 1 trunk and 1 local Unit, 2 concurrent requests, 1 merge and 1 discard key, no faults | `PublishedOnlyIfMerged`, `NeverRepublished`, `CompletedStays` under every interleaving of two requests: merge against discard, two merges of one key, add against merge |
| `worktree_crash` | the same Units and keys, 1 request, 2 crashes or failed calls, fairness | `ProcessedIsFinal`, `CompletedIsProcessed`, `DeletionWaitsForMerge`, `SettledWhenProcessed`, `RestorationIsKept`, the refinement `ImplementsReviewOutcome`, and `MergeConverges` |
| `worktree_discard` | 1 request, 1 fault | finding: `DiscardConverges` fails |
| `worktree_reference` | 2 requests, no fault | finding: `ActiveReferenceBlocksRemoval` fails |
| `resource` | 2 keys (1 in the folder), 2 callers, claims of 1 row, 1 crash, fairness | `NodeMatchesJournal`, `NodeHasUnit`, `NodePlaced` when executions of one key overlap; `PendingSettles`: a pending key is settled unless its parent is gone, nothing starves it |
| `resource_once` | 1 key, 1 caller, no crash | finding: `OneNodePerKey` fails |
| `blob` | 1 session, 2 replacements, 2 completing requests, 1 open of a put that gave up, 1 restart, fairness | `ReferencedIsStored`, `NothingLeaks`, `NoLostUpdate`, `RemovedStaysRemoved` when puts, the opening of their files, aborts, expiry, removals and the worker overlap; `QueuedIsDeleted`: failures, leases and restarts do not strand an object |
| `tree` | 4 Nodes, 3 batches, 1 saga, symmetry | `Forest`, `FiledAsTaken`, `OpenBatchesStay`, `VisibleStays` under every order of tree and Trash operations |
| `services` | per part, below | `RoleIsHighest`, `ReplyResolves` (access); `RulesStayInTheFile`, `RaisingKeepsActions` (content permissions); `EveryFileIsOwned`, `MergedImagesReachTrunk` (assets); `SpentNeverSignsIn` (sign-in); `TimelineReplays`, `NumbersAreShared` (issues); `FilesAreKnown` (exchange); `LandsOnceOnItsRevision`, `PooledIsReusable` (runtime); `NoChangeIsLost` (feed); `OneAccountEverywhere`, `OvertakenStaysOut` (agent) |
| `shared_rename` | 2 Nodes, a personal Space, owner and one user | finding: `RenameKeepsPlace` fails |
| `asset_startup` | 2 uploads, 2 Units, 1 merge, 1 crash, fairness of the start | finding: `StartsAgain` fails |
| `sign_in_newest` | 2 codes, 2 logins, 3 ticks | finding: `NewestCodeWorks` fails |

Bounds, and why they are enough.

* **Worktree.** One Unit of each kind: each property speaks of one Unit at a time; a
  partial merge is the one where one of the two Units merges and the other does not.
  Two requests make a race; the rows a request leaves after a crash are picked up by a
  later request, so one request slot with two faults covers a crash during a
  resumption. `keep` (undoing a deletion mark) is offered only with faults, to keep
  the first run small; the proved invariants hold with it and for any number.
* **ResourceCreation.** Two executors can hold one key while a second key is due; a
  claim of one row is the hardest case for starvation. With `Limit = 1` the worker
  never holds claimed rows it has not begun; the safety theorems hold for every limit.
* **BlobStorage.** An object belongs to one session or one replacement and files of
  different sessions never meet, so one session with two replacements has every
  conflict about one Resource, and three objects in the outbox. One open of a put that
  gave up is under way at a time (`MaxStrays`): an object is touched by its own only.
* **NodeTree.** Three nested folders and a Node beside them, with a batch for each
  level, make every nesting of batches that two operations can tell apart; the saga
  is the late insert. The theorems have no bound.
* **Access, content permissions.** Three Nodes on a path, an owner and one user and
  the anonymous reader, both types of Space, one batch, three grants or links at once
  (an editor's, a viewer's and a link at three depths). Two readers and three
  strategies: none, one that opens Edit to owners only, one that gives management to
  readers.
* **UniverAssets.** One upload, to the worktree or the trunk (no action reads a second
  one's rows; the run `asset_startup` has two), a trunk and a local Unit, two merge keys,
  which cross each other, a reopen and a discard, and one crash.
* **SignIn.** Two codes and two logins, resend interval 1, life 1, window 2: long
  enough for an expired code, a second request in the window and a login that found
  the older one.
* **Issues.** One issue, one worktree, two updates over two titles, a label and a
  person: each kind of event, twice in a row or undone.
* **Exchange.** Two artifacts, two tasks, a life of one tick, three ticks.
* **ContentRuntime.** Two writes and a read, one foreign revision, two sessions.
* **ChangeFeed.** One page with two reads at once and two changes: an answer from before
  a change, one from after it, and a change that falls into the timer of another.
  Pages share only the socket.
* **AgentConnection.** Two logins of any kind, two origins, and two events among logouts,
  changes of the setting and restarts: every overlap of one login with another, or
  with two of them.

Deadlock is not checked where a model may stop: everything is removed, used up or at
its bound.

Fairness. Only `worktree_crash`, `resource`, `blob` and `asset_startup` assume any; what
each formula stands for in the code is said with its module in section 2. No run assumes
that users, callers or clients do something, except the client of `MergeConverges` who
keeps asking under its key.

### Findings

* **A discard that was interrupted cannot be finished.** `discard` refuses every
  request once the service reports `discarded`, and has no resume path as `merge`
  has. A crash or failure between `backend.discard` and `markProcessed` leaves
  `processed_at` NULL and the local intents open; replay and Retry are forbidden
  forever, although `docs/application-design.md` (379-382) promises that the same
  key returns the existing state and a failed Operation is queued again by Retry.
* **An active worktree may reference a Resource that is gone.** `addUnit` checks the
  Resource before its await and maps it afterwards without checking again, so users
  can remove the Node for good in between (`docs/data-model.md:303` says an active
  worktree that references a Resource blocks its permanent removal).
* **A key may make its Node twice.** `completeCreateResource` inserts the Node
  whenever no Resource row exists. When two executions of a key overlap (a lease ran
  out, or the worker claimed what a Retry is executing), and a user removes the
  published Node for good before the slower one answers, the slower one publishes it
  again; `resources.test.ts:34` states one Node per key.
* **Renaming a shared Node may move it.** `nodes.service.ts:178` writes the name and the
  parent together and takes the parent from what the user sees. Somebody who was given
  a Node but not its folder sees no parent, so an editor's rename moves the Node to the
  root of the owner's Space, which their capabilities forbid; `docs/data-model.md:460`
  says that a rename writes the name only.
* **A stored upload may keep the process from starting.** The recovery at the start
  publishes stored uploads without a catch (`univer-assets.repository.ts:169`). An
  upload whose Unit was removed for good violates a trigger, so the start throws, every
  time; `docs/data-model.md:247` says that the start publishes complete stored rows.
* **The newest code may not work.** The resend interval is read before the hash is
  awaited and the row is written after it (`identity.service.ts:431`), so two requests
  pass together, and each consumes every other code when its mail has gone out: the
  code of the last mail may be consumed. `email-login.test.ts:106` accepts the newest.

Observed while modelling, and kept in the modules where they have a place:

* **An object may leave nothing behind but its bytes.** `createWriteStream`
  (`blob-store.ts:76`) opens the temporary file on the thread pool. When the key is
  deleted before that (an abort or expiry and a tick of the worker, or the put gave up and
  its own `rmSync` came first), the deletion finds no file, which it ignores, and drops its
  job; the file, or the object it is renamed to, then stays with no row that names it.
  `docs/data-model.md:232` says that temporary objects are removed by an upload that is
  repeated, an abort or the expiry. `escaped` records these keys, and `NothingLeaks`,
  `QueuedIsDeleted` and `EveryFileIsOwned` speak of all others (BlobStorage, UniverAssets;
  `PutLeaks` in Exchange, where the store has no outbox at all).
* A merge that took some Units only leaves the worktree ready. When the answer reaches the
  product after a reopen, the images that were added to the new draft meanwhile are
  published with the old ones, before they are merged (UniverAssets, `MergeEnds`).
* A merge that took some Units and broke off before `publishWorktreeAssets`, followed by a
  discard or a new draft, leaves the images of the Units it merged in the worktree:
  nothing but a later merge that takes those Units publishes them. `MergedImagesReachTrunk`
  therefore speaks of merges that completed (UniverAssets, `MergeStopsEarly`).
* An upload that ends after its worktree is over becomes an asset of that worktree, which
  nobody reads and nobody removes. `EveryFileIsOwned` counts it as owned (UniverAssets,
  `late`).
* A handler of a worktree awaits the service between its write and `notifyChanged`
  (`worktrees.service.ts:777`): when that call fails, the change is written and nobody is
  told. `NoChangeIsLost` speaks of changes that were published (ChangeFeed, `Publish`).
* `dispose` of the exchange waits for conversions, not for a handler whose client went away
  before the HTTP server closed; `FilesAreKnown` leaves that handler out (Exchange).

* An Operation whose parent folder was removed stays pending and is tried every five
  seconds for good, since the aborted INSERT counts as retryable (ResourceCreation).
* A Node published into a folder that is in the Trash is itself live:
  `nodeAccessQuery` (`access.repository.ts:246`) stops at a trashed ancestor, although
  `docs/data-model.md:280` hides what is in the Trash and
  `docs/application-design.md:301` refuses what lies under it (NodeTree, Access).
* A folder that an upload session or an intent ever named is kept by a RESTRICT foreign
  key (`schema.sql:266`, `338`), so its permanent removal aborts, while
  `docs/data-model.md:302` names active worktrees as the only obstacle (NodeTree,
  `pinned`).
* A device login is not compared with the connection again after its exchange: one that
  was in flight connects after a logout, and so does a browser login while the logout
  still drains; changes of the origin, which desktop and browser logins compare, are
  not recorded. `OvertakenStaysOut` therefore speaks of a part of the checks the code makes
  (AgentConnection).
* A write of the origin that failed makes every login and logout fail until a later one
  succeeds (AgentConnection, `writeFailed`).
* `use-univer-state.ts:58-72` has no guard against an older read that fails after a
  newer one succeeded, unlike the view that ChangeFeed models (`WorkspaceSidecar.tsx`);
  `use-session-files.ts` forgets the files of a mounted card at every change and does
  not read them again. A socket that breaks without a close is not noticed by the
  agent. These are outside the modules.
* Two updates of an issue within one millisecond have no order in the timeline; the model
  gives them one (Issues).

## 4. Proofs

TLAPS checks every theorem for all values of the constants, from the assumptions the
modules name. TLC evaluates the assumptions on the runs.

### Worktree

The invariants are not inductive: what `Activate` writes is right because of what
the request learned from the service several steps earlier. `IInv` adds

* `RequestInv`: for each request in memory, `TrueFor` (its answer still holds: the
  Units it lists as merged are merged, merged and discarded are still the status)
  and `EarnedFor` (a request at stage `trash` has an answer `merged`, at stage
  `process` merged or discarded, at `complete` with such an answer processed_at is
  set, ...);
* `IntentInv`: activated intents reached the trunk and are not discarded, and only
  activated local Units have a Node;
* `JournalInv`: the three invariants about processed_at, results and deletions.

The argument: what the service did is not undone (`NextGrows`: merged and discarded
are final, merged Units stay merged), so `TrueFor` of the requests a step does not
serve is kept (`OthersKeepTruth`), and each action establishes it for its own
request (`NextRequestInv`, with `AdvanceIsEarned` for the loops of merge). Intents
(`NextIntentInv`) and journal (`NextJournalMoves`, `NextDeletionsMove`,
`NextProcessed`) follow. Assumptions: `KeysAreDistinct` (Units of trunk and worktree
are different, keys of different operations are different) and `FaultsAreBounded`.

| Theorem | States |
|---|---|
| `SagaInvariant` | `Spec => []IInv` |
| `TypeCorrect`, `PublicationSafe`, `ProcessedSafe`, `JournalSafe`, `DeletionSafe` | `Spec => []TypeOK`, `[]PublishedOnlyIfMerged`, `[]ProcessedIsFinal`, `[]CompletedIsProcessed`, `[]DeletionWaitsForMerge` |
| `CompletionFinal` | `Spec => CompletedStays` |

Four promises of the saga are about its loops, and need to know that nobody acts between
two of their steps and what they leave behind. `LoopInv` says so, beside `IInv`:

* `Alone`: at most one request is in a synchronous stage (an action of another request
  or of a user waits for `LoopFree`);
* `Branched`, `WholeMerge`, `WholeAnswer`: what is mapped is in the branch, a branch that
  merged as a whole has all its content on the trunk, and an answer `merged` names every
  Unit as merged or as removed;
* `Progress`: before the loop over local Units ends, those it has not activated are still
  in its list; after it, all that merged are active; after the next loop every removed
  Unit is given up or has its receipt.

A crash at any point empties the stage and keeps `Progress` of the rest; a later request
starts its lists from the rows.

| Theorem | States |
|---|---|
| `LoopsInvariant` | `Spec => []LoopInv` |
| `SettledBeforeProcessed` | `Spec => SettledWhenProcessed` |
| `RemovedForGood`, `RestoredByUsers` | `Spec => NeverRepublished`, `Spec => RestorationIsKept` |

`ReviewRefinement` proves `Spec => ImplementsReviewOutcome`. The invariant is `IInv`
with `RepliesAreTrue` (a recorded result that names merged or discarded names
the status of the service): what a request learned before its await is what allows its
later write. Steps that touch neither the journal's visible results nor the review
(`JournalUnseen`, `ReviewUnseen`) are stutters; each of the others is one abstract
action: `EndMerge` is `Merge`, `CallDiscard` `Discard`, `MarkDiscarded` `GiveUp`,
`Activate` `Publish`, `TrashRemoved` `Trash`, `RemoveNode` `Forget`, `MarkProcessed`
`Settle`, `Complete` `Report`. `RepliesTrue` is the added invariant by itself.

### ResourceCreation

The conjunction of the three state properties with the shape of `op`, `node` and
`folder` is inductive. The queue, the leases and the executions play no part: an
execution of any key at any time keeps it. The argument has three steps: errors
leave completed rows alone (`ErrorsKeepCompleted`), a step that publishes nothing
keeps the invariant (`QuietStep`), and the publishing transaction establishes it for
its key (`SucceedKeeps`), because the Unit exists by then and the foreign key holds.
Only `InFolderAssumption` is used.

| Theorem | States |
|---|---|
| `AtomicPublication`, `UnitBeforeNode`, `NoOrphanNode` | `Spec => []NodeMatchesJournal`, `[]NodeHasUnit`, `[]NodePlaced` |
| `CreationFinal` | `Spec => CompletedStays` |

`CompletedStays` of this module is not a property of a run: it follows from
`NodeMatchesJournal`, and is proved.

The queue has an invariant of its own, `Types /\ Waiting`: `due` and `later` are
sequences of keys without a repetition or a key in common, and hold exactly the pending
keys. Four lemmas say what the operators on sequences do to the keys in them
(`Concatenated`, `Appended`, `Headed`, `TakenOut`), one lemma per kind of write what
becomes of the queue (`QueuedOnce`, `RetriedLater`, `ClosedWaitsNoMore`,
`ComesDueKeeps`, `ClaimKeepsTypes`). `QueueTypes` is `Spec => []TypeOK`. It uses
`BoundsAssumption` only.

### BlobStorage

`IInv` joins the two state properties with what makes them inductive:

* `SessionInv`: an open session has no job in the outbox, an uploaded one has its
  object in the store, a put belongs to the state it set or to a session closed
  meanwhile, and a session is completed exactly when its Node was born;
* `ReplacementInv`: a replacement is pending exactly while its put is in memory;
* `ReferenceInv`: a Resource refers to its session's object or to that of a completed
  replacement of its own, so that no two Resources share an object and queueing the
  previous object of one takes none from another;
* `WorkerInv`: the file a run deleted stays away until its job is off the outbox, unless
  its key escaped. This is why a put whose file was open when its object was deleted
  leaks nothing: the deletion took the temporary file with it, so the rename fails;
* `OpensInv`: an object with an open under way, of a put or of one that gave up, is
  accounted for or escaped, so the file that appears later is too.

One lemma per group of actions (`FilesKeep` for what the disk does), one step per
action. Assumptions: `ObjectsAreDistinct` (keys are random UUIDs), `ReplacementsAreOfSessions` and
`CrashesAreBounded`.

| Theorem | States |
|---|---|
| `StorageInvariant`, `StorageTypes` | `Spec => []IInv`, `Spec => []TypeOK` |
| `ContentKept`, `EveryFileAccounted` | `Spec => []ReferencedIsStored`, `Spec => []NothingLeaks` |
| `UpdatesKept`, `RemovalFinal` | `Spec => NoLostUpdate`, `Spec => RemovedStaysRemoved` |

### NodeTree

`Subtree` is the least set that is closed under children, so the lemmas about it
(reflexive, closed, least, transitive) come first and stand for induction along the
tree. `IInv` is `TypeOK`, parents exist (`ParentsPresent`), no set of Nodes is without
a way out (`Founded`), and open batches have their roots (`RootsAreHeld`). An insert
adds a leaf; a move is safe because its target is not in the moved subtree; a removal
takes a closed set. `FiledAsTaken` needs more: `Rooted` says that the Nodes of a batch
hang together below its root, so that restoring or removing the subtree of the root
takes the whole batch, and `FiledInv` ties the history to it.

| Theorem | States |
|---|---|
| `TreeInvariant`, `TypeCorrect`, `ForestKept` | `Spec => []IInv`, `[]TypeOK`, `[]Forest` |
| `TrashKeepsPlaces` | `Spec => []FiledAsTaken` |
| `BatchesLeaveOneByOne`, `SightIsKept` | `Spec => OpenBatchesStay`, `Spec => VisibleStays` |

### ContentPermissions

`RulesKept` and `RaisingKeeps` state the module's two properties for any users and any
strategies that name roles (`StrategiesAreRoles`). The decision has two layers;
`LayersAgree` shows what the object's layer adds to the file's, `HigherRoleHelps` that
it is monotone in the file role.

### Access

`AccessInv` is the tree's `IInv` with `AbsentIsClean` (a Node that is gone is in no
batch), `AccessTypes` and `SourcesApart` (members belong to team Spaces, shares and links
to personal ones). In a forest the way up from a Node is a row: of two Nodes on it, one
lies below the other (`Ancestry` as a least closed set).
So the one grant and the one link that ORDER BY and LIMIT 1 pick are compared with
all others along that row, and the role they give is the highest that reaches the Node.
A reply of a handler can be resolved because what it wrote stays on that row.

| Theorem | States |
|---|---|
| `AccessInvariant` | the conjunction, for every handler of the tree and of the grants |
| `RolesAreHighest`, `RepliesAreResolved` | `[]RoleIsHighest`, `ReplyResolves` |

### Services (the server's parts under MCServices)

`ServicesBehave` is the bridge: a behaviour of `MCSpec` is a behaviour of each part's own
`Spec`, since a step of one part is a stutter of the others (`ClientsBehave` is the same
for the clients). Each part then has its invariant:

* content permissions: the theorems of ContentPermissions_proofs, by instance
  (`RulesStay`, `RaisingKeeps`);
* assets, `AssetsInv`: `StoreInv` for the objects and `ReviewInv` for the worktree.
  `StoreInv` is `Accounted` and `Exclusive` (every object that did not escape has one
  owner), `InTrunk`, `Writing` and `AtStart` (what holds while a handler, or the recovery,
  is in its middle) and `Astray` (a put that gave up left a job or an escaped key).
  `ReviewInv` is `Answers` (a request that resumes a merged worktree, or holds an answer
  that names every Unit, is of one that stays merged), `Settling` (nothing counts as
  settled in a draft) and `Ended` (only a worktree that is over is processed). With them
  `MergedImagesReachTrunk` is inductive over late answers and merges that broke off. From
  it `FilesOwned` and `MergePublishes`;
* sign-in, `CodeInv`: a spent code is consumed or gone (`Inert`), a code has a row, or is
  spent, only after its hash was awaited (`PastHashing`), so a late insert revives none,
  and who verifies has found a code (`Verifies`). From it `SpentStaysSpent`;
* issues, `IssueInv`: `NumbersApart`, and `HistoryReplays`, which reads the log once per
  title, per state and per related thing: the last event about it says what the row says.
  From it `TimelineTrue` and `NumbersTrue`;
* exchange, `ConvertInv`: a stored file is in one place, listed, being saved, being
  deleted or lost (`OnePlace`), who saves a file is under way (`SaversRun`), and `dispose`
  waits for whoever could still save one (`ClosingWaits`). From it `FilesAccounted`.

| Theorem | States |
|---|---|
| `AssetsInvariant`, `CodesInvariant`, `IssueInvariant` | the invariants above |
| `RulesStay`, `RaisingKeeps` | `[]RulesStayInTheFile`, `RaisingKeepsActions` |
| `FilesOwned`, `MergePublishes` | `[]EveryFileIsOwned`, `[]MergedImagesReachTrunk` |
| `SpentStaysSpent` | `SpentNeverSignsIn` |
| `TimelineTrue`, `NumbersTrue` | `[]TimelineReplays`, `NumbersAreShared` |
| `FilesAccounted` | `[]FilesAreKnown` |
| `ServicesPromise` | all of them together, for `MCSpec` |

### Clients (the clients' parts under MCServices)

* runtime, `RuntimeInv`: one operation is past the queue (`OneRuns`), the instance is the
  one the pool created and holds pending mutations only while an operation commits
  (`RuntimeFollows`), and only an operation that commits has landed, on the revision after
  its target (`LandsWhereMeant`). From it `LandsOnce` and `Reusable`;
* feed, `FeedInv`: what a page awaits is under way and saw no version that does not exist
  yet (`Waits`), and an answer that is stale before it arrives has word coming behind it:
  in the timer, on the socket, at the reconnection, or as a dirty bit (`StaleAnswers`).
  With them `NoChangeIsLost` is inductive;
* agent, `AgentInv`: the switch that saves has the runtime released and one write in the
  chain (`OneSwitchSaves`), what an update has read is still what the file says
  (`ReadIsCurrent`), the last origin to be written is the configured one unless its write
  failed (`LastOriginWins`), and the file names the active account. From it `OneAccount`;
  `OvertakenLose` adds what a login can still notice of what overtook it (`Noticeable`).

| Theorem | States |
|---|---|
| `RuntimeInvariant` | `RuntimeInv` |
| `LandsOnce`, `Reusable` | `[]LandsOnceOnItsRevision`, `[]PooledIsReusable` |
| `NoChangeLost` | `[]NoChangeIsLost` |
| `OneAccount`, `OvertakenLose` | `[]OneAccountEverywhere`, `[]OvertakenStaysOut` |
| `ClientsPromise` | all of them together, for `MCSpec` |

Assumptions of MCServices: `OwnersAreApart`, `NobodyReads`, `AgentNamesApart`,
`OthersAreApart` and `ThingsAreApart` keep apart the names that stand for nobody, another
client, a label or a status and the identifiers the code generates; `OriginIsKnown` and
`LocalAreUnits` say that a value is of its set; `NumbersAreNatural` that bounds are
numbers. TLC evaluates them in the run `services`.

### Only model-checked

* Liveness, which is out of the prover's reach: `MergeConverges`, `PendingSettles`,
  `QueuedIsDeleted`. Their fairness is a conjunction of WF and SF over actions whose
  ENABLED no backend can expand.
* The statements the violated runs refute.

Every invariant and every action property of a passing run is proved. `TypeOK` of
NodeTree and BlobStorage are proved and not repeated in the runs. A theorem says what the
model does for all constants, which are sets and numbers; it says nothing about what the
abstractions of section 2 leave out.

## 5. Not modelled

* **Identity beyond emailed codes**: passwords, provider sign-in, sessions, device and
  CLI authorization are single transactions around external providers.
* **Worktrees**: update of name and visibility, listings, `submitChangeset` and
  `openUnit`, which pass through to the service. **Spaces**: their creation and
  descriptions. **Issues**: comments and bodies. **Content permissions**: draft branches.
* **Routers, middleware, views, activity, gateway, comparison**: request parsing, reads
  and proxying without state of their own.
* **Web application, viewers, plugin user interface, CLI, scripts**: rendering, texts
  and sequential commands. They are most of the repository's lines, and have no
  protocol state beside what ContentRuntime, ChangeFeed and AgentConnection model; for
  that reason the mapped lines are a small share of all lines.
* **External**: the collaboration service, its runtime pool, the converter, the mail
  provider, the DSH runtime. They appear as what the code relies on.

What could come next: device and CLI authorization of the identity module; the overlap
of UniverAssets with the full saga of Worktree; abstract specifications for the upload
sessions and for the client's runtime, with their refinements.
