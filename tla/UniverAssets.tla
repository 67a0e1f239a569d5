---------------------------- MODULE UniverAssets ----------------------------
(***************************************************************************)
(* The images and files embedded in Units: univer-assets.service.ts, its   *)
(* repository, and the handlers elsewhere that move or delete their rows   *)
(* (merge and discard of a worktree, permanent removal).  SQLite and the   *)
(* BlobStore share no transaction, nor do SQLite and the service that      *)
(* merges: an upload waits for the caller's bytes, and a merge for its     *)
(* answer, while worktrees are reopened, merged by others or discarded,    *)
(* Units go and the process stops.                                         *)
(***************************************************************************)
EXTENDS Naturals, FiniteSets

CONSTANTS
  Uploads,    \* uploads; also the ids of their assets and the object keys
  Units,      \* the Units of one worktree
  Local,      \* those that the worktree created, the others are of the trunk
  Merges,     \* keys of merge Operations; one request of each runs at a time
  MaxCrashes

VARIABLES
  up,        \* the process runs
  crashes,
  request,   \* [unit, scope] of every upload that was asked for
  stage,     \* where its handler is; "off" before it and after its process died
  upload,    \* univer_asset_uploads.state, "none" without a row
  asset,     \* univer_assets: "none", "trunk" (worktree_id NULL) or "worktree"
  files,     \* object keys with bytes in the BlobStore
  queued,    \* object_deletion_jobs.object_key
  stray,     \* object keys whose file a put that gave up is still to open
  escaped,   \* history: deleted while such an open was under way
  trunk,     \* univer_resources.unit_id
  intent,    \* worktree_node_intents: "open", "activated" or "discarded"
  processed, \* worktrees.processed_at is set
  wt, done,  \* service: the worktree, and the Units it reports merged or
             \* unchanged since the draft was closed
  mergeOp,   \* operations.state of each merge; "open" is pending or failed
  merging,   \* its request in memory: where it is, what the service answered
  discarding,\* a discard waits for the service's answer
  settled,   \* history: Units of the merges completed since the draft was closed
  late       \* history: published when the worktree took no more edits

memory  == <<up, crashes>>
rows    == <<upload, asset, queued>>
disk    == <<files, stray, escaped>>
spaces  == <<trunk, intent, processed>>
service == <<wt, done>>
reviews == <<mergeOp, merging, discarding, settled>>
vars    == <<memory, request, stage, rows, disk, spaces, service, reviews, late>>

worktrees == <<spaces, service, reviews>>

Requests == [unit : Units, scope : {"trunk", "worktree"}]

NoMerge == [at |-> "off", fetch |-> FALSE, saw |-> {}]
MergeRequests ==
  [at : {"off", "asked", "started", "answered"}, fetch : BOOLEAN, saw : SUBSET Units]

TypeOK ==
  /\ up \in BOOLEAN /\ crashes \in 0..MaxCrashes
  /\ request \in [Uploads -> Requests]
  /\ stage \in [Uploads -> {"off", "asked", "putting"}]
  /\ upload \in [Uploads -> {"none", "receiving", "stored"}]
  /\ asset \in [Uploads -> {"none", "trunk", "worktree"}]
  /\ files \subseteq Uploads /\ queued \subseteq Uploads /\ late \subseteq Uploads
  /\ stray \subseteq Uploads /\ escaped \subseteq Uploads
  /\ trunk \subseteq Units /\ done \subseteq Units /\ settled \subseteq Units
  /\ intent \in [Local -> {"open", "activated", "discarded"}]
  /\ processed \in BOOLEAN /\ discarding \in BOOLEAN
  /\ mergeOp \in [Merges -> {"none", "open", "completed"}]
  /\ merging \in [Merges -> MergeRequests]
  /\ wt \in {"none", "draft", "ready", "merging", "merged", "discarded"}

Init ==
  /\ up = TRUE /\ crashes = 0
  /\ request \in [Uploads -> Requests]
  /\ stage = [u \in Uploads |-> "off"] /\ upload = [u \in Uploads |-> "none"]
  /\ asset = [u \in Uploads |-> "none"]
  /\ files = {} /\ queued = {} /\ late = {} /\ stray = {} /\ escaped = {}
  /\ trunk = Units \ Local /\ wt = "none" /\ done = {} /\ settled = {}
  /\ intent = [t \in Local |-> "open"] /\ processed = FALSE /\ discarding = FALSE
  /\ mergeOp = [m \in Merges |-> "none"] /\ merging = [m \in Merges |-> NoMerge]

-----------------------------------------------------------------------------
(* Uploads.                                                                *)

(* A fresh request: ids are random, one is never asked for twice.          *)
Fresh(u) == stage[u] = "off" /\ upload[u] = "none" /\ asset[u] = "none"
              /\ u \notin files \cup queued \cup late \cup stray \cup escaped

(* authorizeUnit: in a worktree editDraft, on the trunk a Unit that is     *)
(* there.  Who may edit is Access's subject.                               *)
Writable(u) == IF request[u].scope = "worktree" THEN wt = "draft" ELSE request[u].unit \in trunk

Authorize(u) ==
  /\ up /\ Fresh(u) /\ Writable(u)
  /\ stage' = [stage EXCEPT ![u] = "asked"]
  /\ UNCHANGED <<memory, request, rows, disk, worktrees, late>>

(* reserveUpload runs after the await.  The trigger on a trunk upload wants*)
(* the Unit; a worktree's FOREIGN KEY only its worktree_units row.         *)
Reserve(u) ==
  /\ up /\ stage[u] = "asked"
  /\ IF request[u].scope = "trunk" /\ request[u].unit \notin trunk
       THEN stage' = [stage EXCEPT ![u] = "off"] /\ UNCHANGED <<rows, late>>
       ELSE /\ stage' = [stage EXCEPT ![u] = "putting"]
            /\ upload' = [upload EXCEPT ![u] = "receiving"]
            /\ UNCHANGED <<asset, queued, late>>
  /\ UNCHANGED <<memory, request, disk, worktrees>>

(* store.put opens its file, then waits for the caller's chunks.           *)
WriteBytes(u) ==
  /\ up /\ stage[u] = "putting" /\ u \notin files
  /\ files' = files \cup {u}
  /\ UNCHANGED <<memory, request, stage, rows, stray, escaped, worktrees, late>>

ForgetUpload(u) == UNCHANGED queued
AbandonUpload(u) == queued' = queued \cup {u}

(* put removes its temporary file, which does not stop an open under way;  *)
(* its caller abandons the upload.                                         *)
PutFails(u) ==
  /\ up /\ stage[u] = "putting"
  /\ stage' = [stage EXCEPT ![u] = "off"]
  /\ upload' = [upload EXCEPT ![u] = "none"]
  /\ AbandonUpload(u)
  /\ files' = files \ {u}
  /\ stray' = IF u \in files THEN stray ELSE stray \cup {u}
  /\ UNCHANGED <<memory, request, asset, escaped, worktrees, late>>

StrayOpens(u) ==
  /\ u \in stray
  /\ stray' = stray \ {u}
  /\ files' = files \cup {u}
  /\ UNCHANGED <<memory, request, stage, rows, escaped, worktrees, late>>

(* The triggers of univer_assets.                                          *)
Publishable(u) == request[u].scope = "trunk" => request[u].unit \in trunk

PublishStored(u) ==
  /\ asset' = [asset EXCEPT ![u] = request[u].scope]
  /\ upload' = [upload EXCEPT ![u] = "none"]
  /\ late' = IF wt = "draft" THEN late ELSE late \cup {u}

(* markStored and publishStored follow the last byte without an await; an  *)
(* error of the second abandons what the first stored.                     *)
PutEnds(u) ==
  /\ up /\ stage[u] = "putting" /\ u \in files
  /\ stage' = [stage EXCEPT ![u] = "off"]
  /\ IF Publishable(u)
       THEN PublishStored(u) /\ UNCHANGED queued
       ELSE /\ upload' = [upload EXCEPT ![u] = "none"]
            /\ AbandonUpload(u)
            /\ UNCHANGED <<asset, late>>
  /\ UNCHANGED <<memory, request, disk, worktrees>>

-----------------------------------------------------------------------------
(* The process.                                                            *)

CanCrash == up /\ crashes < MaxCrashes
Stop ==
  /\ up' = FALSE /\ crashes' = crashes + 1
  /\ stage' = [u \in Uploads |-> "off"] /\ stray' = {}
  /\ merging' = [m \in Merges |-> NoMerge] /\ discarding' = FALSE
  /\ UNCHANGED <<request, asset, files, escaped, queued, spaces, service, mergeOp, settled, late>>

Crash == CanCrash /\ Stop /\ UNCHANGED upload

(* Between markStored, which commits by itself, and publishStored.         *)
CrashWhileStored(u) ==
  /\ CanCrash /\ stage[u] = "putting" /\ u \in files
  /\ upload' = [upload EXCEPT ![u] = "stored"]
  /\ Stop

(* recoverInterruptedUploads, before the application listens: a row that  *)
(* was stored is published, one that was not is abandoned.  One that cannot*)
(* be published throws, and then the application does not start.           *)
RecoverStored(u) ==
  /\ ~up /\ upload[u] = "stored" /\ Publishable(u)
  /\ PublishStored(u)
  /\ UNCHANGED <<memory, request, stage, queued, disk, worktrees>>

RecoverReceiving(u) ==
  /\ ~up /\ upload[u] = "receiving"
  /\ upload' = [upload EXCEPT ![u] = "none"]
  /\ AbandonUpload(u)
  /\ UNCHANGED <<memory, request, stage, asset, disk, worktrees, late>>

Start ==
  /\ ~up /\ \A u \in Uploads : upload[u] = "none"
  /\ up' = TRUE
  /\ UNCHANGED <<crashes, request, stage, rows, disk, worktrees, late>>

(* The worker of object_deletion_jobs, see BlobStorage.                    *)
DeleteObject(k) ==
  /\ up /\ k \in queued
  /\ files' = files \ {k} /\ queued' = queued \ {k}
  /\ escaped' = IF k \in stray THEN escaped \cup {k} ELSE escaped
  /\ UNCHANGED <<memory, request, stage, upload, asset, stray, worktrees, late>>

-----------------------------------------------------------------------------
(* Worktrees.  The service commits a call on its worker threads; what the  *)
(* product writes after the answer is one run of the event loop.           *)

CreateWorktree ==
  /\ up /\ wt = "none" /\ Units \ Local \subseteq trunk
  /\ wt' = "draft"
  /\ UNCHANGED <<memory, request, stage, rows, disk, spaces, done, reviews, late>>

(* markReady closes the draft, reopen opens it again, also after a merge   *)
(* that took some Units only.                                              *)
MarkReady ==
  /\ up /\ wt = "draft"
  /\ wt' = "ready"
  /\ UNCHANGED <<memory, request, stage, rows, disk, spaces, done, reviews, late>>

Reopen ==
  /\ up /\ wt = "ready"
  /\ wt' = "draft" /\ done' = {} /\ settled' = {}
  /\ UNCHANGED <<memory, request, stage, rows, disk, spaces, mergeOp, merging, discarding, late>>

MergeTo(m, at) == merging' = [merging EXCEPT ![m].at = at]

Settle(m, units) ==
  /\ mergeOp' = [mergeOp EXCEPT ![m] = "completed"]
  /\ settled' = IF wt = "draft" THEN settled ELSE settled \cup units
  /\ merging' = [merging EXCEPT ![m] = NoMerge]

(* merge, up to its call: a key that was reserved may go on where an       *)
(* earlier request of it stopped, and has only to be completed when the    *)
(* worktree is processed.                                                  *)
AskMerge(m) ==
  /\ up /\ merging[m] = NoMerge /\ mergeOp[m] # "completed"
  /\ wt = "ready" \/ (wt \in {"merging", "merged"} /\ mergeOp[m] = "open")
  /\ IF wt = "merged" /\ processed
       THEN Settle(m, Units)
       ELSE /\ mergeOp' = [mergeOp EXCEPT ![m] = "open"]
            /\ merging' = [merging EXCEPT ![m] =
                 [at |-> "asked", fetch |-> wt = "merged", saw |-> {}]]
            /\ UNCHANGED settled
  /\ UNCHANGED <<memory, request, stage, rows, disk, spaces, service, discarding, late>>

StartMerge(m) ==
  /\ merging[m].at = "asked" /\ ~merging[m].fetch
  /\ wt \in {"ready", "merging"}
  /\ wt' = "merging"
  /\ MergeTo(m, "started")
  /\ UNCHANGED <<memory, request, stage, rows, disk, spaces, done, mergeOp, discarding, settled, late>>

(* The service commits, and answers with the Units merged or unchanged, now*)
(* or by an earlier merge of the same draft.                               *)
EndMerge(m, S) ==
  /\ merging[m].at = "started" /\ wt = "merging"
  /\ done \subseteq S
  /\ done' = S
  /\ wt' = IF S = Units THEN "merged" ELSE "ready"
  /\ merging' = [merging EXCEPT ![m].at = "answered", ![m].saw = S]
  /\ UNCHANGED <<memory, request, stage, rows, disk, spaces, mergeOp, discarding, settled, late>>

FetchMerged(m) ==
  /\ merging[m].at = "asked" /\ merging[m].fetch
  /\ merging' = [merging EXCEPT ![m].at = "answered", ![m].saw = done]
  /\ UNCHANGED <<memory, request, stage, rows, disk, spaces, service, mergeOp, discarding, settled, late>>

(* The call is refused or breaks off: the Operation fails and can be asked *)
(* for again.                                                              *)
MergeCallFails(m) ==
  /\ merging[m].at \in {"asked", "started"}
  /\ merging' = [merging EXCEPT ![m] = NoMerge]
  /\ UNCHANGED <<memory, request, stage, rows, disk, spaces, service, mergeOp, discarding, settled, late>>

PublishWorktreeAssets(S) ==
  asset' = [u \in Uploads |->
    IF asset[u] = "worktree" /\ request[u].unit \in S THEN "trunk" ELSE asset[u]]

(* activateSuccessfulUnits, one transaction a Unit; the CHECK of an intent *)
(* aborts that of a discarded one.                                         *)
ToActivate(S) == {t \in S \cap Local : intent[t] = "open"}
Activate(A) ==
  /\ trunk' = trunk \cup A
  /\ intent' = [t \in Local |-> IF t \in A THEN "activated" ELSE intent[t]]

(* The writes after the activation: publishWorktreeAssets, which a trigger *)
(* aborts as a whole when a Unit is missing, and after a merge of all Units*)
(* processed_at.                                                           *)
CanPublish(S) ==
  /\ \A t \in S \cap Local : intent[t] # "discarded"
  /\ \A u \in Uploads :
       asset[u] = "worktree" /\ request[u].unit \in S => request[u].unit \in trunk \cup ToActivate(S)

Processes(S) == processed \/ S = Units

MergeEnds(m) ==
  LET S == merging[m].saw IN
  /\ merging[m].at = "answered" /\ CanPublish(S)
  /\ Activate(ToActivate(S))
  /\ PublishWorktreeAssets(S)
  /\ processed' = Processes(S)
  /\ Settle(m, S)
  /\ UNCHANGED <<memory, request, stage, upload, queued, disk, service, discarding, late>>

(* The answer is lost, a transaction aborts or the process stops (then     *)
(* Crash follows): before the publication, some Units being activated, or  *)
(* after it, with or without processed_at.  The Operation stays open.      *)
MergeStopsProcessed(m, A) ==
  LET S == merging[m].saw IN
  /\ merging[m].at = "answered" /\ A \subseteq ToActivate(S)
  /\ Activate(A)
  /\ processed' = IF A = ToActivate(S) THEN Processes(S) ELSE processed
  /\ merging' = [merging EXCEPT ![m] = NoMerge]
  /\ UNCHANGED <<memory, request, stage, rows, disk, service, mergeOp, discarding, settled, late>>
MergeStopsEarly(m, A) ==
  /\ merging[m].at = "answered" /\ A \subseteq ToActivate(merging[m].saw)
  /\ Activate(A)
  /\ merging' = [merging EXCEPT ![m] = NoMerge]
  /\ UNCHANGED <<memory, request, stage, rows, disk, processed, service, mergeOp, discarding, settled, late>>

MergeStopsLate(m) ==
  LET S == merging[m].saw IN
  /\ merging[m].at = "answered" /\ CanPublish(S)
  /\ Activate(ToActivate(S))
  /\ PublishWorktreeAssets(S)
  /\ processed' \in {processed, Processes(S)}
  /\ merging' = [merging EXCEPT ![m] = NoMerge]
  /\ UNCHANGED <<memory, request, stage, upload, queued, disk, service, mergeOp, discarding, settled, late>>

(* discard: the service's commit, then markLocalUnitsDiscarded and         *)
(* markProcessed.  One that stopped in between is not taken up again.      *)
Discard ==
  /\ up /\ wt \in {"draft", "ready"}
  /\ wt' = "discarded" /\ discarding' = TRUE
  /\ UNCHANGED <<memory, request, stage, rows, disk, spaces, done, mergeOp, merging, settled, late>>

FinishDiscard ==
  /\ discarding
  /\ discarding' = FALSE
  /\ intent' = [t \in Local |-> IF intent[t] = "open" THEN "discarded" ELSE intent[t]]
  /\ processed' \in {processed, TRUE}
  /\ UNCHANGED <<memory, request, stage, rows, disk, trunk, service, mergeOp, merging, settled, late>>

(* removePermanently, unless an unprocessed worktree refers to the Unit.   *)
TrunkAssets(t) == {u \in Uploads : request[u].unit = t /\ asset[u] = "trunk"}

RemoveUnit(t) ==
  /\ up /\ t \in trunk /\ (wt = "none" \/ processed)
  /\ trunk' = trunk \ {t}
  /\ queued' = queued \cup TrunkAssets(t)
  /\ asset' = [u \in Uploads |-> IF u \in TrunkAssets(t) THEN "none" ELSE asset[u]]
  /\ UNCHANGED <<memory, request, stage, upload, disk, intent, processed, service, reviews, late>>

Next ==
  \/ \E u \in Uploads :
       \/ Authorize(u) \/ Reserve(u) \/ WriteBytes(u) \/ PutFails(u) \/ PutEnds(u)
       \/ CrashWhileStored(u) \/ RecoverStored(u) \/ RecoverReceiving(u)
       \/ DeleteObject(u) \/ StrayOpens(u)
  \/ Crash \/ Start
  \/ CreateWorktree \/ MarkReady \/ Reopen \/ Discard \/ FinishDiscard
  \/ \E m \in Merges :
       \/ AskMerge(m) \/ StartMerge(m) \/ FetchMerged(m) \/ MergeCallFails(m)
       \/ MergeEnds(m) \/ MergeStopsLate(m)
       \/ \E S \in SUBSET Units : EndMerge(m, S) \/ MergeStopsEarly(m, S)
  \/ \E t \in Units : RemoveUnit(t)

Spec == Init /\ [][Next]_vars
(* The process is started again until it runs.                             *)
FairSpec ==
  /\ Spec /\ WF_vars(Start)
  /\ \A u \in Uploads : WF_vars(RecoverStored(u)) /\ WF_vars(RecoverReceiving(u))

-----------------------------------------------------------------------------
(* Every object with bytes has exactly one owner, whatever crashed or left *)
(* when: an asset, an upload the next start settles, or a deletion job.  An*)
(* asset's object is there, and a trunk asset's Unit too (data-model.md:   *)
(* 236-252).  Outside is only a file opened after the deletion of its key. *)
Owners(u) == {o \in {"asset", "upload", "job"} :
                \/ o = "asset" /\ asset[u] # "none"
                \/ o = "upload" /\ upload[u] # "none"
                \/ o = "job" /\ u \in queued}
EveryFileIsOwned ==
  \A u \in Uploads :
    /\ u \in files \ escaped => Owners(u) # {}
    /\ asset[u] # "none" => Owners(u) = {"asset"} /\ u \in files
    /\ asset[u] = "trunk" => request[u].unit \in trunk

(* data-model.md:456 - an image that was in the draft when it was closed is*)
(* a trunk image when a merge that took its Unit has completed, and all are*)
(* when the merged worktree is processed, however often merges were partial*)
(* or broke off between the service's commit and the product's rows, crossed*)
(* a reopen, a discard or each other, and were asked for again.  An upload *)
(* that ends when the draft is closed is in no document; it stays the      *)
(* worktree's.                                                             *)
MergedImagesReachTrunk ==
  \A u \in Uploads \ late :
    asset[u] = "worktree" => request[u].unit \notin settled /\ ~(wt = "merged" /\ processed)

(* data-model.md:247 - a start publishes every upload that was stored.     *)
StartsAgain == []<>up
=============================================================================
