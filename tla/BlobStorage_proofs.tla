------------------------- MODULE BlobStorage_proofs -------------------------
(* What BlobStorage guarantees for any sessions, replacements, requests and *)
(* number of restarts.                                                      *)
EXTENDS BlobStorage, TLAPS

\* A session that is open keeps its object off the outbox, one that was uploaded has
\* it in the store, and a put is held by the state it set or was closed meanwhile.
SessionInv ==
  \A s \in Sessions :
    /\ sess[s] = "none" => put[s] = "no" /\ s \notin temp \cup stored \cup stray
    /\ sess[s] \in Open \cup {"none"} => s \notin jobs
    /\ put[s] # "no" => sess[s] \in {"verifying", "aborted", "expired"}
    /\ put[s] = "written" /\ sess[s] = "verifying" => s \in stored
    /\ sess[s] = "uploaded" => s \in stored
    /\ sess[s] = "completed" <=> node[s] # "none"

\* A replacement is pending exactly while its put is in memory, and its object is
\* neither used nor queued before it is decided.
ReplacementInv ==
  \A r \in Replacements :
    /\ rop[r] = "none" => r \notin temp \cup stored \cup stray
    /\ rop[r] \in {"none", "pending"} => r \notin jobs
    /\ rop[r] = "pending" <=> put[r] # "no"
    /\ put[r] = "written" => r \in stored

\* A Resource refers to an object reserved for it: its session's or that of one of its
\* completed replacements.  So no two Resources share one.
ReferenceInv ==
  \A s \in Sessions :
    IF HasBlob(s)
    THEN \/ current[s] = s
         \/ \E r \in Replacements : current[s] = r /\ Of[r] = s /\ rop[r] = "completed"
    ELSE current[s] = None

\* The worker holds no job that waits, and the file it deleted is gone until the job
\* is off the outbox, unless it escaped.
WorkerInv ==
  /\ working \cap backoff = {}
  /\ unlinked \notin (temp \cup stored) \ escaped
  /\ unlinked # None /\ OpenUnderWay(unlinked) => unlinked \in escaped

\* A file that an open under way will leave has somebody to answer for it too.
OpensInv == \A o \in Objects \ escaped : OpenUnderWay(o) => Accounted(o)

IInv ==
  /\ TypeOK
  /\ SessionInv /\ ReplacementInv /\ ReferenceInv /\ WorkerInv
  /\ OpensInv /\ ReferencedIsStored /\ NothingLeaks

\* At the start nothing is stored, queued or referred to.
LEMMA InitIsSound == Init => IInv
  BY ObjectsAreDistinct, CrashesAreBounded
  DEF Init, IInv, TypeOK, SessionInv, ReplacementInv, ReferenceInv, WorkerInv, OpensInv, OpenUnderWay,
      ReferencedIsStored, NothingLeaks, HasBlob, Open, Objects

\* Clients of upload sessions keep the invariant: what leaves the open states is
\* queued in the same transaction, and only an open session publishes.
LEMMA UploadKeeps ==
  ASSUME IInv, Upload
  PROVE  IInv'
<1> USE ObjectsAreDistinct, ReplacementsAreOfSessions
    DEF IInv, TypeOK, SessionInv, ReplacementInv, ReferenceInv, WorkerInv, OpensInv, OpenUnderWay,
        ReferencedIsStored, NothingLeaks, Accounted, HasBlob, Open, Objects, Enqueue,
        uploads, replacing, tree, puts, files, outbox, worker
<1>1. ASSUME NEW s \in Sessions, CreateUpload(s) PROVE IInv'
  BY <1>1 DEF CreateUpload
<1>2. ASSUME NEW s \in Sessions, BeginUpload(s) PROVE IInv'
  BY <1>2 DEF BeginUpload
<1>3. ASSUME NEW s \in Sessions, UploadFails(s) PROVE IInv'
  BY <1>3 DEF UploadFails, GiveUp
<1>4. ASSUME NEW s \in Sessions, MarkUploaded(s) PROVE IInv'
  BY <1>4 DEF MarkUploaded
<1>5. ASSUME NEW s \in Sessions, Abort(s) PROVE IInv'
  BY <1>5 DEF Abort
<1>6. ASSUME NEW s \in Sessions, Elapse(s) PROVE IInv'
  BY <1>6 DEF Elapse
<1>7. ASSUME NEW s \in Sessions, NEW c \in Completers, StartComplete(c, s) PROVE IInv'
  BY <1>7 DEF StartComplete
<1> QED BY <1>1, <1>2, <1>3, <1>4, <1>5, <1>6, <1>7 DEF Upload

\* The disk keeps the invariant: an open that ends leaves a file somebody answers for
\* or that escaped; a rename needs the temporary file, so it stores nothing else.
LEMMA FilesKeep ==
  ASSUME IInv, NEW o \in Objects, OpenFile(o) \/ StrayOpens(o) \/ Rename(o)
  PROVE  IInv'
<1> USE ObjectsAreDistinct, ReplacementsAreOfSessions
    DEF IInv, TypeOK, SessionInv, ReplacementInv, ReferenceInv, WorkerInv, OpensInv, OpenUnderWay,
        ReferencedIsStored, NothingLeaks, Accounted, HasBlob, Open, Objects, Enqueue,
        uploads, replacing, tree, puts, files, outbox, worker
<1>1. CASE OpenFile(o)
  BY <1>1 DEF OpenFile
<1>2. CASE StrayOpens(o)
  BY <1>2 DEF StrayOpens
<1>3. CASE Rename(o)
  BY <1>3 DEF Rename
<1> QED BY <1>1, <1>2, <1>3

\* A publication finds its object stored and off the outbox.
LEMMA FinishCompleteKeeps ==
  ASSUME IInv, NEW c \in Completers, FinishComplete(c)
  PROVE  IInv'
  BY ObjectsAreDistinct, ReplacementsAreOfSessions
    DEF IInv, TypeOK, SessionInv, ReplacementInv, ReferenceInv, WorkerInv, OpensInv, OpenUnderWay,
        ReferencedIsStored, NothingLeaks, Accounted, HasBlob, Open, Objects, Enqueue,
        uploads, replacing, tree, puts, files, outbox, worker,
        FinishComplete, Ready

\* A replacement queues exactly the object that lost its reference: its own when it
\* fails, the previous one when it succeeds.
LEMMA ReplacingKeeps ==
  ASSUME IInv, Replacing
  PROVE  IInv'
<1> USE ObjectsAreDistinct, ReplacementsAreOfSessions
    DEF IInv, TypeOK, SessionInv, ReplacementInv, ReferenceInv, WorkerInv, OpensInv, OpenUnderWay,
        ReferencedIsStored, NothingLeaks, Accounted, HasBlob, Open, Objects, Enqueue,
        uploads, replacing, tree, puts, files, outbox, worker
<1>1. ASSUME NEW r \in Replacements, NEW version \in Objects, Replace(r, version) PROVE IInv'
  BY <1>1 DEF Replace, Matches, Writable
<1>2. ASSUME NEW r \in Replacements, ReplacementFails(r) PROVE IInv'
  BY <1>2 DEF ReplacementFails, GiveUp
<1>3. ASSUME NEW r \in Replacements, FinishReplace(r) PROVE IInv'
  BY <1>3 DEF FinishReplace, Matches, Writable
<1> QED BY <1>1, <1>2, <1>3 DEF Replacing

\* The Trash keeps the invariant: a removal queues the object it stops referring to.
LEMMA TrashKeeps ==
  ASSUME IInv, TrashStep
  PROVE  IInv'
<1> USE ObjectsAreDistinct, ReplacementsAreOfSessions
    DEF IInv, TypeOK, SessionInv, ReplacementInv, ReferenceInv, WorkerInv, OpensInv, OpenUnderWay,
        ReferencedIsStored, NothingLeaks, Accounted, HasBlob, Open, Objects, Enqueue,
        uploads, replacing, tree, puts, files, outbox, worker
<1>1. ASSUME NEW s \in Sessions, TrashNode(s) PROVE IInv'
  BY <1>1 DEF TrashNode
<1>2. ASSUME NEW s \in Sessions, RestoreNode(s) PROVE IInv'
  BY <1>2 DEF RestoreNode
<1>3. ASSUME NEW s \in Sessions, RemoveNode(s) PROVE IInv'
  BY <1>3 DEF RemoveNode
<1> QED BY <1>1, <1>2, <1>3 DEF TrashStep

\* The worker deletes queued objects only, and forgets a job once its files are gone.
LEMMA MaintenanceKeeps ==
  ASSUME IInv, Maintenance
  PROVE  IInv'
<1> USE ObjectsAreDistinct, ReplacementsAreOfSessions
    DEF IInv, TypeOK, SessionInv, ReplacementInv, ReferenceInv, WorkerInv, OpensInv, OpenUnderWay,
        ReferencedIsStored, NothingLeaks, Accounted, HasBlob, Open, Objects, Enqueue,
        uploads, replacing, tree, puts, files, outbox, worker
<1>1. ASSUME Maintain PROVE IInv'
  BY <1>1 DEF Maintain, Claimable
<1>2. ASSUME NEW o \in Objects, Unlink(o) PROVE IInv'
  BY <1>2 DEF Unlink, Escapes
<1>3. ASSUME NEW o \in Objects, CompleteJob(o) PROVE IInv'
  BY <1>3 DEF CompleteJob
<1>4. ASSUME NEW o \in Objects, FailJob(o) PROVE IInv'
  BY <1>4 DEF FailJob
<1>5. ASSUME NEW o \in Objects, LeaseExpires(o) PROVE IInv'
  BY <1>5 DEF LeaseExpires
<1>6. ASSUME NEW o \in Objects, ComesDue(o) PROVE IInv'
  BY <1>6 DEF ComesDue
<1> QED BY <1>1, <1>2, <1>3, <1>4, <1>5, <1>6 DEF Maintenance

\* A restart keeps the invariant: what was being written is open again or queued.
LEMMA CrashKeeps ==
  ASSUME IInv, Crash
  PROVE  IInv'
  BY ObjectsAreDistinct, CrashesAreBounded, ReplacementsAreOfSessions
    DEF IInv, TypeOK, SessionInv, ReplacementInv, ReferenceInv, WorkerInv, OpensInv, OpenUnderWay,
        ReferencedIsStored, NothingLeaks, Accounted, HasBlob, Open, Objects, Enqueue,
        uploads, replacing, tree, puts, files, outbox, worker,
        Crash

LEMMA NextKeeps == IInv /\ [Next]_vars => IInv'
<1> SUFFICES ASSUME IInv, [Next]_vars PROVE IInv'
  OBVIOUS
<1>1. CASE UNCHANGED vars
  BY <1>1 DEF vars, IInv, TypeOK, SessionInv, ReplacementInv, ReferenceInv, WorkerInv, OpensInv, OpenUnderWay,
    ReferencedIsStored, NothingLeaks, Accounted, HasBlob,
    uploads, replacing, tree, puts, files, outbox, worker
<1> QED
  BY <1>1, UploadKeeps, FilesKeep, FinishCompleteKeeps, ReplacingKeeps, TrashKeeps,
     MaintenanceKeeps, CrashKeeps DEF Next

------------------------------------------------------------------------------

\* Every reachable state satisfies the inductive invariant, which ties the files of
\* the store, the opens under way and the rows of modules/blobs together.
THEOREM StorageInvariant == Spec => []IInv
<1>1. Init => IInv
  BY InitIsSound
<1>2. IInv /\ [Next]_vars => IInv'
  BY NextKeeps
<1> QED BY <1>1, <1>2, PTL DEF Spec

\* The variables of uploads, replacements, outbox and worker keep their types.
THEOREM StorageTypes == Spec => []TypeOK
<1>1. IInv => TypeOK
  BY DEF IInv
<1> QED BY <1>1, StorageInvariant, PTL

\* The object of every Blob Resource, live or in the Trash, is stored and not queued
\* for deletion (abort, expireDue, completeReplacement, removePermanently).
THEOREM ContentKept == Spec => []ReferencedIsStored
<1>1. IInv => ReferencedIsStored
  BY DEF IInv
<1> QED BY <1>1, StorageInvariant, PTL

\* Every file of the store has an owner or a job in the outbox, at every moment of
\* puts, deletions and restarts, unless its object was deleted while an open of its
\* temporary file was under way: that is the only way out of the books.
THEOREM EveryFileAccounted == Spec => []NothingLeaks
<1>1. IInv => NothingLeaks
  BY DEF IInv
<1> QED BY <1>1, StorageInvariant, PTL

\* A step that gives a Resource the object of a replacement is the end of that
\* replacement, and finds the version it expects: completeReplacement compares the
\* ETag in the transaction that replaces it.
LEMMA StepIsNoLostUpdate ==
  ASSUME IInv, [Next]_vars, NEW s \in Sessions, NEW r \in Replacements,
         current'[s] = r, current[s] # r
  PROVE  expected[r] = current[s]
<1> USE ObjectsAreDistinct, ReplacementsAreOfSessions DEF IInv, TypeOK, Objects, tree
<1>1. ASSUME NEW q \in Replacements, FinishReplace(q) PROVE expected[r] = current[s]
  BY <1>1 DEF FinishReplace, Matches, Writable
<1>2. ASSUME NEW c \in Completers, FinishComplete(c) PROVE FALSE
  BY <1>2 DEF FinishComplete
<1>3. ASSUME NEW t \in Sessions, RemoveNode(t) PROVE FALSE
  BY <1>3 DEF RemoveNode
<1>4. CASE UNCHANGED current
  BY <1>4
<1>5. ASSUME Upload PROVE UNCHANGED current
  BY <1>5 DEF Upload, CreateUpload, BeginUpload, UploadFails, MarkUploaded, Abort, Elapse,
     StartComplete
<1>6. ASSUME NEW o \in Objects, OpenFile(o) \/ StrayOpens(o) \/ Rename(o) PROVE UNCHANGED current
  BY <1>6 DEF OpenFile, StrayOpens, Rename
<1>7. ASSUME NEW q \in Replacements, NEW version \in Objects,
             Replace(q, version) \/ ReplacementFails(q)
      PROVE  UNCHANGED current
  BY <1>7 DEF Replace, ReplacementFails
<1>8. ASSUME NEW t \in Sessions, TrashNode(t) \/ RestoreNode(t) PROVE UNCHANGED current
  BY <1>8 DEF TrashNode, RestoreNode
<1>9. ASSUME Maintenance \/ Crash \/ UNCHANGED vars PROVE UNCHANGED current
  BY <1>9 DEF Maintenance, Maintain, Unlink, CompleteJob, FailJob, LeaseExpires, ComesDue, Crash,
     vars
<1> QED
  BY <1>1, <1>2, <1>3, <1>4, <1>5, <1>6, <1>7, <1>8, <1>9 DEF Next, Replacing, TrashStep

\* No replacement of a Blob overwrites a version its writer did not see.
THEOREM UpdatesKept == Spec => NoLostUpdate
<1>1. IInv /\ [Next]_vars =>
        [\A s \in Sessions, r \in Replacements :
           current'[s] = r /\ current[s] # r => expected[r] = current[s]]_vars
  BY StepIsNoLostUpdate
<1> QED BY <1>1, StorageInvariant, PTL DEF Spec, NoLostUpdate

\* A publication finds the Node unborn: a session whose Node was removed is completed
\* and not uploaded, whatever complete read before it looked at the object.
LEMMA StepKeepsGone ==
  ASSUME IInv, [Next]_vars, NEW s \in Sessions, node[s] = "gone"
  PROVE  node'[s] = "gone"
<1> USE DEF IInv, TypeOK, tree
<1>1. ASSUME NEW c \in Completers, FinishComplete(c) PROVE node'[s] = "gone"
  BY <1>1 DEF FinishComplete, Ready, SessionInv
<1>2. ASSUME NEW t \in Sessions, TrashNode(t) \/ RestoreNode(t) \/ RemoveNode(t)
      PROVE  node'[s] = "gone"
  BY <1>2 DEF TrashNode, RestoreNode, RemoveNode
<1>3. ASSUME Upload PROVE UNCHANGED node
  BY <1>3 DEF Upload, CreateUpload, BeginUpload, UploadFails, MarkUploaded, Abort, Elapse,
     StartComplete
<1>4. ASSUME NEW o \in Objects, OpenFile(o) \/ StrayOpens(o) \/ Rename(o) PROVE UNCHANGED node
  BY <1>4 DEF OpenFile, StrayOpens, Rename
<1>5. ASSUME Replacing PROVE UNCHANGED node
  BY <1>5 DEF Replacing, Replace, ReplacementFails, FinishReplace
<1>6. ASSUME Maintenance \/ Crash \/ UNCHANGED vars PROVE UNCHANGED node
  BY <1>6 DEF Maintenance, Maintain, Unlink, CompleteJob, FailJob, LeaseExpires, ComesDue, Crash,
     vars
<1> QED
  BY <1>1, <1>2, <1>3, <1>4, <1>5, <1>6 DEF Next, TrashStep

\* A Blob Resource that was removed for good is never published again.
THEOREM RemovalFinal == Spec => RemovedStaysRemoved
<1>1. IInv /\ [Next]_vars =>
        [\A s \in Sessions : node[s] = "gone" => node'[s] = "gone"]_vars
  BY StepKeepsGone
<1> QED BY <1>1, StorageInvariant, PTL DEF Spec, RemovedStaysRemoved

=============================================================================
