----------------------------- MODULE BlobStorage -----------------------------
(***************************************************************************)
(* Blob Resources: upload sessions that publish a Node when their bytes are *)
(* stored, replacements of the content of a published Blob, and the outbox  *)
(* of object deletions that the maintenance worker empties                  *)
(* (modules/blobs/, jobs/blob-maintenance.ts, integrations/blob/).          *)
(*                                                                          *)
(* SQLite and the object store share no transaction.  A put asks for its    *)
(* temporary file, which a thread opens later, streams into it, renames it  *)
(* over the object's name and returns to its handler; between these         *)
(* moments, and while complete looks at the object, other requests and the  *)
(* worker run, and the process may stop.                                    *)
(***************************************************************************)
EXTENDS Naturals, FiniteSets

CONSTANTS
  Sessions,      \* upload sessions, each with the Node and the object reserved for it
  Replacements,  \* replace Operations, each with the object reserved for it
  Of,            \* the session whose Resource a replacement is for
  Completers,    \* requests that complete a session
  None,
  MaxStrays,     \* bound on the opens under way of puts that gave up
  MaxCrashes     \* bound on restarts

ASSUME ObjectsAreDistinct ==
  /\ Sessions \cap Replacements = {}
  /\ None \notin Sessions \cup Replacements
ASSUME ReplacementsAreOfSessions == Of \in [Replacements -> Sessions]
ASSUME CrashesAreBounded == MaxCrashes \in Nat

\* An object is named by the session or the replacement that reserved its key.
Objects == Sessions \cup Replacements

VARIABLES
  sess,        \* blob_upload_sessions.state
  overdue,     \* open sessions whose expires_at has passed
  rop,         \* operations.state of each replacement
  expected,    \* the version its If-Match names, while its request runs
  node,        \* the Node of each session's Resource
  current,     \* blob_resources.object_key; each version has an ETag of its own
  put,         \* puts in memory: the file is "opening", "writing", "written"; or "no"
  stray,       \* objects with an open under way of a put that gave up
  completing,  \* the session whose object each completer looks at
  temp,        \* objects with a temporary file
  stored,      \* objects under their own name
  jobs,        \* object_deletion_jobs
  leased,      \* jobs with a lease
  backoff,     \* jobs whose next_attempt_at lies ahead
  working,     \* jobs the worker claimed and has not finished
  unlinked,    \* the one it deleted and whose row it has not removed
  escaped,     \* history: objects deleted while an open of their file was under way
  crashes

uploads == <<sess, overdue>>
replacing == <<rop, expected>>
tree == <<node, current>>
puts == <<put, stray>>
files == <<temp, stored>>
outbox == <<jobs, leased, backoff>>
worker == <<working, unlinked>>
vars == <<uploads, replacing, tree, puts, completing, files, outbox, worker, escaped, crashes>>

Open == {"waiting", "verifying", "uploaded"}

Enqueue(objects) ==
  /\ jobs' = jobs \cup objects
  /\ UNCHANGED <<leased, backoff>>

------------------------------------------------------------------------------
(* Upload sessions. *)

CreateUpload(s) ==
  /\ sess[s] = "none"
  /\ sess' = [sess EXCEPT ![s] = "waiting"]
  /\ UNCHANGED <<overdue, replacing, tree, puts, completing, files, outbox, worker, escaped, crashes>>

\* PUT content: the compare-and-set waiting -> verifying lets one put in.  Its
\* createWriteStream asks a thread to open the temporary file.
BeginUpload(s) ==
  /\ sess[s] = "waiting"
  /\ sess' = [sess EXCEPT ![s] = "verifying"]
  /\ put' = [put EXCEPT ![s] = "opening"]
  /\ UNCHANGED <<overdue, replacing, tree, stray, completing, files, outbox, worker, escaped, crashes>>

\* The file is there, whatever became of its session in the meantime.
OpenFile(o) ==
  /\ put[o] = "opening"
  /\ put' = [put EXCEPT ![o] = "writing"]
  /\ temp' = temp \cup {o}
  /\ UNCHANGED <<uploads, replacing, tree, stray, completing, stored, outbox, worker, escaped, crashes>>

\* A put that gives up does not stop an open under way: it happens after the put has
\* removed the file.
StrayOpens(o) ==
  /\ o \in stray
  /\ stray' = stray \ {o}
  /\ temp' = temp \cup {o}
  /\ UNCHANGED <<uploads, replacing, tree, put, completing, stored, outbox, worker, escaped, crashes>>

\* The body ended: renameSync, which needs the temporary file to be there still.
Rename(o) ==
  /\ put[o] = "writing"
  /\ o \in temp
  /\ put' = [put EXCEPT ![o] = "written"]
  /\ temp' = temp \ {o}
  /\ stored' = stored \cup {o}
  /\ UNCHANGED <<uploads, replacing, tree, stray, completing, outbox, worker, escaped, crashes>>

\* The put throws: it destroys its stream and removes its temporary file.
GiveUp(o) ==
  /\ put[o] \in {"opening", "writing"}
  /\ put[o] = "opening" => o \notin stray /\ Cardinality(stray) < MaxStrays
  /\ put' = [put EXCEPT ![o] = "no"]
  /\ stray' = IF put[o] = "opening" THEN stray \cup {o} ELSE stray
  /\ temp' = temp \ {o}

\* The body broke off, or the rename found nothing: the session takes content again.
UploadFails(s) ==
  /\ GiveUp(s)
  /\ sess' = [sess EXCEPT ![s] = IF @ = "verifying" THEN "waiting" ELSE @]
  /\ UNCHANGED <<overdue, replacing, tree, completing, stored, outbox, worker, escaped, crashes>>

\* Back in the handler: markUploaded, a conflict when the session was closed meanwhile.
MarkUploaded(s) ==
  /\ put[s] = "written"
  /\ put' = [put EXCEPT ![s] = "no"]
  /\ sess' = [sess EXCEPT ![s] = IF @ = "verifying" THEN "uploaded" ELSE @]
  /\ UNCHANGED <<overdue, replacing, tree, stray, completing, files, outbox, worker, escaped, crashes>>

\* complete, up to its look at the object.
StartComplete(c, s) ==
  /\ completing[c] = None
  /\ sess[s] = "uploaded"
  /\ completing' = [completing EXCEPT ![c] = s]
  /\ UNCHANGED <<uploads, replacing, tree, puts, files, outbox, worker, escaped, crashes>>

\* Variant that trusts the state read before the look at the object.
StillReady(s) == s \in stored /\ sess[s] # "expired"

Ready(s) == s \in stored /\ sess[s] = "uploaded"

\* The rest of complete: one transaction publishes Node, Resource and Blob.  A session
\* that is not uploaded any more publishes nothing: it is completed, or an error.
FinishComplete(c) ==
  LET s == completing[c]
  IN /\ s # None
     /\ completing' = [completing EXCEPT ![c] = None]
     /\ IF Ready(s)
        THEN /\ sess' = [sess EXCEPT ![s] = "completed"]
             /\ overdue' = overdue \ {s}
             /\ node' = [node EXCEPT ![s] = "live"]
             /\ current' = [current EXCEPT ![s] = s]
        ELSE UNCHANGED <<uploads, tree>>
     /\ UNCHANGED <<replacing, puts, files, outbox, worker, escaped, crashes>>

Abort(s) ==
  /\ sess[s] \in Open
  /\ sess' = [sess EXCEPT ![s] = "aborted"]
  /\ overdue' = overdue \ {s}
  /\ Enqueue({s})
  /\ UNCHANGED <<replacing, tree, puts, completing, files, worker, escaped, crashes>>

\* A day has passed since the session was created.
Elapse(s) ==
  /\ sess[s] \in Open
  /\ s \notin overdue
  /\ overdue' = overdue \cup {s}
  /\ UNCHANGED <<sess, replacing, tree, puts, completing, files, outbox, worker, escaped, crashes>>

------------------------------------------------------------------------------
(* Replacement of the content. *)

\* The user may write, and the Blob is the version the If-Match names.
Writable(r) == node[Of[r]] = "live"
Matches(r, version) == Writable(r) /\ current[Of[r]] = version

\* PUT with If-Match, up to the body: the Operation is reserved before the check.
Replace(r, version) ==
  /\ rop[r] = "none"
  /\ Writable(r)
  /\ IF Matches(r, version)
     THEN /\ rop' = [rop EXCEPT ![r] = "pending"]
          /\ expected' = [expected EXCEPT ![r] = version]
          /\ put' = [put EXCEPT ![r] = "opening"]
          /\ UNCHANGED outbox
     ELSE /\ rop' = [rop EXCEPT ![r] = "failed"]
          /\ Enqueue({r})
          /\ UNCHANGED <<expected, put>>
  /\ UNCHANGED <<uploads, tree, stray, completing, files, worker, escaped, crashes>>

\* failReplacement: the old content stays, the new object is deleted.
ReplacementFails(r) ==
  /\ GiveUp(r)
  /\ rop' = [rop EXCEPT ![r] = "failed"]
  /\ expected' = [expected EXCEPT ![r] = None]
  /\ Enqueue({r})
  /\ UNCHANGED <<uploads, tree, completing, stored, worker, escaped, crashes>>

\* Variant of FinishReplace that checks the ETag before the upload only.
FinishUnchecked(r) ==
  /\ put[r] = "written"
  /\ put' = [put EXCEPT ![r] = "no"]
  /\ expected' = [expected EXCEPT ![r] = None]
  /\ IF Writable(r)
     THEN /\ rop' = [rop EXCEPT ![r] = "completed"]
          /\ current' = [current EXCEPT ![Of[r]] = r]
          /\ Enqueue({current[Of[r]]})
     ELSE /\ rop' = [rop EXCEPT ![r] = "failed"]
          /\ Enqueue({r})
          /\ UNCHANGED current
  /\ UNCHANGED <<uploads, node, stray, completing, files, worker, escaped, crashes>>

\* The bytes are stored: permission and ETag again, then one transaction.
FinishReplace(r) ==
  /\ put[r] = "written"
  /\ put' = [put EXCEPT ![r] = "no"]
  /\ expected' = [expected EXCEPT ![r] = None]
  /\ IF Matches(r, expected[r])
     THEN /\ rop' = [rop EXCEPT ![r] = "completed"]
          /\ current' = [current EXCEPT ![Of[r]] = r]
          /\ Enqueue({current[Of[r]]})
     ELSE /\ rop' = [rop EXCEPT ![r] = "failed"]
          /\ Enqueue({r})
          /\ UNCHANGED current
  /\ UNCHANGED <<uploads, node, stray, completing, files, worker, escaped, crashes>>

------------------------------------------------------------------------------
(* Users of the Trash. *)

TrashNode(s) ==
  /\ node[s] = "live"
  /\ node' = [node EXCEPT ![s] = "trashed"]
  /\ UNCHANGED <<uploads, replacing, current, puts, completing, files, outbox, worker, escaped, crashes>>

RestoreNode(s) ==
  /\ node[s] = "trashed"
  /\ node' = [node EXCEPT ![s] = "live"]
  /\ UNCHANGED <<uploads, replacing, current, puts, completing, files, outbox, worker, escaped, crashes>>

\* Rows and outbox entry in one transaction.
RemoveNode(s) ==
  /\ node[s] = "trashed"
  /\ node' = [node EXCEPT ![s] = "gone"]
  /\ current' = [current EXCEPT ![s] = None]
  /\ Enqueue({current[s]})
  /\ UNCHANGED <<uploads, replacing, puts, completing, files, worker, escaped, crashes>>

------------------------------------------------------------------------------
(* The maintenance worker: one run at a time. *)

\* The jobs a run claims of a queue; its limit of 25 is above every bound used here.
Claimable(queue) == {o \in queue : o \notin leased /\ o \notin backoff}

\* A tick of the timer: expire what is overdue, then claim what is due.
Maintain ==
  LET claimed == Claimable(jobs \cup overdue)
  IN /\ working = {}
     /\ overdue # {} \/ claimed # {}
     /\ sess' = [s \in Sessions |-> IF s \in overdue THEN "expired" ELSE sess[s]]
     /\ overdue' = {}
     /\ jobs' = jobs \cup overdue
     /\ leased' = leased \cup claimed
     /\ working' = claimed
     /\ UNCHANGED <<replacing, tree, puts, completing, files, backoff, unlinked, escaped, crashes>>

\* An open of the object's temporary file that is under way ends after the deletion.
OpenUnderWay(o) == put[o] = "opening" \/ o \in stray
Escapes(o) == escaped' = IF OpenUnderWay(o) THEN escaped \cup {o} ELSE escaped

\* Variant of Unlink that forgets the temporary file.
UnlinkStored(o) ==
  /\ o \in working
  /\ unlinked = None
  /\ unlinked' = o
  /\ stored' = stored \ {o}
  /\ Escapes(o)
  /\ UNCHANGED <<uploads, replacing, tree, puts, completing, temp, outbox, working, crashes>>

\* BlobStore.delete removes the object and its temporary file; neither need exist.
Unlink(o) ==
  /\ o \in working
  /\ unlinked = None
  /\ unlinked' = o
  /\ stored' = stored \ {o}
  /\ temp' = temp \ {o}
  /\ Escapes(o)
  /\ UNCHANGED <<uploads, replacing, tree, puts, completing, outbox, working, crashes>>

CompleteJob(o) ==
  /\ unlinked = o
  /\ unlinked' = None
  /\ working' = working \ {o}
  /\ jobs' = jobs \ {o}
  /\ leased' = leased \ {o}
  /\ UNCHANGED <<uploads, replacing, tree, puts, completing, files, backoff, escaped, crashes>>

\* The delete threw: the lease is given back, the next attempt waits.
FailJob(o) ==
  /\ o \in working
  /\ unlinked = None
  /\ working' = working \ {o}
  /\ leased' = leased \ {o}
  /\ backoff' = backoff \cup {o}
  /\ UNCHANGED <<uploads, replacing, tree, puts, completing, files, jobs, unlinked, escaped, crashes>>

(* Time and restarts. *)

\* Variant in which a claim passes over leased jobs for good.
LeaseIsKept(o) ==
  /\ o \in leased \ jobs
  /\ leased' = leased \ {o}
  /\ UNCHANGED <<uploads, replacing, tree, puts, completing, files, jobs, backoff, worker, escaped, crashes>>

LeaseExpires(o) ==
  /\ o \in leased
  /\ leased' = leased \ {o}
  /\ UNCHANGED <<uploads, replacing, tree, puts, completing, files, jobs, backoff, worker, escaped, crashes>>

ComesDue(o) ==
  /\ o \in backoff
  /\ backoff' = backoff \ {o}
  /\ UNCHANGED <<uploads, replacing, tree, puts, completing, files, jobs, leased, worker, escaped, crashes>>

\* The process stops; starting again, it lets interrupted uploads take content again
\* and fails every replacement it finds pending.  Files stay as they are, no open is
\* under way any more.
Crash ==
  LET interrupted == {r \in Replacements : rop[r] = "pending"}
  IN /\ crashes < MaxCrashes
     /\ crashes' = crashes + 1
     /\ put' = [o \in Objects |-> "no"] /\ stray' = {}
     /\ completing' = [c \in Completers |-> None]
     /\ working' = {} /\ unlinked' = None
     /\ sess' = [s \in Sessions |-> IF sess[s] = "verifying" THEN "waiting" ELSE sess[s]]
     /\ rop' = [r \in Replacements |-> IF r \in interrupted THEN "failed" ELSE rop[r]]
     /\ Enqueue(interrupted)
     /\ expected' = [r \in Replacements |-> None]
     /\ UNCHANGED <<overdue, tree, files, escaped>>

------------------------------------------------------------------------------

Init ==
  /\ sess = [s \in Sessions |-> "none"]
  /\ overdue = {}
  /\ rop = [r \in Replacements |-> "none"]
  /\ expected = [r \in Replacements |-> None]
  /\ node = [s \in Sessions |-> "none"]
  /\ current = [s \in Sessions |-> None]
  /\ put = [o \in Objects |-> "no"] /\ stray = {}
  /\ completing = [c \in Completers |-> None]
  /\ temp = {} /\ stored = {}
  /\ jobs = {} /\ leased = {} /\ backoff = {}
  /\ working = {} /\ unlinked = None /\ escaped = {}
  /\ crashes = 0

Upload ==
  \E s \in Sessions :
    \/ CreateUpload(s) \/ BeginUpload(s) \/ UploadFails(s) \/ MarkUploaded(s)
    \/ Abort(s) \/ Elapse(s)
    \/ \E c \in Completers : StartComplete(c, s)

Replacing ==
  \E r \in Replacements :
    \/ \E version \in Objects : Replace(r, version)
    \/ ReplacementFails(r)
    \/ FinishReplace(r)

TrashStep == \E s \in Sessions : TrashNode(s) \/ RestoreNode(s) \/ RemoveNode(s)

Maintenance ==
  \/ Maintain
  \/ \E o \in Objects : \/ Unlink(o) \/ CompleteJob(o) \/ FailJob(o)
                        \/ LeaseExpires(o) \/ ComesDue(o)

Next ==
  \/ Upload
  \/ \E o \in Objects : OpenFile(o) \/ StrayOpens(o) \/ Rename(o)
  \/ \E c \in Completers : FinishComplete(c)
  \/ Replacing
  \/ TrashStep
  \/ Maintenance
  \/ Crash

\* The timer and the clock go on, the worker's run does, and a delete that is tried
\* again and again succeeds in the end.  Nothing is assumed of users or bodies.
Fairness ==
  /\ WF_vars(Maintain)
  /\ \A o \in Objects : /\ SF_vars(Unlink(o))
                        /\ WF_vars(CompleteJob(o))
                        /\ WF_vars(LeaseExpires(o))
                        /\ WF_vars(ComesDue(o))

Spec == Init /\ [][Next]_vars

FairSpec == Spec /\ Fairness

------------------------------------------------------------------------------
(* What must hold. *)

TypeOK ==
  /\ sess \in [Sessions -> Open \cup {"none", "completed", "aborted", "expired"}]
  /\ overdue \subseteq {s \in Sessions : sess[s] \in Open}
  /\ rop \in [Replacements -> {"none", "pending", "completed", "failed"}]
  /\ expected \in [Replacements -> Objects \cup {None}]
  /\ node \in [Sessions -> {"none", "live", "trashed", "gone"}]
  /\ current \in [Sessions -> Objects \cup {None}]
  /\ put \in [Objects -> {"no", "opening", "writing", "written"}]
  /\ stray \subseteq Objects
  /\ completing \in [Completers -> Sessions \cup {None}]
  /\ temp \subseteq Objects /\ stored \subseteq Objects
  /\ jobs \subseteq Objects /\ leased \subseteq jobs /\ backoff \subseteq jobs
  /\ working \subseteq jobs /\ unlinked \in working \cup {None} /\ escaped \subseteq Objects
  /\ crashes \in 0 .. MaxCrashes

HasBlob(s) == node[s] \in {"live", "trashed"}

\* No content is lost: the object of a Resource that exists, in the Trash included, is
\* stored and nobody has queued it for deletion, whatever aborts, expiries, concurrent
\* replacements and restarts did around its publication.
ReferencedIsStored ==
  \A s \in Sessions : HasBlob(s) => current[s] \in stored \ jobs

\* An object somebody still answers for.
Accounted(o) ==
  \/ o \in jobs
  \/ \E s \in Sessions : HasBlob(s) /\ current[s] = o
  \/ o \in Sessions /\ sess[o] \in Open
  \/ o \in Replacements /\ rop[o] = "pending"

\* Nothing leaks: a file of the store, temporary ones included, belongs to a Resource,
\* to an upload that may go on, or is queued for deletion - also when the worker
\* deleted it while its put was still writing.  One window stays open, and the code
\* leaves it: an object that was deleted while an open of its temporary file was
\* under way (see README, 3).
NothingLeaks == \A o \in (temp \cup stored) \ escaped : Accounted(o)

\* No lost update: a replacement is made to the version its writer read, although the
\* body takes its time and other replacements finish meanwhile.
NoLostUpdate ==
  [][\A s \in Sessions, r \in Replacements :
       current'[s] = r /\ current[s] # r => expected[r] = current[s]]_vars

\* A Blob Resource that was removed for good is not published again by a second
\* request that completes the same session.
RemovedStaysRemoved == [][\A s \in Sessions : node[s] = "gone" => node'[s] = "gone"]_vars

\* What is queued for deletion leaves the store, across failures and restarts, but for
\* what the window of NothingLeaks brings back.
QueuedIsDeleted ==
  \A o \in Objects : o \in jobs ~> o \notin (temp \cup stored) \ escaped

==============================================================================
