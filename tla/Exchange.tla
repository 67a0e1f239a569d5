------------------------------ MODULE Exchange ------------------------------
(***************************************************************************)
(* Office import and export: exchange.service.ts.  Uploaded and converted  *)
(* files are objects of the BlobStore that only two maps of the process    *)
(* know, with a time to live; conversions run in the background.  Nothing  *)
(* is journaled, so what the process forgets stays in the store for good:  *)
(* it must delete every object itself before it stops.                     *)
(***************************************************************************)
EXTENDS Naturals, FiniteSets

CONSTANTS
  Files,     \* artifacts; the id stands for the object key too
  Tasks,
  Ttl,       \* ARTIFACT_TTL_MS, in ticks
  MaxTime    \* bounds the clock

VARIABLES
  now,
  stored,     \* objects of the store
  listed,     \* artifacts: the time each expires, 0 without an entry
  owner,      \* who saves a file, between its put and its entry
  deleting,   \* files that a removeExpired has dropped and is deleting
  leaked,     \* files nobody deletes any more: their deletion failed, or their
              \* put gave up before its thread opened them
  task,       \* tasks: status and time of expiry
  running,    \* runningTasks
  closing,    \* where dispose is, "no" before it
  waitFor     \* the tasks it waits for

vars == <<now, stored, listed, owner, deleting, leaked, task, running, closing, waitFor>>

NoTask == [status |-> "none", expires |-> 0]
Open == closing = "no"      \* the HTTP server takes requests

Init ==
  /\ now = 1 /\ stored = {} /\ listed = [f \in Files |-> 0]
  /\ owner = [f \in Files |-> "nobody"]
  /\ deleting = {} /\ leaked = {}
  /\ task = [t \in Tasks |-> NoTask] /\ running = {}
  /\ closing = "no" /\ waitFor = {}

Fresh(f) == f \notin stored \cup leaked /\ listed[f] = 0 /\ owner[f] = "nobody"
              /\ f \notin deleting

-----------------------------------------------------------------------------
(* Files.                                                                  *)

(* saveArtifact: put, then the entry.  A put that fails removes its file,  *)
(* but a temporary file that is opened after that stays.                   *)
Put(f, by) ==
  /\ Fresh(f)
  /\ stored' = stored \cup {f}
  /\ owner' = [owner EXCEPT ![f] = by]
  /\ UNCHANGED <<now, listed, deleting, leaked, task, running, closing, waitFor>>

PutLeaks(f) ==
  /\ Open \/ running # {}
  /\ Fresh(f)
  /\ stored' = stored \cup {f} /\ leaked' = leaked \cup {f}
  /\ UNCHANGED <<now, listed, owner, deleting, task, running, closing, waitFor>>

List(f) ==
  /\ listed' = [listed EXCEPT ![f] = now + Ttl]
  /\ owner' = [owner EXCEPT ![f] = "nobody"]

Upload(f) == Open /\ Put(f, "request")

UploadEnds(f) ==
  /\ owner[f] = "request"
  /\ List(f)
  /\ UNCHANGED <<now, stored, deleting, leaked, task, running, closing, waitFor>>

(* removeExpired, before every request and every save: the entry goes, then*)
(* the object, over an await; the expired tasks go at the end.             *)
Due(f) == listed[f] # 0 /\ listed[f] <= now

Expire(f) ==
  /\ Open \/ running # {}
  /\ Due(f) /\ f \notin deleting
  /\ listed' = [listed EXCEPT ![f] = 0]
  /\ deleting' = deleting \cup {f}
  /\ UNCHANGED <<now, stored, owner, leaked, task, running, closing, waitFor>>

DeleteObject(f) ==
  /\ f \in deleting
  /\ deleting' = deleting \ {f}
  /\ \/ stored' = stored \ {f} /\ UNCHANGED leaked
     \/ leaked' = leaked \cup {f} /\ UNCHANGED stored
  /\ UNCHANGED <<now, listed, owner, task, running, closing, waitFor>>

ExpireTasks ==
  /\ Open \/ running # {}
  /\ \E t \in Tasks : task[t].status # "none" /\ task[t].expires <= now
  /\ task' = [t \in Tasks |-> IF task[t].expires <= now THEN NoTask ELSE task[t]]
  /\ UNCHANGED <<now, stored, listed, owner, deleting, leaked, running, closing, waitFor>>

-----------------------------------------------------------------------------
(* Tasks: import and export.                                               *)

StartTask(t) ==
  /\ Open /\ task[t] = NoTask /\ t \notin running
  /\ task' = [task EXCEPT ![t] = [status |-> "pending", expires |-> now + Ttl]]
  /\ running' = running \cup {t}
  /\ UNCHANGED <<now, stored, listed, owner, deleting, leaked, closing, waitFor>>

(* The result is entered whether or not the task expired meanwhile.        *)
Settle(t, status) ==
  /\ task' = [task EXCEPT ![t] = [status |-> status, expires |-> now + Ttl]]
  /\ running' = running \ {t}

(* A conversion that makes a file: an export, or an import to JSON.        *)
TaskPuts(t, f) == t \in running /\ (\A g \in Files : owner[g] # t) /\ Put(f, t)

TaskSaves(t, f) ==
  /\ owner[f] = t
  /\ List(f)
  /\ Settle(t, "done")
  /\ UNCHANGED <<now, stored, deleting, leaked, closing, waitFor>>

(* An import to a Resource saves no file; any await of a task may reject.  *)
TaskEnds(t, status) ==
  /\ t \in running /\ \A g \in Files : owner[g] # t
  /\ Settle(t, status)
  /\ UNCHANGED <<now, stored, listed, owner, deleting, leaked, closing, waitFor>>

-----------------------------------------------------------------------------
(* dispose, once the HTTP server has ended its requests.                   *)

WaitForNobody == {}
WaitFor == running

DisposeBegins ==
  /\ Open /\ \A f \in Files : owner[f] # "request"
  /\ closing' = "waiting" /\ waitFor' = WaitFor
  /\ UNCHANGED <<now, stored, listed, owner, deleting, leaked, task, running>>

(* Promise.allSettled, then clear, then delete what was listed.  A removal *)
(* is awaited by the request or the task that began it.                    *)
DisposeClears ==
  /\ closing = "waiting" /\ waitFor \cap running = {}
  /\ running = {} => deleting = {}
  /\ closing' = "clearing" /\ waitFor' = {}
  /\ deleting' = deleting \cup {f \in Files : listed[f] # 0}
  /\ listed' = [f \in Files |-> 0]
  /\ task' = [t \in Tasks |-> NoTask]
  /\ UNCHANGED <<now, stored, owner, leaked, running>>

DisposeEnds ==
  /\ closing = "clearing" /\ deleting = {}
  /\ closing' = "done"
  /\ UNCHANGED <<now, stored, listed, owner, deleting, leaked, task, running, waitFor>>

Tick ==
  /\ now < MaxTime /\ now' = now + 1
  /\ UNCHANGED <<stored, listed, owner, deleting, leaked, task, running, closing, waitFor>>

Next ==
  \/ \E f \in Files :
       \/ Upload(f) \/ UploadEnds(f) \/ Expire(f) \/ DeleteObject(f)
       \/ PutLeaks(f)
       \/ \E t \in Tasks : TaskPuts(t, f) \/ TaskSaves(t, f)
  \/ \E t \in Tasks : StartTask(t) \/ (\E status \in {"done", "failed"} : TaskEnds(t, status))
  \/ ExpireTasks \/ DisposeBegins \/ DisposeClears \/ DisposeEnds \/ Tick

Spec == Init /\ [][Next]_vars

-----------------------------------------------------------------------------
(* A file that can be asked for has its bytes, and a file that cannot be   *)
(* asked for is being saved, being deleted, or was lost to a deletion that *)
(* failed or a put that gave up early; once dispose has ended, only those  *)
(* last are left in the store (exchange.service.ts:144-190 and 474-482).   *)
FilesAreKnown ==
  /\ \A f \in Files : listed[f] # 0 => f \in stored /\ f \notin deleting
  /\ stored \subseteq leaked \cup deleting
       \cup {f \in Files : listed[f] # 0 \/ owner[f] # "nobody"}
  /\ closing = "done" => stored = leaked
=============================================================================
