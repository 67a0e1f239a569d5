---------------------------- MODULE ContentRuntime ----------------------------
(***************************************************************************)
(* The client's side of one worktree Unit: content-runtime.ts of the       *)
(* client core.  Operations on one Unit queue up; each leases the pooled   *)
(* collaboration runtime, brings it to the revision its caller selected,   *)
(* runs the caller's code in it and, for a write, commits the mutations    *)
(* with at most three submissions.  A submission or its answer may be lost.*)
(* The pool and the collaboration server are external.                     *)
(***************************************************************************)
EXTENDS Naturals, Sequences

CONSTANTS
  Writes, Reads,   \* operations: executeAndCommit; executeRead, exportUnitData
  MaxRevision,     \* bounds the revisions other clients add
  MaxCookie        \* bounds the logins

Ops == Writes \cup Reads

VARIABLES
  cookie,     \* the session on disk
  entry,      \* initByKey: the session the runtime is to use, 0 without one
  instance,   \* the pooled runtime
  queue,      \* operationByKey: the chain of operations on this Unit
  op,         \* operations: where they are, the revision selected, submissions
  log         \* the changesets of the Unit on the server

vars == <<cookie, entry, instance, queue, op, log>>

NoInstance == [init |-> 0, base |-> 0, pending |-> {}]

Init ==
  /\ cookie = 1 /\ entry = 0 /\ instance = NoInstance /\ queue = <<>> /\ log = <<>>
  /\ op = [o \in Ops |-> [at |-> "idle", target |-> 0, tries |-> 0]]

Running(o, at) == op[o].at = at /\ Head(queue) = o
Landed(o) == \E i \in DOMAIN log : log[i] = o

(* finish: the next operation of the chain runs.                           *)
Goes(o, at) == op' = [op EXCEPT ![o].at = at]
Leaves(o, result) == Goes(o, result) /\ queue' = Tail(queue)

Release == UNCHANGED <<entry, instance>>
Invalidate == entry' = 0 /\ instance' = NoInstance

(* The finally clauses: a write gives its runtime back only when it knows  *)
(* how it ended, a read always.                                            *)
GivesBack(o) == Release
AfterFailure(o) == IF o \in Writes THEN Invalidate ELSE Release

Fails(o) == Leaves(o, "failed") /\ AfterFailure(o)

-----------------------------------------------------------------------------
Request(o) ==
  /\ op[o].at = "idle"
  /\ op' = [op EXCEPT ![o].at = "queued", ![o].target = Len(log)]
  /\ queue' = Append(queue, o)
  /\ UNCHANGED <<cookie, entry, instance, log>>

(* acquire: the session is read once per runtime, or cannot be read.       *)
ResolveInit(o) ==
  /\ queue # <<>> /\ Running(o, "queued")
  /\ \/ entry' = (IF entry = 0 THEN cookie ELSE entry) /\ Goes(o, "acquiring") /\ UNCHANGED queue
     \/ entry = 0 /\ Leaves(o, "failed") /\ UNCHANGED entry
  /\ UNCHANGED <<cookie, instance, log>>

(* The pool fails to make a runtime, never to lease one it has.            *)
AcquireLease(o) ==
  /\ queue # <<>> /\ Running(o, "acquiring")
  /\ \/ /\ instance' = IF instance = NoInstance
                         THEN [init |-> entry, base |-> Len(log), pending |-> {}] ELSE instance
        /\ Goes(o, "leased") /\ UNCHANGED <<entry, queue>>
     \/ instance = NoInstance /\ entry' = 0 /\ Leaves(o, "failed") /\ UNCHANGED instance
  /\ UNCHANGED <<cookie, log>>

(* synchronize: a clean runtime, pulled to the head, at the revision       *)
(* selected; the pull may fail.                                            *)
Synchronize(o) ==
  /\ queue # <<>> /\ Running(o, "leased") /\ instance.pending = {}
  /\ instance' = [instance EXCEPT !.base = Len(log)]
  /\ IF op[o].target = Len(log)
       THEN Goes(o, "synced") /\ UNCHANGED <<entry, queue>>
       ELSE o \in Reads /\ Leaves(o, "failed") /\ UNCHANGED entry
  /\ UNCHANGED <<cookie, log>>

SynchronizeFails(o) ==
  /\ queue # <<>> /\ Running(o, "leased")
  /\ Fails(o)
  /\ UNCHANGED <<cookie, log>>

ExecuteRead(o) ==
  /\ queue # <<>> /\ Running(o, "synced") /\ o \in Reads
  /\ Leaves(o, "read") /\ GivesBack(o)
  /\ UNCHANGED <<cookie, log>>

ExecuteWrite(o) ==
  /\ queue # <<>> /\ Running(o, "synced") /\ o \in Writes
  /\ \/ Leaves(o, "nothing") /\ GivesBack(o)
     \/ /\ Goes(o, "committing") /\ instance' = [instance EXCEPT !.pending = {o}]
        /\ UNCHANGED <<entry, queue>>
  /\ UNCHANGED <<cookie, log>>

(* The code throws, an image cannot be uploaded, a result is malformed.    *)
ExecuteFails(o) ==
  /\ queue # <<>> /\ (Running(o, "synced") \/ (Running(o, "committing") /\ op[o].tries = 0))
  /\ Fails(o)
  /\ UNCHANGED <<cookie, log>>

-----------------------------------------------------------------------------
(* commitStableChangeset.                                                  *)

Attempts == 3

(* What one submission comes to on the server: the changeset is there      *)
(* already, is added on the revision it was made for, or is refused.       *)
Submits(o) ==
  IF Landed(o) THEN UNCHANGED log
  ELSE Len(log) = instance.base /\ log' = Append(log, o)

UnknownIsRetried(o) ==
  IF op[o].tries + 1 < Attempts
    THEN op' = [op EXCEPT ![o].tries = @ + 1] /\ UNCHANGED <<entry, instance, queue>>
    ELSE Fails(o)
UnknownIsTaken(o) == Leaves(o, "committed") /\ GivesBack(o)
Unknown(o) == UnknownIsRetried(o)

Confirmed(o) ==
  /\ queue # <<>> /\ Running(o, "committing")
  /\ Submits(o)
  /\ Leaves(o, "committed")
  /\ entry' = entry /\ instance' = [instance EXCEPT !.pending = {}, !.base = Len(log')]
  /\ UNCHANGED cookie

(* The answer is lost, or the submission itself.                           *)
AnswerLost(o) ==
  /\ queue # <<>> /\ Running(o, "committing")
  /\ Submits(o) \/ UNCHANGED log
  /\ Unknown(o)
  /\ UNCHANGED cookie

(* conflict, pull-required: another client was first.                      *)
Refused(o) ==
  /\ queue # <<>> /\ Running(o, "committing")
  /\ ~Landed(o) /\ Len(log) # instance.base
  /\ Fails(o)
  /\ UNCHANGED <<cookie, log>>

-----------------------------------------------------------------------------
(* The surroundings.                                                       *)

Leased == queue # <<>> /\ op[Head(queue)].at \in {"leased", "synced", "committing"}

(* onEvent: destroy-start of an idle runtime, instance-failed of a leased  *)
(* one, which fails the operation; a dead runtime is never given back.     *)
Evict ==
  /\ instance # NoInstance /\ ~Leased /\ (queue # <<>> => op[Head(queue)].at # "acquiring")
  /\ Invalidate
  /\ UNCHANGED <<cookie, queue, op, log>>

WorkerFails(o) ==
  /\ Leased /\ o = Head(queue)
  /\ Invalidate /\ Leaves(o, "failed")
  /\ UNCHANGED <<cookie, log>>

Login ==
  /\ cookie < MaxCookie /\ cookie' = cookie + 1
  /\ UNCHANGED <<entry, instance, queue, op, log>>

OtherCommits ==
  /\ Len(log) < MaxRevision /\ log' = Append(log, "other")
  /\ UNCHANGED <<cookie, entry, instance, queue, op>>

Next ==
  \/ \E o \in Ops :
       \/ Request(o) \/ ResolveInit(o) \/ AcquireLease(o)
       \/ Synchronize(o) \/ SynchronizeFails(o)
       \/ ExecuteRead(o) \/ ExecuteWrite(o) \/ ExecuteFails(o)
       \/ Confirmed(o) \/ AnswerLost(o) \/ Refused(o) \/ WorkerFails(o)
  \/ Evict \/ Login \/ OtherCommits

Spec == Init /\ [][Next]_vars

-----------------------------------------------------------------------------
(* An operation reported as committed has its changeset on the server      *)
(* once, right after the revision its caller selected; one reported as     *)
(* anything else may have landed (an answer lost three times), but never   *)
(* twice and never over a revision its caller had not seen                 *)
(* (content-runtime.ts:218-246, 283-305).                                  *)
LandsOnceOnItsRevision ==
  \A o \in Writes :
    /\ op[o].at = "committed" => Landed(o)
    /\ \A i \in DOMAIN log : log[i] = o => i = op[o].target + 1
    /\ op[o].at = "nothing" => ~Landed(o)

(* A runtime nobody leases is clean, so the next operation finds it        *)
(* reusable; and the cached session is the one the runtime was made with,  *)
(* so that no session outlives its runtime                                 *)
(* (content-runtime.ts:71-78, 99-157, 200-216).                            *)
PooledIsReusable ==
  /\ ~Leased => instance.pending = {}
  /\ entry # 0 => \/ instance # NoInstance /\ instance.init = entry
                  \/ \E o \in Ops : op[o].at = "acquiring" /\ instance = NoInstance
=============================================================================
