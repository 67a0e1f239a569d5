-------------------------- MODULE ResourceCreation --------------------------
(***************************************************************************)
(* The creation of a Univer Resource: POST /api/resources reserves an       *)
(* Operation under the caller's Idempotency-Key, asks the collaboration     *)
(* service for a Unit, and publishes Node, Resource and result in one       *)
(* SQLite transaction (modules/resources/).  A Retry by the caller and the  *)
(* recovery worker (jobs/operation-recovery.ts) run the same steps for an   *)
(* Operation that is already reserved.                                      *)
(*                                                                          *)
(* The server is one Node.js process over a synchronous SQLite connection:  *)
(* what runs between two awaits is one step.  An execution awaits once, in  *)
(* createUnit, so it is a start, the service's effect, and an answer.       *)
(* Leases and next_attempt_at live in the row and survive a crash, the      *)
(* executions do not.                                                       *)
(***************************************************************************)
EXTENDS Naturals, Sequences, FiniteSets, SequencesExt

CONSTANTS
  Keys,        \* Idempotency-Keys, each with the Node, Resource and Unit reserved under it
  InFolder,    \* the keys whose parentNodeId is the folder; the others are at the root
  Callers,     \* requests that call create or Retry
  Worker,      \* the recovery worker's single flight
  Idle,        \* no execution
  Limit,       \* rows one claim takes
  MaxCrashes   \* bound on restarts

ASSUME InFolderAssumption == InFolder \subseteq Keys
ASSUME ExecutorsAssumption == Worker \notin Callers /\ Idle \notin Keys
ASSUME BoundsAssumption == Limit \in Nat \ {0} /\ MaxCrashes \in Nat

VARIABLES
  op,       \* operations.state of each key
  leased,   \* the keys whose lease_expires_at lies ahead
  due,      \* pending keys with next_attempt_at <= now, in its order
  later,    \* pending keys with next_attempt_at > now, in its order
  unit,     \* the keys whose Unit the collaboration service has
  node,     \* where each key's Node is
  folder,   \* where the folder is
  exec,     \* the key each executor awaits createUnit for
  todo,     \* the rest of the rows the worker claimed
  crashes   \* restarts so far

journal == <<op, leased, due, later>>
tree == <<node, folder>>
running == <<exec, todo>>
vars == <<journal, unit, tree, running, crashes>>

Executors == Callers \cup {Worker}

\* "own" is trashed as the root of a batch of its own, "with" as part of the folder's batch.
Places == {"none", "live", "own", "with", "gone"}

Present(k) == node[k] \in {"live", "own", "with"}

\* A key waits in the queue at most once (TypeOK).
Keyless(seq, k) == RemoveFirst(seq, k)

------------------------------------------------------------------------------
(* The journal's writes. *)

\* Variant of MarkPendingError without "AND state = 'pending'".
PendingErrorAnyState(k) ==
  /\ leased' = leased \ {k}
  /\ due' = Keyless(due, k)
  /\ later' = Append(Keyless(later, k), k)
  /\ op' = op

\* Variant without the five seconds: the key stays at the head of what is due.
PendingErrorAtOnce(k) ==
  IF op[k] = "pending"
  THEN /\ leased' = leased \ {k}
       /\ due' = <<k>> \o Keyless(due, k)
       /\ later' = Keyless(later, k)
       /\ op' = op
  ELSE UNCHANGED journal

\* An UPDATE that leaves the key pending, to be tried again in five seconds.
MarkPendingError(k) ==
  IF op[k] = "pending"
  THEN /\ leased' = leased \ {k}
       /\ due' = Keyless(due, k)
       /\ later' = Append(Keyless(later, k), k)
       /\ op' = op
  ELSE UNCHANGED journal

\* The key leaves the queue with a final state for now.
Close(k, state) ==
  /\ op' = [op EXCEPT ![k] = state]
  /\ leased' = leased \ {k}
  /\ due' = Keyless(due, k)
  /\ later' = Keyless(later, k)

\* Variant of MarkFailed without "AND state = 'pending'".
FailedAnyState(k) == Close(k, "failed")

MarkFailed(k) ==
  IF op[k] = "pending" THEN Close(k, "failed") ELSE UNCHANGED journal

\* The foreign key and the trigger nodes_parent_insert ask for the parent's row only.
Insertable(k) == k \in InFolder => folder # "gone"

\* What publishing does to the tree: nothing when the Resource's row exists.
Published(k) == [node EXCEPT ![k] = IF Present(k) THEN @ ELSE "live"]

\* The executor's call is over; the worker goes on to the next row it claimed.
Finish(e) ==
  /\ exec' = [exec EXCEPT ![e] =
                IF e = Worker /\ todo # <<>> THEN Head(todo) ELSE Idle]
  /\ todo' = IF e = Worker /\ todo # <<>> THEN Tail(todo) ELSE todo

------------------------------------------------------------------------------
(* Requests. *)

\* POST /api/resources with a new key.  The target is checked here and never again.
\* A key that is pending or failed answers 202, a completed one 200: no state changes.
Create(c, k) ==
  /\ exec[c] = Idle
  /\ op[k] = "none"
  /\ k \in InFolder => folder = "live"
  /\ op' = [op EXCEPT ![k] = "pending"]
  /\ leased' = leased \cup {k}
  /\ due' = Append(due, k)
  /\ exec' = [exec EXCEPT ![c] = k]
  /\ UNCHANGED <<later, unit, tree, todo, crashes>>

\* Retry of a failed Operation: due at once, without a lease, and executed by the caller.
Retry(c, k) ==
  /\ exec[c] = Idle
  /\ op[k] = "failed"
  /\ op' = [op EXCEPT ![k] = "pending"]
  /\ due' = Append(due, k)
  /\ exec' = [exec EXCEPT ![c] = k]
  /\ UNCHANGED <<leased, later, unit, tree, todo, crashes>>

(* The recovery worker: one run at a time, over the rows it claimed. *)

\* The rows of the queue nobody holds a lease of, by their places in it.
Free == {i \in DOMAIN due : due[i] \notin leased}

\* ORDER BY next_attempt_at LIMIT n: the first free places, in their order.
FirstFree(picked) ==
  /\ \A i, j \in DOMAIN picked : i < j => picked[i] < picked[j]
  /\ \A f \in Free \ ToSet(picked) :
        Len(picked) = Limit /\ \A i \in DOMAIN picked : picked[i] < f

ClaimDue ==
  /\ exec[Worker] = Idle
  /\ \E n \in 1 .. Limit : \E picked \in [1 .. n -> Free] :
       /\ FirstFree(picked)
       /\ leased' = leased \cup {due[picked[i]] : i \in 1 .. n}
       /\ exec' = [exec EXCEPT ![Worker] = due[picked[1]]]
       /\ todo' = [i \in 1 .. n - 1 |-> due[picked[i + 1]]]
  /\ UNCHANGED <<op, due, later, unit, tree, crashes>>

(* The collaboration service and the answers of createUnit. *)

\* The Unit of an execution's key is made: before its answer, or without one.
UnitLands(e) ==
  /\ exec[e] # Idle
  /\ exec[e] \notin unit
  /\ unit' = unit \cup {exec[e]}
  /\ UNCHANGED <<journal, tree, running, crashes>>

\* Variant that publishes without waiting for createUnit.
SucceedEarly(e) ==
  /\ exec[e] # Idle
  /\ Present(exec[e]) \/ Insertable(exec[e])
  /\ node' = Published(exec[e])
  /\ Close(exec[e], "completed")
  /\ Finish(e)
  /\ UNCHANGED <<unit, folder, crashes>>

\* createUnit returned the reserved Unit: completeCreateResource, whatever the state is by now.
Succeed(e) ==
  /\ exec[e] \in unit
  /\ Present(exec[e]) \/ Insertable(exec[e])
  /\ node' = Published(exec[e])
  /\ Close(exec[e], "completed")
  /\ Finish(e)
  /\ UNCHANGED <<unit, folder, crashes>>

\* createUnit failed with a retryable error.
CallFails(e) ==
  /\ exec[e] # Idle
  /\ MarkPendingError(exec[e])
  /\ Finish(e)
  /\ UNCHANGED <<unit, tree, crashes>>

\* createUnit returned, the INSERT of the Node aborts: an INTERNAL_ERROR, retryable.
InsertAborts(e) ==
  /\ exec[e] \in unit
  /\ ~ Present(exec[e]) /\ ~ Insertable(exec[e])
  /\ MarkPendingError(exec[e])
  /\ Finish(e)
  /\ UNCHANGED <<unit, tree, crashes>>

\* createUnit failed for good, or returned another Unit.
CallRejected(e) ==
  /\ exec[e] # Idle
  /\ MarkFailed(exec[e])
  /\ Finish(e)
  /\ UNCHANGED <<unit, tree, crashes>>

(* Time. *)

LeaseExpires(k) ==
  /\ k \in leased
  /\ leased' = leased \ {k}
  /\ UNCHANGED <<op, due, later, unit, tree, running, crashes>>

ComesDue ==
  /\ later # <<>>
  /\ due' = Append(due, Head(later))
  /\ later' = Tail(later)
  /\ UNCHANGED <<op, leased, unit, tree, running, crashes>>

\* The process ends and starts again: rows stay, executions and the claimed list are lost.
Crash ==
  /\ crashes < MaxCrashes
  /\ crashes' = crashes + 1
  /\ exec' = [e \in Executors |-> Idle]
  /\ todo' = <<>>
  /\ UNCHANGED <<journal, unit, tree>>

(* Users of the Trash. *)

TrashNode(k) ==
  /\ node[k] = "live"
  /\ node' = [node EXCEPT ![k] = "own"]
  /\ UNCHANGED <<journal, unit, folder, running, crashes>>

RestoreNode(k) ==
  /\ node[k] = "own"
  /\ k \in InFolder => folder = "live"
  /\ node' = [node EXCEPT ![k] = "live"]
  /\ UNCHANGED <<journal, unit, folder, running, crashes>>

RemoveNode(k) ==
  /\ node[k] = "own"
  /\ node' = [node EXCEPT ![k] = "gone"]
  /\ UNCHANGED <<journal, unit, folder, running, crashes>>

\* The Nodes of the folder that are at `from' go to `to' with it.
Moved(from, to) ==
  [k \in Keys |-> IF k \in InFolder /\ node[k] \in from THEN to ELSE node[k]]

TrashFolder ==
  /\ folder = "live"
  /\ folder' = "trashed"
  /\ node' = Moved({"live"}, "with")
  /\ UNCHANGED <<journal, unit, running, crashes>>

RestoreFolder ==
  /\ folder = "trashed"
  /\ folder' = "live"
  /\ node' = Moved({"with"}, "live")
  /\ UNCHANGED <<journal, unit, running, crashes>>

\* Variant of RemoveFolder that deletes the Nodes of its own batch only.
RemoveBatchOnly ==
  /\ folder = "trashed"
  /\ \A k \in InFolder : node[k] # "own"
  /\ folder' = "gone"
  /\ node' = Moved({"with"}, "gone")
  /\ UNCHANGED <<journal, unit, running, crashes>>

\* Blocked by a nested batch; deletes every descendant, those published late included.
RemoveFolder ==
  /\ folder = "trashed"
  /\ \A k \in InFolder : node[k] # "own"
  /\ folder' = "gone"
  /\ node' = Moved({"live", "with"}, "gone")
  /\ UNCHANGED <<journal, unit, running, crashes>>

------------------------------------------------------------------------------

Init ==
  /\ op = [k \in Keys |-> "none"]
  /\ leased = {}
  /\ due = <<>>
  /\ later = <<>>
  /\ unit = {}
  /\ node = [k \in Keys |-> "none"]
  /\ folder = "live"
  /\ exec = [e \in Executors |-> Idle]
  /\ todo = <<>>
  /\ crashes = 0

Answer(e) == Succeed(e) \/ CallFails(e) \/ InsertAborts(e) \/ CallRejected(e)

TrashStep ==
  \/ \E k \in Keys : TrashNode(k) \/ RestoreNode(k) \/ RemoveNode(k)
  \/ TrashFolder
  \/ RestoreFolder
  \/ RemoveFolder

Next ==
  \/ \E c \in Callers, k \in Keys : Create(c, k) \/ Retry(c, k)
  \/ \E e \in Executors : UnitLands(e) \/ Answer(e)
  \/ ClaimDue
  \/ \E k \in Keys : LeaseExpires(k)
  \/ ComesDue
  \/ Crash
  \/ TrashStep

\* The interval timer, the clock, and a service that answers the worker; asked
\* again and again for the same Unit, it creates it in the end.  A caller's
\* execution may hang for ever.
Fairness ==
  /\ WF_vars(ClaimDue)
  /\ WF_vars(ComesDue)
  /\ \A k \in Keys : WF_vars(LeaseExpires(k))
  /\ WF_vars(Answer(Worker))
  /\ \A k \in Keys : /\ SF_vars(exec[Worker] = k /\ UnitLands(Worker))
                     /\ SF_vars(exec[Worker] = k /\ Succeed(Worker))

Spec == Init /\ [][Next]_vars

FairSpec == Spec /\ Fairness

------------------------------------------------------------------------------
(* What must hold. *)

\* Every key that is pending, and no other, waits once in the queue; what the
\* worker still holds is claimed at most once.
TypeOK ==
  /\ op \in [Keys -> {"none", "pending", "failed", "completed"}]
  /\ leased \subseteq Keys
  /\ unit \subseteq Keys
  /\ node \in [Keys -> Places]
  /\ folder \in {"live", "trashed", "gone"}
  /\ exec \in [Executors -> Keys \cup {Idle}]
  /\ crashes \in 0 .. MaxCrashes
  /\ due \in Seq(Keys) /\ later \in Seq(Keys) /\ todo \in Seq(Keys)
  /\ IsInjective(due \o later) /\ IsInjective(todo)
  /\ ToSet(due \o later) = {k \in Keys : op[k] = "pending"}

\* Node and journal change together: a key has, or had, its Node exactly when its
\* Operation says completed, however late a second execution of it answers.
NodeMatchesJournal == \A k \in Keys : node[k] = "none" <=> op[k] # "completed"

\* A Node of the tree opens a Unit that exists: the Unit is created before the
\* Node is, across failed calls, crashes and executions that overlap.
NodeHasUnit == \A k \in Keys : Present(k) => k \in unit

\* A Node hangs under a parent that exists, and is in the folder's batch only
\* while the folder is in the Trash: the parent was checked at the reservation,
\* and may have gone to the Trash and out of it before the Node is inserted.
NodePlaced ==
  /\ \A k \in InFolder : Present(k) => folder # "gone"
  /\ \A k \in Keys : node[k] = "with" => k \in InFolder /\ folder = "trashed"

\* A completed Operation stays completed: the error of an execution that another
\* one overtook is not written over its result.
CompletedStays ==
  [][\A k \in Keys : op[k] = "completed" => op'[k] = "completed"]_vars

\* A pending Operation is settled in the end, whoever crashed and whichever lease
\* was left behind, and no other key that keeps failing starves it.  One whose
\* parent was removed stays pending: its INSERT aborts at every attempt.
PendingSettles ==
  \A k \in Keys :
    op[k] = "pending" ~>
      \/ op[k] \in {"completed", "failed"}
      \/ k \in InFolder /\ folder = "gone"

\* One Node per key, as the test of resources.ts states it: a Node that was
\* permanently removed is not made again.
OneNodePerKey == [][\A k \in Keys : node[k] = "gone" => node'[k] = "gone"]_vars

==============================================================================
