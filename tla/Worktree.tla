------------------------------ MODULE Worktree ------------------------------
(***************************************************************************)
(* One review worktree of apps/workspace/server: the saga that             *)
(* modules/worktrees/worktrees.service.ts runs across two databases which  *)
(* share no transaction.  The collaboration service (external, variables   *)
(* wt, bUnits, bRemoved, bMerged) owns the branch; the product database    *)
(* owns the rows that make a branch visible (row, mapped, activated, ...). *)
(* Every request is a process: it reads the service (await), decides,      *)
(* reserves its Operation, calls the service (await) and then writes the   *)
(* product rows, one SQLite statement or transaction per step, holding the *)
(* event loop.  A crash ends every request between two such steps; the     *)
(* rows of both databases stay.                                            *)
(***************************************************************************)
EXTENDS Naturals, FiniteSets

CONSTANTS
  Trunk,        \* Units that exist in the product before the worktree
  Local,        \* Units created inside the worktree, one per reserved id
  MergeKeys,    \* Idempotency-Keys clients use for merge
  DiscardKeys,  \* Idempotency-Keys clients use for discard
  Offered,      \* kinds of call the clients make (bound of a run)
  Reqs,         \* requests the server runs at the same time
  MaxFaults     \* bound: crashes and failed service calls in a behaviour

Units == Trunk \cup Local

(* The key that adds a Unit is named by the Unit: the reservation fixes it. *)
Keys == {"create"} \cup Units \cup MergeKeys \cup DiscardKeys

ASSUME KeysAreDistinct ==
  /\ Trunk \cap Local = {}
  /\ Units \cap (MergeKeys \cup DiscardKeys) = {}
  /\ MergeKeys \cap DiscardKeys = {}
  /\ "create" \notin Units \cup MergeKeys \cup DiscardKeys

ASSUME FaultsAreBounded == MaxFaults \in Nat

VARIABLES
  wt,         \* service: status of the worktree
  bUnits,     \* service: Units of the branch
  bRemoved,   \* service: Units marked for deletion in the branch
  bMerged,    \* service: Units whose content reached the trunk
  row,        \* product: the worktrees row exists
  mapped,     \* product: worktree_units rows
  activated,  \* product: intents with activated_at
  discarded,  \* product: intents with discarded_at
  processed,  \* product: worktrees.processed_at is set
  receipt,    \* product: trash batches with the worktree's deterministic id
  node,       \* product: the Node of each Unit
  target,     \* product: the folder that new Units are published into
  op,         \* product: operations.state of each key
  result,     \* product: operations.result_json, the status it records
  req,        \* the requests in memory
  faults      \* crashes and failed service calls so far

service == <<wt, bUnits, bRemoved, bMerged>>
tree    == <<receipt, node, target>>
intents == <<activated, discarded>>
vars    == <<service, row, mapped, intents, processed, tree, op, result, req, faults>>

Statuses == {"absent", "draft", "ready", "merging", "merged", "discarded"}

Calls ==
  [kind : {"create"}, of : {"create"}]
    \cup [kind : {"add", "remove", "keep"}, of : Units]
    \cup [kind : {"merge"}, of : MergeKeys]
    \cup [kind : {"discard"}, of : DiscardKeys]
    \cup [kind : {"ready", "reopen"}, of : {"worktree"}]

Keyed == {"create", "add", "merge", "discard"}

CallOf(k) ==
  [kind |-> IF k = "create" THEN "create"
            ELSE IF k \in Units THEN "add"
            ELSE IF k \in MergeKeys THEN "merge" ELSE "discard",
   of   |-> k]

NoCall   == [kind |-> "none", of |-> "none"]
NoAnswer == [status |-> "none", merged |-> {}, removed |-> {}]

(* early: processed_at as read before the first await; known: the Units    *)
(* this request resolved to a Node; fetch: it resumes a finished merge;    *)
(* answer: what the service returned; todo: rows left in the loop it runs. *)
IdleReq ==
  [pc |-> "idle", call |-> NoCall, retry |-> FALSE, early |-> FALSE,
   fetch |-> FALSE, known |-> {}, answer |-> NoAnswer, todo |-> {}]

(* Steps between two awaits: no other handler runs while one is at them.   *)
Synchronous == {"activate", "trash", "process", "complete"}
LoopFree == \A r \in Reqs : req[r].pc \notin Synchronous

Stages == {"idle", "context", "call", "merging", "answered"} \cup Synchronous
Answers ==
  [status : Statuses \cup {"none"}, merged : SUBSET Units, removed : SUBSET Units]
Requests ==
  [pc : Stages, call : Calls \cup {NoCall}, retry : BOOLEAN, early : BOOLEAN,
   fetch : BOOLEAN, known : SUBSET Units, answer : Answers, todo : SUBSET Units]

Become(r, q) == req' = [req EXCEPT ![r] = q]
Goto(r, pc)  == Become(r, [req[r] EXCEPT !.pc = pc])

Init ==
  /\ wt = "absent" /\ bUnits = {} /\ bRemoved = {} /\ bMerged = {}
  /\ row = FALSE /\ mapped = {} /\ activated = {} /\ discarded = {}
  /\ processed = FALSE /\ receipt = {}
  /\ node = [u \in Units |-> IF u \in Trunk THEN "live" ELSE "none"]
  /\ target = "live"
  /\ op = [k \in Keys |-> "none"] /\ result = [k \in Keys |-> "none"]
  /\ req = [r \in Reqs |-> IdleReq]
  /\ faults = 0

-----------------------------------------------------------------------------
(* Capabilities: what the product lets the creator do.                     *)

Editable(u) ==
  IF u \in Trunk \cup activated THEN node[u] = "live" ELSE target = "live"

AllEditable == \A u \in mapped : (u \in Local /\ u \in bRemoved) \/ Editable(u)

TargetsHold ==
  \A u \in mapped :
    IF u \in bRemoved
      THEN u \in Local \/ u \in receipt \/ node[u] = "live"
      ELSE Editable(u)

(* A merge may start from ready; an interrupted one may go on under a key  *)
(* that was reserved before.                                               *)
MergeFromReadyOnly(q) ==
  /\ wt = "ready" /\ AllEditable
  /\ op[q.call.of] = "completed" \/ q.early \/ TargetsHold
MergeAllowed(q) ==
  /\ \/ wt = "ready" /\ AllEditable
     \/ wt \in {"merged", "merging"} /\ op[q.call.of] # "none"
  /\ op[q.call.of] = "completed" \/ q.early \/ TargetsHold

Allowed(q) ==
  LET u == q.call.of IN
  CASE q.call.kind = "add"     -> /\ wt = "draft" /\ AllEditable
                                  /\ IF u \in Trunk THEN node[u] = "live"
                                                    ELSE target = "live"
    [] q.call.kind = "remove"  -> /\ u \in mapped /\ wt = "draft"
                                  /\ AllEditable \/ u \in Local
                                  /\ u \in Trunk => node[u] = "live"
    [] q.call.kind = "keep"    -> /\ u \in mapped /\ wt = "draft" /\ AllEditable
                                  /\ u \in Local => target = "live"
    [] q.call.kind = "merge"   -> MergeAllowed(q)
    [] q.call.kind = "discard" -> wt \in {"draft", "ready"}
    [] q.call.kind = "ready"   -> wt = "draft" /\ AllEditable
    [] q.call.kind = "reopen"  -> wt = "ready"

-----------------------------------------------------------------------------
(* The Operation journal.                                                  *)

Reserved(k) == [op EXCEPT ![k] = IF @ = "none" THEN "pending" ELSE @]

FailedEvenIfCompleted(k) == [op EXCEPT ![k] = "failed"]
Failed(k) == [op EXCEPT ![k] = IF @ = "pending" THEN "failed" ELSE @]

(* A handler that throws: the reserved Operation fails, the reply is sent. *)
Throw(r) ==
  /\ op' = IF req[r].call.kind \in Keyed THEN Failed(req[r].call.of) ELSE op
  /\ Become(r, IdleReq)

-----------------------------------------------------------------------------
(* A request arrives, reads the service, and is admitted or refused.       *)

Start(r, c, again) ==
  /\ req[r].pc = "idle" /\ LoopFree
  /\ Become(r, [IdleReq EXCEPT !.call = c, !.retry = again, !.early = processed,
                 !.pc = IF c.kind = "create" THEN "call" ELSE "context"])

(* create reserves before its first await; it needs no worktrees row.      *)
Create(r) ==
  /\ Start(r, CallOf("create"), FALSE)
  /\ op["create"] # "completed"
  /\ op' = Reserved("create")
  /\ UNCHANGED <<service, row, mapped, intents, processed, tree, result, faults>>

Arrive(r, c) ==
  /\ c.kind \in Offered \ {"create"} /\ row
  /\ Start(r, c, FALSE)
  /\ UNCHANGED <<service, row, mapped, intents, processed, tree, op, result, faults>>

(* POST /operations/{id}/retry: a failed Operation is pending again.       *)
Retry(r, k) ==
  /\ op[k] = "failed"
  /\ Start(r, CallOf(k), TRUE)
  /\ op' = [op EXCEPT ![k] = "pending"]
  /\ UNCHANGED <<service, row, mapped, intents, processed, tree, result, faults>>

Resumed == [NoAnswer EXCEPT !.status = "merged"]
Known == {u \in mapped : u \in Local \/ node[u] # "gone"}

Admit(r) ==
  LET q == req[r]
      k == q.call.of
      resumed == q.call.kind = "merge" /\ wt = "merged"
      next == [q EXCEPT !.pc = "call", !.known = Known, !.fetch = resumed]
  IN
  /\ q.pc = "context" /\ LoopFree
  /\ Allowed(q)
  /\ op' = IF q.call.kind \in Keyed THEN Reserved(k) ELSE op
  /\ Become(r, IF q.call.kind \in Keyed /\ op[k] = "completed" THEN IdleReq
                ELSE IF q.early /\ resumed
                  THEN [next EXCEPT !.pc = "complete", !.answer = Resumed]
                  ELSE next)
  /\ UNCHANGED <<service, row, mapped, intents, processed, tree, result, faults>>

(* A refused replay leaves the journal alone; a refused Retry fails it.    *)
Refuse(r) ==
  /\ req[r].pc = "context" /\ LoopFree
  /\ ~Allowed(req[r])
  /\ op' = IF req[r].retry THEN Failed(req[r].call.of) ELSE op
  /\ Become(r, IdleReq)
  /\ UNCHANGED <<service, row, mapped, intents, processed, tree, result, faults>>

-----------------------------------------------------------------------------
(* The collaboration service (external).  It answers on worker threads, so *)
(* a call takes effect whatever the event loop is doing.                   *)

Serviceable(q) ==
  CASE q.call.kind = "create"  -> TRUE
    [] q.call.kind \in {"add", "remove", "keep", "ready"} -> wt = "draft"
    [] q.call.kind = "reopen"  -> wt = "ready"
    [] q.call.kind = "discard" -> wt \in {"draft", "ready"}
    [] q.call.kind = "merge"   -> q.fetch \/ wt \in {"ready", "merging"}

Content == bUnits \ bRemoved
Answer(status, merged) ==
  [status |-> status, merged |-> merged \ bRemoved, removed |-> bRemoved]

Calling(r, kinds) ==
  req[r].pc = "call" /\ req[r].call.kind \in kinds /\ Serviceable(req[r])

Answered(r, a) == Become(r, [req[r] EXCEPT !.pc = "answered", !.answer = a])

product == <<row, mapped, intents, processed, tree, op, result>>

CallCreate(r) ==
  /\ Calling(r, {"create"})
  /\ wt' = IF wt = "absent" THEN "draft" ELSE wt
  /\ Answered(r, NoAnswer)
  /\ UNCHANGED <<bUnits, bRemoved, bMerged, product, faults>>

CallAdd(r) ==
  /\ Calling(r, {"add"})
  /\ bUnits' = bUnits \cup {req[r].call.of}
  /\ Answered(r, NoAnswer)
  /\ UNCHANGED <<wt, bRemoved, bMerged, product, faults>>

(* setUnitRemoved, markReady and reopen write nothing after their call.    *)
CallSetRemoved(r) ==
  /\ Calling(r, {"remove", "keep"})
  /\ bRemoved' = IF req[r].call.kind = "remove" THEN bRemoved \cup {req[r].call.of}
                                                ELSE bRemoved \ {req[r].call.of}
  /\ Become(r, IdleReq)
  /\ UNCHANGED <<wt, bUnits, bMerged, product, faults>>

CallTurn(r) ==
  /\ Calling(r, {"ready", "reopen"})
  /\ wt' = IF req[r].call.kind = "ready" THEN "ready" ELSE "draft"
  /\ Become(r, IdleReq)
  /\ UNCHANGED <<bUnits, bRemoved, bMerged, product, faults>>

CallDiscard(r) ==
  /\ Calling(r, {"discard"})
  /\ wt' = "discarded"
  /\ Answered(r, Answer("discarded", bMerged))
  /\ UNCHANGED <<bUnits, bRemoved, bMerged, product, faults>>

CallGet(r) ==
  /\ Calling(r, {"merge"}) /\ req[r].fetch
  /\ Answered(r, Answer(wt, bMerged))
  /\ UNCHANGED <<service, product, faults>>

CallMerge(r) ==
  /\ Calling(r, {"merge"}) /\ ~req[r].fetch
  /\ wt' = "merging"
  /\ Goto(r, "merging")
  /\ UNCHANGED <<bUnits, bRemoved, bMerged, product, faults>>

(* Some Units may conflict or fail: the worktree is then ready again.      *)
EndMerge(r) ==
  /\ req[r].pc = "merging" /\ wt = "merging"
  /\ \E done \in SUBSET (Content \ bMerged) :
       LET merged == bMerged \cup done
           status == IF Content \subseteq merged THEN "merged" ELSE "ready"
       IN /\ bMerged' = merged /\ wt' = status
          /\ Answered(r, Answer(status, merged))
  /\ UNCHANGED <<bUnits, bRemoved, product, faults>>

(* The service refuses a call its state does not allow.                    *)
CallRefused(r) ==
  /\ \/ req[r].pc = "call" /\ ~Serviceable(req[r])
     \/ req[r].pc = "merging" /\ wt # "merging"
  /\ LoopFree
  /\ Throw(r)
  /\ UNCHANGED <<service, row, mapped, intents, processed, tree, result, faults>>

(* A call fails for any other reason.  createUnit makes the Unit and then  *)
(* loads it, so it can also fail once the Unit exists.                     *)
CallFails(r) ==
  /\ faults < MaxFaults /\ faults' = faults + 1
  /\ \/ req[r].pc \in {"call", "merging"}
     \/ req[r].pc = "answered" /\ req[r].call.kind = "add" /\ req[r].call.of \in Local
  /\ LoopFree
  /\ Throw(r)
  /\ UNCHANGED <<service, row, mapped, intents, processed, tree, result>>

-----------------------------------------------------------------------------
(* The product writes that follow an answer.                               *)

Resuming(r, kind) ==
  req[r].pc = "answered" /\ req[r].call.kind = kind /\ LoopFree

InsertWorktree(r) ==
  /\ Resuming(r, "create")
  /\ row' = TRUE
  /\ Goto(r, "complete")
  /\ UNCHANGED <<service, mapped, intents, processed, tree, op, result, faults>>

MapUnit(r) ==
  /\ Resuming(r, "add")
  /\ mapped' = mapped \cup {req[r].call.of}
  /\ Goto(r, "complete")
  /\ UNCHANGED <<service, row, intents, processed, tree, op, result, faults>>

NotActivated == mapped \ activated
ToDiscard == (mapped \cap Local) \ activated

MarkLocalUnitsDiscarded(r) ==
  /\ Resuming(r, "discard")
  /\ discarded' = discarded \cup ToDiscard
  /\ Goto(r, "process")
  /\ UNCHANGED <<service, row, mapped, activated, processed, tree, op, result, faults>>

PublishAgain(a) == mapped \cap Local \cap a.merged
ToPublish(a) == (mapped \cap Local \cap a.merged) \ activated

(* Which stage of merge follows: publication, then the deletions of a      *)
(* merge that succeeded as a whole, then processed_at.                     *)
TrashPartial(a) == a.removed
NoDeletions(a) == {}
ToTrash(a) == IF a.status = "merged" THEN a.removed ELSE {}

ProcessPartial(a) == "process"
CompleteFirst(a) == "complete"
AfterLoops(a) == IF a.status = "merged" THEN "process" ELSE "complete"

Advance(q) ==
  LET published == IF q.pc = "activate" /\ q.todo = {}
                     THEN [q EXCEPT !.pc = "trash", !.todo = ToTrash(q.answer)]
                     ELSE q
  IN IF published.pc = "trash" /\ published.todo = {}
       THEN [published EXCEPT !.pc = AfterLoops(q.answer)]
       ELSE published

ResumeMerge(r) ==
  /\ Resuming(r, "merge")
  /\ Become(r, Advance([req[r] EXCEPT !.pc = "activate",
                                      !.todo = ToPublish(req[r].answer)]))
  /\ UNCHANGED <<service, row, mapped, intents, processed, tree, op, result, faults>>

Done(r, u) == Become(r, Advance([req[r] EXCEPT !.todo = @ \ {u}]))

(* activateLocalUnit: Node, Resource and intent in one transaction, which  *)
(* the table's CHECK aborts when the intent is already discarded.          *)
Unchecked(u) == TRUE
Publishable(u) == u \notin discarded

Activate(r) ==
  /\ req[r].pc = "activate"
  /\ \E u \in req[r].todo :
       IF Publishable(u)
         THEN /\ activated' = activated \cup {u}
              /\ node' = [node EXCEPT ![u] = IF @ \in {"none", "gone"} THEN "live" ELSE @]
              /\ Done(r, u)
              /\ UNCHANGED op
         ELSE Throw(r) /\ UNCHANGED <<activated, node>>
  /\ UNCHANGED <<service, row, mapped, discarded, processed, receipt, target,
                 result, faults>>

(* trashNodeOnce: the receipt of an earlier attempt makes it a no-op.      *)
AlwaysTrash(u) == TRUE
NotYetTrashed(u) == u \notin receipt

TrashRemoved(r) ==
  /\ req[r].pc = "trash"
  /\ \E u \in req[r].todo :
       \/ /\ u \in req[r].known \cap Local
          /\ discarded' = discarded \cup ({u} \ activated)
          /\ Done(r, u)
          /\ UNCHANGED <<receipt, node, op>>
       \/ /\ u \in req[r].known \cap Trunk
          /\ NotYetTrashed(u) => node[u] = "live"
          /\ IF NotYetTrashed(u)
               THEN receipt' = receipt \cup {u} /\ node' = [node EXCEPT ![u] = "trashed"]
               ELSE UNCHANGED <<receipt, node>>
          /\ Done(r, u)
          /\ UNCHANGED <<discarded, op>>
       \/ /\ u \notin req[r].known \/ (u \in Trunk /\ NotYetTrashed(u) /\ node[u] # "live")
          /\ Throw(r)
          /\ UNCHANGED <<discarded, receipt, node>>
  /\ UNCHANGED <<service, row, mapped, activated, processed, target, result, faults>>

MarkProcessed(r) ==
  /\ req[r].pc = "process"
  /\ processed' = TRUE
  /\ Goto(r, "complete")
  /\ UNCHANGED <<service, row, mapped, intents, tree, op, result, faults>>

Complete(r) ==
  /\ req[r].pc = "complete"
  /\ op' = [op EXCEPT ![req[r].call.of] = "completed"]
  /\ result' = [result EXCEPT ![req[r].call.of] = req[r].answer.status]
  /\ Become(r, IdleReq)
  /\ UNCHANGED <<service, row, mapped, intents, processed, tree, faults>>

-----------------------------------------------------------------------------
(* Around the worktree: users of the Node tree, and the process itself.    *)

Outside == UNCHANGED <<service, row, mapped, intents, processed, op, result, req, faults>>

TrashNode(u) ==
  /\ LoopFree /\ node[u] = "live"
  /\ node' = [node EXCEPT ![u] = "trashed"]
  /\ UNCHANGED <<receipt, target>> /\ Outside

RestoreNode(u) ==
  /\ LoopFree /\ node[u] = "trashed"
  /\ node' = [node EXCEPT ![u] = "live"]
  /\ UNCHANGED <<receipt, target>> /\ Outside

(* Permanent removal is blocked while an active worktree maps the Unit; it *)
(* deletes the Node's trash batches with it.                               *)
Referenced(u) == u \in mapped /\ ~processed

RemoveNode(u) ==
  /\ LoopFree /\ node[u] = "trashed" /\ ~Referenced(u)
  /\ node' = [node EXCEPT ![u] = "gone"]
  /\ receipt' = receipt \ {u}
  /\ UNCHANGED target /\ Outside

TurnTarget ==
  /\ LoopFree
  /\ target' = IF target = "live" THEN "trashed" ELSE "live"
  /\ UNCHANGED <<receipt, node>> /\ Outside

Crash ==
  /\ faults < MaxFaults /\ faults' = faults + 1
  /\ \E r \in Reqs : req[r].pc # "idle"
  /\ req' = [r \in Reqs |-> IdleReq]
  /\ UNCHANGED <<service, row, mapped, intents, processed, tree, op, result>>

Serve(r) ==
  \/ Admit(r) \/ Refuse(r)
  \/ CallCreate(r) \/ CallAdd(r) \/ CallSetRemoved(r) \/ CallTurn(r)
  \/ CallDiscard(r) \/ CallGet(r) \/ CallMerge(r) \/ EndMerge(r)
  \/ CallRefused(r)
  \/ InsertWorktree(r) \/ MapUnit(r) \/ MarkLocalUnitsDiscarded(r)
  \/ ResumeMerge(r) \/ Activate(r) \/ TrashRemoved(r)
  \/ MarkProcessed(r) \/ Complete(r)

Users ==
  \/ \E r \in Reqs : \/ Create(r)
                     \/ \E c \in Calls : Arrive(r, c)
                     \/ \E k \in Keys : Retry(r, k)
  \/ \E u \in Units : TrashNode(u) \/ RestoreNode(u) \/ RemoveNode(u)
  \/ TurnTarget

Next ==
  \/ \E r \in Reqs : Serve(r) \/ CallFails(r)
  \/ Users
  \/ Crash

Spec == Init /\ [][Next]_vars

-----------------------------------------------------------------------------
(* What the saga promises.                                                 *)

TypeOK ==
  /\ wt \in Statuses
  /\ bUnits \subseteq Units /\ bRemoved \subseteq Units /\ bMerged \subseteq Units
  /\ row \in BOOLEAN /\ processed \in BOOLEAN
  /\ mapped \subseteq Units
  /\ activated \subseteq Local /\ discarded \subseteq Local
  /\ receipt \subseteq Trunk
  /\ node \in [Units -> {"none", "live", "trashed", "gone"}]
  /\ target \in {"live", "trashed"}
  /\ op \in [Keys -> {"none", "pending", "failed", "completed"}]
  /\ result \in [Keys -> Statuses \cup {"none"}]
  /\ req \in [Reqs -> Requests]
  /\ faults \in 0..MaxFaults

(* A Unit made in the worktree has a Node only if its content reached the  *)
(* trunk and its intent is activated, never for a discarded intent: also   *)
(* when a discard overtakes a merge that is still writing.                 *)
PublishedOnlyIfMerged ==
  \A u \in Local : node[u] # "none" => u \in (activated \cap bMerged) \ discarded

(* processed_at never runs ahead of the collaboration service.             *)
ProcessedIsFinal == processed => wt \in {"merged", "discarded"}

(* The journal says merged or discarded only once processed_at is set, so  *)
(* a client that replays its key can rely on it after any crash.           *)
CompletedIsProcessed ==
  \A k \in Keys :
    op[k] = "completed" /\ result[k] \in {"merged", "discarded"} => processed

(* Deletions of a worktree reach the Node tree only when every Unit of it  *)
(* merged: a partial merge trashes nothing.                                *)
DeletionWaitsForMerge == receipt # {} => wt = "merged"

Settled(u) == IF u \in Local THEN u \in activated \cup discarded
                             ELSE u \in bRemoved => u \in receipt

(* A merged worktree is marked processed in no step that leaves a Unit it  *)
(* maps unsettled: unpublished, not given up, or its deletion not done.    *)
SettledWhenProcessed ==
  [][processed' /\ ~processed =>
       \A u \in mapped : IF wt = "merged" THEN Settled(u)
                          ELSE u \in Local => u \in activated \cup discarded]_vars

(* A user who restores a Node that the worktree trashed keeps it, however  *)
(* often the merge is resumed or replayed (the loop is free when users act)*)
RestorationIsKept ==
  [][\A u \in Trunk :
       u \in receipt /\ node[u] = "live" /\ node'[u] = "trashed" => LoopFree]_vars

(* A published Node that users removed for good does not come back when a  *)
(* second request finishes the same merge.                                 *)
NeverRepublished ==
  [][\A u \in Local : node[u] = "gone" => node'[u] = "gone"]_vars

(* A completed Operation stays completed although a concurrent replay of   *)
(* the same key fails.                                                     *)
CompletedStays ==
  [][\A k \in Keys : op[k] = "completed" => op'[k] = "completed"]_vars

-----------------------------------------------------------------------------
(* Fairness: the process serves the requests it has, and the client of a   *)
(* merge or discard whose outcome it does not know keeps asking under the  *)
(* same key, as the Idempotency-Key contract of the Operation Runner lets  *)
(* it.  Nothing is assumed of other users.                                 *)
Resubmit(r, k) ==
  /\ op[k] \in {"pending", "failed"}
  /\ Arrive(r, CallOf(k)) \/ Retry(r, k)

FairSpec ==
  /\ Spec
  /\ \A r \in Reqs : WF_vars(Serve(r))
  /\ \A k \in MergeKeys \cup DiscardKeys : SF_vars(\E r \in Reqs : Resubmit(r, k))

(* Once the service has merged, the product catches up, whatever crashed   *)
(* in between, if the Nodes the merge needs do not stay out of reach.      *)
MergeConverges == (<>[]TargetsHold) => (wt = "merged" ~> processed)

(* docs/application-design.md:382 - a failed Operation is queued again by  *)
(* an explicit Retry: so a discard the service has done is processed too.  *)
DiscardConverges == wt = "discarded" ~> processed

(* What the two databases amount to, read as ReviewOutcome: the status of  *)
(* the service once it is final, the intents, the receipts, processed_at   *)
(* and the outcomes that completed Operations would replay.                *)
Phase == IF wt \in {"merged", "discarded"} THEN wt ELSE "open"
Replayed == {result[k] : k \in {j \in Keys : op[j] = "completed"}}

Outcome == INSTANCE ReviewOutcome WITH
  phase <- Phase, landed <- bMerged, published <- activated,
  givenUp <- discarded, trashed <- receipt, settled <- processed,
  reported <- Replayed \cap {"merged", "discarded"}

(* However requests, replays and crashes interleave, the two databases     *)
(* together go through one review only, in the order ReviewOutcome allows. *)
ImplementsReviewOutcome == Outcome!Spec

(* docs/data-model.md:303 - an active worktree that references a Resource  *)
(* blocks its permanent removal.                                           *)
ActiveReferenceBlocksRemoval ==
  \A u \in mapped \cap Trunk : ~processed => node[u] # "gone"
=============================================================================
