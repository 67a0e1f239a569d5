-------------------------- MODULE Worktree_proofs --------------------------
(***************************************************************************)
(* What the worktree saga guarantees for every set of Units, keys and      *)
(* requests: type correctness and the invariants that relate the product   *)
(* database to the collaboration service.  IInv adds what each request in  *)
(* memory knows: its answer stays true, because a Unit that reached the    *)
(* trunk never leaves it and merged and discarded are final.  The second   *)
(* part is about the loops of merge and discard, which run between two     *)
(* awaits; the last shows that the saga implements ReviewOutcome.          *)
(***************************************************************************)
EXTENDS Worktree, TLAPS

(* What a request in memory knows of the service whose status is w and     *)
(* whose merged Units are m.                                               *)
TrueFor(q, m, w) ==
  /\ q.answer.merged \subseteq m
  /\ q.answer.status \in {"merged", "discarded"} => w = q.answer.status
  /\ q.fetch => w = "merged"

(* What its stage presupposes, p being whether processed_at is set.        *)
EarnedFor(q, p) ==
  /\ q.early => p
  /\ q.pc \in {"merging", "activate", "trash"} \/ q.fetch => q.call.kind = "merge"
  /\ q.call.kind \in {"create", "add"} => q.answer.status = "none"
  /\ q.call.kind = "merge" => q.answer.status # "discarded"
  /\ q.pc = "answered" /\ q.call.kind = "discard" => q.answer.status = "discarded"
  /\ q.pc = "activate" => q.todo \subseteq Local \cap q.answer.merged
  /\ q.pc = "trash" => q.answer.status = "merged"
  /\ q.pc = "process" => q.answer.status \in {"merged", "discarded"}
  /\ q.pc = "complete" /\ q.answer.status \in {"merged", "discarded"} => p

RequestInv ==
  \A r \in Reqs : TrueFor(req[r], bMerged, wt) /\ EarnedFor(req[r], processed)

IntentInv ==
  /\ activated \subseteq bMerged
  /\ activated \cap discarded = {}
  /\ \A u \in Local : node[u] # "none" => u \in activated

JournalInv == ProcessedIsFinal /\ CompletedIsProcessed /\ DeletionWaitsForMerge

IInv == TypeOK /\ RequestInv /\ IntentInv /\ JournalInv

LEMMA IdleIsRequest == IdleReq \in Requests
  <1>1. NoAnswer \in Answers /\ "idle" \in Stages
    BY DEF NoAnswer, Answers, Stages
  <1> QED BY <1>1 DEF IdleReq, Requests

LEMMA CallOfIsCall == \A k \in Keys : CallOf(k) \in Calls
  BY DEF CallOf, Calls, Keys

(* A step gives one request a new record and leaves the others alone.      *)
LEMMA BecomeUpdates ==
  ASSUME req \in [Reqs -> Requests], NEW r \in Reqs, NEW q \in Requests, Become(r, q)
  PROVE  /\ req' \in [Reqs -> Requests]
         /\ req'[r] = q
         /\ \A s \in Reqs \ {r} : req'[s] = req[s]
  BY DEF Become

LEMMA UnitCallNamesUnit ==
  ASSUME NEW q \in Requests, q.call.kind \in {"add", "remove", "keep"}
  PROVE  q.call.of \in Units
  BY DEF Requests, Calls, NoCall

LEMMA AnswerIsAnswer ==
  ASSUME TypeOK, NEW status \in Statuses, NEW merged \in SUBSET Units
  PROVE  Answer(status, merged) \in Answers
  BY DEF TypeOK, Answer, Answers

LEMMA UpdatesAreRequests ==
  ASSUME NEW q \in Requests, NEW pc \in Stages
  PROVE  /\ [q EXCEPT !.pc = pc] \in Requests
         /\ \A a \in Answers : [q EXCEPT !.pc = pc, !.answer = a] \in Requests
         /\ \A t \in SUBSET Units : [q EXCEPT !.pc = pc, !.todo = t] \in Requests
         /\ \A t \in SUBSET Units : [q EXCEPT !.todo = t] \in Requests
  BY DEF Requests

(* Advance moves the stage and refills the loop, and touches nothing else. *)
LEMMA AdvanceIsRequest ==
  ASSUME NEW q \in Requests
  PROVE  Advance(q) \in Requests
  <1> DEFINE p == IF q.pc = "activate" /\ q.todo = {}
                    THEN [q EXCEPT !.pc = "trash", !.todo = ToTrash(q.answer)]
                    ELSE q
  <1>1. /\ AfterLoops(q.answer) \in Stages /\ "trash" \in Stages
        /\ ToTrash(q.answer) \in SUBSET Units
    BY DEF AfterLoops, ToTrash, Requests, Answers, Stages, Synchronous
  <1>2. p \in Requests
    BY <1>1, UpdatesAreRequests
  <1> QED BY <1>1, <1>2, UpdatesAreRequests DEF Advance

LEMMA InitTypeOK == Init => TypeOK
  <1> SUFFICES ASSUME Init PROVE TypeOK
    OBVIOUS
  <1>1. req \in [Reqs -> Requests]
    BY IdleIsRequest DEF Init
  <1>2. row \in BOOLEAN /\ processed \in BOOLEAN
    BY DEF Init
  <1>3. faults \in 0..MaxFaults
    BY FaultsAreBounded DEF Init
  <1>4. node \in [Units -> {"none", "live", "trashed", "gone"}]
    BY DEF Init
  <1>5. /\ op \in [Keys -> {"none", "pending", "failed", "completed"}]
        /\ result \in [Keys -> Statuses \cup {"none"}]
    BY DEF Init
  <1> QED BY <1>1, <1>2, <1>3, <1>4, <1>5 DEF Init, TypeOK, Statuses

(* Every step keeps the types.  Under each action: the new record of the   *)
(* request it serves, then the rest of the state.                          *)
LEMMA NextTypeOK == TypeOK /\ RequestInv /\ [Next]_vars => TypeOK'
  <1> SUFFICES ASSUME TypeOK, RequestInv, [Next]_vars PROVE TypeOK'
    OBVIOUS
  <1>0. req \in [Reqs -> Requests] /\ \A r \in Reqs : req[r] \in Requests
    BY DEF TypeOK
  <1>1. ASSUME NEW r \in Reqs, Create(r) PROVE TypeOK'
    <2> DEFINE q == [IdleReq EXCEPT !.call = CallOf("create"), !.retry = FALSE, !.early = processed, !.pc = IF CallOf("create").kind = "create" THEN "call" ELSE "context"]
    <2>1. q \in Requests
      BY IdleIsRequest, CallOfIsCall DEF Requests, Stages, Keys, TypeOK
    <2>2. req' \in [Reqs -> Requests]
      BY <1>0, <1>1, <2>1, BecomeUpdates DEF Create, Start
    <2> QED BY <1>1, <2>2
         DEF Create, Start, Reserved, TypeOK, Statuses, service, tree, intents, product
  <1>2. ASSUME NEW r \in Reqs, NEW c \in Calls, Arrive(r, c) PROVE TypeOK'
    <2> DEFINE q == [IdleReq EXCEPT !.call = c, !.retry = FALSE, !.early = processed, !.pc = IF c.kind = "create" THEN "call" ELSE "context"]
    <2>1. q \in Requests
      BY IdleIsRequest DEF Requests, Stages, TypeOK
    <2>2. req' \in [Reqs -> Requests]
      BY <1>0, <1>2, <2>1, BecomeUpdates DEF Arrive, Start
    <2> QED BY <1>2, <2>2 DEF Arrive, Start, TypeOK, Statuses, service, tree, intents, product
  <1>3. ASSUME NEW r \in Reqs, NEW k \in Keys, Retry(r, k) PROVE TypeOK'
    <2> DEFINE q == [IdleReq EXCEPT !.call = CallOf(k), !.retry = TRUE, !.early = processed, !.pc = IF CallOf(k).kind = "create" THEN "call" ELSE "context"]
    <2>1. q \in Requests
      BY IdleIsRequest, CallOfIsCall DEF Requests, Stages, TypeOK
    <2>2. req' \in [Reqs -> Requests]
      BY <1>0, <1>3, <2>1, BecomeUpdates DEF Retry, Start
    <2> QED BY <1>3, <2>2 DEF Retry, Start, TypeOK, Statuses, service, tree, intents, product
  <1>4. ASSUME NEW r \in Reqs, Admit(r) PROVE TypeOK'
    <2> DEFINE resumed == req[r].call.kind = "merge" /\ wt = "merged"
               next == [req[r] EXCEPT !.pc = "call", !.known = Known, !.fetch = resumed]
               done == [next EXCEPT !.pc = "complete", !.answer = Resumed]
    <2>1. next \in Requests
      BY <1>0 DEF Known, Requests, Stages, TypeOK
    <2>2. Resumed \in Answers /\ "complete" \in Stages
      BY DEF Resumed, NoAnswer, Answers, Statuses, Stages, Synchronous
    <2>3. done \in Requests
      BY <2>1, <2>2, UpdatesAreRequests
    <2>4. PICK q \in {IdleReq, next, done} : Become(r, q)
      BY <1>4 DEF Admit
    <2>5. req' \in [Reqs -> Requests]
      BY <1>0, <2>1, <2>3, <2>4, IdleIsRequest, BecomeUpdates
    <2> QED BY <1>4, <2>5 DEF Admit, Reserved, TypeOK, service, tree, intents
  <1>5. ASSUME NEW r \in Reqs, Refuse(r) PROVE TypeOK'
    <2> DEFINE q == IdleReq
    <2>1. q \in Requests
      BY IdleIsRequest
    <2>2. req' \in [Reqs -> Requests]
      BY <1>0, <1>5, <2>1, BecomeUpdates DEF Refuse
    <2> QED BY <1>5, <2>2 DEF Refuse, Failed, TypeOK, Statuses, service, tree, intents, product
  <1>6. ASSUME NEW r \in Reqs, CallCreate(r) PROVE TypeOK'
    <2> DEFINE q == [req[r] EXCEPT !.pc = "answered", !.answer = NoAnswer]
    <2>1. q \in Requests
      BY <1>0, UpdatesAreRequests DEF NoAnswer, Answers, Stages, Statuses
    <2>2. req' \in [Reqs -> Requests]
      BY <1>0, <1>6, <2>1, BecomeUpdates DEF CallCreate, Answered
    <2> QED BY <1>6, <2>2
         DEF CallCreate, Calling, TypeOK, Statuses, service, tree, intents, product
  <1>7. ASSUME NEW r \in Reqs, CallAdd(r) PROVE TypeOK'
    <2> DEFINE q == [req[r] EXCEPT !.pc = "answered", !.answer = NoAnswer]
    <2>1. q \in Requests
      BY <1>0, UpdatesAreRequests DEF NoAnswer, Answers, Stages, Statuses
    <2>2. req' \in [Reqs -> Requests]
      BY <1>0, <1>7, <2>1, BecomeUpdates DEF CallAdd, Answered
    <2>3. req[r].call.of \in Units
      BY <1>0, <1>7, UnitCallNamesUnit DEF CallAdd, Calling, Resuming
    <2> QED BY <1>7, <2>2, <2>3
         DEF CallAdd, Calling, TypeOK, Statuses, service, tree, intents, product
  <1>8. ASSUME NEW r \in Reqs, CallSetRemoved(r) PROVE TypeOK'
    <2> DEFINE q == IdleReq
    <2>1. q \in Requests
      BY IdleIsRequest
    <2>2. req' \in [Reqs -> Requests]
      BY <1>0, <1>8, <2>1, BecomeUpdates DEF CallSetRemoved
    <2>3. req[r].call.of \in Units
      BY <1>0, <1>8, UnitCallNamesUnit DEF CallSetRemoved, Calling, Resuming
    <2> QED BY <1>8, <2>2, <2>3
         DEF CallSetRemoved, Calling, TypeOK, Statuses, service, tree, intents, product
  <1>9. ASSUME NEW r \in Reqs, CallTurn(r) PROVE TypeOK'
    <2> DEFINE q == IdleReq
    <2>1. q \in Requests
      BY IdleIsRequest
    <2>2. req' \in [Reqs -> Requests]
      BY <1>0, <1>9, <2>1, BecomeUpdates DEF CallTurn
    <2> QED BY <1>9, <2>2 DEF CallTurn, TypeOK, Statuses, service, tree, intents, product
  <1>10. ASSUME NEW r \in Reqs, CallDiscard(r) PROVE TypeOK'
    <2> DEFINE q == [req[r] EXCEPT !.pc = "answered", !.answer = Answer("discarded", bMerged)]
    <2>1. q \in Requests
      BY <1>0, AnswerIsAnswer, UpdatesAreRequests DEF Stages, Statuses, TypeOK
    <2>2. req' \in [Reqs -> Requests]
      BY <1>0, <1>10, <2>1, BecomeUpdates DEF CallDiscard, Answered
    <2> QED BY <1>10, <2>2 DEF CallDiscard, TypeOK, Statuses, service, tree, intents, product
  <1>11. ASSUME NEW r \in Reqs, CallGet(r) PROVE TypeOK'
    <2> DEFINE q == [req[r] EXCEPT !.pc = "answered", !.answer = Answer(wt, bMerged)]
    <2>1. q \in Requests
      BY <1>0, AnswerIsAnswer, UpdatesAreRequests DEF Stages, TypeOK
    <2>2. req' \in [Reqs -> Requests]
      BY <1>0, <1>11, <2>1, BecomeUpdates DEF CallGet, Answered
    <2> QED BY <1>11, <2>2 DEF CallGet, TypeOK, Statuses, service, tree, intents, product
  <1>12. ASSUME NEW r \in Reqs, CallMerge(r) PROVE TypeOK'
    <2> DEFINE q == [req[r] EXCEPT !.pc = "merging"]
    <2>1. q \in Requests
      BY <1>0, UpdatesAreRequests DEF Stages
    <2>2. req' \in [Reqs -> Requests]
      BY <1>0, <1>12, <2>1, BecomeUpdates DEF CallMerge, Goto
    <2> QED BY <1>12, <2>2 DEF CallMerge, TypeOK, Statuses, service, tree, intents, product
  <1>13. ASSUME NEW r \in Reqs, EndMerge(r) PROVE TypeOK'
    <2>1. PICK done \in SUBSET (Content \ bMerged) :
            LET merged == bMerged \cup done
                status == IF Content \subseteq merged THEN "merged" ELSE "ready"
            IN /\ bMerged' = merged /\ wt' = status
               /\ Answered(r, Answer(status, merged))
      BY <1>13 DEF EndMerge
    <2> DEFINE merged == bMerged \cup done
               status == IF Content \subseteq merged THEN "merged" ELSE "ready"
               q == [req[r] EXCEPT !.pc = "answered", !.answer = Answer(status, merged)]
    <2>2. merged \in SUBSET Units /\ status \in Statuses
      BY DEF TypeOK, Content, Statuses
    <2>3. q \in Requests
      BY <1>0, <2>2, AnswerIsAnswer, UpdatesAreRequests DEF Stages
    <2>4. req' \in [Reqs -> Requests]
      BY <1>0, <2>1, <2>3, BecomeUpdates DEF Answered
    <2> QED BY <1>13, <2>1, <2>2, <2>4 DEF EndMerge, TypeOK, service, tree, intents, product
  <1>14. ASSUME NEW r \in Reqs, CallRefused(r) PROVE TypeOK'
    <2> DEFINE q == IdleReq
    <2>1. q \in Requests
      BY IdleIsRequest
    <2>2. req' \in [Reqs -> Requests]
      BY <1>0, <1>14, <2>1, BecomeUpdates DEF CallRefused, Throw
    <2> QED BY <1>14, <2>2
         DEF CallRefused, Throw, Failed, TypeOK, Statuses, service, tree, intents, product
  <1>15. ASSUME NEW r \in Reqs, CallFails(r) PROVE TypeOK'
    <2> DEFINE q == IdleReq
    <2>1. q \in Requests
      BY IdleIsRequest
    <2>2. req' \in [Reqs -> Requests]
      BY <1>0, <1>15, <2>1, BecomeUpdates DEF CallFails, Throw
    <2>3. faults' \in 0..MaxFaults
      BY <1>15, FaultsAreBounded DEF CallFails, TypeOK
    <2> QED BY <1>15, <2>2, <2>3
         DEF CallFails, Throw, Failed, TypeOK, Statuses, service, tree, intents, product
  <1>16. ASSUME NEW r \in Reqs, InsertWorktree(r) PROVE TypeOK'
    <2> DEFINE q == [req[r] EXCEPT !.pc = "complete"]
    <2>1. q \in Requests
      BY <1>0, UpdatesAreRequests DEF Stages, Synchronous
    <2>2. req' \in [Reqs -> Requests]
      BY <1>0, <1>16, <2>1, BecomeUpdates DEF InsertWorktree, Goto
    <2> QED BY <1>16, <2>2
         DEF InsertWorktree, Resuming, TypeOK, Statuses, service, tree, intents, product
  <1>17. ASSUME NEW r \in Reqs, MapUnit(r) PROVE TypeOK'
    <2> DEFINE q == [req[r] EXCEPT !.pc = "complete"]
    <2>1. q \in Requests
      BY <1>0, UpdatesAreRequests DEF Stages, Synchronous
    <2>2. req' \in [Reqs -> Requests]
      BY <1>0, <1>17, <2>1, BecomeUpdates DEF MapUnit, Goto
    <2>3. req[r].call.of \in Units
      BY <1>0, <1>17, UnitCallNamesUnit DEF MapUnit, Calling, Resuming
    <2> QED BY <1>17, <2>2, <2>3
         DEF MapUnit, Resuming, TypeOK, Statuses, service, tree, intents, product
  <1>18. ASSUME NEW r \in Reqs, MarkLocalUnitsDiscarded(r) PROVE TypeOK'
    <2> DEFINE q == [req[r] EXCEPT !.pc = "process"]
    <2>1. q \in Requests
      BY <1>0, UpdatesAreRequests DEF Stages, Synchronous
    <2>2. req' \in [Reqs -> Requests]
      BY <1>0, <1>18, <2>1, BecomeUpdates DEF MarkLocalUnitsDiscarded, Goto
    <2> QED BY <1>18, <2>2
         DEF MarkLocalUnitsDiscarded, ToDiscard, TypeOK, Statuses, service, tree, intents, product
  <1>19. ASSUME NEW r \in Reqs, ResumeMerge(r) PROVE TypeOK'
    <2> DEFINE q == Advance([req[r] EXCEPT !.pc = "activate", !.todo = ToPublish(req[r].answer)])
    <2>1. q \in Requests
      BY <1>0, UpdatesAreRequests, AdvanceIsRequest
         DEF ToPublish, Stages, Synchronous, TypeOK, Units
    <2>2. req' \in [Reqs -> Requests]
      BY <1>0, <1>19, <2>1, BecomeUpdates DEF ResumeMerge
    <2> QED BY <1>19, <2>2 DEF ResumeMerge, TypeOK, Statuses, service, tree, intents, product
  <1>20. ASSUME NEW r \in Reqs, Activate(r) PROVE TypeOK'
    <2>0. req[r].todo \subseteq Local
      BY <1>20 DEF Activate, RequestInv, EarnedFor
    <2>1. PICK u \in req[r].todo : Done(r, u) \/ Throw(r)
      BY <1>20 DEF Activate
    <2>4. req[r].todo \ {u} \in SUBSET Units /\ req[r].pc \in Stages
      BY <1>0 DEF Requests
    <2>2. Advance([req[r] EXCEPT !.todo = req[r].todo \ {u}]) \in Requests
      BY <1>0, <2>4, UpdatesAreRequests, AdvanceIsRequest
    <2>3. req' \in [Reqs -> Requests]
      BY <1>0, <2>1, <2>2, IdleIsRequest, BecomeUpdates DEF Done, Throw
    <2> QED BY <1>20, <2>0, <2>3
         DEF Activate, Throw, Failed, TypeOK, Units, service, tree, intents
  <1>21. ASSUME NEW r \in Reqs, TrashRemoved(r) PROVE TypeOK'
    <2>1. PICK u \in req[r].todo : Done(r, u) \/ Throw(r)
      BY <1>21 DEF TrashRemoved
    <2>4. req[r].todo \ {u} \in SUBSET Units /\ req[r].pc \in Stages
      BY <1>0 DEF Requests
    <2>2. Advance([req[r] EXCEPT !.todo = req[r].todo \ {u}]) \in Requests
      BY <1>0, <2>4, UpdatesAreRequests, AdvanceIsRequest
    <2>3. req' \in [Reqs -> Requests]
      BY <1>0, <2>1, <2>2, IdleIsRequest, BecomeUpdates DEF Done, Throw
    <2> QED BY <1>21, <2>3
         DEF TrashRemoved, Throw, Failed, TypeOK, service, tree, intents, Requests
  <1>22. ASSUME NEW r \in Reqs, MarkProcessed(r) PROVE TypeOK'
    <2> DEFINE q == [req[r] EXCEPT !.pc = "complete"]
    <2>1. q \in Requests
      BY <1>0, UpdatesAreRequests DEF Stages, Synchronous
    <2>2. req' \in [Reqs -> Requests]
      BY <1>0, <1>22, <2>1, BecomeUpdates DEF MarkProcessed, Goto
    <2> QED BY <1>22, <2>2 DEF MarkProcessed, TypeOK, Statuses, service, tree, intents, product
  <1>23. ASSUME NEW r \in Reqs, Complete(r) PROVE TypeOK'
    <2> DEFINE q == IdleReq
    <2>1. q \in Requests
      BY IdleIsRequest
    <2>2. req' \in [Reqs -> Requests]
      BY <1>0, <1>23, <2>1, BecomeUpdates DEF Complete
    <2> QED BY <1>23, <2>2
         DEF Complete, Requests, Answers, TypeOK, Statuses, service, tree, intents, product
  <1>24. ASSUME NEW u \in Units, TrashNode(u) \/ RestoreNode(u) \/ RemoveNode(u) PROVE TypeOK'
    BY <1>24, IdleIsRequest
       DEF TrashNode, RestoreNode, RemoveNode, Outside, TypeOK, service, tree, intents, product
  <1>25. ASSUME TurnTarget PROVE TypeOK'
    BY <1>25, IdleIsRequest DEF TurnTarget, Outside, TypeOK, service, tree, intents, product
  <1>26. ASSUME UNCHANGED vars PROVE TypeOK'
    BY <1>26, IdleIsRequest DEF vars, TypeOK, service, tree, intents, product
  <1>27. ASSUME Crash PROVE TypeOK'
    <2>1. faults' \in 0..MaxFaults
      BY <1>27, FaultsAreBounded DEF Crash, TypeOK
    <2>2. req' \in [Reqs -> Requests]
      BY <1>27, IdleIsRequest DEF Crash
    <2> QED BY <1>27, <2>1, <2>2 DEF Crash, TypeOK, service, tree, intents
  <1> QED BY <1>1, <1>2, <1>3, <1>4, <1>5, <1>6, <1>7, <1>8, <1>9, <1>10, <1>11, <1>12, <1>13,
       <1>14, <1>15, <1>16, <1>17, <1>18, <1>19, <1>20, <1>21, <1>22, <1>23, <1>24, <1>25, <1>26,
       <1>27 DEF Next, Serve, Users

(* What happened in either database is not undone: merged and discarded    *)
(* are final, a merged Unit stays merged, processed_at stays set.          *)
Grows ==
  /\ wt \in {"merged", "discarded"} => wt' = wt
  /\ bMerged \subseteq bMerged'
  /\ processed => processed'

LEMMA NextGrows == TypeOK /\ [Next]_vars => Grows
  <1> SUFFICES ASSUME TypeOK, [Next]_vars PROVE Grows
    OBVIOUS
  <1> USE DEF Grows, service, product, tree, intents
  <1>1. ASSUME NEW r \in Reqs, InsertWorktree(r) \/ MapUnit(r) PROVE Grows
    BY <1>1 DEF InsertWorktree, MapUnit
  <1>2. ASSUME NEW r \in Reqs, Create(r) PROVE Grows
    BY <1>2 DEF Create
  <1>3. ASSUME NEW r \in Reqs, Refuse(r) PROVE Grows
    BY <1>3 DEF Refuse
  <1>4. ASSUME NEW r \in Reqs, Admit(r) PROVE Grows
    BY <1>4 DEF Admit
  <1>5. ASSUME NEW r \in Reqs, NEW c \in Calls, Arrive(r, c) PROVE Grows
    BY <1>5 DEF Arrive
  <1>6. ASSUME NEW r \in Reqs, NEW k \in Keys, Retry(r, k) PROVE Grows
    BY <1>6 DEF Retry
  <1>7. ASSUME NEW r \in Reqs, CallCreate(r) \/ CallAdd(r) \/ CallSetRemoved(r) \/ CallGet(r) PROVE Grows
    BY <1>7 DEF CallCreate, CallAdd, CallSetRemoved, CallGet
  <1>8. ASSUME NEW r \in Reqs, CallTurn(r) PROVE Grows
    BY <1>8 DEF CallTurn, Calling, Serviceable
  <1>9. ASSUME NEW r \in Reqs, CallDiscard(r) PROVE Grows
    BY <1>9 DEF CallDiscard, Calling, Serviceable
  <1>10. ASSUME NEW r \in Reqs, CallMerge(r) PROVE Grows
    BY <1>10 DEF CallMerge, Calling, Serviceable
  <1>11. ASSUME NEW r \in Reqs, EndMerge(r) PROVE Grows
    BY <1>11 DEF EndMerge
  <1>12. ASSUME NEW r \in Reqs, CallRefused(r) \/ CallFails(r) PROVE Grows
    BY <1>12 DEF CallRefused, CallFails
  <1>13. ASSUME NEW r \in Reqs, MarkLocalUnitsDiscarded(r) \/ ResumeMerge(r) PROVE Grows
    BY <1>13 DEF MarkLocalUnitsDiscarded, ResumeMerge
  <1>14. ASSUME NEW r \in Reqs, Activate(r) \/ TrashRemoved(r) PROVE Grows
    BY <1>14 DEF Activate, TrashRemoved
  <1>15. ASSUME NEW r \in Reqs, MarkProcessed(r) \/ Complete(r) PROVE Grows
    BY <1>15 DEF MarkProcessed, Complete
  <1>16. ASSUME NEW u \in Units, TrashNode(u) \/ RestoreNode(u) \/ RemoveNode(u) PROVE Grows
    BY <1>16 DEF TrashNode, RestoreNode, RemoveNode, Outside
  <1>17. ASSUME TurnTarget \/ Crash PROVE Grows
    BY <1>17 DEF TurnTarget, Outside, Crash
  <1>18. ASSUME UNCHANGED vars PROVE Grows
    BY <1>18 DEF vars
  <1> QED BY <1>1, <1>2, <1>3, <1>4, <1>5, <1>6, <1>7, <1>8, <1>9, <1>10, <1>11, <1>12, <1>13,
       <1>14, <1>15, <1>16, <1>17, <1>18 DEF Next, Serve, Users

(* Growth keeps what the other requests know; the step answers for its own.*)
LEMMA OthersKeepTruth ==
  ASSUME TypeOK, RequestInv, Grows,
         NEW r \in Reqs, NEW q \in Requests, Become(r, q),
         TrueFor(q, bMerged', wt'), EarnedFor(q, processed')
  PROVE  RequestInv'
  <1>1. req'[r] = q /\ \A s \in Reqs \ {r} : req'[s] = req[s]
    BY BecomeUpdates DEF TypeOK
  <1>2. ASSUME NEW s \in Reqs \ {r}
        PROVE  TrueFor(req[s], bMerged', wt') /\ EarnedFor(req[s], processed')
    <2>1. TrueFor(req[s], bMerged, wt) /\ EarnedFor(req[s], processed)
      BY DEF RequestInv
    <2>2. TrueFor(req[s], bMerged', wt')
      BY <2>1 DEF TrueFor, Grows
    <2>3. EarnedFor(req[s], processed')
      BY <2>1 DEF EarnedFor, Grows
    <2> QED BY <2>2, <2>3
  <1> QED BY <1>1, <1>2 DEF RequestInv

LEMMA IdleKnowsNothing ==
  ASSUME NEW m, NEW w, NEW p
  PROVE  TrueFor(IdleReq, m, w) /\ EarnedFor(IdleReq, p)
  BY DEF TrueFor, EarnedFor, IdleReq, NoAnswer, NoCall

(* The loops of merge start with what the answer says, and leave for       *)
(* processed_at only after a merge of every Unit.                          *)
LEMMA AdvanceIsEarned ==
  ASSUME NEW q \in Requests, NEW m, NEW w, NEW p,
         TrueFor(q, m, w), EarnedFor(q, p), q.pc \in {"activate", "trash"}
  PROVE  TrueFor(Advance(q), m, w) /\ EarnedFor(Advance(q), p)
  <1>1. CASE q.todo # {}
    BY <1>1 DEF Advance, Requests
  <1>2. CASE q.todo = {} /\ q.pc = "activate" /\ ToTrash(q.answer) # {}
    <2>1. Advance(q) = [q EXCEPT !.pc = "trash", !.todo = ToTrash(q.answer)]
      BY <1>2 DEF Advance, Requests
    <2>2. q.answer.status = "merged"
      BY <1>2 DEF ToTrash
    <2> QED BY <1>2, <2>1, <2>2 DEF TrueFor, EarnedFor, Requests
  <1>3. CASE q.todo = {} /\ (q.pc = "activate" => ToTrash(q.answer) = {})
    <2>1. /\ Advance(q).pc = AfterLoops(q.answer)
          /\ Advance(q).answer = q.answer /\ Advance(q).call = q.call
          /\ Advance(q).early = q.early /\ Advance(q).fetch = q.fetch
      BY <1>3 DEF Advance, Requests
    <2>2. q.call.kind = "merge"
      BY DEF EarnedFor
    <2> QED BY <2>1, <2>2 DEF TrueFor, EarnedFor, AfterLoops
  <1> QED BY <1>1, <1>2, <1>3

LEMMA NextRequestInv == TypeOK /\ RequestInv /\ [Next]_vars => RequestInv'
  <1> SUFFICES ASSUME TypeOK, RequestInv, [Next]_vars PROVE RequestInv'
    OBVIOUS
  <1>0. /\ Grows
        /\ req \in [Reqs -> Requests]
        /\ \A r \in Reqs : /\ req[r] \in Requests
                            /\ TrueFor(req[r], bMerged, wt)
                            /\ EarnedFor(req[r], processed)
    BY NextGrows DEF TypeOK, RequestInv
  <1>1. ASSUME NEW r \in Reqs, Create(r) PROVE RequestInv'
    <2> DEFINE q == [IdleReq EXCEPT !.call = CallOf("create"), !.retry = FALSE, !.early = processed,
                          !.pc = IF CallOf("create").kind = "create" THEN "call" ELSE "context"]
    <2>1. q \in Requests
      BY IdleIsRequest, CallOfIsCall DEF Requests, Stages, TypeOK, Keys
    <2>2. TrueFor(q, bMerged', wt')
      BY DEF TrueFor, IdleReq, NoAnswer
    <2>3. EarnedFor(q, processed')
      BY <1>0, <1>1 DEF EarnedFor, IdleReq, NoAnswer, Create, Grows
    <2> QED BY <1>0, <1>1, <2>1, <2>2, <2>3, OthersKeepTruth DEF Create, Start
  <1>2. ASSUME NEW r \in Reqs, NEW c \in Calls, Arrive(r, c) PROVE RequestInv'
    <2> DEFINE q == [IdleReq EXCEPT !.call = c, !.retry = FALSE, !.early = processed,
                          !.pc = IF c.kind = "create" THEN "call" ELSE "context"]
    <2>1. q \in Requests
      BY IdleIsRequest DEF Requests, Stages, TypeOK, Keys
    <2>2. TrueFor(q, bMerged', wt')
      BY DEF TrueFor, IdleReq, NoAnswer
    <2>3. EarnedFor(q, processed')
      BY <1>0, <1>2 DEF EarnedFor, IdleReq, NoAnswer, Arrive, Grows
    <2> QED BY <1>0, <1>2, <2>1, <2>2, <2>3, OthersKeepTruth DEF Arrive, Start
  <1>3. ASSUME NEW r \in Reqs, NEW k \in Keys, Retry(r, k) PROVE RequestInv'
    <2> DEFINE q == [IdleReq EXCEPT !.call = CallOf(k), !.retry = TRUE, !.early = processed,
                          !.pc = IF CallOf(k).kind = "create" THEN "call" ELSE "context"]
    <2>1. q \in Requests
      BY IdleIsRequest, CallOfIsCall DEF Requests, Stages, TypeOK, Keys
    <2>2. TrueFor(q, bMerged', wt')
      BY DEF TrueFor, IdleReq, NoAnswer
    <2>3. EarnedFor(q, processed')
      BY <1>0, <1>3 DEF EarnedFor, IdleReq, NoAnswer, Retry, Grows
    <2> QED BY <1>0, <1>3, <2>1, <2>2, <2>3, OthersKeepTruth DEF Retry, Start
  <1>4. ASSUME NEW r \in Reqs, Admit(r) PROVE RequestInv'
    <2> DEFINE resumed == req[r].call.kind = "merge" /\ wt = "merged"
               next == [req[r] EXCEPT !.pc = "call", !.known = Known, !.fetch = resumed]
               done == [next EXCEPT !.pc = "complete", !.answer = Resumed]
    <2>1. next \in Requests
      BY <1>0 DEF Known, Requests, Stages, TypeOK
    <2>2. Resumed \in Answers /\ "complete" \in Stages
      BY DEF Resumed, NoAnswer, Answers, Statuses, Stages, Synchronous
    <2>3. done \in Requests
      BY <2>1, <2>2, UpdatesAreRequests
    <2>4. bMerged' = bMerged /\ wt' = wt /\ processed' = processed
      BY <1>4 DEF Admit, service
    <2>5. TrueFor(next, bMerged', wt') /\ EarnedFor(next, processed')
      BY <1>0, <2>4 DEF TrueFor, EarnedFor, Requests
    <2>6. ASSUME req[r].early, resumed
          PROVE  TrueFor(done, bMerged', wt') /\ EarnedFor(done, processed')
      BY <1>0, <2>4, <2>6 DEF TrueFor, EarnedFor, Requests, Resumed, NoAnswer
    <2>7. \/ Become(r, IdleReq) \/ Become(r, next)
          \/ req[r].early /\ resumed /\ Become(r, done)
      BY <1>4 DEF Admit
    <2> QED BY <1>0, <2>1, <2>3, <2>5, <2>6, <2>7, IdleIsRequest, IdleKnowsNothing,
               OthersKeepTruth
  <1>5. ASSUME NEW r \in Reqs, Refuse(r) PROVE RequestInv'
    BY <1>0, <1>5, IdleIsRequest, IdleKnowsNothing, OthersKeepTruth DEF Refuse
  <1>6. ASSUME NEW r \in Reqs, CallCreate(r) PROVE RequestInv'
    <2> DEFINE q == [req[r] EXCEPT !.pc = "answered", !.answer = NoAnswer]
    <2>1. q \in Requests
      BY <1>0, UpdatesAreRequests DEF NoAnswer, Answers, Stages, Statuses
    <2>2. TrueFor(q, bMerged', wt')
      BY <1>0, <1>6 DEF CallCreate, Calling, NoAnswer, Serviceable, TrueFor, Requests, service
    <2>3. EarnedFor(q, processed')
      BY <1>0, <1>6 DEF CallCreate, Calling, NoAnswer, Serviceable, EarnedFor, TrueFor, Requests,
         Grows, product
    <2> QED BY <1>0, <1>6, <2>1, <2>2, <2>3, OthersKeepTruth DEF CallCreate, Answered
  <1>7. ASSUME NEW r \in Reqs, CallAdd(r) PROVE RequestInv'
    <2> DEFINE q == [req[r] EXCEPT !.pc = "answered", !.answer = NoAnswer]
    <2>1. q \in Requests
      BY <1>0, UpdatesAreRequests DEF NoAnswer, Answers, Stages, Statuses
    <2>2. TrueFor(q, bMerged', wt')
      BY <1>0, <1>7 DEF CallAdd, Calling, NoAnswer, TrueFor, Requests, service
    <2>3. EarnedFor(q, processed')
      BY <1>0, <1>7 DEF CallAdd, Calling, NoAnswer, EarnedFor, TrueFor, Requests, Grows, product
    <2> QED BY <1>0, <1>7, <2>1, <2>2, <2>3, OthersKeepTruth DEF CallAdd, Answered
  <1>8. ASSUME NEW r \in Reqs, CallSetRemoved(r) PROVE RequestInv'
    BY <1>0, <1>8, IdleIsRequest, IdleKnowsNothing, OthersKeepTruth DEF CallSetRemoved
  <1>9. ASSUME NEW r \in Reqs, CallTurn(r) PROVE RequestInv'
    BY <1>0, <1>9, IdleIsRequest, IdleKnowsNothing, OthersKeepTruth DEF CallTurn
  <1>10. ASSUME NEW r \in Reqs, CallDiscard(r) PROVE RequestInv'
    <2> DEFINE q == [req[r] EXCEPT !.pc = "answered", !.answer = Answer("discarded", bMerged)]
    <2>1. q \in Requests
      BY <1>0, AnswerIsAnswer, UpdatesAreRequests DEF Stages, Statuses, TypeOK
    <2>2. TrueFor(q, bMerged', wt')
      BY <1>0, <1>10 DEF CallDiscard, Calling, Answer, TrueFor, EarnedFor, Requests, service
    <2>3. EarnedFor(q, processed')
      BY <1>0, <1>10 DEF CallDiscard, Calling, Answer, EarnedFor, TrueFor, Requests, Grows,
         product
    <2> QED BY <1>0, <1>10, <2>1, <2>2, <2>3, OthersKeepTruth DEF CallDiscard, Answered
  <1>11. ASSUME NEW r \in Reqs, CallGet(r) PROVE RequestInv'
    <2> DEFINE q == [req[r] EXCEPT !.pc = "answered", !.answer = Answer(wt, bMerged)]
    <2>1. q \in Requests
      BY <1>0, AnswerIsAnswer, UpdatesAreRequests DEF Stages, Statuses, TypeOK
    <2>2. TrueFor(q, bMerged', wt')
      BY <1>0, <1>11 DEF CallGet, Calling, Answer, TrueFor, Requests, service
    <2>3. EarnedFor(q, processed')
      BY <1>0, <1>11 DEF CallGet, Calling, Answer, EarnedFor, TrueFor, Requests, Grows, product
    <2> QED BY <1>0, <1>11, <2>1, <2>2, <2>3, OthersKeepTruth DEF CallGet, Answered
  <1>12. ASSUME NEW r \in Reqs, CallMerge(r) PROVE RequestInv'
    <2> DEFINE q == [req[r] EXCEPT !.pc = "merging"]
    <2>1. q \in Requests
      BY <1>0, UpdatesAreRequests DEF Stages
    <2>2. TrueFor(q, bMerged', wt')
      BY <1>0, <1>12 DEF CallMerge, Calling, Serviceable, TrueFor, Requests
    <2>3. EarnedFor(q, processed')
      BY <1>0, <1>12 DEF CallMerge, Calling, EarnedFor, Requests, product
    <2> QED BY <1>0, <1>12, <2>1, <2>2, <2>3, OthersKeepTruth DEF CallMerge, Goto
  <1>13. ASSUME NEW r \in Reqs, EndMerge(r) PROVE RequestInv'
    <2>1. PICK done \in SUBSET (Content \ bMerged) :
            LET merged == bMerged \cup done
                status == IF Content \subseteq merged THEN "merged" ELSE "ready"
            IN /\ bMerged' = merged /\ wt' = status
               /\ Answered(r, Answer(status, merged))
      BY <1>13 DEF EndMerge
    <2> DEFINE merged == bMerged \cup done
               status == IF Content \subseteq merged THEN "merged" ELSE "ready"
               q == [req[r] EXCEPT !.pc = "answered", !.answer = Answer(status, merged)]
    <2>2. merged \in SUBSET Units /\ status \in Statuses
      BY DEF TypeOK, Content, Statuses
    <2>3. q \in Requests
      BY <1>0, <2>2, AnswerIsAnswer, UpdatesAreRequests DEF Stages
    <2>4. req[r].pc = "merging" /\ wt = "merging" /\ processed' = processed
      BY <1>13 DEF EndMerge, product
    <2>5. TrueFor(q, bMerged', wt')
      BY <1>0, <2>1, <2>4 DEF TrueFor, Answer, Requests
    <2>6. EarnedFor(q, processed')
      BY <1>0, <2>4 DEF EarnedFor, Answer, Requests
    <2>7. Become(r, q)
      BY <2>1 DEF Answered
    <2> QED BY <1>0, <2>3, <2>5, <2>6, <2>7, OthersKeepTruth
  <1>14. ASSUME NEW r \in Reqs, CallRefused(r) PROVE RequestInv'
    BY <1>0, <1>14, IdleIsRequest, IdleKnowsNothing, OthersKeepTruth DEF CallRefused, Throw
  <1>15. ASSUME NEW r \in Reqs, CallFails(r) PROVE RequestInv'
    BY <1>0, <1>15, IdleIsRequest, IdleKnowsNothing, OthersKeepTruth DEF CallFails, Throw
  <1>16. ASSUME NEW r \in Reqs, InsertWorktree(r) PROVE RequestInv'
    <2> DEFINE q == [req[r] EXCEPT !.pc = "complete"]
    <2>1. q \in Requests
      BY <1>0, UpdatesAreRequests DEF Stages, Synchronous
    <2>2. TrueFor(q, bMerged', wt')
      BY <1>0, <1>16 DEF InsertWorktree, TrueFor, Requests, service
    <2>3. EarnedFor(q, processed')
      BY <1>0, <1>16 DEF InsertWorktree, Resuming, EarnedFor, Requests
    <2> QED BY <1>0, <1>16, <2>1, <2>2, <2>3, OthersKeepTruth DEF InsertWorktree, Goto
  <1>17. ASSUME NEW r \in Reqs, MapUnit(r) PROVE RequestInv'
    <2> DEFINE q == [req[r] EXCEPT !.pc = "complete"]
    <2>1. q \in Requests
      BY <1>0, UpdatesAreRequests DEF Stages, Synchronous
    <2>2. TrueFor(q, bMerged', wt')
      BY <1>0, <1>17 DEF MapUnit, TrueFor, Requests, service
    <2>3. EarnedFor(q, processed')
      BY <1>0, <1>17 DEF MapUnit, Resuming, EarnedFor, Requests
    <2> QED BY <1>0, <1>17, <2>1, <2>2, <2>3, OthersKeepTruth DEF MapUnit, Goto
  <1>18. ASSUME NEW r \in Reqs, MarkLocalUnitsDiscarded(r) PROVE RequestInv'
    <2> DEFINE q == [req[r] EXCEPT !.pc = "process"]
    <2>1. q \in Requests
      BY <1>0, UpdatesAreRequests DEF Stages, Synchronous
    <2>2. TrueFor(q, bMerged', wt')
      BY <1>0, <1>18 DEF MarkLocalUnitsDiscarded, TrueFor, Requests, service
    <2>3. EarnedFor(q, processed')
      BY <1>0, <1>18 DEF MarkLocalUnitsDiscarded, Resuming, EarnedFor, Requests
    <2> QED BY <1>0, <1>18, <2>1, <2>2, <2>3, OthersKeepTruth DEF MarkLocalUnitsDiscarded, Goto
  <1>19. ASSUME NEW r \in Reqs, MarkProcessed(r) PROVE RequestInv'
    <2> DEFINE q == [req[r] EXCEPT !.pc = "complete"]
    <2>1. q \in Requests
      BY <1>0, UpdatesAreRequests DEF Stages, Synchronous
    <2>2. TrueFor(q, bMerged', wt')
      BY <1>0, <1>19 DEF MarkProcessed, TrueFor, Requests, service
    <2>3. EarnedFor(q, processed')
      BY <1>0, <1>19 DEF MarkProcessed, Resuming, EarnedFor, Requests
    <2> QED BY <1>0, <1>19, <2>1, <2>2, <2>3, OthersKeepTruth DEF MarkProcessed, Goto
  <1>20. ASSUME NEW r \in Reqs, ResumeMerge(r) PROVE RequestInv'
    <2> DEFINE q == Advance([req[r] EXCEPT !.pc = "activate",
                                  !.todo = ToPublish(req[r].answer)])
    <2>1. [req[r] EXCEPT !.pc = "activate", !.todo = ToPublish(req[r].answer)] \in Requests
      BY <1>0, UpdatesAreRequests DEF ToPublish, Stages, Synchronous, TypeOK
    <2>2. q \in Requests
      BY <2>1, AdvanceIsRequest
    <2>3. bMerged' = bMerged /\ wt' = wt /\ processed' = processed
      BY <1>20 DEF ResumeMerge, service
    <2>4. LET p == [req[r] EXCEPT !.pc = "activate", !.todo = ToPublish(req[r].answer)]
         IN  TrueFor(p, bMerged', wt') /\ EarnedFor(p, processed') /\ p.pc = "activate"
      BY <1>0, <1>20, <2>3 DEF ResumeMerge, Resuming, TrueFor, EarnedFor, ToPublish, Requests
    <2>5. TrueFor(q, bMerged', wt') /\ EarnedFor(q, processed')
      BY <2>1, <2>4, AdvanceIsEarned
    <2> QED BY <1>0, <1>20, <2>1, <2>2, <2>3, <2>4, <2>5, OthersKeepTruth DEF ResumeMerge
  <1>21. ASSUME NEW r \in Reqs, Activate(r) PROVE RequestInv'
    <2>1. PICK u \in req[r].todo : Done(r, u) \/ Throw(r)
      BY <1>21 DEF Activate
    <2> DEFINE p == [req[r] EXCEPT !.todo = req[r].todo \ {u}]
    <2>2. req[r].todo \ {u} \in SUBSET Units /\ req[r].pc = "activate"
      BY <1>0, <1>21 DEF Activate, Requests
    <2>3. p \in Requests /\ Advance(p) \in Requests
      BY <1>0, <2>2, UpdatesAreRequests, AdvanceIsRequest DEF Stages, Synchronous
    <2>4. bMerged' = bMerged /\ wt' = wt /\ processed' = processed
      BY <1>21 DEF Activate, service
    <2>5. TrueFor(p, bMerged', wt') /\ EarnedFor(p, processed') /\ p.pc = "activate"
      BY <1>0, <2>2, <2>4 DEF TrueFor, EarnedFor, Requests
    <2>6. TrueFor(Advance(p), bMerged', wt') /\ EarnedFor(Advance(p), processed')
      BY <2>3, <2>5, AdvanceIsEarned
    <2> QED BY <1>0, <2>1, <2>3, <2>6, IdleIsRequest, IdleKnowsNothing, OthersKeepTruth
            DEF Done, Throw
  <1>22. ASSUME NEW r \in Reqs, TrashRemoved(r) PROVE RequestInv'
    <2>1. PICK u \in req[r].todo : Done(r, u) \/ Throw(r)
      BY <1>22 DEF TrashRemoved
    <2> DEFINE p == [req[r] EXCEPT !.todo = req[r].todo \ {u}]
    <2>2. req[r].todo \ {u} \in SUBSET Units /\ req[r].pc = "trash"
      BY <1>0, <1>22 DEF TrashRemoved, Requests
    <2>3. p \in Requests /\ Advance(p) \in Requests
      BY <1>0, <2>2, UpdatesAreRequests, AdvanceIsRequest DEF Stages, Synchronous
    <2>4. bMerged' = bMerged /\ wt' = wt /\ processed' = processed
      BY <1>22 DEF TrashRemoved, service
    <2>5. TrueFor(p, bMerged', wt') /\ EarnedFor(p, processed') /\ p.pc = "trash"
      BY <1>0, <2>2, <2>4 DEF TrueFor, EarnedFor, Requests
    <2>6. TrueFor(Advance(p), bMerged', wt') /\ EarnedFor(Advance(p), processed')
      BY <2>3, <2>5, AdvanceIsEarned
    <2> QED BY <1>0, <2>1, <2>3, <2>6, IdleIsRequest, IdleKnowsNothing, OthersKeepTruth
            DEF Done, Throw
  <1>23. ASSUME NEW r \in Reqs, Complete(r) PROVE RequestInv'
    BY <1>0, <1>23, IdleIsRequest, IdleKnowsNothing, OthersKeepTruth DEF Complete
  <1>24. ASSUME NEW u \in Units, TrashNode(u) \/ RestoreNode(u) \/ RemoveNode(u)
         PROVE  RequestInv'
    BY <1>24 DEF TrashNode, RestoreNode, RemoveNode, Outside, service, RequestInv
  <1>25. ASSUME TurnTarget PROVE RequestInv'
    BY <1>25 DEF TurnTarget, Outside, service, RequestInv
  <1>26. ASSUME Crash PROVE RequestInv'
    BY <1>26, IdleKnowsNothing DEF Crash, RequestInv
  <1>27. ASSUME UNCHANGED vars PROVE RequestInv'
    BY <1>27 DEF vars, service, RequestInv
  <1> QED BY <1>1, <1>2, <1>3, <1>4, <1>5, <1>6, <1>7, <1>8, <1>9, <1>10, <1>11, <1>12, <1>13,
       <1>14, <1>15, <1>16, <1>17, <1>18, <1>19, <1>20, <1>21, <1>22, <1>23, <1>24, <1>25, <1>26,
       <1>27 DEF Next, Serve, Users

(* The intents.  A published Unit reached the trunk before its row says so *)
(* and is never given up; giving up spares the activated ones.             *)
LEMMA NextIntentInv ==
  TypeOK /\ RequestInv /\ IntentInv /\ [Next]_vars => IntentInv'
  <1> SUFFICES ASSUME TypeOK, RequestInv, IntentInv, [Next]_vars PROVE IntentInv'
    OBVIOUS
  <1> USE NextGrows DEF IntentInv, Grows, service, product, tree, intents
  <1>1. ASSUME NEW r \in Reqs, Create(r) PROVE IntentInv'
    BY <1>1 DEF Create
  <1>2. ASSUME NEW r \in Reqs, NEW c \in Calls, Arrive(r, c) PROVE IntentInv'
    BY <1>2 DEF Arrive
  <1>3. ASSUME NEW r \in Reqs, NEW k \in Keys, Retry(r, k) PROVE IntentInv'
    BY <1>3 DEF Retry
  <1>4. ASSUME NEW r \in Reqs, Admit(r) PROVE IntentInv'
    BY <1>4 DEF Admit
  <1>5. ASSUME NEW r \in Reqs, Refuse(r) PROVE IntentInv'
    BY <1>5 DEF Refuse
  <1>6. ASSUME NEW r \in Reqs, CallCreate(r) \/ CallAdd(r) \/ CallSetRemoved(r) \/ CallTurn(r) PROVE IntentInv'
    BY <1>6 DEF CallCreate, CallAdd, CallSetRemoved, CallTurn
  <1>7. ASSUME NEW r \in Reqs, CallDiscard(r) \/ CallGet(r) \/ CallMerge(r) PROVE IntentInv'
    BY <1>7 DEF CallDiscard, CallGet, CallMerge
  <1>8. ASSUME NEW r \in Reqs, EndMerge(r) PROVE IntentInv'
    BY <1>8 DEF EndMerge
  <1>9. ASSUME NEW r \in Reqs, CallRefused(r) PROVE IntentInv'
    BY <1>9 DEF CallRefused
  <1>10. ASSUME NEW r \in Reqs, CallFails(r) PROVE IntentInv'
    BY <1>10 DEF CallFails
  <1>11. ASSUME NEW r \in Reqs, InsertWorktree(r) \/ MapUnit(r) PROVE IntentInv'
    BY <1>11 DEF InsertWorktree, MapUnit
  <1>12. ASSUME NEW r \in Reqs, MarkLocalUnitsDiscarded(r) PROVE IntentInv'
    BY <1>12 DEF MarkLocalUnitsDiscarded, ToDiscard
  <1>13. ASSUME NEW r \in Reqs, ResumeMerge(r) PROVE IntentInv'
    BY <1>13 DEF ResumeMerge
  <1>14. ASSUME NEW r \in Reqs, Activate(r) PROVE IntentInv'
    <2>1. req[r].todo \subseteq Local /\ req[r].todo \subseteq bMerged
      BY <1>14 DEF Activate, RequestInv, TrueFor, EarnedFor
    <2>2. PICK u \in req[r].todo :
            \/ UNCHANGED <<activated, node>>
            \/ /\ u \notin discarded
               /\ activated' = activated \cup {u}
               /\ node' = [node EXCEPT ![u] = IF @ \in {"none", "gone"} THEN "live" ELSE @]
      BY <1>14 DEF Activate, Publishable
    <2>3. bMerged' = bMerged /\ discarded' = discarded
      BY <1>14 DEF Activate
    <2>4. CASE UNCHANGED <<activated, node>>
      BY <2>3, <2>4
    <2>5. CASE /\ u \notin discarded
               /\ activated' = activated \cup {u}
               /\ node' = [node EXCEPT ![u] = IF @ \in {"none", "gone"} THEN "live" ELSE @]
      <3>1. activated' \subseteq bMerged' /\ activated' \cap discarded' = {}
        BY <2>1, <2>3, <2>5
      <3>2. \A v \in Local : node'[v] # "none" => v \in activated'
        BY <2>1, <2>5 DEF TypeOK, Units
      <3> QED BY <3>1, <3>2
    <2> QED BY <2>2, <2>4, <2>5
  <1>15. ASSUME NEW r \in Reqs, TrashRemoved(r) PROVE IntentInv'
    <2>1. PICK u \in req[r].todo :
            \/ UNCHANGED <<discarded, node>>
            \/ discarded' = discarded \cup ({u} \ activated) /\ node' = node
            \/ /\ u \in Trunk /\ discarded' = discarded
               /\ node' = node \/ node' = [node EXCEPT ![u] = "trashed"]
      BY <1>15 DEF TrashRemoved
    <2>2. bMerged' = bMerged /\ activated' = activated
      BY <1>15 DEF TrashRemoved
    <2>3. activated' \cap discarded' = {}
      BY <2>1, <2>2
    <2>4. \A v \in Local : node'[v] # "none" => node[v] # "none"
      BY <2>1, KeysAreDistinct DEF TypeOK, Units
    <2> QED BY <2>2, <2>3, <2>4
  <1>16. ASSUME NEW r \in Reqs, MarkProcessed(r) PROVE IntentInv'
    BY <1>16 DEF MarkProcessed
  <1>17. ASSUME NEW r \in Reqs, Complete(r) PROVE IntentInv'
    BY <1>17 DEF Complete
  <1>18. ASSUME NEW u \in Units, TrashNode(u) \/ RestoreNode(u) \/ RemoveNode(u) PROVE IntentInv'
    BY <1>18 DEF TrashNode, RestoreNode, RemoveNode, Outside, TypeOK, Units
  <1>19. ASSUME TurnTarget PROVE IntentInv'
    BY <1>19 DEF TurnTarget, Outside
  <1>20. ASSUME Crash PROVE IntentInv'
    BY <1>20 DEF Crash
  <1>21. ASSUME UNCHANGED vars PROVE IntentInv'
    BY <1>21 DEF vars
  <1> QED BY <1>1, <1>2, <1>3, <1>4, <1>5, <1>6, <1>7, <1>8, <1>9, <1>10, <1>11, <1>12, <1>13,
       <1>14, <1>15, <1>16, <1>17, <1>18, <1>19, <1>20, <1>21 DEF Next, Serve, Users

(* How the journal moves: a completed Operation stays completed and keeps  *)
(* its result, and a new result of merged or discarded is a processed one. *)
JournalMoves ==
  \A k \in Keys :
    /\ op[k] = "completed" => op'[k] = "completed"
    /\ op'[k] = "completed" /\ result'[k] \in {"merged", "discarded"} =>
         processed \/ (op[k] = "completed" /\ result'[k] = result[k])

LEMMA NextJournalMoves == TypeOK /\ RequestInv /\ [Next]_vars => JournalMoves
  <1> SUFFICES ASSUME TypeOK, RequestInv, [Next]_vars PROVE JournalMoves
    OBVIOUS
  <1> USE DEF JournalMoves, product, tree
  <1>1. ASSUME NEW r \in Reqs, Create(r) PROVE JournalMoves
    BY <1>1 DEF Create, Reserved, TypeOK
  <1>2. ASSUME NEW r \in Reqs, NEW c \in Calls, Arrive(r, c) PROVE JournalMoves
    BY <1>2 DEF Arrive
  <1>3. ASSUME NEW r \in Reqs, NEW k \in Keys, Retry(r, k) PROVE JournalMoves
    BY <1>3 DEF Retry, TypeOK
  <1>4. ASSUME NEW r \in Reqs, Admit(r) PROVE JournalMoves
    <2>1. op' = op \/ op' = Reserved(req[r].call.of)
      BY <1>4 DEF Admit
    <2>2. result' = result
      BY <1>4 DEF Admit
    <2> QED BY <2>1, <2>2 DEF Reserved, TypeOK
  <1>5. ASSUME NEW r \in Reqs, Refuse(r) PROVE JournalMoves
    BY <1>5 DEF Refuse, Failed, TypeOK
  <1>6. ASSUME NEW r \in Reqs, CallCreate(r) \/ CallAdd(r) \/ CallSetRemoved(r) \/ CallTurn(r) PROVE JournalMoves
    BY <1>6 DEF CallCreate, CallAdd, CallSetRemoved, CallTurn
  <1>7. ASSUME NEW r \in Reqs, CallDiscard(r) \/ CallGet(r) \/ CallMerge(r) PROVE JournalMoves
    BY <1>7 DEF CallDiscard, CallGet, CallMerge
  <1>8. ASSUME NEW r \in Reqs, EndMerge(r) PROVE JournalMoves
    BY <1>8 DEF EndMerge
  <1>9. ASSUME NEW r \in Reqs, CallRefused(r) PROVE JournalMoves
    BY <1>9 DEF CallRefused, Throw, Failed, TypeOK
  <1>10. ASSUME NEW r \in Reqs, CallFails(r) PROVE JournalMoves
    BY <1>10 DEF CallFails, Throw, Failed, TypeOK
  <1>11. ASSUME NEW r \in Reqs, InsertWorktree(r) \/ MapUnit(r) PROVE JournalMoves
    BY <1>11 DEF InsertWorktree, MapUnit
  <1>12. ASSUME NEW r \in Reqs, MarkLocalUnitsDiscarded(r) PROVE JournalMoves
    BY <1>12 DEF MarkLocalUnitsDiscarded
  <1>13. ASSUME NEW r \in Reqs, ResumeMerge(r) PROVE JournalMoves
    BY <1>13 DEF ResumeMerge
  <1>14. ASSUME NEW r \in Reqs, Activate(r) PROVE JournalMoves
    <2>1. op' = op \/ op' = Failed(req[r].call.of)
      BY <1>14 DEF Activate, Throw
    <2>2. result' = result
      BY <1>14 DEF Activate
    <2> QED BY <2>1, <2>2 DEF Failed, TypeOK
  <1>15. ASSUME NEW r \in Reqs, TrashRemoved(r) PROVE JournalMoves
    <2>1. op' = op \/ op' = Failed(req[r].call.of)
      BY <1>15 DEF TrashRemoved, Throw
    <2>2. result' = result
      BY <1>15 DEF TrashRemoved
    <2> QED BY <2>1, <2>2 DEF Failed, TypeOK
  <1>16. ASSUME NEW r \in Reqs, MarkProcessed(r) PROVE JournalMoves
    BY <1>16 DEF MarkProcessed
  <1>17. ASSUME NEW r \in Reqs, Complete(r) PROVE JournalMoves
    <2>1. req[r].answer.status \in {"merged", "discarded"} => processed
      BY <1>17 DEF Complete, RequestInv, EarnedFor
    <2>2. /\ op' = [op EXCEPT ![req[r].call.of] = "completed"]
          /\ result' = [result EXCEPT ![req[r].call.of] = req[r].answer.status]
      BY <1>17 DEF Complete
    <2>3. \A k \in Keys \ {req[r].call.of} : op'[k] = op[k] /\ result'[k] = result[k]
      BY <2>2 DEF TypeOK
    <2>4. req[r].call.of \in Keys =>
            op'[req[r].call.of] = "completed"
              /\ result'[req[r].call.of] = req[r].answer.status
      BY <2>2 DEF TypeOK
    <2>5. ASSUME NEW k \in Keys
          PROVE  /\ op[k] = "completed" => op'[k] = "completed"
                 /\ op'[k] = "completed" /\ result'[k] \in {"merged", "discarded"} =>
                      processed \/ (op[k] = "completed" /\ result'[k] = result[k])
      <3>1. CASE k = req[r].call.of
        BY <2>1, <2>4, <3>1
      <3>2. CASE k # req[r].call.of
        BY <2>3, <3>2
      <3> QED BY <3>1, <3>2
    <2> QED BY <2>5
  <1>18. ASSUME NEW u \in Units, TrashNode(u) \/ RestoreNode(u) \/ RemoveNode(u) PROVE JournalMoves
    BY <1>18 DEF TrashNode, RestoreNode, RemoveNode, Outside
  <1>19. ASSUME TurnTarget PROVE JournalMoves
    BY <1>19 DEF TurnTarget, Outside
  <1>20. ASSUME Crash PROVE JournalMoves
    BY <1>20 DEF Crash
  <1>21. ASSUME UNCHANGED vars PROVE JournalMoves
    BY <1>21 DEF vars
  <1> QED BY <1>1, <1>2, <1>3, <1>4, <1>5, <1>6, <1>7, <1>8, <1>9, <1>10, <1>11, <1>12, <1>13,
       <1>14, <1>15, <1>16, <1>17, <1>18, <1>19, <1>20, <1>21 DEF Next, Serve, Users

(* Deletions.  Trash batches with the worktree's id are only added by a    *)
(* merge that knows the worktree merged.                                   *)
DeletionsMove == receipt' \subseteq receipt \/ wt = "merged"

LEMMA NextDeletionsMove == TypeOK /\ RequestInv /\ [Next]_vars => DeletionsMove
  <1> SUFFICES ASSUME TypeOK, RequestInv, [Next]_vars PROVE DeletionsMove
    OBVIOUS
  <1> USE DEF DeletionsMove, product, tree
  <1>1. ASSUME NEW r \in Reqs, Create(r) PROVE DeletionsMove
    BY <1>1 DEF Create
  <1>2. ASSUME NEW r \in Reqs, NEW c \in Calls, Arrive(r, c) PROVE DeletionsMove
    BY <1>2 DEF Arrive
  <1>3. ASSUME NEW r \in Reqs, NEW k \in Keys, Retry(r, k) PROVE DeletionsMove
    BY <1>3 DEF Retry
  <1>4. ASSUME NEW r \in Reqs, Admit(r) PROVE DeletionsMove
    BY <1>4 DEF Admit
  <1>5. ASSUME NEW r \in Reqs, Refuse(r) PROVE DeletionsMove
    BY <1>5 DEF Refuse
  <1>6. ASSUME NEW r \in Reqs, CallCreate(r) \/ CallAdd(r) \/ CallSetRemoved(r) \/ CallTurn(r) PROVE DeletionsMove
    BY <1>6 DEF CallCreate, CallAdd, CallSetRemoved, CallTurn
  <1>7. ASSUME NEW r \in Reqs, CallDiscard(r) \/ CallGet(r) \/ CallMerge(r) PROVE DeletionsMove
    BY <1>7 DEF CallDiscard, CallGet, CallMerge
  <1>8. ASSUME NEW r \in Reqs, EndMerge(r) PROVE DeletionsMove
    BY <1>8 DEF EndMerge
  <1>9. ASSUME NEW r \in Reqs, CallRefused(r) PROVE DeletionsMove
    BY <1>9 DEF CallRefused
  <1>10. ASSUME NEW r \in Reqs, CallFails(r) PROVE DeletionsMove
    BY <1>10 DEF CallFails
  <1>11. ASSUME NEW r \in Reqs, InsertWorktree(r) \/ MapUnit(r) PROVE DeletionsMove
    BY <1>11 DEF InsertWorktree, MapUnit
  <1>12. ASSUME NEW r \in Reqs, MarkLocalUnitsDiscarded(r) PROVE DeletionsMove
    BY <1>12 DEF MarkLocalUnitsDiscarded
  <1>13. ASSUME NEW r \in Reqs, ResumeMerge(r) PROVE DeletionsMove
    BY <1>13 DEF ResumeMerge
  <1>14. ASSUME NEW r \in Reqs, Activate(r) PROVE DeletionsMove
    BY <1>14 DEF Activate
  <1>15. ASSUME NEW r \in Reqs, TrashRemoved(r) PROVE DeletionsMove
    BY <1>15 DEF TrashRemoved, RequestInv, TrueFor, EarnedFor
  <1>16. ASSUME NEW r \in Reqs, MarkProcessed(r) PROVE DeletionsMove
    BY <1>16 DEF MarkProcessed
  <1>17. ASSUME NEW r \in Reqs, Complete(r) PROVE DeletionsMove
    BY <1>17 DEF Complete
  <1>18. ASSUME NEW u \in Units, TrashNode(u) \/ RestoreNode(u) \/ RemoveNode(u) PROVE DeletionsMove
    BY <1>18 DEF TrashNode, RestoreNode, RemoveNode, Outside
  <1>19. ASSUME TurnTarget PROVE DeletionsMove
    BY <1>19 DEF TurnTarget, Outside
  <1>20. ASSUME Crash PROVE DeletionsMove
    BY <1>20 DEF Crash
  <1>21. ASSUME UNCHANGED vars PROVE DeletionsMove
    BY <1>21 DEF vars
  <1> QED BY <1>1, <1>2, <1>3, <1>4, <1>5, <1>6, <1>7, <1>8, <1>9, <1>10, <1>11, <1>12, <1>13,
       <1>14, <1>15, <1>16, <1>17, <1>18, <1>19, <1>20, <1>21 DEF Next, Serve, Users

(* markProcessed is the only writer of processed_at.                       *)
LEMMA OnlyMarkProcesses ==
  [Next]_vars => processed' = processed \/ \E r \in Reqs : MarkProcessed(r)
  <1> SUFFICES ASSUME [Next]_vars, ~(\E r \in Reqs : MarkProcessed(r)) PROVE processed' = processed
    OBVIOUS
  <1> USE DEF product
  <1>1. ASSUME NEW r \in Reqs,
               \/ Create(r) \/ (\E c \in Calls : Arrive(r, c)) \/ (\E k \in Keys : Retry(r, k))
               \/ Admit(r) \/ Refuse(r)
        PROVE  processed' = processed
    BY <1>1 DEF Create, Arrive, Retry, Admit, Refuse
  <1>2. ASSUME NEW r \in Reqs,
               \/ CallCreate(r) \/ CallAdd(r) \/ CallSetRemoved(r) \/ CallTurn(r) \/ CallDiscard(r)
               \/ CallGet(r) \/ CallMerge(r) \/ EndMerge(r) \/ CallRefused(r) \/ CallFails(r)
        PROVE  processed' = processed
    BY <1>2 DEF CallCreate, CallAdd, CallSetRemoved, CallTurn, CallDiscard, CallGet, CallMerge,
                EndMerge, CallRefused, CallFails
  <1>3. ASSUME NEW r \in Reqs,
               \/ InsertWorktree(r) \/ MapUnit(r) \/ MarkLocalUnitsDiscarded(r) \/ ResumeMerge(r)
               \/ Activate(r) \/ TrashRemoved(r) \/ Complete(r)
        PROVE  processed' = processed
    BY <1>3 DEF InsertWorktree, MapUnit, MarkLocalUnitsDiscarded, ResumeMerge, Activate,
                TrashRemoved, Complete
  <1>4. CASE \/ \E u \in Units : TrashNode(u) \/ RestoreNode(u) \/ RemoveNode(u)
             \/ TurnTarget \/ Crash \/ UNCHANGED vars
    BY <1>4 DEF TrashNode, RestoreNode, RemoveNode, TurnTarget, Outside, Crash, vars
  <1> QED BY <1>1, <1>2, <1>3, <1>4 DEF Next, Serve, Users

LEMMA NextProcessed ==
  TypeOK /\ RequestInv /\ [Next]_vars =>
    (processed' => processed \/ wt \in {"merged", "discarded"})
  <1>1. ASSUME RequestInv, NEW r \in Reqs, MarkProcessed(r)
        PROVE  wt \in {"merged", "discarded"}
    BY <1>1 DEF MarkProcessed, RequestInv, TrueFor, EarnedFor
  <1> QED BY <1>1, OnlyMarkProcesses

LEMMA NextJournalInv ==
  TypeOK /\ RequestInv /\ JournalInv /\ [Next]_vars => JournalInv'
  <1> SUFFICES ASSUME TypeOK, RequestInv, JournalInv, [Next]_vars PROVE JournalInv'
    OBVIOUS
  <1>1. Grows /\ JournalMoves /\ DeletionsMove
    BY NextGrows, NextJournalMoves, NextDeletionsMove
  <1>2. ProcessedIsFinal'
    BY <1>1, NextProcessed DEF JournalInv, ProcessedIsFinal, Grows
  <1>3. CompletedIsProcessed'
    BY <1>1 DEF JournalInv, CompletedIsProcessed, JournalMoves, Grows
  <1>4. DeletionWaitsForMerge'
    BY <1>1 DEF JournalInv, DeletionWaitsForMerge, DeletionsMove, Grows
  <1> QED BY <1>2, <1>3, <1>4 DEF JournalInv

LEMMA InitIInv == Init => IInv
  <1> SUFFICES ASSUME Init PROVE IInv
    OBVIOUS
  <1>1. RequestInv
    BY IdleKnowsNothing DEF Init, RequestInv
  <1>2. IntentInv
    BY KeysAreDistinct DEF Init, IntentInv, Units
  <1>3. JournalInv
    BY DEF Init, JournalInv, ProcessedIsFinal, CompletedIsProcessed, DeletionWaitsForMerge
  <1> QED BY <1>1, <1>2, <1>3, InitTypeOK DEF IInv

LEMMA NextIInv == IInv /\ [Next]_vars => IInv'
  BY NextTypeOK, NextRequestInv, NextIntentInv, NextJournalInv DEF IInv

-----------------------------------------------------------------------------
(* Every reachable state of the saga satisfies the inductive invariant:    *)
(* types, what requests know, intents against the trunk, and the journal.  *)
THEOREM SagaInvariant == Spec => []IInv
  BY InitIInv, NextIInv, PTL DEF Spec

(* The variables of the worktree saga keep their types.                    *)
THEOREM TypeCorrect == Spec => []TypeOK
  <1>1. IInv => TypeOK
    BY DEF IInv
  <1> QED BY <1>1, SagaInvariant, PTL

(* activateLocalUnit never makes visible what did not reach the trunk or   *)
(* what a discard gave up, whatever requests and crashes interleave.       *)
THEOREM PublicationSafe == Spec => []PublishedOnlyIfMerged
  <1>1. IInv => PublishedOnlyIfMerged
    BY DEF IInv, IntentInv, PublishedOnlyIfMerged
  <1> QED BY <1>1, SagaInvariant, PTL

(* markProcessed only follows a merge or discard the service made final.   *)
THEOREM ProcessedSafe == Spec => []ProcessedIsFinal
  <1>1. IInv => ProcessedIsFinal
    BY DEF IInv, JournalInv
  <1> QED BY <1>1, SagaInvariant, PTL

(* completeOperation records merged or discarded only after markProcessed. *)
THEOREM JournalSafe == Spec => []CompletedIsProcessed
  <1>1. IInv => CompletedIsProcessed
    BY DEF IInv, JournalInv
  <1> QED BY <1>1, SagaInvariant, PTL

(* trashNodeOnce runs for a worktree only once all of it merged.           *)
THEOREM DeletionSafe == Spec => []DeletionWaitsForMerge
  <1>1. IInv => DeletionWaitsForMerge
    BY DEF IInv, JournalInv
  <1> QED BY <1>1, SagaInvariant, PTL

(* failOperation never takes back a completed Operation.                   *)
THEOREM CompletionFinal == Spec => CompletedStays
  <1>1. IInv /\ [Next]_vars =>
          [\A k \in Keys : op[k] = "completed" => op'[k] = "completed"]_vars
    BY NextJournalMoves DEF IInv, JournalMoves
  <1> QED BY <1>1, SagaInvariant, PTL DEF Spec, CompletedStays

-----------------------------------------------------------------------------
(***************************************************************************)
(* The loops of merge and discard.  What they have done when processed_at  *)
(* is set is right because nobody acts between their steps: at most one    *)
(* request is between two awaits (Alone), so nothing it has gone through   *)
(* is undone or added to behind it (Progress), and its answer names every  *)
(* Unit of the branch as merged or as deleted (WholeAnswer), since a merge *)
(* that succeeded leaves no other (WholeMerge) and only Units of the       *)
(* branch are mapped (Branched).                                           *)
(***************************************************************************)

Alone ==
  \A r, s \in Reqs : req[r].pc \in Synchronous /\ req[s].pc \in Synchronous => r = s

(* A request that added a Unit maps it once the branch has it.             *)
HasAdded(q) == q.pc = "answered" /\ q.call.kind = "add" => q.call.of \in bUnits
Branched == mapped \subseteq bUnits /\ \A r \in Reqs : HasAdded(req[r])

WholeMerge == wt = "merged" => Content \subseteq bMerged

WholeAnswer(q) ==
  q.pc \in {"answered", "activate", "trash", "process"} /\ q.answer.status = "merged" =>
    /\ q.answer.removed = bRemoved
    /\ bUnits \subseteq q.answer.merged \cup q.answer.removed

(* What the loops leave behind them.                                       *)
GivenUp(u) == IF u \in Local THEN u \in activated \cup discarded ELSE u \in receipt
Published(a) == mapped \cap Local \cap a.merged \subseteq activated
Progress(q) ==
  /\ q.pc = "activate" =>
       /\ q.todo \cap activated = {}
       /\ mapped \cap Local \cap q.answer.merged \subseteq activated \cup q.todo
  /\ q.pc = "process" => q.call.kind \in {"merge", "discard"}
  /\ q.pc \in {"trash", "process"} /\ q.call.kind = "merge" => Published(q.answer)
  /\ q.pc = "trash" => \A u \in q.answer.removed \ q.todo : GivenUp(u)
  /\ q.pc = "process" /\ q.call.kind = "merge" => \A u \in q.answer.removed : GivenUp(u)
  /\ q.pc = "process" /\ q.call.kind = "discard" =>
       /\ q.answer.status = "discarded"
       /\ mapped \cap Local \subseteq activated \cup discarded

LoopInv ==
  /\ Alone /\ Branched /\ WholeMerge
  /\ \A r \in Reqs : WholeAnswer(req[r]) /\ Progress(req[r])

(* The content of a branch that merged as a whole is what it was.          *)
BranchKept ==
  /\ bUnits \subseteq bUnits'
  /\ wt = "merged" => wt' = "merged" /\ bUnits' = bUnits /\ bRemoved' = bRemoved

(* One request is served: the others keep what they know of the branch,    *)
(* and what their loop did, since nobody else writes the rows meanwhile.   *)
LEMMA ServingKeepsLoops ==
  ASSUME IInv, LoopInv, NEW r \in Reqs, NEW q, Become(r, q), BranchKept,
         mapped' \subseteq bUnits', WholeMerge',
         LoopFree \/ req[r].pc \in Synchronous \/ UNCHANGED <<mapped, activated, discarded, receipt>>,
         q.pc \in Synchronous => LoopFree \/ req[r].pc \in Synchronous,
         HasAdded(q)', WholeAnswer(q)', Progress(q)'
  PROVE  LoopInv'
  <1>1. /\ req'[r] = q
        /\ \A s \in Reqs \ {r} : req'[s] = req[s]
    BY DEF Become, IInv, TypeOK
  <1>2. Alone'
    BY <1>1 DEF Alone, LoopInv, LoopFree
  <1>3. Branched'
    BY <1>1 DEF Branched, HasAdded, LoopInv, BranchKept
  <1>4. ASSUME NEW s \in Reqs \ {r} PROVE WholeAnswer(req[s])'
    BY <1>1, <1>4 DEF WholeAnswer, LoopInv, BranchKept, IInv, RequestInv, TrueFor
  <1>5. ASSUME NEW s \in Reqs \ {r} PROVE Progress(req[s])'
    <2>1. CASE req[s].pc \in Synchronous
      <3>1. UNCHANGED <<mapped, activated, discarded, receipt>>
        BY <2>1 DEF Alone, LoopInv, LoopFree
      <3> QED BY <1>1, <3>1 DEF LoopInv, Progress, GivenUp, Published
    <2>2. CASE req[s].pc \notin Synchronous
      BY <1>1, <2>2 DEF Progress, Synchronous
    <2> QED BY <2>1, <2>2
  <1> QED BY <1>1, <1>2, <1>3, <1>4, <1>5 DEF LoopInv

(* A request that stops, or goes to a stage before the writes, claims      *)
(* nothing.                                                                *)
LEMMA EarlyStagesClaimNothing ==
  ASSUME NEW q, q.pc \in {"idle", "context", "call", "merging", "complete"}
  PROVE  HasAdded(q)' /\ WholeAnswer(q)' /\ Progress(q)'
  BY DEF HasAdded, WholeAnswer, Progress

LEMMA StagesOfRecords ==
  ASSUME NEW q \in Requests, NEW pc, NEW a
  PROVE  /\ [q EXCEPT !.pc = pc].pc = pc
         /\ [q EXCEPT !.pc = pc].call = q.call
         /\ [q EXCEPT !.pc = pc].answer = q.answer
         /\ [q EXCEPT !.pc = pc, !.answer = a].pc = pc
         /\ [q EXCEPT !.pc = pc, !.answer = a].call = q.call
         /\ [q EXCEPT !.pc = pc, !.answer = a].answer = a
         /\ IdleReq.pc = "idle"
  BY DEF Requests, IdleReq

(* Arrivals, admissions and refusals write no rows.                        *)
LEMMA ArrivalsKeepLoops ==
  ASSUME IInv, LoopInv, NEW r \in Reqs,
         \/ Create(r) \/ (\E c \in Calls : Arrive(r, c)) \/ (\E k \in Keys : Retry(r, k))
         \/ Admit(r) \/ Refuse(r)
  PROVE  LoopInv'
  <1>1. LoopFree /\ UNCHANGED <<wt, bUnits, bRemoved, bMerged, mapped, activated, discarded, receipt>>
    BY DEF Create, Arrive, Retry, Start, Admit, Refuse, service, intents, tree
  <1>2. BranchKept /\ mapped' \subseteq bUnits' /\ WholeMerge'
    BY <1>1 DEF BranchKept, LoopInv, Branched, WholeMerge, Content
  <1>3. req[r] \in Requests
    BY DEF IInv, TypeOK
  <1>4. ASSUME NEW c, NEW again, Start(r, c, again) PROVE LoopInv'
    <2>0. PICK q : q = [IdleReq EXCEPT !.call = c, !.retry = again, !.early = processed,
                         !.pc = IF c.kind = "create" THEN "call" ELSE "context"]
      OBVIOUS
    <2>1. Become(r, q) /\ q.pc \in {"call", "context"}
      BY <1>4, <2>0 DEF Start, IdleReq
    <2> QED BY <1>1, <1>2, <2>1, ServingKeepsLoops, EarlyStagesClaimNothing
  <1>5. CASE Admit(r)
    <2> DEFINE next == [req[r] EXCEPT !.pc = "call", !.known = Known,
                          !.fetch = (req[r].call.kind = "merge" /\ wt = "merged")]
    <2>1. PICK q : /\ q = IdleReq \/ q = next \/ q = [next EXCEPT !.pc = "complete", !.answer = Resumed]
                   /\ Become(r, q)
      BY <1>5 DEF Admit
    <2>2. q.pc \in {"idle", "call", "complete"}
      <3>1. next.pc = "call" /\ [next EXCEPT !.pc = "complete", !.answer = Resumed].pc = "complete"
        BY <1>3 DEF Requests
      <3>2. IdleReq.pc = "idle"
        BY DEF IdleReq
      <3> QED BY <2>1, <3>1, <3>2
    <2> QED BY <1>1, <1>2, <2>1, <2>2, ServingKeepsLoops, EarlyStagesClaimNothing
  <1>6. CASE Refuse(r)
    <2>0. PICK q : q = IdleReq
      OBVIOUS
    <2>1. Become(r, q) /\ q.pc = "idle"
      BY <1>6, <2>0 DEF Refuse, IdleReq
    <2> QED BY <1>1, <1>2, <2>1, ServingKeepsLoops, EarlyStagesClaimNothing
  <1> QED BY <1>4, <1>5, <1>6 DEF Create, Arrive, Retry

(* Calls of the service change the branch only while it is not merged.     *)
LEMMA CallsKeepLoops ==
  ASSUME IInv, LoopInv, NEW r \in Reqs,
         \/ CallCreate(r) \/ CallAdd(r) \/ CallSetRemoved(r) \/ CallTurn(r)
         \/ CallDiscard(r) \/ CallGet(r) \/ CallMerge(r) \/ EndMerge(r)
  PROVE  LoopInv'
  <1>1. UNCHANGED <<mapped, activated, discarded, receipt>>
    BY DEF CallCreate, CallAdd, CallSetRemoved, CallTurn, CallDiscard, CallGet, CallMerge, EndMerge,
       product, intents, tree
  <1>2. req[r] \in Requests
    BY DEF IInv, TypeOK
  <1>3. wt \in Statuses /\ bUnits \subseteq Units /\ bRemoved \subseteq Units /\ bMerged \subseteq Units
    BY DEF IInv, TypeOK
  <1>4. req[r].fetch => wt = "merged" /\ req[r].call.kind = "merge"
    BY <1>2 DEF IInv, RequestInv, TrueFor, EarnedFor
  <1>5. mapped \subseteq bUnits /\ WholeMerge
    BY DEF LoopInv, Branched
  <1>6. CASE CallCreate(r) \/ CallAdd(r) \/ CallDiscard(r) \/ CallGet(r)
    <2> DEFINE a == IF CallDiscard(r) THEN Answer("discarded", bMerged)
                      ELSE IF CallGet(r) THEN Answer(wt, bMerged) ELSE NoAnswer
    <2>0. PICK q : q = [req[r] EXCEPT !.pc = "answered", !.answer = a]
      OBVIOUS
    <2>1. Become(r, q)
      BY <1>6, <2>0 DEF CallCreate, CallAdd, CallDiscard, CallGet, Answered, Calling
    <2>2. q.pc = "answered" /\ q.call = req[r].call /\ q.answer = a
      BY <1>2, <2>0, StagesOfRecords
    <2>3. BranchKept /\ mapped' \subseteq bUnits' /\ WholeMerge'
      BY <1>1, <1>5, <1>6
         DEF BranchKept, WholeMerge, Content, CallCreate, CallAdd, CallDiscard, CallGet, Calling,
             Serviceable, service
    <2>4. HasAdded(q)'
      BY <1>6, <2>2 DEF HasAdded, CallCreate, CallAdd, CallDiscard, CallGet, Calling
    <2>5. WholeAnswer(q)'
      BY <1>4, <1>5, <1>6, <2>2
         DEF WholeAnswer, WholeMerge, Content, Answer, NoAnswer, CallGet, CallDiscard, CallCreate,
             CallAdd, service
    <2>6. Progress(q)' /\ q.pc \notin Synchronous
      BY <2>2 DEF Progress, Synchronous
    <2> QED BY <1>1, <2>1, <2>3, <2>4, <2>5, <2>6, ServingKeepsLoops
  <1>7. CASE CallSetRemoved(r) \/ CallTurn(r) \/ CallMerge(r)
    <2>0. PICK q : q = IF CallMerge(r) THEN [req[r] EXCEPT !.pc = "merging"] ELSE IdleReq
      OBVIOUS
    <2>1. Become(r, q) /\ q.pc \in {"idle", "merging"}
      BY <1>2, <1>7, <2>0, StagesOfRecords DEF CallSetRemoved, CallTurn, CallMerge, Goto, Calling
    <2>2. BranchKept /\ mapped' \subseteq bUnits' /\ WholeMerge'
      BY <1>1, <1>5, <1>7
         DEF BranchKept, WholeMerge, Content, CallSetRemoved, CallTurn, CallMerge, Calling, Serviceable
    <2> QED BY <1>1, <2>1, <2>2, ServingKeepsLoops, EarlyStagesClaimNothing DEF Synchronous
  <1>8. CASE EndMerge(r)
    <2>1. PICK done \in SUBSET (Content \ bMerged) :
            LET merged == bMerged \cup done
                status == IF Content \subseteq merged THEN "merged" ELSE "ready"
            IN bMerged' = merged /\ wt' = status /\ Answered(r, Answer(status, merged))
      BY <1>8 DEF EndMerge
    <2> DEFINE merged == bMerged \cup done
               status == IF Content \subseteq merged THEN "merged" ELSE "ready"
    <2>0. PICK q : q = [req[r] EXCEPT !.pc = "answered", !.answer = Answer(status, merged)]
      OBVIOUS
    <2>2. Become(r, q)
      BY <2>0, <2>1 DEF Answered
    <2>3. q.pc = "answered" /\ q.call = req[r].call /\ q.answer = Answer(status, merged)
      BY <1>2, <2>0, StagesOfRecords
    <2>4. wt = "merging" /\ UNCHANGED <<bUnits, bRemoved>> /\ req[r].pc = "merging"
      BY <1>8 DEF EndMerge
    <2>5. BranchKept /\ mapped' \subseteq bUnits' /\ WholeMerge'
      BY <1>1, <1>5, <2>1, <2>4 DEF BranchKept, WholeMerge, Content
    <2>6. req[r].call.kind = "merge"
      BY <1>2, <2>4 DEF IInv, RequestInv, EarnedFor
    <2>7. HasAdded(q)' /\ Progress(q)' /\ q.pc \notin Synchronous
      BY <2>3, <2>6 DEF HasAdded, Progress, Synchronous
    <2>8. WholeAnswer(q)'
      BY <2>3, <2>4 DEF WholeAnswer, Content, Answer
    <2> QED BY <1>1, <2>2, <2>5, <2>7, <2>8, ServingKeepsLoops
  <1> QED BY <1>6, <1>7, <1>8

(* A call that is refused or fails ends its request.                       *)
LEMMA FailuresKeepLoops ==
  ASSUME IInv, LoopInv, NEW r \in Reqs, CallRefused(r) \/ CallFails(r)
  PROVE  LoopInv'
  <1>0. PICK q : q = IdleReq
    OBVIOUS
  <1>1. /\ LoopFree /\ Become(r, q) /\ q.pc = "idle"
        /\ UNCHANGED <<wt, bUnits, bRemoved, bMerged, mapped, activated, discarded, receipt>>
    BY <1>0 DEF CallRefused, CallFails, Throw, IdleReq, service, intents, tree
  <1>2. BranchKept /\ mapped' \subseteq bUnits' /\ WholeMerge'
    BY <1>1 DEF BranchKept, LoopInv, Branched, WholeMerge, Content
  <1> QED BY <1>1, <1>2, ServingKeepsLoops, EarlyStagesClaimNothing

(* The stage that Advance leads to, once what precedes it is done.         *)
LEMMA AdvanceClaims ==
  ASSUME NEW q \in Requests, q.call.kind = "merge", q.pc \in {"activate", "trash"},
         Progress(q)', WholeAnswer(q)'
  PROVE  /\ HasAdded(Advance(q))' /\ WholeAnswer(Advance(q))' /\ Progress(Advance(q))'
  <1>0. PICK p : p = IF q.pc = "activate" /\ q.todo = {}
                       THEN [q EXCEPT !.pc = "trash", !.todo = ToTrash(q.answer)]
                       ELSE q
    OBVIOUS
  <1>1. p.call = q.call /\ p.answer = q.answer /\ p.pc \in {"activate", "trash"} /\ p \in Requests
    BY <1>0 DEF Requests, ToTrash, Answers, Stages, Synchronous
  <1>2. CASE q.pc = "activate" /\ q.todo = {}
    <2>1. p.pc = "trash" /\ p.todo = ToTrash(q.answer)
      BY <1>0, <1>2 DEF Requests
    <2>2. Published(q.answer)'
      BY <1>2 DEF Progress, Published
    <2>3. CASE q.answer.status = "merged"
      <3>1. Progress(p)' /\ (p.todo = {} => \A u \in p.answer.removed : GivenUp(u)')
        BY <1>1, <2>1, <2>2, <2>3 DEF Progress, ToTrash
      <3>2. WholeAnswer(p)'
        BY <1>1, <1>2, <2>1 DEF WholeAnswer
      <3>3. CASE p.todo # {}
        <4>1. Advance(q) = p
          BY <1>0, <1>2, <2>1, <3>3 DEF Advance
        <4>2. HasAdded(p)'
          BY <2>1 DEF HasAdded
        <4> QED BY <3>1, <3>2, <4>1, <4>2 DEF HasAdded, WholeAnswer, Progress
      <3>4. CASE p.todo = {}
        <4> DEFINE d == [p EXCEPT !.pc = "process"]
        <4>1. Advance(q) = d
          BY <1>0, <1>2, <2>1, <2>3, <3>4 DEF Advance, AfterLoops
        <4>2. d.pc = "process" /\ d.call = q.call /\ d.answer = q.answer
          BY <1>1, StagesOfRecords
        <4> QED BY <1>1, <1>2, <2>2, <3>1, <3>4, <4>1, <4>2 DEF HasAdded, WholeAnswer, Progress
      <3> QED BY <3>3, <3>4
    <2>4. CASE q.answer.status # "merged"
      <3>1. Advance(q) = [p EXCEPT !.pc = "complete"]
        BY <1>0, <1>2, <2>1, <2>4 DEF Advance, AfterLoops, ToTrash
      <3>2. PICK d : d = [p EXCEPT !.pc = "complete"]
        OBVIOUS
      <3>3. d.pc = "complete" /\ Advance(q) = d
        BY <1>1, <3>1, <3>2, StagesOfRecords
      <3> QED BY <3>3, EarlyStagesClaimNothing DEF HasAdded, WholeAnswer, Progress
    <2> QED BY <2>3, <2>4
  <1>3. CASE ~(q.pc = "activate" /\ q.todo = {})
    <2>1. CASE q.pc = "trash" /\ q.todo = {}
      <3> DEFINE d == [q EXCEPT !.pc = AfterLoops(q.answer)]
      <3>1. Advance(q) = d /\ d.call = q.call /\ d.answer = q.answer /\ d.pc = AfterLoops(q.answer)
        BY <2>1, StagesOfRecords DEF Advance
      <3> QED BY <2>1, <3>1 DEF AfterLoops, HasAdded, WholeAnswer, Progress
    <2>2. CASE ~(q.pc = "trash" /\ q.todo = {})
      BY <1>3, <2>2 DEF Advance, HasAdded
    <2> QED BY <2>1, <2>2
  <1> QED BY <1>2, <1>3

(* The writes of create and add, of discard, and the start of the loops.   *)
LEMMA ResumptionsKeepLoops ==
  ASSUME IInv, LoopInv, NEW r \in Reqs,
         InsertWorktree(r) \/ MapUnit(r) \/ MarkLocalUnitsDiscarded(r) \/ ResumeMerge(r)
  PROVE  LoopInv'
  <1>1. /\ LoopFree /\ req[r].pc = "answered" /\ req[r] \in Requests
        /\ UNCHANGED <<wt, bUnits, bRemoved, bMerged, activated>>
    BY DEF InsertWorktree, MapUnit, MarkLocalUnitsDiscarded, ResumeMerge, Resuming, IInv, TypeOK,
           service, intents
  <1>2. /\ mapped \subseteq bUnits /\ WholeMerge /\ Branched
        /\ HasAdded(req[r]) /\ WholeAnswer(req[r])
    BY DEF LoopInv, Branched
  <1>3. BranchKept /\ WholeMerge'
    BY <1>1, <1>2 DEF BranchKept, WholeMerge, Content
  <1>4. CASE InsertWorktree(r) \/ MapUnit(r)
    <2>0. PICK q : q = [req[r] EXCEPT !.pc = "complete"]
      OBVIOUS
    <2>1. Become(r, q) /\ q.pc = "complete"
      BY <1>1, <1>4, <2>0, StagesOfRecords DEF InsertWorktree, MapUnit, Goto
    <2>2. mapped' \subseteq bUnits'
      BY <1>1, <1>2, <1>4 DEF InsertWorktree, MapUnit, Resuming, HasAdded
    <2> QED BY <1>1, <1>3, <2>1, <2>2, ServingKeepsLoops, EarlyStagesClaimNothing
  <1>5. CASE MarkLocalUnitsDiscarded(r)
    <2>0. PICK q : q = [req[r] EXCEPT !.pc = "process"]
      OBVIOUS
    <2>1. /\ Become(r, q) /\ q.pc = "process" /\ q.call = req[r].call /\ q.answer = req[r].answer
          /\ req[r].call.kind = "discard" /\ req[r].answer.status = "discarded"
          /\ discarded' = discarded \cup ToDiscard /\ mapped' = mapped
      BY <1>1, <1>5, <2>0, StagesOfRecords
         DEF MarkLocalUnitsDiscarded, Goto, Resuming, IInv, RequestInv, EarnedFor
    <2>2. HasAdded(q)' /\ WholeAnswer(q)' /\ Progress(q)'
      BY <1>1, <1>2, <2>1 DEF HasAdded, WholeAnswer, Progress, ToDiscard
    <2> QED BY <1>1, <1>2, <1>3, <2>1, <2>2, ServingKeepsLoops
  <1>6. CASE ResumeMerge(r)
    <2>0. PICK p : p = [req[r] EXCEPT !.pc = "activate", !.todo = ToPublish(req[r].answer)]
      OBVIOUS
    <2>1. /\ p \in Requests /\ p.pc = "activate" /\ p.todo = ToPublish(req[r].answer)
          /\ p.call = req[r].call /\ p.answer = req[r].answer /\ p.call.kind = "merge"
      <3>1. ToPublish(req[r].answer) \in SUBSET Units /\ "activate" \in Stages
        BY DEF ToPublish, Units, Stages, Synchronous
      <3> QED BY <1>1, <1>6, <2>0, <3>1 DEF Requests, ResumeMerge, Resuming
    <2>2. Become(r, Advance(p)) /\ UNCHANGED <<mapped, discarded, receipt>>
      BY <1>6, <2>0 DEF ResumeMerge, intents, tree
    <2>3. Progress(p)' /\ WholeAnswer(p)'
      BY <1>1, <1>2, <2>1, <2>2 DEF Progress, WholeAnswer, ToPublish
    <2>4. HasAdded(Advance(p))' /\ WholeAnswer(Advance(p))' /\ Progress(Advance(p))'
      BY <2>1, <2>3, AdvanceClaims
    <2> QED BY <1>1, <1>2, <1>3, <2>2, <2>4, ServingKeepsLoops
  <1> QED BY <1>4, <1>5, <1>6

(* Each turn of a loop settles one Unit more.                              *)
LEMMA TurnsKeepLoops ==
  ASSUME IInv, LoopInv, NEW r \in Reqs, Activate(r) \/ TrashRemoved(r)
  PROVE  LoopInv'
  <1>1. /\ req[r].pc \in {"activate", "trash"} /\ req[r].pc \in Synchronous /\ req[r] \in Requests
        /\ UNCHANGED <<wt, bUnits, bRemoved, bMerged, mapped>>
    BY DEF Activate, TrashRemoved, Synchronous, IInv, TypeOK, service
  <1>2. /\ mapped \subseteq bUnits /\ WholeMerge /\ WholeAnswer(req[r]) /\ Progress(req[r])
        /\ req[r].call.kind = "merge"
    BY <1>1 DEF LoopInv, Branched, IInv, RequestInv, EarnedFor
  <1>3. BranchKept /\ mapped' \subseteq bUnits' /\ WholeMerge'
    BY <1>1, <1>2 DEF BranchKept, WholeMerge, Content
  <1>4. CASE Become(r, IdleReq)
    <2>0. PICK q : q = IdleReq
      OBVIOUS
    <2>1. q.pc = "idle"
      BY <2>0 DEF IdleReq
    <2> QED BY <1>1, <1>3, <1>4, <2>0, <2>1, ServingKeepsLoops, EarlyStagesClaimNothing DEF Synchronous
  <1>5. ASSUME NEW u \in req[r].todo, Done(r, u),
               \/ /\ req[r].pc = "activate" /\ activated' = activated \cup {u}
                  /\ UNCHANGED <<discarded, receipt>>
               \/ /\ req[r].pc = "trash" /\ GivenUp(u)' /\ activated' = activated
                  /\ discarded \subseteq discarded' /\ receipt \subseteq receipt'
        PROVE  LoopInv'
    <2>0. PICK p : p = [req[r] EXCEPT !.todo = @ \ {u}]
      OBVIOUS
    <2>1. /\ p \in Requests /\ p.pc = req[r].pc /\ p.todo = req[r].todo \ {u}
          /\ p.call = req[r].call /\ p.answer = req[r].answer
      BY <1>1, <2>0 DEF Requests
    <2>2. Become(r, Advance(p))
      BY <1>5, <2>0 DEF Done
    <2>3. Progress(p)' /\ WholeAnswer(p)'
      BY <1>1, <1>2, <1>5, <2>1 DEF Progress, WholeAnswer, GivenUp, Published
    <2>4. HasAdded(Advance(p))' /\ WholeAnswer(Advance(p))' /\ Progress(Advance(p))'
      BY <1>1, <1>2, <2>1, <2>3, AdvanceClaims
    <2> QED BY <1>1, <1>3, <2>2, <2>4, ServingKeepsLoops
  <1>6. CASE Activate(r)
    <2>1. PICK u \in req[r].todo :
            \/ activated' = activated \cup {u} /\ Done(r, u)
            \/ Become(r, IdleReq)
      BY <1>6 DEF Activate, Throw
    <2> QED BY <1>4, <1>5, <1>6, <2>1 DEF Activate
  <1>7. CASE TrashRemoved(r)
    <2>1. PICK u \in req[r].todo :
            \/ /\ u \in Local /\ discarded' = discarded \cup ({u} \ activated)
               /\ Done(r, u) /\ receipt' = receipt
            \/ /\ u \in Trunk /\ Done(r, u) /\ UNCHANGED discarded
               /\ receipt' = receipt \cup {u} \/ (u \in receipt /\ receipt' = receipt)
            \/ Become(r, IdleReq)
      BY <1>7 DEF TrashRemoved, Throw, NotYetTrashed
    <2>2. activated' = activated /\ req[r].pc = "trash"
      BY <1>7 DEF TrashRemoved
    <2>3. CASE u \in Local /\ discarded' = discarded \cup ({u} \ activated) /\ Done(r, u)
                 /\ receipt' = receipt
      <3>1. GivenUp(u)'
        BY <2>2, <2>3 DEF GivenUp
      <3> QED BY <1>5, <2>2, <2>3, <3>1
    <2>4. CASE u \in Trunk /\ Done(r, u) /\ UNCHANGED discarded
                 /\ (receipt' = receipt \cup {u} \/ (u \in receipt /\ receipt' = receipt))
      <3>1. GivenUp(u)'
        BY <2>4, KeysAreDistinct DEF GivenUp
      <3> QED BY <1>5, <2>2, <2>4, <3>1
    <2> QED BY <1>4, <2>1, <2>3, <2>4
  <1> QED BY <1>6, <1>7

LEMMA EndsKeepLoops ==
  ASSUME IInv, LoopInv, NEW r \in Reqs, MarkProcessed(r) \/ Complete(r)
  PROVE  LoopInv'
  <1>0. PICK q : q = IF MarkProcessed(r) THEN [req[r] EXCEPT !.pc = "complete"] ELSE IdleReq
    OBVIOUS
  <1>1. /\ req[r].pc \in Synchronous /\ req[r] \in Requests
        /\ UNCHANGED <<wt, bUnits, bRemoved, bMerged, mapped>>
    BY DEF MarkProcessed, Complete, Synchronous, IInv, TypeOK, service
  <1>2. Become(r, q) /\ q.pc \in {"complete", "idle"}
    BY <1>0, <1>1, StagesOfRecords DEF MarkProcessed, Complete, Goto
  <1>3. BranchKept /\ mapped' \subseteq bUnits' /\ WholeMerge'
    BY <1>1 DEF BranchKept, WholeMerge, Content, LoopInv, Branched
  <1> QED BY <1>1, <1>2, <1>3, ServingKeepsLoops, EarlyStagesClaimNothing

(* Users act while the loop is free; a crash ends every request.           *)
LEMMA OutsideKeepsLoops ==
  ASSUME IInv, LoopInv,
         (\E u \in Units : TrashNode(u) \/ RestoreNode(u) \/ RemoveNode(u)) \/ TurnTarget \/ Crash
           \/ UNCHANGED vars
  PROVE  LoopInv'
  <1>1. UNCHANGED <<wt, bUnits, bRemoved, bMerged, mapped, activated, discarded>>
    BY DEF TrashNode, RestoreNode, RemoveNode, TurnTarget, Outside, Crash, vars, service, intents
  <1>2. CASE Crash
    <2>1. \A r \in Reqs : req'[r].pc = "idle"
      BY <1>2 DEF Crash, IdleReq
    <2> QED BY <1>1, <2>1
            DEF LoopInv, Alone, Branched, HasAdded, WholeMerge, Content, WholeAnswer, Progress,
                Synchronous
  <1>3. CASE UNCHANGED vars
    BY <1>1, <1>3
       DEF LoopInv, Alone, Branched, HasAdded, WholeMerge, Content, WholeAnswer, Progress, GivenUp,
           Published, vars, tree
  <1>4. CASE (\E u \in Units : TrashNode(u) \/ RestoreNode(u) \/ RemoveNode(u)) \/ TurnTarget
    <2>1. req' = req /\ \A r \in Reqs : req[r].pc \notin Synchronous
      BY <1>4 DEF TrashNode, RestoreNode, RemoveNode, TurnTarget, Outside, LoopFree
    <2> QED BY <1>1, <2>1
            DEF LoopInv, Alone, Branched, HasAdded, WholeMerge, Content, WholeAnswer, Progress,
                Synchronous
  <1> QED BY <1>2, <1>3, <1>4

LEMMA NextLoopInv == IInv /\ LoopInv /\ [Next]_vars => LoopInv'
  BY ArrivalsKeepLoops, CallsKeepLoops, FailuresKeepLoops, ResumptionsKeepLoops, TurnsKeepLoops,
     EndsKeepLoops, OutsideKeepsLoops
     DEF Next, Serve, Users

LEMMA InitLoopInv == Init => LoopInv
  BY DEF Init, LoopInv, Alone, Branched, HasAdded, WholeMerge, WholeAnswer, Progress, IdleReq,
         Synchronous

(* Loops run alone and leave nothing of a Unit behind, in every reachable  *)
(* state.                                                                  *)
THEOREM LoopsInvariant == Spec => []LoopInv
  BY InitLoopInv, NextLoopInv, SagaInvariant, PTL DEF Spec

(* markProcessed comes after every mapped Unit has been published, given   *)
(* up, or had its deletion done: whatever crashed, was retried or ran at   *)
(* the same time before.                                                   *)
THEOREM SettledBeforeProcessed == Spec => SettledWhenProcessed
  <1>1. ASSUME IInv, LoopInv, NEW r \in Reqs, MarkProcessed(r), NEW u \in mapped
        PROVE  IF wt = "merged" THEN Settled(u) ELSE u \in Local => u \in activated \cup discarded
    <2>1. req[r].pc = "process" /\ req[r] \in Requests
      BY <1>1 DEF MarkProcessed, IInv, TypeOK
    <2>2. /\ TrueFor(req[r], bMerged, wt) /\ EarnedFor(req[r], processed)
          /\ WholeAnswer(req[r]) /\ Progress(req[r]) /\ mapped \subseteq bUnits
      BY <1>1 DEF IInv, RequestInv, LoopInv, Branched
    <2>3. wt = req[r].answer.status /\ req[r].call.kind \in {"merge", "discard"}
      BY <2>1, <2>2 DEF TrueFor, EarnedFor, Progress
    <2>4. CASE req[r].call.kind = "discard"
      BY <2>1, <2>2, <2>3, <2>4 DEF Progress, Settled, EarnedFor
    <2>5. CASE req[r].call.kind = "merge"
      <3>1. wt = "merged"
        BY <2>1, <2>2, <2>3, <2>5 DEF EarnedFor
      <3>2. /\ u \in req[r].answer.merged \cup req[r].answer.removed
            /\ req[r].answer.removed = bRemoved
        BY <2>1, <2>2, <2>3, <3>1 DEF WholeAnswer
      <3> QED BY <2>1, <2>2, <2>5, <3>1, <3>2 DEF Progress, Published, GivenUp, Settled
    <2> QED BY <2>3, <2>4, <2>5
  <1>2. IInv /\ LoopInv /\ [Next]_vars =>
          [processed' /\ ~processed =>
             \A u \in mapped : IF wt = "merged" THEN Settled(u)
                                ELSE u \in Local => u \in activated \cup discarded]_vars
    BY <1>1, OnlyMarkProcesses
  <1> QED BY <1>2, LoopsInvariant, SagaInvariant, PTL DEF Spec, SettledWhenProcessed

(* activateLocalUnit, trashNodeOnce and users are the only writers of the  *)
(* Node tree.                                                              *)
LEMMA WritersOfNodes ==
  ASSUME [Next]_vars
  PROVE  \/ node' = node
         \/ \E r \in Reqs : Activate(r) \/ TrashRemoved(r)
         \/ \E u \in Units : TrashNode(u) \/ RestoreNode(u) \/ RemoveNode(u)
  <1> USE DEF tree, product
  <1>1. ASSUME NEW r \in Reqs,
               \/ Create(r) \/ (\E c \in Calls : Arrive(r, c)) \/ (\E k \in Keys : Retry(r, k))
               \/ Admit(r) \/ Refuse(r)
        PROVE  node' = node
    BY <1>1 DEF Create, Arrive, Retry, Admit, Refuse
  <1>2. ASSUME NEW r \in Reqs,
               \/ CallCreate(r) \/ CallAdd(r) \/ CallSetRemoved(r) \/ CallTurn(r) \/ CallDiscard(r)
               \/ CallGet(r) \/ CallMerge(r) \/ EndMerge(r) \/ CallRefused(r) \/ CallFails(r)
        PROVE  node' = node
    BY <1>2 DEF CallCreate, CallAdd, CallSetRemoved, CallTurn, CallDiscard, CallGet, CallMerge,
                EndMerge, CallRefused, CallFails
  <1>3. ASSUME NEW r \in Reqs,
               \/ InsertWorktree(r) \/ MapUnit(r) \/ MarkLocalUnitsDiscarded(r) \/ ResumeMerge(r)
               \/ MarkProcessed(r) \/ Complete(r)
        PROVE  node' = node
    BY <1>3 DEF InsertWorktree, MapUnit, MarkLocalUnitsDiscarded, ResumeMerge, MarkProcessed,
                Complete
  <1>4. CASE TurnTarget \/ Crash \/ UNCHANGED vars
    BY <1>4 DEF TurnTarget, Crash, vars
  <1> QED BY <1>1, <1>2, <1>3, <1>4 DEF Next, Serve, Users

(* A second request that finishes the same merge publishes only Units that *)
(* are not activated, and those never had a Node that could be gone.       *)
THEOREM RemovedForGood == Spec => NeverRepublished
  <1>1. ASSUME IInv, LoopInv, [Next]_vars, NEW u \in Local, node[u] = "gone"
        PROVE  node'[u] = "gone"
    <2>1. u \in Units /\ node \in [Units -> {"none", "live", "trashed", "gone"}] /\ u \in activated
      BY <1>1 DEF IInv, TypeOK, Units, IntentInv
    <2>2. ASSUME NEW r \in Reqs, Activate(r) PROVE node'[u] = node[u]
      <3>1. u \notin req[r].todo
        BY <1>1, <2>1, <2>2 DEF Activate, LoopInv, Progress
      <3> QED BY <2>1, <2>2, <3>1 DEF Activate
    <2>3. ASSUME NEW r \in Reqs, TrashRemoved(r) PROVE node'[u] = node[u]
      BY <1>1, <2>1, <2>3, KeysAreDistinct DEF TrashRemoved
    <2>4. ASSUME NEW v \in Units, TrashNode(v) \/ RestoreNode(v) \/ RemoveNode(v)
          PROVE  node'[u] = node[u]
      BY <1>1, <2>1, <2>4 DEF TrashNode, RestoreNode, RemoveNode
    <2> QED BY <1>1, <2>2, <2>3, <2>4, WritersOfNodes
  <1>2. IInv /\ LoopInv /\ [Next]_vars =>
          [\A u \in Local : node[u] = "gone" => node'[u] = "gone"]_vars
    BY <1>1
  <1> QED BY <1>2, LoopsInvariant, SagaInvariant, PTL DEF Spec, NeverRepublished

(* A Node whose deletion is recorded and which is live again was restored  *)
(* by a user: the loop passes it by, and only users trash it.              *)
THEOREM RestoredByUsers == Spec => RestorationIsKept
  <1>1. ASSUME TypeOK, [Next]_vars, NEW u \in Trunk,
               u \in receipt, node[u] = "live", node'[u] = "trashed"
        PROVE  LoopFree
    <2>1. u \in Units /\ node \in [Units -> {"none", "live", "trashed", "gone"}]
      BY <1>1 DEF TypeOK, Units
    <2>2. ASSUME NEW r \in Reqs, Activate(r) PROVE node'[u] # "trashed"
      BY <1>1, <2>1, <2>2 DEF Activate
    <2>3. ASSUME NEW r \in Reqs, TrashRemoved(r) PROVE node'[u] # "trashed"
      BY <1>1, <2>1, <2>3 DEF TrashRemoved, NotYetTrashed
    <2> QED BY <1>1, <2>2, <2>3, WritersOfNodes DEF TrashNode, RestoreNode, RemoveNode
  <1>2. TypeOK /\ [Next]_vars =>
          [\A u \in Trunk :
             u \in receipt /\ node[u] = "live" /\ node'[u] = "trashed" => LoopFree]_vars
    BY <1>1
  <1> QED BY <1>2, TypeCorrect, PTL DEF Spec, RestorationIsKept

-----------------------------------------------------------------------------
(***************************************************************************)
(* The worktree saga implements ReviewOutcome, for every set of Units,     *)
(* keys and requests: each of its steps is one step of the review, or one  *)
(* that the review does not see.  What requests know (IInv) is what makes  *)
(* the writes that follow an answer legal steps of the review.             *)
(***************************************************************************)

(* A completed Operation that names an outcome names the one that happened.*)
RepliesAreTrue ==
  \A k \in Keys :
    op[k] = "completed" /\ result[k] \in {"merged", "discarded"} => result[k] = wt

(* What the review sees of the journal: completions and their results.     *)
JournalUnseen ==
  /\ \A k \in Keys : op'[k] = "completed" <=> op[k] = "completed"
  /\ result' = result

LEMMA UnseenReplays == JournalUnseen => Replayed' = Replayed
  BY DEF JournalUnseen, Replayed

(* Reservation, Retry and failure of an Operation complete nothing.        *)
LEMMA JournalWritesUnseen ==
  ASSUME TypeOK, NEW k \in Keys, result' = result,
         op' \in {op, Reserved(k), Failed(k)} \/
           (op[k] = "failed" /\ op' = [op EXCEPT ![k] = "pending"])
  PROVE  JournalUnseen
  BY DEF TypeOK, Reserved, Failed, JournalUnseen

LEMMA KeyedCallNamesKey ==
  ASSUME NEW q \in Requests, q.call.kind \in Keyed \cup {"create"}
  PROVE  q.call.of \in Keys
  BY DEF Requests, Calls, NoCall, Keyed, Keys, Units

LEMMA ThrowUnseen ==
  ASSUME TypeOK, NEW r \in Reqs, Throw(r), result' = result
  PROVE  JournalUnseen
  <1>1. req[r] \in Requests
    BY DEF TypeOK
  <1>2. CASE req[r].call.kind \in Keyed
    BY <1>1, <1>2, KeyedCallNamesKey, JournalWritesUnseen DEF Throw
  <1>3. CASE req[r].call.kind \notin Keyed
    BY <1>3 DEF Throw, JournalUnseen
  <1> QED BY <1>2, <1>3

(* The variables of the review as the two databases hold them.             *)
ReviewUnseen ==
  /\ Phase' = Phase /\ bMerged' = bMerged /\ activated' = activated
  /\ discarded' = discarded /\ receipt' = receipt /\ processed' = processed
  /\ JournalUnseen

LEMMA UnseenIsStutter == ReviewUnseen => [Outcome!Next]_(Outcome!outcomeVars)
  BY UnseenReplays DEF ReviewUnseen, Outcome!outcomeVars

LEMMA UserStepsUnseen ==
  ASSUME TypeOK,
         \/ \E r \in Reqs : Create(r) \/ (\E c \in Calls : Arrive(r, c))
                              \/ (\E k \in Keys : Retry(r, k))
         \/ \E u \in Units : TrashNode(u) \/ RestoreNode(u)
         \/ TurnTarget \/ Crash \/ UNCHANGED vars
  PROVE  ReviewUnseen
  <1> USE DEF ReviewUnseen, Phase, service, product, tree, intents
  <1>1. ASSUME NEW r \in Reqs, Create(r) PROVE ReviewUnseen
    <2>1. JournalUnseen
      BY <1>1, JournalWritesUnseen DEF Create, Keys
    <2> QED BY <1>1, <2>1 DEF Create
  <1>2. ASSUME NEW r \in Reqs, NEW c \in Calls, Arrive(r, c) PROVE ReviewUnseen
    BY <1>2 DEF Arrive, JournalUnseen
  <1>3. ASSUME NEW r \in Reqs, NEW k \in Keys, Retry(r, k) PROVE ReviewUnseen
    <2>1. JournalUnseen
      BY <1>3, JournalWritesUnseen DEF Retry
    <2> QED BY <1>3, <2>1 DEF Retry
  <1>4. ASSUME NEW u \in Units, TrashNode(u) \/ RestoreNode(u) PROVE ReviewUnseen
    BY <1>4 DEF TrashNode, RestoreNode, Outside, JournalUnseen
  <1>5. ASSUME TurnTarget \/ Crash PROVE ReviewUnseen
    BY <1>5 DEF TurnTarget, Crash, Outside, JournalUnseen
  <1>6. ASSUME UNCHANGED vars PROVE ReviewUnseen
    BY <1>6 DEF vars, JournalUnseen
  <1> QED BY <1>1, <1>2, <1>3, <1>4, <1>5, <1>6

LEMMA RequestStepsUnseen ==
  ASSUME TypeOK, NEW r \in Reqs,
         \/ Admit(r) \/ Refuse(r) \/ CallRefused(r) \/ CallFails(r)
         \/ CallCreate(r) \/ CallAdd(r) \/ CallSetRemoved(r) \/ CallTurn(r)
         \/ CallGet(r) \/ CallMerge(r)
         \/ InsertWorktree(r) \/ MapUnit(r) \/ ResumeMerge(r)
  PROVE  ReviewUnseen
  <1> USE DEF ReviewUnseen, Phase, service, product, tree, intents
  <1>0. req[r] \in Requests
    BY DEF TypeOK
  <1>1. ASSUME Admit(r) PROVE ReviewUnseen
    <2>1. JournalUnseen
      <3>1. CASE req[r].call.kind \in Keyed
        BY <1>0, <1>1, <3>1, KeyedCallNamesKey, JournalWritesUnseen DEF Admit
      <3>2. CASE req[r].call.kind \notin Keyed
        BY <1>1, <3>2 DEF Admit, JournalUnseen
      <3> QED BY <3>1, <3>2
    <2> QED BY <1>1, <2>1 DEF Admit
  <1>2. ASSUME Refuse(r) PROVE ReviewUnseen
    <2>1. JournalUnseen
      BY <1>2 DEF Refuse, Failed, JournalUnseen, TypeOK
    <2> QED BY <1>2, <2>1 DEF Refuse
  <1>3. ASSUME CallRefused(r) \/ CallFails(r) PROVE ReviewUnseen
    <2>1. JournalUnseen
      BY <1>3, ThrowUnseen DEF CallRefused, CallFails
    <2> QED BY <1>3, <2>1 DEF CallRefused, CallFails
  <1>4. ASSUME CallCreate(r) \/ CallAdd(r) \/ CallSetRemoved(r) \/ CallGet(r)
        PROVE  ReviewUnseen
    BY <1>4 DEF CallCreate, CallAdd, CallSetRemoved, CallGet, JournalUnseen
  <1>5. ASSUME CallTurn(r) \/ CallMerge(r) PROVE ReviewUnseen
    BY <1>5 DEF CallTurn, CallMerge, Calling, Serviceable, JournalUnseen
  <1>6. ASSUME InsertWorktree(r) \/ MapUnit(r) \/ ResumeMerge(r) PROVE ReviewUnseen
    BY <1>6 DEF InsertWorktree, MapUnit, ResumeMerge, JournalUnseen
  <1> QED BY <1>1, <1>2, <1>3, <1>4, <1>5, <1>6

(* What the service's and the product's own steps are to the review.  TRUE *)
(* of a request (TrueFor, EarnedFor) is that what it was told still holds. *)
LEMMA EndMergeIsMerge ==
  ASSUME TypeOK, NEW r \in Reqs, EndMerge(r)
  PROVE  Outcome!Next
  <1>1. PICK done \in SUBSET (Content \ bMerged) :
          bMerged' = bMerged \cup done /\ wt' \in {"merged", "ready"}
    BY DEF EndMerge
  <1>2. done \in SUBSET (Trunk \cup Local)
    BY DEF Content, TypeOK, Units
  <1>3. Phase = "open" /\ Phase' \in {"open", "merged"}
    BY <1>1 DEF EndMerge, Phase
  <1>4. Replayed' = Replayed
    BY DEF EndMerge, product, Replayed
  <1>5. Outcome!Merge(done)
    BY <1>1, <1>3, <1>4 DEF Outcome!Merge, EndMerge, product, intents, tree
  <1> QED BY <1>2, <1>5 DEF Outcome!Next

LEMMA CallDiscardIsDiscard ==
  ASSUME NEW r \in Reqs, CallDiscard(r)
  PROVE  Outcome!Next
  <1>1. Phase = "open" /\ Phase' = "discarded"
    BY DEF CallDiscard, Calling, Serviceable, Phase
  <1>2. Replayed' = Replayed
    BY DEF CallDiscard, product, Replayed
  <1>3. Outcome!Discard
    BY <1>1, <1>2 DEF Outcome!Discard, CallDiscard, product, intents, tree
  <1> QED BY <1>3 DEF Outcome!Next

LEMMA MarkDiscardedIsGiveUp ==
  ASSUME IInv, NEW r \in Reqs, MarkLocalUnitsDiscarded(r)
  PROVE  Outcome!Next
  <1>1. wt = "discarded"
    BY DEF IInv, RequestInv, TrueFor, EarnedFor, MarkLocalUnitsDiscarded, Resuming
  <1>2. Phase # "open" /\ Phase' = Phase /\ Replayed' = Replayed
    BY <1>1 DEF MarkLocalUnitsDiscarded, service, tree, Phase, Replayed
  <1>3. ToDiscard \in SUBSET Local /\ ToDiscard \cap activated = {}
    BY DEF ToDiscard
  <1>4. Outcome!GiveUp(ToDiscard)
    BY <1>2, <1>3 DEF Outcome!GiveUp, MarkLocalUnitsDiscarded, service, tree
  <1> QED BY <1>3, <1>4 DEF Outcome!Next

LEMMA ActivateIsPublish ==
  ASSUME IInv, NEW r \in Reqs, Activate(r)
  PROVE  Outcome!Next \/ ReviewUnseen
  <1>1. req[r].todo \subseteq Local \cap bMerged
    BY DEF IInv, RequestInv, TrueFor, EarnedFor, Activate
  <1>2. /\ Phase' = Phase /\ bMerged' = bMerged /\ discarded' = discarded
        /\ receipt' = receipt /\ processed' = processed /\ result' = result
    BY DEF Activate, service, Phase
  <1>3. PICK u \in req[r].todo :
          \/ u \notin discarded /\ activated' = activated \cup {u} /\ op' = op
          \/ Throw(r) /\ activated' = activated
    BY DEF Activate, Publishable
  <1>4. CASE u \notin discarded /\ activated' = activated \cup {u} /\ op' = op
    <2>1. Replayed' = Replayed
      BY <1>2, <1>4 DEF Replayed
    <2>2. u \in Local /\ Outcome!Publish(u)
      BY <1>1, <1>2, <1>4, <2>1 DEF Outcome!Publish
    <2> QED BY <2>2 DEF Outcome!Next
  <1>5. CASE Throw(r) /\ activated' = activated
    <2>1. JournalUnseen
      BY <1>2, <1>5, ThrowUnseen DEF IInv
    <2> QED BY <1>2, <1>5, <2>1 DEF ReviewUnseen
  <1> QED BY <1>3, <1>4, <1>5

LEMMA TrashRemovedIsTrash ==
  ASSUME IInv, NEW r \in Reqs, TrashRemoved(r)
  PROVE  Outcome!Next \/ ReviewUnseen
  <1>1. Phase = "merged"
    BY DEF IInv, RequestInv, TrueFor, EarnedFor, TrashRemoved, Phase
  <1>2. /\ Phase' = Phase /\ bMerged' = bMerged /\ activated' = activated
        /\ processed' = processed /\ result' = result
    BY DEF TrashRemoved, service, Phase
  <1>3. PICK u \in req[r].todo :
          \/ /\ u \in Local /\ discarded' = discarded \cup ({u} \ activated)
             /\ receipt' = receipt /\ op' = op
          \/ /\ u \in Trunk /\ receipt' \in {receipt, receipt \cup {u}}
             /\ discarded' = discarded /\ op' = op
          \/ Throw(r) /\ UNCHANGED <<discarded, receipt>>
    BY DEF TrashRemoved
  <1>4. CASE /\ u \in Local /\ discarded' = discarded \cup ({u} \ activated)
             /\ receipt' = receipt /\ op' = op
    <2>1. Replayed' = Replayed
      BY <1>2, <1>4 DEF Replayed
    <2>2. Outcome!GiveUp({u} \ activated) /\ {u} \ activated \in SUBSET Local
      BY <1>1, <1>2, <1>4, <2>1 DEF Outcome!GiveUp
    <2> QED BY <2>2 DEF Outcome!Next
  <1>5. CASE /\ u \in Trunk /\ receipt' \in {receipt, receipt \cup {u}}
             /\ discarded' = discarded /\ op' = op
    <2>1. Replayed' = Replayed
      BY <1>2, <1>5 DEF Replayed
    <2>2. CASE receipt' = receipt
      BY <1>2, <1>5, <2>2 DEF ReviewUnseen, JournalUnseen
    <2>3. CASE receipt' = receipt \cup {u}
      <3>1. Outcome!Trash(u)
        BY <1>1, <1>2, <1>5, <2>1, <2>3 DEF Outcome!Trash
      <3> QED BY <1>5, <3>1 DEF Outcome!Next
    <2> QED BY <1>5, <2>2, <2>3
  <1>6. CASE Throw(r) /\ UNCHANGED <<discarded, receipt>>
    <2>1. JournalUnseen
      BY <1>2, <1>6, ThrowUnseen DEF IInv
    <2> QED BY <1>2, <1>6, <2>1 DEF ReviewUnseen
  <1> QED BY <1>3, <1>4, <1>5, <1>6

LEMMA RemoveNodeIsForget ==
  ASSUME TypeOK, NEW u \in Units, RemoveNode(u)
  PROVE  Outcome!Next \/ ReviewUnseen
  <1>1. /\ Phase' = Phase /\ bMerged' = bMerged /\ activated' = activated
        /\ discarded' = discarded /\ processed' = processed /\ JournalUnseen
        /\ receipt' = receipt \ {u}
    BY DEF RemoveNode, Outside, service, intents, Phase, JournalUnseen
  <1>2. CASE u \in Trunk
    <2>1. Outcome!Forget(u)
      BY <1>1, UnseenReplays DEF Outcome!Forget
    <2> QED BY <1>2, <2>1 DEF Outcome!Next
  <1>3. CASE u \notin Trunk
    <2>1. receipt \ {u} = receipt
      BY <1>3 DEF TypeOK
    <2> QED BY <1>1, <2>1 DEF ReviewUnseen
  <1> QED BY <1>2, <1>3

LEMMA MarkProcessedIsSettle ==
  ASSUME IInv, NEW r \in Reqs, MarkProcessed(r)
  PROVE  Outcome!Next
  <1>1. wt \in {"merged", "discarded"}
    BY DEF IInv, RequestInv, TrueFor, EarnedFor, MarkProcessed
  <1>2. Phase # "open" /\ Phase' = Phase /\ Replayed' = Replayed
    BY <1>1 DEF MarkProcessed, service, Phase, Replayed
  <1>3. Outcome!Settle
    BY <1>2 DEF Outcome!Settle, MarkProcessed, service, intents, tree
  <1> QED BY <1>3 DEF Outcome!Next

(* What a completed merge or discard reports is what its request was told. *)
LEMMA CompleteIsReport ==
  ASSUME IInv, RepliesAreTrue, IInv', RepliesAreTrue', NEW r \in Reqs, Complete(r)
  PROVE  Outcome!Next
  <1> DEFINE R == Replayed \cap {"merged", "discarded"}
  <1>1. /\ Phase' = Phase /\ bMerged' = bMerged /\ activated' = activated
        /\ discarded' = discarded /\ receipt' = receipt
        /\ processed' = processed /\ wt' = wt
    BY DEF Complete, service, intents, tree, Phase
  <1>2. \A x \in R' : x = wt' /\ processed'
    BY DEF RepliesAreTrue, Replayed, IInv, JournalInv, CompletedIsProcessed
  <1>3. R' \subseteq {Phase}
    BY <1>1, <1>2 DEF Phase
  <1>4. processed \/ R' = {}
    BY <1>1, <1>2
  <1>5. R' \in SUBSET {"merged", "discarded"}
    OBVIOUS
  <1>6. Outcome!Report(R')
    BY <1>1, <1>3, <1>4 DEF Outcome!Report
  <1> QED BY <1>5, <1>6 DEF Outcome!Next

LEMMA OnlyCompleteIsSeen ==
  ASSUME TypeOK, [Next]_vars
  PROVE  JournalUnseen \/ \E r \in Reqs : Complete(r)
  <1> USE DEF product, tree, intents
  <1>1. ASSUME NEW r \in Reqs, Activate(r) \/ TrashRemoved(r) PROVE JournalUnseen
    <2>1. result' = result /\ (Throw(r) \/ op' = op)
      BY <1>1 DEF Activate, TrashRemoved
    <2> QED BY <2>1, ThrowUnseen DEF JournalUnseen
  <1>2. ASSUME NEW r \in Reqs, EndMerge(r) \/ CallDiscard(r) PROVE JournalUnseen
    BY <1>2 DEF EndMerge, CallDiscard, JournalUnseen
  <1>3. ASSUME NEW r \in Reqs, MarkLocalUnitsDiscarded(r) \/ MarkProcessed(r)
        PROVE  JournalUnseen
    BY <1>3 DEF MarkLocalUnitsDiscarded, MarkProcessed, JournalUnseen
  <1>4. ASSUME NEW u \in Units, RemoveNode(u) PROVE JournalUnseen
    BY <1>4 DEF RemoveNode, Outside, JournalUnseen
  <1> QED
    BY <1>1, <1>2, <1>3, <1>4, UserStepsUnseen, RequestStepsUnseen
    DEF ReviewUnseen, Next, Serve, Users

LEMMA NextRepliesAreTrue ==
  ASSUME IInv, RepliesAreTrue, [Next]_vars
  PROVE  RepliesAreTrue'
  <1>1. Grows
    BY NextGrows DEF IInv
  <1>2. CASE JournalUnseen
    BY <1>1, <1>2 DEF JournalUnseen, RepliesAreTrue, Grows
  <1>3. ASSUME NEW r \in Reqs, Complete(r) PROVE RepliesAreTrue'
    <2>1. TrueFor(req[r], bMerged, wt) /\ wt' = wt
      BY <1>3 DEF IInv, RequestInv, Complete, service
    <2>2. \A k \in Keys :
            \/ result'[k] = req[r].answer.status
            \/ op'[k] = op[k] /\ result'[k] = result[k]
      BY <1>3 DEF Complete, IInv, TypeOK
    <2> QED BY <2>1, <2>2 DEF TrueFor, RepliesAreTrue
  <1> QED BY <1>2, <1>3, OnlyCompleteIsSeen DEF IInv

LEMMA ReviewInit == Init => Outcome!Init /\ RepliesAreTrue
  BY DEF Init, Outcome!Init, Phase, Replayed, RepliesAreTrue

LEMMA ReviewNext ==
  ASSUME IInv, RepliesAreTrue, IInv', RepliesAreTrue', [Next]_vars
  PROVE  [Outcome!Next]_(Outcome!outcomeVars)
  <1>1. TypeOK
    BY DEF IInv
  <1>2. Outcome!Next \/ ReviewUnseen
    BY <1>1, UserStepsUnseen, RequestStepsUnseen, EndMergeIsMerge,
       CallDiscardIsDiscard, MarkDiscardedIsGiveUp, ActivateIsPublish,
       TrashRemovedIsTrash, RemoveNodeIsForget, MarkProcessedIsSettle,
       CompleteIsReport
    DEF Next, Serve, Users
  <1> QED BY <1>2, UnseenIsStutter

(* However many requests, replays and crashes it takes, the service and    *)
(* the product together go through one review: what worktrees.service.ts   *)
(* promises is ReviewOutcome, for every set of Units and keys.             *)
THEOREM ReviewRefinement == Spec => ImplementsReviewOutcome
  <1>1. IInv /\ RepliesAreTrue /\ [Next]_vars => RepliesAreTrue'
    BY NextRepliesAreTrue
  <1>2. IInv /\ IInv' /\ RepliesAreTrue /\ RepliesAreTrue' /\ [Next]_vars
          => [Outcome!Next]_(Outcome!outcomeVars)
    BY ReviewNext
  <1>3. Spec => []RepliesAreTrue
    BY <1>1, ReviewInit, SagaInvariant, PTL DEF Spec
  <1> QED
    BY <1>2, <1>3, ReviewInit, SagaInvariant, PTL
    DEF Spec, ImplementsReviewOutcome, Outcome!Spec

(* A recorded outcome is the one the collaboration service ended with: a   *)
(* replay of a merge or discard key never answers anything else.           *)
THEOREM RepliesTrue == Spec => []RepliesAreTrue
  <1>1. IInv /\ RepliesAreTrue /\ [Next]_vars => RepliesAreTrue'
    BY NextRepliesAreTrue
  <1> QED BY <1>1, ReviewInit, SagaInvariant, PTL DEF Spec
=============================================================================
