--------------------------- MODULE Clients_proofs ---------------------------
(***************************************************************************)
(* What the processes at the client's end promise: the content runtime,    *)
(* the pages behind the change feed, and the agent's connection, for any   *)
(* number of operations, pages, accounts and failures.                     *)
(*                                                                         *)
(* As in Services_proofs, each has an invariant of its own, and the last   *)
(* theorem carries the results to the specification TLC runs.              *)
(***************************************************************************)
EXTENDS MCServices, SequenceTheorems, TLAPS

-----------------------------------------------------------------------------
(* Each client behaves as its module says, while the others rest.          *)
LEMMA ClientsBehave ==
  MCSpec => Runtime!Spec /\ Feed!Spec /\ Agent!Spec
<1>1. MCInit => Runtime!Init /\ Feed!Init /\ Agent!Init
  BY DEF MCInit
<1>2. [MCNext]_MCVars => [Runtime!Next]_Runtime!vars
  BY DEF MCNext, MCVars, AccessSteps, ContentSteps, AssetsSteps, CodeSteps, IssueSteps,
    ConvertSteps, RuntimeSteps, FeedSteps, AgentSteps,
    RuntimeState, Runtime!vars
<1>3. [MCNext]_MCVars => [Feed!Next]_Feed!vars
  BY DEF MCNext, MCVars, AccessSteps, ContentSteps, AssetsSteps, CodeSteps, IssueSteps,
    ConvertSteps, RuntimeSteps, FeedSteps, AgentSteps,
    FeedState, Feed!vars
<1>4. [MCNext]_MCVars => [Agent!Next]_Agent!vars
  BY DEF MCNext, MCVars, AccessSteps, ContentSteps, AssetsSteps, CodeSteps, IssueSteps,
    ConvertSteps, RuntimeSteps, FeedSteps, AgentSteps,
    AgentState, Agent!vars, Agent!switches, Agent!fileVars, Agent!settings, Agent!bounds
<1> QED
  BY <1>1, <1>2, <1>3, <1>4, PTL DEF MCSpec, Runtime!Spec, Feed!Spec, Agent!Spec

-----------------------------------------------------------------------------
(***************************************************************************)
(* Content runtime: a write lands once, on the revision it was made for,   *)
(* and what is pooled can be used again.                                   *)
(*                                                                         *)
(* Both rest on the chain: at most its head is past the queue (OneRuns),   *)
(* so the runtime is as far as that operation (RuntimeFollows) and only    *)
(* its own changeset can be in doubt (LandsWhereMeant).                    *)
(***************************************************************************)

Ended == {"committed", "failed", "nothing", "read"}
Active == {"queued", "acquiring", "leased", "synced", "committing"}
Operation == [at : {"idle"} \cup Active \cup Ended, target : Nat, tries : Nat]

RuntimeTypes ==
  /\ cookie \in Nat \ {0} /\ entry \in Nat
  /\ instance \in [init : Nat, base : Nat, pending : SUBSET Writes]
  /\ op \in [Runtime!Ops -> Operation] /\ queue \in Seq(Runtime!Ops)
  /\ changesets \in Seq(Writes \cup {"other"})

(* The chain holds the operations under way, and only its first one runs.  *)
OneRuns ==
  /\ \A i \in 1..Len(queue) : op[queue[i]].at \in Active
  /\ \A i \in 1..Len(queue) : i > 1 => op[queue[i]].at = "queued"
  /\ \A i, j \in 1..Len(queue) : queue[i] = queue[j] => i = j
  /\ \A o \in Runtime!Ops : op[o].at \in Active => \E i \in 1..Len(queue) : queue[i] = o

(* The runtime is as far as the operation that leases it.                  *)
RuntimeOf(o) ==
  /\ op[o].at = "acquiring" => entry # 0
  /\ op[o].at \in {"leased", "synced", "committing"} => instance.init # 0
  /\ op[o].at \in {"synced", "committing"} => instance.base = op[o].target
  /\ op[o].at = "committing" => o \in Writes
RuntimeFollows ==
  /\ \A o \in Runtime!Ops : RuntimeOf(o)
  /\ instance = Runtime!NoInstance \/ (instance.init = entry /\ entry # 0)
  /\ instance = Runtime!NoInstance /\ entry # 0 => \E o \in Runtime!Ops : op[o].at = "acquiring"
  /\ instance.pending # {} => \E o \in Runtime!Ops : op[o].at = "committing"

(* Only an operation that commits has landed, and where its caller meant.  *)
LandsWhereMeant ==
  \A o \in Writes :
    /\ op[o].at = "committed" => Runtime!Landed(o)
    /\ \A i \in DOMAIN changesets : changesets[i] = o =>
         i = op[o].target + 1 /\ op[o].at \in {"committing", "committed", "failed"}

RuntimeInv == RuntimeTypes /\ OneRuns /\ RuntimeFollows /\ LandsWhereMeant

-----------------------------------------------------------------------------
(* Only the head of the chain is past the queue.                           *)
LEMMA HeadRuns ==
  ASSUME RuntimeTypes, OneRuns, queue # <<>>
  PROVE  /\ Head(queue) = queue[1] /\ 1 \in 1..Len(queue) /\ Head(queue) \in Runtime!Ops
         /\ op[Head(queue)].at \in Active
         /\ \A o \in Runtime!Ops : op[o].at \in Active \ {"queued"} => o = Head(queue)
<1>1. Head(queue) = queue[1] /\ 1 \in 1..Len(queue) /\ Head(queue) \in Runtime!Ops
  BY EmptySeq, LenProperties, HeadTailProperties DEF RuntimeTypes
<1>2. ASSUME NEW o \in Runtime!Ops, op[o].at \in Active \ {"queued"} PROVE o = Head(queue)
  <2>1. PICK i \in 1..Len(queue) : queue[i] = o
    BY <1>2 DEF OneRuns
  <2>2. ~(i > 1)
    BY <1>2, <2>1 DEF OneRuns
  <2>3. i = 1
    BY <2>2, LenProperties DEF RuntimeTypes
  <2> QED
    BY <1>1, <2>1, <2>3
<1> QED
  BY <1>1, <1>2 DEF OneRuns

(* An operation goes on at the head of the chain.                          *)
LEMMA GoesOn ==
  ASSUME RuntimeTypes, OneRuns, queue # <<>>, NEW o \in Runtime!Ops, Head(queue) = o,
         NEW at \in Active, op' \in [Runtime!Ops -> Operation], op'[o].at = at,
         \A p \in Runtime!Ops \ {o} : op'[p] = op[p], UNCHANGED queue
  PROVE  OneRuns'
<1>1. \A i \in 1..Len(queue) : i > 1 => queue[i] # o
  BY HeadRuns DEF OneRuns
<1>2. \A i \in 1..Len(queue) : queue[i] \in Runtime!Ops
  BY ElementOfSeq DEF RuntimeTypes
<1>3. \A p \in Runtime!Ops : op'[p].at \in Active => \E i \in 1..Len(queue) : queue[i] = p
  BY HeadRuns DEF OneRuns
<1>4. \A i \in 1..Len(queue) : op'[queue[i]].at \in Active
  BY <1>2 DEF OneRuns
<1> QED
  BY <1>1, <1>2, <1>3, <1>4 DEF OneRuns

(* An operation ends and the next one is at the head.                      *)
LEMMA LeavesChain ==
  ASSUME RuntimeTypes, OneRuns, queue # <<>>, NEW o \in Runtime!Ops, Head(queue) = o,
         NEW result \in Ended, Runtime!Leaves(o, result)
  PROVE  /\ OneRuns' /\ op' \in [Runtime!Ops -> Operation] /\ queue' \in Seq(Runtime!Ops)
         /\ op'[o] = [op[o] EXCEPT !.at = result]
         /\ \A p \in Runtime!Ops \ {o} : op'[p] = op[p] /\ op[p].at \notin Active \ {"queued"}
<1> DEFINE n == Len(queue)
<1>1. /\ op' \in [Runtime!Ops -> Operation] /\ op'[o] = [op[o] EXCEPT !.at = result]
      /\ \A p \in Runtime!Ops \ {o} : op'[p] = op[p]
      /\ op'[o].at = result
  BY DEF Runtime!Leaves, Runtime!Goes, RuntimeTypes, Operation
<1>2. /\ queue' \in Seq(Runtime!Ops) /\ n \in Nat /\ Len(queue') = n - 1
      /\ \A i \in 1..n-1 : queue'[i] = queue[i + 1]
  BY HeadTailProperties, LenProperties DEF Runtime!Leaves, RuntimeTypes
<1>3. \A p \in Runtime!Ops \ {o} : op[p].at \notin Active \ {"queued"}
  BY HeadRuns
<1>4. \A i \in 1..n : queue[i] \in Runtime!Ops /\ (i > 1 => queue[i] # o)
  BY ElementOfSeq, HeadRuns DEF RuntimeTypes, OneRuns
<1>5. \A i \in 1..n-1 : queue'[i] \in Runtime!Ops \ {o} /\ op'[queue'[i]].at = "queued"
  BY <1>1, <1>2, <1>4 DEF OneRuns
<1>6. \A i, j \in 1..n-1 : queue'[i] = queue'[j] => i = j
  BY <1>2 DEF OneRuns
<1>7. ASSUME NEW p \in Runtime!Ops, op'[p].at \in Active
      PROVE  \E i \in 1..n-1 : queue'[i] = p
  <2>1. p # o
    BY <1>1, <1>7 DEF Ended, Active
  <2>2. PICK i \in 1..n : queue[i] = p
    BY <1>1, <1>7, <2>1 DEF OneRuns
  <2>3. i # 1
    BY <2>1, <2>2, HeadRuns
  <2>4. i - 1 \in 1..n-1 /\ queue'[i - 1] = queue[i]
    BY <1>2, <2>3
  <2> QED
    BY <2>2, <2>4
<1>8. OneRuns'
  BY <1>2, <1>5, <1>6, <1>7 DEF OneRuns, Active
<1> QED
  BY <1>1, <1>2, <1>3, <1>8

(* What a submission, or another client, does to the changesets.           *)
LEMMA LogGrows ==
  ASSUME RuntimeTypes, NEW x \in Writes \cup {"other"}, changesets' = Append(changesets, x)
  PROVE  /\ changesets' \in Seq(Writes \cup {"other"})
         /\ \A i \in DOMAIN changesets : i \in DOMAIN changesets' /\ changesets'[i] = changesets[i]
         /\ \A i \in DOMAIN changesets' : i \in DOMAIN changesets \/ (i = Len(changesets) + 1 /\ changesets'[i] = x)
         /\ Len(changesets) + 1 \in DOMAIN changesets' /\ changesets'[Len(changesets) + 1] = x
BY AppendProperties, LenProperties DEF RuntimeTypes

(* What an operation's end leaves behind: its runtime as it was, or none.  *)
LEMMA EndKeeps ==
  ASSUME RuntimeInv, queue # <<>>, NEW o \in Runtime!Ops, Head(queue) = o,
         NEW result \in Ended, Runtime!Leaves(o, result),
         \/ entry' = 0 /\ instance' = Runtime!NoInstance
         \/ /\ entry' = entry /\ instance' \in [init : Nat, base : Nat, pending : {{}}]
            /\ instance'.init = instance.init /\ instance # Runtime!NoInstance,
         cookie' = cookie, result = "committed" => o \in Writes /\ Runtime!Landed(o)',
         Runtime!Landed(o) => result \in {"committed", "failed"},
         \/ changesets' = changesets
         \/ /\ o \in Writes /\ result \in {"committed", "failed"}
            /\ changesets' = Append(changesets, o) /\ Len(changesets) = op[o].target
  PROVE  RuntimeInv'
<1> USE DEF RuntimeInv
<1>1. /\ OneRuns' /\ op' \in [Runtime!Ops -> Operation] /\ queue' \in Seq(Runtime!Ops)
      /\ op'[o] = [op[o] EXCEPT !.at = result]
      /\ \A p \in Runtime!Ops \ {o} : op'[p] = op[p] /\ op[p].at \notin Active \ {"queued"}
  BY LeavesChain
<1>2. op'[o].at = result /\ op'[o].target = op[o].target
  BY <1>1 DEF RuntimeTypes, Operation
<1>3. RuntimeTypes'
  BY <1>1, LogGrows DEF RuntimeTypes, Runtime!NoInstance
<1>4. \A p \in Runtime!Ops : op'[p].at \notin Active \ {"queued"}
  BY <1>1, <1>2 DEF Ended, Active
<1>5. RuntimeFollows'
  <2>1. \A p \in Runtime!Ops : RuntimeOf(p)'
    BY <1>4 DEF RuntimeOf, Active
  <2>2. instance' = Runtime!NoInstance \/ (instance'.init = entry' /\ entry' # 0)
    BY DEF RuntimeFollows
  <2>3. instance' = Runtime!NoInstance => entry' = 0
    BY DEF RuntimeFollows, Runtime!NoInstance
  <2>4. instance'.pending = {}
    BY DEF Runtime!NoInstance
  <2> QED
    BY <2>1, <2>2, <2>3, <2>4 DEF RuntimeFollows
<1>6. LandsWhereMeant'
  <2>1. ASSUME NEW p \in Writes
        PROVE  /\ op'[p].at = "committed" => Runtime!Landed(p)'
               /\ \A i \in DOMAIN changesets' : changesets'[i] = p =>
                    i = op'[p].target + 1 /\ op'[p].at \in {"committing", "committed", "failed"}
    <3>1. p \in Runtime!Ops /\ op'[p].target = op[p].target /\ (p # o => op'[p] = op[p])
      BY <1>1, <1>2 DEF Runtime!Ops
    <3>2. op'[p].at = "committed" => Runtime!Landed(p)'
      <4>1. CASE p = o
        BY <1>2, <4>1
      <4>2. CASE p # o
        <5>1. op'[p].at = "committed" => Runtime!Landed(p)
          BY <3>1, <4>2 DEF LandsWhereMeant
        <5> QED
          BY <5>1, LogGrows DEF Runtime!Landed
      <4> QED
        BY <4>1, <4>2
    <3>3. ASSUME NEW i \in DOMAIN changesets', changesets'[i] = p
          PROVE  i = op'[p].target + 1 /\ op'[p].at \in {"committing", "committed", "failed"}
      <4>1. CASE i \in DOMAIN changesets /\ changesets[i] = p
        BY <1>2, <3>1, <4>1 DEF LandsWhereMeant, Runtime!Landed
      <4>2. CASE i = Len(changesets) + 1 /\ p = o /\ result \in {"committed", "failed"} /\ Len(changesets) = op[o].target
        BY <1>2, <3>1, <4>2
      <4> QED
        BY <3>3, <4>1, <4>2, LogGrows
    <3> QED
      BY <3>2, <3>3
  <2> QED
    BY <2>1 DEF LandsWhereMeant
<1> QED
  BY <1>1, <1>3, <1>5, <1>6

(* After a failure a write leaves no runtime; a read leaves the one it     *)
(* had.                                                                    *)
LEMMA AfterKinds ==
  ASSUME RuntimeInv, queue # <<>>, NEW o \in Runtime!Ops, Head(queue) = o, Runtime!AfterFailure(o)
  PROVE  \/ entry' = 0 /\ instance' = Runtime!NoInstance
         \/ /\ entry' = entry /\ instance' \in [init : Nat, base : Nat, pending : {{}}]
            /\ instance'.init = instance.init
<1>1. CASE o \in Writes
  BY <1>1 DEF Runtime!AfterFailure, Runtime!Invalidate
<1>2. CASE o \notin Writes
  <2>1. op[o].at # "committing"
    BY <1>2 DEF RuntimeInv, RuntimeFollows, RuntimeOf
  <2>2. instance.pending = {}
    BY <2>1, HeadRuns DEF RuntimeInv, RuntimeFollows, Active
  <2> QED
    BY <1>2, <2>2 DEF Runtime!AfterFailure, Runtime!Release, RuntimeInv, RuntimeTypes
<1> QED
  BY <1>1, <1>2

(* What landed is a write that committed, or was committing when it ended. *)
LEMMA LandedCommits ==
  ASSUME RuntimeInv, NEW o \in Runtime!Ops, Runtime!Landed(o)
  PROVE  o \in Writes /\ op[o].at \in {"committing", "committed", "failed"}
<1>1. PICK i \in DOMAIN changesets : changesets[i] = o
  BY DEF Runtime!Landed
<1>2. changesets[i] \in Writes \cup {"other"}
  BY <1>1, ElementOfSeq, LenProperties DEF RuntimeInv, RuntimeTypes
<1>3. o \in Writes
  BY <1>1, <1>2, OthersAreApart DEF Runtime!Ops
<1> QED
  BY <1>1, <1>3 DEF RuntimeInv, LandsWhereMeant

(* A failure of the operation at the head keeps the invariant, whether or  *)
(* not its changeset had landed.                                           *)
LEMMA FailKeeps ==
  ASSUME RuntimeInv, queue # <<>>, NEW o \in Runtime!Ops, Head(queue) = o, Runtime!Fails(o),
         op[o].at \in {"leased", "synced", "committing"}, cookie' = cookie,
         changesets' = changesets \/ (o \in Writes /\ changesets' = Append(changesets, o) /\ Len(changesets) = op[o].target)
  PROVE  RuntimeInv'
<1>1. Runtime!Leaves(o, "failed") /\ Runtime!AfterFailure(o) /\ "failed" \in Ended
  BY DEF Runtime!Fails, Ended
<1>2. instance # Runtime!NoInstance
  BY DEF RuntimeInv, RuntimeFollows, RuntimeOf, Runtime!NoInstance
<1> QED
  BY <1>1, <1>2, LandedCommits, AfterKinds, EndKeeps

(* The operation at the head goes on.                                      *)
LEMMA GoOnKeeps ==
  ASSUME RuntimeInv, queue # <<>>, NEW o \in Runtime!Ops, Head(queue) = o,
         NEW at \in Active \ {"queued"},
         op' \in [Runtime!Ops -> Operation], op'[o].at = at, op'[o].target = op[o].target,
         \A p \in Runtime!Ops \ {o} : op'[p] = op[p],
         queue' = queue, cookie' = cookie, entry' \in Nat,
         instance' \in [init : Nat, base : Nat, pending : SUBSET Writes],
         RuntimeOf(o)',
         instance' = Runtime!NoInstance \/ (instance'.init = entry' /\ entry' # 0),
         instance' = Runtime!NoInstance /\ entry' # 0 => at = "acquiring",
         instance'.pending # {} => at = "committing",
         Runtime!Landed(o) => at = "committing",
         \/ changesets' = changesets
         \/ at = "committing" /\ o \in Writes /\ changesets' = Append(changesets, o) /\ Len(changesets) = op[o].target
  PROVE  RuntimeInv'
<1> USE DEF RuntimeInv
<1>1. OneRuns'
  BY GoesOn
<1>2. RuntimeTypes'
  BY LogGrows DEF RuntimeTypes
<1>3. \A p \in Runtime!Ops \ {o} : op'[p].at \notin Active \ {"queued"}
  BY HeadRuns
<1>4. RuntimeFollows'
  <2>1. \A p \in Runtime!Ops \ {o} : RuntimeOf(p)'
    BY <1>3 DEF RuntimeOf, Active
  <2> QED
    BY <2>1 DEF RuntimeFollows
<1>5. LandsWhereMeant'
  <2>1. ASSUME NEW p \in Writes
        PROVE  /\ op'[p].at = "committed" => Runtime!Landed(p)'
               /\ \A i \in DOMAIN changesets' : changesets'[i] = p =>
                    i = op'[p].target + 1 /\ op'[p].at \in {"committing", "committed", "failed"}
    <3>1. p \in Runtime!Ops /\ p # "other"
      BY OthersAreApart DEF Runtime!Ops
    <3>2. op'[p].target = op[p].target /\ (p # o => op'[p] = op[p])
      BY <3>1
    <3>3. op'[p].at = "committed" => Runtime!Landed(p)'
      <4>1. op'[p].at = "committed" => p # o /\ Runtime!Landed(p)
        BY <3>2 DEF LandsWhereMeant, Active
      <4> QED
        BY <4>1, LogGrows DEF Runtime!Landed
    <3>4. ASSUME NEW i \in DOMAIN changesets', changesets'[i] = p
          PROVE  i = op'[p].target + 1 /\ op'[p].at \in {"committing", "committed", "failed"}
      <4>1. CASE i \in DOMAIN changesets /\ changesets[i] = p
        BY <3>2, <4>1 DEF LandsWhereMeant, Runtime!Landed
      <4>2. CASE i = Len(changesets) + 1 /\ p = o /\ at = "committing" /\ Len(changesets) = op[o].target
        BY <3>2, <4>2
      <4> QED
        BY <3>4, <4>1, <4>2, LogGrows
    <3> QED
      BY <3>3, <3>4
  <2> QED
    BY <2>1 DEF LandsWhereMeant
<1> QED
  BY <1>1, <1>2, <1>4, <1>5

(* The chain and what it runs stay; another client may add a changeset.    *)
LEMMA SurroundingsKeep ==
  ASSUME RuntimeInv, UNCHANGED <<queue, op, instance, entry>>, cookie' \in Nat \ {0},
         changesets' = changesets \/ changesets' = Append(changesets, "other")
  PROVE  RuntimeInv'
<1> USE DEF RuntimeInv
<1>1. RuntimeTypes'
  BY LogGrows DEF RuntimeTypes
<1>2. OneRuns' /\ RuntimeFollows'
  BY DEF OneRuns, RuntimeFollows, RuntimeOf
<1>3. LandsWhereMeant'
  <2>1. \A p \in Writes : p # "other"
    BY OthersAreApart
  <2> QED
    BY <2>1, LogGrows DEF LandsWhereMeant, Runtime!Landed
<1> QED
  BY <1>1, <1>2, <1>3

(* A request joins the end of the chain, with the revision it was made     *)
(* for.                                                                    *)
LEMMA RequestKeeps ==
  ASSUME RuntimeInv, NEW o \in Runtime!Ops, Runtime!Request(o)
  PROVE  RuntimeInv'
<1> USE DEF RuntimeInv
<1> DEFINE n == Len(queue)
<1>1. /\ op[o].at = "idle" /\ op' = [op EXCEPT ![o].at = "queued", ![o].target = Len(changesets)]
      /\ queue' = Append(queue, o) /\ UNCHANGED <<cookie, entry, instance, changesets>>
  BY DEF Runtime!Request
<1>2. Len(changesets) \in Nat
  BY LenProperties DEF RuntimeTypes
<1>3. /\ op' \in [Runtime!Ops -> Operation] /\ op'[o].at = "queued"
      /\ \A p \in Runtime!Ops \ {o} : op'[p] = op[p]
  BY <1>1, <1>2 DEF RuntimeTypes, Operation, Active
<1>4. /\ queue' \in Seq(Runtime!Ops) /\ Len(queue') = n + 1 /\ queue'[n + 1] = o /\ n \in Nat
      /\ \A i \in 1..n : queue'[i] = queue[i] /\ queue[i] \in Runtime!Ops
  BY <1>1, AppendProperties, LenProperties, ElementOfSeq DEF RuntimeTypes
<1>5. \A i \in 1..n : queue[i] # o
  BY <1>1 DEF OneRuns, Active
<1>6. OneRuns'
  <2>1. \A i \in 1..n+1 : op'[queue'[i]].at \in Active /\ (i > 1 => op'[queue'[i]].at = "queued")
    BY <1>3, <1>4, <1>5 DEF OneRuns, Active
  <2>2. \A i, j \in 1..n+1 : queue'[i] = queue'[j] => i = j
    BY <1>4, <1>5 DEF OneRuns
  <2>3. ASSUME NEW p \in Runtime!Ops, op'[p].at \in Active PROVE \E i \in 1..n+1 : queue'[i] = p
    <3>1. CASE p = o
      BY <1>4, <3>1
    <3>2. CASE p # o
      <4>1. PICK i \in 1..n : queue[i] = p
        BY <1>3, <2>3, <3>2 DEF OneRuns
      <4>2. i \in 1..n+1 /\ queue'[i] = p
        BY <1>4, <4>1
      <4> QED
        BY <4>2
    <3> QED
      BY <3>1, <3>2
  <2> QED
    BY <1>4, <2>1, <2>2, <2>3 DEF OneRuns
<1>7. RuntimeTypes'
  BY <1>1, <1>3, <1>4 DEF RuntimeTypes
<1>8. RuntimeFollows'
  BY <1>1, <1>3 DEF RuntimeFollows, RuntimeOf
<1>9. LandsWhereMeant'
  <2>1. \A p \in Writes : p \in Runtime!Ops
    BY DEF Runtime!Ops
  <2> QED
    BY <1>1, <1>3, <2>1 DEF LandsWhereMeant, Runtime!Landed
<1> QED
  BY <1>6, <1>7, <1>8, <1>9

-----------------------------------------------------------------------------
(* Every step of the runtime, its pool and its surroundings keeps the      *)
(* invariant.                                                              *)
LEMMA RuntimeInvKept ==
  RuntimeInv /\ [Runtime!Next]_Runtime!vars => RuntimeInv'
<1> SUFFICES ASSUME RuntimeInv, [Runtime!Next]_Runtime!vars PROVE RuntimeInv'
  OBVIOUS
<1>0. RuntimeTypes /\ OneRuns /\ RuntimeFollows /\ LandsWhereMeant
  BY DEF RuntimeInv
<1>1. ASSUME NEW o \in Runtime!Ops, Runtime!Request(o) PROVE RuntimeInv'
  BY <1>1, RequestKeeps
<1>2. ASSUME NEW o \in Runtime!Ops, Runtime!ResolveInit(o) PROVE RuntimeInv'
  <2>1. /\ queue # <<>> /\ Head(queue) = o /\ op[o].at = "queued"
        /\ UNCHANGED <<cookie, instance, changesets>>
    BY <1>2 DEF Runtime!ResolveInit, Runtime!Running
  <2>2. ~Runtime!Landed(o)
    BY <2>1, LandedCommits
  <2>3. \A p \in Runtime!Ops : op[p].at \notin {"acquiring", "committing"}
    BY <2>1, HeadRuns, <1>0 DEF Active
  <2>4. CASE entry' = (IF entry = 0 THEN cookie ELSE entry) /\ Runtime!Goes(o, "acquiring") /\ UNCHANGED queue
    <3>1. /\ op' \in [Runtime!Ops -> Operation] /\ op'[o].at = "acquiring" /\ op'[o].target = op[o].target
          /\ \A p \in Runtime!Ops \ {o} : op'[p] = op[p]
      BY <1>0, <2>4 DEF Runtime!Goes, RuntimeTypes, Operation, Active
    <3>2. entry' \in Nat \ {0} /\ (instance # Runtime!NoInstance => entry' = entry)
      BY <1>0, <2>4 DEF RuntimeTypes, RuntimeFollows
    <3>3. instance.pending = {}
      BY <1>0, <2>3 DEF RuntimeFollows
    <3>4. RuntimeOf(o)'
      BY <3>1, <3>2 DEF RuntimeOf
    <3>5. instance' \in [init : Nat, base : Nat, pending : SUBSET Writes]
          /\ (instance' = Runtime!NoInstance \/ (instance'.init = entry' /\ entry' # 0))
      BY <1>0, <2>1, <3>2 DEF RuntimeTypes, RuntimeFollows
    <3> QED
      BY <2>1, <2>2, <2>4, <3>1, <3>2, <3>3, <3>4, <3>5, GoOnKeeps DEF Active
  <2>5. CASE entry = 0 /\ Runtime!Leaves(o, "failed") /\ UNCHANGED entry
    <3>1. instance' = Runtime!NoInstance /\ entry' = 0
      BY <1>0, <2>1, <2>5 DEF RuntimeFollows
    <3> QED
      BY <2>1, <2>2, <2>5, <3>1, EndKeeps DEF Ended
  <2> QED
    BY <1>2, <2>4, <2>5 DEF Runtime!ResolveInit
<1>3. ASSUME NEW o \in Runtime!Ops, Runtime!AcquireLease(o) PROVE RuntimeInv'
  <2>1. /\ queue # <<>> /\ Head(queue) = o /\ op[o].at = "acquiring"
        /\ UNCHANGED <<cookie, changesets>>
    BY <1>3 DEF Runtime!AcquireLease, Runtime!Running
  <2>2. ~Runtime!Landed(o) /\ entry # 0 /\ entry \in Nat /\ Len(changesets) \in Nat
    BY <1>0, <2>1, LandedCommits, LenProperties DEF RuntimeFollows, RuntimeOf, RuntimeTypes
  <2>3. \A p \in Runtime!Ops : op[p].at # "committing"
    BY <2>1, HeadRuns, <1>0 DEF Active
  <2>4. ASSUME instance' = IF instance = Runtime!NoInstance
                 THEN [init |-> entry, base |-> Len(changesets), pending |-> {}] ELSE instance,
               Runtime!Goes(o, "leased"), UNCHANGED <<entry, queue>>
        PROVE  RuntimeInv'
    <3>1. /\ op' \in [Runtime!Ops -> Operation] /\ op'[o].at = "leased" /\ op'[o].target = op[o].target
          /\ \A p \in Runtime!Ops \ {o} : op'[p] = op[p]
      BY <1>0, <2>4 DEF Runtime!Goes, RuntimeTypes, Operation, Active
    <3>2. instance' \in [init : Nat, base : Nat, pending : SUBSET Writes] /\ instance'.init = entry
      BY <1>0, <2>2, <2>4 DEF RuntimeTypes, RuntimeFollows
    <3>3. instance'.pending = {} /\ instance' # Runtime!NoInstance
      BY <1>0, <2>2, <2>3, <2>4, <3>2 DEF RuntimeFollows, Runtime!NoInstance
    <3>4. RuntimeOf(o)'
      BY <2>2, <3>1, <3>2 DEF RuntimeOf
    <3> QED
      BY <2>1, <2>2, <2>4, <3>1, <3>2, <3>3, <3>4, GoOnKeeps DEF Active
  <2>5. CASE instance = Runtime!NoInstance /\ entry' = 0 /\ Runtime!Leaves(o, "failed") /\ UNCHANGED instance
    BY <2>1, <2>2, <2>5, EndKeeps DEF Ended
  <2> QED
    BY <1>3, <2>4, <2>5 DEF Runtime!AcquireLease
<1>4. ASSUME NEW o \in Runtime!Ops, Runtime!Synchronize(o) PROVE RuntimeInv'
  <2>1. /\ queue # <<>> /\ Head(queue) = o /\ op[o].at = "leased" /\ instance.pending = {}
        /\ instance' = [instance EXCEPT !.base = Len(changesets)]
        /\ UNCHANGED <<cookie, changesets>>
    BY <1>4 DEF Runtime!Synchronize, Runtime!Running
  <2>2. ~Runtime!Landed(o) /\ Len(changesets) \in Nat /\ instance.init # 0 /\ instance # Runtime!NoInstance
    BY <1>0, <2>1, LandedCommits, LenProperties
      DEF RuntimeFollows, RuntimeOf, RuntimeTypes, Runtime!NoInstance
  <2>3. /\ instance' \in [init : Nat, base : Nat, pending : {{}}]
        /\ instance' \in [init : Nat, base : Nat, pending : SUBSET Writes]
        /\ instance'.init = instance.init /\ instance'.base = Len(changesets) /\ instance'.pending = {}
    BY <1>0, <2>1, <2>2 DEF RuntimeTypes
  <2>4. CASE op[o].target = Len(changesets) /\ Runtime!Goes(o, "synced") /\ UNCHANGED <<entry, queue>>
    <3>1. /\ op' \in [Runtime!Ops -> Operation] /\ op'[o].at = "synced" /\ op'[o].target = op[o].target
          /\ \A p \in Runtime!Ops \ {o} : op'[p] = op[p]
      BY <1>0, <2>4 DEF Runtime!Goes, RuntimeTypes, Operation, Active
    <3>2. RuntimeOf(o)'
      BY <2>2, <2>3, <2>4, <3>1 DEF RuntimeOf
    <3>3. instance' # Runtime!NoInstance /\ instance'.init = entry' /\ entry' # 0 /\ entry' \in Nat
      BY <1>0, <2>2, <2>3, <2>4 DEF RuntimeFollows, RuntimeTypes, Runtime!NoInstance
    <3> QED
      BY <2>1, <2>2, <2>3, <2>4, <3>1, <3>2, <3>3, GoOnKeeps DEF Active
  <2>5. CASE Runtime!Leaves(o, "failed") /\ UNCHANGED entry
    BY <2>1, <2>2, <2>3, <2>5, EndKeeps DEF Ended
  <2> QED
    BY <1>4, <2>4, <2>5 DEF Runtime!Synchronize
<1>5. ASSUME NEW o \in Runtime!Ops, Runtime!SynchronizeFails(o) PROVE RuntimeInv'
  BY <1>5, FailKeeps DEF Runtime!SynchronizeFails, Runtime!Running
<1>6. ASSUME NEW o \in Runtime!Ops, queue # <<>>, Runtime!Running(o, "synced"), Runtime!Leaves(o, "read") \/ Runtime!Leaves(o, "nothing"),
             Runtime!GivesBack(o), UNCHANGED <<cookie, changesets>>
      PROVE  RuntimeInv'
  <2>1. ~Runtime!Landed(o) /\ instance # Runtime!NoInstance /\ Head(queue) = o
    BY <1>0, <1>6, LandedCommits DEF Runtime!Running, RuntimeFollows, RuntimeOf,
      Runtime!NoInstance
  <2>2. \A p \in Runtime!Ops : op[p].at # "committing"
    BY <1>0, <1>6, HeadRuns DEF Active, Runtime!Running
  <2>3. instance' \in [init : Nat, base : Nat, pending : {{}}] /\ instance' = instance
        /\ entry' = entry
    BY <1>0, <1>6, <2>2 DEF RuntimeTypes, RuntimeFollows, Runtime!GivesBack, Runtime!Release
  <2> QED
    BY <1>6, <2>1, <2>3, EndKeeps DEF Ended
<1>7. ASSUME NEW o \in Runtime!Ops, Runtime!ExecuteRead(o) PROVE RuntimeInv'
  BY <1>6, <1>7 DEF Runtime!ExecuteRead
<1>8. ASSUME NEW o \in Runtime!Ops, Runtime!ExecuteWrite(o) PROVE RuntimeInv'
  <2>1. CASE Runtime!Goes(o, "committing") /\ instance' = [instance EXCEPT !.pending = {o}]
             /\ UNCHANGED <<entry, queue>>
    <3>1. /\ queue # <<>> /\ Head(queue) = o /\ op[o].at = "synced" /\ o \in Writes
          /\ UNCHANGED <<cookie, changesets>>
      BY <1>8 DEF Runtime!ExecuteWrite, Runtime!Running
    <3>2. /\ op' \in [Runtime!Ops -> Operation] /\ op'[o].at = "committing" /\ op'[o].target = op[o].target
          /\ \A p \in Runtime!Ops \ {o} : op'[p] = op[p]
      BY <1>0, <2>1 DEF Runtime!Goes, RuntimeTypes, Operation, Active
    <3>3. /\ instance' \in [init : Nat, base : Nat, pending : SUBSET Writes]
          /\ instance'.init = instance.init /\ instance'.base = instance.base
          /\ instance.init # 0 /\ instance.base = op[o].target
      BY <1>0, <2>1, <3>1 DEF RuntimeTypes, RuntimeFollows, RuntimeOf
    <3>4. instance' # Runtime!NoInstance /\ instance'.init = entry' /\ entry' # 0 /\ entry' \in Nat
      BY <1>0, <2>1, <3>3 DEF RuntimeFollows, RuntimeTypes, Runtime!NoInstance
    <3>5. RuntimeOf(o)'
      BY <3>1, <3>2, <3>3 DEF RuntimeOf
    <3> QED
      BY <2>1, <3>1, <3>2, <3>3, <3>4, <3>5, GoOnKeeps DEF Active
  <2>2. CASE Runtime!Leaves(o, "nothing") /\ Runtime!GivesBack(o)
    BY <1>6, <1>8, <2>2 DEF Runtime!ExecuteWrite
  <2> QED
    BY <1>8, <2>1, <2>2 DEF Runtime!ExecuteWrite
<1>9. ASSUME NEW o \in Runtime!Ops, Runtime!ExecuteFails(o) PROVE RuntimeInv'
  BY <1>9, FailKeeps DEF Runtime!ExecuteFails, Runtime!Running
<1>10. ASSUME NEW o \in Runtime!Ops, Runtime!Refused(o) PROVE RuntimeInv'
  BY <1>10, FailKeeps DEF Runtime!Refused, Runtime!Running
<1>11. ASSUME NEW o \in Runtime!Ops, queue # <<>>, Runtime!Running(o, "committing"), Runtime!Submits(o)
       PROVE  /\ o \in Writes /\ Runtime!Landed(o)' /\ instance.base = op[o].target
              /\ changesets' = changesets \/ (changesets' = Append(changesets, o) /\ Len(changesets) = op[o].target)
  <2>1. o \in Writes /\ instance.base = op[o].target
    BY <1>0, <1>11 DEF Runtime!Running, RuntimeFollows, RuntimeOf
  <2> QED
    BY <1>0, <1>11, <2>1, LogGrows DEF Runtime!Submits, Runtime!Landed
<1>12. ASSUME NEW o \in Runtime!Ops, Runtime!Confirmed(o) PROVE RuntimeInv'
  <2>1. /\ queue # <<>> /\ Head(queue) = o /\ Runtime!Running(o, "committing") /\ Runtime!Submits(o)
        /\ Runtime!Leaves(o, "committed") /\ cookie' = cookie /\ entry' = entry
        /\ instance' = [instance EXCEPT !.pending = {}, !.base = Len(changesets')]
    BY <1>12 DEF Runtime!Confirmed, Runtime!Running
  <2>2. instance # Runtime!NoInstance /\ Len(changesets') \in Nat
    BY <1>0, <1>11, <2>1, LogGrows, LenProperties
      DEF Runtime!Running, RuntimeFollows, RuntimeOf, Runtime!NoInstance, RuntimeTypes
  <2>3. instance' \in [init : Nat, base : Nat, pending : {{}}] /\ instance'.init = instance.init
    BY <1>0, <2>1, <2>2 DEF RuntimeTypes
  <2> QED
    BY <1>11, <2>1, <2>2, <2>3, EndKeeps DEF Ended
<1>13. ASSUME NEW o \in Runtime!Ops, Runtime!AnswerLost(o) PROVE RuntimeInv'
  <2>1. /\ queue # <<>> /\ Head(queue) = o /\ op[o].at = "committing" /\ cookie' = cookie
        /\ Runtime!Running(o, "committing") /\ (Runtime!Submits(o) \/ UNCHANGED changesets) /\ Runtime!UnknownIsRetried(o)
    BY <1>13 DEF Runtime!AnswerLost, Runtime!Running, Runtime!Unknown
  <2>2. o \in Writes
    BY <1>0, <2>1 DEF RuntimeFollows, RuntimeOf
  <2>3. changesets' = changesets \/ (changesets' = Append(changesets, o) /\ Len(changesets) = op[o].target)
    BY <1>11, <2>1
  <2>4. CASE op' = [op EXCEPT ![o].tries = @ + 1] /\ UNCHANGED <<entry, instance, queue>>
    <3>1. /\ op' \in [Runtime!Ops -> Operation] /\ op'[o].at = "committing" /\ op'[o].target = op[o].target
          /\ \A p \in Runtime!Ops \ {o} : op'[p] = op[p]
      <4>0. op[o] \in Operation /\ o \in Runtime!Ops
        BY <1>0 DEF RuntimeTypes
      <4>1. [op[o] EXCEPT !.tries = @ + 1] \in Operation
        BY ONLY <4>0 DEF Operation
      <4> QED
        BY <1>0, <2>1, <2>4, <4>1 DEF RuntimeTypes, Operation
    <3>2. RuntimeOf(o)' /\ RuntimeOf(o)
      BY <1>0, <2>1, <2>4, <3>1 DEF RuntimeFollows, RuntimeOf
    <3>3. instance' # Runtime!NoInstance /\ instance'.init = entry' /\ entry' # 0
      BY <1>0, <2>1, <2>4, <3>2 DEF RuntimeFollows, RuntimeOf, Runtime!NoInstance
    <3>4. entry' \in Nat /\ instance' \in [init : Nat, base : Nat, pending : SUBSET Writes]
      BY <1>0, <2>4 DEF RuntimeTypes
    <3> QED
      BY <2>1, <2>2, <2>3, <2>4, <3>1, <3>2, <3>3, <3>4, GoOnKeeps DEF Active
  <2>5. CASE Runtime!Fails(o)
    BY <2>1, <2>2, <2>3, <2>5, FailKeeps
  <2> QED
    BY <2>1, <2>4, <2>5 DEF Runtime!UnknownIsRetried
<1>14. ASSUME NEW o \in Runtime!Ops, Runtime!WorkerFails(o) PROVE RuntimeInv'
  BY <1>0, <1>14, LandedCommits, EndKeeps DEF Runtime!WorkerFails, Runtime!Leased,
    Runtime!Invalidate, Ended
<1>15. CASE Runtime!Evict
  <2>1. \A p \in Runtime!Ops : op[p].at \notin Active \ {"queued"}
    BY <1>0, <1>15, HeadRuns DEF Runtime!Evict, Runtime!Leased, Active, OneRuns
  <2>2. RuntimeTypes' /\ OneRuns' /\ LandsWhereMeant'
    BY <1>0, <1>15 DEF Runtime!Evict, Runtime!Invalidate, RuntimeTypes, OneRuns,
      LandsWhereMeant, Runtime!Landed, Runtime!NoInstance
  <2>3. RuntimeFollows'
    BY <1>0, <1>15, <2>1 DEF Runtime!Evict, Runtime!Invalidate, RuntimeFollows, RuntimeOf,
      Runtime!NoInstance, Active
  <2> QED
    BY <2>2, <2>3 DEF RuntimeInv
<1>16. CASE Runtime!Login
  BY <1>0, <1>16, SurroundingsKeep DEF Runtime!Login, RuntimeTypes
<1>17. CASE Runtime!OtherCommits
  BY <1>0, <1>17, SurroundingsKeep DEF Runtime!OtherCommits, RuntimeTypes
<1>18. CASE UNCHANGED Runtime!vars
  BY <1>0, <1>18, SurroundingsKeep DEF Runtime!vars, RuntimeTypes
<1> QED
  BY <1>1, <1>2, <1>3, <1>4, <1>5, <1>7, <1>8, <1>9, <1>10, <1>12, <1>13, <1>14, <1>15,
     <1>16, <1>17, <1>18 DEF Runtime!Next

(* A fresh client has an empty chain and no runtime.                       *)
LEMMA RuntimeInvAtFirst == Runtime!Init => RuntimeInv
<1> SUFFICES ASSUME Runtime!Init PROVE RuntimeInv
  OBVIOUS
<1>1. RuntimeTypes
  BY EmptySeq DEF Runtime!Init, RuntimeTypes, Operation, Runtime!NoInstance
<1>2. OneRuns /\ RuntimeFollows
  BY DEF Runtime!Init, OneRuns, RuntimeFollows, RuntimeOf, Runtime!NoInstance, Active
<1>3. LandsWhereMeant
  BY DEF Runtime!Init, LandsWhereMeant, Runtime!Landed, Runtime!Ops
<1> QED
  BY <1>1, <1>2, <1>3 DEF RuntimeInv

(* Chain, runtime and changesets agree in every reachable state.           *)
THEOREM RuntimeInvariant == Runtime!Spec => []RuntimeInv
BY RuntimeInvAtFirst, RuntimeInvKept, PTL DEF Runtime!Spec

(* A runtime with something unconfirmed in it is leased by a write that    *)
(* commits.                                                                *)
LEMMA CleanUnlessCommitting ==
  RuntimeInv => PooledIsReusable /\ LandsOnceOnItsRevision
<1> SUFFICES ASSUME RuntimeInv PROVE PooledIsReusable /\ LandsOnceOnItsRevision
  OBVIOUS
<1>0. RuntimeTypes /\ OneRuns /\ RuntimeFollows /\ LandsWhereMeant
  BY DEF RuntimeInv
<1>1. ~Runtime!Leased => instance.pending = {}
  <2>1. ASSUME NEW o \in Runtime!Ops, op[o].at = "committing" PROVE Runtime!Leased
    <3>1. queue # <<>>
      BY <1>0, <2>1, LenProperties DEF OneRuns, Active, RuntimeTypes
    <3> QED
      BY <1>0, <2>1, <3>1, HeadRuns DEF Runtime!Leased, Active
  <2> QED
    BY <1>0, <2>1 DEF RuntimeFollows
<1>2. entry # 0 => \/ instance # Runtime!NoInstance /\ instance.init = entry
                   \/ \E o \in Runtime!Ops : op[o].at = "acquiring" /\ instance = Runtime!NoInstance
  BY <1>0 DEF RuntimeFollows
<1>3. LandsOnceOnItsRevision
  BY <1>0 DEF LandsOnceOnItsRevision, Runtime!LandsOnceOnItsRevision, LandsWhereMeant,
    Runtime!Landed
<1> QED
  BY <1>1, <1>2, <1>3 DEF PooledIsReusable, Runtime!PooledIsReusable

(* LandsOnceOnItsRevision for any writes, reads and failures: a write      *)
(* lands once, on the revision it was made for.                            *)
THEOREM LandsOnce == Runtime!Spec => []LandsOnceOnItsRevision
BY RuntimeInvariant, CleanUnlessCommitting, PTL

(* PooledIsReusable for any operations: what is in the pool while nobody   *)
(* leases it can be used again.                                            *)
THEOREM Reusable == Runtime!Spec => []PooledIsReusable
BY RuntimeInvariant, CleanUnlessCommitting, PTL

-----------------------------------------------------------------------------
(***************************************************************************)
(* Change feed: a page that shows what is gone has word coming.            *)
(*                                                                         *)
(* NoChangeIsLost is about what pages show; a read under way may still     *)
(* bring an old version. The invariant adds that one answered before the   *)
(* last change has word coming behind it (StaleAnswers), and that a page   *)
(* waits for one read and saw nothing newer than the data (Waits).         *)
(***************************************************************************)

Answers == [at : {"free", "sent", "served"}, saw : Nat]

FeedTypes ==
  /\ data \in Nat /\ wire \in Nat
  /\ following \in [Tabs -> BOOLEAN] /\ dirty \in [Tabs -> BOOLEAN] /\ frame \in [Tabs -> BOOLEAN]
  /\ snapshot \in [Tabs -> SUBSET Nat] /\ shown \in [Tabs -> SUBSET Nat]
  /\ reads \in [Tabs -> Fetches \cup {None}]
  /\ reading \in [Tabs -> [Fetches -> Answers]]

Awaited(t) == reading[t][reads[t]]

(* What a page waits for is under way, has no snapshot beside it, and saw  *)
(* no version that does not exist yet.                                     *)
Waits ==
  \A t \in Tabs : reads[t] # None =>
    snapshot[t] = {} /\ Awaited(t) # Feed!Free /\ Awaited(t).saw <= data
      /\ (Awaited(t).at = "sent" => Awaited(t) = Feed!Sent)

(* An answer that is stale before it arrives has word coming behind it.    *)
StaleAnswers ==
  \A t \in Tabs :
    reads[t] # None /\ Awaited(t).at = "served" /\ Awaited(t).saw < data => Feed!WordIsComing(t)

FeedInv == FeedTypes /\ Waits /\ StaleAnswers /\ NoChangeIsLost

(* A step that leaves the caches alone keeps the invariant when it keeps   *)
(* word coming, and a new version brings word itself.                      *)
LEMMA QuietFeed ==
  ASSUME FeedInv, FeedTypes', UNCHANGED Feed!cache, data' >= data,
         \A t \in Tabs : data' # data \/ Feed!WordIsComing(t) => Feed!WordIsComing(t)'
  PROVE  FeedInv'
<1>1. Waits'
  BY DEF FeedInv, FeedTypes, Waits, Awaited, Feed!cache, Answers
<1>2. StaleAnswers'
  BY DEF FeedInv, FeedTypes, StaleAnswers, Awaited, Feed!cache
<1>3. NoChangeIsLost'
  BY DEF FeedInv, FeedTypes, NoChangeIsLost, Feed!NoChangeIsLost, Feed!cache
<1> QED
  BY <1>1, <1>2, <1>3 DEF FeedInv

(* A step of one page's cache leaves the other pages as they are.          *)
LEMMA OnePageReads ==
  ASSUME FeedInv, FeedTypes', UNCHANGED <<data, Feed!agent, following, dirty>>, NEW t \in Tabs,
         \A u \in Tabs \ {t} :
           /\ frame'[u] = frame[u] /\ snapshot'[u] = snapshot[u] /\ shown'[u] = shown[u]
           /\ reads'[u] = reads[u] /\ reading'[u] = reading[u],
         reads'[t] # None =>
           /\ snapshot'[t] = {} /\ Awaited(t)' # Feed!Free /\ Awaited(t)'.saw <= data
           /\ Awaited(t)'.at = "sent" => Awaited(t)' = Feed!Sent,
         reads'[t] # None /\ Awaited(t)'.at = "served" /\ Awaited(t)'.saw < data
           => Feed!WordIsComing(t)',
         (\E v \in snapshot'[t] \cup shown'[t] : v < data) => Feed!WordIsComing(t)'
  PROVE  FeedInv'
<1>1. ASSUME NEW u \in Tabs \ {t}
      PROVE  Awaited(u)' = Awaited(u) /\ (Feed!WordIsComing(u) => Feed!WordIsComing(u)')
  BY DEF Awaited, Feed!WordIsComing, Feed!agent
<1>2. Waits'
  BY <1>1 DEF FeedInv, Waits
<1>3. StaleAnswers'
  BY <1>1 DEF FeedInv, StaleAnswers
<1>4. NoChangeIsLost'
  BY <1>1 DEF FeedInv, NoChangeIsLost, Feed!NoChangeIsLost
<1> QED
  BY <1>2, <1>3, <1>4 DEF FeedInv

(* Every step keeps the types.                                             *)
LEMMA FeedTypesKept ==
  ASSUME FeedTypes, [Feed!Next]_Feed!vars
  PROVE  FeedTypes'
<1> USE DEF FeedTypes
<1>1. CASE Feed!Publish \/ Feed!Message
  BY <1>1 DEF Feed!Publish, Feed!Message, Feed!stream, Feed!cache
<1>5. CASE Feed!Notify
  <2>1. \A t \in Tabs : (dirty[t] \/ following[t]) \in BOOLEAN
    OBVIOUS
  <2>2. dirty' \in [Tabs -> BOOLEAN]
    BY <1>5, <2>1 DEF Feed!Notify
  <2> QED
    BY <1>5, <2>2 DEF Feed!Notify, Feed!cache
<1>6. CASE Feed!AgentRestarts
  BY <1>6 DEF Feed!AgentRestarts, Feed!cache
<1>4. CASE \/ Feed!TicketArrives \/ Feed!Open \/ Feed!ConnectFails \/ Feed!RemoveConnection
           \/ Feed!Reconnect \/ Feed!RetryExpires \/ UNCHANGED Feed!vars
  BY <1>4 DEF Feed!TicketArrives, Feed!Open, Feed!ConnectFails, Feed!RemoveConnection,
    Feed!Reconnect, Feed!RetryExpires,
    Feed!stream, Feed!cache, Feed!vars
<1>2. ASSUME NEW t \in Tabs, Feed!Follow(t) \/ Feed!Yield(t) \/ Feed!StreamEnds(t)
      PROVE  FeedTypes'
  BY <1>2 DEF Feed!Follow, Feed!Yield, Feed!StreamEnds, Feed!agent, Feed!cache
<1>3. ASSUME NEW t \in Tabs, NEW q \in Fetches,
             \/ Feed!View(t, q) \/ Feed!Receive(t, q) \/ Feed!Serve(t, q)
             \/ Feed!Answered(t, q) \/ Feed!Forgotten(t, q) \/ Feed!ReadFails(t, q)
      PROVE  FeedTypes'
  <2>1. Feed!Free \in Answers /\ Feed!Sent \in Answers /\ [at |-> "served", saw |-> data] \in Answers
        /\ reading[t][q].saw \in Nat
    BY DEF Feed!Free, Feed!Sent, Answers
  <2>2. \A v \in Answers : [reading EXCEPT ![t][q] = v] \in [Tabs -> [Fetches -> Answers]]
    OBVIOUS
  <2>3. UNCHANGED <<data, wire, following, dirty>>
        /\ frame' \in [Tabs -> BOOLEAN]
    BY <1>3 DEF Feed!View, Feed!Receive, Feed!Serve, Feed!Answered, Feed!Forgotten,
      Feed!ReadFails, Feed!Set, Feed!agent, Feed!stream
  <2>4. reading' \in [Tabs -> [Fetches -> Answers]]
    BY <1>3, <2>1, <2>2 DEF Feed!View, Feed!Receive, Feed!Serve, Feed!Answered, Feed!Forgotten,
      Feed!ReadFails, Feed!Fetch, Feed!Reading
  <2>5. reads' \in [Tabs -> Fetches \cup {None}]
    BY <1>3 DEF Feed!View, Feed!Receive, Feed!Serve, Feed!Answered, Feed!Forgotten,
      Feed!ReadFails, Feed!Fetch, Feed!Set
  <2>6. \A v \in SUBSET Nat : [snapshot EXCEPT ![t] = v] \in [Tabs -> SUBSET Nat]
                          /\ [shown EXCEPT ![t] = v] \in [Tabs -> SUBSET Nat]
    OBVIOUS
  <2>7. {} \in SUBSET Nat /\ {reading[t][q].saw} \in SUBSET Nat
    BY <2>1
  <2>8. \E v, w \in SUBSET Nat : /\ snapshot' \in {snapshot, [snapshot EXCEPT ![t] = v]}
                              /\ shown' \in {shown, [shown EXCEPT ![t] = w]}
    BY <1>3, <2>7 DEF Feed!View, Feed!Receive, Feed!Serve, Feed!Answered, Feed!Forgotten,
      Feed!ReadFails, Feed!Set
  <2>9. snapshot' \in [Tabs -> SUBSET Nat] /\ shown' \in [Tabs -> SUBSET Nat]
    BY <2>6, <2>8
  <2> QED
    BY <2>3, <2>4, <2>5, <2>9
<1> QED
  BY <1>1, <1>2, <1>3, <1>4, <1>5, <1>6 DEF Feed!Next

(* Every step of the feed, the socket and the pages keeps the invariant.   *)
LEMMA FeedInvKept ==
  FeedInv /\ [Feed!Next]_Feed!vars => FeedInv'
<1> SUFFICES ASSUME FeedInv, [Feed!Next]_Feed!vars PROVE FeedInv'
  OBVIOUS
<1>0. FeedTypes /\ FeedTypes'
  BY FeedTypesKept DEF FeedInv
<1>1. CASE Feed!Publish
  BY <1>0, <1>1, QuietFeed DEF Feed!Publish, FeedTypes, Feed!WordIsComing, Feed!stream, Feed!cache
<1>2. CASE \/ Feed!TicketArrives \/ Feed!Open \/ Feed!ConnectFails \/ Feed!RemoveConnection
           \/ Feed!Reconnect \/ Feed!RetryExpires \/ Feed!Message \/ Feed!AgentRestarts
  <2>1. UNCHANGED Feed!cache /\ data' = data
    BY <1>2 DEF Feed!TicketArrives, Feed!Open, Feed!ConnectFails, Feed!RemoveConnection,
      Feed!Reconnect, Feed!RetryExpires,
      Feed!Message, Feed!AgentRestarts, Feed!cache
  <2>2. socket' # "open" \/ wire' > 0 \/ pending' \/ \A t \in Tabs : ~following'[t]
    BY <1>0, <1>2 DEF Feed!TicketArrives, Feed!Open, Feed!ConnectFails, Feed!RemoveConnection,
      Feed!Reconnect,
      Feed!RetryExpires, Feed!Message, Feed!AgentRestarts, Feed!Moves
  <2> QED
    BY <1>0, <2>1, <2>2, QuietFeed DEF Feed!WordIsComing, FeedTypes
<1>3. CASE Feed!Notify
  <2>1. \A t \in Tabs : ~following'[t] \/ dirty'[t]
    BY <1>0, <1>3 DEF Feed!Notify, FeedTypes
  <2> QED
    BY <1>0, <1>3, <2>1, QuietFeed DEF Feed!Notify, Feed!WordIsComing, FeedTypes
<1>4. ASSUME NEW t \in Tabs, Feed!Follow(t) \/ Feed!Yield(t) \/ Feed!StreamEnds(t)
      PROVE  FeedInv'
  <2>1. UNCHANGED Feed!cache /\ data' = data /\ UNCHANGED Feed!agent
    BY <1>4 DEF Feed!Follow, Feed!Yield, Feed!StreamEnds
  <2>2. ~following'[t] \/ dirty'[t] \/ frame'[t]
    BY <1>0, <1>4 DEF Feed!Follow, Feed!Yield, Feed!StreamEnds, FeedTypes
  <2>3. \A u \in Tabs \ {t} :
          following'[u] = following[u] /\ dirty'[u] = dirty[u] /\ frame'[u] = frame[u]
    BY <1>0, <1>4 DEF Feed!Follow, Feed!Yield, Feed!StreamEnds, FeedTypes
  <2> QED
    BY <1>0, <2>1, <2>2, <2>3, QuietFeed DEF Feed!WordIsComing, FeedTypes, Feed!agent, Feed!cache
<1>5. ASSUME NEW t \in Tabs, NEW q \in Fetches, Feed!View(t, q) \/ Feed!Receive(t, q)
      PROVE  FeedInv'
  <2>1. reads'[t] = q /\ q # None /\ Awaited(t)' = Feed!Sent /\ snapshot'[t] = {} /\ data' = data
    BY <1>0, <1>5, NobodyReads DEF Feed!View, Feed!Receive, Feed!Fetch, Feed!Reading, Feed!Set,
      FeedTypes, Awaited
  <2>2. Feed!WordIsComing(t)'
    BY <2>1 DEF Feed!WordIsComing, Awaited
  <2>3. \A u \in Tabs \ {t} :
           /\ frame'[u] = frame[u] /\ snapshot'[u] = snapshot[u] /\ shown'[u] = shown[u]
           /\ reads'[u] = reads[u] /\ reading'[u] = reading[u]
    BY <1>0, <1>5 DEF Feed!View, Feed!Receive, Feed!Fetch, Feed!Reading, Feed!Set, FeedTypes,
      Feed!stream
  <2>4. UNCHANGED <<data, Feed!agent, following, dirty>>
    BY <1>5 DEF Feed!View, Feed!Receive, Feed!stream
  <2>5. Awaited(t)'.saw <= data /\ Awaited(t)' # Feed!Free /\ Awaited(t)'.at = "sent"
    BY <1>0, <2>1 DEF Feed!Sent, Feed!Free, FeedTypes
  <2> QED
    BY <1>0, <2>1, <2>2, <2>3, <2>4, <2>5, OnePageReads
<1>6. ASSUME NEW t \in Tabs, NEW q \in Fetches, Feed!Serve(t, q)
      PROVE  FeedInv'
  <2>1. reading' = [reading EXCEPT ![t][q] = [at |-> "served", saw |-> data]]
    BY <1>6 DEF Feed!Serve, Feed!Reading
  <2>2. UNCHANGED <<data, Feed!agent, following, dirty, frame, snapshot, reads, shown>>
    BY <1>6 DEF Feed!Serve, Feed!stream
  <2>3. CASE q = reads[t]
    <3>1. Awaited(t)' = [at |-> "served", saw |-> data] /\ reads'[t] # None /\ snapshot[t] = {}
      BY <1>0, <2>1, <2>2, <2>3, NobodyReads DEF Awaited, FeedTypes, FeedInv, Waits
    <3>2. Feed!WordIsComing(t)'
      BY <2>2, <3>1 DEF Feed!WordIsComing, Awaited
    <3>3. \A u \in Tabs \ {t} : reading'[u] = reading[u]
      BY <1>0, <2>1 DEF FeedTypes
    <3>4. Awaited(t)'.saw <= data /\ Awaited(t)' # Feed!Free /\ Awaited(t)'.at # "sent"
      BY <1>0, <3>1 DEF Feed!Free, FeedTypes
    <3> QED
      BY <1>0, <2>2, <3>1, <3>2, <3>3, <3>4, OnePageReads
  <2>4. CASE q # reads[t]
    <3>1. reads[t] # None => Awaited(t)' = Awaited(t)
      BY <1>0, <2>1, <2>2, <2>4 DEF Awaited, FeedTypes
    <3>2. Feed!WordIsComing(t) => Feed!WordIsComing(t)'
      BY <2>2, <3>1 DEF Feed!WordIsComing, Awaited, Feed!agent
    <3>3. \A u \in Tabs \ {t} : reading'[u] = reading[u]
      BY <1>0, <2>1 DEF FeedTypes
    <3> QED
      BY <1>0, <2>2, <3>1, <3>2, <3>3, OnePageReads
        DEF FeedInv, Waits, StaleAnswers, NoChangeIsLost, Feed!NoChangeIsLost
  <2> QED
    BY <2>3, <2>4
<1>7. ASSUME NEW t \in Tabs, NEW q \in Fetches, Feed!Answered(t, q)
      PROVE  FeedInv'
  <2> DEFINE saw == reading[t][q].saw
  <2>1. /\ reads'[t] = None /\ snapshot'[t] = {saw} /\ shown'[t] = {saw}
        /\ reads[t] = q /\ q # None /\ Awaited(t).at = "served" /\ Awaited(t).saw = saw
    BY <1>0, <1>7, NobodyReads DEF Feed!Answered, Feed!Reading, Feed!Set, FeedTypes, Awaited
  <2>2. UNCHANGED <<data, Feed!agent, following, dirty, frame>>
    BY <1>7 DEF Feed!Answered, Feed!stream
  <2>3. saw < data => Feed!WordIsComing(t)
    BY <2>1 DEF FeedInv, StaleAnswers
  <2>4. saw < data => Awaited(t) \notin {Feed!Sent, [at |-> "served", saw |-> data]}
    BY <1>0, <2>1 DEF Feed!Sent, FeedTypes, Answers
  <2>5. saw < data => Feed!WordIsComing(t)'
    BY <2>2, <2>3, <2>4 DEF Feed!WordIsComing, Awaited, Feed!agent
  <2>6. \A u \in Tabs \ {t} :
          /\ snapshot'[u] = snapshot[u] /\ shown'[u] = shown[u]
          /\ reads'[u] = reads[u] /\ reading'[u] = reading[u]
    BY <1>0, <1>7 DEF Feed!Answered, Feed!Reading, Feed!Set, FeedTypes
  <2>7. (\E v \in snapshot'[t] \cup shown'[t] : v < data) => Feed!WordIsComing(t)'
    BY <2>1, <2>5
  <2> QED
    BY <1>0, <2>1, <2>2, <2>6, <2>7, OnePageReads
<1>8. ASSUME NEW t \in Tabs, NEW q \in Fetches, Feed!Forgotten(t, q)
      PROVE  FeedInv'
  <2>1. UNCHANGED <<data, Feed!agent, following, dirty, frame, snapshot, shown>>
    BY <1>8 DEF Feed!Forgotten, Feed!stream
  <2>2. \A u \in Tabs \ {t} : reads'[u] = reads[u] /\ reading'[u] = reading[u]
    BY <1>0, <1>8 DEF Feed!Forgotten, Feed!Reading, Feed!Set, FeedTypes
  <2>3. CASE snapshot[t] = {} /\ reads[t] = None
    <3>1. reads'[t] = q /\ q # None /\ Awaited(t)' = Feed!Sent
      BY <1>0, <1>8, <2>3, NobodyReads DEF Feed!Forgotten, Feed!Reading, Feed!Set, FeedTypes,
        Awaited
    <3>2. Feed!WordIsComing(t)'
      BY <3>1 DEF Feed!WordIsComing, Awaited
    <3> QED
      BY <1>0, <2>1, <2>2, <2>3, <3>1, <3>2, OnePageReads DEF Feed!Sent, Feed!Free, FeedTypes
  <2>4. CASE ~(snapshot[t] = {} /\ reads[t] = None)
    <3>1. reads' = reads /\ (reads[t] # None => Awaited(t)' = Awaited(t))
      BY <1>0, <1>8, <2>4 DEF Feed!Forgotten, Feed!Reading, FeedTypes, Awaited
    <3>2. Feed!WordIsComing(t) => Feed!WordIsComing(t)'
      BY <2>1, <3>1 DEF Feed!WordIsComing, Awaited, Feed!agent
    <3> QED
      BY <1>0, <2>1, <2>2, <3>1, <3>2, OnePageReads
        DEF FeedInv, Waits, StaleAnswers, NoChangeIsLost, Feed!NoChangeIsLost
  <2> QED
    BY <2>3, <2>4
<1>9. ASSUME NEW t \in Tabs, NEW q \in Fetches, Feed!ReadFails(t, q)
      PROVE  FeedInv'
  <2>1. UNCHANGED <<data, Feed!agent, following, dirty, frame, snapshot>>
    BY <1>9 DEF Feed!ReadFails, Feed!stream
  <2>2. \A u \in Tabs \ {t} :
          reads'[u] = reads[u] /\ reading'[u] = reading[u] /\ shown'[u] = shown[u]
    BY <1>0, <1>9 DEF Feed!ReadFails, Feed!Reading, Feed!Set, FeedTypes
  <2>3. CASE q = reads[t]
    <3>1. reads'[t] = None /\ shown'[t] = {} /\ snapshot'[t] = {}
      BY <1>0, <1>9, <2>1, <2>3, NobodyReads DEF Feed!ReadFails, Feed!Set, FeedTypes, FeedInv,
        Waits
    <3> QED
      BY <1>0, <2>1, <2>2, <3>1, OnePageReads
  <2>4. CASE q # reads[t]
    <3>1. reads' = reads /\ shown' = shown /\ (reads[t] # None => Awaited(t)' = Awaited(t))
      BY <1>0, <1>9, <2>4 DEF Feed!ReadFails, Feed!Reading, FeedTypes, Awaited
    <3>2. Feed!WordIsComing(t) => Feed!WordIsComing(t)'
      BY <2>1, <3>1 DEF Feed!WordIsComing, Awaited, Feed!agent
    <3> QED
      BY <1>0, <2>1, <2>2, <3>1, <3>2, OnePageReads
        DEF FeedInv, Waits, StaleAnswers, NoChangeIsLost, Feed!NoChangeIsLost
  <2> QED
    BY <2>3, <2>4
<1>10. CASE UNCHANGED Feed!vars
  BY <1>0, <1>10, QuietFeed DEF Feed!vars, Feed!cache, Feed!WordIsComing, FeedTypes
<1> QED
  BY <1>1, <1>2, <1>3, <1>4, <1>5, <1>6, <1>7, <1>8, <1>9, <1>10 DEF Feed!Next

(* NoChangeIsLost for any pages, reads and number of changes: a page that  *)
(* shows a version that is gone has word coming.                           *)
THEOREM NoChangeLost == Feed!Spec => []NoChangeIsLost
<1>1. Feed!Init => FeedInv
  <2> SUFFICES ASSUME Feed!Init PROVE FeedInv
    OBVIOUS
  <2>1. FeedTypes
    BY DEF Feed!Init, FeedTypes, Feed!Free, Answers
  <2> QED
    BY <2>1 DEF Feed!Init, FeedInv, Waits, StaleAnswers, NoChangeIsLost, Feed!NoChangeIsLost
<1>2. FeedInv => NoChangeIsLost
  BY DEF FeedInv
<1> QED
  BY <1>1, <1>2, FeedInvKept, PTL DEF Feed!Spec

-----------------------------------------------------------------------------
(***************************************************************************)
(* Agent: one account in the file, in use and in the runtime.              *)
(*                                                                         *)
(* Three chains interleave: the transitions of the account, the writes of  *)
(* the file, and origins that change while one is being saved. The         *)
(* invariant says what each holds of the others: a switch that saves has   *)
(* one write in the chain (OneSwitchSaves), a read is still current when   *)
(* it is written back (ReadIsCurrent), and the last origin to be written   *)
(* is the configured one (LastOriginWins).                                 *)
(***************************************************************************)

AccountWrite == [field : {"active"}, value : Accounts \cup {None}]
OriginWrite == [field : {"origin"}, value : Origins]
Write == AccountWrite \cup OriginWrite
Connections == [origin : Origins, active : Accounts \cup {None}]

AgentTypes ==
  /\ active \in Accounts \cup {None} /\ home \in Accounts \cup {None, "released"}
  /\ configured \in Origins /\ writeFailed \in BOOLEAN
  /\ file \in Connections /\ writes \in Seq(Write)
  /\ transition \in Seq(Accounts \cup {"logout"})
  /\ phase \in {"queued", "settling", "draining", "saving"}

(* A switch that saves has the runtime released and one write in the chain;*)
(* otherwise the chain writes origins only.                                *)
OneSwitchSaves ==
  /\ phase # "queued" => transition # <<>>
  /\ IF phase = "saving"
       THEN /\ home = "released"
            /\ \E i \in 1..Len(writes) : writes[i] \in AccountWrite
            /\ \A i, j \in 1..Len(writes) :
                 writes[i] \in AccountWrite /\ writes[j] \in AccountWrite => i = j
       ELSE home = active /\ \A i \in 1..Len(writes) : writes[i] \in OriginWrite

(* Updates are not interleaved: what was read is still in the file.        *)
ReadIsCurrent == read \in {<<>>, <<file>>}

(* The last origin to be written is the configured one, or nothing is left *)
(* to write and the file has it or the last write failed.                  *)
LastOriginWins ==
  \/ \E i \in 1..Len(writes) :
       /\ writes[i].field = "origin" /\ writes[i].value = configured
       /\ \A j \in 1..Len(writes) : j > i => writes[j].field = "active"
  \/ /\ \A i \in 1..Len(writes) : writes[i].field = "active"
     /\ writeFailed \/ file.origin = configured

AgentInv ==
  AgentTypes /\ OneSwitchSaves /\ ReadIsCurrent /\ LastOriginWins /\ file.active = active

(* The agent starts with one account, nothing to save and nothing read.    *)
LEMMA InitAgentInv == Agent!Init => AgentInv
<1> SUFFICES ASSUME Agent!Init PROVE AgentInv
  OBVIOUS
<1>1. <<>> \in Seq(Write) /\ <<>> \in Seq(Accounts \cup {"logout"}) /\ 1..Len(<<>>) = {}
  BY EmptySeq
<1>2. writes = <<>> /\ phase = "queued" /\ home = active /\ read = <<>>
  BY DEF Agent!Init
<1>3. file \in Connections /\ file.active = active /\ file.origin = configured
  BY OriginIsKnown DEF Agent!Init, Connections
<1>4. AgentTypes
  BY <1>1, <1>3, OriginIsKnown DEF Agent!Init, AgentTypes
<1>5. OneSwitchSaves /\ LastOriginWins
  BY <1>1, <1>2, <1>3 DEF OneSwitchSaves, LastOriginWins
<1> QED
  BY <1>2, <1>3, <1>4, <1>5 DEF AgentInv, ReadIsCurrent

(* A save that joins the queue of the file keeps what is queued before it. *)
LEMMA AppendKeeps ==
  ASSUME AgentInv, NEW w \in Write, writes' = Append(writes, w),
         w \in OriginWrite => home' = home /\ phase' = phase /\ configured' = w.value,
         w \in AccountWrite =>
           phase # "saving" /\ phase' = "saving" /\ home' = "released"
             /\ configured' = configured /\ transition # <<>>,
         UNCHANGED <<active, writeFailed, file, read, transition>>
  PROVE  AgentInv'
<1> DEFINE n == Len(writes)
<1>1. /\ writes' \in Seq(Write) /\ Len(writes') = n + 1 /\ writes'[n + 1] = w /\ n \in Nat
      /\ \A i \in 1..n : writes'[i] = writes[i] /\ writes[i] \in Write
  BY AppendProperties, LenProperties, ElementOfSeq DEF AgentInv, AgentTypes
<1>2. (w \in AccountWrite <=> w.field = "active") /\ (w \in OriginWrite <=> w.field = "origin")
  BY DEF Write, AccountWrite, OriginWrite
<1>3. AgentTypes'
  BY <1>1 DEF AgentInv, AgentTypes, Write, OriginWrite
<1>4. OneSwitchSaves'
  BY <1>1, <1>2 DEF AgentInv, OneSwitchSaves, Write, AccountWrite, OriginWrite, AgentTypes
<1>5. LastOriginWins'
  <2>1. CASE w \in OriginWrite
    BY <1>1, <1>2, <2>1 DEF LastOriginWins
  <2>2. CASE w \in AccountWrite
    BY <1>1, <1>2, <2>2 DEF AgentInv, LastOriginWins
  <2> QED
    BY <2>1, <2>2 DEF Write
<1> QED
  BY <1>3, <1>4, <1>5 DEF AgentInv, ReadIsCurrent

(* The update at the head of the chain ends, in the file or not.           *)
LEMMA WriteEndKeeps ==
  ASSUME AgentInv, NEW ok \in BOOLEAN, writes # <<>>, writes' = Tail(writes), read' = <<>>,
         Agent!WriteEnds(Head(writes), ok),
         file' = IF ok THEN [file EXCEPT ![Head(writes).field] = Head(writes).value] ELSE file,
         UNCHANGED configured
  PROVE  AgentInv'
<1> DEFINE n == Len(writes)  w == Head(writes)
<1>1. /\ writes' \in Seq(Write) /\ n \in Nat \ {0} /\ Len(writes') = n - 1
      /\ \A i \in 1..n-1 : writes'[i] = writes[i + 1]
      /\ \A i \in 1..n : writes[i] \in Write
      /\ w = writes[1] /\ w \in Write
  BY HeadTailProperties, LenProperties, ElementOfSeq, EmptySeq DEF AgentInv, AgentTypes
<1>2. \A v \in Write : /\ v \in AccountWrite <=> v.field = "active"
                       /\ v \in OriginWrite <=> v.field = "origin"
  BY DEF Write, AccountWrite, OriginWrite
<1>3. CASE w.field = "active"
  <2>1. Agent!Switched(IF ok THEN w.value ELSE active) /\ UNCHANGED <<written, writeFailed>>
    BY <1>3 DEF Agent!WriteEnds
  <2>2. phase = "saving" /\ transition # <<>>
    BY <1>1, <1>2, <1>3 DEF AgentInv, OneSwitchSaves, AccountWrite, OriginWrite
  <2>3. /\ w.value \in Accounts \cup {None}
        /\ file'.active = active' /\ file'.origin = file.origin /\ file' \in Connections
        /\ active' \in Accounts \cup {None} /\ home' = active' /\ phase' = "queued"
    BY <1>1, <1>2, <1>3, <2>1 DEF Agent!Switched, AgentInv, AgentTypes, Connections, AccountWrite
  <2>4. transition' \in Seq(Accounts \cup {"logout"})
    BY <2>1, <2>2, HeadTailProperties DEF Agent!Switched, AgentInv, AgentTypes
  <2>5. AgentTypes'
    BY <1>1, <2>1, <2>3, <2>4 DEF AgentInv, AgentTypes
  <2>6. \A i \in 1..n : i # 1 => writes[i] \in OriginWrite
    BY <1>1, <1>2, <1>3, <2>2 DEF AgentInv, OneSwitchSaves, Write
  <2>7. \A i \in 1..n-1 : writes'[i] \in OriginWrite
    BY <1>1, <2>6
  <2>8. OneSwitchSaves'
    BY <1>1, <2>3, <2>7 DEF OneSwitchSaves
  <2>9. LastOriginWins'
    <3>1. CASE n = 1
      BY <1>1, <1>3, <2>1, <2>3, <3>1 DEF AgentInv, LastOriginWins
    <3>2. CASE n # 1
      <4>1. PICK i \in 1..n : /\ writes[i].field = "origin" /\ writes[i].value = configured
                              /\ \A j \in 1..n : j > i => writes[j].field = "active"
        BY <1>1, <1>2, <2>6, <3>2 DEF AgentInv, LastOriginWins
      <4>2. i - 1 \in 1..n-1 /\ writes'[i - 1] = writes[i]
        BY <1>1, <1>3, <4>1
      <4>3. \A j \in 1..n-1 : j > i - 1 => writes'[j].field = "active"
        BY <1>1, <4>1
      <4> QED
        BY <1>1, <4>1, <4>2, <4>3 DEF LastOriginWins
    <3> QED
      BY <3>1, <3>2
  <2> QED
    BY <2>3, <2>5, <2>8, <2>9 DEF AgentInv, ReadIsCurrent
<1>4. CASE w.field = "origin"
  <2>1. /\ writeFailed' = ~ok
        /\ UNCHANGED <<active, home, transition, phase>>
    BY <1>4 DEF Agent!WriteEnds
  <2>2. /\ w.value \in Origins /\ file' \in Connections /\ file'.active = file.active
        /\ ok => file'.origin = w.value
    BY <1>1, <1>2, <1>4 DEF AgentInv, AgentTypes, Connections, OriginWrite
  <2>3. AgentTypes'
    BY <1>1, <2>1, <2>2 DEF AgentInv, AgentTypes
  <2>4. OneSwitchSaves'
    <3>1. CASE phase = "saving"
      <4>1. PICK i \in 1..n : writes[i] \in AccountWrite
        BY <3>1 DEF AgentInv, OneSwitchSaves
      <4>2. i - 1 \in 1..n-1 /\ writes'[i - 1] \in AccountWrite
        BY <1>1, <1>2, <1>4, <4>1
      <4>3. \A k, j \in 1..n-1 :
              writes'[k] \in AccountWrite /\ writes'[j] \in AccountWrite => k = j
        BY <1>1, <3>1 DEF AgentInv, OneSwitchSaves
      <4> QED
        BY <1>1, <2>1, <3>1, <4>2, <4>3 DEF AgentInv, OneSwitchSaves
    <3>2. CASE phase # "saving"
      BY <1>1, <2>1, <3>2 DEF AgentInv, OneSwitchSaves
    <3> QED
      BY <3>1, <3>2
  <2>5. PICK i \in 1..n : /\ writes[i].field = "origin" /\ writes[i].value = configured
                          /\ \A j \in 1..n : j > i => writes[j].field = "active"
    BY <1>1, <1>4 DEF AgentInv, LastOriginWins
  <2>6. LastOriginWins'
    <3>1. CASE i = 1
      <4>1. \A j \in 1..n-1 : writes'[j].field = "active"
        BY <1>1, <2>5, <3>1
      <4>2. writeFailed' \/ file'.origin = configured'
        BY <1>1, <2>1, <2>2, <2>5, <3>1
      <4> QED
        BY <1>1, <4>1, <4>2 DEF LastOriginWins
    <3>2. CASE i # 1
      <4>1. i - 1 \in 1..n-1 /\ writes'[i - 1] = writes[i]
        BY <1>1, <3>2
      <4>2. \A j \in 1..n-1 : j > i - 1 => writes'[j].field = "active"
        BY <1>1, <2>5
      <4> QED
        BY <1>1, <2>5, <4>1, <4>2 DEF LastOriginWins
    <3> QED
      BY <3>1, <3>2
  <2> QED
    BY <2>1, <2>2, <2>3, <2>4, <2>6 DEF AgentInv, ReadIsCurrent
<1> QED
  BY <1>1, <1>2, <1>3, <1>4 DEF Write

(* Every step of the agent, its file and its switches keeps the invariant. *)
LEMMA AgentInvKept ==
  AgentInv /\ [Agent!Next]_Agent!vars => AgentInv'
<1> SUFFICES ASSUME AgentInv, [Agent!Next]_Agent!vars PROVE AgentInv'
  OBVIOUS
<1> DEFINE Chain == <<active, home, configured, writeFailed, file, writes>>
<1>1. ASSUME UNCHANGED <<Chain, read, transition, phase>> PROVE AgentInv'
  BY <1>1 DEF AgentInv, AgentTypes, OneSwitchSaves, ReadIsCurrent, LastOriginWins
<1>2. ASSUME NEW l \in Accounts,
             \/ \E kind \in {"browser", "desktop", "device"} : Agent!Begin(l, kind)
             \/ Agent!DeviceStarted(l) \/ Agent!Lapse(l) \/ Agent!Exchange(l) \/ Agent!ExchangeFails(l)
      PROVE  AgentInv'
  BY <1>1, <1>2 DEF Agent!Begin, Agent!DeviceStarted, Agent!Lapse, Agent!Exchange,
    Agent!ExchangeFails, Agent!switches, Agent!fileVars,
    Agent!settings
<1>3. ASSUME transition' \in Seq(Accounts \cup {"logout"}),
             phase' \in {"queued", "settling", "draining"}, phase # "saving",
             phase' # "queued" => transition' # <<>>,
             UNCHANGED <<Chain, read>>
      PROVE  AgentInv'
  BY <1>3 DEF AgentInv, AgentTypes, OneSwitchSaves, ReadIsCurrent, LastOriginWins
<1>4. ASSUME NEW h \in Accounts \cup {"logout"}, transition' = Append(transition, h),
             UNCHANGED <<Chain, read, phase>>
      PROVE  AgentInv'
  <2>1. transition' \in Seq(Accounts \cup {"logout"}) /\ transition' # <<>>
    BY <1>4, AppendProperties DEF AgentInv, AgentTypes
  <2> QED
    BY <1>4, <2>1 DEF AgentInv, AgentTypes, OneSwitchSaves, ReadIsCurrent, LastOriginWins
<1>5. ASSUME NEW l \in Accounts, Agent!Exchanged(l) PROVE AgentInv'
  BY <1>1, <1>4, <1>5 DEF Agent!Exchanged, Agent!fileVars, Agent!settings
<1>6. CASE Agent!Logout
  BY <1>4, <1>6 DEF Agent!Logout, Agent!fileVars, Agent!settings
<1>7. CASE Agent!StartSwitch
  BY <1>3, <1>7 DEF Agent!StartSwitch, Agent!Phase, Agent!fileVars, Agent!settings, AgentInv,
    AgentTypes
<1>8. CASE Agent!Settled
  <2>1. transition # <<>> => Tail(transition) \in Seq(Accounts \cup {"logout"})
    BY HeadTailProperties DEF AgentInv, AgentTypes
  <2> QED
    BY <1>3, <1>8, <2>1 DEF Agent!Settled, Agent!Rejected, Agent!fileVars, Agent!settings,
      AgentInv, AgentTypes
<1>9. CASE Agent!Drained
  <2> DEFINE w == [field |-> "active", value |-> Agent!Target(Head(transition))]
  <2>1. Head(transition) \in Accounts \cup {"logout"}
    BY <1>9, HeadTailProperties DEF Agent!Drained, Agent!Phase, AgentInv, AgentTypes
  <2>2. w \in AccountWrite /\ w \in Write /\ w \notin OriginWrite
    BY <2>1 DEF Agent!Target, Write, AccountWrite, OriginWrite
  <2>3. /\ transition # <<>> /\ phase = "draining" /\ phase' = "saving" /\ home' = "released"
        /\ writes' = Append(writes, w)
        /\ UNCHANGED <<active, configured, writeFailed, file, read, transition>>
    BY <1>9 DEF Agent!Drained, Agent!Phase, Agent!settings
  <2> HIDE DEF w
  <2> QED
    BY <2>2, <2>3, AppendKeeps
<1>10. ASSUME NEW o \in Origins, Agent!HandleOriginChange(o) PROVE AgentInv'
  <2> DEFINE w == [field |-> "origin", value |-> o]
  <2>1. w \in OriginWrite /\ w \in Write /\ w \notin AccountWrite /\ w.value = o
    BY DEF Write, AccountWrite, OriginWrite
  <2>2. /\ configured' = o /\ writes' = Append(writes, w) /\ home' = home /\ phase' = phase
        /\ UNCHANGED <<active, writeFailed, file, read, transition>>
    BY <1>10 DEF Agent!HandleOriginChange, Agent!switches
  <2> HIDE DEF w
  <2> QED
    BY <2>1, <2>2, AppendKeeps
<1>11. CASE Agent!ReadState
  BY <1>11 DEF Agent!ReadState, Agent!switches, Agent!settings, AgentInv, AgentTypes,
    OneSwitchSaves,
    ReadIsCurrent, LastOriginWins
<1>12. CASE Agent!Persist
  <2>1. Head(read) = file
    BY <1>12 DEF Agent!Persist, AgentInv, ReadIsCurrent
  <2> QED
    BY <1>12, <2>1, WriteEndKeeps DEF Agent!Persist, Agent!settings
<1>13. CASE Agent!PersistFails
  BY <1>13, WriteEndKeeps DEF Agent!PersistFails, Agent!settings
<1>14. CASE Agent!Start
  <2>1. <<>> \in Seq(Write) /\ <<>> \in Seq(Accounts \cup {"logout"}) /\ 1..Len(<<>>) = {}
    BY EmptySeq
  <2>2. /\ active' = file.active /\ home' = active' /\ configured' = file.origin /\ file' = file
        /\ writes' = <<>> /\ read' = <<>> /\ transition' = <<>> /\ phase' = "queued"
        /\ writeFailed' = FALSE
    BY <1>14 DEF Agent!Start
  <2>3. AgentTypes'
    BY <2>1, <2>2 DEF AgentInv, AgentTypes, Connections
  <2>4. OneSwitchSaves' /\ LastOriginWins'
    BY <2>1, <2>2 DEF OneSwitchSaves, LastOriginWins
  <2> QED
    BY <2>2, <2>3, <2>4 DEF AgentInv, ReadIsCurrent
<1>15. CASE UNCHANGED Agent!vars
  BY <1>1, <1>15 DEF Agent!vars, Agent!settings, Agent!fileVars, Agent!switches
<1> QED
  BY <1>2, <1>5, <1>6, <1>7, <1>8, <1>9, <1>10, <1>11, <1>12, <1>13, <1>14, <1>15 DEF Agent!Next

(* OneAccountEverywhere for any accounts, origins, logouts and restarts:   *)
(* the file, the connection and the runtime settle on one account.         *)
THEOREM OneAccount == Agent!Spec => []OneAccountEverywhere
<1>1. AgentInv => OneAccountEverywhere
  BY AgentNamesApart DEF AgentInv, AgentTypes, OneSwitchSaves, LastOriginWins,
    OneAccountEverywhere, Agent!OneAccountEverywhere
<1> QED
  BY <1>1, InitAgentInv, AgentInvKept, PTL DEF Agent!Spec

-----------------------------------------------------------------------------
Stages == {"idle", "starting", "begun", "exchanging", "queued", "over"}
LoginState ==
  [kind : {"none", "browser", "desktop", "device"}, at : Stages, origin : Origins, version : Nat]

LoginTypes ==
  /\ version \in Nat /\ account \in [Accounts -> LoginState]
  /\ overtaken \in [Accounts -> SUBSET {"newer", "logout", "switch"}]
  /\ transition \in Seq(Accounts \cup {"logout"})

(* What a login can still find out about what overtook it: a switch by the *)
(* version, a logout or a newer desktop login by its missing entry.        *)
Noticeable(l) ==
  /\ account[l].at = "idle" => overtaken[l] = {}
  /\ account[l].at = "starting" => account[l].kind = "device"
  /\ l \in Agent!UnderWay =>
       /\ account[l].version <= version
       /\ "switch" \in overtaken[l] => account[l].version # version
       /\ account[l].kind = "desktop" /\ l \in pendingLogins => overtaken[l] \subseteq {"switch"}
  /\ account[l].at = "queued" => Agent!OvertakenBy(l) = {}

LoginInv == LoginTypes /\ \A l \in Accounts : Noticeable(l)

(* A step that leaves a login, its entry and what it saw as they are.      *)
LEMMA OtherLogins ==
  ASSUME LoginInv, NEW l \in Accounts, version' = version,
         account'[l] = account[l], overtaken'[l] = overtaken[l], l \in pendingLogins' => l \in pendingLogins
  PROVE  Noticeable(l)'
BY DEF LoginInv, Noticeable, Agent!UnderWay, Agent!OvertakenBy

(* A login that is over owes nothing to what overtook it.                  *)
LEMMA EndedLogin ==
  ASSUME NEW l \in Accounts, account'[l] = Agent!Over PROVE Noticeable(l)'
BY DEF Noticeable, Agent!Over, Agent!Idle, Agent!UnderWay

(* The records a login starts and ends with.                               *)
LEMMA IdleTypes ==
  /\ Agent!Idle \in LoginState /\ Agent!Over \in LoginState /\ Agent!Over.at = "over"
  /\ \A k \in {"none", "browser", "desktop", "device"} :
       Agent!Queued(k) \in LoginState /\ Agent!Queued(k).at = "queued" /\ Agent!Queued(k).kind = k
BY OriginIsKnown DEF Agent!Idle, Agent!Over, Agent!Queued, LoginState, Stages

(* Dropping logins ends those that have begun and leaves the others.       *)
LEMMA DropTypes ==
  ASSUME LoginTypes, NEW S
  PROVE  /\ Agent!Drops(S) \in [Accounts -> LoginState]
         /\ \A l \in Accounts : Agent!Drops(S)[l] = account[l] \/ Agent!Drops(S)[l] = Agent!Over
         /\ \A l \in Accounts : l \in S /\ account[l].at = "begun" => Agent!Drops(S)[l] = Agent!Over
BY IdleTypes DEF LoginTypes, Agent!Drops, Agent!Begun

(* An event is noted for the logins it overtakes, and forgotten for those  *)
(* that ended.                                                             *)
LEMMA OvertakeTypes ==
  ASSUME LoginTypes, NEW event \in {"newer", "logout", "switch"}, NEW S, Agent!Overtakes(event, S)
  PROVE  /\ overtaken' \in [Accounts -> SUBSET {"newer", "logout", "switch"}]
         /\ \A l \in Accounts : l \notin S => overtaken'[l] \subseteq overtaken[l]
         /\ \A l \in Accounts : overtaken'[l] \subseteq overtaken[l] \cup {event}
         /\ \A l \in Accounts : l \notin S /\ account'[l].at # "over" => overtaken'[l] = overtaken[l]
<1>1. \A l \in Accounts : {e \in {event} : l \in S} \in SUBSET {"newer", "logout", "switch"}
  OBVIOUS
<1> QED
  BY <1>1 DEF LoginTypes, Agent!Overtakes

(* A new login overtakes the older ones of the desktop and is overtaken by *)
(* none.                                                                   *)
LEMMA BeginKeeps ==
  ASSUME AgentInv, LoginInv, NEW l \in Accounts, NEW kind \in {"browser", "desktop", "device"},
         Agent!Begin(l, kind)
  PROVE  LoginInv'
<1> DEFINE older == IF kind = "desktop" THEN Agent!Desktops ELSE {}
           newLogin == [kind |-> kind, at |-> IF kind = "device" THEN "starting" ELSE "begun",
                     origin |-> configured, version |-> version]
<1>1. LoginTypes
  BY DEF LoginInv
<1>2. /\ account[l].at = "idle" /\ account' = [Agent!Drops(older) EXCEPT ![l] = newLogin]
      /\ pendingLogins' \subseteq (pendingLogins \ older) \cup {l}
      /\ Agent!Overtakes("newer", older \cap Agent!UnderWay)
      /\ version' = version /\ transition' = transition
  BY DEF Agent!Begin, Agent!switches
<1>3. newLogin \in LoginState
  BY <1>1 DEF LoginState, Stages, LoginTypes, AgentInv, AgentTypes
<1>4. account' \in [Accounts -> LoginState] /\ account'[l] = newLogin
      /\ \A m \in Accounts \ {l} : account'[m] = Agent!Drops(older)[m]
  BY <1>1, <1>2, <1>3, DropTypes
<1>5. LoginTypes'
  BY <1>1, <1>2, <1>4, OvertakeTypes DEF LoginTypes
<1>6. Noticeable(l)'
  <2>1. overtaken[l] = {} /\ l \notin Agent!UnderWay
    BY <1>2 DEF LoginInv, Noticeable, Agent!UnderWay
  <2>2. overtaken'[l] = {}
    BY <1>1, <1>2, <2>1, OvertakeTypes
  <2> QED
    BY <1>1, <1>2, <1>4, <2>2 DEF Noticeable, Agent!UnderWay, LoginTypes
<1>7. ASSUME NEW m \in Accounts \ {l} PROVE Noticeable(m)'
  <2>1. CASE m \notin older \cap Agent!UnderWay
    <3>1. account'[m] = account[m] \/ account'[m] = Agent!Over
      BY <1>1, <1>4, DropTypes
    <3>2. account'[m] = account[m] /\ account[m].at # "over" => overtaken'[m] = overtaken[m]
      BY <1>1, <1>2, <2>1, OvertakeTypes
    <3>3. CASE account'[m] = account[m] /\ account[m].at # "over"
      BY <1>2, <3>2, <3>3, OtherLogins
    <3>4. CASE account'[m].at = "over"
      BY <3>4 DEF Noticeable, Agent!UnderWay
    <3> QED
      BY <3>1, <3>3, <3>4, IdleTypes
  <2>2. CASE m \in older \cap Agent!UnderWay
    <3>1. account'[m] = Agent!Over \/ (account'[m] = account[m] /\ account[m].at # "begun")
      BY <1>1, <1>4, <2>2, DropTypes
    <3>2. CASE account'[m] = Agent!Over
      BY <3>2, EndedLogin
    <3>3. CASE account'[m] = account[m] /\ account[m].at # "begun"
      <4>1. m \notin pendingLogins' /\ account[m].at \in {"starting", "exchanging"}
        BY <1>2, <2>2, <3>3 DEF Agent!UnderWay
      <4>2. "switch" \in overtaken'[m] => "switch" \in overtaken[m]
        BY <1>1, <1>2, OvertakeTypes
      <4> QED
        BY <1>2, <2>2, <3>3, <4>1, <4>2 DEF LoginInv, Noticeable, Agent!UnderWay
    <3> QED
      BY <3>1, <3>2, <3>3
  <2> QED
    BY <2>1, <2>2
<1> QED
  BY <1>5, <1>6, <1>7 DEF LoginInv

(* A step of one login that moves it on or ends it.                        *)
LEMMA OneLoginMoves ==
  ASSUME LoginInv, NEW l \in Accounts, NEW new \in LoginState,
         account' = [account EXCEPT ![l] = new],
         overtaken' = overtaken \/ overtaken' = [overtaken EXCEPT ![l] = {}],
         \A m \in pendingLogins' \ {l} : m \in pendingLogins,
         version' = version, transition' \in Seq(Accounts \cup {"logout"}),
         Noticeable(l)'
  PROVE  LoginInv'
<1>1. LoginTypes'
  BY DEF LoginInv, LoginTypes
<1>2. ASSUME NEW m \in Accounts \ {l} PROVE Noticeable(m)'
  BY <1>2, OtherLogins DEF LoginInv, LoginTypes
<1> QED
  BY <1>1, <1>2 DEF LoginInv

(* Every step of a login, a switch or a logout keeps what logins can       *)
(* notice.                                                                 *)
LEMMA LoginInvKept ==
  AgentInv /\ LoginInv /\ [Agent!Next]_Agent!vars => LoginInv'
<1> SUFFICES ASSUME AgentInv, LoginInv, [Agent!Next]_Agent!vars PROVE LoginInv'
  OBVIOUS
<1>0. LoginTypes
  BY DEF LoginInv
<1>1. ASSUME NEW l \in Accounts, NEW kind \in {"browser", "desktop", "device"}, Agent!Begin(l, kind)
      PROVE  LoginInv'
  BY <1>1, BeginKeeps
<1>2. ASSUME NEW l \in Accounts, Agent!DeviceStarted(l) PROVE LoginInv'
  <2> DEFINE new == [account[l] EXCEPT !.at = "begun"]
  <2>1. /\ account' = [account EXCEPT ![l] = new] /\ overtaken' = overtaken
        /\ pendingLogins' = pendingLogins \cup {l} /\ version' = version /\ transition' = transition
        /\ account[l].at = "starting"
    BY <1>0, <1>2 DEF Agent!DeviceStarted, Agent!At, Agent!switches, LoginTypes
  <2>2. new \in LoginState /\ new.at = "begun" /\ new.kind = account[l].kind
        /\ new.version = account[l].version
    BY <1>0 DEF LoginTypes, LoginState, Stages
  <2>3. account'[l] = new
    BY <1>0, <2>1 DEF LoginTypes
  <2>4. Noticeable(l)'
    BY <1>0, <2>1, <2>2, <2>3 DEF LoginInv, Noticeable, Agent!UnderWay
  <2> QED
    BY <1>0, <2>1, <2>2, <2>4, OneLoginMoves DEF LoginTypes
<1>3. ASSUME NEW l \in Accounts, Agent!Lapse(l) PROVE LoginInv'
  <2>1. /\ account' = Agent!Drops({l}) /\ pendingLogins' \subseteq pendingLogins /\ version' = version
        /\ transition' = transition
        /\ overtaken' = [m \in Accounts |-> IF account'[m].at = "over" THEN {} ELSE overtaken[m]]
    BY <1>0, <1>3 DEF Agent!Lapse, Agent!switches, Agent!Overtakes, LoginTypes
  <2>2. LoginTypes'
    BY <1>0, <2>1, DropTypes DEF LoginTypes
  <2>3. ASSUME NEW m \in Accounts PROVE Noticeable(m)'
    <3>1. CASE account'[m].at = "over"
      BY <3>1 DEF Noticeable, Agent!UnderWay
    <3>2. CASE account'[m].at # "over"
      BY <1>0, <2>1, <3>2, DropTypes, IdleTypes, OtherLogins
    <3> QED
      BY <3>1, <3>2
  <2> QED
    BY <2>2, <2>3 DEF LoginInv
<1>4. ASSUME NEW l \in Accounts, Agent!Ends(l), pendingLogins' \subseteq pendingLogins, version' = version,
             transition' = transition
      PROVE  LoginInv'
  <2>1. account'[l] = Agent!Over
    BY <1>0, <1>4 DEF Agent!Ends, LoginTypes
  <2> QED
    BY <1>0, <1>4, <2>1, EndedLogin, IdleTypes, OneLoginMoves DEF Agent!Ends, LoginTypes
<1>5. ASSUME NEW l \in Accounts, NEW stage \in {"begun", "exchanging"}, Agent!At(l, stage),
             account[l].at \in {"begun", "exchanging"}, pendingLogins' \subseteq pendingLogins,
             version' = version, transition' = transition
      PROVE  LoginInv'
  <2> DEFINE new == [account[l] EXCEPT !.at = stage]
  <2>1. account' = [account EXCEPT ![l] = new] /\ overtaken' = overtaken
    BY <1>0, <1>5 DEF Agent!At, LoginTypes
  <2>2. new \in LoginState /\ new.at = stage /\ new.kind = account[l].kind
        /\ new.version = account[l].version
    BY <1>0 DEF LoginTypes, LoginState, Stages
  <2>3. account'[l] = new
    BY <1>0, <2>1 DEF LoginTypes
  <2>4. Noticeable(l)'
    BY <1>0, <1>5, <2>1, <2>2, <2>3 DEF LoginInv, Noticeable, Agent!UnderWay
  <2> QED
    BY <1>0, <1>5, <2>1, <2>2, <2>4, OneLoginMoves DEF LoginTypes
<1>6. ASSUME NEW l \in Accounts, Agent!Exchange(l) PROVE LoginInv'
  BY <1>4, <1>5, <1>6 DEF Agent!Exchange, Agent!switches
<1>7. ASSUME NEW l \in Accounts, Agent!ExchangeFails(l) PROVE LoginInv'
  BY <1>4, <1>5, <1>7 DEF Agent!ExchangeFails, Agent!switches
<1>8. ASSUME NEW l \in Accounts, Agent!Exchanged(l) PROVE LoginInv'
  <2>1. CASE Agent!StillCurrent(l)
    <3> DEFINE new == Agent!Queued(account[l].kind)
    <3>1. /\ account' = [account EXCEPT ![l] = new] /\ overtaken' = overtaken
          /\ pendingLogins' \subseteq pendingLogins /\ version' = version
          /\ transition' = Append(transition, l) /\ account[l].at = "exchanging"
      BY <1>8, <2>1 DEF Agent!Exchanged
    <3>2. new \in LoginState /\ new.at = "queued" /\ new.kind = account[l].kind
      BY <1>0, IdleTypes DEF LoginTypes, LoginState
    <3>3. transition' \in Seq(Accounts \cup {"logout"})
      BY <1>0, <3>1, AppendProperties DEF LoginTypes
    <3>4. account'[l] = new
      BY <1>0, <3>1 DEF LoginTypes
    <3>5. Agent!OvertakenBy(l)' = {}
      <4>1. account[l].kind = "desktop" => overtaken[l] = {}
        BY <1>0, <2>1, <3>1
          DEF Agent!StillCurrent, Agent!SameVersion, LoginInv, Noticeable, Agent!UnderWay,
          LoginTypes
      <4>2. account[l].kind = "browser" => overtaken[l] \cap {"switch"} = {}
        BY <2>1, <3>1 DEF Agent!StillCurrent, Agent!SameVersion, LoginInv, Noticeable,
          Agent!UnderWay
      <4> QED
        BY <3>1, <3>2, <3>4, <4>1, <4>2 DEF Agent!OvertakenBy
    <3>6. Noticeable(l)'
      BY <3>2, <3>4, <3>5 DEF Noticeable, Agent!UnderWay
    <3> QED
      BY <3>1, <3>2, <3>3, <3>6, OneLoginMoves
  <2>2. CASE ~Agent!StillCurrent(l)
    BY <1>4, <1>8, <2>2 DEF Agent!Exchanged
  <2> QED
    BY <2>1, <2>2
<1>9. CASE Agent!Logout
  <2>1. /\ account' = Agent!Drops(Accounts) /\ pendingLogins' = {} /\ version' = version
        /\ transition' = Append(transition, "logout") /\ Agent!Overtakes("logout", Agent!UnderWay)
    BY <1>9 DEF Agent!Logout
  <2>2. transition' \in Seq(Accounts \cup {"logout"})
    BY <1>0, <2>1, AppendProperties DEF LoginTypes
  <2>3. LoginTypes'
    BY <1>0, <2>1, <2>2, DropTypes, OvertakeTypes DEF LoginTypes
  <2>4. ASSUME NEW l \in Accounts PROVE Noticeable(l)'
    <3>1. CASE account'[l].at = "over"
      BY <3>1 DEF Noticeable, Agent!UnderWay
    <3>2. CASE account'[l].at # "over"
      <4>1. account'[l] = account[l]
        BY <1>0, <2>1, <3>2, DropTypes, IdleTypes
      <4>2. l \notin Agent!UnderWay => overtaken'[l] = overtaken[l]
        BY <1>0, <2>1, <3>2, OvertakeTypes
      <4>3. "switch" \in overtaken'[l] => "switch" \in overtaken[l]
        BY <1>0, <2>1, OvertakeTypes
      <4> QED
        BY <2>1, <4>1, <4>2, <4>3 DEF LoginInv, Noticeable, Agent!UnderWay, Agent!OvertakenBy
    <3> QED
      BY <3>1, <3>2
  <2> QED
    BY <2>3, <2>4 DEF LoginInv
<1>10. CASE Agent!Settled
  <2>1. transition # <<>> /\ version' = version /\ overtaken' = overtaken
    BY <1>10 DEF Agent!Settled
  <2>2. CASE UNCHANGED <<transition, account, pendingLogins>>
    BY <1>0, <2>1, <2>2, OtherLogins DEF LoginInv, LoginTypes
  <2>3. CASE Agent!Rejected
    <3>1. transition' \in Seq(Accounts \cup {"logout"}) /\ Head(transition) \in Accounts \cup {"logout"}
      BY <1>0, <2>1, <2>3, HeadTailProperties DEF Agent!Rejected, LoginTypes
    <3>2. account' \in [Accounts -> LoginState]
          /\ \A l \in Accounts : account'[l] = account[l] \/ account'[l] = Agent!Over
      BY <1>0, <2>3, IdleTypes DEF Agent!Rejected, Agent!Ended, LoginTypes
    <3>3. LoginTypes'
      BY <1>0, <2>1, <3>1, <3>2 DEF LoginTypes
    <3>4. ASSUME NEW l \in Accounts PROVE Noticeable(l)'
      BY <2>1, <2>3, <3>2, OtherLogins, EndedLogin DEF Agent!Rejected
    <3> QED
      BY <3>3, <3>4 DEF LoginInv
  <2> QED
    BY <1>10, <2>2, <2>3 DEF Agent!Settled
<1>11. ASSUME Agent!Persist \/ Agent!PersistFails, Head(writes).field = "active" PROVE LoginInv'
  <2>1. PICK connection : Agent!Switched(connection)
    BY <1>11 DEF Agent!Persist, Agent!PersistFails, Agent!WriteEnds
  <2>2. writes # <<>>
    BY <1>11 DEF Agent!Persist, Agent!PersistFails
  <2>3. transition # <<>>
    <3>1. Head(writes) = writes[1] /\ 1 \in 1..Len(writes)
      BY <2>2, EmptySeq, LenProperties DEF AgentInv, AgentTypes
    <3>2. writes[1] \notin OriginWrite
      BY <1>11, <3>1 DEF OriginWrite
    <3> QED
      BY <3>1, <3>2 DEF AgentInv, OneSwitchSaves
  <2>4. transition' \in Seq(Accounts \cup {"logout"}) /\ Head(transition) \in Accounts \cup {"logout"}
    BY <1>0, <2>1, <2>3, HeadTailProperties DEF Agent!Switched, LoginTypes
  <2>5. account' \in [Accounts -> LoginState]
        /\ \A l \in Accounts : account'[l] = account[l] \/ account'[l] = Agent!Over
    BY <1>0, <2>1, IdleTypes DEF Agent!Switched, Agent!Ended, LoginTypes
  <2>6. Agent!Overtakes("switch", Agent!UnderWay) /\ version' = version + 1 /\ pendingLogins' \subseteq pendingLogins
    BY <2>1 DEF Agent!Switched
  <2>7. LoginTypes'
    BY <1>0, <2>4, <2>5, <2>6, OvertakeTypes DEF LoginTypes
  <2>8. ASSUME NEW l \in Accounts, account'[l].at # "over", account'[l] = account[l]
        PROVE  Noticeable(l)'
    <3>1. l \notin Agent!UnderWay => overtaken'[l] = overtaken[l]
      BY <1>0, <2>6, <2>8, OvertakeTypes
    <3>2. overtaken'[l] \subseteq overtaken[l] \cup {"switch"}
      BY <1>0, <2>6, OvertakeTypes
    <3>3. l \in Agent!UnderWay => account[l].version <= version /\ account[l].version # version'
      BY <1>0, <2>6 DEF LoginInv, Noticeable, LoginTypes, LoginState
    <3>4. l \in Agent!UnderWay => account'[l].version <= version'
      BY <1>0, <2>6, <2>8, <3>3 DEF LoginTypes, LoginState
    <3>5. CASE l \in Agent!UnderWay
      <4>1. account[l].kind = "desktop" /\ l \in pendingLogins => overtaken[l] \subseteq {"switch"}
        BY <3>5 DEF LoginInv, Noticeable
      <4>2. account[l].at \in {"starting", "begun", "exchanging"}
        BY <3>5 DEF Agent!UnderWay
      <4>3. account[l].at = "starting" => account[l].kind = "device"
        BY DEF LoginInv, Noticeable
      <4> QED
        BY <2>6, <2>8, <3>2, <3>3, <3>4, <3>5, <4>1, <4>2, <4>3 DEF Noticeable
    <3>6. CASE l \notin Agent!UnderWay
      <4>1. overtaken'[l] = overtaken[l] /\ account'[l].at \notin {"starting", "begun", "exchanging"}
        BY <2>8, <3>1, <3>6 DEF Agent!UnderWay
      <4>2. Agent!OvertakenBy(l)' = Agent!OvertakenBy(l)
        BY <2>8, <4>1 DEF Agent!OvertakenBy
      <4>3. l \notin Agent!UnderWay'
        BY <4>1 DEF Agent!UnderWay
      <4> QED
        BY <2>8, <4>1, <4>2, <4>3 DEF LoginInv, Noticeable
    <3> QED
      BY <3>5, <3>6
  <2>9. ASSUME NEW l \in Accounts PROVE Noticeable(l)'
    <3>1. CASE account'[l].at = "over"
      BY <3>1 DEF Noticeable, Agent!UnderWay
    <3>2. CASE account'[l].at # "over"
      BY <2>5, <2>8, <3>2, IdleTypes
    <3> QED
      BY <3>1, <3>2
  <2> QED
    BY <2>7, <2>9 DEF LoginInv
<1>12. CASE Agent!Start
  <2>1. /\ version' = version + 1 /\ transition' = <<>>
        /\ account' = [l \in Accounts |-> IF account[l].at # "idle" THEN Agent!Over ELSE account[l]]
        /\ overtaken' = [l \in Accounts |-> {}]
    BY <1>12 DEF Agent!Start
  <2>2. LoginTypes'
    BY <1>0, <2>1, IdleTypes, EmptySeq DEF LoginTypes
  <2>3. ASSUME NEW l \in Accounts PROVE Noticeable(l)'
    <3>1. account'[l].at \in {"idle", "over"} /\ overtaken'[l] = {}
      BY <2>1, IdleTypes
    <3> QED
      BY <3>1 DEF Noticeable, Agent!UnderWay
  <2> QED
    BY <2>2, <2>3 DEF LoginInv
<1>13. ASSUME UNCHANGED <<version, account, pendingLogins, overtaken, transition>> PROVE LoginInv'
  BY <1>0, <1>13, OtherLogins DEF LoginInv, LoginTypes
<1>14. ASSUME Agent!Persist \/ Agent!PersistFails, Head(writes).field # "active" PROVE LoginInv'
  <2>1. UNCHANGED <<version, account, pendingLogins, overtaken, transition>>
    BY <1>14 DEF Agent!Persist, Agent!PersistFails, Agent!WriteEnds
  <2> QED
    BY <1>13, <2>1
<1>15. ASSUME NEW o \in Origins, Agent!HandleOriginChange(o) PROVE LoginInv'
  BY <1>13, <1>15 DEF Agent!HandleOriginChange, Agent!switches
<1>16. CASE Agent!StartSwitch \/ Agent!Drained \/ Agent!ReadState \/ UNCHANGED Agent!vars
  BY <1>13, <1>16 DEF Agent!StartSwitch, Agent!Drained, Agent!ReadState, Agent!switches,
    Agent!vars
<1> QED
  BY <1>1, <1>2, <1>3, <1>6, <1>7, <1>8, <1>9, <1>10, <1>11, <1>12, <1>14, <1>15, <1>16
    DEF Agent!Next

(* OvertakenStaysOut for any accounts and any overlap of logins, logouts   *)
(* and switches.                                                           *)
THEOREM OvertakenLose == Agent!Spec => []OvertakenStaysOut
<1>1. Agent!Init => LoginInv
  BY IdleTypes, EmptySeq DEF Agent!Init, LoginInv, LoginTypes, Noticeable, Agent!UnderWay,
    Agent!OvertakenBy, Agent!Idle
<1>2. LoginInv => OvertakenStaysOut
  BY DEF LoginInv, Noticeable, OvertakenStaysOut, Agent!OvertakenStaysOut
<1> QED
  BY <1>1, <1>2, InitAgentInv, AgentInvKept, LoginInvKept, PTL DEF Agent!Spec

-----------------------------------------------------------------------------
(* The specification that TLC runs keeps the promises of all clients.      *)
THEOREM ClientsPromise ==
  MCSpec =>
    /\ []LandsOnceOnItsRevision /\ []PooledIsReusable
    /\ []NoChangeIsLost
    /\ []OneAccountEverywhere /\ []OvertakenStaysOut
  BY ClientsBehave, LandsOnce, Reusable, NoChangeLost, OneAccount, OvertakenLose
=============================================================================
