----------------------- MODULE ResourceCreation_proofs -----------------------
(* What ResourceCreation guarantees for any keys, callers, claim size and   *)
(* number of restarts.                                                      *)
EXTENDS ResourceCreation, SequenceTheorems, TLAPS

\* What the tree and the journal may hold; the queue and the executions play no
\* part in what is proved here: an execution of anything leaves it true.
Shape ==
  /\ op \in [Keys -> {"none", "pending", "failed", "completed"}]
  /\ node \in [Keys -> Places]
  /\ folder \in {"live", "trashed", "gone"}

\* The inductive invariant.
IInv == Shape /\ NodeMatchesJournal /\ NodeHasUnit /\ NodePlaced

\* What a step of the journal may do without publishing: no Operation becomes or
\* stops being completed.
JournalKeeps ==
  /\ op' \in [Keys -> {"none", "pending", "failed", "completed"}]
  /\ \A k \in Keys : op[k] = "completed" <=> op'[k] = "completed"

\* An error of an execution, retryable or not, finds its row pending or does nothing:
\* the lemma about the guard "AND state = 'pending'" of both UPDATEs.
LEMMA ErrorsKeepCompleted ==
  ASSUME Shape, NEW k, MarkPendingError(k) \/ MarkFailed(k)
  PROVE  JournalKeeps
<1>1. CASE MarkPendingError(k)
  BY <1>1 DEF MarkPendingError, Shape, JournalKeeps, journal
<1>2. CASE MarkFailed(k)
  BY <1>2 DEF MarkFailed, Close, Shape, JournalKeeps, journal
<1> QED BY <1>1, <1>2

\* A step that publishes nothing and leaves the tree alone keeps the invariant.
LEMMA QuietStep ==
  ASSUME IInv, JournalKeeps, UNCHANGED tree, unit \subseteq unit'
  PROVE  IInv'
  BY DEF IInv, JournalKeeps, Shape, NodeMatchesJournal, NodeHasUnit, NodePlaced, Present, tree

\* A step of the Trash keeps the invariant: Nodes move, none appears.
LEMMA TrashKeeps ==
  ASSUME IInv, TrashStep
  PROVE  IInv'
<1> USE DEF IInv, Shape, NodeMatchesJournal, NodeHasUnit, NodePlaced, Present, Places, journal
<1>1. ASSUME NEW k \in Keys, TrashNode(k) PROVE IInv'
  BY <1>1 DEF TrashNode
<1>2. ASSUME NEW k \in Keys, RestoreNode(k) PROVE IInv'
  BY <1>2 DEF RestoreNode
<1>3. ASSUME NEW k \in Keys, RemoveNode(k) PROVE IInv'
  BY <1>3 DEF RemoveNode
<1>4. ASSUME TrashFolder PROVE IInv'
  BY <1>4 DEF TrashFolder, Moved
<1>5. ASSUME RestoreFolder PROVE IInv'
  BY <1>5 DEF RestoreFolder, Moved
<1>6. ASSUME RemoveFolder PROVE IInv'
  BY <1>6, InFolderAssumption DEF RemoveFolder, Moved
<1> QED BY <1>1, <1>2, <1>3, <1>4, <1>5, <1>6 DEF TrashStep

\* The transaction of completeCreateResource keeps the invariant.
LEMMA SucceedKeeps ==
  ASSUME IInv, NEW e \in Executors, Succeed(e)
  PROVE  IInv'
<1> DEFINE key == exec[e]
<1>1. /\ key \in unit /\ unit' = unit /\ folder' = folder
      /\ Present(key) \/ Insertable(key)
      /\ op' = [op EXCEPT ![key] = "completed"]
      /\ node' = Published(key)
  BY DEF Succeed, Close
<1>2. Shape'
  BY <1>1 DEF IInv, Shape, Published, Places
<1>3. /\ key \in Keys => op'[key] = "completed" /\ node'[key] # "none"
      /\ \A k \in Keys \ {key} : node'[k] = node[k] /\ op'[k] = op[k]
  BY <1>1 DEF IInv, Shape, Published, Present
<1>4. NodeMatchesJournal'
  BY <1>3 DEF IInv, NodeMatchesJournal
<1>5. NodeHasUnit'
  BY <1>1, <1>3 DEF IInv, NodeHasUnit, Present
<1>6. NodePlaced'
  <2>1. key \in InFolder => folder # "gone"
    BY <1>1 DEF IInv, NodePlaced, Insertable
  <2>2. key \in Keys /\ node'[key] = "with" => node[key] = "with"
    BY <1>1 DEF IInv, Shape, Published
  <2> QED BY <1>1, <1>3, <2>1, <2>2, InFolderAssumption DEF IInv, NodePlaced, Present
<1> QED BY <1>2, <1>4, <1>5, <1>6 DEF IInv

\* Every step keeps the invariant and leaves what is completed completed.
LEMMA NextKeeps ==
  ASSUME IInv, [Next]_vars
  PROVE  IInv' /\ \A k \in Keys : op[k] = "completed" => op'[k] = "completed"
<1> DEFINE Goal == IInv' /\ \A k \in Keys : op[k] = "completed" => op'[k] = "completed"
<1> SUFFICES Goal OBVIOUS
<1>q. ASSUME JournalKeeps, UNCHANGED tree, unit \subseteq unit' PROVE Goal
  BY <1>q, QuietStep DEF JournalKeeps
<1>1. ASSUME NEW c \in Callers, NEW k \in Keys, Create(c, k) PROVE Goal
  BY <1>1, <1>q DEF Create, JournalKeeps, IInv, Shape
<1>2. ASSUME NEW c \in Callers, NEW k \in Keys, Retry(c, k) PROVE Goal
  BY <1>2, <1>q DEF Retry, JournalKeeps, IInv, Shape
<1>3. ASSUME NEW e \in Executors, UnitLands(e) PROVE Goal
  BY <1>3, <1>q DEF UnitLands, JournalKeeps, IInv, Shape, journal
<1>4. ASSUME NEW e \in Executors, Succeed(e) PROVE Goal
  BY <1>4, SucceedKeeps DEF Succeed, Close, IInv, Shape
<1>5. ASSUME NEW e \in Executors, CallFails(e) PROVE Goal
  BY <1>5, <1>q, ErrorsKeepCompleted DEF CallFails, IInv
<1>6. ASSUME NEW e \in Executors, InsertAborts(e) PROVE Goal
  BY <1>6, <1>q, ErrorsKeepCompleted DEF InsertAborts, IInv
<1>7. ASSUME NEW e \in Executors, CallRejected(e) PROVE Goal
  BY <1>7, <1>q, ErrorsKeepCompleted DEF CallRejected, IInv
<1>8. ASSUME ClaimDue PROVE Goal
  BY <1>8, <1>q DEF ClaimDue, JournalKeeps, IInv, Shape
<1>9. ASSUME NEW k \in Keys, LeaseExpires(k) PROVE Goal
  BY <1>9, <1>q DEF LeaseExpires, JournalKeeps, IInv, Shape
<1>10. ASSUME ComesDue PROVE Goal
  BY <1>10, <1>q DEF ComesDue, JournalKeeps, IInv, Shape
<1>11. ASSUME Crash PROVE Goal
  BY <1>11, <1>q DEF Crash, JournalKeeps, IInv, Shape, journal
<1>12. ASSUME TrashStep PROVE Goal
  <2>1. op' = op
    BY <1>12 DEF TrashStep, TrashNode, RestoreNode, RemoveNode, TrashFolder, RestoreFolder,
                 RemoveFolder, journal
  <2> QED BY <1>12, <2>1, TrashKeeps
<1>13. ASSUME UNCHANGED vars PROVE Goal
  BY <1>13, <1>q DEF vars, JournalKeeps, IInv, Shape, journal
<1> QED
  BY <1>1, <1>2, <1>3, <1>4, <1>5, <1>6, <1>7, <1>8, <1>9, <1>10, <1>11, <1>12, <1>13
  DEF Next, Answer

\* Nothing is published at the start.
LEMMA InitIInv == Init => IInv
  BY InFolderAssumption
  DEF Init, IInv, Shape, NodeMatchesJournal, NodeHasUnit, NodePlaced, Present, Places

\* The invariant holds for every set of keys and callers.
LEMMA CreationInvariant == Spec => []IInv
  BY InitIInv, NextKeeps, PTL DEF Spec

\* Node and journal change together, in every behaviour.
THEOREM AtomicPublication == Spec => []NodeMatchesJournal
<1>1. IInv => NodeMatchesJournal BY DEF IInv
<1> QED BY <1>1, CreationInvariant, PTL

\* No Node without its Unit, in every behaviour.
THEOREM UnitBeforeNode == Spec => []NodeHasUnit
<1>1. IInv => NodeHasUnit BY DEF IInv
<1> QED BY <1>1, CreationInvariant, PTL

\* No Node under a removed parent, in every behaviour.
THEOREM NoOrphanNode == Spec => []NodePlaced
<1>1. IInv => NodePlaced BY DEF IInv
<1> QED BY <1>1, CreationInvariant, PTL

\* Completion is final, in every behaviour.
THEOREM CreationFinal == Spec => CompletedStays
<1>1. IInv /\ [Next]_vars =>
        [\A k \in Keys : op[k] = "completed" => op'[k] = "completed"]_vars
  BY NextKeeps
<1> QED BY <1>1, CreationInvariant, PTL DEF Spec, CompletedStays

------------------------------------------------------------------------------
(* What the operations on the queue do to the keys in it. *)

\* Two lists without a key in common are one list without a repetition.
LEMMA Concatenated ==
  ASSUME NEW S, NEW a \in Seq(S), NEW b \in Seq(S)
  PROVE  /\ IsInjective(a \o b) <=> /\ IsInjective(a) /\ IsInjective(b)
                                    /\ ToSet(a) \cap ToSet(b) = {}
         /\ ToSet(a \o b) = ToSet(a) \cup ToSet(b)
<1>c. PICK ab : ab = a \o b
  OBVIOUS
<1>1. /\ ab \in Seq(S) /\ Len(ab) = Len(a) + Len(b)
      /\ Len(a) \in Nat /\ Len(b) \in Nat
      /\ DOMAIN a = 1 .. Len(a) /\ DOMAIN b = 1 .. Len(b)
  BY <1>c, ConcatProperties, LenProperties
<1>2. DOMAIN ab = 1 .. Len(a) + Len(b)
  BY <1>1, LenProperties
<1>3. /\ \A i \in DOMAIN a : i \in DOMAIN ab /\ ab[i] = a[i]
      /\ \A i \in DOMAIN b : Len(a) + i \in DOMAIN ab /\ ab[Len(a) + i] = b[i]
  <2>1. ASSUME NEW i \in DOMAIN a PROVE i \in DOMAIN ab /\ ab[i] = a[i]
    BY <1>c, <1>1, <1>2, ConcatProperties
  <2>2. ASSUME NEW i \in DOMAIN b PROVE Len(a) + i \in DOMAIN ab /\ ab[Len(a) + i] = b[i]
    <3>1. Len(a) + i \in 1 .. Len(a) + Len(b) /\ ~ (Len(a) + i <= Len(a)) /\ Len(a) + i - Len(a) = i
      BY <1>1
    <3> QED BY <1>c, <1>2, <3>1, ConcatProperties
  <2> QED BY <2>1, <2>2
<1>4. \A i \in DOMAIN ab : i \in DOMAIN a \/ \E j \in DOMAIN b : i = Len(a) + j
  <2>1. ASSUME NEW i \in DOMAIN ab, i \notin DOMAIN a
        PROVE  i - Len(a) \in DOMAIN b /\ i = Len(a) + (i - Len(a))
    BY <1>1, <1>2, <2>1
  <2> QED BY <2>1
<1>5. ToSet(ab) = ToSet(a) \cup ToSet(b)
  <2>1. ASSUME NEW x \in ToSet(ab) PROVE x \in ToSet(a) \cup ToSet(b)
    BY <1>3, <1>4 DEF ToSet
  <2>2. ASSUME NEW x \in ToSet(a) \cup ToSet(b) PROVE x \in ToSet(ab)
    BY <1>3 DEF ToSet
  <2> QED BY <2>1, <2>2
<1>6. ASSUME IsInjective(ab)
      PROVE  IsInjective(a) /\ IsInjective(b) /\ ToSet(a) \cap ToSet(b) = {}
  <2>1. IsInjective(a)
    BY <1>3, <1>6 DEF IsInjective
  <2>2. ASSUME NEW i \in DOMAIN b, NEW j \in DOMAIN b, b[i] = b[j] PROVE i = j
    <3>1. Len(a) + i = Len(a) + j
      BY <1>3, <1>6, <2>2 DEF IsInjective
    <3> QED BY <1>1, <3>1
  <2>3. ASSUME NEW i \in DOMAIN a, NEW j \in DOMAIN b, a[i] = b[j] PROVE FALSE
    <3>1. i = Len(a) + j
      BY <1>3, <1>6, <2>3 DEF IsInjective
    <3> QED BY <1>1, <3>1
  <2> QED BY <2>1, <2>2, <2>3 DEF IsInjective, ToSet
<1>7. ASSUME IsInjective(a), IsInjective(b), ToSet(a) \cap ToSet(b) = {}
      PROVE  IsInjective(ab)
  <2>1. \A i \in DOMAIN a, j \in DOMAIN b : a[i] # b[j]
    BY <1>7 DEF ToSet
  <2> QED BY <1>3, <1>4, <1>7, <2>1 DEF IsInjective
<1> QED BY <1>c, <1>5, <1>6, <1>7

\* A key that is put at the end.
LEMMA Appended ==
  ASSUME NEW S, NEW s \in Seq(S), NEW x \in S
  PROVE  /\ Append(s, x) \in Seq(S)
         /\ ToSet(Append(s, x)) = ToSet(s) \cup {x}
         /\ IsInjective(s) /\ x \notin ToSet(s) => IsInjective(Append(s, x))
<1>c. PICK t : t = <<x>>
  OBVIOUS
<1>1. Append(s, x) = s \o t /\ t \in Seq(S)
  BY <1>c, AppendIsConcat
<1>3. IsInjective(t) /\ ToSet(t) = {x}
  BY <1>c DEF IsInjective, ToSet
<1>2. Append(s, x) \in Seq(S)
  BY AppendProperties
<1> QED BY <1>1, <1>2, <1>3, Concatenated

\* A list and its first key.
LEMMA Headed ==
  ASSUME NEW S, NEW s \in Seq(S), s # <<>>
  PROVE  /\ Head(s) \in ToSet(s) /\ Tail(s) \in Seq(S)
         /\ ToSet(s) = {Head(s)} \cup ToSet(Tail(s))
         /\ IsInjective(s) => IsInjective(Tail(s)) /\ Head(s) \notin ToSet(Tail(s))
<1>c. PICK h, t : h = <<Head(s)>> /\ t = Tail(s)
  OBVIOUS
<1>1. h \in Seq(S) /\ t \in Seq(S)
  BY <1>c, HeadTailProperties
<1>2. s = h \o t
  <2>1. /\ h \o t \in Seq(S) /\ Len(h \o t) = Len(s)
        /\ \A i \in 1 .. Len(s) : (h \o t)[i] = s[i]
    BY <1>c, <1>1, HeadTailProperties, ConcatProperties, LenProperties
  <2> QED BY <2>1, SeqEqual
<1>3. ToSet(h) = {Head(s)}
  BY <1>c DEF ToSet
<1>4. /\ IsInjective(s) => ToSet(h) \cap ToSet(t) = {} /\ IsInjective(t)
      /\ ToSet(s) = ToSet(h) \cup ToSet(t)
  BY <1>1, <1>2, Concatenated
<1> QED BY <1>c, <1>1, <1>3, <1>4

\* A key that is taken out, wherever it is.
LEMMA TakenOut ==
  ASSUME NEW S, NEW s \in Seq(S), IsInjective(s), NEW x
  PROVE  /\ Keyless(s, x) \in Seq(S)
         /\ IsInjective(Keyless(s, x))
         /\ ToSet(Keyless(s, x)) = ToSet(s) \ {x}
<1>1. Len(s) \in Nat /\ DOMAIN s = 1 .. Len(s) /\ \A i \in 1 .. Len(s) : s[i] \in S
  BY LenProperties, ElementOfSeq
<1>2. CASE ~ \E i \in 1 .. Len(s) : s[i] = x
  BY <1>1, <1>2 DEF Keyless, RemoveFirst, ToSet
<1>3. CASE \E i \in 1 .. Len(s) : s[i] = x
  <2>1. PICK i \in 1 .. Len(s) : s[i] = x
    BY <1>3
  <2>2. {j \in 1 .. Len(s) : s[j] = x} = {i}
    BY <1>1, <2>1 DEF IsInjective
  <2>3. Keyless(s, x) = RemoveAt(s, i)
    BY <1>3, <2>1, <2>2 DEF Keyless, RemoveFirst, SelectInSeq, Min
  <2>c. PICK a, b : a = SubSeq(s, 1, i - 1) /\ b = SubSeq(s, i + 1, Len(s))
    OBVIOUS
  <2>4. /\ a \in Seq(S) /\ Len(a) = i - 1 /\ \A j \in 1 .. i - 1 : a[j] = s[j]
        /\ b \in Seq(S) /\ Len(b) = Len(s) - i
        /\ \A j \in 1 .. Len(s) - i : b[j] = s[i + j]
    <3>1. /\ i - 1 \in Int /\ i + 1 \in Int /\ Len(s) \in Int /\ 1 \in Int
          /\ \A j \in 1 .. i - 1 : s[j] \in S
          /\ \A j \in i + 1 .. Len(s) : s[j] \in S
      BY <1>1, <2>1
    <3>2. /\ a \in Seq(S) /\ Len(a) = IF 1 <= i - 1 THEN i - 1 - 1 + 1 ELSE 0
          /\ \A j \in 1 .. i - 1 - 1 + 1 : a[j] = s[1 + j - 1]
      BY <2>c, <3>1, SubSeqProperties
    <3>3. /\ b \in Seq(S) /\ Len(b) = IF i + 1 <= Len(s) THEN Len(s) - (i + 1) + 1 ELSE 0
          /\ \A j \in 1 .. Len(s) - (i + 1) + 1 : b[j] = s[i + 1 + j - 1]
      BY <2>c, <3>1, SubSeqProperties
    <3>4. Len(a) = i - 1 /\ \A j \in 1 .. i - 1 : a[j] = s[j]
      BY <1>1, <2>1, <3>2
    <3>5. Len(b) = Len(s) - i
      <4>1. Len(b) = IF i + 1 <= Len(s) THEN Len(s) - (i + 1) + 1 ELSE 0
        BY <3>3
      <4>2. i \in Int /\ Len(s) \in Int /\ i <= Len(s)
        BY <1>1, <2>1
      <4> QED BY <4>1, <4>2
    <3>6. ASSUME NEW j \in 1 .. Len(s) - i PROVE b[j] = s[i + j]
      <4>1. j \in 1 .. Len(s) - (i + 1) + 1 /\ i + 1 + j - 1 = i + j
        BY <1>1, <2>1
      <4> QED BY <3>3, <4>1
    <3> QED BY <3>2, <3>3, <3>4, <3>5, <3>6
  <2>5. DOMAIN a = 1 .. i - 1 /\ DOMAIN b = 1 .. Len(s) - i
    BY <2>4, LenProperties
  <2>6. ToSet(a) = {s[j] : j \in 1 .. i - 1}
    BY <2>4, <2>5 DEF ToSet
  <2>7. ToSet(b) = {s[j] : j \in i + 1 .. Len(s)}
    <3>1. \A j \in 1 .. Len(s) - i : i + j \in i + 1 .. Len(s)
      BY <1>1, <2>1
    <3>2. \A j \in i + 1 .. Len(s) : j - i \in 1 .. Len(s) - i /\ j = i + (j - i)
      BY <1>1, <2>1
    <3>3. ASSUME NEW y \in ToSet(b) PROVE y \in {s[j] : j \in i + 1 .. Len(s)}
      <4>1. PICK j \in DOMAIN b : y = b[j]
        BY DEF ToSet
      <4>2. y = s[i + j] /\ i + j \in i + 1 .. Len(s)
        BY <2>4, <2>5, <3>1, <4>1
      <4> QED BY <4>2
    <3>4. ASSUME NEW j \in i + 1 .. Len(s) PROVE s[j] \in ToSet(b)
      <4>1. j - i \in DOMAIN b /\ b[j - i] = s[j]
        BY <2>4, <2>5, <3>2
      <4> QED BY <4>1 DEF ToSet
    <3> QED BY <3>3, <3>4
  <2>8. IsInjective(a)
    BY <1>1, <2>1, <2>4, <2>5 DEF IsInjective
  <2>9. IsInjective(b)
    <3> SUFFICES ASSUME NEW j \in DOMAIN b, NEW k \in DOMAIN b, b[j] = b[k] PROVE j = k
      BY DEF IsInjective
    <3>1. s[i + j] = s[i + k] /\ i + j \in DOMAIN s /\ i + k \in DOMAIN s
      BY <1>1, <2>1, <2>4, <2>5
    <3>2. i + j = i + k
      BY <3>1 DEF IsInjective
    <3> QED BY <2>1, <2>5, <3>2
  <2>10. ToSet(a) \cap ToSet(b) = {}
    <3>1. \A j \in 1 .. i - 1, k \in i + 1 .. Len(s) : j \in DOMAIN s /\ k \in DOMAIN s /\ j # k
      BY <1>1, <2>1
    <3> QED BY <2>6, <2>7, <3>1 DEF IsInjective
  <2>11. ToSet(a) \cup ToSet(b) = ToSet(s) \ {x}
    <3>1. \A j \in 1 .. Len(s) : j \in 1 .. i - 1 \/ j = i \/ j \in i + 1 .. Len(s)
      BY <1>1, <2>1
    <3>2. \A j \in (1 .. i - 1) \cup (i + 1 .. Len(s)) : j \in DOMAIN s /\ j # i
      BY <1>1, <2>1
    <3> QED BY <1>1, <2>1, <2>6, <2>7, <3>1, <3>2 DEF ToSet, IsInjective
  <2>12. Keyless(s, x) = a \o b
    BY <2>c, <2>3 DEF RemoveAt
  <2> QED BY <2>4, <2>8, <2>9, <2>10, <2>11, <2>12, Concatenated, ConcatProperties
<1> QED BY <1>2, <1>3

------------------------------------------------------------------------------
(* The types, and the queue. *)

\* TypeOK without the rows that wait.
Types ==
  /\ op \in [Keys -> {"none", "pending", "failed", "completed"}]
  /\ leased \subseteq Keys
  /\ unit \subseteq Keys
  /\ node \in [Keys -> Places]
  /\ folder \in {"live", "trashed", "gone"}
  /\ exec \in [Executors -> Keys \cup {Idle}]
  /\ crashes \in 0 .. MaxCrashes
  /\ todo \in Seq(Keys) /\ IsInjective(todo)

\* A pending key is due or comes due later, once.
Waiting ==
  /\ due \in Seq(Keys) /\ IsInjective(due)
  /\ later \in Seq(Keys) /\ IsInjective(later)
  /\ ToSet(due) \cap ToSet(later) = {}
  /\ ToSet(due) \cup ToSet(later) = {k \in Keys : op[k] = "pending"}

\* The two together are the types.
LEMMA TypesFollow == Types /\ Waiting => TypeOK
<1> SUFFICES ASSUME Types, Waiting PROVE TypeOK
  OBVIOUS
<1>1. IsInjective(due \o later) /\ ToSet(due \o later) = ToSet(due) \cup ToSet(later)
  BY Concatenated DEF Waiting
<1> QED BY <1>1 DEF Types, Waiting, TypeOK

\* The worker goes on with what it claimed.
LEMMA FinishKeepsTypes ==
  ASSUME Types, NEW e \in Executors, Finish(e)
  PROVE  exec' \in [Executors -> Keys \cup {Idle}] /\ todo' \in Seq(Keys) /\ IsInjective(todo')
<1>1. CASE todo = <<>>
  BY <1>1 DEF Finish, Types
<1>2. CASE todo # <<>>
  <2>1. Head(todo) \in Keys /\ Tail(todo) \in Seq(Keys) /\ IsInjective(Tail(todo))
    BY <1>2, Headed, HeadTailProperties DEF Types
  <2> QED BY <2>1 DEF Finish, Types
<1> QED BY <1>1, <1>2

\* A key that is to be tried again moves to the end of what comes later.
LEMMA RetriedLater ==
  ASSUME Types, Waiting, NEW k \in Keys, MarkPendingError(k)
  PROVE  Waiting' /\ op' = op /\ leased' \subseteq leased
<1>1. CASE op[k] # "pending"
  BY <1>1 DEF MarkPendingError, journal, Waiting
<1>2. CASE op[k] = "pending"
  <2>1. /\ due' = Keyless(due, k) /\ later' = Append(Keyless(later, k), k)
        /\ op' = op /\ leased' = leased \ {k}
    BY <1>2 DEF MarkPendingError
  <2>2. /\ Keyless(due, k) \in Seq(Keys) /\ IsInjective(Keyless(due, k))
        /\ ToSet(Keyless(due, k)) = ToSet(due) \ {k}
    BY TakenOut DEF Waiting
  <2>3. /\ Keyless(later, k) \in Seq(Keys) /\ IsInjective(Keyless(later, k))
        /\ ToSet(Keyless(later, k)) = ToSet(later) \ {k}
    BY TakenOut DEF Waiting
  <2>4. /\ later' \in Seq(Keys) /\ IsInjective(later')
        /\ ToSet(later') = (ToSet(later) \ {k}) \cup {k}
    BY <2>1, <2>3, Appended
  <2> QED BY <1>2, <2>1, <2>2, <2>4 DEF Waiting
<1> QED BY <1>1, <1>2

\* A key that is closed waits no more.
LEMMA ClosedWaitsNoMore ==
  ASSUME Types, Waiting, NEW k \in Keys, NEW state \in {"failed", "completed"}, Close(k, state)
  PROVE  /\ Waiting' /\ leased' \subseteq leased
         /\ op' \in [Keys -> {"none", "pending", "failed", "completed"}]
<1>1. /\ due' = Keyless(due, k) /\ later' = Keyless(later, k)
      /\ op' = [op EXCEPT ![k] = state] /\ leased' = leased \ {k}
  BY DEF Close
<1>2. due' \in Seq(Keys) /\ IsInjective(due') /\ ToSet(due') = ToSet(due) \ {k}
  BY <1>1, TakenOut DEF Waiting
<1>3. later' \in Seq(Keys) /\ IsInjective(later') /\ ToSet(later') = ToSet(later) \ {k}
  BY <1>1, TakenOut DEF Waiting
<1>4. {j \in Keys : op'[j] = "pending"} = {j \in Keys : op[j] = "pending"} \ {k}
  BY <1>1 DEF Types
<1> QED BY <1>1, <1>2, <1>3, <1>4 DEF Waiting, Types

\* A key that was not pending is put at the end of what is due.
LEMMA QueuedOnce ==
  ASSUME Types, Waiting, NEW k \in Keys, op[k] # "pending",
         op' = [op EXCEPT ![k] = "pending"], due' = Append(due, k), later' = later
  PROVE  Waiting' /\ op' \in [Keys -> {"none", "pending", "failed", "completed"}]
<1>1. k \notin ToSet(due) /\ k \notin ToSet(later)
  BY DEF Waiting
<1>2. due' \in Seq(Keys) /\ IsInjective(due') /\ ToSet(due') = ToSet(due) \cup {k}
  BY <1>1, Appended DEF Waiting
<1>3. {j \in Keys : op'[j] = "pending"} = {j \in Keys : op[j] = "pending"} \cup {k}
  BY DEF Types
<1> QED BY <1>1, <1>2, <1>3 DEF Waiting, Types

\* A claim holds rows of the queue, each once.
LEMMA ClaimKeepsTypes ==
  ASSUME Types, Waiting, ClaimDue
  PROVE  Types'
<1>1. PICK n \in 1 .. Limit : \E picked \in [1 .. n -> Free] :
        /\ FirstFree(picked)
        /\ leased' = leased \cup {due[picked[i]] : i \in 1 .. n}
        /\ exec' = [exec EXCEPT ![Worker] = due[picked[1]]]
        /\ todo' = [i \in 1 .. n - 1 |-> due[picked[i + 1]]]
  BY DEF ClaimDue
<1>2. PICK picked \in [1 .. n -> Free] :
        /\ FirstFree(picked)
        /\ leased' = leased \cup {due[picked[i]] : i \in 1 .. n}
        /\ exec' = [exec EXCEPT ![Worker] = due[picked[1]]]
        /\ todo' = [i \in 1 .. n - 1 |-> due[picked[i + 1]]]
  BY <1>1
<1>3. n \in Nat /\ 1 \in 1 .. n
  BY BoundsAssumption
<1>4. \A i \in 1 .. n : picked[i] \in DOMAIN due /\ picked[i] \in 1 .. Len(due)
  BY LenProperties DEF Free, Waiting
<1>5. \A i \in 1 .. n : due[picked[i]] \in Keys
  BY <1>4, ElementOfSeq DEF Waiting
<1>6. \A i \in 1 .. n - 1 : i + 1 \in 1 .. n
  BY <1>3
<1>7. todo' \in Seq(Keys)
  <2>1. n - 1 \in Nat /\ todo' \in [1 .. n - 1 -> Keys]
    BY <1>2, <1>3, <1>5, <1>6
  <2> QED BY <2>1, SeqDef
<1>8. IsInjective(todo')
  <2> SUFFICES ASSUME NEW i \in 1 .. n - 1, NEW j \in 1 .. n - 1,
                      due[picked[i + 1]] = due[picked[j + 1]]
               PROVE  i = j
    BY <1>2 DEF IsInjective
  <2>1. picked[i + 1] = picked[j + 1]
    BY <1>4, <1>6 DEF Waiting, IsInjective
  <2>2. DOMAIN picked = 1 .. n /\ \A h \in 1 .. n : picked[h] \in Int
    BY <1>4
  <2>3. \A g, h \in DOMAIN picked : g < h => picked[g] < picked[h]
    BY <1>2 DEF FirstFree
  <2>4. i + 1 \in DOMAIN picked /\ j + 1 \in DOMAIN picked /\ picked[i + 1] \in Int
    BY <1>6, <2>2
  <2>5. ~ (i + 1 < j + 1) /\ ~ (j + 1 < i + 1)
    BY <2>1, <2>3, <2>4
  <2> QED BY <2>5
<1>9. leased' \subseteq Keys /\ exec' \in [Executors -> Keys \cup {Idle}]
  BY <1>2, <1>3, <1>5 DEF Types
<1> QED BY <1>7, <1>8, <1>9 DEF ClaimDue, Types, tree

\* The head of what comes later is the last that is due.
LEMMA ComesDueKeeps ==
  ASSUME Types, Waiting, ComesDue
  PROVE  Types' /\ Waiting'
<1>1. /\ later # <<>> /\ due' = Append(due, Head(later)) /\ later' = Tail(later)
      /\ op' = op
  BY DEF ComesDue
<1>2. /\ Head(later) \in ToSet(later) /\ later' \in Seq(Keys) /\ IsInjective(later')
      /\ ToSet(later) = {Head(later)} \cup ToSet(later') /\ Head(later) \notin ToSet(later')
  BY <1>1, Headed DEF Waiting
<1>3. Head(later) \in Keys /\ Head(later) \notin ToSet(due)
  BY <1>2 DEF Waiting
<1>4. due' \in Seq(Keys) /\ IsInjective(due') /\ ToSet(due') = ToSet(due) \cup {Head(later)}
  BY <1>1, <1>3, Appended DEF Waiting
<1>5. Waiting'
  BY <1>1, <1>2, <1>3, <1>4 DEF Waiting
<1> QED BY <1>5 DEF ComesDue, Types, tree, running

\* A step of the Trash moves the tree only.
LEMMA TrashTypes ==
  ASSUME Types, Waiting, TrashStep
  PROVE  Types' /\ Waiting'
<1>1. UNCHANGED <<journal, unit, running, crashes>>
  BY DEF TrashStep, TrashNode, RestoreNode, RemoveNode, TrashFolder, RestoreFolder, RemoveFolder
<1>2. node' \in [Keys -> Places] /\ folder' \in {"live", "trashed", "gone"}
  BY DEF TrashStep, TrashNode, RestoreNode, RemoveNode, TrashFolder, RestoreFolder, RemoveFolder,
         Moved, Types, Places
<1> QED BY <1>1, <1>2 DEF Types, Waiting, journal, running

\* The key of an execution that is under way.
LEMMA ExecutedKey ==
  ASSUME Types, NEW e \in Executors, exec[e] # Idle
  PROVE  exec[e] \in Keys
  BY DEF Types

\* An error of an execution keeps the types and the queue.
LEMMA ErrorTypes ==
  ASSUME Types, Waiting, NEW e \in Executors,
         CallFails(e) \/ InsertAborts(e) \/ CallRejected(e)
  PROVE  Types' /\ Waiting'
<1>1. /\ exec[e] \in Keys /\ Finish(e) /\ UNCHANGED <<unit, tree, crashes>>
      /\ MarkPendingError(exec[e]) \/ MarkFailed(exec[e])
  BY ExecutedKey DEF CallFails, InsertAborts, CallRejected, Types
<1>2. /\ Waiting' /\ leased' \subseteq leased
      /\ op' \in [Keys -> {"none", "pending", "failed", "completed"}]
  <2>1. CASE MarkPendingError(exec[e])
    BY <1>1, <2>1, RetriedLater DEF Types
  <2>2. CASE MarkFailed(exec[e]) /\ op[exec[e]] = "pending"
    <3>1. Close(exec[e], "failed")
      BY <2>2 DEF MarkFailed
    <3> QED BY <1>1, <3>1, ClosedWaitsNoMore
  <2>3. CASE MarkFailed(exec[e]) /\ op[exec[e]] # "pending"
    BY <2>3 DEF MarkFailed, journal, Waiting, Types
  <2> QED BY <1>1, <2>1, <2>2, <2>3
<1> QED BY <1>1, <1>2, FinishKeepsTypes DEF Types, tree

\* Every step keeps the types and the queue.
LEMMA NextTypes ==
  ASSUME Types, Waiting, [Next]_vars
  PROVE  Types' /\ Waiting'
<1> DEFINE Goal == Types' /\ Waiting'
<1> SUFFICES Goal OBVIOUS
<1>1. ASSUME NEW c \in Callers, NEW k \in Keys, Create(c, k) PROVE Goal
  BY <1>1, QueuedOnce DEF Create, Types, tree, Executors
<1>2. ASSUME NEW c \in Callers, NEW k \in Keys, Retry(c, k) PROVE Goal
  BY <1>2, QueuedOnce DEF Retry, Types, tree, Executors
<1>3. ASSUME NEW e \in Executors, UnitLands(e) PROVE Goal
  BY <1>3, ExecutedKey DEF UnitLands, Types, Waiting, journal, tree, running
<1>4. ASSUME NEW e \in Executors, Succeed(e) PROVE Goal
  <2>1. exec[e] \in Keys /\ Close(exec[e], "completed") /\ Finish(e)
    BY <1>4 DEF Succeed, Types
  <2>2. node' \in [Keys -> Places]
    BY <1>4, <2>1 DEF Succeed, Published, Types, Places
  <2>3. /\ Waiting' /\ leased' \subseteq leased
        /\ op' \in [Keys -> {"none", "pending", "failed", "completed"}]
    BY <2>1, ClosedWaitsNoMore
  <2> QED BY <1>4, <2>1, <2>2, <2>3, FinishKeepsTypes DEF Succeed, Types
<1>5. ASSUME NEW e \in Executors, CallFails(e) \/ InsertAborts(e) \/ CallRejected(e) PROVE Goal
  BY <1>5, ErrorTypes
<1>6. ASSUME ClaimDue PROVE Goal
  BY <1>6, ClaimKeepsTypes DEF ClaimDue, Waiting
<1>7. ASSUME NEW k \in Keys, LeaseExpires(k) PROVE Goal
  BY <1>7 DEF LeaseExpires, Types, Waiting, tree, running
<1>8. ASSUME ComesDue PROVE Goal
  BY <1>8, ComesDueKeeps
<1>9. ASSUME Crash PROVE Goal
  BY <1>9, BoundsAssumption, EmptySeq DEF Crash, Types, Waiting, journal, tree, IsInjective
<1>10. ASSUME TrashStep PROVE Goal
  BY <1>10, TrashTypes
<1>11. ASSUME UNCHANGED vars PROVE Goal
  BY <1>11 DEF vars, Types, Waiting, journal, tree, running
<1> QED
  BY <1>1, <1>2, <1>3, <1>4, <1>5, <1>6, <1>7, <1>8, <1>9, <1>10, <1>11 DEF Next, Answer

\* Nothing waits at the start.
LEMMA InitTypes == Init => Types /\ Waiting
  BY BoundsAssumption, EmptySeq DEF Init, Types, Waiting, Places, IsInjective, ToSet

\* The queue holds every pending key once, and no other, and the worker no key twice, for
\* every number of keys, callers, rows of a claim and restarts.
THEOREM QueueTypes == Spec => []TypeOK
<1>1. Types /\ Waiting /\ [Next]_vars => Types' /\ Waiting'
  BY NextTypes
<1> QED BY <1>1, InitTypes, TypesFollow, PTL DEF Spec

==============================================================================
