--------------------------- MODULE NodeTree_proofs ---------------------------
(***************************************************************************)
(* What the Node tree and its Trash guarantee for every set of Nodes,      *)
(* batches and sagas.  The facts about descendants that the argument rests *)
(* on come first: Subtree(n) is the least set closed under children, so    *)
(* membership is refuted by exhibiting a closed set.  IInv adds to the     *)
(* forest that every parent exists and that an open batch holds its root.  *)
(***************************************************************************)
EXTENDS NodeTree, TLAPS

(* Every parent exists.                                                    *)
ParentsPresent == \A n \in Nodes : parent[n] \in Nodes => Present(parent[n])

(* No set of Nodes holds the parents of all its members: no cycle.         *)
Founded == \A S \in SUBSET Nodes : S # {} => \E n \in S : parent[n] \notin S

RootsAreHeld == \A b \in Batches : Open(b) => batch[root[b]] = b

IInv == TypeOK /\ ParentsPresent /\ Founded /\ RootsAreHeld

-----------------------------------------------------------------------------
(* Descendants.                                                            *)

LEMMA SubtreeHoldsSelf ==
  ASSUME NEW n \in Nodes
  PROVE  n \in Subtree(n)
  BY DEF Subtree

LEMMA SubtreeIsClosed ==
  ASSUME NEW n \in Nodes
  PROVE  Closed(Subtree(n)) /\ Subtree(n) \in SUBSET Nodes
  BY DEF Subtree, Closed

LEMMA SubtreeIsLeast ==
  ASSUME NEW n \in Nodes, NEW S \in SUBSET Nodes, n \in S, Closed(S)
  PROVE  Subtree(n) \subseteq S
  BY DEF Subtree

LEMMA SubtreeIsTransitive ==
  ASSUME NEW n \in Nodes, NEW m \in Subtree(n)
  PROVE  Subtree(m) \subseteq Subtree(n)
  <1>1. m \in Nodes
    BY DEF Subtree
  <1> QED BY <1>1, SubtreeIsClosed, SubtreeIsLeast

(* A Node is above another when it is it, or above its parent.             *)
LEMMA ParentIsAbove ==
  ASSUME NEW n \in Nodes, NEW m \in Nodes, n \in Subtree(m), parent[m] \in Nodes
  PROVE  n \in Subtree(parent[m])
  <1>1. m \in Subtree(parent[m])
    BY SubtreeHoldsSelf, SubtreeIsClosed DEF Closed
  <1> QED BY <1>1, SubtreeIsTransitive

(* A Node without children is above itself only.                           *)
LEMMA LeafIsAlone ==
  ASSUME NEW n \in Nodes, \A m \in Nodes : parent[m] # n
  PROVE  Subtree(n) \subseteq {n}
  <1>1. Closed({n})
    BY DEF Closed
  <1> QED BY <1>1, SubtreeIsLeast

(* Where no parent on the way up changes, no new ancestor appears.         *)
LEMMA NoNewAncestor ==
  ASSUME NEW n \in Nodes, ~Moved(n)
  PROVE  Ancestors(n)' \subseteq Ancestors(n)
  <1> DEFINE A == Ancestors(n) \cup {n}
  <1>0. PICK S \in SUBSET Nodes : S = Nodes \ A
    OBVIOUS
  <1>1. \A m \in A : m \in Nodes /\ n \in Subtree(m)
    BY SubtreeHoldsSelf DEF Ancestors
  <1>2. \A m \in A : parent[m] \in Nodes => parent[m] \in A
    BY <1>1, ParentIsAbove DEF Ancestors
  <1>3. \A m \in A : parent'[m] = parent[m]
    BY DEF Moved
  <1>4. \A m \in Nodes : parent'[m] \in S => m \in S
    BY <1>0, <1>2, <1>3
  <1>5. ASSUME NEW a \in Ancestors(n)', a \notin A PROVE FALSE
    <2>1. a \in S /\ n \in Subtree(a)'
      BY <1>0, <1>5 DEF Ancestors
    <2>2. Closed(S)'
      BY <1>4 DEF Closed
    <2>3. n \in S
      BY <2>1, <2>2 DEF Subtree
    <2> QED BY <1>0, <2>3
  <1>6. n \notin Ancestors(n)'
    BY DEF Ancestors
  <1> QED BY <1>5, <1>6

-----------------------------------------------------------------------------
(* Types.                                                                  *)

LEMMA InitIInv == Init => IInv
  <1> SUFFICES ASSUME Init PROVE IInv
    OBVIOUS
  <1>1. TypeOK
    BY DEF Init, TypeOK, Unfiled
  <1>2. ParentsPresent
    BY MarksAreApart DEF Init, ParentsPresent
  <1>3. Founded
    BY MarksAreApart DEF Init, Founded
  <1>4. RootsAreHeld
    BY DEF Init, RootsAreHeld, Open
  <1> QED BY <1>1, <1>2, <1>3, <1>4 DEF IInv

LEMMA InsertTypeOK ==
  ASSUME TypeOK, NEW n \in Nodes, NEW p \in Places, Insert(n, p)
  PROVE  /\ parent' \in [Nodes -> Places \cup {Absent}]
         /\ pinned' \subseteq {m \in Nodes : Present(m)'}
  BY MarksAreApart DEF TypeOK, Insert, Present, Places

LEMMA NextTypeOK == TypeOK /\ [Next]_vars => TypeOK'
  <1> SUFFICES ASSUME TypeOK, [Next]_vars PROVE TypeOK'
    OBVIOUS
  <1> USE DEF TypeOK
  <1>1. ASSUME NEW n \in Nodes, NEW p \in Places, Create(n, p) PROVE TypeOK'
    BY <1>1, InsertTypeOK DEF Create, Insert
  <1>2. ASSUME NEW n \in Nodes, NEW p \in Places, Move(n, p) PROVE TypeOK'
    BY <1>2, MarksAreApart DEF Move, Present, Places
  <1>3. ASSUME NEW n \in Nodes, NEW b \in Batches, TrashNode(n, b) PROVE TypeOK'
    BY <1>3 DEF TrashNode, Present
  <1>4. ASSUME NEW b \in Batches, Restore(b) PROVE TypeOK'
    BY <1>4 DEF Restore, Present, Unfiled
  <1>5. ASSUME NEW b \in Batches, RemovePermanently(b) PROVE TypeOK'
    BY <1>5 DEF RemovePermanently, Present, Unfiled, Deletable
  <1>6. ASSUME NEW s \in Sagas, GiveUp(s) PROVE TypeOK'
    BY <1>6 DEF GiveUp, Present
  <1>7. ASSUME NEW s \in Sagas, NEW p \in Places, NEW refers \in BOOLEAN, Choose(s, p, refers)
        PROVE  TypeOK'
    BY <1>7 DEF Choose, Present, MayHold, Live, Places
  <1>8. ASSUME NEW s \in Sagas, NEW n \in Nodes, Publish(s, n) PROVE TypeOK'
    <2>1. target[s] \in Places
      BY <1>8 DEF Publish
    <2> QED BY <1>8, <2>1, InsertTypeOK DEF Publish, Insert
  <1>9. CASE UNCHANGED vars
    BY <1>9 DEF vars, Present
  <1> QED BY <1>1, <1>2, <1>3, <1>4, <1>5, <1>6, <1>7, <1>8, <1>9 DEF Next

-----------------------------------------------------------------------------
(* The forest.  An inserted Node is a leaf; a moved subtree goes to a place*)
(* outside it, so a cycle through it would have to leave it and cannot     *)
(* come back; a removal takes whole subtrees.                              *)

LEMMA InsertKeepsForest ==
  ASSUME TypeOK, ParentsPresent, Founded,
         NEW n \in Nodes, NEW p \in Places, Insert(n, p), p \in Nodes => Present(p)
  PROVE  ParentsPresent' /\ Founded'
  <1>1. /\ parent' = [parent EXCEPT ![n] = p] /\ parent[n] = Absent
        /\ p # n /\ p # Absent
    BY MarksAreApart DEF Insert, Present, Places
  <1>2. \A m \in Nodes : parent[m] # n
    BY <1>1 DEF ParentsPresent, Present
  <1>3. ParentsPresent'
    BY <1>1, <1>2 DEF ParentsPresent, Present, TypeOK
  <1>4. ASSUME NEW S \in SUBSET Nodes, S # {} PROVE \E m \in S : parent'[m] \notin S
    <2>1. CASE S \subseteq {n}
      BY <1>1, <1>4, <2>1 DEF TypeOK
    <2>2. CASE ~(S \subseteq {n})
      <3>1. S \ {n} # {} /\ S \ {n} \in SUBSET Nodes
        BY <2>2
      <3>2. PICK m \in S \ {n} : parent[m] \notin S \ {n}
        BY <3>1 DEF Founded
      <3> QED BY <1>1, <1>2, <3>2 DEF TypeOK
    <2> QED BY <2>1, <2>2
  <1> QED BY <1>3, <1>4 DEF Founded

LEMMA MoveKeepsForest ==
  ASSUME TypeOK, ParentsPresent, Founded, NEW n \in Nodes, NEW p \in Places, Move(n, p)
  PROVE  ParentsPresent' /\ Founded'
  <1> DEFINE D == Subtree(n)
  <1>1. /\ parent' = [parent EXCEPT ![n] = p] /\ p \notin D
        /\ parent[n] # Absent /\ p # Absent /\ (p \in Nodes => parent[p] # Absent)
    BY MarksAreApart
    DEF Move, IsSelfOrDescendant, Live, Present, MayHold, Places
  <1>2. ParentsPresent'
    BY <1>1 DEF ParentsPresent, Present, TypeOK
  <1>3. n \in D /\ \A m \in Nodes : parent[m] \in D => m \in D
    BY SubtreeHoldsSelf, SubtreeIsClosed DEF Closed
  <1> HIDE DEF D
  <1>4. ASSUME NEW S \in SUBSET Nodes, S # {} PROVE \E m \in S : parent'[m] \notin S
    <2>1. CASE S \subseteq D
      <3>1. PICK m \in S : parent[m] \notin S
        BY <1>4 DEF Founded
      <3> QED BY <1>1, <2>1, <3>1 DEF TypeOK
    <2>2. CASE ~(S \subseteq D)
      <3>1. S \ D # {} /\ S \ D \in SUBSET Nodes
        BY <2>2
      <3>2. PICK m \in S \ D : parent[m] \notin S \ D
        BY <3>1 DEF Founded
      <3> QED BY <1>1, <1>3, <3>2 DEF TypeOK
    <2> QED BY <2>1, <2>2
  <1> QED BY <1>2, <1>4 DEF Founded

LEMMA RemovalKeepsForest ==
  ASSUME TypeOK, ParentsPresent, Founded, NEW b \in Batches, RemovePermanently(b)
  PROVE  ParentsPresent' /\ Founded'
  <1> DEFINE G == Subtree(root[b])
  <1>1. root[b] \in Nodes
    BY DEF RemovePermanently, Open, TypeOK
  <1>2. parent' = [m \in Nodes |-> IF m \in G THEN Absent ELSE parent[m]]
    BY DEF RemovePermanently
  <1>3. \A m \in Nodes : parent[m] \in G => m \in G
    BY <1>1, SubtreeIsClosed DEF Closed
  <1> HIDE DEF G
  <1>4. ParentsPresent'
    BY <1>2, <1>3, MarksAreApart DEF ParentsPresent, Present
  <1>5. ASSUME NEW S \in SUBSET Nodes, S # {} PROVE \E m \in S : parent'[m] \notin S
    <2>1. PICK m \in S : parent[m] \notin S
      BY <1>5 DEF Founded
    <2> QED BY <1>2, <2>1, MarksAreApart
  <1> QED BY <1>4, <1>5 DEF Founded

LEMMA NextForest ==
  TypeOK /\ ParentsPresent /\ Founded /\ [Next]_vars => ParentsPresent' /\ Founded'
  <1> SUFFICES ASSUME TypeOK, ParentsPresent, Founded, [Next]_vars
               PROVE  ParentsPresent' /\ Founded'
    OBVIOUS
  <1>1. ASSUME NEW n \in Nodes, NEW p \in Places, Create(n, p)
        PROVE  ParentsPresent' /\ Founded'
    <2>1. p \in Nodes => Present(p)
      BY <1>1, MarksAreApart DEF Create, MayHold, Live
    <2> QED BY <1>1, <2>1, InsertKeepsForest DEF Create
  <1>2. ASSUME NEW n \in Nodes, NEW s \in Sagas, Publish(s, n)
        PROVE  ParentsPresent' /\ Founded'
    <2>1. target[s] \in Places /\ (target[s] \in Nodes => Present(target[s]))
      BY <1>2 DEF Publish, TypeOK
    <2> QED BY <1>2, <2>1, InsertKeepsForest DEF Publish
  <1>3. CASE parent' = parent
    BY <1>3 DEF ParentsPresent, Founded, Present
  <1> QED
    BY <1>1, <1>2, <1>3, MoveKeepsForest, RemovalKeepsForest
    DEF Next, TrashNode, Restore, GiveUp, Choose, vars

-----------------------------------------------------------------------------
(* Batches and their roots.                                                *)

LEMMA NextRootsAreHeld == TypeOK /\ RootsAreHeld /\ [Next]_vars => RootsAreHeld'
  <1> SUFFICES ASSUME TypeOK, RootsAreHeld, [Next]_vars PROVE RootsAreHeld'
    OBVIOUS
  <1> USE DEF RootsAreHeld, Open
  <1>1. ASSUME NEW n \in Nodes, NEW b \in Batches, TrashNode(n, b) PROVE RootsAreHeld'
    <2>1. n \in Taken(n)
      BY <1>1, SubtreeHoldsSelf DEF TrashNode, Live, Taken
    <2>2. ASSUME NEW c \in Batches \ {b}, root[c] # None PROVE batch'[root[c]] = c
      BY <1>1, <2>2, MarksAreApart DEF TrashNode, Taken, TypeOK
    <2> QED BY <1>1, <2>1, <2>2 DEF TrashNode, TypeOK
  <1>2. ASSUME NEW b \in Batches, Restore(b) PROVE RootsAreHeld'
    BY <1>2 DEF Restore, TypeOK
  <1>3. ASSUME NEW b \in Batches, RemovePermanently(b) PROVE RootsAreHeld'
    BY <1>3 DEF RemovePermanently, TypeOK
  <1>4. CASE UNCHANGED <<batch, root>>
    BY <1>4
  <1> QED
    BY <1>1, <1>2, <1>3, <1>4
    DEF Next, Create, Move, Publish, Insert, GiveUp, Choose, vars

LEMMA NextIInv == IInv /\ [Next]_vars => IInv'
  BY NextTypeOK, NextForest, NextRootsAreHeld DEF IInv

(* Types, the forest and the roots of open batches hold in every state.    *)
THEOREM TreeInvariant == Spec => []IInv
  BY InitIInv, NextIInv, PTL DEF Spec

(* The variables of the Node tree keep their types, and a Node to which a  *)
(* row refers is never deleted.                                            *)
THEOREM TypeCorrect == Spec => []TypeOK
  <1>1. IInv => TypeOK
    BY DEF IInv
  <1> QED BY <1>1, TreeInvariant, PTL

(* nodes.repository.updateNode, trashNode, restore and removePermanently   *)
(* keep the Nodes a forest, whatever sagas publish late.                   *)
THEOREM ForestKept == Spec => []Forest
  <1>1. IInv => Forest
    BY DEF IInv, Forest, ParentsPresent, Founded
  <1> QED BY <1>1, TreeInvariant, PTL

-----------------------------------------------------------------------------
(* Steps.                                                                  *)

(* A step that empties no batch but b leaves the others open.              *)
LEMMA NextOpenBatches ==
  ASSUME TypeOK, [Next]_vars
  PROVE  \E b : \A c \in Batches : Open(c) /\ c # b => Open(c)'
  <1> USE DEF Open
  <1>1. ASSUME NEW n \in Nodes, NEW b \in Batches, TrashNode(n, b)
        PROVE  \A c \in Batches : Open(c) => Open(c)'
    BY <1>1, MarksAreApart DEF TrashNode, TypeOK
  <1>2. ASSUME NEW b \in Batches, Restore(b)
        PROVE  \A c \in Batches : Open(c) /\ c # b => Open(c)'
    BY <1>2 DEF Restore, TypeOK
  <1>3. ASSUME NEW b \in Batches, RemovePermanently(b)
        PROVE  \A c \in Batches : Open(c) /\ c # b => Open(c)'
    <2>1. \A c \in Batches \ {b} : root[c] # None => root[c] \notin Subtree(root[b])
      BY <1>3 DEF RemovePermanently, Removable, NestedBatches
    <2> QED BY <1>3, <2>1 DEF RemovePermanently, TypeOK
  <1>4. CASE root' = root
    BY <1>4
  <1> QED
    BY <1>1, <1>2, <1>3, <1>4
    DEF Next, Create, Move, Publish, Insert, GiveUp, Choose, vars

(* trash.repository.removePermanently deletes trash_batches rows of other  *)
(* batches only if blockers() failed to see them: it never does.           *)
THEOREM BatchesLeaveOneByOne == Spec => OpenBatchesStay
  <1>1. IInv /\ [Next]_vars =>
          [\A b, c \in Batches : Open(b) /\ Open(c) /\ b # c => Open(b)' \/ Open(c)']_vars
    BY NextOpenBatches DEF IInv
  <1> QED BY <1>1, TreeInvariant, PTL DEF Spec, OpenBatchesStay

(* A Node in sight is not in a trashed subtree, so a removal that takes it *)
(* would take the root of an open batch that is above it.                  *)
LEMMA InSightIsNotRemoved ==
  ASSUME IInv, NEW b \in Batches, RemovePermanently(b), NEW n \in Nodes, Visible(n)
  PROVE  /\ n \notin Subtree(root[b])
         /\ \A a \in Ancestors(n) : a \notin Subtree(root[b])
  <1>1. root[b] \in Nodes /\ batch[root[b]] # None
    BY MarksAreApart DEF IInv, TypeOK, RootsAreHeld, RemovePermanently, Open
  <1>2. n \notin Subtree(root[b])
    BY <1>1 DEF Visible, Live, Ancestors
  <1>3. ASSUME NEW a \in Ancestors(n), a \in Subtree(root[b]) PROVE FALSE
    <2>1. n \in Subtree(a)
      BY DEF Ancestors
    <2> QED BY <1>1, <1>2, <1>3, <2>1, SubtreeIsTransitive
  <1> QED BY <1>2, <1>3

(* An inserted Node is above nothing.                                      *)
LEMMA InsertedIsAboveNothing ==
  ASSUME IInv, NEW m \in Nodes, ~Present(m), NEW n \in Nodes, Present(n)
  PROVE  m # n /\ m \notin Ancestors(n)
  <1>1. \A k \in Nodes : parent[k] # m
    BY DEF IInv, ParentsPresent
  <1>2. Subtree(m) \subseteq {m}
    BY <1>1, LeafIsAlone
  <1> QED BY <1>2 DEF Ancestors

(* If no parent on the way up moved and no batch took it or a Node above   *)
(* it, it is still in sight.                                               *)
LEMMA StaysInSight ==
  ASSUME NEW n \in Nodes, Visible(n), ~Moved(n), batch'[n] = None, Present(n)',
         \A a \in Ancestors(n) : batch'[a] = None
  PROVE  Visible(n)'
  BY NoNewAncestor DEF Visible, Live

SeenStays(n) == Present(n)' /\ (Visible(n)' \/ batch'[n] # None \/ Moved(n))

LEMMA NextVisible ==
  ASSUME IInv, [Next]_vars, NEW n \in Nodes, Visible(n)
  PROVE  SeenStays(n)
  <1>0. /\ Present(n) /\ batch[n] = None
        /\ \A a \in Ancestors(n) : a \in Nodes /\ n \in Subtree(a) /\ batch[a] = None
    BY DEF Visible, Live, Ancestors
  <1> USE StaysInSight DEF SeenStays
  <1>1. ASSUME NEW m \in Nodes, NEW p \in Places, Insert(m, p) PROVE SeenStays(n)
    <2>1. m # n /\ m \notin Ancestors(n)
      BY <1>0, <1>1, InsertedIsAboveNothing DEF Insert
    <2>2. parent'[n] = parent[n] /\ \A a \in Ancestors(n) : parent'[a] = parent[a]
      BY <1>0, <1>1, <2>1 DEF Insert, IInv, TypeOK
    <2> QED BY <1>0, <1>1, <2>2 DEF Insert, Moved, Present
  <1>2. ASSUME NEW m \in Nodes, NEW p \in Places, Move(m, p) PROVE SeenStays(n)
    <2>1. Present(n)'
      BY <1>0, <1>2, MarksAreApart DEF Move, Present, IInv, TypeOK, Places
    <2> QED BY <1>0, <1>2, <2>1 DEF Move
  <1>3. ASSUME NEW m \in Nodes, NEW b \in Batches, TrashNode(m, b) PROVE SeenStays(n)
    <2>1. Present(n)' /\ ~Moved(n)
      BY <1>0, <1>3 DEF TrashNode, Moved, Present
    <2>2. CASE n \in Subtree(m)
      <3>1. batch'[n] = b
        BY <1>0, <1>3, <2>2 DEF TrashNode, Taken
      <3> QED BY <2>1, <3>1, MarksAreApart
    <2>3. CASE n \notin Subtree(m)
      <3>1. \A a \in Ancestors(n) : a \notin Subtree(m)
        BY <1>0, <1>3, <2>3, SubtreeIsTransitive
      <3>2. batch'[n] = None /\ \A a \in Ancestors(n) : batch'[a] = None
        BY <1>0, <1>3, <2>3, <3>1 DEF TrashNode, Taken
      <3> QED BY <2>1, <3>2
    <2> QED BY <2>2, <2>3
  <1>4. ASSUME NEW b \in Batches, Restore(b) PROVE SeenStays(n)
    <2>1. Present(n)' /\ ~Moved(n)
      BY <1>0, <1>4 DEF Restore, Moved, Present
    <2>2. batch'[n] = None /\ \A a \in Ancestors(n) : batch'[a] = None
      BY <1>0, <1>4 DEF Restore
    <2> QED BY <2>1, <2>2
  <1>5. ASSUME NEW b \in Batches, RemovePermanently(b) PROVE SeenStays(n)
    <2>1. /\ n \notin Subtree(root[b])
          /\ \A a \in Ancestors(n) : a \notin Subtree(root[b])
      BY <1>5, InSightIsNotRemoved
    <2>2. parent'[n] = parent[n] /\ \A a \in Ancestors(n) : parent'[a] = parent[a]
      BY <1>0, <1>5, <2>1 DEF RemovePermanently
    <2>3. batch'[n] = None /\ \A a \in Ancestors(n) : batch'[a] = None
      BY <1>0, <1>5, <2>1 DEF RemovePermanently
    <2> QED BY <1>0, <2>2, <2>3 DEF Moved, Present
  <1>6. CASE UNCHANGED <<parent, batch>>
    BY <1>0, <1>6 DEF Moved, Present
  <1>7. ASSUME NEW s \in Sagas, NEW m \in Nodes, Publish(s, m) PROVE SeenStays(n)
    <2>1. target[s] \in Places
      BY <1>7 DEF Publish, IInv, TypeOK
    <2> QED BY <1>1, <1>7, <2>1 DEF Publish
  <1> QED
    BY <1>1, <1>2, <1>3, <1>4, <1>5, <1>6, <1>7
    DEF Next, Create, GiveUp, Choose, vars

(* Nothing a user can see is deleted for good in one step, and it goes out *)
(* of sight only through its own batch or a move above it: true of every   *)
(* handler of nodes.service.ts and trash.service.ts.                       *)
THEOREM SightIsKept == Spec => VisibleStays
  <1>1. IInv /\ [Next]_vars =>
          [\A n \in Nodes :
             Visible(n) => Present(n)' /\ (Visible(n)' \/ batch'[n] # None \/ Moved(n))]_vars
    BY NextVisible DEF SeenStays
  <1> QED BY <1>1, TreeInvariant, PTL DEF Spec, VisibleStays

-----------------------------------------------------------------------------
(* Two states are compared through the parents alone: Below(f, n) are the  *)
(* descendants of n where f gives the parents.                             *)
Below(f, n) ==
  {m \in Nodes :
     \A S \in SUBSET Nodes : n \in S /\ (\A k \in Nodes : f[k] \in S => k \in S) => m \in S}

FoundedBy(f) == \A S \in SUBSET Nodes : S # {} => \E n \in S : f[n] \notin S

LEMMA SubtreeIsBelow ==
  ASSUME NEW n \in Nodes
  PROVE  Subtree(n) = Below(parent, n) /\ Subtree(n)' = Below(parent', n)
  BY DEF Subtree, Below, Closed

LEMMA BelowIsSubset ==
  ASSUME NEW f, NEW n \in Nodes
  PROVE  /\ Below(f, n) \in SUBSET Nodes /\ n \in Below(f, n)
         /\ \A k \in Nodes : f[k] \in Below(f, n) => k \in Below(f, n)
  BY DEF Below

LEMMA BelowIsLeast ==
  ASSUME NEW f, NEW n \in Nodes, NEW S \in SUBSET Nodes, n \in S,
         \A k \in Nodes : f[k] \in S => k \in S
  PROVE  Below(f, n) \subseteq S
  BY DEF Below

LEMMA BelowIsTransitive ==
  ASSUME NEW f, NEW n \in Nodes, NEW m \in Below(f, n)
  PROVE  m \in Nodes /\ Below(f, m) \subseteq Below(f, n)
  <1>1. m \in Nodes
    BY BelowIsSubset
  <1> QED BY <1>1, BelowIsSubset, BelowIsLeast

(* The parent of a descendant other than the Node itself is one too.       *)
LEMMA BelowHoldsParents ==
  ASSUME NEW f, NEW r \in Nodes, NEW m \in Below(f, r), m # r
  PROVE  f[m] \in Below(f, r)
  <1>1. SUFFICES ASSUME f[m] \notin Below(f, r) PROVE FALSE
    OBVIOUS
  <1> DEFINE S == Below(f, r) \ {m}
  <1>2. S \in SUBSET Nodes /\ r \in S
    BY BelowIsSubset
  <1>3. \A k \in Nodes : f[k] \in S => k \in S
    BY <1>1, BelowIsSubset
  <1>4. Below(f, r) \subseteq S
    BY <1>2, <1>3, BelowIsLeast
  <1> QED BY <1>4

(* In a forest no Node is above its own parent.                            *)
LEMMA NoNodeAboveItsParent ==
  ASSUME NEW f, FoundedBy(f), NEW r \in Nodes
  PROVE  f[r] \notin Below(f, r)
  <1>1. SUFFICES ASSUME f[r] \in Below(f, r) PROVE FALSE
    OBVIOUS
  <1>2. \A m \in Below(f, r) : f[m] \in Below(f, r)
    BY <1>1, BelowHoldsParents
  <1>3. Below(f, r) # {} /\ Below(f, r) \in SUBSET Nodes
    BY BelowIsSubset
  <1> QED BY <1>2, <1>3 DEF FoundedBy

(* Of two Nodes above a third, one is above the other.                     *)
LEMMA AboveIsLinear ==
  ASSUME NEW f, NEW x \in Nodes, NEW y \in Nodes,
         NEW n \in Below(f, x), n \in Below(f, y)
  PROVE  x \in Below(f, y) \/ y \in Below(f, x)
  <1>1. SUFFICES ASSUME x \notin Below(f, y), y \notin Below(f, x) PROVE FALSE
    OBVIOUS
  <1> DEFINE S == Below(f, x) \ Below(f, y)
  <1>2. S \in SUBSET Nodes /\ x \in S
    BY <1>1, BelowIsSubset
  <1>3. ASSUME NEW m \in Nodes, f[m] \in S PROVE m \in S
    <2>1. m \in Below(f, x)
      BY <1>3, BelowIsSubset
    <2>2. m \notin Below(f, y)
      BY <1>1, <1>3, <2>1, BelowHoldsParents
    <2> QED BY <2>1, <2>2
  <1> HIDE DEF S
  <1>4. Below(f, x) \subseteq S
    BY <1>2, <1>3, BelowIsLeast
  <1> QED BY <1>4 DEF S

(* The Nodes from n up to r, where f gives the parents.                    *)
Path(f, n, r) == {x \in Nodes : n \in Below(f, x) /\ x \in Below(f, r)}

(* Where the parents on the path stay, so does the path.                   *)
LEMMA PathIsKept ==
  ASSUME NEW f, NEW g, FoundedBy(f), FoundedBy(g), NEW r \in Nodes, NEW n \in Below(f, r),
         \A x \in Path(f, n, r) : g[x] = f[x]
  PROVE  Path(g, n, r) \subseteq Path(f, n, r) /\ Path(f, n, r) \subseteq Below(g, r)
  <1> DEFINE P == Path(f, n, r)
  <1>0. n \in Nodes /\ P \in SUBSET Nodes
    BY BelowIsSubset DEF Path
  <1>1. n \in P /\ r \in P /\ \A x \in P : g[x] = f[x]
    BY <1>0, BelowIsSubset DEF Path
  <1>2. ASSUME NEW x \in P, x # r PROVE f[x] \in P
    <2>1. f[x] \in Below(f, r) /\ f[x] \in Nodes /\ x \in Nodes
      BY <1>2, BelowHoldsParents, BelowIsSubset DEF Path
    <2>2. x \in Below(f, f[x])
      BY <2>1, BelowIsSubset
    <2>3. n \in Below(f, f[x])
      BY <2>1, <2>2, BelowIsTransitive DEF Path
    <2> QED BY <2>1, <2>3 DEF Path
  <1> HIDE DEF P
  <1>3. P \subseteq Below(g, r)
    <2>1. SUFFICES ASSUME P \ Below(g, r) # {} PROVE FALSE
      OBVIOUS
    <2>2. PICK m \in P \ Below(g, r) : f[m] \notin P \ Below(g, r)
      BY <1>0, <2>1 DEF FoundedBy
    <2>3. m # r
      BY <2>2, BelowIsSubset
    <2>4. f[m] \in Below(g, r) /\ g[m] = f[m]
      BY <1>1, <1>2, <2>2, <2>3
    <2>5. m \in Below(g, r)
      BY <1>0, <2>4, BelowIsSubset
    <2> QED BY <2>2, <2>5
  <1>4. ASSUME NEW x \in Path(g, n, r), x \notin P PROVE FALSE
    <2> DEFINE S == Below(g, r) \ P
    <2>1. x \in Nodes /\ x \in S /\ S \in SUBSET Nodes /\ n \in Below(g, x)
      BY <1>4, BelowIsSubset DEF Path
    <2>2. ASSUME NEW m \in Nodes, g[m] \in S, m \notin S PROVE FALSE
      <3>1. m \in P
        BY <2>2, BelowIsSubset
      <3>2. m # r
        BY <2>2, NoNodeAboveItsParent
      <3> QED BY <1>1, <1>2, <2>2, <3>1, <3>2
    <2> HIDE DEF S
    <2>3. Below(g, x) \subseteq S
      BY <2>1, <2>2, BelowIsLeast
    <2> QED BY <1>1, <2>1, <2>3 DEF S
  <1> QED BY <1>3, <1>4 DEF P
-----------------------------------------------------------------------------
(* Batches and their members.  That a batch is still open while a Node is  *)
(* in it needs more than the batches' roots: no Node between a member and  *)
(* the root of its batch may come back to life first.  Each of them is in  *)
(* the Trash, in a batch whose root is no higher.                          *)

RootedAt(n) ==
  LET r == root[batch[n]] IN
  /\ Present(n) /\ Open(batch[n]) /\ n \in Below(parent, r)
  /\ \A x \in Path(parent, n, r) :
       batch[x] # None /\ root[batch[x]] \in Below(parent, r)

Rooted == \A n \in Nodes : batch[n] # None => RootedAt(n)

(* What history says of a Node is what its row says.                       *)
FiledInv ==
  \A n \in Nodes :
    IF batch[n] = None THEN filed[n] = Unfiled
                       ELSE filed[n] = [batch |-> batch[n], from |-> parent[n]]

BatchInv == IInv /\ Rooted /\ FiledInv

LEMMA RootIsNode ==
  ASSUME TypeOK, Rooted, NEW n \in Nodes, batch[n] # None
  PROVE  batch[n] \in Batches /\ root[batch[n]] \in Nodes
  BY DEF TypeOK, Rooted, RootedAt, Open

(* A step that leaves the rows between n and the root of its batch alone.  *)
LEMMA RootedStays ==
  ASSUME IInv, IInv', Rooted, NEW n \in Nodes, batch[n] # None,
         \A x \in Path(parent, n, root[batch[n]]) :
           /\ parent'[x] = parent[x] /\ batch'[x] = batch[x]
           /\ root'[batch[x]] = root[batch[x]]
  PROVE  batch'[n] # None /\ RootedAt(n)'
  <1> DEFINE r == root[batch[n]]
             P == Path(parent, n, r)
  <1>1. r \in Nodes /\ RootedAt(n)
    BY RootIsNode DEF IInv, Rooted
  <1>2. n \in P
    BY <1>1, BelowIsSubset DEF RootedAt, Path
  <1>3. batch'[n] = batch[n] /\ root'[batch'[n]] = r /\ parent'[n] = parent[n]
    BY <1>2
  <1>4. Path(parent', n, r) \subseteq P /\ P \subseteq Below(parent', r)
    <2>1. FoundedBy(parent) /\ FoundedBy(parent')
      BY DEF IInv, Founded, FoundedBy
    <2> QED BY <1>1, <2>1, PathIsKept DEF RootedAt
  <1>5. ASSUME NEW x \in Path(parent', n, r)
        PROVE  batch'[x] # None /\ root'[batch'[x]] \in Below(parent', r)
    <2>1. x \in P /\ x \in Nodes /\ n \in Below(parent, x)
      BY <1>4 DEF Path
    <2>2. batch[x] # None /\ root[batch[x]] \in Below(parent, r)
      BY <1>1, <2>1 DEF RootedAt
    <2>3. root[batch[x]] \in Nodes /\ x \in Below(parent, root[batch[x]])
      BY <2>1, <2>2, RootIsNode DEF IInv, Rooted, RootedAt
    <2>4. n \in Below(parent, root[batch[x]])
      BY <2>1, <2>3, BelowIsTransitive
    <2>5. root[batch[x]] \in P
      BY <2>2, <2>3, <2>4 DEF Path
    <2> QED BY <1>4, <2>1, <2>2, <2>5
  <1>6. Present(n)' /\ Open(batch[n])' /\ n \in Below(parent', r)
    BY <1>1, <1>2, <1>3, <1>4 DEF RootedAt, Present, Open
  <1> QED BY <1>1, <1>3, <1>5, <1>6 DEF RootedAt, Present, Open

LEMMA TrashKeepsRooted ==
  ASSUME IInv, IInv', Rooted, NEW m \in Nodes, NEW b \in Batches, TrashNode(m, b)
  PROVE  Rooted'
  <1>1. /\ parent' = parent /\ root' = [root EXCEPT ![b] = m] /\ root[b] = None
        /\ batch' = [k \in Nodes |->
             IF k \in Below(parent, m) /\ batch[k] = None THEN b ELSE batch[k]]
        /\ batch[m] = None /\ parent[m] # Absent /\ b # None
    BY SubtreeIsBelow, MarksAreApart DEF TrashNode, Taken, Live, Present
  <1>2. \A x \in Nodes : batch[x] # None =>
          batch'[x] = batch[x] /\ batch[x] # b /\ root'[batch[x]] = root[batch[x]]
    BY <1>1, RootIsNode, MarksAreApart DEF IInv, TypeOK
  <1>3. ASSUME NEW n \in Nodes, batch[n] # None PROVE RootedAt(n)'
    <2>1. \A x \in Path(parent, n, root[batch[n]]) : x \in Nodes /\ batch[x] # None
      BY <1>3 DEF Rooted, RootedAt, Path
    <2> QED BY <1>1, <1>2, <1>3, <2>1, RootedStays
  <1>4. ASSUME NEW n \in Below(parent, m), batch[n] = None PROVE RootedAt(n)'
    <2>1. n \in Nodes /\ batch'[n] = b /\ root'[b] = m
      BY <1>1, <1>4, BelowIsSubset DEF IInv, TypeOK
    <2>2. Present(n)'
      BY <1>1, <2>1, BelowHoldsParents, BelowIsSubset, MarksAreApart DEF Present
    <2>3. ASSUME NEW x \in Path(parent, n, m)
          PROVE  batch'[x] # None /\ root'[batch'[x]] \in Below(parent, m)
      <3>1. x \in Nodes /\ x \in Below(parent, m)
        BY DEF Path
      <3>2. CASE batch[x] = None
        BY <1>1, <2>1, <3>1, <3>2, BelowIsSubset
      <3>3. CASE batch[x] # None
        <4> DEFINE y == root[batch[x]]
        <4>1. y \in Nodes /\ RootedAt(x) /\ x \in Below(parent, y)
          BY <3>1, <3>3, RootIsNode DEF IInv, Rooted, RootedAt
        <4>2. m \notin Path(parent, x, y)
          BY <1>1, <4>1 DEF RootedAt
        <4>3. m \notin Below(parent, y)
          BY <3>1, <4>2 DEF Path
        <4>4. y \in Below(parent, m)
          BY <3>1, <4>1, <4>3, AboveIsLinear
        <4> QED BY <1>2, <3>1, <3>3, <4>4
      <3> QED BY <3>2, <3>3
    <2> QED BY <1>1, <1>4, <2>1, <2>2, <2>3, MarksAreApart DEF RootedAt, Open
  <1>5. \A n \in Nodes : batch'[n] # None => batch[n] # None \/ n \in Below(parent, m)
    BY <1>1
  <1> QED BY <1>3, <1>4, <1>5 DEF Rooted

LEMMA RestoreKeepsRooted ==
  ASSUME IInv, IInv', Rooted, NEW c \in Batches, Restore(c)
  PROVE  Rooted'
  <1>1. /\ parent' = parent /\ root' = [root EXCEPT ![c] = None] /\ root[c] \in Nodes
        /\ batch' = [k \in Nodes |-> IF batch[k] = c THEN None ELSE batch[k]]
    BY DEF Restore, Open, IInv, TypeOK
  <1>2. SUFFICES ASSUME NEW n \in Nodes, batch'[n] # None PROVE RootedAt(n)'
    BY DEF Rooted
  <1>3. batch[n] # None /\ batch[n] # c
    BY <1>1, <1>2
  <1> DEFINE r == root[batch[n]]
  <1>4. r \in Nodes /\ batch[r] = batch[n] /\ RootedAt(n)
    BY <1>3, RootIsNode DEF IInv, RootsAreHeld, Rooted, Open, RootedAt
  <1>5. ASSUME NEW x \in Path(parent, n, r), batch[x] = c PROVE FALSE
    <2>1. root[c] \in Below(parent, r)
      BY <1>4, <1>5 DEF RootedAt
    <2>2. batch[root[c]] = c
      BY <1>1, MarksAreApart DEF IInv, RootsAreHeld, Open
    <2>3. r \in Ancestors(root[c])
      BY <1>1, <1>3, <1>4, <2>1, <2>2, SubtreeIsBelow DEF Ancestors
    <2> QED BY <1>3, <1>4, <2>3 DEF Restore, Restorable, ParentBatches
  <1>6. \A x \in Path(parent, n, r) :
          x \in Nodes /\ batch[x] # c /\ batch[x] \in Batches
    BY <1>4, <1>5, RootIsNode DEF Path, RootedAt, IInv
  <1> QED BY <1>1, <1>3, <1>6, RootedStays DEF IInv, TypeOK

LEMMA RemovalKeepsRooted ==
  ASSUME IInv, IInv', Rooted, NEW c \in Batches, RemovePermanently(c)
  PROVE  Rooted'
  <1> DEFINE G == Below(parent, root[c])
  <1>1. root[c] \in Nodes
    BY DEF RemovePermanently, Open, IInv, TypeOK
  <1>2. /\ parent' = [k \in Nodes |-> IF k \in G THEN Absent ELSE parent[k]]
        /\ batch' = [k \in Nodes |-> IF k \in G THEN None ELSE batch[k]]
        /\ root' = [d \in Batches |-> IF root[d] \in G THEN None ELSE root[d]]
    BY <1>1, SubtreeIsBelow DEF RemovePermanently
  <1>3. SUFFICES ASSUME NEW n \in Nodes, batch'[n] # None PROVE RootedAt(n)'
    BY DEF Rooted
  <1>4. n \notin G /\ batch[n] # None
    BY <1>2, <1>3
  <1>5. ASSUME NEW x \in Path(parent, n, root[batch[n]])
        PROVE  /\ parent'[x] = parent[x] /\ batch'[x] = batch[x]
               /\ root'[batch[x]] = root[batch[x]]
    <2>1. x \in Nodes /\ n \in Below(parent, x) /\ batch[x] # None
      BY <1>4 DEF Path, Rooted, RootedAt
    <2>2. x \notin G
      BY <1>1, <1>4, <2>1, BelowIsTransitive
    <2>3. batch[x] \in Batches /\ x \in Below(parent, root[batch[x]])
      BY <2>1, RootIsNode DEF IInv, Rooted, RootedAt
    <2>4. root[batch[x]] \notin G
      BY <1>1, <2>2, <2>3, BelowIsTransitive
    <2> QED BY <1>2, <2>1, <2>2, <2>3, <2>4
  <1> QED BY <1>4, <1>5, RootedStays

(* Inserted and moved Nodes are in no batch, so they are on no such path.  *)
LEMMA QuietKeepsRooted ==
  ASSUME IInv, IInv', Rooted, batch' = batch, root' = root,
         \A k \in Nodes : batch[k] # None => parent'[k] = parent[k]
  PROVE  Rooted'
  <1>1. SUFFICES ASSUME NEW n \in Nodes, batch[n] # None PROVE RootedAt(n)'
    BY DEF Rooted
  <1>2. \A x \in Path(parent, n, root[batch[n]]) : x \in Nodes /\ batch[x] # None
    BY <1>1 DEF Rooted, RootedAt, Path
  <1> QED BY <1>1, <1>2, RootedStays

LEMMA InsertIsQuiet ==
  ASSUME IInv, Rooted, NEW m \in Nodes, NEW p, Insert(m, p)
  PROVE  /\ batch' = batch /\ root' = root /\ batch[m] = None
         /\ \A k \in Nodes : batch[k] # None => parent'[k] = parent[k]
  <1>1. batch[m] = None
    BY DEF Insert, Rooted, RootedAt
  <1> QED BY <1>1 DEF Insert, IInv, TypeOK

LEMMA MoveIsQuiet ==
  ASSUME IInv, NEW m \in Nodes, NEW p, Move(m, p)
  PROVE  /\ batch' = batch /\ root' = root /\ batch[m] = None
         /\ \A k \in Nodes : batch[k] # None => parent'[k] = parent[k]
  BY DEF Move, Live, IInv, TypeOK

LEMMA NextRooted == IInv /\ IInv' /\ Rooted /\ [Next]_vars => Rooted'
  <1> SUFFICES ASSUME IInv, IInv', Rooted, [Next]_vars PROVE Rooted'
    OBVIOUS
  <1>1. ASSUME NEW n \in Nodes, NEW p \in Places, Create(n, p) \/ Move(n, p) PROVE Rooted'
    BY <1>1, InsertIsQuiet, MoveIsQuiet, QuietKeepsRooted DEF Create
  <1>2. ASSUME NEW s \in Sagas, NEW n \in Nodes, Publish(s, n) PROVE Rooted'
    BY <1>2, InsertIsQuiet, QuietKeepsRooted DEF Publish
  <1>3. CASE UNCHANGED <<parent, batch, root>>
    BY <1>3, QuietKeepsRooted
  <1> QED
    BY <1>1, <1>2, <1>3, TrashKeepsRooted, RestoreKeepsRooted, RemovalKeepsRooted
    DEF Next, GiveUp, Choose, vars

LEMMA FiledFields ==
  ASSUME FiledInv, NEW n \in Nodes
  PROVE  /\ filed[n].batch = batch[n]
         /\ batch[n] = None <=> filed[n] = Unfiled
         /\ batch[n] # None => filed[n].from = parent[n]
  <1>1. CASE batch[n] = None
    <2>1. filed[n] = Unfiled
      BY <1>1 DEF FiledInv
    <2> QED BY <1>1, <2>1 DEF Unfiled
  <1>2. CASE batch[n] # None
    <2>1. filed[n] = [batch |-> batch[n], from |-> parent[n]]
      BY <1>2 DEF FiledInv
    <2> QED BY <1>2, <2>1 DEF Unfiled
  <1> QED BY <1>1, <1>2

LEMMA NextFiledInv == IInv /\ Rooted /\ FiledInv /\ [Next]_vars => FiledInv'
  <1> SUFFICES ASSUME IInv, Rooted, FiledInv, [Next]_vars PROVE FiledInv'
    OBVIOUS
  <1>1. ASSUME NEW n \in Nodes, NEW p \in Places, Create(n, p) PROVE FiledInv'
    BY <1>1, InsertIsQuiet DEF Create, Insert, FiledInv
  <1>2. ASSUME NEW n \in Nodes, NEW p \in Places, Move(n, p) PROVE FiledInv'
    BY <1>2, MoveIsQuiet DEF Move, FiledInv
  <1>3. ASSUME NEW s \in Sagas, NEW n \in Nodes, Publish(s, n) PROVE FiledInv'
    BY <1>3, InsertIsQuiet DEF Publish, Insert, FiledInv
  <1>4. ASSUME NEW n \in Nodes, NEW b \in Batches, TrashNode(n, b) PROVE FiledInv'
    <2>1. \A m \in Nodes : batch[m] = None <=> filed[m] = Unfiled
      BY FiledFields
    <2>2. b # None
      BY MarksAreApart
    <2> QED BY <1>4, <2>1, <2>2 DEF TrashNode, Taken, FiledInv
  <1>5. ASSUME NEW b \in Batches, Restore(b) PROVE FiledInv'
    <2>1. \A m \in Nodes : filed[m].batch = batch[m]
      BY FiledFields
    <2> QED BY <1>5, <2>1, MarksAreApart DEF Restore, FiledInv
  <1>6. ASSUME NEW b \in Batches, RemovePermanently(b) PROVE FiledInv'
    BY <1>6 DEF RemovePermanently, FiledInv
  <1>7. CASE UNCHANGED <<parent, batch, filed>>
    BY <1>7 DEF FiledInv
  <1> QED
    BY <1>1, <1>2, <1>3, <1>4, <1>5, <1>6, <1>7 DEF Next, GiveUp, Choose, vars

LEMMA InitBatchInv == Init => BatchInv
  BY InitIInv DEF Init, BatchInv, Rooted, FiledInv

(* A trashed Node waits in an open batch, where it was: restore() in       *)
(* trash.repository.ts puts back what trashNode() took, whatever was       *)
(* published, moved, trashed, restored or removed in between.              *)
THEOREM TrashKeepsPlaces == Spec => []FiledAsTaken
  <1>1. BatchInv /\ IInv' /\ [Next]_vars => BatchInv'
    BY NextRooted, NextFiledInv DEF BatchInv
  <1>2. BatchInv => FiledAsTaken
    BY FiledFields DEF BatchInv, Rooted, RootedAt, FiledAsTaken
  <1> QED BY <1>1, <1>2, InitBatchInv, TreeInvariant, PTL DEF Spec
=============================================================================
