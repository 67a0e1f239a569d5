------------------------------ MODULE NodeTree ------------------------------
(***************************************************************************)
(* The Node tree of one Space and its Trash: nodes.service.ts,             *)
(* trash.service.ts, their repositories, and the foreign keys of           *)
(* schema.sql.  Every handler is synchronous, so each is one action.  The  *)
(* exception are the sagas that choose a folder, await another system and  *)
(* insert a Node there when its answer comes (Resource creation, uploads,  *)
(* the publication of worktree Units): their folder may meanwhile be in    *)
(* the Trash, or gone.  Who may do what is the subject of Access; here     *)
(* anybody may, which only adds behaviours.                                *)
(***************************************************************************)
EXTENDS Naturals, FiniteSets

CONSTANTS
  Nodes,     \* Node ids; a removed one stands for the fresh id of another
  Batches,   \* Trash batch ids, likewise
  Sagas,     \* requests that wait with the folder they will insert into
  Root,      \* the parent of a Node at the root of its Space: NULL
  Absent,    \* the parent of a Node that does not exist
  None       \* no batch, no folder chosen

Places == Nodes \cup {Root}

ASSUME MarksAreApart ==
  /\ Root \notin Nodes /\ Absent \notin Nodes /\ Root # Absent
  /\ None \notin Nodes \cup Batches \cup {Root}

VARIABLES
  parent,   \* nodes.parent_id
  batch,    \* nodes.trash_batch_id
  root,     \* trash_batches.root_node_id of the batches that are not restored
  pinned,   \* Nodes that a session or an intent refers to, for good
  target,   \* the folder that each saga in flight chose
  filed     \* history: where each trashed Node was when it was trashed

vars == <<parent, batch, root, pinned, target, filed>>

Present(n) == parent[n] # Absent
Live(n)    == Present(n) /\ batch[n] = None

(* WITH RECURSIVE descendants: the least set with n and the children of    *)
(* its members, whatever their state.                                      *)
ChildrenOnly(n) == {n} \cup {m \in Nodes : parent[m] = n}
Closed(S) == \A m \in Nodes : parent[m] \in S => m \in S
Subtree(n) == {m \in Nodes : \A S \in SUBSET Nodes : n \in S /\ Closed(S) => m \in S}

Ancestors(n) == {a \in Nodes \ {n} : n \in Subtree(a)}

(* The Node can be reached by browsing from the root of its Space.         *)
Visible(n) == Live(n) /\ \A a \in Ancestors(n) : batch[a] = None

Unfiled == [batch |-> None, from |-> Absent]

Init ==
  /\ parent = [n \in Nodes |-> Absent] /\ batch = [n \in Nodes |-> None]
  /\ root = [b \in Batches |-> None]
  /\ pinned = {} /\ target = [s \in Sagas |-> None]
  /\ filed = [n \in Nodes |-> Unfiled]

-----------------------------------------------------------------------------
(* Nodes.                                                                  *)

(* validateTarget resolves the parent, which looks at its own batch only.  *)
MayHold(p) == p = Root \/ (p \in Nodes /\ Live(p))

Insert(n, p) ==
  /\ ~Present(n)
  /\ parent' = [parent EXCEPT ![n] = p]
  /\ UNCHANGED <<batch, root, pinned, filed>>

Create(n, p) == MayHold(p) /\ Insert(n, p) /\ UNCHANGED target

IsSelf(n, p) == p = n
IsSelfOrDescendant(n, p) == p \in Subtree(n)

Move(n, p) ==
  /\ Live(n) /\ MayHold(p)
  /\ ~IsSelfOrDescendant(n, p)
  /\ parent' = [parent EXCEPT ![n] = p]
  /\ UNCHANGED <<batch, root, pinned, target, filed>>

-----------------------------------------------------------------------------
(* Trash.                                                                  *)

TakesAll(n) == Subtree(n)
TakesChildren(n) == {m \in ChildrenOnly(n) : batch[m] = None}
Taken(n) == {m \in Subtree(n) : batch[m] = None}

TrashNode(n, b) ==
  /\ Live(n) /\ root[b] = None
  /\ root' = [root EXCEPT ![b] = n]
  /\ batch' = [m \in Nodes |-> IF m \in Taken(n) THEN b ELSE batch[m]]
  /\ filed' = [m \in Nodes |->
       IF m \in Subtree(n) /\ filed[m] = Unfiled
         THEN [batch |-> b, from |-> parent[m]] ELSE filed[m]]
  /\ UNCHANGED <<parent, pinned, target>>

Open(b) == root[b] # None

(* blockers: a trashed ancestor blocks restoring, another batch further    *)
(* down blocks removing.                                                   *)
ParentBatches(b) == {batch[a] : a \in Ancestors(root[b])} \ {None}
NestedBatches(b) == {c \in Batches \ {b} : Open(c) /\ root[c] \in Subtree(root[b])}

Unblocked(b) == TRUE
Restorable(b) == ParentBatches(b) = {}
Removable(b)  == NestedBatches(b) = {}

Restore(b) ==
  /\ Open(b) /\ Restorable(b)
  /\ batch' = [n \in Nodes |-> IF batch[n] = b THEN None ELSE batch[n]]
  /\ root' = [root EXCEPT ![b] = None]
  /\ filed' = [n \in Nodes |-> IF filed[n].batch = b THEN Unfiled ELSE filed[n]]
  /\ UNCHANGED <<parent, pinned, target>>

(* The rows that refer to a Node ON DELETE RESTRICT abort the transaction. *)
Deletable(S) == S \cap pinned = {}

(* The descendants go, deepest first, and the batches rooted at them.      *)
RemovePermanently(b) ==
  LET gone == Subtree(root[b]) IN
  /\ Open(b) /\ Removable(b)
  /\ Deletable(gone)
  /\ parent' = [n \in Nodes |-> IF n \in gone THEN Absent ELSE parent[n]]
  /\ batch' = [n \in Nodes |-> IF n \in gone THEN None ELSE batch[n]]
  /\ root' = [c \in Batches |-> IF root[c] \in gone THEN None ELSE root[c]]
  /\ filed' = [n \in Nodes |-> IF n \in gone THEN Unfiled ELSE filed[n]]
  /\ UNCHANGED <<pinned, target>>

-----------------------------------------------------------------------------
(* Sagas: check the folder, await, insert the Node.                        *)

(* An upload session or a worktree intent is a row that refers to the      *)
(* folder ON DELETE RESTRICT and is never deleted; the creation of a Univer*)
(* Resource keeps its folder in a JSON payload, to which nothing refers.   *)
Choose(s, p, refers) ==
  /\ target[s] = None /\ MayHold(p)
  /\ target' = [target EXCEPT ![s] = p]
  /\ pinned' = IF refers THEN pinned \cup ({p} \ {Root}) ELSE pinned
  /\ UNCHANGED <<parent, batch, root, filed>>

(* The trigger nodes_parent_insert only wants the folder to exist.         *)
Publish(s, n) ==
  /\ target[s] # None
  /\ target[s] \in Nodes => Present(target[s])
  /\ Insert(n, target[s])
  /\ target' = [target EXCEPT ![s] = None]

GiveUp(s) ==
  /\ target[s] # None
  /\ target' = [target EXCEPT ![s] = None]
  /\ UNCHANGED <<parent, batch, root, pinned, filed>>

Next ==
  \/ \E n \in Nodes, p \in Places : Create(n, p) \/ Move(n, p)
  \/ \E n \in Nodes, b \in Batches : TrashNode(n, b)
  \/ \E b \in Batches : Restore(b) \/ RemovePermanently(b)
  \/ \E s \in Sagas : GiveUp(s) \/ \E p \in Places, refers \in BOOLEAN : Choose(s, p, refers)
  \/ \E s \in Sagas, n \in Nodes : Publish(s, n)

Spec == Init /\ [][Next]_vars

-----------------------------------------------------------------------------
(* What the tree promises.                                                 *)

TypeOK ==
  /\ parent \in [Nodes -> Places \cup {Absent}]
  /\ batch \in [Nodes -> Batches \cup {None}]
  /\ root \in [Batches -> Nodes \cup {None}]
  /\ pinned \subseteq {n \in Nodes : Present(n)}
  /\ target \in [Sagas -> Places \cup {None}]
  /\ filed \in [Nodes -> [batch : Batches \cup {None}, from : Places \cup {Absent}]]

(* Whatever is moved, trashed, restored and removed in whatever order, the *)
(* Nodes stay a forest: every parent exists and no Node is below itself.   *)
Forest ==
  /\ \A n \in Nodes : parent[n] \in Nodes => Present(parent[n])
  /\ \A S \in SUBSET Nodes : S # {} => \E n \in S : parent[n] \notin S

(* A trashed Node waits in the batch that took it, under the parent it had *)
(* then: later batches do not take it over and moves do not displace it,   *)
(* so that restoring a batch brings back what was trashed with it, in its  *)
(* place.                                                                  *)
FiledAsTaken ==
  \A n \in Nodes :
    /\ filed[n].batch = batch[n]
    /\ batch[n] # None => filed[n].from = parent[n] /\ Open(batch[n])

(* An open batch leaves the Trash by being restored or removed itself,     *)
(* never as a side effect of removing another one.                         *)
OpenBatchesStay ==
  [][\A b, c \in Batches : Open(b) /\ Open(c) /\ b # c => Open(b)' \/ Open(c)']_vars

(* A Node that users can reach is never deleted for good in one step, and  *)
(* leaves their sight only by being trashed in a batch, or because it or a *)
(* folder above it is moved (below a Node that was published too late).    *)
Moved(n) == \E a \in Ancestors(n) \cup {n} : parent'[a] # parent[a]
VisibleStays ==
  [][\A n \in Nodes :
       Visible(n) => Present(n)' /\ (Visible(n)' \/ batch'[n] # None \/ Moved(n))]_vars
=============================================================================
