--------------------------- MODULE Access_proofs ----------------------------
(***************************************************************************)
(* What access resolution promises, for any tree, users, roles and         *)
(* sharing.                                                                *)
(*                                                                         *)
(* A role is computed over the way up from a Node, so the results rest on  *)
(* the tree: in a forest (Founded, from NodeTree_proofs) the Nodes on a    *)
(* way up are in a row, which is why ORDER BY ... LIMIT 1 has a first row  *)
(* and it is the highest. On top of the tree's invariant there is only     *)
(* that shares belong to one kind of Space (SourcesApart), and that an     *)
(* absent Node is in no batch (AbsentIsClean), so that a Node that is      *)
(* created is visible at once.                                             *)
(***************************************************************************)
EXTENDS Access, NodeTree_proofs

(* What the columns hold.                                                  *)
AccessTypes ==
  /\ spaceType \in {"personal", "team"} /\ publicRead \in BOOLEAN
  /\ member \in [Users -> {"none", "viewer", "editor", "admin"}]
  /\ grant \in [Nodes -> [Users -> GrantRoles]]
  /\ link \in [Nodes -> GrantRoles]

(* Members belong to team Spaces, shares to personal ones.                 *)
SourcesApart ==
  /\ spaceType = "personal" => \A u \in Users : member[u] = "none"
  /\ spaceType = "team" => \A n \in Nodes : link[n] = "none" /\ \A u \in Users : grant[n][u] = "none"

(* A Node that is not there is in no batch.                                *)
AbsentIsClean == \A n \in Nodes : ~Present(n) => batch[n] = None

(* The inductive invariant.                                                *)
AccessInv == IInv /\ AbsentIsClean /\ AccessTypes /\ SourcesApart

-----------------------------------------------------------------------------
(* The way up from a Node.                                                 *)
AncestryFacts ==
  \A n \in Nodes : /\ Ancestry(n) \in SUBSET Nodes /\ n \in Ancestry(n) /\ Climbed(Ancestry(n))
                   /\ \A S \in SUBSET Nodes : n \in S /\ Climbed(S) => Ancestry(n) \subseteq S

(* It is closed under the step up, and the least such set.                 *)
LEMMA AncestryIsClimbed == AncestryFacts
<1> SUFFICES ASSUME NEW n \in Nodes
             PROVE  /\ Ancestry(n) \in SUBSET Nodes /\ n \in Ancestry(n) /\ Climbed(Ancestry(n))
                    /\ \A S \in SUBSET Nodes : n \in S /\ Climbed(S) => Ancestry(n) \subseteq S
  BY DEF AncestryFacts
<1>1. Ancestry(n) \in SUBSET Nodes /\ n \in Ancestry(n)
  BY DEF Ancestry
<1>2. \A S \in SUBSET Nodes : n \in S /\ Climbed(S) => Ancestry(n) \subseteq S
  BY DEF Ancestry
<1>3. Climbed(Ancestry(n))
  BY DEF Ancestry, Climbed, Reached
<1> QED
  BY <1>1, <1>2, <1>3

(* What is above a Node above me is above me.                              *)
LEMMA AncestryIsTransitive ==
  \A n \in Nodes : \A a \in Ancestry(n) : a \in Nodes /\ Ancestry(a) \subseteq Ancestry(n)
BY AncestryIsClimbed DEF AncestryFacts

(* Above a Node there are its parent and what is above the parent.         *)
LEMMA AncestrySplits ==
  \A n \in Nodes : \A a \in Ancestry(n) \ {n} : Reached(n) /\ a \in Ancestry(parent[n])
<1> SUFFICES ASSUME NEW n \in Nodes, NEW a \in Ancestry(n), a # n
             PROVE  Reached(n) /\ a \in Ancestry(parent[n])
  OBVIOUS
<1>1. CASE Reached(n)
  <2> DEFINE S == {n} \cup Ancestry(parent[n])
  <2>1. parent[n] \in Nodes
    BY <1>1 DEF Reached
  <2>2. S \in SUBSET Nodes /\ n \in S /\ parent[n] \in S
    BY <2>1, AncestryIsClimbed DEF AncestryFacts
  <2>3. Climbed(S)
    BY <2>1, <2>2, AncestryIsClimbed DEF AncestryFacts, Climbed
  <2> HIDE DEF S
  <2>4. a \in S
    BY <2>2, <2>3, AncestryIsClimbed DEF AncestryFacts
  <2> QED
    BY <1>1, <2>4 DEF S
<1>2. CASE ~Reached(n)
  <2>1. {n} \in SUBSET Nodes /\ Climbed({n})
    BY <1>2 DEF Climbed
  <2> QED
    BY <2>1, AncestryIsClimbed DEF AncestryFacts
<1> QED
  BY <1>1, <1>2

(* Of two Nodes above a third, one is above the other.                     *)
LEMMA AncestryIsLinear ==
  \A n \in Nodes : \A x, y \in Ancestry(n) : x \in Ancestry(y) \/ y \in Ancestry(x)
<1> SUFFICES ASSUME NEW n \in Nodes, NEW x \in Ancestry(n), NEW y \in Ancestry(n)
             PROVE  x \in Ancestry(y) \/ y \in Ancestry(x)
  OBVIOUS
<1> DEFINE S == {z \in Nodes : y \in Ancestry(z) \/ z \in Ancestry(y)}
<1>1. y \in Nodes /\ S \in SUBSET Nodes /\ n \in S
  BY AncestryIsClimbed DEF AncestryFacts
<1>2. ASSUME NEW m \in S, Reached(m) PROVE parent[m] \in S
  <2>1. m \in Nodes /\ parent[m] \in Nodes
    BY <1>2 DEF Reached
  <2>2. CASE m \in Ancestry(y)
    BY <1>1, <1>2, <2>1, <2>2, AncestryIsClimbed DEF AncestryFacts, Climbed
  <2>3. CASE y \in Ancestry(m) /\ m # y
    BY <1>1, <2>1, <2>3, AncestrySplits
  <2>4. m = y => m \in Ancestry(y)
    BY <1>1, AncestryIsClimbed DEF AncestryFacts
  <2> QED
    BY <1>2, <2>2, <2>3, <2>4
<1>3. Climbed(S)
  BY <1>2 DEF Climbed
<1> HIDE DEF S
<1>4. x \in S
  BY <1>1, <1>3, AncestryIsClimbed DEF AncestryFacts
<1> QED
  BY <1>4 DEF S

(* In a forest, of any Nodes on the way up one is above all the others.    *)
LEMMA TopmostExists ==
  Founded => \A n \in Nodes : \A T \in SUBSET Ancestry(n) :
               T # {} => \E a \in T : \A b \in T : a \in Ancestry(b)
<1> SUFFICES ASSUME Founded, NEW n \in Nodes, NEW T \in SUBSET Ancestry(n), T # {}
             PROVE  \E a \in T : \A b \in T : a \in Ancestry(b)
  OBVIOUS
<1> DEFINE S == {x \in Ancestry(n) : \E t \in T : t \in Ancestry(x)}
<1>1. S \in SUBSET Nodes /\ S # {} /\ Ancestry(n) \in SUBSET Nodes
  BY AncestryIsClimbed DEF AncestryFacts
<1>2. PICK x \in S : parent[x] \notin S
  BY <1>1 DEF Founded
<1>3. x \in Nodes /\ x \in Ancestry(n)
  BY <1>1
<1>4. ASSUME NEW t \in T, t \in Ancestry(x) PROVE t = x
  <2>1. SUFFICES ASSUME t # x PROVE FALSE
    OBVIOUS
  <2>2. Reached(x) /\ t \in Ancestry(parent[x])
    BY <1>3, <1>4, <2>1, AncestrySplits
  <2>3. parent[x] \in Ancestry(n)
    BY <1>3, <2>2, AncestryIsClimbed DEF AncestryFacts, Climbed
  <2> QED
    BY <1>2, <2>2, <2>3
<1>5. x \in T
  BY <1>2, <1>4
<1>6. ASSUME NEW b \in T PROVE x \in Ancestry(b)
  <2>1. x \in Ancestry(b) \/ b \in Ancestry(x)
    BY <1>3, AncestryIsLinear
  <2>2. b = x => x \in Ancestry(b)
    BY <1>3, AncestryIsClimbed DEF AncestryFacts
  <2> QED
    BY <1>4, <2>1, <2>2
<1> QED
  BY <1>5, <1>6

(* LIMIT 1 picks the highest role on the way up.                           *)
FirstFacts ==
  \A n \in Nodes, f \in [Nodes -> GrantRoles] :
    /\ First(n, f) \in GrantRoles
    /\ \A a \in Ancestry(n) : Rank[f[a]] <= Rank[First(n, f)]
    /\ (\E a \in Ancestry(n) : f[a] # "none") <=> First(n, f) # "none"

(* In a forest, the row the query puts first has the highest role on the   *)
(* way up, and there is one when anybody on the way up has a role.         *)
LEMMA FirstIsHighest == Founded => FirstFacts
<1> SUFFICES ASSUME Founded, NEW n \in Nodes, NEW f \in [Nodes -> GrantRoles]
             PROVE  /\ First(n, f) \in GrantRoles
                    /\ \A a \in Ancestry(n) : Rank[f[a]] <= Rank[First(n, f)]
                    /\ (\E a \in Ancestry(n) : f[a] # "none") <=> First(n, f) # "none"
  BY DEF FirstFacts
<1> DEFINE rows == {a \in Ancestry(n) : f[a] # "none"}
           Best(a) == \A b \in rows \ {a} : Precedes(f, a, b)
<1>0. Ancestry(n) \in SUBSET Nodes /\ \A a \in Ancestry(n) : f[a] \in GrantRoles
  BY AncestryIsClimbed DEF AncestryFacts
<1>1. CASE rows = {}
  <2>1. First(n, f) = "none" /\ \A a \in Ancestry(n) : f[a] = "none"
    BY <1>1 DEF First
  <2> QED
    BY <2>1 DEF GrantRoles, Rank
<1>2. CASE rows # {}
  <2>1. \E a \in rows : Best(a)
    <3> DEFINE editors == {a \in rows : f[a] = "editor"}
    <3>1. CASE editors # {}
      <4>1. PICK a \in editors : \A b \in editors : a \in Ancestry(b)
        BY <3>1, TopmostExists
      <4>2. \A b \in rows : f[b] = f[a] => a \in Ancestry(b)
        BY <4>1
      <4> QED
        BY <4>1, <4>2 DEF Precedes
    <3>2. CASE editors = {}
      <4>1. PICK a \in rows : \A b \in rows : a \in Ancestry(b)
        BY <1>2, TopmostExists
      <4>2. \A b \in rows : f[b] = "viewer"
        BY <1>0, <3>2 DEF GrantRoles
      <4> QED
        BY <4>1, <4>2 DEF Precedes
    <3> QED
      BY <3>1, <3>2
  <2> DEFINE c == CHOOSE a \in rows : Best(a)
  <2>2. c \in rows /\ Best(c)
    BY <2>1
  <2>3. First(n, f) = f[c]
    BY <1>2 DEF First
  <2> HIDE DEF c
  <2>4. \A b \in rows : f[b] = "editor" => f[c] = "editor"
    BY <2>2 DEF Precedes
  <2>5. c \in Ancestry(n) /\ f[c] # "none" /\ f[c] \in GrantRoles
    BY <1>0, <2>2
  <2>6. \A a \in Ancestry(n) : Rank[f[a]] <= Rank[f[c]]
    BY <1>0, <2>4, <2>5 DEF GrantRoles, Rank
  <2> QED
    BY <2>3, <2>5, <2>6
<1> QED
  BY <1>1, <1>2

-----------------------------------------------------------------------------
(* Roles of members, and all roles.                                        *)

MemberRoles == {"none", "viewer", "editor", "admin"}
Roles == {"none", "viewer", "editor", "admin", "owner"}

(* highestRole of two roles is one of them and no lower than either.       *)
LEMMA HighestOfTwo ==
  ASSUME NEW p \in Roles, NEW q \in Roles
  PROVE  /\ Highest(p, q) \in Roles
         /\ Rank[p] <= Rank[Highest(p, q)] /\ Rank[q] <= Rank[Highest(p, q)]
         /\ Highest(p, q) # "none" <=> (p # "none" \/ q # "none")
         /\ Highest(p, q) \in {p, q}
BY DEF Roles, Rank, Highest

(* Rows for a user hold roles of their kind.                               *)
LEMMA SharesAreRoles ==
  AccessTypes => \A u \in Users \cup {Anonymous} :
    GrantTo(u) \in [Nodes -> GrantRoles] /\ MemberRole(u) \in MemberRoles /\ link \in [Nodes -> GrantRoles]
BY DEF AccessTypes, GrantTo, GrantRoles, MemberRole, MemberRoles

(* What goes into a role.                                                  *)
LEMMA RoleParts ==
  AccessTypes /\ Founded => \A u \in Users \cup {Anonymous}, n \in Nodes :
    /\ First(n, GrantTo(u)) \in GrantRoles /\ First(n, link) \in GrantRoles
    /\ RegularRole(u, n) \in Roles /\ LinkRole(u, n) \in GrantRoles
    /\ LinkRole(u, n) # "none" <=> First(n, link) # "none"
    /\ publicRead => Rank["viewer"] <= Rank[RegularRole(u, n)]
    /\ u = Owner => RegularRole(u, n) = "owner"
    /\ u # Owner /\ spaceType = "team" => Rank[MemberRole(u)] <= Rank[RegularRole(u, n)]
    /\ u # Owner /\ spaceType = "personal" => Rank[First(n, GrantTo(u))] <= Rank[RegularRole(u, n)]
<1> SUFFICES ASSUME AccessTypes, Founded, NEW u \in Users \cup {Anonymous}, NEW n \in Nodes
             PROVE  /\ First(n, GrantTo(u)) \in GrantRoles /\ First(n, link) \in GrantRoles
                    /\ RegularRole(u, n) \in Roles /\ LinkRole(u, n) \in GrantRoles
                    /\ LinkRole(u, n) # "none" <=> First(n, link) # "none"
                    /\ publicRead => Rank["viewer"] <= Rank[RegularRole(u, n)]
                    /\ u = Owner => RegularRole(u, n) = "owner"
                    /\ u # Owner /\ spaceType = "team" => Rank[MemberRole(u)] <= Rank[RegularRole(u, n)]
                    /\ u # Owner /\ spaceType = "personal" =>
                         Rank[First(n, GrantTo(u))] <= Rank[RegularRole(u, n)]
  OBVIOUS
<1>1. First(n, GrantTo(u)) \in GrantRoles /\ First(n, link) \in GrantRoles
  BY SharesAreRoles, FirstIsHighest DEF FirstFacts
<1>2. LinkRole(u, n) \in GrantRoles /\ (LinkRole(u, n) # "none" <=> First(n, link) # "none")
  BY <1>1 DEF LinkRole, GrantRoles
<1> DEFINE assigned == IF u = Owner THEN "owner"
                         ELSE IF spaceType = "team" THEN MemberRole(u) ELSE First(n, GrantTo(u))
           public == IF publicRead THEN "viewer" ELSE "none"
<1>3. assigned \in Roles /\ public \in Roles
  BY <1>1, SharesAreRoles DEF Roles, GrantRoles, MemberRoles
<1>4. RegularRole(u, n) = Highest(assigned, public)
  BY DEF RegularRole
<1>5. /\ RegularRole(u, n) \in Roles
      /\ Rank[assigned] <= Rank[RegularRole(u, n)] /\ Rank[public] <= Rank[RegularRole(u, n)]
  <2> HIDE DEF assigned, public
  <2> QED
    BY <1>3, <1>4, HighestOfTwo
<1>6. u = Owner => RegularRole(u, n) = "owner"
  BY <1>4 DEF Highest, Rank
<1> QED
  BY <1>1, <1>2, <1>5, <1>6

(* A Node that a row of the query shows has a role, and one that has a     *)
(* role is shown.                                                          *)
VisibleFacts ==
  \A u \in Users \cup {Anonymous}, n \in Nodes :
    /\ RowVisible(u, n) <=> Resolves(u, n)
    /\ Role(u, n) \in Roles

(* The row test of the query and the roles agree on what is visible.       *)
LEMMA VisibleResolves == AccessTypes /\ Founded => VisibleFacts
<1> SUFFICES ASSUME AccessTypes, Founded, NEW u \in Users \cup {Anonymous}, NEW n \in Nodes
             PROVE  (RowVisible(u, n) <=> Resolves(u, n)) /\ Role(u, n) \in Roles
  BY DEF VisibleFacts
<1>1. RegularRole(u, n) \in Roles /\ LinkRole(u, n) \in Roles
  BY RoleParts DEF GrantRoles, Roles
<1>2. CASE ~RowVisible(u, n)
  BY <1>2 DEF Role, Resolves, Roles
<1>3. CASE RowVisible(u, n)
  <2>1. RegularRole(u, n) # "none" \/ LinkRole(u, n) # "none"
    <3>1. CASE u = Owner \/ publicRead
      BY <3>1, RoleParts DEF Rank
    <3>2. CASE u # Owner /\ spaceType = "team" /\ MemberRole(u) # "none"
      BY <3>2, RoleParts, SharesAreRoles DEF Rank, MemberRoles
    <3>3. CASE u # Owner /\ spaceType = "personal" /\ First(n, GrantTo(u)) # "none"
      BY <3>3, RoleParts DEF Rank, GrantRoles
    <3>4. CASE First(n, link) # "none"
      BY <3>4, RoleParts
    <3> QED
      BY <1>3, <3>1, <3>2, <3>3, <3>4 DEF RowVisible
  <2>2. Role(u, n) = Highest(RegularRole(u, n), LinkRole(u, n))
    BY <1>3 DEF Role
  <2> QED
    BY <1>1, <1>3, <2>1, <2>2, HighestOfTwo DEF Resolves
<1> QED
  BY <1>2, <1>3

(* Types and a forest are enough: the role is never below one of its       *)
(* sources.                                                                *)
LEMMA InvRoleIsHighest == AccessInv => RoleIsHighest
<1> SUFFICES ASSUME AccessInv, NEW u \in Users \cup {Anonymous}, NEW n \in Nodes, Live(n),
                    NEW r \in Sources(u, n)
             PROVE  Rank[r] <= Rank[Role(u, n)]
  BY DEF RoleIsHighest
<1>0. AccessTypes /\ Founded /\ SourcesApart
  BY DEF AccessInv, IInv
<1>1. /\ RegularRole(u, n) \in Roles /\ LinkRole(u, n) \in Roles /\ Role(u, n) \in Roles
      /\ MemberRole(u) \in MemberRoles
  BY <1>0, RoleParts, VisibleResolves, SharesAreRoles DEF VisibleFacts, GrantRoles, Roles
<1>2. /\ \A a \in Ancestry(n) : GrantTo(u)[a] \in GrantRoles /\ link[a] \in GrantRoles
      /\ \A a \in Ancestry(n) : /\ Rank[GrantTo(u)[a]] <= Rank[First(n, GrantTo(u))]
                                 /\ Rank[link[a]] <= Rank[First(n, link)]
      /\ (\E a \in Ancestry(n) : GrantTo(u)[a] # "none") => First(n, GrantTo(u)) # "none"
      /\ (\E a \in Ancestry(n) : link[a] # "none") => First(n, link) # "none"
  BY <1>0, SharesAreRoles, FirstIsHighest, AncestryIsClimbed DEF FirstFacts, AncestryFacts
<1>3. CASE ~RowVisible(u, n)
  <2>1. u # Owner /\ ~publicRead
    BY <1>3 DEF RowVisible
  <2>2. MemberRole(u) = "none"
    BY <1>0, <1>3 DEF RowVisible, SourcesApart, MemberRole, AccessTypes
  <2>3. \A a \in Ancestry(n) : GrantTo(u)[a] = "none" /\ link[a] = "none"
    <3>1. CASE spaceType = "team"
      BY <1>0, <3>1, AncestryIsClimbed DEF AncestryFacts, SourcesApart, GrantTo
    <3>2. CASE spaceType = "personal"
      BY <1>2, <1>3, <3>2 DEF RowVisible
    <3> QED
      BY <1>0, <3>1, <3>2 DEF AccessTypes
  <2>4. r = "none"
    BY <2>1, <2>2, <2>3 DEF Sources
  <2> QED
    BY <1>1, <2>4 DEF Roles, Rank
<1>4. CASE RowVisible(u, n)
  <2>1. /\ Rank[RegularRole(u, n)] <= Rank[Role(u, n)]
        /\ Rank[LinkRole(u, n)] <= Rank[Role(u, n)]
    BY <1>1, <1>4, HighestOfTwo DEF Role
  <2>2. r \in {"owner"} /\ u = Owner => Rank[r] <= Rank[Role(u, n)]
    BY <1>0, <2>1, RoleParts
  <2>3. Rank["none"] <= Rank[Role(u, n)]
    BY <1>1 DEF Roles, Rank
  <2>4. Rank[MemberRole(u)] <= Rank[Role(u, n)]
    <3>1. CASE u = Owner
      BY <1>0, <1>1, <2>1, <3>1, RoleParts DEF MemberRoles, Roles, Rank
    <3>2. CASE u # Owner /\ spaceType = "team"
      BY <1>0, <1>1, <2>1, <3>2, RoleParts DEF MemberRoles, Roles, Rank
    <3>3. CASE spaceType = "personal"
      BY <1>0, <2>3, <3>3 DEF SourcesApart, MemberRole
    <3> QED
      BY <1>0, <3>1, <3>2, <3>3 DEF AccessTypes
  <2>5. publicRead => Rank["viewer"] <= Rank[Role(u, n)]
    BY <1>0, <1>1, <2>1, RoleParts DEF Roles, Rank
  <2>6. ASSUME NEW a \in Ancestry(n) PROVE Rank[GrantTo(u)[a]] <= Rank[Role(u, n)]
    <3>1. CASE u = Owner
      BY <1>0, <1>1, <1>2, <2>1, <3>1, RoleParts DEF GrantRoles, Roles, Rank
    <3>2. CASE u # Owner /\ spaceType = "personal"
      <4>1. Rank[First(n, GrantTo(u))] <= Rank[RegularRole(u, n)] /\ First(n, GrantTo(u)) \in GrantRoles
        BY <1>0, <3>2, RoleParts
      <4> QED
        BY <1>1, <1>2, <2>1, <4>1 DEF GrantRoles, Roles, Rank
    <3>3. CASE spaceType = "team"
      BY <1>0, <2>3, <3>3, AncestryIsClimbed DEF AncestryFacts, SourcesApart, GrantTo
    <3> QED
      BY <1>0, <3>1, <3>2, <3>3 DEF AccessTypes
  <2>7. ASSUME NEW a \in Ancestry(n)
        PROVE  Rank[IF u = Anonymous /\ link[a] = "editor" THEN "viewer" ELSE link[a]] <= Rank[Role(u, n)]
    <3>1. First(n, link) \in GrantRoles /\ link[a] \in GrantRoles /\ Rank[link[a]] <= Rank[First(n, link)]
      BY <1>0, <1>2, RoleParts
    <3>2. LinkRole(u, n) = IF u = Anonymous /\ First(n, link) # "none" THEN "viewer" ELSE First(n, link)
      BY DEF LinkRole
    <3> QED
      BY <1>1, <2>1, <3>1, <3>2 DEF GrantRoles, Roles, Rank
  <2> QED
    BY <2>2, <2>3, <2>4, <2>5, <2>6, <2>7 DEF Sources
<1> QED
  BY <1>3, <1>4

-----------------------------------------------------------------------------
(* The invariant.                                                          *)

(* The steps of the tree itself.                                           *)
TreeSteps ==
  \/ \E n \in Nodes, p \in Places : Create(n, p) \/ Move(n, p)
  \/ \E n \in Nodes, b \in Batches : TrashNode(n, b)
  \/ \E b \in Batches : Restore(b) \/ RemovePermanently(b)

(* The steps of the tree keep its invariant, and leave no mark on absent   *)
(* Nodes.                                                                  *)
LEMMA TreeKept ==
  ASSUME IInv, AbsentIsClean, TreeSteps
  PROVE  IInv' /\ AbsentIsClean'
<1>0. TypeOK /\ ParentsPresent
  BY DEF IInv
<1>1. IInv'
  BY NextIInv DEF TreeSteps, Next
<1>2. ASSUME NEW n \in Nodes, NEW p \in Places, Create(n, p) \/ Move(n, p) PROVE AbsentIsClean'
  BY <1>0, <1>2, MarksAreApart DEF Create, Insert, Move, AbsentIsClean, Present, TypeOK, Places,
    Live
<1>3. ASSUME NEW n \in Nodes, NEW b \in Batches, TrashNode(n, b) PROVE AbsentIsClean'
  <2>1. \A m \in Subtree(n) : Present(m)
    <3>1. \A m \in Subtree(n) : m # n => parent[m] \in Subtree(n)
      BY SubtreeIsBelow, BelowHoldsParents
    <3>2. Subtree(n) \in SUBSET Nodes
      BY SubtreeIsClosed
    <3> QED
      BY <1>3, <3>1, <3>2, MarksAreApart DEF TrashNode, Live, Present
  <2> QED
    BY <1>3, <2>1 DEF TrashNode, Taken, AbsentIsClean, Present
<1>4. ASSUME NEW b \in Batches, Restore(b) PROVE AbsentIsClean'
  BY <1>4 DEF Restore, AbsentIsClean, Present
<1>5. ASSUME NEW b \in Batches, RemovePermanently(b) PROVE AbsentIsClean'
  BY <1>5 DEF RemovePermanently, AbsentIsClean, Present
<1> QED
  BY <1>1, <1>2, <1>3, <1>4, <1>5 DEF TreeSteps

(* A rename may lift a Node to the root of the Space, never elsewhere.     *)
LEMMA RenameKeepsTree ==
  ASSUME AccessInv, NEW u \in Users, NEW n \in Nodes, UserRenames(u, n)
  PROVE  IInv' /\ AbsentIsClean'
<1>0. TypeOK /\ ParentsPresent /\ Founded /\ RootsAreHeld /\ AbsentIsClean /\ AccessTypes
  BY DEF AccessInv, IInv
<1>1. /\ parent' = [parent EXCEPT ![n] = SeenParent(u, n)]
      /\ SeenParent(u, n) \in {Root, parent[n]}
      /\ UNCHANGED <<batch, root, pinned, target, filed>>
  BY DEF UserRenames, SeenParent
<1>2. Present(n)
  BY <1>0, VisibleResolves DEF VisibleFacts, UserRenames, CanRename, RowVisible, Live
<1>3. \A m \in Nodes : (parent'[m] = parent[m] \/ parent'[m] = Root) /\ (Present(m)' <=> Present(m))
  BY <1>0, <1>1, <1>2, MarksAreApart DEF Present, TypeOK
<1>4. TypeOK'
  BY <1>0, <1>1, <1>3 DEF TypeOK, Places, Present
<1>5. ParentsPresent'
  BY <1>0, <1>3, MarksAreApart DEF ParentsPresent
<1>6. Founded'
  BY <1>0, <1>3, MarksAreApart DEF Founded
<1>7. RootsAreHeld' /\ AbsentIsClean'
  BY <1>0, <1>1, <1>3 DEF RootsAreHeld, Open, AbsentIsClean
<1> QED
  BY <1>4, <1>5, <1>6, <1>7 DEF IInv

(* Every handler keeps the invariant: it writes what its checks allow.     *)
LEMMA AccessInvKept == AccessInv /\ [AccessNext]_accessVars => AccessInv'
<1> SUFFICES ASSUME AccessInv, [AccessNext]_accessVars PROVE AccessInv'
  OBVIOUS
<1>0. IInv /\ AbsentIsClean /\ AccessTypes /\ SourcesApart
  BY DEF AccessInv
<1>1. ASSUME IInv' /\ AbsentIsClean', UNCHANGED policy PROVE AccessInv'
  BY <1>0, <1>1 DEF AccessInv, AccessTypes, SourcesApart, policy
<1>2. ASSUME Tree PROVE IInv' /\ AbsentIsClean'
  BY <1>0, <1>2, NextIInv DEF Tree, vars, AbsentIsClean, Present
<1>3. ASSUME NEW u \in Users, UpdateSpace(u) PROVE AccessInv'
  BY <1>0, <1>2, <1>3 DEF UpdateSpace, AccessInv, AccessTypes, SourcesApart
<1>4. ASSUME NEW u \in Users, NEW v \in Users, RemoveMember(u, v) PROVE AccessInv'
  BY <1>0, <1>2, <1>4 DEF RemoveMember, AccessInv, AccessTypes, SourcesApart
<1>5. ASSUME NEW u \in Users, NEW v \in Users, NEW role \in {"viewer", "editor", "admin"},
             UpsertMember(u, v, role)
      PROVE  AccessInv'
  BY <1>0, <1>2, <1>5 DEF UpsertMember, AccessInv, AccessTypes, SourcesApart
<1>6. ASSUME NEW u \in Users, NEW v \in Users, NEW n \in Nodes, NEW role \in GrantRoles,
             CanShare(u, n), grant' = [grant EXCEPT ![n][v] = role],
             Tree, UNCHANGED <<spaceType, publicRead, member, link>>
      PROVE  AccessInv'
  BY <1>0, <1>2, <1>6 DEF CanShare, AccessInv, AccessTypes, SourcesApart
<1>7. ASSUME NEW u \in Users, NEW v \in Users, NEW n \in Nodes, RemoveGrant(u, n, v) PROVE AccessInv'
  BY <1>6, <1>7 DEF RemoveGrant, GrantRoles
<1>8. ASSUME NEW u \in Users, NEW v \in Users, NEW n \in Nodes, NEW role \in {"viewer", "editor"},
             UpsertGrant(u, n, v, role)
      PROVE  AccessInv'
  BY <1>6, <1>8 DEF UpsertGrant, GrantRoles
<1>9. ASSUME NEW u \in Users, NEW n \in Nodes, NEW role \in GrantRoles, UpdateLinkSharing(u, n, role)
      PROVE  AccessInv'
  BY <1>0, <1>2, <1>9 DEF UpdateLinkSharing, CanShare, AccessInv, AccessTypes, SourcesApart
<1>10. ASSUME TreeSteps, UNCHANGED policy PROVE AccessInv'
  BY <1>0, <1>1, <1>10, TreeKept
<1>11. ASSUME NEW u \in Users, NEW n \in Nodes, NEW p \in Places,
              UserCreates(u, n, p) \/ UserMoves(u, n, p)
       PROVE  AccessInv'
  BY <1>10, <1>11 DEF UserCreates, UserMoves, TreeSteps
<1>12. ASSUME NEW u \in Users, NEW n \in Nodes, UserRenames(u, n) PROVE AccessInv'
  BY <1>1, <1>12, RenameKeepsTree DEF UserRenames
<1>13. ASSUME NEW u \in Users, NEW n \in Nodes, NEW b \in Batches, UserTrashes(u, n, b) PROVE AccessInv'
  BY <1>10, <1>13 DEF UserTrashes, TreeSteps
<1>14. ASSUME NEW u \in Users, NEW b \in Batches, UserRestores(u, b) PROVE AccessInv'
  BY <1>10, <1>14 DEF UserRestores, TreeSteps
<1>15. ASSUME NEW u \in Users, NEW b \in Batches, UserRemoves(u, b) PROVE AccessInv'
  <2>1. IInv' /\ AbsentIsClean'
    BY <1>0, <1>15, TreeKept DEF UserRemoves, TreeSteps
  <2>2. AccessTypes'
    BY <1>0, <1>15 DEF UserRemoves, Cascade, AccessTypes, GrantRoles
  <2>3. SourcesApart'
    BY <1>0, <1>15 DEF UserRemoves, Cascade, SourcesApart
  <2> QED
    BY <2>1, <2>2, <2>3 DEF AccessInv
<1>16. CASE UNCHANGED accessVars
  BY <1>1, <1>2, <1>16 DEF accessVars, Tree
<1> QED
  BY <1>3, <1>4, <1>5, <1>7, <1>8, <1>9, <1>11, <1>12, <1>13, <1>14, <1>15, <1>16 DEF AccessNext

(* An empty Space satisfies it.                                            *)
LEMMA AccessInvAtFirst == AccessInit => AccessInv
<1> SUFFICES ASSUME AccessInit PROVE AccessInv
  OBVIOUS
<1>1. IInv
  BY InitIInv DEF AccessInit
<1>2. AbsentIsClean
  BY DEF AccessInit, Init, AbsentIsClean
<1>3. AccessTypes /\ SourcesApart
  BY TypesAreKnown DEF AccessInit, AccessTypes, SourcesApart, GrantRoles
<1> QED
  BY <1>1, <1>2, <1>3 DEF AccessInv

(* The tree stays a forest and shares stay with their kind of Space, under *)
(* every handler that writes either.                                       *)
THEOREM AccessInvariant == AccessSpec => []AccessInv
BY AccessInvAtFirst, AccessInvKept, PTL DEF AccessSpec

(* RoleIsHighest for any tree, users and shares: nobody has less than what *)
(* a row on the way up, the membership or the public setting gives.        *)
THEOREM RolesAreHighest == AccessSpec => []RoleIsHighest
BY AccessInvariant, InvRoleIsHighest, PTL

-----------------------------------------------------------------------------
(* Replies.                                                                *)

(* Whoever is above a Node has it in the subtree.                          *)
LEMMA AboveIsOver ==
  ASSUME NEW n \in Nodes, NEW a \in Ancestry(n)
  PROVE  n \in Subtree(a)
<1> DEFINE S == {x \in Nodes : n \in Subtree(x)}
<1>1. S \in SUBSET Nodes /\ n \in S
  BY SubtreeHoldsSelf
<1>2. ASSUME NEW m \in S, Reached(m) PROVE parent[m] \in S
  BY <1>2, ParentIsAbove DEF Reached
<1>3. Climbed(S)
  BY <1>2 DEF Climbed
<1> HIDE DEF S
<1>4. a \in S
  BY <1>1, <1>3, AncestryIsClimbed DEF AncestryFacts
<1> QED
  BY <1>4 DEF S

(* Above a present Node everything is present.                             *)
LEMMA AboveIsPresent ==
  ASSUME ParentsPresent, NEW n \in Nodes, Present(n), NEW a \in Ancestry(n)
  PROVE  Present(a)
<1> DEFINE S == {x \in Nodes : Present(x)}
<1>1. S \in SUBSET Nodes /\ n \in S
  OBVIOUS
<1>2. Climbed(S)
  BY DEF Climbed, Reached, ParentsPresent
<1> HIDE DEF S
<1>3. a \in S
  BY <1>1, <1>2, AncestryIsClimbed DEF AncestryFacts
<1> QED
  BY <1>3 DEF S

(* A handler that puts n into p leaves what is above p alone.              *)
LEMMA AncestryOfFolderStays ==
  ASSUME NEW n \in Nodes, NEW p \in Nodes, parent' = [parent EXCEPT ![n] = p], UNCHANGED batch,
         parent \in [Nodes -> Places \cup {Absent}],
         batch[p] = None, n \notin Ancestry(p)
  PROVE  Ancestry(p) \subseteq Ancestry(n)'
<1>1. AncestryFacts /\ AncestryFacts'
  BY AncestryIsClimbed, PTL
<1>2. parent'[n] = p /\ \A m \in Nodes \ {n} : parent'[m] = parent[m]
  OBVIOUS
<1> DEFINE above == Ancestry(n)'
           S == {m \in Ancestry(p) : m \in above}
<1>3. above \in SUBSET Nodes /\ n \in above
      /\ \A m \in above : parent'[m] \in Nodes /\ batch[parent'[m]] = None => parent'[m] \in above
  BY <1>1 DEF AncestryFacts, Climbed, Reached
<1>4. Ancestry(p) \in SUBSET Nodes /\ p \in Ancestry(p) /\ Climbed(Ancestry(p))
  BY <1>1 DEF AncestryFacts
<1> HIDE DEF above
<1>5. S \in SUBSET Nodes /\ p \in S
  BY <1>2, <1>3, <1>4
<1>6. ASSUME NEW m \in S, Reached(m) PROVE parent[m] \in S
  BY <1>2, <1>3, <1>4, <1>6 DEF Climbed, Reached
<1>7. Climbed(S)
  BY <1>6 DEF Climbed
<1>8. Ancestry(p) \subseteq S
  BY <1>1, <1>5, <1>7 DEF AncestryFacts
<1> QED
  BY <1>8 DEF above

(* Where a folder resolves by what its user may change in it, so does what *)
(* is put there.                                                           *)
LEMMA PutResolves ==
  ASSUME AccessInv, AccessInv', NEW u \in Users, NEW n \in Nodes, NEW p \in Places,
         UserCreates(u, n, p) \/ UserMoves(u, n, p)
  PROVE  Resolves(u, n)'
<1>0. AccessTypes /\ SourcesApart /\ TypeOK /\ ParentsPresent /\ Founded /\ AbsentIsClean
      /\ AccessTypes' /\ Founded'
  BY DEF AccessInv, IInv
<1>1. /\ parent' = [parent EXCEPT ![n] = p] /\ UNCHANGED <<batch, policy>>
      /\ MayHold(p) /\ CanCreateIn(u, p)
  BY DEF UserCreates, UserMoves, Create, Insert, Move
<1>2. Live(n)'
  BY <1>0, <1>1, MarksAreApart
    DEF UserCreates, UserMoves, Create, Insert, Move, Live, Present, AbsentIsClean, TypeOK, Places
<1>3. UNCHANGED <<spaceType, publicRead, member, grant, link>> /\ GrantTo(u)' = GrantTo(u)
      /\ MemberRole(u)' = MemberRole(u)
  BY <1>1 DEF policy, GrantTo, MemberRole
<1>4. p \in Nodes => n \notin Ancestry(p) /\ batch[p] = None /\ Present(p)
  <2>1. p \in Nodes => Live(p)
    BY <1>1, MarksAreApart DEF MayHold
  <2>2. ASSUME p \in Nodes, n \in Ancestry(p), Create(n, p) PROVE FALSE
    BY <1>0, <2>1, <2>2, AboveIsPresent DEF Create, Insert, Live
  <2>3. ASSUME p \in Nodes, n \in Ancestry(p), Move(n, p) PROVE FALSE
    BY <2>3, AboveIsOver DEF Move, IsSelfOrDescendant
  <2> QED
    BY <2>1, <2>2, <2>3 DEF UserCreates, UserMoves, Live
<1>5. /\ u = Owner \/ publicRead => RowVisible(u, n)'
      /\ spaceType = "team" /\ MemberRole(u) # "none" => RowVisible(u, n)'
      /\ spaceType = "personal" /\ First(n, GrantTo(u))' # "none" => RowVisible(u, n)'
  BY <1>2, <1>3 DEF RowVisible
<1>6. RowVisible(u, n)'
  <2>1. CASE p = Root
    <3>1. CanWrite(SpaceRole(u))
      BY <1>1, <2>1 DEF CanCreateIn
    <3>2. u # Owner /\ ~publicRead => MemberRole(u) # "none"
      BY <3>1 DEF CanWrite, SpaceRole, Highest, Rank
    <3>3. spaceType = "personal" => MemberRole(u) = "none"
      BY <1>0 DEF SourcesApart, MemberRole
    <3> QED
      BY <1>0, <1>5, <3>2, <3>3 DEF AccessTypes
  <2>2. CASE p # Root
    <3>1. p \in Nodes /\ Resolves(u, p)
      BY <1>1, <2>2 DEF CanCreateIn, CanRename, Places
    <3>2. CanWrite(RegularRole(u, p))
      BY <1>1, <2>2 DEF CanCreateIn, CanRename
    <3>3. CASE u = Owner \/ publicRead \/ (spaceType = "team" /\ MemberRole(u) # "none")
      BY <1>5, <3>3
    <3>4. CASE u # Owner /\ ~publicRead /\ spaceType = "team" /\ MemberRole(u) = "none"
      BY <3>2, <3>4 DEF CanWrite, RegularRole, Highest, Rank
    <3>5. CASE u # Owner /\ ~publicRead /\ spaceType = "personal"
      <4>1. First(p, GrantTo(u)) # "none"
        BY <3>2, <3>5 DEF CanWrite, RegularRole, Highest, Rank
      <4>2. GrantTo(u) \in [Nodes -> GrantRoles]
        BY <1>0, SharesAreRoles
      <4>3. PICK a \in Ancestry(p) : GrantTo(u)[a] # "none"
        BY <1>0, <3>1, <4>1, <4>2, FirstIsHighest DEF FirstFacts
      <4>4. a \in Ancestry(n)'
        BY <1>0, <1>1, <1>4, <3>1, AncestryOfFolderStays DEF TypeOK
      <4>5. First(n, GrantTo(u))' # "none"
        <5>1. FirstFacts'
          BY <1>0, FirstIsHighest, PTL
        <5>2. GrantTo(u)' \in [Nodes -> GrantRoles] /\ GrantTo(u)'[a] # "none"
          BY <1>3, <4>2, <4>3
        <5> QED
          BY <4>4, <5>1, <5>2 DEF FirstFacts
      <4> QED
        BY <1>5, <3>5, <4>5
    <3> QED
      BY <1>0, <3>3, <3>4, <3>5 DEF AccessTypes
  <2> QED
    BY <2>1, <2>2
<1>7. VisibleFacts'
  BY <1>0, VisibleResolves, PTL
<1> QED
  BY <1>6, <1>7 DEF VisibleFacts

(* Whoever is granted a role on a Node resolves it.                        *)
LEMMA GrantResolves ==
  ASSUME AccessInv, AccessInv', [AccessNext]_accessVars, NEW n \in Nodes, NEW v \in Users,
         grant'[n][v] # grant[n][v], grant'[n][v] # "none"
  PROVE  Resolves(v, n)'
<1>0. AccessTypes /\ Founded /\ AccessTypes' /\ Founded'
  BY DEF AccessInv, IInv
<1>1. \E u \in Users : \E role \in {"viewer", "editor"} : UpsertGrant(u, n, v, role)
  <2>1. ~UNCHANGED grant
    OBVIOUS
  <2>2. ~UNCHANGED policy /\ ~UNCHANGED accessVars
    BY <2>1 DEF policy, accessVars
  <2>3. ASSUME NEW u \in Users, NEW w \in Users, NEW m \in Nodes, RemoveGrant(u, m, w) PROVE FALSE
    BY <1>0, <2>3 DEF RemoveGrant, AccessTypes
  <2>4. ASSUME NEW u \in Users, NEW b \in Batches, UserRemoves(u, b) PROVE FALSE
    BY <1>0, <2>4 DEF UserRemoves, Cascade, AccessTypes
  <2>5. ASSUME NEW u \in Users, NEW w \in Users, NEW m \in Nodes, NEW role \in {"viewer", "editor"},
               UpsertGrant(u, m, w, role)
        PROVE  m = n /\ w = v
    BY <1>0, <2>5 DEF UpsertGrant, AccessTypes
  <2> QED
    BY <2>1, <2>2, <2>3, <2>4, <2>5
    DEF AccessNext, UpdateSpace, RemoveMember, UpsertMember, UpdateLinkSharing, UserCreates,
    UserMoves,
        UserRenames, UserTrashes, UserRestores
<1>2. PICK u \in Users, role \in {"viewer", "editor"} : UpsertGrant(u, n, v, role)
  BY <1>1
<1>3. spaceType' = "personal" /\ Live(n)'
  <2>1. CanShare(u, n) /\ UNCHANGED <<vars, spaceType>>
    BY <1>2 DEF UpsertGrant, Tree
  <2>2. RowVisible(u, n)
    BY <1>0, <2>1, VisibleResolves DEF VisibleFacts, CanShare
  <2> QED
    BY <2>1, <2>2 DEF CanShare, RowVisible, vars, Live, Present
<1>4. First(n, GrantTo(v))' # "none"
  <2>1. FirstFacts' /\ AncestryFacts'
    BY <1>0, FirstIsHighest, AncestryIsClimbed, PTL
  <2>2. GrantTo(v)' \in [Nodes -> GrantRoles] /\ GrantTo(v)'[n] # "none"
    BY <1>0 DEF GrantTo, AccessTypes
  <2> QED
    BY <2>1, <2>2 DEF FirstFacts, AncestryFacts
<1>5. RowVisible(v, n)'
  BY <1>3, <1>4 DEF RowVisible
<1>6. VisibleFacts'
  BY <1>0, VisibleResolves, PTL
<1> QED
  BY <1>5, <1>6 DEF VisibleFacts

(* Both parts together, for one step.                                      *)
LEMMA RepliesResolve ==
  AccessInv /\ AccessInv' /\ [AccessNext]_accessVars =>
    [/\ \A n \in Nodes, u \in Users :
          parent'[n] # parent[n] /\ (\E p \in Places : UserCreates(u, n, p) \/ UserMoves(u, n, p))
            => Resolves(u, n)'
     /\ \A n \in Nodes, v \in Users :
          grant'[n][v] # grant[n][v] /\ grant'[n][v] # "none" => Resolves(v, n)']_accessVars
BY PutResolves, GrantResolves

(* ReplyResolves for any tree and users: who creates or moves a Node, or   *)
(* is granted one, can resolve it in the answer.                           *)
THEOREM RepliesAreResolved == AccessSpec => ReplyResolves
BY AccessInvariant, RepliesResolve, PTL DEF AccessSpec, ReplyResolves
=============================================================================
