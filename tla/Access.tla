------------------------------- MODULE Access -------------------------------
(***************************************************************************)
(* Who may see and change the Nodes of one Space: access.service.ts with   *)
(* the SQL of access.repository.ts, the permissions and Spaces modules     *)
(* that write what it reads, and the handlers of NodeTree under the        *)
(* capabilities it grants.  Roles are computed anew by every handler;      *)
(* nothing is cached.                                                      *)
(***************************************************************************)
EXTENDS NodeTree

CONSTANTS
  Users,      \* registered users
  Owner,      \* spaces.owner_user_id
  Anonymous,  \* ANONYMOUS_USER_ID, a reader without a session
  SpaceTypes, \* the types of Space a run looks at
  MaxShares   \* bounds the grants and links that there are at once

ASSUME OwnerIsUser == Owner \in Users /\ Anonymous \notin Users
ASSUME TypesAreKnown == SpaceTypes \subseteq {"personal", "team"} /\ MaxShares \in Nat

VARIABLES
  spaceType,   \* spaces.type
  publicRead,  \* spaces.public_read
  member,      \* space_members.role of each user
  grant,       \* node_grants.role of each Node and user
  link         \* node_link_sharing: the role of an enabled link

policy == <<spaceType, publicRead, member, grant, link>>
accessVars == <<vars, policy>>

Rank == [none |-> 0, viewer |-> 1, editor |-> 2, admin |-> 3, owner |-> 4]
Highest(r1, r2) == IF Rank[r1] >= Rank[r2] THEN r1 ELSE r2

GrantRoles == {"none", "viewer", "editor"}

AccessInit ==
  /\ Init
  /\ spaceType \in SpaceTypes /\ publicRead = FALSE
  /\ member = [u \in Users |-> "none"]
  /\ grant = [n \in Nodes |-> [u \in Users |-> "none"]]
  /\ link = [n \in Nodes |-> "none"]

-----------------------------------------------------------------------------
(* nodeAccessQuery: WITH RECURSIVE ancestry, which climbs from a live Node  *)
(* while the parent is not in the Trash itself: the least set with the     *)
(* Node and the parents that it reaches.                                   *)
Reached(m) == parent[m] \in Nodes /\ batch[parent[m]] = None
Climbed(S) == \A m \in S : Reached(m) => parent[m] \in S
Ancestry(n) == {a \in Nodes : \A S \in SUBSET Nodes : n \in S /\ Climbed(S) => a \in S}

(* ORDER BY editor first, then the topmost, LIMIT 1.                       *)
Topmost(f, a, b) == a \in Ancestry(b)
Precedes(f, a, b) == IF f[a] = f[b] THEN a \in Ancestry(b) ELSE f[a] = "editor"
First(n, f) ==
  LET rows == {a \in Ancestry(n) : f[a] # "none"} IN
  IF rows = {} THEN "none"
    ELSE f[CHOOSE a \in rows : \A b \in rows \ {a} : Precedes(f, a, b)]

GrantTo(u) == [n \in Nodes |-> IF u \in Users THEN grant[n][u] ELSE "none"]

(* The topmost Node of the ancestry that was shared with the user.         *)
IsNavigationRoot(u, n) ==
  GrantTo(u)[n] # "none" /\ \A a \in Ancestry(n) \ {n} : GrantTo(u)[a] = "none"

(* The topmost Node of the ancestry shared in either way: the user sees it *)
(* without the folder it is in (nodeAccess, navigation_root_id).           *)
Shared(u, n) == GrantTo(u)[n] # "none" \/ link[n] # "none"
IsSharedRoot(u, n) == Shared(u, n) /\ \A a \in Ancestry(n) \ {n} : ~Shared(u, a)

MemberRole(u) == IF u \in Users THEN member[u] ELSE "none"

RowVisible(u, n) ==
  /\ Live(n)
  /\ \/ u = Owner \/ publicRead
     \/ spaceType = "team" /\ MemberRole(u) # "none"
     \/ spaceType = "personal" /\ (First(n, GrantTo(u)) # "none" \/ First(n, link) # "none")

RegularRole(u, n) ==
  LET assigned == CASE u = Owner -> "owner"
                    [] u # Owner /\ spaceType = "team" -> MemberRole(u)
                    [] OTHER -> First(n, GrantTo(u))
  IN Highest(assigned, IF publicRead THEN "viewer" ELSE "none")

LinkRole(u, n) ==
  IF u = Anonymous /\ First(n, link) # "none" THEN "viewer" ELSE First(n, link)

Role(u, n) ==
  IF RowVisible(u, n) THEN Highest(RegularRole(u, n), LinkRole(u, n)) ELSE "none"

SpaceRole(u) ==
  Highest(IF u = Owner THEN "owner" ELSE MemberRole(u),
          IF publicRead THEN "viewer" ELSE "none")

(* Capabilities.  A shared link opens contents but never the structure.    *)
Resolves(u, n)  == Role(u, n) # "none"
CanWrite(role)  == role \notin {"none", "viewer"}
Manages(role)   == role \in {"admin", "owner"}
CanEdit(u, n)   == CanWrite(Role(u, n))
CanRename(u, n) == Resolves(u, n) /\ CanWrite(RegularRole(u, n))
CanMove(u, n)   == CanRename(u, n) /\ ~IsNavigationRoot(u, n)
CanTrash(u, n)  == Resolves(u, n) /\ Manages(RegularRole(u, n))
CanShare(u, n)  ==
  spaceType = "personal" /\ Resolves(u, n) /\ RegularRole(u, n) = "owner"

SeenParent(u, n) ==
  IF spaceType = "personal" /\ ~publicRead /\ Role(u, n) # "owner" /\ IsSharedRoot(u, n)
    THEN Root ELSE parent[n]

(* validateTarget.                                                         *)
AnyFolder(u, p) == IF p = Root THEN TRUE ELSE Resolves(u, p)
CanCreateIn(u, p) == IF p = Root THEN CanWrite(SpaceRole(u)) ELSE CanRename(u, p)

-----------------------------------------------------------------------------
(* Handlers of the Node tree, for a user.                                  *)

(* Rows of a Node that is gone are deleted with it (ON DELETE CASCADE).    *)
Cascade ==
  /\ grant' = [n \in Nodes |-> IF parent'[n] = Absent THEN [u \in Users |-> "none"] ELSE grant[n]]
  /\ link' = [n \in Nodes |-> IF parent'[n] = Absent THEN "none" ELSE link[n]]
  /\ UNCHANGED <<spaceType, publicRead, member>>

UserCreates(u, n, p) == Create(n, p) /\ CanCreateIn(u, p) /\ UNCHANGED policy
UserMoves(u, n, p)   == Move(n, p) /\ CanMove(u, n) /\ CanCreateIn(u, p) /\ UNCHANGED policy

(* A change of the name only writes the parent as well, as the user sees it.*)
UserRenames(u, n) ==
  /\ CanRename(u, n)
  /\ parent' = [parent EXCEPT ![n] = SeenParent(u, n)]
  /\ UNCHANGED <<batch, root, pinned, target, filed, policy>>

UserTrashes(u, n, b) == TrashNode(n, b) /\ CanTrash(u, n) /\ UNCHANGED policy
UserRestores(u, b)   == Restore(b) /\ Manages(SpaceRole(u)) /\ UNCHANGED policy
UserRemoves(u, b)    == RemovePermanently(b) /\ Manages(SpaceRole(u)) /\ Cascade

(* Permissions and Spaces: handlers that write what the resolver reads.    *)
Tree == UNCHANGED vars

UpsertMember(u, v, role) ==
  /\ spaceType = "team" /\ Manages(SpaceRole(u)) /\ v # Owner
  /\ SpaceRole(u) = "admin" => role # "admin" /\ member[v] # "admin"
  /\ member' = [member EXCEPT ![v] = role]
  /\ Tree /\ UNCHANGED <<spaceType, publicRead, grant, link>>

RemoveMember(u, v) ==
  /\ spaceType = "team" /\ SpaceRole(u) # "none"
  /\ u = v \/ (Manages(SpaceRole(u)) /\ ~(SpaceRole(u) = "admin" /\ member[v] = "admin"))
  /\ v # Owner /\ member[v] # "none"
  /\ member' = [member EXCEPT ![v] = "none"]
  /\ Tree /\ UNCHANGED <<spaceType, publicRead, grant, link>>

Shares ==
  Cardinality({s \in Nodes \X Users : grant[s[1]][s[2]] # "none"})
    + Cardinality({n \in Nodes : link[n] # "none"})

(* A grantee is looked up again for the reply: it must resolve the Node.   *)
UpsertGrant(u, n, v, role) ==
  /\ CanShare(u, n) /\ v # Owner
  /\ grant[n][v] # "none" \/ Shares < MaxShares
  /\ grant' = [grant EXCEPT ![n][v] = role]
  /\ Tree /\ UNCHANGED <<spaceType, publicRead, member, link>>

RemoveGrant(u, n, v) ==
  /\ CanShare(u, n) /\ grant[n][v] # "none"
  /\ grant' = [grant EXCEPT ![n][v] = "none"]
  /\ Tree /\ UNCHANGED <<spaceType, publicRead, member, link>>

UpdateLinkSharing(u, n, role) ==
  /\ CanShare(u, n)
  /\ role = "none" \/ link[n] # "none" \/ Shares < MaxShares
  /\ link' = [link EXCEPT ![n] = role]
  /\ Tree /\ UNCHANGED <<spaceType, publicRead, member, grant>>

UpdateSpace(u) ==
  /\ Manages(SpaceRole(u))
  /\ publicRead' = ~publicRead
  /\ Tree /\ UNCHANGED <<spaceType, member, grant, link>>

AccessNext ==
  \E u \in Users :
    \/ UpdateSpace(u)
    \/ \E v \in Users :
         \/ RemoveMember(u, v)
         \/ \E role \in {"viewer", "editor", "admin"} : UpsertMember(u, v, role)
         \/ \E n \in Nodes : RemoveGrant(u, n, v)
         \/ \E n \in Nodes, role \in {"viewer", "editor"} : UpsertGrant(u, n, v, role)
    \/ \E n \in Nodes, role \in GrantRoles : UpdateLinkSharing(u, n, role)
    \/ \E n \in Nodes, p \in Places : UserCreates(u, n, p) \/ UserMoves(u, n, p)
    \/ \E n \in Nodes : UserRenames(u, n)
    \/ \E n \in Nodes, b \in Batches : UserTrashes(u, n, b)
    \/ \E b \in Batches : UserRestores(u, b) \/ UserRemoves(u, b)

AccessSpec == AccessInit /\ [][AccessNext]_accessVars

-----------------------------------------------------------------------------
(* What access resolution promises.                                        *)

(* docs/data-model.md:273-278 - the role is the highest of all sources     *)
(* that reach the Node, an anonymous reader's never above viewer: picking  *)
(* one grant and one link by the order of the query loses nothing.         *)
Sources(u, n) ==
  {IF u = Owner THEN "owner" ELSE "none", MemberRole(u), IF publicRead THEN "viewer" ELSE "none"}
    \cup {GrantTo(u)[a] : a \in Ancestry(n)}
    \cup {IF u = Anonymous /\ link[a] = "editor" THEN "viewer" ELSE link[a] : a \in Ancestry(n)}
RoleIsHighest ==
  \A u \in Users \cup {Anonymous}, n \in Nodes :
    Live(n) => \A r \in Sources(u, n) : Rank[r] <= Rank[Role(u, n)]

(* The Node a handler returns can be resolved by the user it is returned   *)
(* to once the handler has written: the internal errors "not discoverable" *)
(* and "Grant has no effective Node access" are never thrown, although the *)
(* write may change the very path the role was inherited along.            *)
ReplyResolves ==
  [][/\ \A n \in Nodes, u \in Users :
          parent'[n] # parent[n] /\ (\E p \in Places : UserCreates(u, n, p) \/ UserMoves(u, n, p))
            => Resolves(u, n)'
     /\ \A n \in Nodes, v \in Users :
          grant'[n][v] # grant[n][v] /\ grant'[n][v] # "none" => Resolves(v, n)']_accessVars

(* data-model.md:460, "Rename only updates nodes.name": a user who may      *)
(* rename a Node leaves it where it is.                                    *)
RenameKeepsPlace ==
  \A u \in Users, n \in Nodes : CanRename(u, n) => SeenParent(u, n) = parent[n]
=============================================================================
