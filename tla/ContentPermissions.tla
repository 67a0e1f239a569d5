------------------------- MODULE ContentPermissions -------------------------
(***************************************************************************)
(* The protected range, paragraph or shape of one Unit and its own rules:  *)
(* integrations/univer/content-permissions.ts.  Two layers decide, the     *)
(* file's (what AccessResolver answers, see Access) and the object's, and  *)
(* they change independently: a rule outlives the file role of the people  *)
(* it names.  Every handler is synchronous.                                *)
(***************************************************************************)
EXTENDS Naturals, FiniteSets

CONSTANTS
  Users,       \* signed-in users
  Strategies   \* the strategies a client may store: functions from some of
               \* the Actions to the least role that may do them

VARIABLES
  role,    \* the file role each user resolves for the Unit, "none" to "admin"
  object   \* the permission object, NoObject until it is created

vars == <<role, object>>

FileRoles == {"none", "viewer", "editor", "admin"}   \* "admin" is Owner or Admin
Rank == [none |-> 0, viewer |-> 1, editor |-> 2, admin |-> 3]

(* UnitAction: one of each kind the code tells apart.  Print is an action  *)
(* readers of the file have and readers of an object do not.               *)
ReadActions    == {"View", "Print"}
ReaderDefaults == {"View"}
Management     == {"ManageCollaborator", "CreatePermissionObject"}
Actions        == ReadActions \cup Management \cup {"Edit"}

(* UnitRole, and the role of somebody the object has no role for.          *)
Nobody == 0
Reader == 1
Editor == 2
UnitOwner == 3

Scopes == {"Some", "All", "OneSelf"}
Named  == UNION {[S -> {Reader, Editor}] : S \in SUBSET Users}
NoObject == [creator |-> {}]

Opens(u) == Rank[role[u]] >= Rank["viewer"]
HasEditorRole(u) == role[u] = "editor"
Edits(u) == Rank[role[u]] >= Rank["editor"]
Manages(u) == role[u] = "admin"

Init == role \in [Users -> FileRoles] /\ object = NoObject

-----------------------------------------------------------------------------
(* allowed: what a user may do with the object.                            *)

UnitActionAllowed(u, action) ==
  /\ Opens(u)
  /\ action \in ReadActions \/ (Edits(u) /\ (Manages(u) \/ action # "ManageCollaborator"))

ObjectOwner(u) == object.creator = u \/ Manages(u)

OwnersMayAsk(u, action) ==
  UnitActionAllowed(u, action) \/ (action \in Management /\ ObjectOwner(u))
MayAsk(u, action) ==
  \/ UnitActionAllowed(u, action)
  \/ action \in Management /\ ObjectOwner(u) /\ Edits(u)

ObjectRole(u, action) ==
  CASE ObjectOwner(u) -> UnitOwner
    [] ~ObjectOwner(u) /\ u \in DOMAIN object.named -> object.named[u]
    [] OTHER -> IF object.edit = "All" /\ Edits(u) /\ action \notin Management
                  THEN Editor ELSE Nobody

Minimum(action) ==
  CASE action \in DOMAIN object.strategies -> object.strategies[action]
    [] action \notin DOMAIN object.strategies /\ action \in Management -> UnitOwner
    [] OTHER -> IF action \in ReaderDefaults THEN Reader ELSE Editor

Allowed(u, action) ==
  /\ object # NoObject /\ MayAsk(u, action)
  /\ \/ action = "View" /\ object.read = "All"
     \/ /\ object.edit # "OneSelf" \/ ObjectRole(u, action) = UnitOwner
        /\ ObjectRole(u, action) # Nobody
        /\ ObjectRole(u, action) >= Minimum(action)

Permitted(u) == {a \in Actions : Allowed(u, a)}

-----------------------------------------------------------------------------
(* Handlers.                                                               *)

(* A collaborator must be able to open the file; the creator needs no row. *)
Nameable(named, creator) == \A v \in DOMAIN named : v # creator /\ Opens(v)

CreateObject(u, named, strategies, read, edit) ==
  /\ object = NoObject /\ Edits(u)
  /\ Nameable(named, u)
  /\ object' = [creator |-> u, named |-> named, strategies |-> strategies,
                read |-> read, edit |-> edit]
  /\ UNCHANGED role

(* An empty list of strategies keeps the stored ones; people are checked   *)
(* only when the request names them.                                       *)
Kept(strategies) == IF strategies = << >> THEN object.strategies ELSE strategies

UpdateObject(u, named, strategies, read, edit) ==
  /\ object # NoObject /\ Allowed(u, "ManageCollaborator")
  /\ named = object.named \/ Nameable(named, object.creator)
  /\ object' = [object EXCEPT !.named = named, !.strategies = Kept(strategies),
                              !.read = read, !.edit = edit]
  /\ UNCHANGED role

(* The file's permissions change; nothing tells the object.                *)
ChangeRole(u, r) ==
  /\ role[u] # r
  /\ role' = [role EXCEPT ![u] = r]
  /\ UNCHANGED object

(* Only the removal of the Resource removes its objects.                   *)
RemoveResource == object # NoObject /\ object' = NoObject /\ UNCHANGED role

Next ==
  \/ \E u \in Users, people \in Named, strategies \in Strategies, read, edit \in Scopes :
       CreateObject(u, people, strategies, read, edit)
  \/ \E u \in Users, people \in Named :            \* a panel sends the people,
       UpdateObject(u, people, << >>, object.read, object.edit)
  \/ \E u \in Users, strategies \in Strategies, read, edit \in Scopes :   \* or the rules
       UpdateObject(u, object.named, strategies, read, edit)
  \/ \E u \in Users, r \in FileRoles : ChangeRole(u, r)
  \/ RemoveResource

Spec == Init /\ [][Next]_vars

-----------------------------------------------------------------------------
(* content-permissions.ts:105-107, "An object grant cannot widen file      *)
(* access ... the creator, and the current file Owner or Admin, can manage *)
(* the rule while they can still edit the file": whatever rows, strategies *)
(* and scopes were stored, and under whatever roles, nobody else manages   *)
(* the rule, these always do, and no other action goes beyond the file.    *)
RulesStayInTheFile ==
  object # NoObject =>
    \A u \in Users :
      /\ Allowed(u, "ManageCollaborator") <=> (ObjectOwner(u) /\ Edits(u))
      /\ \A a \in Permitted(u) \ Management : UnitActionAllowed(u, a)

(* Raising somebody's file role never takes an action on the object away:  *)
(* no rule tells a user's role from above.                                 *)
RaisingKeepsActions ==
  [][\A u \in Users :
       object' = object /\ Rank[role'[u]] >= Rank[role[u]]
         => Permitted(u) \subseteq Permitted(u)']_vars
=============================================================================
