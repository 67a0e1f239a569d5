---------------------- MODULE ContentPermissions_proofs ----------------------
(***************************************************************************)
(* The two layers of content permissions agree for any users and any       *)
(* strategies a client may store.  Both results are about `allowed`, the   *)
(* decision itself: the invariant only has to keep what is stored in the   *)
(* ranges the routers accept.                                              *)
(***************************************************************************)
EXTENDS ContentPermissions, TLAPS

(* What a router lets through: a strategy is a function from actions to    *)
(* roles that somebody can have.                                           *)
StrategiesAreRoles ==
  \A s \in Strategies : \A a \in DOMAIN s : s[a] \in {Reader, Editor, UnitOwner}

StoredObjects ==
  [creator : Users, named : Named, strategies : Strategies, read : Scopes, edit : Scopes]

TypeOK == role \in [Users -> FileRoles] /\ (object # NoObject => object \in StoredObjects)

USE DEF Nobody, Reader, Editor, UnitOwner

(* The ranks of the file roles.                                            *)
LEMMA RankIsNatural == \A r \in FileRoles : Rank[r] \in 0..3
BY DEF Rank, FileRoles

(* The least role of an action is somebody's role: the owner has them all. *)
LEMMA MinimumIsRole ==
  ASSUME StrategiesAreRoles, object \in StoredObjects, NEW a \in Actions
  PROVE  Minimum(a) \in {Reader, Editor, UnitOwner}
BY DEF StrategiesAreRoles, StoredObjects, Minimum

-----------------------------------------------------------------------------
(* Stored rows stay in their ranges.                                       *)
LEMMA TypesKept == Spec => []TypeOK
<1>1. Init => TypeOK
  BY DEF Init, TypeOK
<1>2. TypeOK /\ [Next]_vars => TypeOK'
  <2> SUFFICES ASSUME TypeOK, [Next]_vars PROVE TypeOK'
    OBVIOUS
  <2>1. ASSUME NEW u \in Users, NEW people \in Named, NEW strategies \in Strategies,
               NEW read \in Scopes, NEW edit \in Scopes,
               CreateObject(u, people, strategies, read, edit)
        PROVE  TypeOK'
    BY <2>1 DEF TypeOK, CreateObject, StoredObjects
  <2>2. ASSUME NEW u \in Users, NEW people \in Named,
               UpdateObject(u, people, << >>, object.read, object.edit)
        PROVE  TypeOK'
    BY <2>2 DEF TypeOK, UpdateObject, StoredObjects, Kept
  <2>3. ASSUME NEW u \in Users, NEW strategies \in Strategies,
               NEW read \in Scopes, NEW edit \in Scopes,
               UpdateObject(u, object.named, strategies, read, edit)
        PROVE  TypeOK'
    BY <2>3 DEF TypeOK, UpdateObject, StoredObjects, Kept
  <2>4. ASSUME NEW u \in Users, NEW r \in FileRoles, ChangeRole(u, r)
        PROVE  TypeOK'
    BY <2>4 DEF TypeOK, ChangeRole
  <2>5. CASE RemoveResource
    BY <2>5 DEF TypeOK, RemoveResource
  <2>6. CASE UNCHANGED vars
    BY <2>6 DEF TypeOK, vars
  <2> QED
    BY <2>1, <2>2, <2>3, <2>4, <2>5, <2>6 DEF Next
<1> QED
  BY <1>1, <1>2, PTL DEF Spec

-----------------------------------------------------------------------------
(* In every reachable state, whatever rule was stored when, the creator and*)
(* the file's owners manage it exactly while they can edit the file, and no*)
(* other action goes beyond the file: RulesStayInTheFile.                  *)
LEMMA LayersAgree ==
  ASSUME StrategiesAreRoles, TypeOK
  PROVE  RulesStayInTheFile
<1> SUFFICES ASSUME object # NoObject, NEW u \in Users
             PROVE  /\ Allowed(u, "ManageCollaborator") <=> (ObjectOwner(u) /\ Edits(u))
                    /\ \A a \in Permitted(u) \ Management : UnitActionAllowed(u, a)
  BY DEF RulesStayInTheFile
<1>1. object \in StoredObjects
  BY DEF TypeOK
<1>2. "ManageCollaborator" \in Management /\ "ManageCollaborator" \in Actions
      /\ "ManageCollaborator" \notin ReadActions
  BY DEF Management, Actions, ReadActions
<1>3. UnitActionAllowed(u, "ManageCollaborator") => ObjectOwner(u) /\ Edits(u)
  BY <1>2 DEF UnitActionAllowed, ObjectOwner
<1>4. MayAsk(u, "ManageCollaborator") <=> ObjectOwner(u) /\ Edits(u)
  BY <1>2, <1>3 DEF MayAsk
<1>5. ObjectOwner(u) => ObjectRole(u, "ManageCollaborator") = UnitOwner
  BY DEF ObjectRole
<1>6. Minimum("ManageCollaborator") \in {Reader, Editor, UnitOwner}
  BY <1>1, <1>2, MinimumIsRole
<1>7. ObjectOwner(u) /\ Edits(u) => Allowed(u, "ManageCollaborator")
  BY <1>4, <1>5, <1>6 DEF Allowed
<1>8. Allowed(u, "ManageCollaborator") => ObjectOwner(u) /\ Edits(u)
  BY <1>4 DEF Allowed
<1>9. \A a \in Permitted(u) \ Management : UnitActionAllowed(u, a)
  BY DEF Permitted, Allowed, MayAsk
<1> QED
  BY <1>7, <1>8, <1>9

THEOREM RulesKept ==
  ASSUME StrategiesAreRoles
  PROVE  Spec => []RulesStayInTheFile
<1>1. TypeOK => RulesStayInTheFile
  BY LayersAgree
<1> QED
  BY <1>1, TypesKept, PTL

-----------------------------------------------------------------------------
(* A higher file role opens what a lower one did, in each test of `allowed`*)
(* that looks at it.                                                       *)
LEMMA HigherRoleHelps ==
  ASSUME TypeOK, TypeOK', NEW u \in Users, Rank[role'[u]] >= Rank[role[u]]
  PROVE  /\ Opens(u) => Opens(u)'
         /\ Edits(u) => Edits(u)'
         /\ Manages(u) => Manages(u)'
BY RankIsNatural DEF TypeOK, Opens, Edits, Manages, Rank, FileRoles

(* Raising a user's file role keeps every action on every object: no rule  *)
(* tells a role from above, however its rows combine.                      *)
THEOREM RaisingKeeps ==
  ASSUME StrategiesAreRoles
  PROVE  Spec => RaisingKeepsActions
<1> DEFINE Keeps ==
      \A u \in Users :
        object' = object /\ Rank[role'[u]] >= Rank[role[u]] => Permitted(u) \subseteq Permitted(u)'
<1>1. TypeOK /\ TypeOK' => Keeps
  <2> SUFFICES ASSUME TypeOK, TypeOK', NEW u \in Users, object' = object,
                      Rank[role'[u]] >= Rank[role[u]], NEW a \in Actions, Allowed(u, a)
               PROVE  Allowed(u, a)'
    BY DEF Permitted
  <2>1. object # NoObject /\ object \in StoredObjects
    BY DEF Allowed, TypeOK
  <2>2. /\ Opens(u) => Opens(u)'
        /\ Edits(u) => Edits(u)'
        /\ Manages(u) => Manages(u)'
    BY HigherRoleHelps
  <2>3. ObjectOwner(u) => ObjectOwner(u)'
    BY <2>2 DEF ObjectOwner
  <2>4. MayAsk(u, a) => MayAsk(u, a)'
    BY <2>2, <2>3 DEF MayAsk, UnitActionAllowed
  <2>5. Minimum(a)' = Minimum(a)
    BY DEF Minimum
  <2>6. Minimum(a) \in {Reader, Editor, UnitOwner}
    BY <2>1, MinimumIsRole
  <2>7. ObjectRole(u, a) \in {Nobody, Reader, Editor, UnitOwner}
    BY <2>1 DEF ObjectRole, StoredObjects, Named
  <2>8. ObjectRole(u, a)' = UnitOwner \/ (~ObjectOwner(u)' /\ ~ObjectOwner(u))
    BY <2>3 DEF ObjectRole
  <2>9. ~ObjectOwner(u) /\ ~ObjectOwner(u)' =>
          \/ ObjectRole(u, a)' = ObjectRole(u, a)
          \/ ObjectRole(u, a) = Nobody
    BY <2>2 DEF ObjectRole
  <2>10. \/ ObjectRole(u, a)' = UnitOwner
         \/ ObjectRole(u, a)' = ObjectRole(u, a)
         \/ ObjectRole(u, a) = Nobody
    BY <2>8, <2>9
  <2> QED
    BY <2>1, <2>4, <2>5, <2>6, <2>7, <2>10 DEF Allowed
<1>2. Spec => []TypeOK
  BY TypesKept
<1>3. TypeOK /\ TypeOK' => [Keeps]_vars
  BY <1>1
<1> QED
  BY <1>2, <1>3, PTL DEF RaisingKeepsActions
=============================================================================
