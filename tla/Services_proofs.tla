-------------------------- MODULE Services_proofs ---------------------------
(***************************************************************************)
(* What the smaller services of the server promise, for any users,         *)
(* uploads, codes, issues and files: content permissions, embedded assets, *)
(* sign-in codes, issues and exchange.                                     *)
(*                                                                         *)
(* The services share no state, so each has an invariant of its own. The   *)
(* theorems are about the service (Issue!Spec and so on) under the names   *)
(* MCServices gives its state; the last one carries them to the            *)
(* specification TLC runs, in which each behaviour is one of one service.  *)
(***************************************************************************)
EXTENDS MCServices, SequenceTheorems, TLAPS

-----------------------------------------------------------------------------
(* Each service behaves as its module says, while the others rest.         *)
LEMMA ServicesBehave ==
  MCSpec => Content!Spec /\ Assets!Spec /\ Code!Spec /\ Issue!Spec /\ Convert!Spec
<1>1. MCInit => Content!Init /\ Assets!Init /\ Code!Init /\ Issue!Init /\ Convert!Init
  BY DEF MCInit
<1>2. [MCNext]_MCVars => [Content!Next]_Content!vars
  BY DEF MCNext, MCVars, AccessSteps, ContentSteps, AssetsSteps, CodeSteps, IssueSteps,
    ConvertSteps, RuntimeSteps, FeedSteps, AgentSteps,
    ContentState, Content!vars
<1>3. [MCNext]_MCVars => [Assets!Next]_Assets!vars
  BY DEF MCNext, MCVars, AccessSteps, ContentSteps, AssetsSteps, CodeSteps, IssueSteps,
    ConvertSteps, RuntimeSteps, FeedSteps, AgentSteps,
    AssetsState, Assets!vars, Assets!memory, Assets!rows, Assets!disk, Assets!spaces,
    Assets!service, Assets!reviews
<1>4. [MCNext]_MCVars => [Code!Next]_Code!vars
  BY DEF MCNext, MCVars, AccessSteps, ContentSteps, AssetsSteps, CodeSteps, IssueSteps,
    ConvertSteps, RuntimeSteps, FeedSteps, AgentSteps,
    CodeState, Code!vars
<1>5. [MCNext]_MCVars => [Issue!Next]_Issue!vars
  BY DEF MCNext, MCVars, AccessSteps, ContentSteps, AssetsSteps, CodeSteps, IssueSteps,
    ConvertSteps, RuntimeSteps, FeedSteps, AgentSteps,
    IssueState, Issue!vars
<1>6. [MCNext]_MCVars => [Convert!Next]_Convert!vars
  BY DEF MCNext, MCVars, AccessSteps, ContentSteps, AssetsSteps, CodeSteps, IssueSteps,
    ConvertSteps, RuntimeSteps, FeedSteps, AgentSteps,
    ConvertState, Convert!vars
<1> QED
  BY <1>1, <1>2, <1>3, <1>4, <1>5, <1>6, PTL DEF MCSpec, Content!Spec, Assets!Spec, Code!Spec,
    Issue!Spec, Convert!Spec

-----------------------------------------------------------------------------
(***************************************************************************)
(* Content permissions: ContentPermissions_proofs has the two results for  *)
(* any strategies a client may store; here are theirs for MCStrategies.    *)
(***************************************************************************)
ContentP == INSTANCE ContentPermissions_proofs WITH
  Users <- Readers, role <- fileRole, object <- permission, Strategies <- MCStrategies

(* One module under two names: what Content says of the file, ...          *)
LEMMA SameRoles ==
  /\ Content!FileRoles = ContentP!FileRoles /\ Content!Named = ContentP!Named
  /\ Content!Scopes = ContentP!Scopes /\ Content!NoObject = ContentP!NoObject
  /\ \A u : Content!Opens(u) = ContentP!Opens(u)
  /\ \A u : Content!Edits(u) = ContentP!Edits(u)
  /\ \A u : Content!Manages(u) = ContentP!Manages(u)
BY DEF Content!FileRoles, ContentP!FileRoles, Content!Named, ContentP!Named, Content!Scopes,
  ContentP!Scopes, Content!NoObject, ContentP!NoObject, Content!Opens, ContentP!Opens,
  Content!Edits, ContentP!Edits, Content!Manages, ContentP!Manages, Content!Rank, ContentP!Rank,
  Content!Reader, Content!Editor, ContentP!Reader, ContentP!Editor

(* ... what it decides, ...                                                *)
LEMMA SameDecision ==
  /\ \A u, a : Content!Allowed(u, a) = ContentP!Allowed(u, a)
BY SameRoles DEF Content!Allowed, ContentP!Allowed, Content!MayAsk, ContentP!MayAsk,
  Content!UnitActionAllowed, ContentP!UnitActionAllowed, Content!ObjectOwner,
  ContentP!ObjectOwner,
  Content!ObjectRole, ContentP!ObjectRole, Content!Minimum, ContentP!Minimum,
  Content!ReadActions, ContentP!ReadActions, Content!ReaderDefaults, ContentP!ReaderDefaults,
  Content!Management, ContentP!Management, Content!Nobody, ContentP!Nobody,
  Content!Reader, ContentP!Reader, Content!Editor, ContentP!Editor, Content!UnitOwner,
  ContentP!UnitOwner
(* ... and what its handlers do, the proved module says too.               *)
LEMMA SameSteps == Content!Next <=> ContentP!Next
<1>1. \A S, u : Content!Nameable(S, u) <=> ContentP!Nameable(S, u)
  BY SameRoles DEF Content!Nameable, ContentP!Nameable
<1>2. \A u, S, s, r, e : Content!CreateObject(u, S, s, r, e) <=> ContentP!CreateObject(u, S, s, r, e)
  BY SameRoles, <1>1 DEF Content!CreateObject, ContentP!CreateObject
<1>3. \A u, S, s, r, e : Content!UpdateObject(u, S, s, r, e) <=> ContentP!UpdateObject(u, S, s, r, e)
  BY SameRoles, SameDecision, <1>1
    DEF Content!UpdateObject, ContentP!UpdateObject, Content!Kept, ContentP!Kept
<1>4. \A u, r : Content!ChangeRole(u, r) <=> ContentP!ChangeRole(u, r)
  BY DEF Content!ChangeRole, ContentP!ChangeRole
<1>5. Content!RemoveResource <=> ContentP!RemoveResource
  BY SameRoles DEF Content!RemoveResource, ContentP!RemoveResource
<1> QED
  BY SameRoles, <1>2, <1>3, <1>4, <1>5 DEF Content!Next, ContentP!Next
(* Content behaves as the proved module.                                   *)
LEMMA SameBehaviour == Content!Spec => ContentP!Spec
<1>1. Content!Init => ContentP!Init
  BY SameRoles DEF Content!Init, ContentP!Init
<1>2. [Content!Next]_Content!vars => [ContentP!Next]_ContentP!vars
  BY SameSteps DEF Content!vars, ContentP!vars
<1> QED BY <1>1, <1>2, PTL DEF Content!Spec, ContentP!Spec

(* The strategies of the runs name roles somebody can have.                *)
LEMMA StrategiesOfRoles == ContentP!StrategiesAreRoles
BY DEF ContentP!StrategiesAreRoles, MCStrategies, ContentP!Reader, ContentP!Editor,
  ContentP!UnitOwner

(* RulesStayInTheFile: no stored rule goes beyond the roles of the file.   *)
THEOREM RulesStay == Content!Spec => []RulesStayInTheFile
<1>1. ContentP!Spec => []ContentP!RulesStayInTheFile
  BY StrategiesOfRoles, ContentP!RulesKept
<1>2. ContentP!RulesStayInTheFile => RulesStayInTheFile
  BY SameRoles, SameDecision DEF RulesStayInTheFile, Content!RulesStayInTheFile,
    ContentP!RulesStayInTheFile,
    Content!Permitted, ContentP!Permitted, Content!UnitActionAllowed, ContentP!UnitActionAllowed,
    Content!ObjectOwner, ContentP!ObjectOwner, Content!Management, ContentP!Management,
    Content!ReadActions, ContentP!ReadActions, Content!Actions, ContentP!Actions
<1> QED BY <1>1, <1>2, SameBehaviour, PTL

(* Both names permit the same actions.                                     *)
SamePermissions == \A u : Content!Permitted(u) = ContentP!Permitted(u)

(* They do in every state.                                                 *)
LEMMA PermissionsAreSame == SamePermissions
BY SameDecision DEF SamePermissions, Content!Permitted, ContentP!Permitted, Content!Actions,
  ContentP!Actions, Content!ReadActions, ContentP!ReadActions, Content!Management,
  ContentP!Management

(* RaisingKeepsActions: raising a role on the file takes no action away.   *)
THEOREM RaisingKeeps == Content!Spec => RaisingKeepsActions
<1> DEFINE Kept ==
      \A u \in Readers :
        permission' = permission /\ Content!Rank[fileRole'[u]] >= Content!Rank[fileRole[u]]
          => Content!Permitted(u) \subseteq Content!Permitted(u)'
    KeptP ==
      \A u \in Readers :
        permission' = permission /\ ContentP!Rank[fileRole'[u]] >= ContentP!Rank[fileRole[u]]
          => ContentP!Permitted(u) \subseteq ContentP!Permitted(u)'
<1>1. ContentP!Spec => [][KeptP]_ContentP!vars
  BY StrategiesOfRoles, ContentP!RaisingKeeps DEF ContentP!RaisingKeepsActions
<1>2. SamePermissions'
  BY PermissionsAreSame, PTL
<1>3. [KeptP]_ContentP!vars => [Kept]_Content!vars
  BY <1>2, PermissionsAreSame
    DEF SamePermissions, Content!Rank, ContentP!Rank, Content!vars, ContentP!vars
<1> QED
  BY <1>1, <1>3, SameBehaviour, PTL DEF RaisingKeepsActions, Content!RaisingKeepsActions

-----------------------------------------------------------------------------
(***************************************************************************)
(* No embedded object is lost or owned twice, and the images of a merged   *)
(* Unit reach the trunk, for any uploads, Units and number of crashes.     *)
(*                                                                         *)
(* EveryFileIsOwned is not inductive: a put that ends makes an asset of a  *)
(* file, which is right only because its row is still there and nobody     *)
(* queued its deletion (Writing), a start does the same with what a crash  *)
(* left (AtStart), and an open under way belongs to a key that is queued   *)
(* or escaped (Astray).  MergedImagesReachTrunk holds over late answers    *)
(* because an answer that names all Units is of a merged worktree, which   *)
(* nobody opens again (Answers), because a draft has nothing settled       *)
(* (Settling), and because only the end of a worktree is processed (Ended).*)
(***************************************************************************)

(* A file is an asset's, an upload's or a deletion job's.                  *)
Accounted == \A u \in files \ escaped : asset[u] # "none" \/ upload[u] # "none" \/ u \in queued

(* An asset's object is there and nobody else's.                           *)
Exclusive ==
  \A u \in Uploads : asset[u] # "none" => upload[u] = "none" /\ u \notin queued /\ u \in files

InTrunk == \A u \in Uploads : asset[u] = "trunk" => request[u].unit \in trunk

(* A handler at its put has its row, and its key is in no deletion job.    *)
Writing ==
  \A u \in Uploads :
    /\ uploading[u] = "putting" => upload[u] = "receiving"
    /\ upload[u] # "none" => u \notin queued
    /\ uploading[u] = "asked" => upload[u] = "none" /\ asset[u] = "none" /\ u \notin files \cup queued

(* A put that gave up left a deletion job, or its key has escaped.         *)
Astray ==
  /\ stray \subseteq queued \cup escaped
  /\ \A u \in stray \cup escaped : uploading[u] = "off" /\ upload[u] = "none" /\ asset[u] = "none"

(* Only a crash leaves rows without a handler, and stored ones at all.     *)
AtStart ==
  \A u \in Uploads :
    /\ ~up => uploading[u] = "off"
    /\ up /\ upload[u] # "none" => uploading[u] = "putting"
    /\ upload[u] = "stored" => u \in files

(* A request that resumes a finished merge, or holds the answer of one that*)
(* took every Unit, is of a worktree that stays merged.                    *)
Answers ==
  \A m \in Merges :
    /\ merging[m].at # "off" => wt # "none"
    /\ merging[m].fetch => wt = "merged"
    /\ merging[m].at = "answered" /\ merging[m].saw = Units => wt = "merged"

(* Nothing counts as settled while the draft can be edited.                *)
Settling == wt \in {"none", "draft"} => settled = {}

Ended ==
  /\ processed => wt \in {"merged", "discarded"}
  /\ discarding => wt = "discarded"
  /\ wt = "merged" => done = Units

(* What the upload handlers keep, and what the worktree's keep.            *)
StoreInv == Accounted /\ Exclusive /\ InTrunk /\ Writing /\ Astray /\ AtStart
ReviewInv == Answers /\ Settling /\ Ended

AssetsInv == Assets!TypeOK /\ StoreInv /\ ReviewInv /\ MergedImagesReachTrunk

(* publishStored, at the end of a put or at a start: an upload with a file *)
(* and no other owner becomes an asset, of a worktree that is a draft or is*)
(* recorded as late.                                                       *)
LEMMA Publishing ==
  ASSUME AssetsInv, NEW u \in Uploads, Assets!Publishable(u), Assets!PublishStored(u),
         upload[u] # "none", u \in files,
         uploading' \in [Uploads -> {"off", "asked", "putting"}], uploading'[u] = "off",
         \A v \in Uploads \ {u} : uploading'[v] = uploading[v],
         UNCHANGED <<Assets!memory, request, queued, Assets!disk, Assets!worktrees>>
  PROVE  AssetsInv'
<1> USE DEF AssetsInv, Assets!TypeOK, Assets!Requests, Assets!memory, Assets!disk,
  Assets!worktrees, Assets!spaces, Assets!service, Assets!reviews
<1>1. /\ asset' = [asset EXCEPT ![u] = request[u].scope]
      /\ upload' = [upload EXCEPT ![u] = "none"]
  BY DEF Assets!PublishStored
<1>2. late' = late \/ late' = late \cup {u}
  BY DEF Assets!PublishStored
<1>3. request[u].scope \in {"trunk", "worktree"}
  OBVIOUS
<1>4. Assets!TypeOK'
  BY <1>1, <1>2, <1>3
<1>5. Accounted' /\ Exclusive'
  BY <1>1, <1>3 DEF StoreInv, Accounted, Exclusive, Writing
<1>6. InTrunk'
  BY <1>1 DEF StoreInv, InTrunk, Assets!Publishable
<1>7. Writing' /\ AtStart' /\ Astray'
  BY <1>1, <1>3 DEF StoreInv, Writing, AtStart, Astray
<1>8. ReviewInv'
  BY DEF ReviewInv, Answers, Settling, Ended
<1>9. MergedImagesReachTrunk'
  <2>1. wt = "draft" => settled = {}
    BY DEF ReviewInv, Settling
  <2>2. wt = "draft" \/ u \in late'
    BY DEF Assets!PublishStored
  <2> QED
    BY <1>1, <1>2, <2>1, <2>2 DEF MergedImagesReachTrunk, Assets!MergedImagesReachTrunk
<1> QED
  BY <1>4, <1>5, <1>6, <1>7, <1>8, <1>9 DEF StoreInv

(* A step of the worktree's handlers that leaves assets and uploads alone. *)
LEMMA Reviewing ==
  ASSUME AssetsInv, Assets!TypeOK', ReviewInv',
         UNCHANGED <<up, uploading, upload, asset, queued, Assets!disk, request, late>>,
         trunk \subseteq trunk',
         settled' \subseteq settled \/ (wt = "merged" /\ processed),
         wt' = "merged" /\ processed' => wt = "merged" /\ processed
  PROVE  AssetsInv'
<1> USE DEF AssetsInv, Assets!disk
<1>1. StoreInv'
  BY DEF StoreInv, Accounted, Exclusive, InTrunk, Writing, Astray, AtStart
<1>2. MergedImagesReachTrunk'
  BY DEF MergedImagesReachTrunk, Assets!MergedImagesReachTrunk
<1> QED
  BY <1>1, <1>2

(* The images of the Units a merge took become the trunk's, whatever the   *)
(* worktree has become since the service answered.                         *)
LEMMA PublishingMerged ==
  ASSUME AssetsInv, NEW m \in Merges, NEW S \in SUBSET Units,
         S = merging[m].saw, merging[m].at = "answered",
         Assets!CanPublish(S), Assets!PublishWorktreeAssets(S),
         Assets!Activate(Assets!ToActivate(S)),
         processed' = processed \/ processed' = Assets!Processes(S),
         Assets!TypeOK', ReviewInv',
         UNCHANGED <<up, uploading, upload, queued, Assets!disk, request, late, wt>>,
         settled' \subseteq settled \cup S
  PROVE  AssetsInv'
<1> USE DEF AssetsInv, Assets!disk
<1>1. \A u \in Uploads : asset'[u] = IF asset[u] = "worktree" /\ request[u].unit \in S
                                      THEN "trunk" ELSE asset[u]
  BY DEF Assets!PublishWorktreeAssets
<1>2. trunk \subseteq trunk'
  BY DEF Assets!Activate
<1>3. \A u \in Uploads : asset[u] = "worktree" /\ request[u].unit \in S => request[u].unit \in trunk'
  BY DEF Assets!CanPublish, Assets!Activate
<1>4. StoreInv'
  BY <1>1, <1>2, <1>3 DEF StoreInv, Accounted, Exclusive, InTrunk, Writing, Astray, AtStart, Assets!TypeOK
<1>5. S = Units => \A u \in Uploads : asset'[u] # "worktree"
  BY <1>1 DEF Assets!TypeOK, Assets!Requests
<1>6. MergedImagesReachTrunk'
  BY <1>1, <1>5 DEF MergedImagesReachTrunk, Assets!MergedImagesReachTrunk, Assets!Processes
<1> QED
  BY <1>4, <1>6

(* One more crash is still within the bound.                               *)
LEMMA OneMoreCrash ==
  ASSUME MaxCrashes \in Nat, NEW c \in 0..MaxCrashes, c < MaxCrashes
  PROVE  c + 1 \in 0..MaxCrashes
OBVIOUS

(* The handlers of uploads, and the disk.                                  *)
LEMMA UploadsKeep ==
  ASSUME AssetsInv, NEW u \in Uploads,
         \/ Assets!Authorize(u) \/ Assets!Reserve(u) \/ Assets!WriteBytes(u)
         \/ Assets!PutFails(u) \/ Assets!PutEnds(u) \/ Assets!DeleteObject(u) \/ Assets!StrayOpens(u)
  PROVE  AssetsInv'
<1> USE DEF AssetsInv, StoreInv, ReviewInv, Assets!TypeOK, Accounted, Exclusive, InTrunk, Writing,
  Astray, AtStart, Answers, Settling, Ended, MergedImagesReachTrunk, Assets!MergedImagesReachTrunk,
  Assets!Requests, Assets!memory, Assets!rows, Assets!disk, Assets!worktrees, Assets!spaces,
  Assets!service, Assets!reviews
<1>1. CASE Assets!Authorize(u)
  BY <1>1 DEF Assets!Authorize, Assets!Fresh
<1>2. CASE Assets!Reserve(u)
  <2>1. CASE request[u].scope = "trunk" /\ request[u].unit \notin trunk
    BY <1>2, <2>1 DEF Assets!Reserve
  <2>2. CASE ~(request[u].scope = "trunk" /\ request[u].unit \notin trunk)
    <3>1. /\ uploading' = [uploading EXCEPT ![u] = "putting"] /\ uploading[u] = "asked"
          /\ upload' = [upload EXCEPT ![u] = "receiving"]
          /\ UNCHANGED <<asset, queued, late, Assets!disk, Assets!memory, request, Assets!worktrees>> /\ up
      BY <1>2, <2>2 DEF Assets!Reserve
    <3> QED
      BY <3>1
  <2> QED
    BY <2>1, <2>2
<1>3. CASE Assets!WriteBytes(u)
  BY <1>3 DEF Assets!WriteBytes
<1>4. CASE Assets!PutFails(u)
  BY <1>4 DEF Assets!PutFails, Assets!AbandonUpload
<1>5. CASE Assets!PutEnds(u)
  <2>1. CASE Assets!Publishable(u)
    <3>1. /\ up /\ uploading[u] = "putting" /\ u \in files
          /\ uploading' = [uploading EXCEPT ![u] = "off"]
          /\ Assets!PublishStored(u)
          /\ UNCHANGED <<Assets!memory, request, queued, Assets!disk, Assets!worktrees>>
      BY <1>5, <2>1 DEF Assets!PutEnds
    <3>2. /\ uploading' \in [Uploads -> {"off", "asked", "putting"}] /\ upload[u] # "none"
          /\ uploading'[u] = "off" /\ \A v \in Uploads \ {u} : uploading'[v] = uploading[v]
      BY <3>1
    <3> HIDE DEF AssetsInv
    <3> QED
      BY <2>1, <3>1, <3>2, Publishing
  <2>2. CASE ~Assets!Publishable(u)
    BY <1>5, <2>2 DEF Assets!PutEnds, Assets!AbandonUpload
  <2> QED
    BY <2>1, <2>2
<1>6. CASE Assets!DeleteObject(u)
  BY <1>6 DEF Assets!DeleteObject
<1>7. CASE Assets!StrayOpens(u)
  BY <1>7 DEF Assets!StrayOpens
<1> QED
  BY <1>1, <1>2, <1>3, <1>4, <1>5, <1>6, <1>7

(* A crash drops every handler and leaves rows and files; the next start   *)
(* settles what it finds.                                                  *)
LEMMA ProcessKeeps ==
  ASSUME AssetsInv,
         \/ Assets!Crash \/ Assets!Start
         \/ \E u \in Uploads : \/ Assets!CrashWhileStored(u) \/ Assets!RecoverStored(u)
                              \/ Assets!RecoverReceiving(u)
  PROVE  AssetsInv'
<1>a. ASSUME Assets!CanCrash, Assets!Stop
      PROVE  /\ crashes < MaxCrashes /\ crashes' = crashes + 1 /\ up' = FALSE /\ stray' = {}
             /\ uploading' = [u \in Uploads |-> "off"]
             /\ merging' = [m \in Merges |-> Assets!NoMerge] /\ discarding' = FALSE
             /\ UNCHANGED <<request, asset, files, escaped, queued, trunk, intent, processed, wt, done>>
             /\ UNCHANGED <<mergeOp, settled, late>>
  BY <1>a DEF Assets!CanCrash, Assets!Stop, Assets!spaces, Assets!service
<1> USE DEF AssetsInv, StoreInv, ReviewInv, Assets!TypeOK, Accounted, Exclusive, InTrunk, Writing,
  Astray, AtStart, Answers, Settling, Ended, MergedImagesReachTrunk, Assets!MergedImagesReachTrunk,
  Assets!Requests, Assets!memory, Assets!rows, Assets!disk, Assets!worktrees, Assets!spaces,
  Assets!service, Assets!reviews
<1>1. ASSUME Assets!CanCrash, Assets!Stop,
             upload' = upload \/ \E u \in Uploads : /\ uploading[u] = "putting" /\ u \in files
                                                   /\ upload' = [upload EXCEPT ![u] = "stored"]
      PROVE  AssetsInv'
  <2>1. /\ crashes < MaxCrashes /\ crashes' = crashes + 1 /\ up' = FALSE /\ stray' = {}
        /\ uploading' = [u \in Uploads |-> "off"]
        /\ merging' = [m \in Merges |-> Assets!NoMerge] /\ discarding' = FALSE
        /\ UNCHANGED <<request, asset, files, escaped, queued, trunk, intent, processed, wt, done>>
        /\ UNCHANGED <<mergeOp, settled, late>>
    BY <1>1, <1>a
  <2>2. crashes' \in 0..MaxCrashes
    BY <2>1, OneMoreCrash, NumbersAreNatural
  <2>3. merging' \in [Merges -> Assets!MergeRequests]
    BY <2>1 DEF Assets!NoMerge, Assets!MergeRequests
  <2>4. upload' \in [Uploads -> {"none", "receiving", "stored"}]
    BY <1>1
  <2>5. uploading' \in [Uploads -> {"off", "asked", "putting"}]
    BY <2>1
  <2>6. Assets!TypeOK'
    BY <2>1, <2>2, <2>3, <2>4, <2>5
  <2>7. StoreInv' /\ MergedImagesReachTrunk'
    BY <1>1, <2>1
  <2>8. ReviewInv'
    BY <2>1 DEF Assets!NoMerge
  <2> QED
    BY <2>6, <2>7, <2>8
<1>2. CASE Assets!Crash
  BY <1>1, <1>2 DEF Assets!Crash
<1>3. ASSUME NEW u \in Uploads, Assets!CrashWhileStored(u) PROVE AssetsInv'
  BY <1>1, <1>3 DEF Assets!CrashWhileStored
<1>4. ASSUME NEW u \in Uploads, Assets!RecoverStored(u) PROVE AssetsInv'
  <2>1. /\ Assets!Publishable(u) /\ Assets!PublishStored(u)
        /\ UNCHANGED <<Assets!memory, request, queued, Assets!disk, Assets!worktrees>>
        /\ upload[u] # "none" /\ u \in files /\ uploading[u] = "off" /\ uploading' = uploading
    BY <1>4 DEF Assets!RecoverStored
  <2> HIDE DEF AssetsInv
  <2> QED
    BY <2>1, Publishing DEF AssetsInv, Assets!TypeOK
<1>5. ASSUME NEW u \in Uploads, Assets!RecoverReceiving(u) PROVE AssetsInv'
  BY <1>5 DEF Assets!RecoverReceiving, Assets!AbandonUpload
<1>6. CASE Assets!Start
  BY <1>6 DEF Assets!Start
<1> QED
  BY <1>2, <1>3, <1>4, <1>5, <1>6

(* Opening, closing and discarding the worktree publishes nothing.         *)
LEMMA WorktreesKeep ==
  ASSUME AssetsInv,
         \/ Assets!CreateWorktree \/ Assets!MarkReady \/ Assets!Reopen
         \/ Assets!Discard \/ Assets!FinishDiscard
  PROVE  AssetsInv'
<1> USE DEF AssetsInv, ReviewInv, Assets!TypeOK, Answers, Settling, Ended, Assets!memory,
  Assets!rows, Assets!disk, Assets!spaces, Assets!service, Assets!reviews
<1>1. CASE Assets!CreateWorktree
  BY <1>1, Reviewing DEF Assets!CreateWorktree
<1>2. CASE Assets!MarkReady
  BY <1>2, Reviewing DEF Assets!MarkReady
<1>3. CASE Assets!Reopen
  BY <1>3, Reviewing DEF Assets!Reopen
<1>4. CASE Assets!Discard
  BY <1>4, Reviewing DEF Assets!Discard
<1>5. CASE Assets!FinishDiscard
  BY <1>5, Reviewing DEF Assets!FinishDiscard
<1> QED
  BY <1>1, <1>2, <1>3, <1>4, <1>5

(* A merge publishes before it is processed or its Operation completed.    *)
LEMMA MergesKeep ==
  ASSUME AssetsInv, NEW m \in Merges,
         \/ Assets!AskMerge(m) \/ Assets!StartMerge(m) \/ Assets!FetchMerged(m)
         \/ Assets!MergeCallFails(m) \/ Assets!MergeEnds(m) \/ Assets!MergeStopsLate(m)
         \/ \E S \in SUBSET Units : Assets!EndMerge(m, S) \/ Assets!MergeStopsEarly(m, S)
  PROVE  AssetsInv'
<1> USE DEF AssetsInv, Assets!memory, Assets!rows, Assets!disk, Assets!spaces, Assets!service,
  Assets!reviews
<1>a. ASSUME NEW next \in Assets!MergeRequests, merging' = [merging EXCEPT ![m] = next],
             UNCHANGED <<wt, done, processed, discarding>>, settled' = settled \/ wt # "draft",
             wt = "none" => settled' = settled,
             next.at # "off" => wt # "none", next.fetch => wt = "merged",
             next.at = "answered" /\ next.saw = Units => wt = "merged"
      PROVE  ReviewInv'
  BY <1>a DEF ReviewInv, Answers, Settling, Ended, Assets!TypeOK
<1>b. Assets!NoMerge \in Assets!MergeRequests /\ ~Assets!NoMerge.fetch
        /\ Assets!NoMerge.at = "off"
  BY DEF Assets!NoMerge, Assets!MergeRequests
<1>c. merging[m] \in Assets!MergeRequests
  BY DEF Assets!TypeOK
<1>1. CASE Assets!AskMerge(m)
  <2>1. CASE wt = "merged" /\ processed
    <3>1. Assets!TypeOK'
      BY <1>1, <2>1, <1>b DEF Assets!AskMerge, Assets!Settle, Assets!TypeOK
    <3>2. ReviewInv'
      BY <1>1, <2>1, <1>a, <1>b DEF Assets!AskMerge, Assets!Settle
    <3> QED
      BY <1>1, <2>1, <3>1, <3>2, Reviewing DEF Assets!AskMerge, Assets!Settle
  <2>2. CASE ~(wt = "merged" /\ processed)
    <3>1. PICK next : next = [at |-> "asked", fetch |-> wt = "merged", saw |-> {}]
      OBVIOUS
    <3>2. next \in Assets!MergeRequests /\ (next.fetch => wt = "merged") /\ next.at = "asked"
      BY <3>1 DEF Assets!MergeRequests
    <3>3. /\ mergeOp' = [mergeOp EXCEPT ![m] = "open"] /\ merging' = [merging EXCEPT ![m] = next]
          /\ UNCHANGED <<up, crashes, request, uploading, upload, asset, queued, files, stray, escaped,
                        trunk, intent, processed, wt, done, discarding, settled, late>>
          /\ wt # "none"
      BY <1>1, <2>2, <3>1 DEF Assets!AskMerge
    <3>4. Assets!TypeOK'
      BY <3>2, <3>3 DEF Assets!TypeOK
    <3>5. ReviewInv'
      BY <3>2, <3>3, <1>a
    <3> QED
      BY <3>3, <3>4, <3>5, Reviewing
  <2> QED
    BY <2>1, <2>2
<1>2. CASE Assets!StartMerge(m)
  <2>1. PICK next : next = [merging[m] EXCEPT !.at = "started"]
    OBVIOUS
  <2>2. next \in Assets!MergeRequests /\ ~next.fetch /\ next.at = "started"
    BY <1>2, <2>1, <1>c DEF Assets!StartMerge, Assets!MergeRequests
  <2>3. /\ merging' = [merging EXCEPT ![m] = next] /\ wt \in {"ready", "merging"} /\ wt' = "merging"
        /\ UNCHANGED <<up, crashes, request, uploading, upload, asset, queued, files, stray, escaped,
                      trunk, intent, processed, done, mergeOp, discarding, settled, late>>
    BY <1>2, <2>1 DEF Assets!StartMerge, Assets!MergeTo, Assets!TypeOK
  <2>4. Assets!TypeOK'
    BY <2>2, <2>3 DEF Assets!TypeOK
  <2>5. ReviewInv'
    BY <2>2, <2>3 DEF ReviewInv, Answers, Settling, Ended, Assets!TypeOK
  <2> QED
    BY <2>3, <2>4, <2>5, Reviewing
<1>3. CASE Assets!FetchMerged(m)
  <2>1. PICK next : next = [merging[m] EXCEPT !.at = "answered", !.saw = done]
    OBVIOUS
  <2>2. next \in Assets!MergeRequests /\ (next.fetch => wt = "merged") /\ wt = "merged"
    BY <1>3, <2>1, <1>c DEF Assets!FetchMerged, Assets!MergeRequests, ReviewInv, Answers, Assets!TypeOK
  <2>3. /\ merging' = [merging EXCEPT ![m] = next]
        /\ UNCHANGED <<up, crashes, request, uploading, upload, asset, queued, files, stray, escaped,
                      trunk, intent, processed, wt, done, mergeOp, discarding, settled, late>>
    BY <1>3, <2>1 DEF Assets!FetchMerged, Assets!TypeOK
  <2>4. Assets!TypeOK'
    BY <2>2, <2>3 DEF Assets!TypeOK
  <2>5. ReviewInv'
    BY <2>2, <2>3, <1>a
  <2> QED
    BY <2>3, <2>4, <2>5, Reviewing
<1>4. CASE Assets!MergeCallFails(m)
  <2>1. Assets!TypeOK'
    BY <1>4, <1>b DEF Assets!MergeCallFails, Assets!TypeOK
  <2>2. ReviewInv'
    BY <1>4, <1>a, <1>b DEF Assets!MergeCallFails
  <2> QED
    BY <1>4, <2>1, <2>2, Reviewing DEF Assets!MergeCallFails
<1>5. ASSUME NEW S \in SUBSET Units, Assets!EndMerge(m, S) PROVE AssetsInv'
  <2>1. PICK next : next = [merging[m] EXCEPT !.at = "answered", !.saw = S]
    OBVIOUS
  <2>2. next \in Assets!MergeRequests /\ next.fetch = merging[m].fetch /\ next.saw = S
    BY <2>1, <1>c DEF Assets!MergeRequests
  <2>3. merging' = [merging EXCEPT ![m] = next]
    <3>1. merging' = [merging EXCEPT ![m].at = "answered", ![m].saw = S]
      BY <1>5 DEF Assets!EndMerge
    <3> QED
      BY <2>1, <3>1 DEF Assets!TypeOK
  <2>4. /\ wt = "merging" /\ done' = S /\ wt' = IF S = Units THEN "merged" ELSE "ready"
        /\ UNCHANGED <<up, crashes, request, uploading, upload, asset, queued, files, stray, escaped,
                      trunk, intent, processed, mergeOp, discarding, settled, late>>
    BY <1>5 DEF Assets!EndMerge
  <2>5. Assets!TypeOK'
    BY <2>2, <2>3, <2>4 DEF Assets!TypeOK
  <2>6. ReviewInv'
    BY <2>2, <2>3, <2>4 DEF ReviewInv, Answers, Settling, Ended, Assets!TypeOK
  <2>7. ~processed
    BY <2>4 DEF ReviewInv, Ended
  <2> QED
    BY <2>4, <2>5, <2>6, <2>7, Reviewing
<1>6. ASSUME NEW A \in SUBSET Units, Assets!MergeStopsEarly(m, A) PROVE AssetsInv'
  <2>1. Assets!TypeOK'
    BY <1>6, <1>b, LocalAreUnits
      DEF Assets!MergeStopsEarly, Assets!Activate, Assets!ToActivate, Assets!TypeOK
  <2>2. ReviewInv'
    BY <1>6, <1>a, <1>b DEF Assets!MergeStopsEarly
  <2> QED
    BY <1>6, <2>1, <2>2, Reviewing DEF Assets!MergeStopsEarly, Assets!Activate
<1>d. ASSUME processed' = processed \/ processed' = Assets!Processes(merging[m].saw),
             merging[m].at = "answered", merging' = [merging EXCEPT ![m] = Assets!NoMerge],
             UNCHANGED <<wt, done, discarding>>, settled' = settled \/ wt # "draft",
             wt = "none" => settled' = settled
      PROVE  ReviewInv'
  BY <1>b, <1>d DEF ReviewInv, Answers, Settling, Ended, Assets!TypeOK, Assets!Processes
<1>7. CASE Assets!MergeEnds(m)
  <2>1. PICK S : S = merging[m].saw
    OBVIOUS
  <2>2. S \in SUBSET Units
    BY <2>1, <1>c DEF Assets!MergeRequests
  <2>3. /\ merging[m].at = "answered" /\ Assets!CanPublish(S) /\ Assets!Activate(Assets!ToActivate(S))
        /\ Assets!PublishWorktreeAssets(S) /\ processed' = Assets!Processes(S) /\ Assets!Settle(m, S)
        /\ UNCHANGED <<Assets!memory, request, uploading, upload, queued, Assets!disk, wt, done,
                      discarding, late>>
    BY <1>7, <2>1 DEF Assets!MergeEnds
  <2>4. Assets!TypeOK'
    BY <2>2, <2>3, <1>b, LocalAreUnits
      DEF Assets!TypeOK, Assets!Settle, Assets!Activate, Assets!ToActivate, Assets!Processes,
        Assets!PublishWorktreeAssets
  <2>5. wt # "none"
    BY <2>3 DEF ReviewInv, Answers
  <2>6. ReviewInv'
    BY <2>1, <2>3, <2>5, <1>d DEF Assets!Settle
  <2> QED
    BY <2>1, <2>2, <2>3, <2>4, <2>6, PublishingMerged DEF Assets!Settle
<1>8. CASE Assets!MergeStopsLate(m)
  <2>1. PICK S : S = merging[m].saw
    OBVIOUS
  <2>2. S \in SUBSET Units
    BY <2>1, <1>c DEF Assets!MergeRequests
  <2>3. /\ merging[m].at = "answered" /\ Assets!CanPublish(S) /\ Assets!Activate(Assets!ToActivate(S))
        /\ Assets!PublishWorktreeAssets(S) /\ processed' \in {processed, Assets!Processes(S)}
        /\ merging' = [merging EXCEPT ![m] = Assets!NoMerge]
        /\ UNCHANGED <<Assets!memory, request, uploading, upload, queued, Assets!disk, wt, done, mergeOp,
                      discarding, settled, late>>
    BY <1>8, <2>1 DEF Assets!MergeStopsLate
  <2>4. Assets!TypeOK'
    BY <2>2, <2>3, <1>b, LocalAreUnits
      DEF Assets!TypeOK, Assets!Activate, Assets!ToActivate, Assets!Processes,
        Assets!PublishWorktreeAssets
  <2>5. ReviewInv'
    BY <2>1, <2>3, <1>d
  <2> QED
    BY <2>1, <2>2, <2>3, <2>4, <2>5, PublishingMerged
<1> QED
  BY <1>1, <1>2, <1>3, <1>4, <1>5, <1>6, <1>7, <1>8

(* A removal takes the Unit's trunk assets with it.                        *)
LEMMA RemovalKeeps ==
  ASSUME AssetsInv, NEW t \in Units, Assets!RemoveUnit(t)
  PROVE  AssetsInv'
BY DEF Assets!RemoveUnit, Assets!TrunkAssets, AssetsInv, StoreInv, ReviewInv, Assets!TypeOK,
  Accounted, Exclusive, InTrunk, Writing, Astray, AtStart, Answers, Settling, Ended,
  MergedImagesReachTrunk, Assets!MergedImagesReachTrunk, Assets!Requests, Assets!memory,
  Assets!rows, Assets!disk, Assets!spaces, Assets!service, Assets!reviews

LEMMA AssetsRest ==
  ASSUME AssetsInv, UNCHANGED Assets!vars
  PROVE  AssetsInv'
BY DEF Assets!vars, AssetsInv, StoreInv, ReviewInv, Assets!TypeOK, Accounted, Exclusive, InTrunk,
  Writing, Astray, AtStart, Answers, Settling, Ended, MergedImagesReachTrunk,
  Assets!MergedImagesReachTrunk, Assets!memory, Assets!rows, Assets!disk, Assets!spaces,
  Assets!service, Assets!reviews

(* Uploads, assets, objects and merges agree in every reachable state,     *)
(* over any number of crashes.                                             *)
THEOREM AssetsInvariant ==
  Assets!Spec => []AssetsInv
<1>1. Assets!Init => AssetsInv
  <2> SUFFICES ASSUME Assets!Init PROVE AssetsInv
    OBVIOUS
  <2>1. merging \in [Merges -> Assets!MergeRequests] /\ \A m \in Merges : merging[m] = Assets!NoMerge
    BY DEF Assets!Init, Assets!NoMerge, Assets!MergeRequests
  <2>2. Assets!TypeOK
    <3>1. up \in BOOLEAN /\ crashes \in 0..MaxCrashes
      BY NumbersAreNatural DEF Assets!Init
    <3>2. /\ request \in [Uploads -> Assets!Requests]
          /\ uploading \in [Uploads -> {"off", "asked", "putting"}]
          /\ upload \in [Uploads -> {"none", "receiving", "stored"}]
          /\ asset \in [Uploads -> {"none", "trunk", "worktree"}]
      BY DEF Assets!Init
    <3>3. /\ intent \in [Local -> {"open", "activated", "discarded"}]
          /\ mergeOp \in [Merges -> {"none", "open", "completed"}]
      BY DEF Assets!Init
    <3> QED
      BY <2>1, <3>1, <3>2, <3>3 DEF Assets!Init, Assets!TypeOK
  <2>3. StoreInv /\ MergedImagesReachTrunk
    BY DEF Assets!Init, StoreInv, Accounted, Exclusive, InTrunk, Writing, Astray, AtStart,
      MergedImagesReachTrunk, Assets!MergedImagesReachTrunk
  <2>4. ReviewInv
    BY <2>1 DEF Assets!Init, Assets!NoMerge, ReviewInv, Answers, Settling, Ended
  <2> QED
    BY <2>2, <2>3, <2>4 DEF AssetsInv
<1>2. AssetsInv /\ [Assets!Next]_Assets!vars => AssetsInv'
  BY UploadsKeep, ProcessKeeps, WorktreesKeep, MergesKeep, RemovalKeeps, AssetsRest DEF Assets!Next
<1> QED
  BY <1>1, <1>2, PTL DEF Assets!Spec

(* EveryFileIsOwned: whatever crashed or left when, an object has one owner*)
(* and an asset has its object and, in the trunk, its Unit.                *)
THEOREM FilesOwned ==
  Assets!Spec => []EveryFileIsOwned
<1>1. AssetsInv => EveryFileIsOwned
  BY DEF AssetsInv, StoreInv, Assets!TypeOK, Accounted, Exclusive, InTrunk, EveryFileIsOwned,
    Assets!EveryFileIsOwned, Assets!Owners
<1>2. Assets!Spec => []AssetsInv
  BY AssetsInvariant
<1> QED
  BY <1>1, <1>2, PTL

(* MergedImagesReachTrunk over partial merges, reopened drafts, retries.   *)
THEOREM MergePublishes ==
  Assets!Spec => []MergedImagesReachTrunk
<1>1. AssetsInv => MergedImagesReachTrunk
  BY DEF AssetsInv
<1>2. Assets!Spec => []AssetsInv
  BY AssetsInvariant
<1> QED
  BY <1>1, <1>2, PTL

-----------------------------------------------------------------------------
(***************************************************************************)
(* A code that signed in or was replaced never signs in again, for any     *)
(* requests, logins, limits and lengths of time.                           *)
(*                                                                         *)
(* The property speaks of a login at its last step, when it may hold a row *)
(* it read long ago.  What makes it true is the row at that moment, so the *)
(* invariant says of every spent code that its row is used or gone (Inert),*)
(* and that it cannot come back: only a request still hashing writes a     *)
(* fresh row, and a code with a row, or a spent one, is past that       *)
(* (PastHashing).                                                          *)
(***************************************************************************)

(* The numbers decide nothing: that attempts and times are numbers is all  *)
(* the proof needs of them.                                                *)
CodeRow == [at : Nat, attempts : Nat, used : BOOLEAN, present : BOOLEAN]

CodeTypes ==
  /\ codeNow \in Nat /\ asked \in [Codes -> Nat]
  /\ codeRow \in [Codes -> CodeRow]
  /\ codeStage \in [Codes -> {"idle", "hashing", "sending", "sent", "failed", "lost"}]
  /\ login \in [Logins -> [found : Codes \cup {Nothing}, typed : Codes \cup {Nothing},
                           stage : {"idle", "verifying"}]]
  /\ spent \subseteq Codes
  /\ uses \in [Codes -> Nat]

Inert == \A c \in spent : codeRow[c].used \/ ~codeRow[c].present
PastHashing == \A c \in Codes : codeRow[c].present \/ c \in spent => codeStage[c] \notin {"idle", "hashing"}
Verifies == \A l \in Logins : login[l].stage = "verifying" => login[l].found \in Codes

CodeInv == CodeTypes /\ Inert /\ PastHashing /\ Verifies

(* Codes, their rows and the logins under way agree in every reachable     *)
(* state.                                                                  *)
THEOREM CodesInvariant ==
  Code!Spec => []CodeInv
<1> USE NumbersAreNatural DEF CodeInv, CodeTypes, Inert, PastHashing, Verifies, CodeRow
<1>1. Code!Init => CodeInv
  BY DEF Code!Init, Code!NoRow, Code!Idle
<1>2. CodeInv /\ [Code!Next]_Code!vars => CodeInv'
  <2> SUFFICES ASSUME CodeInv, [Code!Next]_Code!vars PROVE CodeInv'
    OBVIOUS
  <2>1. ASSUME NEW c \in Codes, Code!Request(c) PROVE CodeInv'
    <3>1. Code!NoRow \in CodeRow /\ Code!NoRow.used /\ ~Code!NoRow.present
      BY DEF Code!NoRow
    <3>2. codeRow' = [d \in Codes |-> IF Code!Recent(d) THEN codeRow[d] ELSE Code!NoRow]
      BY <2>1 DEF Code!Request
    <3>3. codeRow' \in [Codes -> CodeRow]
          /\ \A d \in Codes : codeRow'[d] \in {codeRow[d], Code!NoRow}
      BY <3>1, <3>2
    <3>4. /\ UNCHANGED <<codeNow, login, spent, uses>> /\ codeStage[c] = "idle"
          /\ codeStage' \in {codeStage, [codeStage EXCEPT ![c] = "hashing"]}
          /\ asked' \in {asked, [asked EXCEPT ![c] = codeNow]}
      BY <2>1 DEF Code!Request
    <3>5. Code!NoRow.used /\ \A d \in Codes : codeRow'[d].present => codeRow[d].present
      BY <3>1, <3>3
    <3>6. CodeTypes'
      BY <3>3, <3>4
    <3>7. Inert'
      BY <3>1, <3>3, <3>4
    <3>8. PastHashing'
      BY <3>4, <3>5
    <3> QED
      BY <3>4, <3>6, <3>7, <3>8
  <2>2. ASSUME NEW c \in Codes, Code!Insert(c) PROVE CodeInv'
    BY <2>2 DEF Code!Insert
  <2>3. ASSUME NEW c \in Codes, Code!Sent(c) PROVE CodeInv'
    <3>1. codeRow' = Code!ConsumeOthers(c) /\ Code!ConsumeOthers(c) \in [Codes -> CodeRow]
      BY <2>3 DEF Code!Sent, Code!ConsumeOthers
    <3>2. \A d \in Codes : codeRow'[d].present = codeRow[d].present
      BY <3>1 DEF Code!ConsumeOthers
    <3>3. \A d \in Codes \ {c} : codeRow'[d].used
      BY <3>1 DEF Code!ConsumeOthers
    <3>4. codeRow'[c] = codeRow[c]
      BY <3>1 DEF Code!ConsumeOthers
    <3>5. spent' = spent \cup {d \in Codes \ {c} : codeRow[d].present}
      BY <2>3 DEF Code!Sent, Code!Present
    <3>6. CodeTypes'
      BY <2>3, <3>1, <3>5 DEF Code!Sent
    <3>7. Inert'
      BY <3>2, <3>3, <3>4, <3>5
    <3>8. PastHashing' /\ Verifies'
      BY <2>3, <3>2, <3>5 DEF Code!Sent
    <3> QED
      BY <3>6, <3>7, <3>8
  <2>4. ASSUME NEW c \in Codes, Code!SendFails(c) PROVE CodeInv'
    BY <2>4 DEF Code!SendFails, Code!NoRow
  <2>5. ASSUME NEW l \in Logins, NEW c \in Codes, NEW typed \in Code!Typable, Code!BeginLogin(l, c, typed)
        PROVE  CodeInv'
    <3>1. typed \in Codes \cup {Nothing}
      BY DEF Code!Typable
    <3>2. CASE codeRow[c].attempts >= MaxAttempts
      <4>1. codeRow' = [codeRow EXCEPT ![c] = Code!NoRow] /\ UNCHANGED <<login, codeNow, codeStage, asked, spent, uses>>
        BY <2>5, <3>2 DEF Code!BeginLogin
      <4> QED
        BY <4>1 DEF Code!NoRow
    <3>3. CASE ~(codeRow[c].attempts >= MaxAttempts)
      <4>1. /\ login' = [login EXCEPT ![l] = [found |-> c, typed |-> typed, stage |-> "verifying"]]
            /\ UNCHANGED <<codeRow, codeNow, codeStage, asked, spent, uses>>
        BY <2>5, <3>3 DEF Code!BeginLogin
      <4> QED
        BY <3>1, <4>1
    <3> QED
      BY <3>2, <3>3
  <2>6. ASSUME NEW l \in Logins, Code!WrongCode(l) PROVE CodeInv'
    <3>1. PICK c \in Codes : login[l].found = c /\ login[l].stage = "verifying"
      BY <2>6 DEF Code!WrongCode
    <3>2. CASE codeRow[c].present
      <4>1. codeRow' = [codeRow EXCEPT ![c].attempts = @ + 1]
        BY <2>6, <3>1, <3>2 DEF Code!WrongCode
      <4>2. codeRow' \in [Codes -> CodeRow]
        BY <4>1
      <4>3. \A d \in Codes : codeRow'[d].present = codeRow[d].present /\ codeRow'[d].used = codeRow[d].used
        BY <4>1
      <4> QED
        BY <2>6, <4>2, <4>3 DEF Code!WrongCode, Code!Idle
    <3>3. CASE ~codeRow[c].present
      <4>1. codeRow' = codeRow
        BY <2>6, <3>1, <3>3 DEF Code!WrongCode
      <4> QED
        BY <2>6, <4>1 DEF Code!WrongCode, Code!Idle
    <3> QED
      BY <3>2, <3>3
  <2>7. ASSUME NEW l \in Logins, Code!RightCode(l) PROVE CodeInv'
    <3>1. PICK c \in Codes : login[l].found = c
      BY <2>7 DEF Code!RightCode
    <3>2. CASE Code!Consumes(c)
      <4>1. codeRow' = [Code!ConsumeOthers(c) EXCEPT ![c].used = TRUE]
        BY <2>7, <3>1, <3>2 DEF Code!RightCode
      <4>2. codeRow' \in [Codes -> CodeRow]
        <5>1. Code!ConsumeOthers(c) \in [Codes -> CodeRow]
          BY DEF Code!ConsumeOthers
        <5> QED
          BY <4>1, <5>1
      <4>3. \A d \in Codes : codeRow'[d].present = codeRow[d].present /\ codeRow'[d].used
        BY <4>1 DEF Code!ConsumeOthers
      <4>4. spent' = spent \cup Code!Present /\ uses' = [uses EXCEPT ![c] = @ + 1]
        BY <2>7, <3>1, <3>2 DEF Code!RightCode
      <4> QED
        BY <2>7, <4>2, <4>3, <4>4 DEF Code!RightCode, Code!Present, Code!Idle
    <3>3. CASE ~Code!Consumes(c)
      BY <2>7, <3>1, <3>3 DEF Code!RightCode, Code!Idle
    <3> QED
      BY <3>2, <3>3
  <2>8. CASE Code!Crash
    BY <2>8 DEF Code!Crash, Code!Idle
  <2>9. CASE Code!Tick
    BY <2>9 DEF Code!Tick
  <2>10. CASE UNCHANGED Code!vars
    BY <2>10 DEF Code!vars
  <2> QED
    BY <2>1, <2>2, <2>3, <2>4, <2>5, <2>6, <2>7, <2>8, <2>9, <2>10 DEF Code!Next
<1> QED
  BY <1>1, <1>2, PTL DEF Code!Spec

(* SpentNeverSignsIn for any requests and logins, over any restarts.       *)
THEOREM SpentStaysSpent ==
  Code!Spec => SpentNeverSignsIn
<1> DEFINE Keeps == \A c \in spent : uses'[c] = uses[c]
<1>1. CodeInv /\ [Code!Next]_Code!vars => [Keeps]_Code!vars
  <2> SUFFICES ASSUME CodeInv, Code!Next PROVE Keeps
    OBVIOUS
  <2>1. ASSUME NEW l \in Logins, Code!RightCode(l) PROVE Keeps
    <3>1. login[l].found \in Codes
      BY <2>1 DEF Code!RightCode, CodeInv, Verifies
    <3>2. CASE Code!Consumes(login[l].found)
      <4>1. login[l].found \notin spent
        BY <3>2 DEF Code!Consumes, CodeInv, Inert
      <4> QED
        BY <2>1, <3>1, <3>2, <4>1 DEF Code!RightCode, CodeInv, CodeTypes
    <3>3. CASE ~Code!Consumes(login[l].found)
      BY <2>1, <3>3 DEF Code!RightCode
    <3> QED
      BY <3>2, <3>3
  <2>2. ASSUME UNCHANGED uses PROVE Keeps
    BY <2>2
  <2> QED
    BY <2>1, <2>2
      DEF Code!Next, Code!Request, Code!Insert, Code!Sent, Code!SendFails, Code!BeginLogin,
      Code!WrongCode, Code!Crash, Code!Tick
<1>2. Code!Spec => []CodeInv
  BY CodesInvariant
<1> QED
  BY <1>1, <1>2, PTL DEF Code!Spec, SpentNeverSignsIn, Code!SpentNeverSignsIn

-----------------------------------------------------------------------------
(***************************************************************************)
(* Issues: the timeline replays to the row, and a number names one issue   *)
(* or worktree for good.                                                   *)
(*                                                                         *)
(* The property looks for the last event of a kind; the invariant keeps,   *)
(* for title, state and each related thing, that there is a last one and   *)
(* what it says, which one more update can extend (HistoryReplays). A new  *)
(* number is free because the taken ones have a greatest, which it is      *)
(* above (NumbersApart).                                                   *)
(***************************************************************************)

States == {"open", "closed"}
Causes == Issue!Reasons \cup {""}
Events ==
  [kind : {"renamed"}, what : [from : Titles, to : Titles]]
    \cup [kind : {"closed", "reopened"}, what : Issue!Reasons \cup {""}]
    \cup [kind : {"add", "remove"}, what : Issue!Things]
Rows == [number : Nat, title : Titles \cup {""}, state : {"open", "closed"},
         reason : Issue!Reasons \cup {""}, related : SUBSET Issue!Things]

IssueTypes ==
  /\ issue \in [IssueIds -> Rows] /\ events \in [IssueIds -> Seq(SUBSET Events)]
  /\ worktree \in [Worktrees -> Nat]
  /\ there \subseteq Issue!Things /\ deleted \subseteq Issue!Things
  /\ \A i \in IssueIds : IF Issue!Exists(i) THEN issue[i].title \in Titles ELSE issue[i] = Issue!NoIssue /\ events[i] = << >>

(* Numbers.  *)
Numbers == {issue[i].number : i \in IssueIds} \cup {worktree[w] : w \in Worktrees}
IsGreatest(S, x) == x \in S /\ \A y \in S : y <= x
NumbersApart ==
  /\ Numbers # {} => \E x \in Numbers : IsGreatest(Numbers, x)
  /\ \A i \in IssueIds : Issue!Exists(i) =>
       /\ \A j \in IssueIds \ {i} : issue[j].number # issue[i].number
       /\ \A w \in Worktrees : worktree[w] # issue[i].number

(* The updates of a history that made one of the events E.                 *)
Made(h, E) == {k \in DOMAIN h : h[k] \cap E # {}}

Renamings == {e \in Events : e.kind = "renamed"}
Turns == {e \in Events : e.kind \in {"closed", "reopened"}}
AddedOrRemoved(t) == {e \in Events : e.what = t}

TitleReplays(h, title) ==
  /\ Made(h, Renamings) # {} =>
       \E k \in Made(h, Renamings) : /\ IsGreatest(Made(h, Renamings), k)
                                     /\ {e.what.to : e \in h[k] \cap Renamings} = {title}
  /\ \A k, l \in Made(h, Renamings) :
       k < l /\ (\A m \in Made(h, Renamings) : m <= k \/ m >= l)
         => {e.what.to : e \in h[k] \cap Renamings} = {e.what.from : e \in h[l] \cap Renamings}
StateReplays(h, state, reason) ==
  IF Made(h, Turns) = {} THEN state = "open"
    ELSE \E k \in Made(h, Turns) :
           /\ IsGreatest(Made(h, Turns), k)
           /\ h[k] \cap Turns =
                {[kind |-> IF state = "open" THEN "reopened" ELSE "closed", what |-> reason]}
ThingReplays(h, t, related) ==
  IF Made(h, AddedOrRemoved(t)) = {} THEN t \notin related
    ELSE \E k \in Made(h, AddedOrRemoved(t)) :
           /\ IsGreatest(Made(h, AddedOrRemoved(t)), k)
           /\ h[k] \cap AddedOrRemoved(t) =
                {[kind |-> IF t \in related THEN "add" ELSE "remove", what |-> t]}

Replays(h, row, things) ==
  /\ TitleReplays(h, row.title)
  /\ StateReplays(h, row.state, row.reason)
  /\ row.state = "open" => row.reason = ""
  /\ \A t \in things : ThingReplays(h, t, row.related)

HistoryReplays ==
  \A i \in IssueIds : Issue!Exists(i) => Replays(events[i], issue[i], Issue!Things \ deleted)

IssueInv == IssueTypes /\ NumbersApart /\ HistoryReplays

(* The greatest element is what Max returns.                               *)
LEMMA GreatestIsMax ==
  ASSUME NEW S \in SUBSET Nat, NEW x, IsGreatest(S, x)
  PROVE  Issue!Max(S) = x
<1>1. \A y \in S : (\A z \in S : y >= z) => y = x
  BY DEF IsGreatest
<1>2. x \in S /\ \A z \in S : x >= z
  BY DEF IsGreatest
<1> QED
  BY <1>1, <1>2 DEF Issue!Max

(* The next number is above every number taken.                            *)
LEMMA NextIsNew ==
  ASSUME IssueTypes, NumbersApart, Numbers # {}
  PROVE  /\ Issue!NextNumber \in Nat \ {0}
         /\ \A y \in Numbers : y < Issue!NextNumber
<1>1. Numbers \in SUBSET Nat
  <2>1. \A i \in IssueIds : issue[i].number \in Nat
    BY DEF IssueTypes, Rows
  <2> QED
    BY <2>1 DEF IssueTypes, Numbers
<1>2. PICK x \in Numbers : IsGreatest(Numbers, x)
  BY DEF NumbersApart
<1>3. Issue!NextNumber = 1 + x
  BY <1>1, <1>2, GreatestIsMax DEF Issue!NextNumber, Numbers
<1> QED
  BY <1>1, <1>2, <1>3 DEF IsGreatest

Extend(h, new) == IF new = {} THEN h ELSE Append(h, new)

(* An update adds its events at the end of the history. *)
LEMMA HistoryGrows ==
  ASSUME NEW h \in Seq(SUBSET Events), NEW new \in SUBSET Events, NEW g, g = Extend(h, new)
  PROVE  /\ g \in Seq(SUBSET Events)
         /\ DOMAIN h \subseteq Nat /\ DOMAIN g \subseteq Nat
         /\ \A k \in DOMAIN h : k \in DOMAIN g /\ g[k] = h[k] /\ k <= Len(h)
         /\ \A k \in DOMAIN g : k \in DOMAIN h \/ (new # {} /\ k = Len(h) + 1 /\ g[k] = new)
         /\ new # {} => Len(h) + 1 \in DOMAIN g /\ g[Len(h) + 1] = new
         /\ Len(h) \in Nat
BY AppendProperties, LenProperties DEF Extend

(* An update is the last one that made an event of a kind, or made none of *)
(* it.                                                                     *)
LEMMA MadeGrows ==
  ASSUME NEW h \in Seq(SUBSET Events), NEW new \in SUBSET Events, NEW g, g = Extend(h, new), NEW E
  PROVE  /\ Made(h, E) \subseteq Nat /\ Len(h) + 1 \in Nat
         /\ \A k \in Made(h, E) : g[k] = h[k] /\ k < Len(h) + 1
         /\ new \cap E = {} => Made(g, E) = Made(h, E)
         /\ new \cap E # {} => /\ Made(g, E) = Made(h, E) \cup {Len(h) + 1}
                               /\ g[Len(h) + 1] = new
                               /\ IsGreatest(Made(g, E), Len(h) + 1)
<1>1. /\ DOMAIN h \subseteq Nat /\ DOMAIN g \subseteq Nat /\ Len(h) \in Nat
      /\ \A k \in DOMAIN h : k \in DOMAIN g /\ g[k] = h[k] /\ k <= Len(h)
      /\ \A k \in DOMAIN g : k \in DOMAIN h \/ (new # {} /\ k = Len(h) + 1 /\ g[k] = new)
      /\ new # {} => Len(h) + 1 \in DOMAIN g /\ g[Len(h) + 1] = new
  BY HistoryGrows
<1>2. /\ Made(h, E) \subseteq Nat /\ Len(h) + 1 \in Nat
      /\ \A k \in Made(h, E) : g[k] = h[k] /\ k < Len(h) + 1
  BY <1>1 DEF Made
<1>3. new \cap E = {} => Made(g, E) = Made(h, E)
  BY <1>1 DEF Made
<1>4. ASSUME new \cap E # {}
      PROVE  Made(g, E) = Made(h, E) \cup {Len(h) + 1} /\ g[Len(h) + 1] = new
  <2>1. new # {} /\ g[Len(h) + 1] = new /\ Len(h) + 1 \in DOMAIN g
    BY <1>1, <1>4
  <2>2. Len(h) + 1 \in Made(g, E)
    BY <1>4, <2>1 DEF Made
  <2>3. \A k \in Made(g, E) : k \in Made(h, E) \/ k = Len(h) + 1
    BY <1>1 DEF Made
  <2>4. \A k \in Made(h, E) : k \in Made(g, E)
    BY <1>1 DEF Made
  <2> QED
    BY <2>1, <2>2, <2>3, <2>4
<1>5. ASSUME new \cap E # {} PROVE IsGreatest(Made(g, E), Len(h) + 1)
  <2> HIDE DEF Made
  <2>1. Made(g, E) = Made(h, E) \cup {Len(h) + 1}
    BY <1>4, <1>5
  <2> QED
    BY <1>2, <2>1 DEF IsGreatest
<1> QED
  BY <1>2, <1>3, <1>4, <1>5

(* An update keeps the chain of renamings: each one starts from the title  *)
(* that the one before it led to.                                          *)
LEMMA TitleKept ==
  ASSUME NEW h \in Seq(SUBSET Events), NEW new \in SUBSET Events, NEW g, g = Extend(h, new),
         NEW row, NEW title, new \cap Renamings = Issue!Renamed(row, title), TitleReplays(h, row.title)
  PROVE  TitleReplays(g, title)
<1> DEFINE M == Made(h, Renamings)
           N == Made(g, Renamings)
           n == Len(h) + 1
           to(f, k) == {e.what.to : e \in f[k] \cap Renamings}
           from(f, k) == {e.what.from : e \in f[k] \cap Renamings}
<1>1. /\ M # {} => \E k \in M : IsGreatest(M, k) /\ to(h, k) = {row.title}
      /\ \A k, l \in M : k < l /\ (\A m \in M : m <= k \/ m >= l) => to(h, k) = from(h, l)
  BY DEF TitleReplays
<1>2. /\ M \subseteq Nat /\ n \in Nat
      /\ \A k \in M : g[k] = h[k] /\ k < n
      /\ new \cap Renamings = {} => N = M
      /\ new \cap Renamings # {} => N = M \cup {n} /\ g[n] = new /\ IsGreatest(N, n)
  <2> HIDE DEF M, N, n
  <2>1. /\ Made(h, Renamings) \subseteq Nat /\ Len(h) + 1 \in Nat
        /\ \A k \in Made(h, Renamings) : g[k] = h[k] /\ k < Len(h) + 1
    BY MadeGrows
  <2>2. new \cap Renamings = {} => Made(g, Renamings) = Made(h, Renamings)
    BY MadeGrows
  <2>3. new \cap Renamings # {} => /\ Made(g, Renamings) = Made(h, Renamings) \cup {Len(h) + 1}
                                  /\ g[Len(h) + 1] = new
                                  /\ IsGreatest(Made(g, Renamings), Len(h) + 1)
    BY MadeGrows
  <2> QED
    BY <2>1, <2>2, <2>3 DEF M, N, n
<1>3. \A k \in M : to(g, k) = to(h, k) /\ from(g, k) = from(h, k)
  BY <1>2
<1> SUFFICES /\ N # {} => \E k \in N : IsGreatest(N, k) /\ to(g, k) = {title}
             /\ \A k, l \in N : k < l /\ (\A m \in N : m <= k \/ m >= l) => to(g, k) = from(g, l)
  BY DEF TitleReplays
<1>4. CASE title = row.title
  <2>1. N = M
    BY <1>2, <1>4 DEF Issue!Renamed
  <2> HIDE DEF M, N, to, from
  <2> QED
    BY <1>1, <1>3, <1>4, <2>1
<1>5. CASE title # row.title
  <2> DEFINE r == [kind |-> "renamed", what |-> [from |-> row.title, to |-> title]]
  <2>1. new \cap Renamings = {r}
    BY <1>5 DEF Issue!Renamed
  <2>2. N = M \cup {n} /\ IsGreatest(N, n) /\ g[n] = new
    BY <1>2, <2>1
  <2>3. to(g, n) = {title} /\ from(g, n) = {row.title}
    <3>1. g[n] \cap Renamings = {r}
      BY <2>1, <2>2
    <3>2. r.what.to = title /\ r.what.from = row.title
      OBVIOUS
    <3>3. to(g, n) = {e.what.to : e \in {r}} /\ from(g, n) = {e.what.from : e \in {r}}
      BY <3>1
    <3> HIDE DEF r, to, from
    <3> QED
      BY <3>2, <3>3
  <2> HIDE DEF M, N, to, from, n
  <2>4. ASSUME NEW k \in N, NEW l \in N, k < l, \A m \in N : m <= k \/ m >= l
        PROVE  to(g, k) = from(g, l)
    <3>1. k \in M /\ k \in Nat
      BY <1>2, <2>2, <2>4
    <3>2. CASE l \in M
      BY <1>1, <1>3, <2>2, <2>4, <3>1, <3>2
    <3>3. CASE l = n
      <4>1. \A m \in M : m <= k
        BY <1>2, <2>2, <2>4, <3>3
      <4>2. PICK x \in M : IsGreatest(M, x) /\ to(h, x) = {row.title}
        BY <1>1, <3>1
      <4>3. x = k
        BY <1>2, <3>1, <4>1, <4>2 DEF IsGreatest
      <4> QED
        BY <1>3, <2>3, <3>1, <3>3, <4>2, <4>3
    <3> QED
      BY <2>2, <3>2, <3>3
  <2> QED
    BY <2>2, <2>3, <2>4
<1> QED
  BY <1>4, <1>5

StateOf(row, state) == IF state = "closed" \/ Issue!Reopens(row, state) THEN state ELSE row.state
ReasonOf(row, state, reason) ==
  IF state = "closed" THEN reason ELSE IF Issue!Reopens(row, state) THEN "" ELSE row.reason
(* What an update makes of a row.                                          *)
Updated(row, title, state, reason, wanted) ==
  [row EXCEPT !.title = title, !.related = wanted,
              !.state = StateOf(row, state), !.reason = ReasonOf(row, state, reason)]

(* An update keeps the state and the reason that the last closing or       *)
(* reopening names.                                                        *)
LEMMA StateKept ==
  ASSUME NEW h \in Seq(SUBSET Events), NEW new \in SUBSET Events,
         NEW row \in Rows, NEW state \in States, NEW reason,
         row.state = "open" => row.reason = "",
         new \cap Turns = Issue!Restated(row, state, reason), StateReplays(h, row.state, row.reason)
  PROVE  /\ StateReplays(Extend(h, new), StateOf(row, state), ReasonOf(row, state, reason))
         /\ StateOf(row, state) = "open" => ReasonOf(row, state, reason) = ""
<1> DEFINE s == StateOf(row, state)
           z == ReasonOf(row, state, reason)
           g == Extend(h, new)
           M == Made(h, Turns)
           N == Made(g, Turns)
<1>0. h \in Seq(SUBSET Events) /\ new \in SUBSET Events
  OBVIOUS
<1>1. /\ \A k \in M : g[k] = h[k]
      /\ new \cap Turns = {} => N = M
      /\ new \cap Turns # {} => N = M \cup {Len(h) + 1} /\ g[Len(h) + 1] = new
                              /\ IsGreatest(N, Len(h) + 1)
  BY ONLY <1>0, MadeGrows
<1>2. row.state \in States
  BY DEF Rows, States
<1>4. CASE new \cap Turns = {}
  <2>1. s = row.state /\ z = row.reason
    BY <1>2, <1>4 DEF Issue!Restated, Issue!Closes, Issue!Reopens, States, StateOf, ReasonOf
  <2>2. N = M /\ \A k \in M : g[k] = h[k]
    BY <1>1, <1>4
  <2>3. StateReplays(Extend(h, new), row.state, row.reason)
    BY <2>2 DEF StateReplays
  <2> QED
    BY <2>1, <2>3
<1>5. CASE new \cap Turns # {}
  <2>1. new \cap Turns = {[kind |-> IF s = "open" THEN "reopened" ELSE "closed", what |-> z]}
        /\ (s = "open" => z = "")
    BY <1>2, <1>5 DEF Issue!Restated, Issue!Closes, Issue!Reopens, States, StateOf, ReasonOf
  <2>2. Len(h) + 1 \in N /\ g[Len(h) + 1] = new /\ IsGreatest(N, Len(h) + 1) /\ N # {}
    BY <1>1, <1>5
  <2> QED
    BY <2>1, <2>2 DEF StateReplays
<1> QED
  BY <1>4, <1>5, <1>2, <1>0

(* An update keeps, for each related thing, whether it was added or        *)
(* removed last.                                                           *)
LEMMA ThingKept ==
  ASSUME NEW h \in Seq(SUBSET Events), NEW new \in SUBSET Events, NEW g, g = Extend(h, new),
         NEW have, NEW wanted, NEW t,
         new \cap AddedOrRemoved(t) = {e \in Issue!Relate(have, wanted) : e.what = t},
         ThingReplays(h, t, have)
  PROVE  ThingReplays(g, t, wanted)
<1> DEFINE M == Made(h, AddedOrRemoved(t))
           N == Made(g, AddedOrRemoved(t))
           new_t == new \cap AddedOrRemoved(t)
<1>1. /\ \A k \in M : g[k] = h[k]
      /\ new_t = {} => N = M
      /\ new_t # {} => N = M \cup {Len(h) + 1} /\ g[Len(h) + 1] = new
                      /\ IsGreatest(N, Len(h) + 1)
  BY MadeGrows
<1>2. CASE t \in have <=> t \in wanted
  <2>1. new_t = {}
    BY <1>2 DEF Issue!Relate
  <2>2. N = M /\ \A k \in M : g[k] = h[k]
    BY <1>1, <2>1
  <2>3. ThingReplays(g, t, have)
    BY <2>2 DEF ThingReplays
  <2> QED
    BY <1>2, <2>3 DEF ThingReplays
<1>3. CASE ~(t \in have <=> t \in wanted)
  <2>1. new_t = {[kind |-> IF t \in wanted THEN "add" ELSE "remove", what |-> t]}
    BY <1>3 DEF Issue!Relate
  <2>2. Len(h) + 1 \in N /\ g[Len(h) + 1] = new /\ IsGreatest(N, Len(h) + 1) /\ N # {}
    BY <1>1, <2>1
  <2> QED
    BY <2>1, <2>2 DEF ThingReplays
<1> QED
  BY <1>2, <1>3

AllEvents(row, title, state, reason, wanted) ==
  Issue!Renamed(row, title) \cup Issue!Restated(row, state, reason) \cup Issue!Relate(row.related, wanted)

(* The events of an update come apart by what they are about.              *)
LEMMA EventsApart ==
  ASSUME NEW row \in Rows, row.title \in Titles, NEW title \in Titles,
         NEW state \in States, NEW reason \in Causes,
         NEW wanted \in SUBSET Issue!Things
  PROVE  /\ AllEvents(row, title, state, reason, wanted) \in SUBSET Events
         /\ AllEvents(row, title, state, reason, wanted) \cap Renamings = Issue!Renamed(row, title)
         /\ AllEvents(row, title, state, reason, wanted) \cap Turns = Issue!Restated(row, state, reason)
         /\ \A t \in Issue!Things :
              AllEvents(row, title, state, reason, wanted) \cap AddedOrRemoved(t) = {e \in Issue!Relate(row.related, wanted) : e.what = t}
<1> DEFINE new == AllEvents(row, title, state, reason, wanted)
<1>1. row.related \subseteq Issue!Things
  BY DEF Rows
<1>2. \A e \in Issue!Renamed(row, title) :
        e.kind = "renamed" /\ e \in Events /\ e.what \notin Issue!Things
  <2> DEFINE r == [kind |-> "renamed", what |-> [from |-> row.title, to |-> title]]
  <2>1. r.what = [from |-> row.title, to |-> title] /\ r.kind = "renamed"
    OBVIOUS
  <2>2. [from |-> row.title, to |-> title] \in [from : Titles, to : Titles]
    OBVIOUS
  <2>3. r \in [kind : {"renamed"}, what : [from : Titles, to : Titles]]
    BY <2>2
  <2>4. \A e \in Issue!Renamed(row, title) : e = r
    BY DEF Issue!Renamed
  <2> HIDE DEF r
  <2> QED
    BY <2>1, <2>2, <2>3, <2>4, ThingsAreApart DEF Events
<1>3. \A e \in Issue!Restated(row, state, reason) :
        e.kind \in {"closed", "reopened"} /\ e \in Events /\ e.what \notin Issue!Things
  <2>1. ASSUME NEW e \in Issue!Restated(row, state, reason)
        PROVE  \E k \in {"closed", "reopened"}, w \in Issue!Reasons \cup {""} : e = [kind |-> k, what |-> w]
    BY <2>1 DEF Issue!Restated, Causes
  <2>2. ASSUME NEW k \in {"closed", "reopened"}, NEW w \in Issue!Reasons \cup {""}
        PROVE  /\ [kind |-> k, what |-> w] \in [kind : {"closed", "reopened"}, what : Issue!Reasons \cup {""}]
               /\ [kind |-> k, what |-> w].kind = k /\ [kind |-> k, what |-> w].what = w
    OBVIOUS
  <2> SUFFICES ASSUME NEW e \in Issue!Restated(row, state, reason)
               PROVE  e.kind \in {"closed", "reopened"} /\ e \in Events /\ e.what \notin Issue!Things
    OBVIOUS
  <2>3. PICK k \in {"closed", "reopened"}, w \in Issue!Reasons \cup {""} : e = [kind |-> k, what |-> w]
    BY <2>1
  <2> QED
    BY <2>2, <2>3, ThingsAreApart DEF Events
<1>4. \A e \in Issue!Relate(row.related, wanted) :
        e.kind \in {"add", "remove"} /\ e \in Events
  <2>1. ASSUME NEW e \in Issue!Relate(row.related, wanted)
        PROVE  \E k \in {"add", "remove"}, w \in Issue!Things : e = [kind |-> k, what |-> w]
    BY <1>1, <2>1 DEF Issue!Relate
  <2>2. ASSUME NEW k \in {"add", "remove"}, NEW w \in Issue!Things
        PROVE  /\ [kind |-> k, what |-> w] \in [kind : {"add", "remove"}, what : Issue!Things]
               /\ [kind |-> k, what |-> w].kind = k
    OBVIOUS
  <2> SUFFICES ASSUME NEW e \in Issue!Relate(row.related, wanted)
               PROVE  e.kind \in {"add", "remove"} /\ e \in Events
    OBVIOUS
  <2>3. PICK k \in {"add", "remove"}, w \in Issue!Things : e = [kind |-> k, what |-> w]
    BY <2>1
  <2> QED
    BY <2>2, <2>3 DEF Events
<1>5. new = Issue!Renamed(row, title) \cup Issue!Restated(row, state, reason) \cup Issue!Relate(row.related, wanted)
  BY DEF AllEvents
<1> QED
  BY <1>2, <1>3, <1>4, <1>5 DEF Renamings, Turns, AddedOrRemoved

(* A history that replays the row still does after an update of both.      *)
LEMMA UpdateReplays ==
  ASSUME NEW h \in Seq(SUBSET Events), NEW row \in Rows, row.title \in Titles, NEW title \in Titles,
         NEW state \in States, NEW reason \in Causes,
         NEW wanted \in SUBSET Issue!Things,
         NEW things \in SUBSET Issue!Things, Replays(h, row, things)
  PROVE  /\ Extend(h, AllEvents(row, title, state, reason, wanted)) \in Seq(SUBSET Events)
         /\ Updated(row, title, state, reason, wanted) \in Rows
         /\ Updated(row, title, state, reason, wanted).number = row.number
         /\ Updated(row, title, state, reason, wanted).title = title
         /\ Replays(Extend(h, AllEvents(row, title, state, reason, wanted)),
                    Updated(row, title, state, reason, wanted), things)
<1> DEFINE new == AllEvents(row, title, state, reason, wanted)
           r == Updated(row, title, state, reason, wanted)
<1>0. /\ row \in Rows /\ row.title \in Titles /\ title \in Titles /\ wanted \in SUBSET Issue!Things
      /\ state \in States /\ reason \in Causes
      /\ new = AllEvents(row, title, state, reason, wanted)
      /\ r = Updated(row, title, state, reason, wanted)
  OBVIOUS
<1> HIDE DEF new, r
<1>1. /\ new \in SUBSET Events
      /\ new \cap Renamings = Issue!Renamed(row, title)
      /\ new \cap Turns = Issue!Restated(row, state, reason)
      /\ \A t \in Issue!Things :
           new \cap AddedOrRemoved(t) = {e \in Issue!Relate(row.related, wanted) : e.what = t}
  BY ONLY <1>0, EventsApart
<1>2. r \in Rows /\ r.title = title /\ r.number = row.number /\ r.related = wanted
  BY <1>0 DEF Updated, Rows, States, Causes, StateOf, ReasonOf, Issue!Reopens
<1>3. TitleReplays(Extend(h, new), title)
  BY <1>1, TitleKept DEF Replays
<1>4. StateReplays(Extend(h, new), r.state, r.reason) /\ (r.state = "open" => r.reason = "")
  <2>1. /\ row.state = "open" => row.reason = ""
        /\ StateReplays(h, row.state, row.reason) /\ h \in Seq(SUBSET Events)
    BY DEF Replays
  <2>2. new \in SUBSET Events /\ new \cap Turns = Issue!Restated(row, state, reason)
    BY <1>1
  <2>3. /\ StateReplays(Extend(h, new), StateOf(row, state), ReasonOf(row, state, reason))
        /\ StateOf(row, state) = "open" => ReasonOf(row, state, reason) = ""
    BY ONLY <1>0, <2>1, <2>2, StateKept
  <2>4. r.state = StateOf(row, state) /\ r.reason = ReasonOf(row, state, reason)
    BY <1>0 DEF Updated, Rows
  <2> QED
    BY <2>3, <2>4
<1>5. \A t \in things : ThingReplays(Extend(h, new), t, wanted)
  BY <1>1, ThingKept DEF Replays
<1>6. Extend(h, new) \in Seq(SUBSET Events)
  BY <1>1, HistoryGrows, Zenon
<1> QED
  BY <1>2, <1>3, <1>4, <1>5, <1>6 DEF Replays, new, r

-----------------------------------------------------------------------------
(* Rows with equal fields are equal.                                       *)
LEMMA RowsEqual ==
  ASSUME NEW a \in Rows, NEW b \in Rows, a.number = b.number, a.title = b.title,
         a.state = b.state, a.reason = b.reason, a.related = b.related
  PROVE  a = b
<1>1. ASSUME NEW x \in Rows
      PROVE  x = [number |-> x.number, title |-> x.title, state |-> x.state,
                  reason |-> x.reason, related |-> x.related]
  BY DEF Rows
<1> QED
  BY <1>1

(* A number that was just given is the greatest.                           *)
LEMMA NumberTaken ==
  ASSUME IssueTypes, NumbersApart, Numbers # {}, Issue!NextNumber \in Numbers',
         \A y \in Numbers' : y \in Numbers \cup {Issue!NextNumber}
  PROVE  \E x \in Numbers' : IsGreatest(Numbers', x)
<1>1. Issue!NextNumber \in Nat /\ \A y \in Numbers : y < Issue!NextNumber /\ y \in Nat
  <2>1. \A i \in IssueIds : issue[i].number \in Nat
    BY DEF IssueTypes, Rows
  <2> QED
    BY <2>1, NextIsNew DEF IssueTypes, Numbers
<1>2. \A y \in Numbers' : y <= Issue!NextNumber
  BY <1>1
<1> QED
  BY <1>2 DEF IsGreatest

(* A worktree takes the next number.                                       *)
LEMMA CreateWorktreeKeeps ==
  ASSUME IssueInv, NEW w \in Worktrees, Issue!CreateWorktree(w)
  PROVE  IssueInv'
<1>0. IssueTypes /\ NumbersApart /\ HistoryReplays
  BY DEF IssueInv
<1>1. /\ worktree' = [worktree EXCEPT ![w] = Issue!NextNumber]
      /\ UNCHANGED <<issue, events, there, deleted>>
  BY DEF Issue!CreateWorktree
<1>2. Numbers # {} /\ \A i \in IssueIds : issue[i].number \in Numbers
  BY DEF Numbers
<1>3. Issue!NextNumber \in Nat \ {0} /\ \A y \in Numbers : y < Issue!NextNumber
  BY <1>0, <1>2, NextIsNew
<1>4. /\ worktree' \in [Worktrees -> Nat] /\ worktree'[w] = Issue!NextNumber
      /\ \A v \in Worktrees \ {w} : worktree'[v] = worktree[v]
  BY <1>0, <1>1, <1>3 DEF IssueTypes
<1>5. IssueTypes' /\ HistoryReplays'
  BY <1>0, <1>1, <1>4 DEF IssueTypes, HistoryReplays, Issue!Exists
<1>6. Issue!NextNumber \in Numbers' /\ \A y \in Numbers' : y \in Numbers \cup {Issue!NextNumber}
  BY <1>1, <1>4 DEF Numbers
<1>7. \E x \in Numbers' : IsGreatest(Numbers', x)
  BY <1>0, <1>2, <1>6, NumberTaken
<1>8. \A i \in IssueIds : issue[i].number # Issue!NextNumber
  <2>1. \A i \in IssueIds : issue[i].number \in Nat
    BY <1>0 DEF IssueTypes, Rows
  <2> QED
    BY <1>2, <1>3, <2>1
<1>9. NumbersApart'
  BY <1>0, <1>1, <1>4, <1>7, <1>8 DEF NumbersApart, Issue!Exists
<1> QED
  BY <1>5, <1>9 DEF IssueInv

(* A new issue takes the next number, and its history is what it starts    *)
(* from.                                                                   *)
LEMMA CreateKeeps ==
  ASSUME IssueInv, NEW i \in IssueIds, NEW title \in Titles, NEW wanted \in SUBSET Issue!Things,
         Issue!Create(i, title, wanted)
  PROVE  IssueInv'
<1> DEFINE row == [Issue!NoIssue EXCEPT !.title = title]
           new == AllEvents(row, title, "open", "", wanted)
           r == Updated(row, title, "open", "", wanted)
<1>0. IssueTypes /\ NumbersApart /\ HistoryReplays
  BY DEF IssueInv
<1>1. /\ ~Issue!Exists(i) /\ issue[i] = Issue!NoIssue /\ events[i] = << >>
      /\ issue' = [issue EXCEPT ![i] = [number |-> Issue!NextNumber, title |-> title, state |-> "open",
                                        reason |-> "", related |-> wanted]]
      /\ Issue!Record(i, Issue!Relate({}, wanted))
      /\ UNCHANGED <<worktree, there, deleted>>
  BY <1>0 DEF Issue!Create, IssueTypes
<1>2. Numbers # {} /\ \A j \in IssueIds : issue[j].number \in Numbers
      /\ \A w \in Worktrees : worktree[w] \in Numbers
  BY DEF Numbers
<1>3. Issue!NextNumber \in Nat \ {0} /\ \A y \in Numbers : y < Issue!NextNumber
  BY <1>0, <1>2, NextIsNew
<1> DEFINE wrote == [number |-> Issue!NextNumber, title |-> title, state |-> "open",
                       reason |-> "", related |-> wanted]
<1>4. row \in Rows /\ row.title = title /\ row.state = "open" /\ row.reason = "" /\ row.related = {}
  BY DEF Issue!NoIssue, Rows
<1>5. new = Issue!Relate({}, wanted)
  BY <1>4 DEF AllEvents, Issue!Renamed, Issue!Restated, Issue!Closes, Issue!Reopens
<1>6. r \in Rows /\ r.title = title /\ r.state = "open" /\ r.reason = "" /\ r.related = wanted
  <2>1. StateOf(row, "open") = "open" /\ ReasonOf(row, "open", "") = ""
    BY <1>4 DEF StateOf, ReasonOf, Issue!Reopens
  <2> HIDE DEF row
  <2> QED
    BY <1>4, <2>1 DEF Updated, Rows
<1>7. /\ issue' = [issue EXCEPT ![i] = wrote]
      /\ events' = [events EXCEPT ![i] = Extend(events[i], new)]
  <2> HIDE DEF new
  <2> QED
    BY <1>1, <1>5 DEF Issue!Record, Extend
<1>8. Replays(events[i], row, Issue!Things \ deleted)
  <2>1. ASSUME NEW E PROVE Made(events[i], E) = {}
    <3>1. DOMAIN events[i] = {}
      <4>1. events[i] = << >>
        BY <1>1
      <4> QED
        BY ONLY <4>1, EmptySeq, LenProperties
    <3> QED
      BY <3>1 DEF Made
  <2> QED
    BY <1>4, <2>1 DEF Replays, TitleReplays, StateReplays, ThingReplays
<1>9. /\ Extend(events[i], new) \in Seq(SUBSET Events) /\ r \in Rows
      /\ Replays(Extend(events[i], new), r, Issue!Things \ deleted)
  <2> DEFINE things == Issue!Things \ deleted
  <2>1. events[i] \in Seq(SUBSET Events) /\ "open" \in States /\ "" \in Causes
        /\ things \in SUBSET Issue!Things /\ wanted \in SUBSET Issue!Things /\ title \in Titles
    BY <1>0 DEF IssueTypes, States, Causes
  <2>2. row \in Rows /\ row.title \in Titles /\ Replays(events[i], row, things)
    BY <1>4, <1>8
  <2>3. new = AllEvents(row, title, "open", "", wanted) /\ r = Updated(row, title, "open", "", wanted)
    OBVIOUS
  <2> HIDE DEF row, new, r, things
  <2>4. /\ Extend(events[i], new) \in Seq(SUBSET Events) /\ r \in Rows
        /\ Replays(Extend(events[i], new), r, things)
    BY ONLY <2>1, <2>2, <2>3, UpdateReplays
  <2> QED
    BY <2>4 DEF things
<1>10. /\ issue' \in [IssueIds -> Rows] /\ events' \in [IssueIds -> Seq(SUBSET Events)]
       /\ issue'[i] = wrote /\ events'[i] = Extend(events[i], new)
       /\ issue'[i].number = Issue!NextNumber /\ issue'[i].title = title
       /\ \A j \in IssueIds \ {i} : issue'[j] = issue[j] /\ events'[j] = events[j]
  <2>1. wrote \in Rows /\ wrote.number = Issue!NextNumber /\ wrote.title = title
    BY <1>3 DEF Rows
  <2> HIDE DEF wrote, new, r
  <2> QED
    BY <1>0, <1>7, <1>9, <2>1 DEF IssueTypes
<1>11. Replays(events'[i], issue'[i], Issue!Things \ deleted)
  <2>1. /\ issue'[i].title = r.title /\ issue'[i].state = r.state /\ issue'[i].reason = r.reason
        /\ issue'[i].related = r.related
    <3>1. /\ wrote.title = title /\ wrote.state = "open" /\ wrote.reason = ""
          /\ wrote.related = wanted
      OBVIOUS
    <3> HIDE DEF r, new, wrote
    <3> QED
      BY <1>6, <1>10, <3>1
  <2> HIDE DEF r, new
  <2> QED
    BY <1>9, <1>10, <2>1 DEF Replays
<1> HIDE DEF wrote
<1> HIDE DEF row, new, r
<1>12. IssueTypes'
  BY <1>0, <1>1, <1>3, <1>10 DEF IssueTypes, Issue!Exists
<1>13. HistoryReplays'
  BY <1>0, <1>1, <1>10, <1>11 DEF HistoryReplays, Issue!Exists
<1>14. Issue!NextNumber \in Numbers' /\ \A y \in Numbers' : y \in Numbers \cup {Issue!NextNumber}
  BY <1>1, <1>10 DEF Numbers
<1>15. \E x \in Numbers' : IsGreatest(Numbers', x)
  BY <1>0, <1>2, <1>14, NumberTaken
<1>16. /\ \A j \in IssueIds : issue[j].number # Issue!NextNumber
       /\ \A w \in Worktrees : worktree[w] # Issue!NextNumber
  <2>1. \A j \in IssueIds : issue[j].number \in Nat
    BY <1>0 DEF IssueTypes, Rows
  <2>2. \A w \in Worktrees : worktree[w] \in Nat
    BY <1>0 DEF IssueTypes
  <2> QED
    BY <1>2, <1>3, <2>1, <2>2
<1>17. NumbersApart'
  BY <1>0, <1>1, <1>10, <1>15, <1>16 DEF NumbersApart, Issue!Exists
<1> QED
  BY <1>12, <1>13, <1>17 DEF IssueInv

(* What Update writes, in one term.                                        *)
LEMMA UpdateWrites ==
  ASSUME NEW i, NEW title, NEW wanted, NEW state, NEW reason,
         Issue!Update(i, title, state, reason, wanted)
  PROVE  /\ Issue!Exists(i) /\ UNCHANGED <<worktree, there, deleted>>
         /\ issue' = [issue EXCEPT ![i] = Updated(issue[i], title, state, reason, wanted)]
         /\ events' = [events EXCEPT ![i] =
                      Extend(events[i], AllEvents(issue[i], title, state, reason, wanted))]
<1>1. Issue!Exists(i) /\ UNCHANGED <<worktree, there, deleted>>
  BY DEF Issue!Update
<1>2. issue' = [issue EXCEPT ![i] = Updated(issue[i], title, state, reason, wanted)]
  BY Zenon DEF Issue!Update, Updated, StateOf, ReasonOf
<1>3. events' = [events EXCEPT ![i] =
                Extend(events[i], AllEvents(issue[i], title, state, reason, wanted))]
  BY DEF Issue!Update, Issue!Record, Extend, AllEvents
<1> QED
  BY <1>1, <1>2, <1>3

(* An update keeps the invariant.                                          *)
LEMMA UpdateKeeps ==
  ASSUME IssueInv, NEW i \in IssueIds, NEW title \in Titles, NEW wanted \in SUBSET Issue!Things,
         NEW state \in States, NEW reason \in Causes, Issue!Update(i, title, state, reason, wanted)
  PROVE  IssueInv'
<1> DEFINE new == AllEvents(issue[i], title, state, reason, wanted)
           r == Updated(issue[i], title, state, reason, wanted)
<1>0. IssueTypes /\ NumbersApart /\ HistoryReplays
  BY DEF IssueInv
<1>1. /\ Issue!Exists(i) /\ UNCHANGED <<worktree, there, deleted>>
      /\ issue' = [issue EXCEPT ![i] = r]
      /\ events' = [events EXCEPT ![i] = Extend(events[i], new)]
  BY UpdateWrites
<1>2. /\ issue[i] \in Rows /\ issue[i].title \in Titles /\ events[i] \in Seq(SUBSET Events)
      /\ Issue!Things \ deleted \in SUBSET Issue!Things /\ Replays(events[i], issue[i], Issue!Things \ deleted)
  BY <1>0, <1>1 DEF IssueTypes, HistoryReplays
<1>3. new = AllEvents(issue[i], title, state, reason, wanted)
      /\ r = Updated(issue[i], title, state, reason, wanted)
  OBVIOUS
<1> HIDE DEF new, r
<1>4. /\ Extend(events[i], new) \in Seq(SUBSET Events)
      /\ r \in Rows /\ r.number = issue[i].number /\ r.title = title
      /\ Replays(Extend(events[i], new), r, Issue!Things \ deleted)
  <2>1. title \in Titles /\ wanted \in SUBSET Issue!Things /\ state \in States /\ reason \in Causes
    OBVIOUS
  <2> QED
    BY ONLY <1>2, <1>3, <2>1, UpdateReplays
<1>5. /\ issue' \in [IssueIds -> Rows] /\ events' \in [IssueIds -> Seq(SUBSET Events)]
      /\ issue'[i] = r /\ events'[i] = Extend(events[i], new)
      /\ \A j \in IssueIds \ {i} : issue'[j] = issue[j] /\ events'[j] = events[j]
  BY <1>0, <1>1, <1>4 DEF IssueTypes
<1>6. \A j \in IssueIds : issue'[j].number = issue[j].number
  BY <1>4, <1>5
<1>7. IssueTypes'
  BY <1>0, <1>1, <1>4, <1>5 DEF IssueTypes, Issue!Exists
<1>8. HistoryReplays'
  BY <1>0, <1>1, <1>4, <1>5 DEF HistoryReplays, Issue!Exists
<1>9. NumbersApart'
  <2>1. Numbers' = Numbers
    BY <1>1, <1>6 DEF Numbers
  <2> QED
    BY <1>0, <1>1, <1>6, <2>1 DEF NumbersApart, Issue!Exists
<1> QED
  BY <1>7, <1>8, <1>9 DEF IssueInv

(* Deleting a thing unrelates it everywhere; no timeline has to tell of it *)
(* any more.                                                               *)
LEMMA DeleteKeeps ==
  ASSUME IssueInv, NEW t \in Issue!Things, Issue!Delete(t)
  PROVE  IssueInv'
<1>0. IssueTypes /\ NumbersApart /\ HistoryReplays
  BY DEF IssueInv
<1>1. /\ deleted' = deleted \cup {t} /\ there' = there \ {t} /\ UNCHANGED <<events, worktree>>
      /\ issue' = [i \in IssueIds |-> [issue[i] EXCEPT !.related = @ \ {t}]]
  BY DEF Issue!Delete
<1>2. ASSUME NEW i \in IssueIds
      PROVE  /\ issue'[i] \in Rows /\ issue'[i].number = issue[i].number
             /\ issue'[i].title = issue[i].title /\ issue'[i].state = issue[i].state
             /\ issue'[i].reason = issue[i].reason /\ issue'[i].related = issue[i].related \ {t}
             /\ issue[i] = Issue!NoIssue => issue'[i] = Issue!NoIssue
  <2>1. issue[i] \in Rows
    BY <1>0 DEF IssueTypes
  <2>2. issue'[i] = [issue[i] EXCEPT !.related = @ \ {t}]
    BY <1>1
  <2>3. issue[i] = Issue!NoIssue => [issue[i] EXCEPT !.related = @ \ {t}] = Issue!NoIssue
    <3>1. Issue!NoIssue \in Rows /\ Issue!NoIssue.related \ {t} = {}
      BY DEF Issue!NoIssue, Rows
    <3> DEFINE x == [Issue!NoIssue EXCEPT !.related = @ \ {t}]
    <3>2. /\ x \in Rows /\ x.number = Issue!NoIssue.number /\ x.title = Issue!NoIssue.title
          /\ x.state = Issue!NoIssue.state /\ x.reason = Issue!NoIssue.reason
      BY <3>1 DEF Rows
    <3>3. x.related = Issue!NoIssue.related
      BY <3>1 DEF Issue!NoIssue
    <3> HIDE DEF x
    <3>4. x = Issue!NoIssue
      BY <3>1, <3>2, <3>3, RowsEqual
    <3> QED
      BY <3>4 DEF x
  <2> QED
    BY <2>1, <2>2, <2>3 DEF Rows
<1>3. issue' \in [IssueIds -> Rows]
  BY <1>1, <1>2
<1>4. IssueTypes'
  BY <1>0, <1>1, <1>2, <1>3 DEF IssueTypes, Issue!Exists
<1>5. NumbersApart'
  <2>1. Numbers' = Numbers
    BY <1>1, <1>2 DEF Numbers
  <2> QED
    BY <1>0, <1>1, <1>2, <2>1 DEF NumbersApart, Issue!Exists
<1>6. HistoryReplays'
  <2>1. ASSUME NEW i \in IssueIds, NEW s \in Issue!Things \ deleted', ThingReplays(events[i], s, issue[i].related)
        PROVE  ThingReplays(events[i], s, issue'[i].related)
    <3>1. s \in issue[i].related <=> s \in issue'[i].related
      BY <1>1, <1>2
    <3> QED
      BY <2>1, <3>1 DEF ThingReplays
  <2>2. ASSUME NEW i \in IssueIds, Replays(events[i], issue[i], Issue!Things \ deleted)
        PROVE  Replays(events[i], issue'[i], Issue!Things \ deleted')
    BY <1>1, <1>2, <2>1, <2>2 DEF Replays
  <2> QED
    BY <1>0, <1>1, <1>2, <2>2 DEF HistoryReplays, Issue!Exists
<1> QED
  BY <1>4, <1>5, <1>6 DEF IssueInv

(* Every step keeps the invariant.                                         *)
LEMMA IssueInvKept ==
  IssueInv /\ [Issue!Next]_Issue!vars => IssueInv'
<1> SUFFICES ASSUME IssueInv, [Issue!Next]_Issue!vars PROVE IssueInv'
  OBVIOUS
<1>1. ASSUME NEW w \in Worktrees, Issue!CreateWorktree(w) PROVE IssueInv'
  BY <1>1, CreateWorktreeKeeps
<1>2. ASSUME NEW i \in IssueIds, NEW title \in Titles, NEW wanted \in SUBSET Issue!Things,
             Issue!Create(i, title, wanted)
      PROVE  IssueInv'
  BY <1>2, CreateKeeps
<1>3. ASSUME NEW i \in IssueIds, NEW title \in Titles, NEW wanted \in SUBSET Issue!Things,
             NEW reason \in Issue!Reasons, Issue!Update(i, title, "closed", reason, wanted)
      PROVE  IssueInv'
  <2>1. "closed" \in States /\ reason \in Causes
    BY DEF States, Causes
  <2> QED
    BY <1>3, <2>1, UpdateKeeps
<1>4. ASSUME NEW i \in IssueIds, NEW title \in Titles, NEW wanted \in SUBSET Issue!Things,
             Issue!Update(i, title, "open", "", wanted)
      PROVE  IssueInv'
  <2>1. "open" \in States /\ "" \in Causes
    BY DEF States, Causes
  <2> QED
    BY <1>4, <2>1, UpdateKeeps
<1>5. ASSUME NEW t \in Issue!Things, Issue!Delete(t) PROVE IssueInv'
  BY <1>5, DeleteKeeps
<1>6. ASSUME UNCHANGED <<issue, events, worktree, deleted>>, there' \subseteq Issue!Things PROVE IssueInv'
  BY <1>6 DEF IssueInv, IssueTypes, NumbersApart, Numbers, HistoryReplays, Issue!Exists
<1>7. ASSUME NEW t \in Issue!Things, Issue!Leave(t) \/ Issue!Return(t) PROVE IssueInv'
  BY <1>6, <1>7 DEF Issue!Leave, Issue!Return, IssueInv, IssueTypes
<1>8. CASE UNCHANGED Issue!vars
  BY <1>6, <1>8 DEF Issue!vars, IssueInv, IssueTypes
<1> QED
  BY <1>1, <1>2, <1>3, <1>4, <1>5, <1>7, <1>8 DEF Issue!Next

(* No issue and no worktree has a number yet.                              *)
LEMMA IssueInvAtFirst == Issue!Init => IssueInv
<1> SUFFICES ASSUME Issue!Init PROVE IssueInv
  OBVIOUS
<1>1. Issue!NoIssue \in Rows /\ Issue!NoIssue.number = 0
  BY DEF Issue!NoIssue, Rows
<1>2. IssueTypes
  BY <1>1, EmptySeq DEF Issue!Init, IssueTypes, Issue!Exists
<1>3. \A y \in Numbers : y = 0
  BY <1>1 DEF Issue!Init, Numbers
<1>4. NumbersApart
  BY <1>1, <1>3 DEF Issue!Init, NumbersApart, Issue!Exists, IsGreatest
<1>5. HistoryReplays
  BY <1>1 DEF Issue!Init, HistoryReplays, Issue!Exists
<1> QED
  BY <1>2, <1>4, <1>5 DEF IssueInv

(* Rows, numbers and histories agree in every reachable state.             *)
THEOREM IssueInvariant == Issue!Spec => []IssueInv
BY IssueInvAtFirst, IssueInvKept, PTL DEF Issue!Spec

(* The invariant names the last event of each kind; the property computes  *)
(* it.                                                                     *)
LEMMA InvReplaysTimeline == IssueInv => TimelineReplays
<1> SUFFICES ASSUME IssueInv, NEW i \in IssueIds, Issue!Exists(i)
             PROVE  /\ Issue!Entries(i, {"renamed"}) # {} =>
                         {e.what.to : e \in Issue!LastOf(i, {"renamed"})} = {issue[i].title}
                    /\ \A k, l \in Issue!Entries(i, {"renamed"}) :
                         k < l /\ (\A m \in Issue!Entries(i, {"renamed"}) : m <= k \/ m >= l)
                           => {e.what.to : e \in Issue!Renames(i, k)} = {e.what.from : e \in Issue!Renames(i, l)}
                    /\ IF Issue!Entries(i, {"closed", "reopened"}) = {}
                         THEN issue[i].state = "open"
                         ELSE Issue!LastOf(i, {"closed", "reopened"}) =
                                {[kind |-> IF issue[i].state = "open" THEN "reopened" ELSE "closed",
                                  what |-> issue[i].reason]}
                    /\ \A t \in Issue!Things \ deleted :
                         IF Issue!About(i, t) = {} THEN t \notin issue[i].related
                         ELSE Issue!LastAbout(i, t) =
                                {[kind |-> IF t \in issue[i].related THEN "add" ELSE "remove", what |-> t]}
  BY DEF TimelineReplays, Issue!TimelineReplays
<1>0. /\ events[i] \in Seq(SUBSET Events) /\ TitleReplays(events[i], issue[i].title)
      /\ StateReplays(events[i], issue[i].state, issue[i].reason)
      /\ \A t \in Issue!Things \ deleted : ThingReplays(events[i], t, issue[i].related)
  BY DEF IssueInv, IssueTypes, HistoryReplays, Replays
<1>1. DOMAIN events[i] \subseteq Nat /\ \A k \in DOMAIN events[i] : events[i][k] \subseteq Events
  BY <1>0, LenProperties, ElementOfSeq
<1>2. \A E : Made(events[i], E) \subseteq DOMAIN events[i] /\ Made(events[i], E) \in SUBSET Nat
  BY <1>1 DEF Made
<1>3. /\ Issue!Entries(i, {"renamed"}) = Made(events[i], Renamings)
      /\ \A k \in DOMAIN events[i] : {e \in events[i][k] : e.kind \in {"renamed"}} = events[i][k] \cap Renamings
  BY <1>1 DEF Issue!Entries, Made, Renamings
<1>4. /\ Issue!Entries(i, {"closed", "reopened"}) = Made(events[i], Turns)
      /\ \A k \in DOMAIN events[i] : {e \in events[i][k] : e.kind \in {"closed", "reopened"}} = events[i][k] \cap Turns
  BY <1>1 DEF Issue!Entries, Made, Turns
<1>5. ASSUME NEW t
      PROVE  /\ Issue!About(i, t) = Made(events[i], AddedOrRemoved(t))
             /\ \A k \in DOMAIN events[i] : {e \in events[i][k] : e.what = t} = events[i][k] \cap AddedOrRemoved(t)
  BY <1>1 DEF Issue!About, Made, AddedOrRemoved
<1>6. Issue!Entries(i, {"renamed"}) # {} => {e.what.to : e \in Issue!LastOf(i, {"renamed"})} = {issue[i].title}
  <2> SUFFICES ASSUME Made(events[i], Renamings) # {}
               PROVE  {e.what.to : e \in Issue!LastOf(i, {"renamed"})} = {issue[i].title}
    BY <1>3
  <2>1. PICK k \in Made(events[i], Renamings) :
          IsGreatest(Made(events[i], Renamings), k) /\ {e.what.to : e \in events[i][k] \cap Renamings} = {issue[i].title}
    BY <1>0 DEF TitleReplays
  <2>2. Issue!Max(Issue!Entries(i, {"renamed"})) = k
    BY <1>2, <1>3, <2>1, GreatestIsMax
  <2>3. Issue!LastOf(i, {"renamed"}) = events[i][k] \cap Renamings
    BY <1>2, <1>3, <2>2 DEF Issue!LastOf
  <2> QED
    BY <2>1, <2>3
<1>7. \A k, l \in Issue!Entries(i, {"renamed"}) :
        k < l /\ (\A m \in Issue!Entries(i, {"renamed"}) : m <= k \/ m >= l)
          => {e.what.to : e \in Issue!Renames(i, k)} = {e.what.from : e \in Issue!Renames(i, l)}
  <2> DEFINE M == Made(events[i], Renamings)
  <2>1. \A k \in M : Issue!Renames(i, k) = events[i][k] \cap Renamings
    BY <1>2, <1>3 DEF Issue!Renames
  <2>2. \A k, l \in M : k < l /\ (\A m \in M : m <= k \/ m >= l)
          => {e.what.to : e \in events[i][k] \cap Renamings} = {e.what.from : e \in events[i][l] \cap Renamings}
    BY <1>0 DEF TitleReplays
  <2> SUFFICES ASSUME NEW k \in M, NEW l \in M, k < l, \A m \in M : m <= k \/ m >= l
               PROVE  {e.what.to : e \in Issue!Renames(i, k)} = {e.what.from : e \in Issue!Renames(i, l)}
    BY <1>3
  <2>3. {e.what.to : e \in events[i][k] \cap Renamings} = {e.what.from : e \in events[i][l] \cap Renamings}
    BY <2>2
  <2>4. Issue!Renames(i, k) = events[i][k] \cap Renamings /\ Issue!Renames(i, l) = events[i][l] \cap Renamings
    BY <2>1
  <2> HIDE DEF M
  <2> QED
    BY <2>3, <2>4
<1>8. IF Issue!Entries(i, {"closed", "reopened"}) = {}
        THEN issue[i].state = "open"
        ELSE Issue!LastOf(i, {"closed", "reopened"}) =
               {[kind |-> IF issue[i].state = "open" THEN "reopened" ELSE "closed",
                 what |-> issue[i].reason]}
  <2>1. CASE Made(events[i], Turns) = {}
    BY <1>0, <1>4, <2>1 DEF StateReplays
  <2>2. CASE Made(events[i], Turns) # {}
    <3>1. PICK k \in Made(events[i], Turns) :
            /\ IsGreatest(Made(events[i], Turns), k)
            /\ events[i][k] \cap Turns =
                 {[kind |-> IF issue[i].state = "open" THEN "reopened" ELSE "closed",
                   what |-> issue[i].reason]}
      BY <1>0, <2>2 DEF StateReplays
    <3>2. Issue!Max(Issue!Entries(i, {"closed", "reopened"})) = k
      BY <1>2, <1>4, <3>1, GreatestIsMax
    <3>3. Issue!LastOf(i, {"closed", "reopened"}) = events[i][k] \cap Turns
      BY <1>2, <1>4, <3>2 DEF Issue!LastOf
    <3> QED
      BY <1>4, <2>2, <3>1, <3>3
  <2> QED
    BY <2>1, <2>2
<1>9. ASSUME NEW t \in Issue!Things \ deleted
      PROVE  IF Issue!About(i, t) = {} THEN t \notin issue[i].related
             ELSE Issue!LastAbout(i, t) =
                    {[kind |-> IF t \in issue[i].related THEN "add" ELSE "remove", what |-> t]}
  <2>1. CASE Made(events[i], AddedOrRemoved(t)) = {}
    BY <1>0, <1>5, <2>1 DEF ThingReplays
  <2>2. CASE Made(events[i], AddedOrRemoved(t)) # {}
    <3>1. PICK k \in Made(events[i], AddedOrRemoved(t)) :
            /\ IsGreatest(Made(events[i], AddedOrRemoved(t)), k)
            /\ events[i][k] \cap AddedOrRemoved(t) =
                 {[kind |-> IF t \in issue[i].related THEN "add" ELSE "remove", what |-> t]}
      BY <1>0, <2>2 DEF ThingReplays
    <3>2. Issue!Max(Issue!About(i, t)) = k
      BY <1>2, <1>5, <3>1, GreatestIsMax
    <3>3. Issue!LastAbout(i, t) = events[i][k] \cap AddedOrRemoved(t)
      BY <1>2, <1>5, <3>2 DEF Issue!LastAbout
    <3> QED
      BY <1>5, <2>2, <3>1, <3>3
  <2> QED
    BY <2>1, <2>2
<1> QED
  BY <1>6, <1>7, <1>8, <1>9

(* TimelineReplays for any issues, titles, related things and number of    *)
(* updates.                                                                *)
THEOREM TimelineTrue == Issue!Spec => []TimelineReplays
BY IssueInvariant, InvReplaysTimeline, PTL

(* No step changes a number that was given.                                *)
LEMMA NumbersStay ==
  IssueInv /\ IssueInv' /\ [Issue!Next]_Issue!vars =>
    [/\ \A i \in IssueIds : Issue!Exists(i) => issue'[i].number = issue[i].number
     /\ \A w \in Worktrees : worktree[w] # 0 => worktree'[w] = worktree[w]
     /\ \A i \in IssueIds : Issue!Exists(i)' =>
          /\ \A j \in IssueIds \ {i} : issue'[j].number # issue'[i].number
          /\ \A w \in Worktrees : worktree'[w] # issue'[i].number]_Issue!vars
<1> SUFFICES ASSUME IssueInv, IssueInv', Issue!Next
             PROVE  /\ \A i \in IssueIds : Issue!Exists(i) => issue'[i].number = issue[i].number
                    /\ \A w \in Worktrees : worktree[w] # 0 => worktree'[w] = worktree[w]
  BY DEF IssueInv, NumbersApart
<1>0. /\ issue \in [IssueIds -> Rows] /\ worktree \in [Worktrees -> Nat]
  BY DEF IssueInv, IssueTypes
<1>1. ASSUME NEW w \in Worktrees, Issue!CreateWorktree(w)
      PROVE  issue' = issue /\ \A v \in Worktrees : worktree[v] # 0 => worktree'[v] = worktree[v]
  BY <1>0, <1>1 DEF Issue!CreateWorktree
<1>2. ASSUME NEW i \in IssueIds, NEW title \in Titles, NEW wanted \in SUBSET Issue!Things,
             Issue!Create(i, title, wanted)
      PROVE  worktree' = worktree /\ \A j \in IssueIds : Issue!Exists(j) => issue'[j] = issue[j]
  BY <1>0, <1>2 DEF Issue!Create
<1>3. ASSUME NEW i \in IssueIds, NEW title, NEW wanted, NEW state, NEW reason,
             Issue!Update(i, title, state, reason, wanted)
      PROVE  worktree' = worktree /\ \A j \in IssueIds : issue'[j].number = issue[j].number
  <2>1. issue' = [issue EXCEPT ![i] = Updated(issue[i], title, state, reason, wanted)]
        /\ worktree' = worktree
    BY <1>3, UpdateWrites
  <2>2. Updated(issue[i], title, state, reason, wanted).number = issue[i].number
    BY <1>0 DEF Updated, Rows
  <2> QED
    BY <1>0, <2>1, <2>2
<1>4. ASSUME NEW t \in Issue!Things, Issue!Delete(t)
      PROVE  worktree' = worktree /\ \A j \in IssueIds : issue'[j].number = issue[j].number
  BY <1>0, <1>4 DEF Issue!Delete, Rows
<1>5. ASSUME NEW t \in Issue!Things, Issue!Leave(t) \/ Issue!Return(t) PROVE issue' = issue /\ worktree' = worktree
  BY <1>5 DEF Issue!Leave, Issue!Return
<1> QED
  BY <1>1, <1>2, <1>3, <1>4, <1>5 DEF Issue!Next

(* NumbersAreShared for any issues and worktrees: a number names one of    *)
(* them, for good.                                                         *)
THEOREM NumbersTrue == Issue!Spec => NumbersAreShared
BY IssueInvariant, NumbersStay, PTL DEF Issue!Spec, NumbersAreShared, Issue!NumbersAreShared

-----------------------------------------------------------------------------
(***************************************************************************)
(* Exchange: the process knows every object it stored.                     *)
(*                                                                         *)
(* An object is in exactly one place (OnePlace). That disposal leaves      *)
(* nothing needs that whoever could still put one is among those it waits  *)
(* for (ClosingWaits), and that a task saves one file and is running while *)
(* it does (SaversRun).                                                    *)
(***************************************************************************)

(* Exchange: types, as far as the argument needs them.                     *)
ConvertTypes ==
  /\ now \in Nat \ {0}
  /\ listed \in [Artifacts -> Nat] /\ saver \in [Artifacts -> Tasks \cup {"nobody", "request"}]
  /\ stored \subseteq Artifacts /\ deleting \subseteq stored /\ leaked \subseteq stored
  /\ running \subseteq Tasks
  /\ closing \in {"no", "waiting", "clearing", "done"}

(* A stored file is in one place: being saved, listed, being deleted, lost.*)
OnePlace ==
  \A f \in Artifacts :
    /\ listed[f] # 0 => f \in stored \ (deleting \cup leaked) /\ saver[f] = "nobody"
    /\ saver[f] # "nobody" => f \in stored \ (deleting \cup leaked)
    /\ f \in stored => f \in leaked \cup deleting \/ listed[f] # 0 \/ saver[f] # "nobody"
    /\ f \notin deleting \cap leaked

(* Who saves a file is under way, and saves one.                           *)
SaversRun ==
  /\ \A f \in Artifacts : saver[f] \in Tasks => saver[f] \in running
  /\ \A f, g \in Artifacts : saver[f] \in Tasks /\ saver[f] = saver[g] => f = g

(* dispose waits for whoever could still put a file.                       *)
ClosingWaits ==
  /\ ~Convert!Open => \A f \in Artifacts : saver[f] # "request"
  /\ closing = "waiting" => running \subseteq waitFor
  /\ closing \in {"clearing", "done"} => running = {} /\ \A f \in Artifacts : listed[f] = 0
  /\ closing = "done" => deleting = {}

ConvertInv == ConvertTypes /\ OnePlace /\ SaversRun /\ ClosingWaits

(* A put stores the object first and keeps its saver's name until it is    *)
(* listed.                                                                 *)
LEMMA PutKeeps ==
  ASSUME ConvertInv, NEW f \in Artifacts, NEW by \in Tasks \cup {"request"}, Convert!Put(f, by),
         by = "request" => Convert!Open,
         by \in Tasks => by \in running /\ \A g \in Artifacts : saver[g] # by
  PROVE  ConvertInv'
<1> USE DEF ConvertInv, Convert!Put, Convert!Fresh
<1>1. ConvertTypes'
  BY DEF ConvertTypes
<1>2. OnePlace'
  BY OwnersAreApart DEF ConvertTypes, OnePlace
<1>3. SaversRun'
  BY DEF ConvertTypes, SaversRun
<1>4. ClosingWaits'
  BY OwnersAreApart DEF ConvertTypes, ClosingWaits, Convert!Open
<1> QED
  BY <1>1, <1>2, <1>3, <1>4

(* Who has put a file enters it, and ends.                                 *)
LEMMA ListKeeps ==
  ASSUME ConvertInv, NEW f \in Artifacts, saver[f] # "nobody", Convert!List(f),
         running' \subseteq running, running \ running' \subseteq {saver[f]},
         UNCHANGED <<now, stored, deleting, leaked, closing, waitFor>>
  PROVE  ConvertInv'
<1> USE DEF ConvertInv, Convert!List
<1>1. listed'[f] # 0 /\ listed'[f] \in Nat
  BY NumbersAreNatural DEF ConvertTypes
<1>2. ConvertTypes'
  BY <1>1 DEF ConvertTypes
<1>3. OnePlace'
  BY <1>1 DEF ConvertTypes, OnePlace
<1>4. SaversRun'
  BY OwnersAreApart DEF ConvertTypes, SaversRun
<1>5. closing \notin {"clearing", "done"}
  BY OwnersAreApart DEF ConvertTypes, SaversRun, ClosingWaits, Convert!Open
<1>6. ClosingWaits'
  BY <1>5 DEF ConvertTypes, ClosingWaits, Convert!Open
<1> QED
  BY <1>2, <1>3, <1>4, <1>6

(* Files leave the list to be deleted.                                     *)
LEMMA DropKeeps ==
  ASSUME ConvertInv, NEW S \in SUBSET {f \in Artifacts : listed[f] # 0},
         listed' = [f \in Artifacts |-> IF f \in S THEN 0 ELSE listed[f]],
         deleting' = deleting \cup S, closing' \in {"no", "waiting", "clearing"},
         UNCHANGED <<now, stored, saver, leaked, running>>
  PROVE  ConvertTypes' /\ OnePlace' /\ SaversRun'
<1>1. ConvertTypes'
  BY DEF ConvertInv, ConvertTypes, OnePlace
<1>2. OnePlace'
  BY DEF ConvertInv, ConvertTypes, OnePlace
<1>3. SaversRun'
  BY DEF ConvertInv, SaversRun
<1> QED
  BY <1>1, <1>2, <1>3

(* Every step of the exchange module keeps the invariant.                  *)
LEMMA ConvertInvKept ==
  ConvertInv /\ [Convert!Next]_Convert!vars => ConvertInv'
<1> SUFFICES ASSUME ConvertInv, [Convert!Next]_Convert!vars PROVE ConvertInv'
  OBVIOUS
<1>1. ASSUME NEW f \in Artifacts, Convert!Upload(f) PROVE ConvertInv'
  BY <1>1, OwnersAreApart, PutKeeps DEF Convert!Upload
<1>2. ASSUME NEW f \in Artifacts, Convert!UploadEnds(f) PROVE ConvertInv'
  BY <1>2, ListKeeps DEF Convert!UploadEnds
<1>3. ASSUME NEW f \in Artifacts, Convert!Expire(f) PROVE ConvertInv'
  <2>1. closing # "done" /\ listed[f] # 0
    BY <1>3 DEF Convert!Expire, Convert!Due, Convert!Open, ConvertInv, ClosingWaits
  <2>2. listed' = [g \in Artifacts |-> IF g \in {f} THEN 0 ELSE listed[g]]
    BY <1>3 DEF Convert!Expire, ConvertInv, ConvertTypes
  <2>3. ConvertTypes' /\ OnePlace' /\ SaversRun'
    BY <1>3, <2>1, <2>2, DropKeeps DEF Convert!Expire, ConvertInv, ConvertTypes
  <2>4. ClosingWaits'
    BY <1>3, <2>1, <2>2 DEF Convert!Expire, ConvertInv, ClosingWaits, Convert!Open
  <2> QED
    BY <2>3, <2>4 DEF ConvertInv
<1>4. ASSUME NEW f \in Artifacts, Convert!DeleteObject(f) PROVE ConvertInv'
  <2> USE <1>4 DEF Convert!DeleteObject, ConvertInv
  <2>1. ConvertTypes'
    BY DEF ConvertTypes, OnePlace
  <2>2. OnePlace'
    BY DEF ConvertTypes, OnePlace
  <2>3. SaversRun' /\ ClosingWaits'
    BY DEF SaversRun, ClosingWaits, Convert!Open
  <2> QED
    BY <2>1, <2>2, <2>3
<1>5. ASSUME NEW f \in Artifacts, NEW t \in Tasks, Convert!TaskPuts(t, f) PROVE ConvertInv'
  BY <1>5, OwnersAreApart, PutKeeps DEF Convert!TaskPuts
<1>6. ASSUME NEW f \in Artifacts, NEW t \in Tasks, Convert!TaskSaves(t, f) PROVE ConvertInv'
  BY <1>6, OwnersAreApart, ListKeeps DEF Convert!TaskSaves, Convert!Settle
<1>7. ASSUME NEW t \in Tasks, Convert!StartTask(t) PROVE ConvertInv'
  BY <1>7 DEF Convert!StartTask, ConvertInv, ConvertTypes, OnePlace, SaversRun, ClosingWaits,
    Convert!Open
<1>8. ASSUME NEW t \in Tasks, NEW status, Convert!TaskEnds(t, status) PROVE ConvertInv'
  BY <1>8 DEF Convert!TaskEnds, Convert!Settle, ConvertInv, ConvertTypes, OnePlace, SaversRun,
    ClosingWaits, Convert!Open
<1>9. CASE Convert!DisposeBegins
  BY <1>9 DEF Convert!DisposeBegins, Convert!WaitFor, ConvertInv, ConvertTypes, OnePlace,
    SaversRun, ClosingWaits, Convert!Open
<1>10. CASE Convert!DisposeClears
  <2>1. listed' = [f \in Artifacts |-> IF f \in {g \in Artifacts : listed[g] # 0} THEN 0 ELSE listed[f]]
    BY <1>10 DEF Convert!DisposeClears, ConvertInv, ConvertTypes
  <2>2. ConvertTypes' /\ OnePlace' /\ SaversRun'
    <3>1. UNCHANGED <<now, stored, saver, leaked, running>>
          /\ deleting' = deleting \cup {g \in Artifacts : listed[g] # 0} /\ closing' = "clearing"
      BY <1>10 DEF Convert!DisposeClears
    <3> QED
      BY <2>1, <3>1, DropKeeps
  <2>3. running = {}
    BY <1>10 DEF Convert!DisposeClears, ConvertInv, ClosingWaits
  <2>4. ClosingWaits'
    BY <1>10, <2>3 DEF Convert!DisposeClears, ConvertInv, ClosingWaits, Convert!Open
  <2> QED
    BY <2>2, <2>4 DEF ConvertInv
<1>11. CASE Convert!DisposeEnds
  BY <1>11 DEF Convert!DisposeEnds, ConvertInv, ConvertTypes, OnePlace, SaversRun, ClosingWaits,
    Convert!Open
<1>12. CASE Convert!Tick
  BY <1>12 DEF Convert!Tick, ConvertInv, ConvertTypes, OnePlace, SaversRun, ClosingWaits,
    Convert!Open
<1>13. ASSUME NEW f \in Artifacts, Convert!PutLeaks(f) PROVE ConvertInv'
  BY <1>13 DEF Convert!PutLeaks, Convert!Fresh, ConvertInv, ConvertTypes, OnePlace, SaversRun,
    ClosingWaits, Convert!Open
<1>14. CASE Convert!ExpireTasks \/ UNCHANGED Convert!vars
  BY <1>14 DEF Convert!ExpireTasks, Convert!vars, ConvertInv, ConvertTypes, OnePlace, SaversRun,
    ClosingWaits, Convert!Open
<1> QED
  BY <1>1, <1>2, <1>3, <1>4, <1>5, <1>6, <1>7, <1>8, <1>9, <1>10, <1>11, <1>12, <1>13, <1>14
    DEF Convert!Next

(* FilesAreKnown for any files, tasks and lifetimes: the process knows     *)
(* every object it stored, and a disposed module leaves none but those     *)
(* whose deletion failed.                                                  *)
THEOREM FilesAccounted ==
  Convert!Spec => []FilesAreKnown
<1>1. Convert!Init => ConvertInv
  BY OwnersAreApart DEF Convert!Init, ConvertInv, ConvertTypes, OnePlace, SaversRun,
    ClosingWaits, Convert!Open
<1>2. ConvertInv => FilesAreKnown
  <2> SUFFICES ASSUME ConvertInv PROVE FilesAreKnown
    OBVIOUS
  <2> USE DEF ConvertInv, ConvertTypes, OnePlace
  <2>1. \A f \in Artifacts : listed[f] # 0 => f \in stored /\ f \notin deleting
    OBVIOUS
  <2>2. stored \subseteq leaked \cup deleting
          \cup {f \in Artifacts : listed[f] # 0 \/ saver[f] # "nobody"}
    OBVIOUS
  <2>3. closing = "done" => stored = leaked
    BY OwnersAreApart DEF SaversRun, ClosingWaits, Convert!Open
  <2> QED
    BY <2>1, <2>2, <2>3 DEF FilesAreKnown, Convert!FilesAreKnown
<1> QED
  BY <1>1, <1>2, ConvertInvKept, PTL DEF Convert!Spec

-----------------------------------------------------------------------------
(* The specification that TLC runs keeps the promises of all services.     *)
THEOREM ServicesPromise ==
  MCSpec =>
    /\ []RulesStayInTheFile /\ RaisingKeepsActions
    /\ []EveryFileIsOwned /\ []MergedImagesReachTrunk
    /\ SpentNeverSignsIn
    /\ []TimelineReplays /\ NumbersAreShared
    /\ []FilesAreKnown
<1>1. MCSpec => []RulesStayInTheFile /\ RaisingKeepsActions
  BY ServicesBehave, RulesStay, RaisingKeeps
<1>2. MCSpec => []EveryFileIsOwned /\ []MergedImagesReachTrunk
  BY ServicesBehave, FilesOwned, MergePublishes
<1>3. MCSpec => SpentNeverSignsIn /\ []FilesAreKnown
  BY ServicesBehave, SpentStaysSpent, FilesAccounted
<1>4. MCSpec => []TimelineReplays /\ NumbersAreShared
  BY ServicesBehave, TimelineTrue, NumbersTrue
<1> QED
  BY <1>1, <1>2, <1>3, <1>4
=============================================================================
