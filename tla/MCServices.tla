------------------------------ MODULE MCServices ------------------------------
(***************************************************************************)
(* The smaller services for TLC, which share no state and no transaction:  *)
(* access (which this module extends), content permissions, embedded       *)
(* assets, sign-in codes, issues, exchange, the change feed with its       *)
(* pages, the agent's connection, and the client's content runtime.  Each  *)
(* behaviour is one of one of them, chosen in the initial state, while the *)
(* others rest.                                                            *)
(***************************************************************************)
EXTENDS Access

CONSTANTS
  n1, n2, n3, b1, owner, u1, a1, m1, m2, t1, t2, c1, c2, l1, l2, i1, w1, lb, pe,
  f1, f2, x1, x2, r1, o1, o2, tab, q1, q2, g1, g2, ws1, ws2,
  Readers, Uploads, Units, Local, Merges, MaxCrashes,
  Codes, Logins, Nothing, Resend, CodeTtl, Window, Limit, MaxAttempts, CodeTime,
  IssueIds, Worktrees, Titles, Labels, People, Files, MaxUpdates,
  Artifacts, Tasks, Ttl, MaxTime,
  Writes, Reads, MaxRevision, MaxCookie,
  Tabs, Fetches, MaxChanges,
  Accounts, Origins, FirstOrigin, MaxEvents

VARIABLE service

VARIABLES fileRole, permission
VARIABLES up, crashes, request, uploading, upload, asset, files, queued, stray, escaped,
  trunk, intent, processed, wt, done, mergeOp, merging, discarding, settled, late
VARIABLES codeNow, codeRow, codeStage, asked, login, spent, uses, current
VARIABLES issue, events, worktree, there, deleted
VARIABLES now, stored, listed, saver, deleting, leaked, task, running, closing, waitFor
VARIABLES cookie, entry, instance, queue, op, changesets
VARIABLES data, socket, wire, pending, following, dirty, frame, snapshot, reads, reading, shown
VARIABLES active, home, version, configured, changes, written, writeFailed, file, writes, read,
  transition, phase, upTo, account, pendingLogins, overtaken, logouts, starts

MCStrategies ==
  {<< >>, [a \in {"Edit"} |-> 3], [a \in {"ManageCollaborator"} |-> 1]}
Content == INSTANCE ContentPermissions WITH
  Users <- Readers, role <- fileRole, object <- permission, Strategies <- MCStrategies
Assets == INSTANCE UniverAssets WITH
  stage <- uploading
Code == INSTANCE SignIn WITH
  MaxTime <- CodeTime, Ttl <- CodeTtl, now <- codeNow, stage <- codeStage, row <- codeRow
Issue == INSTANCE Issues WITH
  log <- events
Convert == INSTANCE Exchange WITH
  Files <- Artifacts, owner <- saver
Runtime == INSTANCE ContentRuntime WITH
  log <- changesets
Feed == INSTANCE ChangeFeed WITH
  current <- reads, Requests <- Fetches
Agent == INSTANCE AgentConnection WITH
  Logins <- Accounts, login <- account, listed <- pendingLogins

\* What the proofs need of the constants: names that the code keeps apart
\* are apart, and lengths of time and limits are numbers.
ASSUME OwnersAreApart == Tasks \cap {"nobody", "request"} = {}
ASSUME NobodyReads == None \notin Fetches
ASSUME AgentNamesApart == "released" \notin Accounts \cup {None} /\ "logout" \notin Accounts
ASSUME OriginIsKnown == FirstOrigin \in Origins
ASSUME OthersAreApart == "other" \notin Writes \cup Reads
ASSUME ThingsAreApart ==
  /\ Issue!Things \cap (Issue!Reasons \cup {""}) = {}
  /\ Issue!Things \cap [from : Titles, to : Titles] = {}
ASSUME LocalAreUnits == Local \subseteq Units
ASSUME NumbersAreNatural == {Ttl, MaxAttempts, MaxCrashes} \subseteq Nat

ContentState == <<fileRole, permission>>
AssetsState == <<up, crashes, request, uploading, upload, asset, files, queued, stray, escaped,
                 trunk, intent, processed, wt, done, mergeOp, merging, discarding, settled, late>>
CodeState == <<codeNow, codeRow, codeStage, asked, login, spent, uses, current>>
IssueState == <<issue, events, worktree, there, deleted>>
ConvertState == <<now, stored, listed, saver, deleting, leaked, task, running, closing, waitFor>>
RuntimeState == <<cookie, entry, instance, queue, op, changesets>>
FeedState == <<data, socket, wire, pending, following, dirty, frame, snapshot, reads, reading, shown>>
AgentState == <<active, home, version, configured, changes, written, writeFailed, file, writes, read,
                transition, phase, upTo, account, pendingLogins, overtaken, logouts, starts>>

parts == {"access", "content", "assets", "sign-in", "issues", "exchange", "runtime", "feed", "agent"}

\* What a part starts from, where it has a choice.
StartingPoint ==
  /\ service # "access" => spaceType = "team"
  /\ service # "content" => fileRole = [u \in Readers |-> "none"]
  /\ service # "assets" => request = [a \in Uploads |-> [unit |-> t1, scope |-> "trunk"]]

MCInit ==
  /\ service \in parts
  /\ AccessInit /\ Content!Init /\ Assets!Init /\ Code!Init /\ Issue!Init /\ Convert!Init
  /\ Runtime!Init /\ Feed!Init /\ Agent!Init
  /\ StartingPoint

AccessSteps ==
  /\ service = "access" /\ AccessNext
  /\ UNCHANGED <<service, ContentState, AssetsState, CodeState, IssueState, ConvertState,
                 RuntimeState, FeedState, AgentState>>
ContentSteps ==
  /\ service = "content" /\ Content!Next
  /\ UNCHANGED <<service, accessVars, AssetsState, CodeState, IssueState, ConvertState,
                 RuntimeState, FeedState, AgentState>>
AssetsSteps ==
  /\ service = "assets" /\ Assets!Next
  /\ UNCHANGED <<service, accessVars, ContentState, CodeState, IssueState, ConvertState,
                 RuntimeState, FeedState, AgentState>>
CodeSteps ==
  /\ service = "sign-in" /\ Code!Next
  /\ UNCHANGED <<service, accessVars, ContentState, AssetsState, IssueState, ConvertState,
                 RuntimeState, FeedState, AgentState>>
IssueSteps ==
  /\ service = "issues" /\ Issue!Next
  /\ UNCHANGED <<service, accessVars, ContentState, AssetsState, CodeState, ConvertState,
                 RuntimeState, FeedState, AgentState>>
ConvertSteps ==
  /\ service = "exchange" /\ Convert!Next
  /\ UNCHANGED <<service, accessVars, ContentState, AssetsState, CodeState, IssueState,
                 RuntimeState, FeedState, AgentState>>
RuntimeSteps ==
  /\ service = "runtime" /\ Runtime!Next
  /\ UNCHANGED <<service, accessVars, ContentState, AssetsState, CodeState, IssueState,
                 ConvertState, FeedState, AgentState>>
FeedSteps ==
  /\ service = "feed" /\ Feed!Next
  /\ UNCHANGED <<service, accessVars, ContentState, AssetsState, CodeState, IssueState,
                 ConvertState, RuntimeState, AgentState>>
AgentSteps ==
  /\ service = "agent" /\ Agent!Next
  /\ UNCHANGED <<service, accessVars, ContentState, AssetsState, CodeState, IssueState,
                 ConvertState, RuntimeState, FeedState>>

MCNext ==
  AccessSteps \/ ContentSteps \/ AssetsSteps \/ CodeSteps
  \/ IssueSteps \/ ConvertSteps \/ RuntimeSteps \/ FeedSteps \/ AgentSteps

MCVars == <<service, accessVars, ContentState, AssetsState, CodeState, IssueState, ConvertState,
            RuntimeState, FeedState, AgentState>>

MCSpec == MCInit /\ [][MCNext]_MCVars

-----------------------------------------------------------------------------
\* The properties of the parts, as their modules state them; the two of
\* access come with Access.

\* Content permissions: no stored rule goes beyond the file's roles.
RulesStayInTheFile == Content!RulesStayInTheFile
\* Content permissions: raising a file role takes no action away.
RaisingKeepsActions == Content!RaisingKeepsActions
\* Embedded assets: every object has one owner, every asset its object.
EveryFileIsOwned == Assets!EveryFileIsOwned
\* Embedded assets: the images of a merged Unit are trunk images.
MergedImagesReachTrunk == Assets!MergedImagesReachTrunk
\* Sign-in: a code that was used or replaced never signs in.
SpentNeverSignsIn == Code!SpentNeverSignsIn
\* Issues: the timeline ends where the issue is.
TimelineReplays == Issue!TimelineReplays
\* Issues: one number names one issue or worktree, for good.
NumbersAreShared == Issue!NumbersAreShared
\* Exchange: the process knows every object it stored, and leaves none.
FilesAreKnown == Convert!FilesAreKnown
\* Content runtime: a write lands once, on the revision it was made for.
LandsOnceOnItsRevision == Runtime!LandsOnceOnItsRevision
\* Content runtime: what the pool and the cache hold can be used again.
PooledIsReusable == Runtime!PooledIsReusable
\* Change feed: a page that shows what is gone has word coming.
NoChangeIsLost == Feed!NoChangeIsLost
\* Agent: one account in the file, in use, and in the runtime.
OneAccountEverywhere == Agent!OneAccountEverywhere
\* Agent: an overtaken login never gets the connection.
OvertakenStaysOut == Agent!OvertakenStaysOut
=============================================================================
