------------------------------- MODULE Issues -------------------------------
(***************************************************************************)
(* The issues of one team Space: issues.service.ts and its repository, and *)
(* the numbers they share with the Space's worktrees.  Every handler is one*)
(* transaction.  An issue keeps its present state in columns and link      *)
(* tables and its history in issue_events; nothing in the schema ties the  *)
(* two together.  Comments, the body and who may do what are left out.     *)
(***************************************************************************)
EXTENDS Naturals, Sequences, FiniteSets, FiniteSetsExt

CONSTANTS
  IssueIds, Worktrees,
  Titles,
  Labels, People, Files,   \* what an issue can be related to
  MaxUpdates               \* bounds the history of an issue

VARIABLES
  issue,      \* its row and link tables; number 0 before it is created
  log,        \* issue_events: the events of each update, which share a time
              \* and are read in no particular order
  worktree,   \* worktrees.number, 0 before
  there,      \* what may be added to an issue now: labels of the Space, its
              \* members, Nodes that resolve
  deleted     \* labels and Nodes that are gone for good

vars == <<issue, log, worktree, there, deleted>>

Things == Labels \cup People \cup Files
NoIssue == [number |-> 0, title |-> "", state |-> "open", reason |-> "", related |-> {}]

Init ==
  /\ issue = [i \in IssueIds |-> NoIssue] /\ log = [i \in IssueIds |-> << >>]
  /\ worktree = [w \in Worktrees |-> 0]
  /\ there = Things /\ deleted = {}

-----------------------------------------------------------------------------
(* Numbers.                                                                *)

NextIssueNumber == 1 + Max({issue[i].number : i \in IssueIds})
NextNumber == 1 + Max({issue[i].number : i \in IssueIds} \cup {worktree[w] : w \in Worktrees})

(* WorktreesRepository.create: a retry finds the row and keeps its number. *)
CreateWorktree(w) ==
  /\ worktree[w] = 0
  /\ worktree' = [worktree EXCEPT ![w] = NextNumber]
  /\ UNCHANGED <<issue, log, there, deleted>>

-----------------------------------------------------------------------------
(* Issues.                                                                 *)

Exists(i) == issue[i].number # 0

(* applyRelations: one event for each link that is written or deleted.     *)
Relate(have, wanted) ==
  {[kind |-> "remove", what |-> t] : t \in have \ wanted}
    \cup {[kind |-> "add", what |-> t] : t \in wanted \ have}

Record(i, events) ==
  log' = [log EXCEPT ![i] = IF events = {} THEN @ ELSE Append(@, events)]

(* Whatever is new must be there; what the issue has already is not asked. *)
Addable(have, wanted) == wanted \ have \subseteq there

Create(i, title, wanted) ==
  /\ ~Exists(i) /\ Addable({}, wanted)
  /\ issue' = [issue EXCEPT ![i] = [number |-> NextNumber, title |-> title, state |-> "open",
                                    reason |-> "", related |-> wanted]]
  /\ Record(i, Relate({}, wanted))
  /\ UNCHANGED <<worktree, there, deleted>>

(* An issue that is closed is closed again when the reason differs.        *)
ClosesOpen(row, state, reason) == state = "closed" /\ row.state # "closed"
Closes(row, state, reason)  == state = "closed" /\ (row.state # "closed" \/ row.reason # reason)
Reopens(row, state) == state = "open" /\ row.state = "closed"

Renamed(row, title) ==
  IF title = row.title THEN {}
    ELSE {[kind |-> "renamed", what |-> [from |-> row.title, to |-> title]]}
Restated(row, state, reason) ==
  CASE Closes(row, state, reason) -> {[kind |-> "closed", what |-> reason]}
    [] Reopens(row, state) -> {[kind |-> "reopened", what |-> ""]}
    [] OTHER -> {}

Update(i, title, state, reason, wanted) ==
  LET row == issue[i] IN
  /\ Exists(i) /\ Len(log[i]) < MaxUpdates
  /\ Addable(row.related, wanted)
  /\ issue' = [issue EXCEPT ![i] =
       [row EXCEPT !.title = title, !.related = wanted,
                   !.state = IF state = "closed" \/ Reopens(row, state) THEN state ELSE row.state,
                   !.reason = IF state = "closed" THEN reason
                                ELSE IF Reopens(row, state) THEN "" ELSE row.reason]]
  /\ Record(i, Renamed(row, title) \cup Restated(row, state, reason)
                 \cup Relate(row.related, wanted))
  /\ UNCHANGED <<worktree, there, deleted>>

-----------------------------------------------------------------------------
(* What happens to the things.                                             *)

(* deleteLabel, the permanent removal of a Node: the links cascade, the    *)
(* events with their snapshots stay.                                       *)
Delete(t) ==
  /\ t \in (Labels \cup Files) \ deleted
  /\ deleted' = deleted \cup {t} /\ there' = there \ {t}
  /\ issue' = [i \in IssueIds |-> [issue[i] EXCEPT !.related = @ \ {t}]]
  /\ UNCHANGED <<log, worktree>>

(* A member leaves or a Node goes to the Trash, and comes back: the links  *)
(* stay.                                                                   *)
Leave(t) ==
  /\ t \in there \ Labels
  /\ there' = there \ {t}
  /\ UNCHANGED <<issue, log, worktree, deleted>>

Return(t) ==
  /\ t \in (People \cup Files) \ (there \cup deleted)
  /\ there' = there \cup {t}
  /\ UNCHANGED <<issue, log, worktree, deleted>>

Reasons == {"completed", "not_planned"}

Next ==
  \/ \E w \in Worktrees : CreateWorktree(w)
  \/ \E i \in IssueIds, title \in Titles, wanted \in SUBSET Things :
       \/ Create(i, title, wanted)
       \/ \E reason \in Reasons : Update(i, title, "closed", reason, wanted)
       \/ Update(i, title, "open", "", wanted)
  \/ \E t \in Things : Delete(t) \/ Leave(t) \/ Return(t)

Spec == Init /\ [][Next]_vars

-----------------------------------------------------------------------------
(* An issue's timeline tells how it got where it is: taken update by       *)
(* update, in whatever order the events of one update are read, it ends at *)
(* the issue's state, reason and links, and its renamings lead from title  *)
(* to title to the present one (issues.service.ts:174, "record one event   *)
(* per change").  Links to what was deleted since are gone from the issue  *)
(* only.                                                                   *)
Entries(i, kinds) == {k \in DOMAIN log[i] : \E e \in log[i][k] : e.kind \in kinds}
LastOf(i, kinds) == {e \in log[i][Max(Entries(i, kinds))] : e.kind \in kinds}
Renames(i, k) == {e \in log[i][k] : e.kind = "renamed"}

About(i, t) == {k \in DOMAIN log[i] : \E e \in log[i][k] : e.what = t}
LastAbout(i, t) == {e \in log[i][Max(About(i, t))] : e.what = t}

TimelineReplays ==
  \A i \in IssueIds : Exists(i) =>
    /\ Entries(i, {"renamed"}) # {} =>
         {e.what.to : e \in LastOf(i, {"renamed"})} = {issue[i].title}
    /\ \A k, l \in Entries(i, {"renamed"}) :
         k < l /\ (\A m \in Entries(i, {"renamed"}) : m <= k \/ m >= l)
           => {e.what.to : e \in Renames(i, k)} = {e.what.from : e \in Renames(i, l)}
    /\ IF Entries(i, {"closed", "reopened"}) = {}
         THEN issue[i].state = "open"
         ELSE LastOf(i, {"closed", "reopened"}) =
                {[kind |-> IF issue[i].state = "open" THEN "reopened" ELSE "closed",
                  what |-> issue[i].reason]}
    /\ \A t \in Things \ deleted :
         IF About(i, t) = {} THEN t \notin issue[i].related
         ELSE LastAbout(i, t) =
                {[kind |-> IF t \in issue[i].related THEN "add" ELSE "remove", what |-> t]}

(* data-model.md:317-321 - a number #N of the Space names one issue or one *)
(* worktree, whichever of the two handlers gave it, and stays its name.    *)
NumbersAreShared ==
  [][/\ \A i \in IssueIds : Exists(i) => issue'[i].number = issue[i].number
     /\ \A w \in Worktrees : worktree[w] # 0 => worktree'[w] = worktree[w]
     /\ \A i \in IssueIds : Exists(i)' =>
          /\ \A j \in IssueIds \ {i} : issue'[j].number # issue'[i].number
          /\ \A w \in Worktrees : worktree'[w] # issue'[i].number]_vars
=============================================================================
