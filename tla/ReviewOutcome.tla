---------------------------- MODULE ReviewOutcome ----------------------------
(***************************************************************************)
(* What a review worktree promises, whatever requests, crashes and replays *)
(* it takes: the review ends once, content only reaches the trunk, a Unit  *)
(* made in it is published or given up but never both, deletions reach the *)
(* Node tree only with a whole merge, and the product calls the review     *)
(* over, and tells its clients so, only after it is.  No request, key or   *)
(* database appears: Worktree implements this.                             *)
(***************************************************************************)
CONSTANTS
  Trunk,      \* Units that existed before the worktree
  Local       \* Units made in it

VARIABLES
  phase,      \* "open" until the review ends, then how it ended
  landed,     \* Units whose content is in the trunk
  published,  \* Units of the worktree the product shows
  givenUp,    \* Units of the worktree the product will never show
  trashed,    \* Trunk Units the review deleted
  settled,    \* the product calls the review over
  reported    \* outcomes that answers kept for replay name

outcomeVars == <<phase, landed, published, givenUp, trashed, settled, reported>>

Init ==
  /\ phase = "open" /\ settled = FALSE
  /\ landed = {} /\ published = {} /\ givenUp = {} /\ trashed = {} /\ reported = {}

(* A merge may land some Units and leave the review open.                  *)
Merge(S) ==
  /\ phase = "open" /\ phase' \in {"open", "merged"}
  /\ landed' = landed \cup S
  /\ UNCHANGED <<published, givenUp, trashed, settled, reported>>

Discard ==
  /\ phase = "open" /\ phase' = "discarded"
  /\ UNCHANGED <<landed, published, givenUp, trashed, settled, reported>>

Publish(u) ==
  /\ u \in landed \ givenUp
  /\ published' = published \cup {u}
  /\ UNCHANGED <<phase, landed, givenUp, trashed, settled, reported>>

GiveUp(S) ==
  /\ phase # "open" /\ S \cap published = {}
  /\ givenUp' = givenUp \cup S
  /\ UNCHANGED <<phase, landed, published, trashed, settled, reported>>

Trash(u) ==
  /\ phase = "merged"
  /\ trashed' = trashed \cup {u}
  /\ UNCHANGED <<phase, landed, published, givenUp, settled, reported>>

(* A user removes a trashed Unit for good, and its receipt with it.        *)
Forget(u) ==
  /\ trashed' = trashed \ {u}
  /\ UNCHANGED <<phase, landed, published, givenUp, settled, reported>>

Settle ==
  /\ phase # "open" /\ settled' = TRUE
  /\ UNCHANGED <<phase, landed, published, givenUp, trashed, reported>>

(* A later answer under the same key may name no outcome at all.           *)
Report(R) ==
  /\ settled \/ R = {}
  /\ R \subseteq {phase}
  /\ reported' = R
  /\ UNCHANGED <<phase, landed, published, givenUp, trashed, settled>>

Next ==
  \/ \E S \in SUBSET (Trunk \cup Local) : Merge(S)
  \/ Discard \/ Settle
  \/ \E u \in Local : Publish(u)
  \/ \E S \in SUBSET Local : GiveUp(S)
  \/ \E u \in Trunk : Trash(u) \/ Forget(u)
  \/ \E R \in SUBSET {"merged", "discarded"} : Report(R)

Spec == Init /\ [][Next]_outcomeVars
=============================================================================
