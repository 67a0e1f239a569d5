------------------------------ MODULE ChangeFeed ------------------------------
(***************************************************************************)
(* How a change of the product reaches a page: the server's change feed,   *)
(* the one socket an agent keeps to it (workspace-change-feed.ts), the     *)
(* streams its pages follow (workspace-events.ts), and the pages' cache of *)
(* file states (univer-api.ts), whose reads overtake each other.  Sockets, *)
(* streams and processes break at any time; frames on them are then lost.  *)
(* A frame says that something changed, never what.  The transports are    *)
(* external.                                                               *)
(***************************************************************************)
EXTENDS Naturals

CONSTANTS
  Tabs,        \* pages of one account, each showing one document
  Requests,    \* bounds the reads a page has under way at once
  MaxChanges,  \* bounds the changes of the product
  None

VARIABLES
  data,      \* changes written and published so far
  socket,    \* the agent's socket to the feed
  wire,      \* frames sent on it and not yet read
  pending,   \* changed() has its 100 ms timer running
  following, \* per page: its stream is open
  dirty,     \* per page: the stream has something to say
  frame,     \* per page: one frame under way (a stream is pulled)
  snapshot,  \* fileStateSnapshots: the version cached, if any
  current,   \* fileStateRequests: the read the page's views wait for
  reading,   \* the reads, and what one that was served saw
  shown      \* the version the page's view shows, none while loading or failed

vars == <<data, socket, wire, pending, following, dirty, frame,
          snapshot, current, reading, shown>>

server == <<data>>
agent  == <<socket, wire, pending>>
stream == <<following, dirty, frame>>
cache  == <<snapshot, current, reading, shown>>

Free == [at |-> "free", saw |-> 0]
Sent == [at |-> "sent", saw |-> 0]

Init ==
  /\ data = 0 /\ socket = "asking" /\ wire = 0 /\ pending = FALSE
  /\ following = [t \in Tabs |-> FALSE]
  /\ dirty = [t \in Tabs |-> FALSE] /\ frame = [t \in Tabs |-> FALSE]
  /\ snapshot = [t \in Tabs |-> {}] /\ current = [t \in Tabs |-> None]
  /\ reading = [t \in Tabs |-> [q \in Requests |-> Free]]
  /\ shown = [t \in Tabs |-> {}]

-----------------------------------------------------------------------------
(* The feed and the agent's socket.                                        *)

(* A handler has written and publishes: broadcast reaches open sockets.  One*)
(* that fails between the two (worktrees.service.ts:777) publishes nothing *)
(* and is outside: data counts published changes only.                     *)
Publish ==
  /\ data < MaxChanges /\ data' = data + 1
  /\ wire' = (IF socket = "open" THEN wire + 1 ELSE wire)
  /\ UNCHANGED <<socket, pending, stream, cache>>

Moves(from, to) == socket = from /\ socket' = to

(* connect: a ticket is fetched, then the socket is dialled.               *)
TicketArrives ==
  /\ Moves("asking", "dialing")
  /\ UNCHANGED <<data, wire, pending, stream, cache>>
(* Mutant: a new socket is told nothing until the next change.             *)
OpenSilently ==
  /\ Moves("dialing", "open") /\ wire' = 0
  /\ UNCHANGED <<data, pending, stream, cache>>
(* The ticket is consumed and the socket registered before ready is sent.  *)
Open ==
  /\ Moves("dialing", "open") /\ wire' = 1
  /\ UNCHANGED <<data, pending, stream, cache>>
(* No ticket, a ticket refused, or no connection: reconnect.               *)
ConnectFails ==
  /\ Moves("asking", "waiting") \/ Moves("dialing", "waiting")
  /\ UNCHANGED <<data, wire, pending, stream, cache>>
(* The server forgets the socket (it closed, a send failed, it restarts)   *)
(* before the agent hears of it.                                           *)
RemoveConnection ==
  /\ Moves("open", "closing")
  /\ UNCHANGED <<data, wire, pending, stream, cache>>
Reconnect ==
  /\ Moves("closing", "waiting") /\ wire' = 0
  /\ UNCHANGED <<data, pending, stream, cache>>
RetryExpires ==
  /\ Moves("waiting", "asking")
  /\ UNCHANGED <<data, wire, pending, stream, cache>>

Message ==
  /\ socket \in {"open", "closing"} /\ wire > 0
  /\ wire' = wire - 1 /\ pending' = TRUE
  /\ UNCHANGED <<data, socket, stream, cache>>

-----------------------------------------------------------------------------
(* The streams of the pages.                                               *)

(* The timer: every open stream is told; changes in between are one.       *)
Notify ==
  /\ pending /\ pending' = FALSE
  /\ dirty' = [t \in Tabs |-> dirty[t] \/ following[t]]
  /\ UNCHANGED <<data, socket, wire, following, frame, cache>>

(* follow starts dirty: its first frame covers what the page missed.       *)
Follow(t) ==
  /\ ~following[t]
  /\ following' = [following EXCEPT ![t] = TRUE] /\ dirty' = [dirty EXCEPT ![t] = TRUE]
  /\ UNCHANGED <<data, agent, frame, cache>>

Yield(t) ==
  /\ following[t] /\ dirty[t] /\ ~frame[t]
  /\ dirty' = [dirty EXCEPT ![t] = FALSE] /\ frame' = [frame EXCEPT ![t] = TRUE]
  /\ UNCHANGED <<data, agent, following, cache>>

StreamEnds(t) ==
  /\ following[t]
  /\ following' = [following EXCEPT ![t] = FALSE]
  /\ dirty' = [dirty EXCEPT ![t] = FALSE] /\ frame' = [frame EXCEPT ![t] = FALSE]
  /\ UNCHANGED <<data, agent, cache>>

AgentRestarts ==
  /\ socket' = "asking" /\ wire' = 0 /\ pending' = FALSE
  /\ following' = [t \in Tabs |-> FALSE]
  /\ dirty' = [t \in Tabs |-> FALSE] /\ frame' = [t \in Tabs |-> FALSE]
  /\ UNCHANGED <<data, cache>>

-----------------------------------------------------------------------------
(* The cache of a page.                                                    *)

Set(f, t, v) == [f EXCEPT ![t] = v]
Reading(t, q, v) == reading' = [reading EXCEPT ![t][q] = v]

(* getFileState without snapshot or request: a new read.                   *)
Fetch(t, q) ==
  /\ reading[t][q] = Free /\ Reading(t, q, Sent)
  /\ current' = Set(current, t, q)

(* A view is opened.                                                       *)
View(t, q) ==
  /\ snapshot[t] = {} /\ current[t] = None
  /\ Fetch(t, q)
  /\ UNCHANGED <<data, agent, stream, snapshot, shown>>

(* invalidateWorkspaceState: snapshot and read are forgotten, the views    *)
(* read again; what the view shows stays until the answer.                 *)
Receive(t, q) ==
  /\ frame[t] /\ frame' = Set(frame, t, FALSE)
  /\ snapshot' = Set(snapshot, t, {})
  /\ Fetch(t, q)
  /\ UNCHANGED <<data, agent, following, dirty, shown>>

(* The agent reads the product for this page.                              *)
Serve(t, q) ==
  /\ reading[t][q] = Sent /\ Reading(t, q, [at |-> "served", saw |-> data])
  /\ UNCHANGED <<data, agent, stream, snapshot, current, shown>>

(* An answer that is still waited for is cached and shown.                 *)
Answered(t, q) ==
  /\ reading[t][q].at = "served" /\ q = current[t]
  /\ Reading(t, q, Free) /\ current' = Set(current, t, None)
  /\ snapshot' = Set(snapshot, t, {reading[t][q].saw}) /\ shown' = Set(shown, t, {reading[t][q].saw})
  /\ UNCHANGED <<data, agent, stream>>

(* One that was forgotten meanwhile is not: its waiter gets the snapshot,  *)
(* the newer read, or a new one.                                           *)
Forgotten(t, q) ==
  /\ reading[t][q].at = "served" /\ q # current[t]
  /\ IF snapshot[t] = {} /\ current[t] = None
       THEN Reading(t, q, Sent) /\ current' = Set(current, t, q)
       ELSE Reading(t, q, Free) /\ UNCHANGED current
  /\ UNCHANGED <<data, agent, stream, snapshot, shown>>

ReadFails(t, q) ==
  /\ reading[t][q] # Free /\ Reading(t, q, Free)
  /\ IF q = current[t]
       THEN current' = Set(current, t, None) /\ shown' = Set(shown, t, {})
       ELSE UNCHANGED <<current, shown>>
  /\ UNCHANGED <<data, agent, stream, snapshot>>

Next ==
  \/ Publish \/ TicketArrives \/ Open \/ ConnectFails \/ RemoveConnection
  \/ Reconnect \/ RetryExpires \/ Message \/ Notify \/ AgentRestarts
  \/ \E t \in Tabs :
       \/ Follow(t) \/ Yield(t) \/ StreamEnds(t)
       \/ \E q \in Requests :
            View(t, q) \/ Receive(t, q) \/ Serve(t, q)
            \/ Answered(t, q) \/ Forgotten(t, q) \/ ReadFails(t, q)

Spec == Init /\ [][Next]_vars

-----------------------------------------------------------------------------
(* What will still tell the page, or has told it already.                  *)
WordIsComing(t) ==
  \/ socket # "open" \/ wire > 0 \/ pending
  \/ ~following[t] \/ dirty[t] \/ frame[t]
  \/ current[t] # None /\ reading[t][current[t]] \in {Sent, [at |-> "served", saw |-> data]}

(* A page that shows or caches what the product no longer is has word      *)
(* coming: no change is lost between the two sockets, their reconnects,    *)
(* the coalescing timer and reads that answer late                         *)
(* (worktree-change-feed.ts:46-52, workspace-change-feed.ts:43-44,         *)
(* workspace-events.ts:41-74, univer-api.ts:119-181).                      *)
NoChangeIsLost ==
  \A t \in Tabs :
    (\E v \in snapshot[t] \cup shown[t] : v < data) => WordIsComing(t)
=============================================================================
