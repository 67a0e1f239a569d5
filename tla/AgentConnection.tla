---------------------------- MODULE AgentConnection ----------------------------
(***************************************************************************)
(* The one Workspace account of a local agent: logins of three kinds       *)
(* (browser OAuth, desktop OAuth, device code) and logouts that overlap,   *)
(* each ending in a switch of the connection; the switches one after the   *)
(* other (workspace-auth-provider.ts), each draining the runtime of the    *)
(* old account; and the connection file, which the switches share with the *)
(* writes of the configured origin (connection-state.ts).  The Workspace,  *)
(* the settings and the runtime are external.                              *)
(***************************************************************************)
EXTENDS Naturals, Sequences

CONSTANTS
  Logins,      \* login attempts, each of any kind
  Origins,     \* Workspace origins
  FirstOrigin, \* the origin configured at first
  MaxEvents,   \* bounds logouts, changes of the setting and restarts together
  None

VARIABLES
  active,      \* the login whose connection is in use
  home,        \* workspaceRuntime: the account it is provided for, or "released"
  version,     \* connectionVersion
  configured,  \* configuredOrigin
  changes,     \* settings changes, and
  written,     \* how many of their writes have ended
  writeFailed, \* originWriteError
  file,        \* the connection file
  writes,      \* stateWrites: the chain of updates of the file
  read,        \* what the first of them has read
  transition,  \* the chain of switches: logins and "logout"
  phase,       \* of the first: "queued", "settling", "draining", "saving"
  upTo,        \* the origin writes it waits for
  login,       \* the logins: kind, stage, origin and version they began with;
               \* what nobody reads any more is forgotten
  listed,      \* the logins in the maps of pending authorizations
  overtaken,   \* what each login saw happen before its switch was queued
  logouts, starts

switches == <<transition, phase, upTo>>
fileVars == <<file, writes, read>>
settings == <<configured, changes>>
bounds == <<logouts, starts>>
vars == <<active, home, version, settings, written, writeFailed, fileVars, switches,
          login, listed, overtaken, bounds>>

More == logouts + changes + starts < MaxEvents

Idle == [kind |-> "none", at |-> "idle", origin |-> FirstOrigin, version |-> 0]
Over == [Idle EXCEPT !.at = "over"]
Queued(kind) == [Idle EXCEPT !.at = "queued", !.kind = kind]

Init ==
  /\ active = None /\ home = None /\ version = 0
  /\ configured = FirstOrigin /\ changes = 0 /\ written = 0 /\ writeFailed = FALSE
  /\ file = [origin |-> FirstOrigin, active |-> None] /\ writes = <<>> /\ read = <<>>
  /\ transition = <<>> /\ phase = "queued" /\ upTo = 0
  /\ login = [l \in Logins |-> Idle] /\ listed = {}
  /\ overtaken = [l \in Logins |-> {}] /\ logouts = 0 /\ starts = 0

-----------------------------------------------------------------------------
(* Logins.                                                                 *)

Begun == {l \in Logins : login[l].at = "begun"}
UnderWay == {l \in Logins : login[l].at \in {"starting", "begun", "exchanging"}}
Desktops == {l \in Logins : login[l].kind = "desktop"}
Overtakes(event, ls) ==
  overtaken' = [l \in Logins |->
    IF login'[l].at = "over" THEN {} ELSE overtaken[l] \cup {e \in {event} : l \in ls}]
(* Entries are dropped: a login that waits for its user can go no further. *)
Drops(ls) == [l \in Logins |-> IF l \in ls \cap Begun THEN Over ELSE login[l]]
At(l, stage) == login' = [login EXCEPT ![l].at = stage] /\ UNCHANGED overtaken
Ends(l) == login' = [login EXCEPT ![l] = Over] /\ overtaken' = [overtaken EXCEPT ![l] = {}]

(* beginOAuth and the device start: the origin and, for OAuth, the version *)
(* of the connection are remembered.  A desktop login replaces the one     *)
(* before it.  A device login is listed when the Workspace has answered.   *)
Begin(l, kind) ==
  /\ login[l].at = "idle"
  /\ LET older == IF kind = "desktop" THEN Desktops ELSE {}
         stage == IF kind = "device" THEN "starting" ELSE "begun"
     IN /\ login' = [Drops(older) EXCEPT ![l] =
             [kind |-> kind, at |-> stage, origin |-> configured, version |-> version]]
        /\ listed' = (listed \ older) \cup (IF kind = "device" THEN {} ELSE {l})
        /\ Overtakes("newer", older \cap UnderWay)
  /\ UNCHANGED <<active, home, version, settings, written, writeFailed, fileVars, switches, bounds>>

DeviceStarted(l) ==
  /\ login[l].at = "starting" /\ At(l, "begun") /\ listed' = listed \cup {l}
  /\ UNCHANGED <<active, home, version, settings, written, writeFailed, fileVars, switches, bounds>>

(* An entry expires and is pruned, or the user denies a desktop login.     *)
Lapse(l) ==
  /\ l \in listed /\ listed' = listed \ {l}
  /\ login' = Drops({l}) /\ Overtakes("lapse", {})
  /\ UNCHANGED <<active, home, version, settings, written, writeFailed, fileVars, switches, bounds>>

SameOrigin(l) == login[l].origin = configured
SameVersion(l) == login[l].version = version
MayExchange(l) == SameOrigin(l) /\ (login[l].kind # "device" => SameVersion(l))

(* The callback, the desktop's complete, a poll of the device code.  The   *)
(* callback uses its entry up; the others keep theirs for the answer.      *)
Exchange(l) ==
  /\ login[l].at = "begun" /\ l \in listed
  /\ IF MayExchange(l)
       THEN At(l, "exchanging") /\ listed' = (IF login[l].kind = "browser" THEN listed \ {l} ELSE listed)
       ELSE /\ login[l].kind # "desktop"
            /\ Ends(l) /\ listed' = listed \ {l}
  /\ UNCHANGED <<active, home, version, settings, written, writeFailed, fileVars, switches, bounds>>

(* Mutant: a desktop login is not compared with its entry again.           *)
UnlistedToo(l) == login[l].kind # "device" => SameOrigin(l) /\ SameVersion(l)

(* The desktop asks its own entry whether it is still the current login.   *)
StillCurrent(l) ==
  \/ login[l].kind = "browser" /\ SameOrigin(l) /\ SameVersion(l)
  \/ login[l].kind = "desktop" /\ SameOrigin(l) /\ SameVersion(l) /\ l \in listed
  \/ login[l].kind = "device"

(* The Workspace's answer: connect queues the switch, or the login ends.   *)
Exchanged(l) ==
  /\ login[l].at = "exchanging"
  /\ IF StillCurrent(l)
       THEN /\ login' = [login EXCEPT ![l] = Queued(login[l].kind)] /\ UNCHANGED overtaken
            /\ transition' = Append(transition, l)
            /\ listed' = (IF login[l].kind = "device" THEN listed \ {l} ELSE listed)
       ELSE Ends(l) /\ listed' = listed \ {l} /\ UNCHANGED transition
  /\ UNCHANGED <<active, home, version, settings, written, writeFailed, fileVars,
                 phase, upTo, bounds>>

(* A device code stays, for the next poll.                                 *)
ExchangeFails(l) ==
  /\ login[l].at = "exchanging"
  /\ IF login[l].kind = "device"
       THEN At(l, "begun") /\ UNCHANGED listed
       ELSE Ends(l) /\ listed' = listed \ {l}
  /\ UNCHANGED <<active, home, version, settings, written, writeFailed, fileVars, switches, bounds>>

(* cancelPending, then disconnect queues its switch.                       *)
Logout ==
  /\ More /\ logouts' = logouts + 1
  /\ login' = Drops(Logins) /\ listed' = {} /\ transition' = Append(transition, "logout")
  /\ Overtakes("logout", UnderWay)
  /\ UNCHANGED <<active, home, version, settings, written, writeFailed, fileVars,
                 phase, upTo, starts>>

-----------------------------------------------------------------------------
(* The switch at the head of the chain.                                    *)

Target(h) == IF h = "logout" THEN None ELSE h
Ended(h) == IF h = "logout" THEN login ELSE [login EXCEPT ![h] = Over]
Phase(from, to) == transition # <<>> /\ phase = from /\ phase' = to

Rejected ==
  /\ transition' = Tail(transition) /\ phase' = "queued"
  /\ login' = Ended(Head(transition)) /\ listed' = listed \ {Head(transition)}

(* waitForOriginWrite waits for the newest write there is.                 *)
StartSwitch ==
  /\ Phase("queued", "settling") /\ upTo' = changes
  /\ UNCHANGED <<active, home, version, settings, written, writeFailed, fileVars, transition,
                 login, listed, overtaken, bounds>>

Settled ==
  /\ transition # <<>> /\ phase = "settling" /\ written >= upTo
  /\ \/ writeFailed = FALSE /\ phase' = "draining" /\ UNCHANGED <<transition, login, listed>>
     \/ Rejected   \* a write failed, or mkdir does
  /\ UNCHANGED <<active, home, version, settings, written, writeFailed, fileVars, upTo,
                 overtaken, bounds>>

Drained ==
  /\ Phase("draining", "saving")
  /\ home' = "released"
  /\ writes' = Append(writes, [field |-> "active", value |-> Target(Head(transition))])
  /\ UNCHANGED <<active, version, settings, written, writeFailed, file, read, transition, upTo,
                 login, listed, overtaken, bounds>>

-----------------------------------------------------------------------------
(* The file: updates read it, change one field and replace it.             *)

HandleOriginChange(o) ==
  /\ More /\ o # configured
  /\ configured' = o /\ changes' = changes + 1
  /\ writes' = Append(writes, [field |-> "origin", value |-> o])
  /\ UNCHANGED <<active, home, version, written, writeFailed, file, read, switches,
                 login, listed, overtaken, bounds>>

ReadState ==
  /\ writes # <<>> /\ read = <<>> /\ read' = <<file>>
  /\ UNCHANGED <<active, home, version, settings, written, writeFailed, file, writes, switches,
                 login, listed, overtaken, bounds>>

(* The end of a switch, whether its write succeeded or not.                *)
Switched(connection) ==
  /\ active' = connection /\ home' = connection /\ version' = version + 1
  /\ transition' = Tail(transition) /\ phase' = "queued"
  /\ login' = Ended(Head(transition))
  /\ listed' = listed \ {Head(transition)}
  /\ Overtakes("switch", UnderWay)

(* Mutant: the connection is in use before the file is known to have it.   *)
UseFirst(u, ok) ==
  IF u.field = "active"
    THEN Switched(u.value) /\ UNCHANGED <<written, writeFailed>>
    ELSE /\ written' = written + 1 /\ writeFailed' = ~ok
         /\ UNCHANGED <<active, home, version, transition, phase, login, listed, overtaken>>

WriteEnds(u, ok) ==
  IF u.field = "active"
    THEN Switched(IF ok THEN u.value ELSE active) /\ UNCHANGED <<written, writeFailed>>
    ELSE /\ written' = written + 1 /\ writeFailed' = ~ok
         /\ UNCHANGED <<active, home, version, transition, phase, login, listed, overtaken>>

Persist ==
  /\ writes # <<>> /\ read # <<>>
  /\ file' = [Head(read) EXCEPT ![Head(writes).field] = Head(writes).value]
  /\ writes' = Tail(writes) /\ read' = <<>>
  /\ WriteEnds(Head(writes), TRUE)
  /\ UNCHANGED <<settings, upTo, bounds>>

PersistFails ==
  /\ writes # <<>>
  /\ writes' = Tail(writes) /\ read' = <<>>
  /\ WriteEnds(Head(writes), FALSE)
  /\ UNCHANGED <<file, settings, upTo, bounds>>

(* The process ends and is started again with what the file says.          *)
Start ==
  /\ More /\ starts' = starts + 1
  /\ active' = file.active /\ home' = file.active /\ version' = version + 1
  /\ configured' = file.origin /\ written' = changes /\ writeFailed' = FALSE
  /\ writes' = <<>> /\ read' = <<>> /\ transition' = <<>> /\ phase' = "queued"
  /\ login' = [l \in Logins |-> IF login[l].at # "idle"
                                  THEN Over ELSE login[l]]
  /\ listed' = {} /\ overtaken' = [l \in Logins |-> {}]
  /\ UNCHANGED <<changes, file, upTo, logouts>>

Next ==
  \/ \E l \in Logins :
       \/ \E kind \in {"browser", "desktop", "device"} : Begin(l, kind)
       \/ DeviceStarted(l) \/ Lapse(l)
       \/ Exchange(l) \/ Exchanged(l) \/ ExchangeFails(l)
  \/ Logout \/ StartSwitch \/ Settled \/ Drained
  \/ \E o \in Origins : HandleOriginChange(o)
  \/ ReadState \/ Persist \/ PersistFails \/ Start

Spec == Init /\ [][Next]_vars

-----------------------------------------------------------------------------
(* Whatever overlaps, the file, the connection in use and the account the  *)
(* runtime is provided for are one, except while a switch has released the *)
(* runtime; and no write of one field takes back the other: once the chain *)
(* is empty the file has the origin configured last, unless writing it     *)
(* failed (workspace-auth-provider.ts:183-207, connection-state.ts:111-129).*)
OneAccountEverywhere ==
  /\ home # "released" => home = active
  /\ home = "released" => transition # <<>> /\ phase = "saving"
  /\ file.active = active
  /\ writes = <<>> /\ ~writeFailed => file.origin = configured

(* A login that was overtaken while the Workspace was asked never gets the *)
(* connection: a desktop login by a logout, a newer desktop login or a     *)
(* finished switch, a browser login by a finished switch                   *)
(* (desktop-oauth.test.ts:81, 97; oauth-authorization.ts:40-42).         *)
OvertakenBy(l) ==
  CASE login[l].kind = "desktop" -> overtaken[l]
    [] login[l].kind = "browser" -> overtaken[l] \cap {"switch"}
    [] OTHER -> {}
OvertakenStaysOut ==
  \A l \in Logins : login[l].at = "queued" => OvertakenBy(l) = {}
=============================================================================
