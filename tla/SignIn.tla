------------------------------- MODULE SignIn -------------------------------
(***************************************************************************)
(* Sign-in by an emailed code, for one address: requestEmailLoginCode and  *)
(* loginWithEmailCode of identity.service.ts over the email_login_codes    *)
(* table.  Both handlers await in the middle: the hash of a code, the mail *)
(* provider, the check of a typed code.  What they read before they act on *)
(* after, while other requests and logins for the address run.             *)
(***************************************************************************)
EXTENDS Naturals, FiniteSets

CONSTANTS
  Codes,       \* requests for a code; each makes one
  Logins,      \* attempts to sign in with a typed code
  Nothing,     \* no code, a wrong code
  Resend, Ttl, Window, Limit,   \* EMAIL_CODE_*, in ticks
  MaxAttempts,
  MaxTime      \* bounds the clock

VARIABLES
  now,
  row,      \* email_login_codes, NoRow without a row
  stage,    \* of each request
  asked,    \* its requestedAt
  login,    \* of each login: the row it found, what was typed, where it is
  spent,    \* history: codes that signed in or were replaced by a newer one
  uses,     \* history: how often each code signed in
  current   \* history: the code delivered last

vars == <<now, row, stage, asked, login, spent, uses, current>>

NoRow == [at |-> 0, attempts |-> MaxAttempts, used |-> TRUE, present |-> FALSE]
Idle  == [found |-> Nothing, typed |-> Nothing, stage |-> "idle"]

Init ==
  /\ now = 0 /\ row = [c \in Codes |-> NoRow]
  /\ stage = [c \in Codes |-> "idle"] /\ asked = [c \in Codes |-> 0]
  /\ login = [l \in Logins |-> Idle]
  /\ spent = {} /\ uses = [c \in Codes |-> 0] /\ current = Nothing

Present == {c \in Codes : row[c].present}

-----------------------------------------------------------------------------
(* requestEmailLoginCode.                                                  *)

(* deleteEmailLoginCodesBefore, at the start of every request.             *)
Recent(c) == row[c].present /\ row[c].at + Window > now
RateLimited ==
  \/ \E c \in Present : Recent(c) /\ now - row[c].at < Resend
  \/ Cardinality({c \in Present : Recent(c)}) >= Limit

Request(c) ==
  /\ stage[c] = "idle"
  /\ row' = [d \in Codes |-> IF Recent(d) THEN row[d] ELSE NoRow]
  /\ IF RateLimited
       THEN UNCHANGED <<stage, asked>>
       ELSE /\ stage' = [stage EXCEPT ![c] = "hashing"]
            /\ asked' = [asked EXCEPT ![c] = now]
  /\ UNCHANGED <<now, login, spent, uses, current>>

(* hashPassword is done; the row has the time the request came.            *)
Insert(c) ==
  /\ stage[c] = "hashing"
  /\ row' = [row EXCEPT ![c] = [at |-> asked[c], attempts |-> 0, used |-> FALSE, present |-> TRUE]]
  /\ stage' = [stage EXCEPT ![c] = "sending"]
  /\ UNCHANGED <<now, asked, login, spent, uses, current>>

(* consumeOtherEmailLoginCodes.                                            *)
ConsumeOthers(c) == [d \in Codes |-> IF d = c THEN row[d] ELSE [row[d] EXCEPT !.used = TRUE]]

Sent(c) ==
  /\ stage[c] = "sending"
  /\ row' = ConsumeOthers(c)
  /\ stage' = [stage EXCEPT ![c] = "sent"]
  /\ spent' = spent \cup (Present \ {c}) /\ current' = c
  /\ UNCHANGED <<now, asked, login, uses>>

SendFails(c) ==
  /\ stage[c] = "sending"
  /\ row' = [row EXCEPT ![c] = NoRow]
  /\ stage' = [stage EXCEPT ![c] = "failed"]
  /\ UNCHANGED <<now, asked, login, spent, uses, current>>

-----------------------------------------------------------------------------
(* loginWithEmailCode.                                                     *)

(* findEmailLoginCode: rows of one time are in no particular order.        *)
Usable(c) == row[c].present /\ ~row[c].used /\ row[c].at + Ttl > now
Newest(c) == Usable(c) /\ \A d \in Codes : Usable(d) => row[d].at <= row[c].at

(* A code can be typed once its mail may have arrived.                     *)
Typable == {c \in Codes : stage[c] \in {"sending", "sent", "lost"}} \cup {Nothing}

BeginLogin(l, c, typed) ==
  /\ login[l].stage = "idle" /\ Newest(c)
  /\ IF row[c].attempts >= MaxAttempts
       THEN row' = [row EXCEPT ![c] = NoRow] /\ UNCHANGED login
       ELSE /\ login' = [login EXCEPT ![l] = [found |-> c, typed |-> typed, stage |-> "verifying"]]
            /\ UNCHANGED row
  /\ UNCHANGED <<now, stage, asked, spent, uses, current>>

WrongCode(l) ==
  LET c == login[l].found IN
  /\ login[l].stage = "verifying" /\ login[l].typed # c
  /\ row' = IF row[c].present THEN [row EXCEPT ![c].attempts = @ + 1] ELSE row
  /\ login' = [login EXCEPT ![l] = Idle]
  /\ UNCHANGED <<now, stage, asked, spent, uses, current>>

(* consumeEmailLoginCode: WHERE id = ? AND consumed_at IS NULL.            *)
AlwaysConsumes(c) == TRUE
Consumes(c) == row[c].present /\ ~row[c].used

RightCode(l) ==
  LET c == login[l].found IN
  /\ login[l].stage = "verifying" /\ login[l].typed = c
  /\ IF Consumes(c)
       THEN /\ row' = [ConsumeOthers(c) EXCEPT ![c].used = TRUE]
            /\ uses' = [uses EXCEPT ![c] = @ + 1]
            /\ spent' = spent \cup Present
            /\ current' = Nothing
       ELSE UNCHANGED <<row, uses, spent, current>>
  /\ login' = [login EXCEPT ![l] = Idle]
  /\ UNCHANGED <<now, stage, asked>>

-----------------------------------------------------------------------------
(* A restart loses the handlers, not the rows.                             *)
Crash ==
  /\ stage' = [c \in Codes |-> IF stage[c] \in {"hashing", "sending"} THEN "lost" ELSE stage[c]]
  /\ login' = [l \in Logins |-> Idle]
  /\ UNCHANGED <<now, row, asked, spent, uses, current>>

Tick == now < MaxTime /\ now' = now + 1
          /\ UNCHANGED <<row, stage, asked, login, spent, uses, current>>

Next ==
  \/ \E c \in Codes : Request(c) \/ Insert(c) \/ Sent(c) \/ SendFails(c)
  \/ \E l \in Logins :
       \/ WrongCode(l) \/ RightCode(l)
       \/ \E c \in Codes, typed \in Typable : BeginLogin(l, c, typed)
  \/ Crash \/ Tick

Spec == Init /\ [][Next]_vars

-----------------------------------------------------------------------------
(* data-model.md:101, "only once", and email-login.test.ts:106, "only the  *)
(* newest": a code that signed in, or that a later delivery replaced, never*)
(* signs in again, even by a login that found it before and was still      *)
(* comparing hashes.                                                       *)
SpentNeverSignsIn == [][\A c \in spent : uses'[c] = uses[c]]_vars

(* email-login.test.ts:106, "accepts only the newest code for an address": *)
(* with no request in flight and before anybody signed in, the code that   *)
(* was delivered last is still to be accepted, until it expires or is      *)
(* locked.                                                                 *)
NewestCodeWorks ==
  current # Nothing /\ (\A c \in Codes : uses[c] = 0)
    /\ (\A c \in Codes : stage[c] \notin {"hashing", "sending"})
    /\ now < asked[current] + Ttl /\ row[current].present
      => ~row[current].used
=============================================================================
