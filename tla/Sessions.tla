------------------------------- MODULE Sessions -------------------------------
(***************************************************************************)
(* The administrator's login, the throttle of failed logins and the        *)
(* sessions of the UI.  A login reads the clock once, looks at two         *)
(* throttles, verifies the password, and records its failure or its        *)
(* session with that same reading, one statement at a time; a request that *)
(* carries a session decides from the row it has read.  Other requests and *)
(* the cleanup of expired rows run between any two of these steps.         *)
(*                                                                         *)
(* Passwords, digests and the CSRF token, a function of the session's      *)
(* token, are abstract: an attempt is right or wrong, a token has a row.   *)
(***************************************************************************)
EXTENDS Naturals

CONSTANTS
  Clients,    \* requests in progress at once
  Names,      \* user names tried; "admin" is the administrator's
  Tokens,     \* sessions that may be issued
  Window, Block, Limit, SourceLimit,  \* the throttles
  Idle, Absolute, TouchEvery,         \* the lifetimes of a session
  Horizon     \* bound: the clock

VARIABLES
  clock,      \* of the UI's host
  users,      \* the administrator's row exists
  throttle,   \* login_throttles: a row for each name from this source, and one for the source
  session,    \* sessions, by token
  issued,     \* tokens handed out
  req,        \* what each request does and what it has read
  left        \* history: tokens whose user logged out

vars == <<clock, users, throttle, session, issued, req, left>>

Source == "source"
Keys   == Names \cup {Source}
Absent == [count |-> 0, since |-> 0, until |-> 0]  \* until = 0: not blocked; the clock starts at 1
NoRow  == [seen |-> 0, idle |-> 0, absolute |-> 0]
Free   == [step |-> "free", name |-> "none", token |-> "none", why |-> "none", time |-> 0, row |-> NoRow]
Times  == 0..(Horizon + Block + Absolute)
Max2(a, b) == IF a > b THEN a ELSE b
Min2(a, b) == IF a < b THEN a ELSE b

TypeOK ==
  /\ clock \in 1..Horizon /\ users \in 0..1
  /\ throttle \in [Keys -> [count : 0..Max2(Limit, SourceLimit), since : Times, until : Times]]
  /\ session \in [Tokens -> [seen : Times, idle : Times, absolute : Times]]
  /\ issued \subseteq Tokens /\ left \subseteq issued
  /\ req \in [Clients ->
       [step : {"free", "asked", "named", "admitted", "failed", "counted", "right", "cleared", "create",
                "begin", "read", "expired", "touch", "served"},
        name : Names \cup {"none"}, token : Tokens \cup {"none"},
        why : {"none", "current", "mutate", "verify", "logout"}, time : Times,
        row : [seen : Times, idle : Times, absolute : Times]]]

Init ==
  /\ clock = 1 /\ users = 0 /\ throttle = [k \in Keys |-> Absent]
  /\ session = [t \in Tokens |-> NoRow] /\ issued = {} /\ left = {}
  /\ req = [p \in Clients |-> Free]

Goes(p, to) == req' = [req EXCEPT ![p].step = to]
Ends(p)     == req' = [req EXCEPT ![p] = Free]
Serve(p)    == req' = [req EXCEPT ![p] = [Free EXCEPT !.step = "served", !.token = req[p].token, !.why = req[p].why]]

\* Bootstrap, CreateInitialUser: when the UI starts, once.
Bootstrap ==
  /\ users = 0 /\ users' = 1
  /\ UNCHANGED <<clock, throttle, session, issued, req, left>>

Tick ==
  /\ clock < Horizon /\ clock' = clock + 1
  /\ UNCHANGED <<users, throttle, session, issued, req, left>>

-----------------------------------------------------------------------------
(* Login.                                                                  *)

\* activeRateLimit, for a reading of the clock.
Limited(k, time) == throttle[k].until # 0 /\ time < throttle[k].until

\* The handler of a login: the clock is read here, and not again.
Ask(p, n) ==
  /\ users = 1 /\ req[p] = Free
  /\ req' = [req EXCEPT ![p] = [Free EXCEPT !.step = "asked", !.name = n, !.time = clock]]
  /\ UNCHANGED <<clock, users, throttle, session, issued, left>>

AdmitName(p) ==
  /\ req[p].step = "asked"
  /\ IF Limited(req[p].name, req[p].time) THEN Ends(p) ELSE Goes(p, "named")
  /\ UNCHANGED <<clock, users, throttle, session, issued, left>>

AdmitSource(p) ==
  /\ req[p].step = "named"
  /\ IF Limited(Source, req[p].time) THEN Ends(p) ELSE Goes(p, "admitted")
  /\ UNCHANGED <<clock, users, throttle, session, issued, left>>

\* A hash is compared for every name, and only the administrator's can be right.
Verify(p) ==
  /\ req[p].step = "admitted"
  /\ \/ Goes(p, "failed")
     \/ req[p].name = "admin" /\ Goes(p, "right")
  /\ UNCHANGED <<clock, users, throttle, session, issued, left>>

\* (Mutant: block when the failures exceed the limit.)
BlockedPast(row, time, limit) ==
  [row EXCEPT !.until = IF row.count > limit /\ row.until = 0 THEN time + Block ELSE row.until]

BlockedAt(row, time, limit) ==
  [row EXCEPT !.until = IF row.count >= limit /\ row.until = 0 THEN time + Block ELSE row.until]

First(time) == [count |-> 1, since |-> time, until |-> 0]

\* The transition of a throttle's row in RecordLoginFailure.
Failure(row, time, limit) ==
  BlockedAt(CASE row = Absent -> First(time)
              [] row # Absent /\ row.until # 0 /\ time < row.until -> row
              [] row # Absent /\ ~(row.until # 0 /\ time < row.until)
                   /\ (time < row.since \/ time >= row.since + Window) -> First(time)
              [] OTHER -> [row EXCEPT !.count = @ + 1, !.until = 0], time, limit)

RecordName(p) ==
  /\ req[p].step = "failed" /\ Goes(p, "counted")
  /\ throttle' = [throttle EXCEPT ![req[p].name] = Failure(@, req[p].time, Limit)]
  /\ UNCHANGED <<clock, users, session, issued, left>>

RecordSource(p) ==
  /\ req[p].step = "counted" /\ Ends(p)
  /\ throttle' = [throttle EXCEPT ![Source] = Failure(@, req[p].time, SourceLimit)]
  /\ UNCHANGED <<clock, users, session, issued, left>>

\* ClearLoginFailures, of the name and then of the source.
ClearName(p) ==
  /\ req[p].step = "right" /\ Goes(p, "cleared")
  /\ throttle' = [throttle EXCEPT ![req[p].name] = Absent]
  /\ UNCHANGED <<clock, users, session, issued, left>>

ClearSource(p) ==
  /\ req[p].step = "cleared" /\ Goes(p, "create")
  /\ throttle' = [throttle EXCEPT ![Source] = Absent]
  /\ UNCHANGED <<clock, users, session, issued, left>>

CreateSession(p, t) ==
  /\ req[p].step = "create" /\ t \notin issued
  /\ issued' = issued \cup {t} /\ Ends(p)
  /\ session' = [session EXCEPT ![t] = [seen |-> req[p].time, idle |-> req[p].time + Idle,
                                        absolute |-> req[p].time + Absolute]]
  /\ UNCHANGED <<clock, users, throttle, left>>

-----------------------------------------------------------------------------
(* Requests with a session.  "current" reads the session; "mutate" changes *)
(* something, for which the session is read twice, the second time to      *)
(* "verify" the CSRF token; "logout" verifies the token too.               *)

\* authorizeBusinessMutation, and the handlers of the session and of the logout.
Request(p, t, why) ==
  /\ req[p] = Free /\ t \in issued
  /\ req' = [req EXCEPT ![p] = [Free EXCEPT !.step = "begin", !.token = t, !.why = why]]
  /\ UNCHANGED <<clock, users, throttle, session, issued, left>>

\* SessionByDigest.
Read(p) ==
  /\ req[p].step = "begin"
  /\ IF session[req[p].token] = NoRow THEN Ends(p)
     ELSE req' = [req EXCEPT ![p].step = "read", ![p].row = session[req[p].token]]
  /\ UNCHANGED <<clock, users, throttle, session, issued, left>>

\* A touch moves the end of idleness, and never past the end of the session.
Extended(row, time) == [row EXCEPT !.seen = time, !.idle = Min2(time + Idle, row.absolute)]

\* Current decides from the row it has read and the clock it reads now.
Decide(p) ==
  /\ req[p].step = "read"
  /\ LET row == req[p].row
         over == clock >= row.idle \/ clock >= row.absolute
     IN  IF ~over /\ clock - row.seen < TouchEvery THEN Serve(p)
         ELSE req' = [req EXCEPT ![p].time = clock, ![p].step = IF over THEN "expired" ELSE "touch"]
  /\ UNCHANGED <<clock, users, throttle, session, issued, left>>

DeleteExpired(p) ==
  /\ req[p].step = "expired" /\ Ends(p)
  /\ session' = [session EXCEPT ![req[p].token] = NoRow]
  /\ UNCHANGED <<clock, users, throttle, issued, left>>

\* (Mutant: write the row again if it has gone.)
TouchOrInsert(p) ==
  /\ req[p].step = "touch" /\ Serve(p)
  /\ session' = [session EXCEPT ![req[p].token] = Extended(req[p].row, req[p].time)]
  /\ UNCHANGED <<clock, users, throttle, issued, left>>

\* TouchSession updates the row if it is there; if not, the request is not authenticated.
Touch(p) ==
  /\ req[p].step = "touch"
  /\ IF session[req[p].token] = NoRow THEN Ends(p) /\ UNCHANGED session
     ELSE /\ Serve(p)
          /\ session' = [session EXCEPT ![req[p].token] = Extended(req[p].row, req[p].time)]
  /\ UNCHANGED <<clock, users, throttle, issued, left>>

\* What follows when the session is good.
Served(p) ==
  /\ req[p].step = "served"
  /\ \/ req[p].why \in {"current", "verify"} /\ Ends(p) /\ UNCHANGED <<session, left>>
     \/ /\ req[p].why = "mutate" /\ UNCHANGED <<session, left>>
        /\ req' = [req EXCEPT ![p] = [Free EXCEPT !.step = "begin", !.token = req[p].token, !.why = "verify"]]
     \/ /\ req[p].why = "logout" /\ Ends(p)
        /\ session' = [session EXCEPT ![req[p].token] = NoRow] /\ left' = left \cup {req[p].token}
  /\ UNCHANGED <<clock, users, throttle, issued>>

-----------------------------------------------------------------------------
(* The cleanup worker, and a restart of the UI.                            *)

Over(row) == row # Absent /\ row.since + Window <= clock /\ (row.until = 0 \/ row.until <= clock)

OverSession(row) == row # NoRow /\ (row.idle <= clock \/ row.absolute <= clock)

\* CleanupExpiredAuthState, in one transaction.
Cleanup ==
  /\ session'  = [t \in Tokens |-> IF OverSession(session[t]) THEN NoRow ELSE session[t]]
  /\ throttle' = [k \in Keys |-> IF Over(throttle[k]) THEN Absent ELSE throttle[k]]
  /\ UNCHANGED <<clock, users, issued, req, left>>

\* The process dies, or a client hangs up: its request ends where it is.
HangsUp(p) ==
  /\ req[p] # Free /\ Ends(p)
  /\ UNCHANGED <<clock, users, throttle, session, issued, left>>

Next ==
  \/ Bootstrap \/ Tick \/ Cleanup
  \/ \E p \in Clients :
       \/ \E n \in Names : Ask(p, n)
       \/ AdmitName(p) \/ AdmitSource(p) \/ Verify(p) \/ RecordName(p) \/ RecordSource(p)
       \/ ClearName(p) \/ ClearSource(p) \/ \E t \in Tokens : CreateSession(p, t)
       \/ \E t \in Tokens, why \in {"current", "mutate", "logout"} : Request(p, t, why)
       \/ Read(p) \/ Decide(p) \/ DeleteExpired(p) \/ Touch(p) \/ Served(p) \/ HangsUp(p)

Spec == Init /\ [][Next]_vars

-----------------------------------------------------------------------------
(* Properties.                                                             *)

\* A session that was logged out stays out: a request that read its row earlier does not bring it
\* back when it touches it.
LoggedOutStaysOut == \A t \in left : session[t] = NoRow

\* No touch carries a session past its absolute end, whichever row it was decided from.
SessionsEnd == \A t \in Tokens : session[t].idle <= session[t].absolute

\* A session ends because it was logged out or because its time was over, in its row or in the row
\* that the request that removes it had read: the cleanup never removes one that is being used.
EndsInTime ==
  [][\A t \in Tokens :
       session[t] # NoRow /\ session'[t] = NoRow =>
         \/ t \in left' \/ session[t].idle <= clock
         \/ \E p \in Clients :
              req[p].step = "expired" /\ req[p].token = t /\ req[p].row.idle <= req[p].time]_vars

\* A block in force is lifted by time or by a login that was right, whatever the failures of logins
\* that read the clock earlier, and whatever is cleaned up.
BlocksHold ==
  [][\A k \in Keys :
       Limited(k, clock) /\ throttle'[k] # throttle[k] =>
         \E p \in Clients : req[p].step \in {"right", "cleared"} /\ req'[p].step # req[p].step]_vars

\* A session that was logged out stays out and none passes its absolute end, however requests
\* interleave; it ends for no other reason; and a block is lifted by time or a right login only
\* (Current, TouchSession, Logout, RecordLoginFailure, ClearLoginFailures, CleanupExpiredAuthState).
SessionsHold == EndsInTime /\ BlocksHold /\ [](LoggedOutStaysOut /\ SessionsEnd)
=============================================================================
