----------------------------- MODULE SessionsProofs -----------------------------
(***************************************************************************)
(* What holds of sessions and throttles for any number of requests at      *)
(* once, of tokens and of names, and for any limits.  The requests decide  *)
(* from rows and from readings of the clock that are old when they act, so *)
(* the invariant says what such a row and such a reading may still be.     *)
(***************************************************************************)
EXTENDS Sessions, TLAPS

\* The lifetimes are numbers, and a session may not be idle for longer than it lasts.
Lifetimes == Idle \in Nat /\ Absolute \in Nat /\ Block \in Nat /\ Idle <= Absolute

Steps ==
  {"free", "asked", "named", "admitted", "failed", "counted", "right", "cleared", "create",
   "begin", "read", "expired", "touch", "served"}
Whys == {"none", "current", "mutate", "verify", "logout"}

SessionRows  == [seen : Nat, idle : Nat, absolute : Nat]
ThrottleRows == [count : Nat, since : Nat, until : Nat]
Requests ==
  [step : Steps, name : Names \cup {"none"}, token : Tokens \cup {"none"}, why : Whys,
   time : Nat, row : SessionRows]

\* What a request may rely on: the clock has not gone back since it was read, its session was
\* issued, the row it read was a row, and the time that makes it remove a session is over.
Sound(r) ==
  /\ r.time <= clock
  /\ r.row.idle <= r.row.absolute
  /\ r.step \in {"begin", "read", "expired", "touch", "served"} => r.token \in issued
  /\ r.step = "expired" => r.row.idle <= r.time
  /\ r.step = "touch" => r.time # 0

RowsSound ==
  /\ throttle \in [Keys -> ThrottleRows]
  /\ session \in [Tokens -> SessionRows]
  /\ issued \subseteq Tokens /\ left \subseteq issued
  /\ \A t \in Tokens : session[t].idle <= session[t].absolute
  /\ \A t \in Tokens \ issued : session[t] = NoRow
  /\ \A t \in left : session[t] = NoRow

IInv ==
  /\ clock \in Nat \ {0}
  /\ RowsSound
  /\ req \in [Clients -> Requests]
  /\ \A p \in Clients : Sound(req[p])

-------------------------------------------------------------------------------
(* Records. *)

LEMMA RowFacts ==
  /\ NoRow \in SessionRows /\ NoRow.idle = 0 /\ NoRow.absolute = 0 /\ NoRow.seen = 0
  /\ Absent \in ThrottleRows /\ Absent.until = 0
  BY DEF NoRow, SessionRows, Absent, ThrottleRows

LEMMA FreeFacts == /\ Free \in Requests /\ Free.step = "free" /\ Free.time = 0
                   /\ Free.row = NoRow
  BY RowFacts DEF Free, Requests, Steps, Whys

LEMMA FreeIsSound == ASSUME IInv PROVE Sound(Free)
  BY FreeFacts, RowFacts DEF Sound, IInv

\* A request that goes on to another step is the same request otherwise.
LEMMA StepFacts ==
  ASSUME NEW r \in Requests, NEW to \in Steps
  PROVE  LET s == [r EXCEPT !.step = to]
         IN  /\ s \in Requests /\ s.step = to
             /\ s.time = r.time /\ s.row = r.row /\ s.token = r.token
  BY DEF Requests

\* The state after a step of one request, which leaves the clock alone and issues what it issues.
LEMMA RequestStep ==
  ASSUME IInv, NEW p \in Clients, NEW r \in Requests,
         req' = [req EXCEPT ![p] = r], clock' = clock, issued \subseteq issued',
         RowsSound', Sound(r)
  PROVE  IInv'
<1>1. req' \in [Clients -> Requests]
  BY DEF IInv
<1>2. ASSUME NEW q \in Clients PROVE Sound(req[q])'
  <2>1. Sound(req[q]) /\ req'[q] \in {r, req[q]}
    BY DEF IInv
  <2> QED
    BY <2>1 DEF Sound
<1> QED
  BY <1>1, <1>2 DEF IInv

\* What a request ends with, or goes on with while it changes no row.
LEMMA EndsIInv ==
  ASSUME IInv, NEW p \in Clients, Ends(p), clock' = clock, issued' = issued, RowsSound'
  PROVE  IInv'
  BY FreeFacts, FreeIsSound, RequestStep DEF Ends

LEMMA GoesIInv ==
  ASSUME IInv, NEW p \in Clients,
         NEW to \in Steps \ {"begin", "read", "expired", "touch", "served"},
         Goes(p, to), clock' = clock, issued' = issued, RowsSound'
  PROVE  IInv'
<1> DEFINE s == [req[p] EXCEPT !.step = to]
<1>1. req[p] \in Requests /\ Sound(req[p])
  BY DEF IInv
<1>2. req' = [req EXCEPT ![p] = s]
  BY DEF Goes
<1>3. s \in Requests /\ s.step = to /\ s.time = req[p].time /\ s.row = req[p].row
  BY <1>1, StepFacts
<1> HIDE DEF s
<1>4. Sound(s)
  BY <1>1, <1>3 DEF Sound
<1> QED
  BY <1>2, <1>3, <1>4, RequestStep

\* A request with a session starts, is served, or is checked once more.
LEMMA TokenRequest ==
  ASSUME IInv, NEW t \in issued, NEW why \in Whys, NEW step \in {"begin", "served"}
  PROVE  LET r == [Free EXCEPT !.step = step, !.token = t, !.why = why]
         IN  r \in Requests /\ Sound(r)
<1> DEFINE r == [Free EXCEPT !.step = step, !.token = t, !.why = why]
<1>1. Free \in Requests /\ step \in Steps /\ t \in Tokens
  BY FreeFacts DEF Steps, IInv, RowsSound
<1>2. r \in Requests
  BY <1>1 DEF Requests
<1>3. Sound(r)
  <2>1. r.step = step /\ r.token = t /\ r.time = 0 /\ r.row = NoRow
    BY DEF Free
  <2> HIDE DEF r
  <2> QED
    BY <2>1, RowFacts DEF Sound, IInv
<1> QED
  BY <1>2, <1>3

LEMMA ServeIInv ==
  ASSUME IInv, NEW p \in Clients, Serve(p), req[p].token \in issued,
         clock' = clock, issued' = issued, RowsSound'
  PROVE  IInv'
<1>1. req[p].why \in Whys
  BY DEF IInv, Requests
<1> QED
  BY <1>1, TokenRequest, RequestStep DEF Serve

\* Rows that do not change stay sound.
LEMMA RowsStay ==
  ASSUME IInv, UNCHANGED <<throttle, session, issued, left>> PROVE RowsSound'
  BY DEF IInv, RowsSound

-------------------------------------------------------------------------------
(* The throttles. *)

\* What a failure makes of the row of a throttle; a row that blocks is left alone.
LEMMA FailureFacts ==
  ASSUME Lifetimes, NEW row \in ThrottleRows, NEW time \in Nat, NEW limit
  PROVE  /\ Failure(row, time, limit) \in ThrottleRows
         /\ row.until # 0 /\ time < row.until => Failure(row, time, limit) = row
<1>1. First(time) \in ThrottleRows
  BY DEF First, ThrottleRows
<1>2. [row EXCEPT !.count = @ + 1, !.until = 0] \in ThrottleRows
  <2>1. ASSUME NEW n \in Nat PROVE [row EXCEPT !.count = n, !.until = 0] \in ThrottleRows
    BY Zenon, 0 \in Nat DEF ThrottleRows
  <2>2. row.count + 1 \in Nat
    BY DEF ThrottleRows
  <2> QED
    BY <2>1, <2>2
<1>3. ASSUME NEW r \in ThrottleRows
      PROVE  BlockedAt(r, time, limit) \in ThrottleRows /\ (r.until # 0 => BlockedAt(r, time, limit) = r)
  BY DEF BlockedAt, ThrottleRows, Lifetimes
<1> DEFINE next ==
      CASE row = Absent -> First(time)
        [] row # Absent /\ row.until # 0 /\ time < row.until -> row
        [] row # Absent /\ ~(row.until # 0 /\ time < row.until)
             /\ (time < row.since \/ time >= row.since + Window) -> First(time)
        [] OTHER -> [row EXCEPT !.count = @ + 1, !.until = 0]
<1>4. next \in ThrottleRows
  BY <1>1, <1>2
<1>5. row.until # 0 /\ time < row.until => next = row
  BY RowFacts
<1>6. Failure(row, time, limit) = BlockedAt(next, time, limit)
  BY DEF Failure
<1> HIDE DEF next
<1> QED
  BY <1>3, <1>4, <1>5, <1>6

LEMMA RecordRows ==
  ASSUME Lifetimes, IInv, NEW p \in Clients, NEW k, NEW limit,
         throttle' = [throttle EXCEPT ![k] = Failure(@, req[p].time, limit)],
         UNCHANGED <<session, issued, left>>
  PROVE  RowsSound'
<1>1. throttle \in [Keys -> ThrottleRows] /\ req[p].time \in Nat
  BY DEF IInv, RowsSound, Requests
<1>2. k \in Keys => Failure(throttle[k], req[p].time, limit) \in ThrottleRows
  BY <1>1, FailureFacts
<1>3. throttle' \in [Keys -> ThrottleRows]
  BY <1>1, <1>2
<1> QED
  BY <1>3 DEF IInv, RowsSound

LEMMA ClearRows ==
  ASSUME IInv, NEW k, throttle' = [throttle EXCEPT ![k] = Absent],
         UNCHANGED <<session, issued, left>>
  PROVE  RowsSound'
  BY RowFacts DEF IInv, RowsSound

-------------------------------------------------------------------------------
(* The steps of a login. *)

LEMMA AskIInv ==
  ASSUME IInv, NEW p \in Clients, NEW n \in Names, Ask(p, n) PROVE IInv'
<1> DEFINE r == [Free EXCEPT !.step = "asked", !.name = n, !.time = clock]
<1>1. req' = [req EXCEPT ![p] = r]
  BY DEF Ask
<1>2. r \in Requests
  <2>1. Free \in Requests /\ "asked" \in Steps /\ clock \in Nat /\ n \in Names \cup {"none"}
    BY FreeFacts DEF Steps, IInv
  <2> QED
    BY <2>1 DEF Requests
<1>3. Sound(r)
  <2>1. r.step = "asked" /\ r.time = clock /\ r.row = NoRow
    BY DEF Free
  <2> HIDE DEF r
  <2> QED
    BY <2>1, RowFacts DEF Sound, IInv
<1>4. RowsSound' /\ clock' = clock /\ issued' = issued
  BY RowsStay DEF Ask
<1> HIDE DEF r
<1> QED
  BY <1>1, <1>2, <1>3, <1>4, RequestStep

LEMMA LoginIInv ==
  ASSUME Lifetimes, IInv, NEW p \in Clients,
         \/ AdmitName(p) \/ AdmitSource(p) \/ Verify(p) \/ RecordName(p) \/ RecordSource(p)
         \/ ClearName(p) \/ ClearSource(p)
  PROVE  IInv'
<1>1. /\ {"named", "admitted", "failed", "right", "counted", "cleared", "create"}
           \subseteq Steps \ {"begin", "read", "expired", "touch", "served"}
  BY DEF Steps
<1>2. CASE AdmitName(p) \/ AdmitSource(p) \/ Verify(p)
  <2>1. RowsSound' /\ clock' = clock /\ issued' = issued
    BY <1>2, RowsStay DEF AdmitName, AdmitSource, Verify
  <2>2. Ends(p) \/ Goes(p, "named") \/ Goes(p, "admitted") \/ Goes(p, "failed") \/ Goes(p, "right")
    BY <1>2 DEF AdmitName, AdmitSource, Verify
  <2> QED
    BY <1>1, <2>1, <2>2, EndsIInv, GoesIInv
<1>3. CASE RecordName(p)
  <2>1. RowsSound' /\ clock' = clock /\ issued' = issued /\ Goes(p, "counted")
    BY <1>3, RecordRows DEF RecordName
  <2> QED
    BY <1>1, <2>1, GoesIInv
<1>4. CASE RecordSource(p)
  BY <1>4, RecordRows, EndsIInv DEF RecordSource
<1>5. CASE ClearName(p)
  <2>1. RowsSound' /\ clock' = clock /\ issued' = issued /\ Goes(p, "cleared")
    BY <1>5, ClearRows DEF ClearName
  <2> QED
    BY <1>1, <2>1, GoesIInv
<1>6. CASE ClearSource(p)
  <2>1. RowsSound' /\ clock' = clock /\ issued' = issued /\ Goes(p, "create")
    BY <1>6, ClearRows DEF ClearSource
  <2> QED
    BY <1>1, <2>1, GoesIInv
<1> QED
  BY <1>2, <1>3, <1>4, <1>5, <1>6

LEMMA CreateIInv ==
  ASSUME Lifetimes, IInv, NEW p \in Clients, NEW t \in Tokens, CreateSession(p, t) PROVE IInv'
<1> DEFINE row == [seen |-> req[p].time, idle |-> req[p].time + Idle, absolute |-> req[p].time + Absolute]
<1>1. /\ t \notin issued /\ issued' = issued \cup {t} /\ Ends(p)
      /\ session' = [session EXCEPT ![t] = row]
      /\ clock' = clock /\ throttle' = throttle /\ left' = left
  BY DEF CreateSession
<1>2. req[p].time \in Nat
  BY DEF IInv, Requests
<1>3. row \in SessionRows /\ row.idle <= row.absolute
  BY <1>2 DEF Lifetimes, SessionRows
<1> HIDE DEF row
<1>4. RowsSound'
  BY <1>1, <1>3 DEF IInv, RowsSound
<1>5. req' = [req EXCEPT ![p] = Free]
  BY <1>1 DEF Ends
<1> QED
  BY <1>1, <1>4, <1>5, FreeFacts, FreeIsSound, RequestStep

-------------------------------------------------------------------------------
(* The steps of a request with a session. *)

LEMMA RequestIInv ==
  ASSUME IInv, NEW p \in Clients, NEW t \in Tokens, NEW why \in {"current", "mutate", "logout"},
         Request(p, t, why)
  PROVE  IInv'
<1>1. RowsSound' /\ clock' = clock /\ issued' = issued /\ t \in issued /\ why \in Whys
  BY RowsStay DEF Request, Whys
<1> QED
  BY <1>1, TokenRequest, RequestStep DEF Request

LEMMA ReadIInv ==
  ASSUME IInv, NEW p \in Clients, Read(p) PROVE IInv'
<1>1. RowsSound' /\ clock' = clock /\ issued' = issued
  BY RowsStay DEF Read
<1>2. CASE session[req[p].token] = NoRow
  BY <1>1, <1>2, EndsIInv DEF Read
<1>3. CASE session[req[p].token] # NoRow
  <2> DEFINE r == [[req[p] EXCEPT !.step = "read"] EXCEPT !.row = session[req[p].token]]
  <2>1. req' = [req EXCEPT ![p] = r]
    BY <1>3 DEF Read, IInv, Requests
  <2>2. req[p] \in Requests /\ Sound(req[p]) /\ req[p].step = "begin"
    BY DEF Read, IInv
  <2>3. req[p].token \in issued /\ req[p].token \in Tokens
    BY <2>2 DEF Sound, IInv, RowsSound
  <2>4. /\ session[req[p].token] \in SessionRows
        /\ session[req[p].token].idle <= session[req[p].token].absolute
    BY <2>3 DEF IInv, RowsSound
  <2>5. /\ r \in Requests /\ r.step = "read" /\ r.time = req[p].time
        /\ r.row = session[req[p].token] /\ r.token = req[p].token
    BY <2>2, <2>4 DEF Requests, Steps
  <2> HIDE DEF r
  <2>6. Sound(r)
    BY <2>2, <2>3, <2>4, <2>5 DEF Sound
  <2> QED
    BY <1>1, <2>1, <2>5, <2>6, RequestStep
<1> QED
  BY <1>2, <1>3

LEMMA DecideIInv ==
  ASSUME IInv, NEW p \in Clients, Decide(p) PROVE IInv'
<1> DEFINE over == clock >= req[p].row.idle \/ clock >= req[p].row.absolute
<1>1. RowsSound' /\ clock' = clock /\ issued' = issued
  BY RowsStay DEF Decide
<1>2. req[p] \in Requests /\ Sound(req[p]) /\ req[p].step = "read"
  BY DEF Decide, IInv
<1>3. req[p].token \in issued
  BY <1>2 DEF Sound
<1>4. CASE Serve(p)
  BY <1>1, <1>3, <1>4, ServeIInv
<1>5. ASSUME NEW step \in {"expired", "touch"}, step = "expired" => over,
             req' = [req EXCEPT ![p].time = clock, ![p].step = step]
      PROVE  IInv'
  <2> DEFINE r == [[req[p] EXCEPT !.time = clock] EXCEPT !.step = step]
  <2>1. req' = [req EXCEPT ![p] = r]
    BY <1>5 DEF IInv, Requests
  <2>2. clock \in Nat \ {0}
    BY DEF IInv
  <2>3. /\ r \in Requests /\ r.step = step /\ r.time = clock
        /\ r.row = req[p].row /\ r.token = req[p].token
    BY <1>2, <2>2 DEF Requests, Steps
  <2> HIDE DEF r
  <2>4. req[p].row.idle \in Nat /\ req[p].row.absolute \in Nat
    BY <1>2 DEF Requests, SessionRows
  <2>5. req[p].row.idle <= req[p].row.absolute
    BY <1>2 DEF Sound
  <2>6. step = "expired" => req[p].row.idle <= clock
    BY <1>5, <2>2, <2>4, <2>5
  <2>7. Sound(r)
    BY <1>3, <2>2, <2>3, <2>5, <2>6 DEF Sound
  <2> QED
    BY <1>1, <2>1, <2>3, <2>7, RequestStep
<1> QED
  BY <1>4, <1>5 DEF Decide

\* A row that is removed, or that a touch extends, leaves the rows sound.
LEMMA RemoveRows ==
  ASSUME IInv, NEW t \in issued, session' = [session EXCEPT ![t] = NoRow],
         throttle' = throttle, issued' = issued, left' \subseteq left \cup {t}
  PROVE  RowsSound'
  BY RowFacts DEF IInv, RowsSound

LEMMA DeleteExpiredIInv ==
  ASSUME IInv, NEW p \in Clients, DeleteExpired(p) PROVE IInv'
<1>1. req[p].token \in issued
  BY DEF DeleteExpired, IInv, Sound
<1> QED
  BY <1>1, RemoveRows, EndsIInv DEF DeleteExpired

\* What a touch writes ends no later than the session, and is a row.
LEMMA ExtendedFacts ==
  ASSUME Lifetimes, NEW row \in SessionRows, NEW time \in Nat \ {0}
  PROVE  /\ Extended(row, time) \in SessionRows
         /\ Extended(row, time).idle <= Extended(row, time).absolute
         /\ Extended(row, time) # NoRow
<1> DEFINE idle == Min2(time + Idle, row.absolute)
<1>1. idle \in Nat /\ idle <= row.absolute
  BY DEF Min2, Lifetimes, SessionRows
<1>2. Extended(row, time) = [row EXCEPT !.seen = time, !.idle = idle]
  BY DEF Extended
<1> HIDE DEF idle
<1>3. Extended(row, time) \in SessionRows
  BY <1>1, <1>2 DEF SessionRows
<1>4. /\ Extended(row, time).seen = time /\ Extended(row, time).idle = idle
      /\ Extended(row, time).absolute = row.absolute
  BY <1>2 DEF SessionRows
<1> QED
  BY <1>1, <1>3, <1>4, RowFacts

LEMMA TouchIInv ==
  ASSUME Lifetimes, IInv, NEW p \in Clients, Touch(p) PROVE IInv'
<1>1. req[p] \in Requests /\ Sound(req[p]) /\ req[p].step = "touch"
  BY DEF Touch, IInv
<1>2. req[p].token \in issued /\ req[p].time \in Nat \ {0} /\ req[p].row \in SessionRows
  BY <1>1 DEF Sound, Requests
<1>3. clock' = clock /\ issued' = issued /\ throttle' = throttle /\ left' = left
  BY DEF Touch
<1>4. CASE session[req[p].token] = NoRow
  BY <1>3, <1>4, RowsStay, EndsIInv DEF Touch
<1>5. CASE session[req[p].token] # NoRow
  <2>1. Serve(p) /\ session' = [session EXCEPT ![req[p].token] = Extended(req[p].row, req[p].time)]
    BY <1>5 DEF Touch
  <2>2. RowsSound'
    BY <1>2, <1>3, <1>5, <2>1, ExtendedFacts DEF IInv, RowsSound
  <2> QED
    BY <1>2, <1>3, <2>1, <2>2, ServeIInv
<1> QED
  BY <1>4, <1>5

LEMMA ServedIInv ==
  ASSUME IInv, NEW p \in Clients, Served(p) PROVE IInv'
<1>1. req[p].token \in issued
  BY DEF Served, IInv, Sound
<1>2. clock' = clock /\ issued' = issued /\ throttle' = throttle
  BY DEF Served
<1>3. CASE Ends(p) /\ UNCHANGED <<session, left>>
  BY <1>2, <1>3, RowsStay, EndsIInv
<1>4. CASE /\ UNCHANGED <<session, left>>
           /\ req' = [req EXCEPT ![p] = [Free EXCEPT !.step = "begin", !.token = req[p].token, !.why = "verify"]]
  <2>1. "verify" \in Whys /\ RowsSound'
    BY <1>2, <1>4, RowsStay DEF Whys
  <2> QED
    BY <1>1, <1>2, <1>4, <2>1, TokenRequest, RequestStep
<1>5. CASE /\ Ends(p) /\ left' = left \cup {req[p].token}
           /\ session' = [session EXCEPT ![req[p].token] = NoRow]
  BY <1>1, <1>2, <1>5, RemoveRows, EndsIInv
<1> QED
  BY <1>3, <1>4, <1>5 DEF Served

-------------------------------------------------------------------------------
(* The clock and the cleanup. *)

LEMMA TickIInv == ASSUME IInv, Tick PROVE IInv'
<1>1. clock' = clock + 1 /\ RowsSound' /\ issued' = issued /\ req' = req
  BY RowsStay DEF Tick
<1>2. clock \in Nat \ {0}
  BY DEF IInv
<1>3. ASSUME NEW p \in Clients PROVE Sound(req[p])'
  <2>1. Sound(req[p]) /\ req[p].time \in Nat
    BY DEF IInv, Requests
  <2> QED
    BY <1>1, <1>2, <2>1 DEF Sound
<1> QED
  BY <1>1, <1>2, <1>3 DEF IInv

LEMMA CleanupIInv == ASSUME IInv, Cleanup PROVE IInv'
<1>1. UNCHANGED <<clock, users, issued, req, left>>
  BY DEF Cleanup
<1>2. throttle' \in [Keys -> ThrottleRows]
  BY RowFacts DEF Cleanup, IInv, RowsSound
<1>3. /\ session' \in [Tokens -> SessionRows]
      /\ \A t \in Tokens : session'[t] \in {session[t], NoRow}
  BY RowFacts DEF Cleanup, IInv, RowsSound
<1>4. RowsSound'
  BY <1>1, <1>2, <1>3, RowFacts DEF IInv, RowsSound
<1> QED
  BY <1>1, <1>4 DEF IInv, Sound

-------------------------------------------------------------------------------
(* The invariant. *)

LEMMA InitIInv == Init => IInv
<1> SUFFICES ASSUME Init PROVE IInv
  OBVIOUS
<1>1. RowsSound
  BY RowFacts DEF Init, RowsSound
<1>2. req \in [Clients -> Requests] /\ \A p \in Clients : req[p] = Free
  BY FreeFacts DEF Init
<1>3. clock = 1
  BY DEF Init
<1>4. Sound(Free)
  BY <1>3, FreeFacts, RowFacts DEF Sound
<1> QED
  BY <1>1, <1>2, <1>3, <1>4 DEF IInv

LEMMA NextIInv == ASSUME Lifetimes PROVE IInv /\ [Next]_vars => IInv'
<1> SUFFICES ASSUME IInv, [Next]_vars PROVE IInv'
  OBVIOUS
<1>1. CASE UNCHANGED vars
  BY <1>1 DEF vars, IInv, RowsSound, Sound
<1>2. CASE Bootstrap
  BY <1>2 DEF Bootstrap, IInv, RowsSound, Sound
<1>3. ASSUME NEW p \in Clients,
             \/ AdmitName(p) \/ AdmitSource(p) \/ Verify(p) \/ RecordName(p) \/ RecordSource(p)
             \/ ClearName(p) \/ ClearSource(p)
      PROVE  IInv'
  BY <1>3, LoginIInv
<1>4. ASSUME NEW p \in Clients,
             \/ \E n \in Names : Ask(p, n)
             \/ \E t \in Tokens : CreateSession(p, t)
             \/ \E t \in Tokens, why \in {"current", "mutate", "logout"} : Request(p, t, why)
      PROVE  IInv'
  BY <1>4, AskIInv, CreateIInv, RequestIInv
<1>5. ASSUME NEW p \in Clients, Read(p) \/ Decide(p) \/ DeleteExpired(p) \/ Touch(p) \/ Served(p)
      PROVE  IInv'
  BY <1>5, ReadIInv, DecideIInv, DeleteExpiredIInv, TouchIInv, ServedIInv
<1>6. ASSUME NEW p \in Clients, HangsUp(p) PROVE IInv'
  BY <1>6, RowsStay, EndsIInv DEF HangsUp
<1> QED
  BY <1>1, <1>2, <1>3, <1>4, <1>5, <1>6, TickIInv, CleanupIInv DEF Next
-------------------------------------------------------------------------------
(* The theorems. *)

\* IInv is inductive: what a request may still rely on, wherever it stands (Service of auth).
THEOREM Invariance == ASSUME Lifetimes PROVE Spec => []IInv
  BY InitIInv, NextIInv, PTL DEF Spec

\* A session that was logged out stays out, whatever requests had read its row before (TouchSession).
THEOREM LogoutIsFinal == ASSUME Lifetimes PROVE Spec => []LoggedOutStaysOut
<1>1. IInv => LoggedOutStaysOut
  BY DEF IInv, RowsSound, LoggedOutStaysOut
<1> QED
  BY <1>1, Invariance, PTL

\* No session passes its absolute end (Service.touch, TouchSession).
THEOREM EndIsAbsolute == ASSUME Lifetimes PROVE Spec => []SessionsEnd
<1>1. IInv => SessionsEnd
  BY DEF IInv, RowsSound, SessionsEnd
<1> QED
  BY <1>1, Invariance, PTL

\* A session ends by logout or because its time is over, and for no other reason
\* (DeleteSession, CleanupExpiredAuthState).
THEOREM SessionsEndInTime == ASSUME Lifetimes PROVE Spec => EndsInTime
<1> DEFINE InTime ==
      \A t \in Tokens :
        session[t] # NoRow /\ session'[t] = NoRow =>
          \/ t \in left' \/ session[t].idle <= clock
          \/ \E p \in Clients :
               req[p].step = "expired" /\ req[p].token = t /\ req[p].row.idle <= req[p].time
<1>1. IInv /\ [Next]_vars => [InTime]_vars
  <2> SUFFICES ASSUME IInv, Next, NEW t \in Tokens, session[t] # NoRow, session'[t] = NoRow
               PROVE  \/ t \in left' \/ session[t].idle <= clock
                      \/ \E p \in Clients :
                           req[p].step = "expired" /\ req[p].token = t /\ req[p].row.idle <= req[p].time
    OBVIOUS
  <2>1. /\ session[t] \in SessionRows /\ session[t].idle <= session[t].absolute
        /\ t \in issued /\ clock \in Nat
    BY DEF IInv, RowsSound
  <2>2. CASE Cleanup
    <3>1. OverSession(session[t])
      BY <2>2 DEF Cleanup
    <3> QED
      BY <2>1, <3>1 DEF OverSession, SessionRows
  <2>3. ASSUME NEW p \in Clients, DeleteExpired(p)
        PROVE  req[p].step = "expired" /\ req[p].token = t /\ req[p].row.idle <= req[p].time
    <3>1. req[p].step = "expired" /\ session' = [session EXCEPT ![req[p].token] = NoRow]
      BY <2>3 DEF DeleteExpired
    <3>2. req[p].row.idle <= req[p].time
      BY <3>1 DEF IInv, Sound
    <3>3. req[p].token = t
      BY <3>1 DEF IInv, RowsSound
    <3> QED
      BY <3>1, <3>2, <3>3
  <2>4. ASSUME NEW p \in Clients, Served(p) PROVE t \in left'
    BY <2>4 DEF Served, IInv, RowsSound
  <2>5. ASSUME NEW p \in Clients, Touch(p) PROVE FALSE
    <3>1. req[p].time \in Nat \ {0} /\ req[p].row \in SessionRows
      BY <2>5 DEF Touch, IInv, Sound, Requests
    <3>2. Extended(req[p].row, req[p].time) # NoRow
      BY <3>1, ExtendedFacts
    <3> QED
      BY <2>5, <3>2 DEF Touch, IInv, RowsSound
  <2>6. ASSUME NEW p \in Clients, NEW s \in Tokens, CreateSession(p, s) PROVE FALSE
    BY <2>1, <2>6 DEF CreateSession, IInv, RowsSound
  <2>7. ASSUME NEW p \in Clients,
               \/ \E n \in Names : Ask(p, n)
               \/ AdmitName(p) \/ AdmitSource(p) \/ Verify(p) \/ RecordName(p) \/ RecordSource(p)
               \/ ClearName(p) \/ ClearSource(p)
               \/ \E s \in Tokens, why \in {"current", "mutate", "logout"} : Request(p, s, why)
               \/ Read(p) \/ Decide(p) \/ HangsUp(p)
        PROVE  FALSE
    BY <2>7 DEF Ask, AdmitName, AdmitSource, Verify, RecordName, RecordSource, ClearName, ClearSource,
                Request, Read, Decide, HangsUp
  <2>8. ~Bootstrap /\ ~Tick
    BY DEF Bootstrap, Tick
  <2> QED
    BY <2>2, <2>3, <2>4, <2>5, <2>6, <2>7, <2>8 DEF Next
<1>2. EndsInTime <=> [][InTime]_vars
  BY DEF EndsInTime
<1> HIDE DEF InTime
<1> QED
  BY <1>1, <1>2, Invariance, PTL DEF Spec

\* A block in force is lifted by time or by a right login, whatever the failures of logins that read
\* the clock earlier, and whatever is cleaned up (RecordLoginFailure, ClearLoginFailures).
THEOREM BlocksLast == ASSUME Lifetimes PROVE Spec => BlocksHold
<1> DEFINE Lifted ==
      \A k \in Keys :
        Limited(k, clock) /\ throttle'[k] # throttle[k] =>
          \E p \in Clients : req[p].step \in {"right", "cleared"} /\ req'[p].step # req[p].step
<1>1. IInv /\ [Next]_vars => [Lifted]_vars
  <2> SUFFICES ASSUME IInv, Next, NEW k \in Keys, Limited(k, clock), throttle'[k] # throttle[k]
               PROVE  \E p \in Clients :
                        req[p].step \in {"right", "cleared"} /\ req'[p].step # req[p].step
    OBVIOUS
  <2>1. /\ throttle \in [Keys -> ThrottleRows] /\ clock \in Nat
        /\ throttle[k].until # 0 /\ clock < throttle[k].until /\ throttle[k].until \in Nat
    BY DEF IInv, RowsSound, Limited, ThrottleRows
  <2>2. CASE Cleanup
    <3>1. Over(throttle[k])
      BY <2>2 DEF Cleanup
    <3> QED
      BY <2>1, <3>1 DEF Over
  <2>3. ASSUME NEW p \in Clients, RecordName(p) \/ RecordSource(p) PROVE FALSE
    <3>1. req[p].time \in Nat /\ req[p].time <= clock
      BY DEF IInv, Sound, Requests
    <3>2. \A limit : Failure(throttle[k], req[p].time, limit) = throttle[k]
      BY <2>1, <3>1, FailureFacts
    <3> QED
      BY <2>1, <2>3, <3>2 DEF RecordName, RecordSource
  <2>4. ASSUME NEW p \in Clients, ClearName(p) \/ ClearSource(p)
        PROVE  req[p].step \in {"right", "cleared"} /\ req'[p].step # req[p].step
    BY <2>4 DEF ClearName, ClearSource, Goes, IInv, Requests
  <2>5. ASSUME NEW p \in Clients,
               \/ \E n \in Names : Ask(p, n)
               \/ AdmitName(p) \/ AdmitSource(p) \/ Verify(p)
               \/ \E s \in Tokens : CreateSession(p, s)
               \/ \E s \in Tokens, why \in {"current", "mutate", "logout"} : Request(p, s, why)
               \/ Read(p) \/ Decide(p) \/ DeleteExpired(p) \/ Touch(p) \/ Served(p) \/ HangsUp(p)
        PROVE  FALSE
    BY <2>5 DEF Ask, AdmitName, AdmitSource, Verify, CreateSession, Request, Read, Decide,
                DeleteExpired, Touch, Served, HangsUp
  <2>6. ~Bootstrap /\ ~Tick
    BY DEF Bootstrap, Tick
  <2> QED
    BY <2>2, <2>3, <2>4, <2>5, <2>6 DEF Next
<1>2. BlocksHold <=> [][Lifted]_vars
  BY DEF BlocksHold
<1> HIDE DEF Lifted
<1> QED
  BY <1>1, <1>2, Invariance, PTL DEF Spec

\* A session ends when it should and not before, and so does a block, for any number of requests,
\* names and sessions and for all lifetimes.
THEOREM SessionsAreHeld == ASSUME Lifetimes PROVE Spec => SessionsHold
BY LogoutIsFinal, EndIsAbsolute, SessionsEndInTime, BlocksLast, PTL DEF SessionsHold
===============================================================================
