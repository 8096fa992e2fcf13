------------------------------ MODULE Sessions ------------------------------
(***************************************************************************)
(* Accounts and sessions: Bootstrap, Login, Authenticate and Logout of     *)
(* AuthService in goroutines of their own, and the maintenance worker that *)
(* removes old sessions.                                                   *)
(*                                                                         *)
(* A request reads a session row with one statement and acts on its copy;  *)
(* what it writes later depends on the row's id alone.  Nothing changes or *)
(* deletes an account once it exists (UpdateUser is called by nothing), so *)
(* accounts are active and only their existence is kept.                   *)
(***************************************************************************)
EXTENDS StoredTime

CONSTANTS
    Emails, Tokens,
    Requests,           \* goroutines that may serve requests at the same time
    NoTime,             \* revoked_at NULL; a cleanup that is not running
    TTL,                \* lifetime of a session
    TouchInterval,      \* last_seen_at is not written more often
    KeepRevoked,        \* how long a revoked session is kept
    MaxTime             \* bound: the last instant

\* Config.Validate asks for a TTL of five minutes, the touch interval, at least.
ASSUME PolicyAssumption ==
    /\ TTL \in Nat /\ TouchInterval \in Nat /\ KeepRevoked \in Nat
    /\ Second <= TouchInterval /\ TouchInterval <= TTL /\ Second <= KeepRevoked
\* The text of a whole second sorts after all that come before it.
ASSUME BoundsAssumption == MaxTime \in Nat /\ MaxTime % Second = 0 /\ NoTime \notin Int

VARIABLES
    now,
    accounts,       \* users: the emails that have a row
    session,        \* sessions, by token
    audits,         \* audit_events about sessions
    known,          \* tokens that a login has handed to its client
    loggedOut,      \* tokens whose logout has been answered
    starting,       \* Bootstrap between its read and its insert
    logins,         \* Login between IssueSession and its reply
    authenticating, \* Authenticate with the row it has read
    touching,       \* Authenticate with the touched copy
    serving,        \* authenticated requests
    logouts,        \* Logout between its clock and its reply
    cleaning        \* the instant a running cleanup has read, or NoTime

rows == <<accounts, session, audits>>
clients == <<known, loggedOut>>
requests == <<starting, logins, authenticating, touching, serving, logouts>>
vars == <<now, rows, clients, requests, cleaning>>

NoSession == [status |-> "none", expires |-> 0, revoked |-> NoTime, lastSeen |-> 0]

Init ==
    /\ now = 0
    /\ accounts = {} /\ session = [t \in Tokens |-> NoSession] /\ audits = {}
    /\ known = {} /\ loggedOut = {}
    /\ starting = {} /\ logins = {} /\ authenticating = {}
    /\ touching = {} /\ serving = {} /\ logouts = {}
    /\ cleaning = NoTime

InFlight == starting \cup logins \cup authenticating \cup touching \cup serving \cup logouts
Free(r) == \A q \in InFlight : q.id # r

Stored(t) == session[t].status = "stored"

Tick == now < MaxTime /\ now' = now + 1 /\ UNCHANGED <<rows, clients, requests, cleaning>>

\* A request replies, or ends before its next step: it is refused, its client
\* leaves, a statement fails, the process dies.
Leave(r) ==
    /\ ~Free(r)
    /\ starting' = {q \in starting : q.id # r}
    /\ logins' = {q \in logins : q.id # r}
    /\ authenticating' = {q \in authenticating : q.id # r}
    /\ touching' = {q \in touching : q.id # r}
    /\ serving' = {q \in serving : q.id # r}
    /\ logouts' = {q \in logouts : q.id # r}
    /\ UNCHANGED <<now, rows, clients, cleaning>>

------------------------------------------------------------------------------
(* Bootstrap: a process that starts, beside others that start or run *)

\* UserByEmail finds nobody.
BootstrapRead(r, e) ==
    /\ Free(r) /\ e \notin accounts
    /\ starting' = starting \cup {[id |-> r, email |-> e]}
    /\ UNCHANGED <<now, rows, clients, logins, authenticating, touching, serving, logouts, cleaning>>

\* InsertUser, under the unique index on the email.
BootstrapInsert(q) ==
    /\ q \in starting /\ q.email \notin accounts
    /\ accounts' = accounts \cup {q.email}
    /\ starting' = starting \ {q}
    /\ UNCHANGED <<now, session, audits, clients, logins, authenticating, touching, serving,
                   logouts, cleaning>>

------------------------------------------------------------------------------
(* Login *)

\* IssueSession.
IssueSession(at) ==
    [status |-> "stored", expires |-> at + TTL, revoked |-> NoTime, lastSeen |-> at]

\* UserByEmail, VerifyPassword and IssueSession, which draws a fresh token.
LoginIssue(r, e, t) ==
    /\ Free(r) /\ e \in accounts
    /\ session[t].status = "none" /\ \A q \in logins : q.token # t
    /\ logins' = logins \cup {[id |-> r, token |-> t, row |-> IssueSession(now), step |-> "insert"]}
    /\ UNCHANGED <<now, rows, clients, starting, authenticating, touching, serving, logouts, cleaning>>

\* InsertSession.
LoginInsert(q) ==
    /\ q \in logins /\ q.step = "insert"
    /\ session' = [session EXCEPT ![q.token] = q.row]
    /\ logins' = (logins \ {q}) \cup {[q EXCEPT !.step = "audit"]}
    /\ UNCHANGED <<now, accounts, audits, clients, starting, authenticating, touching, serving,
                   logouts, cleaning>>

\* Slip: the token is handed out before the event is recorded.
LoginReplyFirst(q) ==
    /\ q \in logins /\ q.step = "audit"
    /\ known' = known \cup {q.token}
    /\ audits' \in {audits, audits \cup {[action |-> "login", token |-> q.token]}}
    /\ logins' = logins \ {q}
    /\ UNCHANGED <<now, accounts, session, loggedOut, starting, authenticating, touching, serving,
                   logouts, cleaning>>

\* InsertAudit and the reply, which may not arrive.
LoginReply(q) ==
    /\ q \in logins /\ q.step = "audit"
    /\ audits' = audits \cup {[action |-> "login", token |-> q.token]}
    /\ known' \in {known, known \cup {q.token}}
    /\ logins' = logins \ {q}
    /\ UNCHANGED <<now, accounts, session, loggedOut, starting, authenticating, touching, serving,
                   logouts, cleaning>>

------------------------------------------------------------------------------
(* Authenticate *)

\* SessionByHash.  late: a logout of this session was answered before the read.
AuthRead(r, t) ==
    /\ Free(r) /\ t \in known /\ Stored(t)
    /\ authenticating' = authenticating \cup
           {[id |-> r, token |-> t, row |-> session[t], late |-> t \in loggedOut]}
    /\ UNCHANGED <<now, rows, clients, starting, logins, touching, serving, logouts, cleaning>>

\* Slip: a revocation is not looked at.
ValidateExpiryOnly(row) == now < row.expires

\* Session.Validate.
Validate(row) == row.revoked = NoTime /\ now < row.expires

\* Session.Touch.
NeedsTouch(row) == now - row.lastSeen >= TouchInterval

\* The clock is read after the row, which has not been touched for a while.
AuthTouches(q) ==
    /\ q \in authenticating /\ Validate(q.row) /\ NeedsTouch(q.row)
    /\ authenticating' = authenticating \ {q}
    /\ touching' = touching \cup {[q EXCEPT !.row.lastSeen = now]}
    /\ UNCHANGED <<now, rows, clients, starting, logins, serving, logouts, cleaning>>

AuthAccepts(q) ==
    /\ q \in authenticating /\ Validate(q.row) /\ ~NeedsTouch(q.row)
    /\ authenticating' = authenticating \ {q}
    /\ serving' = serving \cup {[id |-> q.id, token |-> q.token, late |-> q.late]}
    /\ UNCHANGED <<now, rows, clients, starting, logins, touching, logouts, cleaning>>

\* Slip: the whole row is written back as it was read.
TouchedRow(q) == q.row

\* Slip: the instant of the write, not of the judgement.
TouchedAtWrite(q) == [session[q.token] EXCEPT !.lastSeen = now]

\* The UPDATE of last_seen_at.
Touched(q) == [session[q.token] EXCEPT !.lastSeen = q.row.lastSeen]

\* TouchSession, which does not mind if the row is gone or revoked.
TouchSession(q) ==
    /\ q \in touching
    /\ session' = IF Stored(q.token) THEN [session EXCEPT ![q.token] = Touched(q)] ELSE session
    /\ touching' = touching \ {q}
    /\ serving' = serving \cup {[id |-> q.id, token |-> q.token, late |-> q.late]}
    /\ UNCHANGED <<now, accounts, audits, clients, starting, logins, authenticating, logouts, cleaning>>

------------------------------------------------------------------------------
(* Logout *)

LogoutBegin(q) ==
    /\ q \in serving
    /\ serving' = serving \ {q}
    /\ logouts' = logouts \cup {[id |-> q.id, token |-> q.token, at |-> now, step |-> "revoke"]}
    /\ UNCHANGED <<now, rows, clients, starting, logins, authenticating, touching, cleaning>>

\* Slip: without the condition revoked_at IS NULL.
RevokedAnew(q) == [session[q.token] EXCEPT !.revoked = q.at]

\* The UPDATE of revoked_at: the first revocation stays.
Revoked(q) ==
    IF session[q.token].revoked = NoTime THEN [session[q.token] EXCEPT !.revoked = q.at]
    ELSE session[q.token]

\* RevokeSession: a row that is gone is an error.
RevokeSession(q) ==
    /\ q \in logouts /\ q.step = "revoke" /\ Stored(q.token)
    /\ session' = [session EXCEPT ![q.token] = Revoked(q)]
    /\ logouts' = (logouts \ {q}) \cup {[q EXCEPT !.step = "audit"]}
    /\ UNCHANGED <<now, accounts, audits, clients, starting, logins, authenticating, touching,
                   serving, cleaning>>

\* InsertAudit and the reply.
LogoutReply(q) ==
    /\ q \in logouts /\ q.step = "audit"
    /\ audits' = audits \cup {[action |-> "logout", token |-> q.token]}
    /\ loggedOut' = loggedOut \cup {q.token}
    /\ logouts' = logouts \ {q}
    /\ UNCHANGED <<now, accounts, session, known, starting, logins, authenticating, touching,
                   serving, cleaning>>

------------------------------------------------------------------------------
(* Maintenance.Run, in one of the processes *)

\* The ticker fires, and Cleanup reads the clock.
CleanupBegin ==
    /\ cleaning = NoTime
    /\ cleaning' = now
    /\ UNCHANGED <<now, rows, clients, requests>>

\* Slip: revoked sessions are not kept for a day.
RemovableAtOnce(row) ==
    \/ TextLE(row.expires, cleaning)
    \/ row.revoked # NoTime /\ TextLE(row.revoked, cleaning)

\* Slip: only revoked sessions are removed.
RemovableIfRevoked(row) == row.revoked # NoTime /\ TextLE(row.revoked, cleaning - KeepRevoked)

\* The WHERE clause of DeleteExpiredSessions, over texts.
Removable(row) ==
    \/ TextLE(row.expires, cleaning)
    \/ row.revoked # NoTime /\ TextLE(row.revoked, cleaning - KeepRevoked)

\* DeleteExpiredSessions.
CleanupCommit ==
    /\ cleaning # NoTime
    /\ session' = [t \in Tokens |-> IF Stored(t) /\ Removable(session[t])
                                    THEN [session[t] EXCEPT !.status = "deleted"]
                                    ELSE session[t]]
    /\ cleaning' = NoTime
    /\ UNCHANGED <<now, accounts, audits, clients, requests>>

\* The statement fails and is logged, or the process ends.
CleanupFails ==
    /\ cleaning # NoTime
    /\ cleaning' = NoTime
    /\ UNCHANGED <<now, rows, clients, requests>>

------------------------------------------------------------------------------

Next ==
    \/ Tick
    \/ \E r \in Requests :
        \/ Leave(r)
        \/ \E e \in Emails : BootstrapRead(r, e) \/ \E t \in Tokens : LoginIssue(r, e, t)
        \/ \E t \in Tokens : AuthRead(r, t)
    \/ \E q \in starting : BootstrapInsert(q)
    \/ \E q \in logins : LoginInsert(q) \/ LoginReply(q)
    \/ \E q \in authenticating : AuthTouches(q) \/ AuthAccepts(q)
    \/ \E q \in touching : TouchSession(q)
    \/ \E q \in serving : LogoutBegin(q)
    \/ \E q \in logouts : RevokeSession(q) \/ LogoutReply(q)
    \/ CleanupBegin \/ CleanupCommit \/ CleanupFails

Spec == Init /\ [][Next]_vars

\* Time passes, the maintenance ticker keeps firing, and its statement does not
\* fail for ever.
FairSpec == Spec /\ WF_vars(Tick) /\ WF_vars(CleanupBegin) /\ SF_vars(CleanupCommit)

------------------------------------------------------------------------------
(* Properties *)

SessionRow == [status : {"none", "stored", "deleted"}, expires : Nat,
               revoked : Nat \cup {NoTime}, lastSeen : Nat]

\* The columns' types, and of the requests in flight.
TypeOK ==
    /\ now \in 0..MaxTime /\ cleaning \in 0..now \cup {NoTime}
    /\ accounts \subseteq Emails /\ session \in [Tokens -> SessionRow]
    /\ \A a \in audits : a \in [action : {"login", "logout"}, token : Tokens]
    /\ known \subseteq Tokens /\ loggedOut \subseteq Tokens
    /\ \A q \in starting : q \in [id : Requests, email : Emails]
    /\ \A q \in logins : q \in [id : Requests, token : Tokens, row : SessionRow,
                                step : {"insert", "audit"}]
    /\ \A q \in authenticating \cup touching :
           q \in [id : Requests, token : Tokens, row : SessionRow, late : BOOLEAN]
    /\ \A q \in serving : q \in [id : Requests, token : Tokens, late : BOOLEAN]
    /\ \A q \in logouts : q \in [id : Requests, token : Tokens, at : Nat,
                                 step : {"revoke", "audit"}]

\* Once a logout has been answered, no request that comes later is accepted with
\* its token, whatever touches, logouts and cleanups were under way (Validate,
\* TouchSession, RevokeSession).
LogoutIsEffective == \A q \in touching \cup serving : ~q.late

\* A session was last seen while it was valid and not in the future: a touch that
\* is late still writes the instant at which the request was judged.
SeenWhileValid ==
    \A t \in Tokens : Stored(t) =>
        /\ session[t].lastSeen <= now
        /\ session[t].lastSeen < session[t].expires
        /\ session[t].expires <= now + TTL

\* A client holds a token only if its login is in the audit log, a logout is
\* answered only if it is there too, and what is logged there has happened: of the
\* statements of Login and Logout any one may be the last.
SessionsAudited ==
    /\ \A t \in known : [action |-> "login", token |-> t] \in audits
    /\ \A t \in loggedOut : [action |-> "logout", token |-> t] \in audits
    /\ \A a \in audits :
        /\ session[a.token].status # "none"
        /\ a.action = "logout" => session[a.token].revoked # NoTime

\* A revocation stays as it was first written: neither a touch nor a second logout
\* that was under way undoes or moves it (TouchSession, RevokeSession).
RevocationIsFinal ==
    [][\A t \in Tokens : session[t].revoked # NoTime =>
          session'[t].revoked = session[t].revoked]_vars

\* The cleanup removes a session at most a second before it would have ended, and a
\* revoked one at most a second before its day is over (DeleteExpiredSessions
\* compares texts, on a clock read before).
CleanupSparesLive ==
    [][\A t \in Tokens : Stored(t) /\ session'[t].status = "deleted" =>
          \/ session[t].expires < now + Second
          \/ session[t].revoked # NoTime /\ session[t].revoked + KeepRevoked < now + Second]_vars

\* Every session is removed in the end, also one whose login failed after its insert
\* and whose token nobody has (Login, Maintenance.Run).
SessionsGoAway ==
    \A t \in Tokens : (Stored(t) /\ session[t].expires <= MaxTime) ~> session[t].status = "deleted"
=============================================================================
