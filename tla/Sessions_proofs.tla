--------------------------- MODULE Sessions_proofs ---------------------------
(***************************************************************************)
(* Sessions stay revoked, logouts are effective, and the cleanup spares    *)
(* what is alive, for any number of tokens, accounts and requests, any     *)
(* lifetime and any resolution of the stored texts.                        *)
(*                                                                         *)
(* The argument goes by the rows.  A row is written whole only by the      *)
(* login that drew its token, before anybody else can know the token;      *)
(* after that each statement changes one column and the revocation of a    *)
(* row never goes back (RowsAdvance).  So what a request has read of a row *)
(* stays true in the direction it needs: an expiry for ever, a revocation  *)
(* once it is there.                                                       *)
(***************************************************************************)
EXTENDS Sessions, StoredTime_proofs

\* A row that has been issued: seen while it was valid.
Issued(row) ==
    /\ row.lastSeen <= now
    /\ row.lastSeen < row.expires
    /\ row.expires <= now + TTL

RowsSound ==
    \A t \in Tokens :
        IF session[t].status = "none" THEN session[t].revoked = NoTime ELSE Issued(session[t])

LoginsSound ==
    /\ \A q \in logins :
        /\ Issued(q.row) /\ q.row.status = "stored" /\ q.row.revoked = NoTime
        /\ q.step = "insert" <=> session[q.token].status = "none"
    /\ \A p, q \in logins : p.token = q.token => p = q

\* The copy of a row and the row.
CopySound(q) ==
    session[q.token].status # "none" /\ session[q.token].expires = q.row.expires

CopiesSound ==
    /\ \A q \in authenticating : CopySound(q) /\ (q.late => q.row.revoked # NoTime)
    /\ \A q \in touching : CopySound(q) /\ Issued(q.row)

\* What was logged out is revoked.
LogoutsSound ==
    /\ \A q \in logouts : q.step = "audit" =>
           session[q.token].status # "none" /\ session[q.token].revoked # NoTime
    /\ \A t \in loggedOut : session[t].revoked # NoTime

IInv == RowsSound /\ LoginsSound /\ CopiesSound /\ LogoutsSound

-----------------------------------------------------------------------------
(* Types *)

LEMMA Constant ==
    /\ MaxTime \in Nat /\ TTL \in Nat /\ TTL >= 1 /\ NoTime \notin Int
    /\ KeepRevoked \in Nat /\ Second \in Nat /\ Second >= 1
BY PolicyAssumption, BoundsAssumption, SecondAssumption

LEMMA InitType == Init => TypeOK
BY Constant DEF Init, TypeOK, NoSession, SessionRow

LEMMA StepType == TypeOK /\ [Next]_vars => TypeOK'
<1> SUFFICES ASSUME TypeOK, [Next]_vars PROVE TypeOK'
  OBVIOUS
<1> USE Constant
<1>1. now \in Nat /\ now <= MaxTime
  BY DEF TypeOK
<1>2. CASE UNCHANGED vars
  BY <1>2 DEF TypeOK, vars, rows, clients, requests
<1>3. CASE Tick
  BY <1>3 DEF TypeOK, Tick, rows, clients, requests
<1>4. ASSUME NEW r \in Requests, Leave(r) PROVE TypeOK'
  BY <1>4 DEF TypeOK, Leave, rows, clients
<1>5. ASSUME NEW r \in Requests, NEW e \in Emails, BootstrapRead(r, e) PROVE TypeOK'
  BY <1>5 DEF TypeOK, BootstrapRead, rows, clients
<1>6. ASSUME NEW r \in Requests, NEW e \in Emails, NEW t \in Tokens, LoginIssue(r, e, t)
      PROVE  TypeOK'
  <2>1. IssueSession(now) \in SessionRow
    BY <1>1 DEF IssueSession, SessionRow
  <2> QED BY <1>6, <2>1 DEF TypeOK, LoginIssue, rows, clients
<1>7. ASSUME NEW r \in Requests, NEW t \in Tokens, AuthRead(r, t) PROVE TypeOK'
  <2>1. PICK q : q = [id |-> r, token |-> t, row |-> session[t], late |-> t \in loggedOut]
    OBVIOUS
  <2>2. (t \in loggedOut) \in BOOLEAN /\ session[t] \in SessionRow
    BY DEF TypeOK
  <2>3. q \in [id : Requests, token : Tokens, row : SessionRow, late : BOOLEAN]
    BY <2>1, <2>2, Zenon
  <2>4. authenticating' = authenticating \cup {q}
    BY <1>7, <2>1 DEF AuthRead
  <2> QED BY <1>7, <2>3, <2>4 DEF TypeOK, AuthRead, rows, clients
<1>8. ASSUME NEW q \in starting, BootstrapInsert(q) PROVE TypeOK'
  BY <1>8 DEF TypeOK, BootstrapInsert, clients
<1>9. ASSUME NEW q \in logins, LoginInsert(q) PROVE TypeOK'
  BY <1>9 DEF TypeOK, LoginInsert, clients
<1>10. ASSUME NEW q \in logins, LoginReply(q) PROVE TypeOK'
  BY <1>10 DEF TypeOK, LoginReply
<1>11. ASSUME NEW q \in authenticating, AuthTouches(q) PROVE TypeOK'
  <2>1. PICK r : r = [q EXCEPT !.row.lastSeen = now]
    OBVIOUS
  <2>2. r \in [id : Requests, token : Tokens, row : SessionRow, late : BOOLEAN]
    BY <1>1, <2>1 DEF TypeOK, SessionRow
  <2>3. touching' = touching \cup {r}
    BY <1>11, <2>1 DEF AuthTouches
  <2> QED BY <1>11, <2>2, <2>3 DEF TypeOK, AuthTouches, rows, clients
<1>12. ASSUME NEW q \in authenticating, AuthAccepts(q) PROVE TypeOK'
  BY <1>12 DEF TypeOK, AuthAccepts, rows, clients
<1>13. ASSUME NEW q \in touching, TouchSession(q) PROVE TypeOK'
  <2>1. Touched(q) \in SessionRow
    BY DEF TypeOK, Touched, SessionRow
  <2>2. session' \in [Tokens -> SessionRow]
    BY <1>13, <2>1 DEF TypeOK, TouchSession
  <2> QED BY <1>13, <2>2 DEF TypeOK, TouchSession, clients
<1>14. ASSUME NEW q \in serving, LogoutBegin(q) PROVE TypeOK'
  BY <1>1, <1>14 DEF TypeOK, LogoutBegin, rows, clients
<1>15. ASSUME NEW q \in logouts, RevokeSession(q) PROVE TypeOK'
  <2>1. Revoked(q) \in SessionRow
    BY DEF TypeOK, Revoked, SessionRow
  <2> QED BY <1>15, <2>1 DEF TypeOK, RevokeSession, clients
<1>16. ASSUME NEW q \in logouts, LogoutReply(q) PROVE TypeOK'
  BY <1>16 DEF TypeOK, LogoutReply
<1>17. CASE CleanupBegin
  BY <1>1, <1>17 DEF TypeOK, CleanupBegin, rows, clients, requests
<1>18. CASE CleanupCommit
  <2>1. \A t \in Tokens : [session[t] EXCEPT !.status = "deleted"] \in SessionRow
    BY DEF TypeOK, SessionRow
  <2>2. session' \in [Tokens -> SessionRow]
    BY <1>18, <2>1 DEF TypeOK, CleanupCommit
  <2> QED BY <1>18, <2>2 DEF TypeOK, CleanupCommit, clients, requests
<1>19. CASE CleanupFails
  BY <1>19 DEF TypeOK, CleanupFails, rows, clients, requests
<1> QED BY <1>2, <1>3, <1>4, <1>5, <1>6, <1>7, <1>8, <1>9, <1>10, <1>11, <1>12, <1>13, <1>14,
           <1>15, <1>16, <1>17, <1>18, <1>19 DEF Next

\* The columns and the requests keep their types (TypeOK).
THEOREM TypeCorrect == Spec => []TypeOK
BY InitType, StepType, PTL DEF Spec

-----------------------------------------------------------------------------
(* Rows advance *)

\* What no step takes back from a row that exists.
Advances(t) ==
    /\ session[t].status # "none" =>
           session'[t].status # "none" /\ session'[t].expires = session[t].expires
    /\ session[t].revoked # NoTime => session'[t].revoked = session[t].revoked

\* Only a login makes a row, and no step changes what a row has been given.
LEMMA RowsAdvance ==
    TypeOK /\ RowsSound /\ LoginsSound /\ [Next]_vars => \A t \in Tokens : Advances(t)
<1> SUFFICES ASSUME TypeOK, RowsSound, LoginsSound, [Next]_vars, NEW t \in Tokens
             PROVE  Advances(t)
  OBVIOUS
<1>1. ASSUME NEW q \in logins, LoginInsert(q) PROVE Advances(t)
  <2>1. session[q.token].status = "none" /\ session[q.token].revoked = NoTime
    BY <1>1 DEF LoginInsert, LoginsSound, RowsSound, TypeOK
  <2>2. t # q.token => session'[t] = session[t]
    BY <1>1 DEF LoginInsert, TypeOK
  <2> QED BY <2>1, <2>2 DEF Advances
<1>2. ASSUME NEW q \in touching, TouchSession(q) PROVE Advances(t)
  <2>1. session'[t] = session[t] \/ session'[t] = [session[t] EXCEPT !.lastSeen = q.row.lastSeen]
    BY <1>2 DEF TouchSession, Touched, TypeOK
  <2> QED BY <2>1 DEF Advances, TypeOK, SessionRow
<1>3. ASSUME NEW q \in logouts, RevokeSession(q) PROVE Advances(t)
  <2>1. \/ session'[t] = session[t]
        \/ session[t].revoked = NoTime /\ session'[t] = [session[t] EXCEPT !.revoked = q.at]
    BY <1>3 DEF RevokeSession, Revoked, TypeOK
  <2> QED BY <2>1 DEF Advances, TypeOK, SessionRow
<1>4. CASE CleanupCommit
  <2>1. session'[t] = session[t] \/ session'[t] = [session[t] EXCEPT !.status = "deleted"]
    BY <1>4 DEF CleanupCommit
  <2> QED BY <2>1 DEF Advances, TypeOK, SessionRow
<1>5. CASE UNCHANGED session
  BY <1>5 DEF Advances
<1> QED BY <1>1, <1>2, <1>3, <1>4, <1>5
    DEF Next, vars, rows, Tick, Leave, BootstrapRead, BootstrapInsert, LoginIssue, LoginReply,
        AuthRead, AuthTouches, AuthAccepts, LogoutBegin, LogoutReply, CleanupBegin, CleanupFails

LEMMA InitSound == Init => IInv
BY DEF Init, IInv, RowsSound, LoginsSound, CopiesSound, LogoutsSound, NoSession

LEMMA TimeAdvances == TypeOK /\ [Next]_vars => now \in Int /\ now' \in Int /\ now <= now'
BY DEF Next, vars, rows, TypeOK, Tick, Leave, BootstrapRead, BootstrapInsert, LoginIssue,
       LoginInsert, LoginReply, AuthRead, AuthTouches, AuthAccepts, TouchSession, LogoutBegin,
       RevokeSession, LogoutReply, CleanupBegin, CleanupCommit, CleanupFails

\* A row stays issued as time passes.
LEMMA StaysIssued ==
    ASSUME TypeOK, [Next]_vars, NEW row \in SessionRow, Issued(row)
    PROVE  Issued(row)'
BY TimeAdvances, Constant DEF Issued, SessionRow

LEMMA StepRows == TypeOK /\ IInv /\ [Next]_vars => RowsSound'
<1> SUFFICES ASSUME TypeOK, IInv, [Next]_vars, NEW t \in Tokens
             PROVE  IF session'[t].status = "none" THEN session'[t].revoked = NoTime
                    ELSE Issued(session[t])'
  BY DEF RowsSound
<1>1. IF session[t].status = "none" THEN session[t].revoked = NoTime
      ELSE Issued(session[t]) /\ \A row \in SessionRow : Issued(row) => Issued(row)'
  BY StaysIssued DEF IInv, RowsSound
<1>2. session[t] \in SessionRow
  BY DEF TypeOK
<1>3. CASE UNCHANGED session
  BY <1>1, <1>2, <1>3 DEF Issued
<1>4. ASSUME NEW q \in logins, LoginInsert(q)
      PROVE  IF session'[t].status = "none" THEN session'[t].revoked = NoTime
             ELSE Issued(session[t])'
  <2>1. session'[t] = q.row \/ session'[t] = session[t]
    BY <1>4 DEF LoginInsert, TypeOK
  <2>2. q.row.status # "none" /\ Issued(q.row)
    BY DEF IInv, LoginsSound
  <2>3. now' = now
    BY <1>4 DEF LoginInsert
  <2> QED BY <1>1, <2>1, <2>2, <2>3 DEF Issued
<1>5. ASSUME NEW q \in touching, TouchSession(q)
      PROVE  IF session'[t].status = "none" THEN session'[t].revoked = NoTime
             ELSE Issued(session[t])'
  <2>1. \/ session'[t] = session[t]
        \/ q.token = t /\ session'[t] = [session[t] EXCEPT !.lastSeen = q.row.lastSeen]
    BY <1>5 DEF TouchSession, Touched, TypeOK
  <2>2. Issued(q.row) /\ (q.token = t => session[t].expires = q.row.expires)
        /\ (q.token = t => session[t].status # "none")
    BY DEF IInv, CopiesSound, CopySound
  <2>3. now' = now
    BY <1>5 DEF TouchSession
  <2> QED BY <1>1, <1>2, <2>1, <2>2, <2>3 DEF Issued, SessionRow
<1>6. ASSUME NEW q \in logouts, RevokeSession(q)
      PROVE  IF session'[t].status = "none" THEN session'[t].revoked = NoTime
             ELSE Issued(session[t])'
  <2>1. \/ session'[t] = session[t]
        \/ session[t].status # "none" /\ session'[t] = [session[t] EXCEPT !.revoked = q.at]
    BY <1>6 DEF RevokeSession, Revoked, TypeOK, Stored
  <2>2. now' = now
    BY <1>6 DEF RevokeSession
  <2> QED BY <1>1, <1>2, <2>1, <2>2 DEF Issued, SessionRow
<1>7. CASE CleanupCommit
  <2>1. \/ session'[t] = session[t]
        \/ session[t].status # "none" /\ session'[t] = [session[t] EXCEPT !.status = "deleted"]
    BY <1>7 DEF CleanupCommit, Stored
  <2>2. now' = now
    BY <1>7 DEF CleanupCommit
  <2> QED BY <1>1, <1>2, <2>1, <2>2 DEF Issued, SessionRow
<1> QED BY <1>3, <1>4, <1>5, <1>6, <1>7
    DEF Next, vars, rows, Tick, Leave, BootstrapRead, BootstrapInsert, LoginIssue, LoginReply,
        AuthRead, AuthTouches, AuthAccepts, LogoutBegin, LogoutReply, CleanupBegin, CleanupFails

LEMMA StepCopies == TypeOK /\ IInv /\ [Next]_vars => CopiesSound'
<1> SUFFICES ASSUME TypeOK, IInv, [Next]_vars PROVE CopiesSound'
  OBVIOUS
<1>0. \A q \in authenticating \cup touching : q.token \in Tokens /\ q.row \in SessionRow
  BY DEF TypeOK
<1>1. \A q : q.token \in Tokens /\ CopySound(q) => CopySound(q)'
  BY RowsAdvance DEF IInv, Advances, CopySound
<1>2. \A row \in SessionRow : Issued(row) => Issued(row)'
  BY StaysIssued
<1>3. ASSUME NEW q \in authenticating
      PROVE  CopySound(q)' /\ (q.late => q.row.revoked # NoTime)
  BY <1>0, <1>1 DEF IInv, CopiesSound
<1>4. ASSUME NEW q \in touching PROVE CopySound(q)' /\ Issued(q.row)'
  BY <1>0, <1>1, <1>2 DEF IInv, CopiesSound
<1>5. CASE authenticating' \subseteq authenticating /\ touching' \subseteq touching
  BY <1>3, <1>4, <1>5 DEF CopiesSound
<1>6. ASSUME NEW r \in Requests, NEW t \in Tokens, AuthRead(r, t) PROVE CopiesSound'
  <2>1. PICK q : q = [id |-> r, token |-> t, row |-> session[t], late |-> t \in loggedOut]
    OBVIOUS
  <2>2. authenticating' = authenticating \cup {q} /\ touching' = touching /\ session' = session
        /\ session[t].status = "stored"
    BY <1>6, <2>1 DEF AuthRead, rows, Stored
  <2>3. q.token = t /\ q.row = session[t] /\ (q.late => t \in loggedOut)
    BY <2>1, Zenon
  <2>4. q.late => q.row.revoked # NoTime
    BY <2>3 DEF IInv, LogoutsSound
  <2> QED BY <1>3, <1>4, <2>2, <2>3, <2>4 DEF CopiesSound, CopySound
<1>7. ASSUME NEW q \in authenticating, AuthTouches(q) PROVE CopiesSound'
  <2>1. PICK r : r = [q EXCEPT !.row.lastSeen = now]
    OBVIOUS
  <2>2. authenticating' = authenticating \ {q} /\ touching' = touching \cup {r}
        /\ session' = session /\ now' = now /\ now < q.row.expires
    BY <1>7, <2>1 DEF AuthTouches, rows, Validate
  <2>3. r.token = q.token /\ r.row.expires = q.row.expires /\ r.row.lastSeen = now
    BY <1>0, <2>1 DEF TypeOK, SessionRow
  <2>4. CopySound(q) /\ session[q.token] \in SessionRow
    BY <1>0 DEF IInv, CopiesSound, TypeOK
  <2>5. Issued(session[q.token])
    BY <1>0, <2>4 DEF IInv, RowsSound, CopySound
  <2>6. CopySound(r)' /\ Issued(r.row)'
    BY <2>2, <2>3, <2>4, <2>5, TimeAdvances DEF CopySound, Issued
  <2> QED BY <1>3, <1>4, <2>2, <2>6 DEF CopiesSound
<1> QED BY <1>5, <1>6, <1>7
    DEF Next, vars, requests, Tick, Leave, BootstrapRead, BootstrapInsert, LoginIssue, LoginInsert,
        LoginReply, AuthAccepts, TouchSession, LogoutBegin, RevokeSession, LogoutReply,
        CleanupBegin, CleanupCommit, CleanupFails

LEMMA StepLogins == TypeOK /\ IInv /\ [Next]_vars => LoginsSound'
<1> SUFFICES ASSUME TypeOK, IInv, [Next]_vars PROVE LoginsSound'
  OBVIOUS
<1>0. \A q \in logins : q.token \in Tokens /\ q.row \in SessionRow /\ q.step \in {"insert", "audit"}
  BY DEF TypeOK
<1>1. /\ \A q \in logins : Issued(q.row)' /\ q.row.status = "stored" /\ q.row.revoked = NoTime
      /\ \A p, q \in logins : p.token = q.token => p = q
  BY <1>0, StaysIssued DEF IInv, LoginsSound
<1>2. \A q \in logins : q.step = "insert" <=> session[q.token].status = "none"
  BY DEF IInv, LoginsSound
<1>3. CASE /\ logins' \subseteq logins
           /\ \A t \in Tokens : session'[t].status = "none" <=> session[t].status = "none"
  BY <1>0, <1>1, <1>2, <1>3 DEF LoginsSound
<1>5. ASSUME NEW r \in Requests, NEW e \in Emails, NEW t \in Tokens, LoginIssue(r, e, t)
      PROVE  LoginsSound'
  <2>1. PICK q : q = [id |-> r, token |-> t, row |-> IssueSession(now), step |-> "insert"]
    OBVIOUS
  <2>2. /\ logins' = logins \cup {q} /\ session' = session /\ now' = now
        /\ session[t].status = "none" /\ \A p \in logins : p.token # t
    BY <1>5, <2>1 DEF LoginIssue, rows
  <2>3. q.token = t /\ q.step = "insert" /\ q.row = IssueSession(now)
    BY <2>1
  <2>4. Issued(q.row)' /\ q.row.status = "stored" /\ q.row.revoked = NoTime
    BY <2>2, <2>3, TimeAdvances, Constant DEF IssueSession, Issued
  <2> QED BY <1>1, <1>2, <2>2, <2>3, <2>4 DEF LoginsSound
<1>6. ASSUME NEW q \in logins, LoginInsert(q) PROVE LoginsSound'
  <2>1. PICK r : r = [q EXCEPT !.step = "audit"]
    OBVIOUS
  <2>2. logins' = (logins \ {q}) \cup {r} /\ session' = [session EXCEPT ![q.token] = q.row]
    BY <1>6, <2>1 DEF LoginInsert
  <2>3. r.token = q.token /\ r.step = "audit" /\ r.row = q.row
    BY <2>1 DEF TypeOK
  <2>4. /\ session'[q.token].status = "stored"
        /\ \A t \in Tokens : t # q.token => session'[t] = session[t]
    BY <1>0, <1>1, <2>2 DEF TypeOK
  <2>5. \A p \in logins \ {q} : p.token # q.token
    BY <1>1
  <2> QED BY <1>0, <1>1, <1>2, <2>2, <2>3, <2>4, <2>5 DEF LoginsSound
<1>7. ASSUME NEW q \in logins, LoginReply(q) PROVE LoginsSound'
  <2>1. logins' \subseteq logins /\ session' = session
    BY <1>7 DEF LoginReply
  <2> QED BY <1>3, <2>1
<1>8. ASSUME NEW q \in touching, TouchSession(q) PROVE LoginsSound'
  <2>1. \A t \in Tokens : \/ session'[t] = session[t]
                           \/ session'[t] = [session[t] EXCEPT !.lastSeen = q.row.lastSeen]
    BY <1>8 DEF TouchSession, Touched, TypeOK
  <2>2. \A t \in Tokens : session'[t].status = "none" <=> session[t].status = "none"
    BY <2>1 DEF TypeOK, SessionRow
  <2> QED BY <1>3, <1>8, <2>2 DEF TouchSession
<1>9. ASSUME NEW q \in logouts, RevokeSession(q) PROVE LoginsSound'
  <2>1. \A t \in Tokens : \/ session'[t] = session[t]
                           \/ session'[t] = [session[t] EXCEPT !.revoked = q.at]
    BY <1>9 DEF RevokeSession, Revoked, TypeOK
  <2>2. \A t \in Tokens : session'[t].status = "none" <=> session[t].status = "none"
    BY <2>1 DEF TypeOK, SessionRow
  <2> QED BY <1>3, <1>9, <2>2 DEF RevokeSession
<1>10. CASE CleanupCommit
  <2>1. \A t \in Tokens : \/ session'[t] = session[t]
                           \/ /\ session[t].status = "stored"
                              /\ session'[t] = [session[t] EXCEPT !.status = "deleted"]
    BY <1>10 DEF CleanupCommit, Stored
  <2>2. \A t \in Tokens : session'[t].status = "none" <=> session[t].status = "none"
    BY <2>1 DEF TypeOK, SessionRow
  <2> QED BY <1>3, <1>10, <2>2 DEF CleanupCommit, requests
<1>11. CASE UNCHANGED <<session, logins>> \/ \E r \in Requests : Leave(r)
  BY <1>3, <1>11 DEF Leave, rows
<1> QED BY <1>5, <1>6, <1>7, <1>8, <1>9, <1>10, <1>11
    DEF Next, vars, rows, requests, Tick, BootstrapRead, BootstrapInsert, AuthRead, AuthTouches,
        AuthAccepts, LogoutBegin, LogoutReply, CleanupBegin, CleanupFails

LEMMA StepLogouts == TypeOK /\ IInv /\ [Next]_vars => LogoutsSound'
<1> SUFFICES ASSUME TypeOK, IInv, [Next]_vars PROVE LogoutsSound'
  OBVIOUS
<1>0. (\A q \in logouts : q.token \in Tokens) /\ loggedOut \subseteq Tokens
  BY DEF TypeOK
<1>1. /\ \A q \in logouts : q.step = "audit" =>
             session'[q.token].status # "none" /\ session'[q.token].revoked # NoTime
      /\ \A t \in loggedOut : session'[t].revoked # NoTime
  BY <1>0, RowsAdvance DEF IInv, LogoutsSound, Advances
<1>2. CASE logouts' \subseteq logouts /\ loggedOut' = loggedOut
  BY <1>1, <1>2 DEF LogoutsSound
<1>3. ASSUME NEW q \in serving, LogoutBegin(q) PROVE LogoutsSound'
  BY <1>1, <1>3 DEF LogoutBegin, LogoutsSound, clients
<1>4. ASSUME NEW q \in logouts, RevokeSession(q) PROVE LogoutsSound'
  <2>1. PICK r : r = [q EXCEPT !.step = "audit"]
    OBVIOUS
  <2>2. logouts' = (logouts \ {q}) \cup {r} /\ loggedOut' = loggedOut
        /\ session' = [session EXCEPT ![q.token] = Revoked(q)]
    BY <1>4, <2>1 DEF RevokeSession, clients
  <2>3. r.token = q.token /\ q.at # NoTime
    BY <2>1, Constant DEF TypeOK
  <2>4. Revoked(q).revoked # NoTime /\ Revoked(q).status = "stored"
    BY <1>4, <2>3 DEF Revoked, RevokeSession, Stored, TypeOK, SessionRow
  <2>5. session'[r.token] = Revoked(q)
    BY <1>0, <2>2, <2>3 DEF TypeOK
  <2> QED BY <1>1, <2>2, <2>4, <2>5 DEF LogoutsSound
<1>5. ASSUME NEW q \in logouts, LogoutReply(q) PROVE LogoutsSound'
  BY <1>1, <1>5 DEF LogoutReply, LogoutsSound
<1> QED BY <1>2, <1>3, <1>4, <1>5
    DEF Next, vars, clients, requests, Tick, Leave, BootstrapRead, BootstrapInsert, LoginIssue,
        LoginInsert, LoginReply, AuthRead, AuthTouches, AuthAccepts, TouchSession,
        CleanupBegin, CleanupCommit, CleanupFails

\* Requests in flight and rows are in step.
THEOREM SessionsSound == Spec => [](TypeOK /\ IInv)
<1>1. TypeOK /\ IInv /\ [Next]_vars => IInv'
  BY StepRows, StepLogins, StepCopies, StepLogouts DEF IInv
<1> QED BY <1>1, InitType, InitSound, StepType, PTL DEF Spec

-----------------------------------------------------------------------------
(* The properties *)

\* A revocation stays as it was first written (RevocationIsFinal).
THEOREM RevokedForGood == Spec => RevocationIsFinal
<1>1. TypeOK /\ IInv /\ [Next]_vars =>
        [\A t \in Tokens : session[t].revoked # NoTime =>
            session'[t].revoked = session[t].revoked]_vars
  BY RowsAdvance DEF IInv, Advances
<1> QED BY <1>1, SessionsSound, PTL DEF Spec, RevocationIsFinal

\* No request that comes after the answer to a logout is accepted (LogoutIsEffective).
THEOREM LogoutEffective == Spec => []LogoutIsEffective
<1>1. Init => LogoutIsEffective
  BY DEF Init, LogoutIsEffective
<1>2. TypeOK /\ IInv /\ LogoutIsEffective /\ [Next]_vars => LogoutIsEffective'
  <2> SUFFICES ASSUME TypeOK, IInv, LogoutIsEffective, [Next]_vars PROVE LogoutIsEffective'
    OBVIOUS
  <2>1. ASSUME NEW q \in authenticating, AuthTouches(q) PROVE LogoutIsEffective'
    <3>1. PICK r : r = [q EXCEPT !.row.lastSeen = now]
      OBVIOUS
    <3>2. touching' = touching \cup {r} /\ serving' = serving /\ q.row.revoked = NoTime
      BY <2>1, <3>1 DEF AuthTouches, Validate
    <3>3. ~r.late
      BY <3>1, <3>2 DEF IInv, CopiesSound, TypeOK
    <3> QED BY <3>2, <3>3 DEF LogoutIsEffective
  <2>2. ASSUME NEW q \in authenticating, AuthAccepts(q) PROVE LogoutIsEffective'
    <3>1. ~q.late
      BY <2>2 DEF AuthAccepts, Validate, IInv, CopiesSound
    <3> QED BY <2>2, <3>1 DEF AuthAccepts, LogoutIsEffective
  <2>3. ASSUME NEW q \in touching, TouchSession(q) PROVE LogoutIsEffective'
    BY <2>3 DEF TouchSession, LogoutIsEffective
  <2>4. CASE touching' \subseteq touching /\ serving' \subseteq serving
    BY <2>4 DEF LogoutIsEffective
  <2> QED BY <2>1, <2>2, <2>3, <2>4
      DEF Next, vars, requests, Tick, Leave, BootstrapRead, BootstrapInsert, LoginIssue,
          LoginInsert, LoginReply, AuthRead, LogoutBegin, RevokeSession, LogoutReply,
          CleanupBegin, CleanupCommit, CleanupFails
<1> QED BY <1>1, <1>2, SessionsSound, PTL DEF Spec

\* A session was last seen while it was valid, and not in the future (SeenWhileValid).
THEOREM SeenValid == Spec => []SeenWhileValid
<1>1. TypeOK /\ IInv => SeenWhileValid
  BY DEF IInv, RowsSound, Issued, SeenWhileValid, Stored
<1> QED BY <1>1, SessionsSound, PTL

\* What is known and what is answered has been logged, and what was logged has
\* happened (SessionsAudited).
THEOREM AuditedSessions == Spec => []SessionsAudited
<1>1. Init => SessionsAudited
  BY DEF Init, SessionsAudited
<1>2. TypeOK /\ IInv /\ SessionsAudited /\ [Next]_vars => SessionsAudited'
  <2> SUFFICES ASSUME TypeOK, IInv, SessionsAudited, [Next]_vars PROVE SessionsAudited'
    OBVIOUS
  <2>1. \A a \in audits : /\ session'[a.token].status # "none"
                          /\ a.action = "logout" => session'[a.token].revoked # NoTime
    BY RowsAdvance DEF IInv, SessionsAudited, Advances, TypeOK
  <2>2. CASE UNCHANGED <<audits, known, loggedOut>>
    BY <2>1, <2>2 DEF SessionsAudited
  <2>3. ASSUME NEW q \in logins, LoginReply(q) PROVE SessionsAudited'
    <3>1. session'[q.token].status # "none"
      BY <2>3 DEF LoginReply, IInv, LoginsSound
    <3>2. PICK a : a = [action |-> "login", token |-> q.token]
      OBVIOUS
    <3>3. audits' = audits \cup {a} /\ loggedOut' = loggedOut /\ known' \subseteq known \cup {q.token}
      BY <2>3, <3>2 DEF LoginReply
    <3> QED BY <2>1, <3>1, <3>2, <3>3 DEF SessionsAudited
  <2>4. ASSUME NEW q \in logouts, LogoutReply(q) PROVE SessionsAudited'
    <3>1. session'[q.token].status # "none" /\ session'[q.token].revoked # NoTime
      BY <2>4 DEF LogoutReply, IInv, LogoutsSound
    <3>2. PICK a : a = [action |-> "logout", token |-> q.token]
      OBVIOUS
    <3>3. audits' = audits \cup {a} /\ known' = known /\ loggedOut' = loggedOut \cup {q.token}
      BY <2>4, <3>2 DEF LogoutReply
    <3> QED BY <2>1, <3>1, <3>2, <3>3 DEF SessionsAudited
  <2> QED BY <2>2, <2>3, <2>4
      DEF Next, vars, rows, clients, Tick, Leave, BootstrapRead, BootstrapInsert, LoginIssue,
          LoginInsert, AuthRead, AuthTouches, AuthAccepts, TouchSession, LogoutBegin,
          RevokeSession, CleanupBegin, CleanupCommit, CleanupFails
<1> QED BY <1>1, <1>2, SessionsSound, PTL DEF Spec

\* The cleanup is at most a second early (CleanupSparesLive).
THEOREM LiveSpared == Spec => CleanupSparesLive
<1>1. TypeOK /\ IInv /\ [Next]_vars =>
        [\A t \in Tokens : Stored(t) /\ session'[t].status = "deleted" =>
           \/ session[t].expires < now + Second
           \/ session[t].revoked # NoTime /\ session[t].revoked + KeepRevoked < now + Second]_vars
  <2> SUFFICES ASSUME TypeOK, IInv, [Next]_vars, NEW t \in Tokens, Stored(t),
                      session'[t].status = "deleted"
               PROVE  \/ session[t].expires < now + Second
                      \/ /\ session[t].revoked # NoTime
                         /\ session[t].revoked + KeepRevoked < now + Second
    OBVIOUS
  <2>1. session'[t] # session[t]
    BY DEF Stored
  <2>2. ASSUME NEW q \in logins, LoginInsert(q) PROVE FALSE
    BY <2>1, <2>2 DEF LoginInsert, IInv, LoginsSound, Stored, TypeOK
  <2>3. ASSUME NEW q \in touching, TouchSession(q) PROVE FALSE
    <3>1. session'[t] = [session[t] EXCEPT !.lastSeen = q.row.lastSeen]
      BY <2>1, <2>3 DEF TouchSession, Touched, TypeOK
    <3> QED BY <3>1 DEF Stored, TypeOK, SessionRow
  <2>4. ASSUME NEW q \in logouts, RevokeSession(q) PROVE FALSE
    <3>1. session'[t] = [session[t] EXCEPT !.revoked = q.at]
      BY <2>1, <2>4 DEF RevokeSession, Revoked, TypeOK
    <3> QED BY <3>1 DEF Stored, TypeOK, SessionRow
  <2>5. CleanupCommit
    BY <2>1, <2>2, <2>3, <2>4
    DEF Next, vars, rows, Tick, Leave, BootstrapRead, BootstrapInsert, LoginIssue, LoginReply,
        AuthRead, AuthTouches, AuthAccepts, LogoutBegin, LogoutReply, CleanupBegin, CleanupFails
  <2>6. Removable(session[t]) /\ cleaning \in Int /\ cleaning <= now
    BY <2>1, <2>5 DEF CleanupCommit, TypeOK
  <2>7. /\ session[t].expires \in Int
        /\ session[t].revoked # NoTime => session[t].revoked \in Int
    BY DEF TypeOK, SessionRow
  <2>8. CASE TextLE(session[t].expires, cleaning)
    <3>1. session[t].expires < cleaning + Second
      BY <2>6, <2>7, <2>8, EarlyByLessThanASecond
    <3> QED BY <2>6, <2>7, <3>1, Constant DEF TypeOK
  <2>9. CASE session[t].revoked # NoTime /\ TextLE(session[t].revoked, cleaning - KeepRevoked)
    <3>1. cleaning - KeepRevoked \in Int
      BY <2>6, Constant
    <3>2. session[t].revoked < (cleaning - KeepRevoked) + Second
      BY <2>7, <2>9, <3>1, EarlyByLessThanASecond
    <3> QED BY <2>6, <2>7, <2>9, <3>2, Constant DEF TypeOK
  <2> QED BY <2>6, <2>8, <2>9 DEF Removable
<1> QED BY <1>1, SessionsSound, PTL DEF Spec, CleanupSparesLive
=============================================================================
