----------------------------- MODULE HubProofs ------------------------------
(***************************************************************************)
(* Theorems about the sessions and the real-time hub: what a session says  *)
(* of its activity, that a revoked session is final, and that no socket of *)
(* a revoked session goes on receiving unannounced.  Sets of sockets and   *)
(* their limit are built with SelectSeq and are left to TLC: no proof here *)
(* depends on what a Set holds.                                            *)
(***************************************************************************)
EXTENDS SupportHub, TLAPS

\* What an administrator's row says of its last activity.
Activity(s) ==
    IsAdmin(s) =>
        /\ sessions[s].lastSeenAt <= sessions[s].lastServed
        /\ sessions[s].lastServed < sessions[s].lastSeenAt + Refresh
        /\ sessions[s].lastServed <= now

\* A row that is used has an actor.
Owned(s) == sessions[s].state # "NONE" => sessions[s].actor \in Actors

\* What a request read is of an administrator's session and no later than what
\* the row says now.
Reading(q) ==
    requests[q].stage = "READ" =>
        LET s == requests[q].session
        IN  /\ sessions[s].state # "NONE"
            /\ IsAdmin(s)
            /\ requests[q].seen <= sessions[s].lastSeenAt

SessionsInv ==
    /\ SessionsTypeOK
    /\ \A s \in SessionIds : Activity(s) /\ Owned(s)
    /\ \A q \in Requests : Reading(q)

\* A session that was revoked and that no callback and no validation would find.
Unnoticed(s) ==
    /\ sessions[s].state = "REVOKED"
    /\ s \notin revocations
    /\ ~Lapsed(s)

\* A socket that receives events, or that a validation that has read the session
\* is about to let receive them, has a session whose revocation is noticed.
\* Nothing is said of a socket that is closing.
SocketInv(k) ==
    /\ "stage" \in DOMAIN sockets[k]
    /\ sockets[k].stage \in {"CHECKED", "OPEN"} =>
           sockets[k] \in Socket /\ sessions[sockets[k].session].state # "NONE"
    /\ sockets[k].stage = "CHECKED" => ~sockets[k].active /\ sockets[k].check = "NONE"
    /\ IsOpen(k) /\ (sockets[k].active \/ sockets[k].check = "VALID") =>
           ~Unnoticed(sockets[k].session)

SocketsInv ==
    /\ DOMAIN sockets = Sockets
    /\ registered \in [Actors -> Sockets \cup {NoSocket}]
    /\ \A k \in Sockets : SocketInv(k)

HubInv == SessionsInv /\ SocketsInv

-----------------------------------------------------------------------------
(* The rows of the sessions.                                               *)

LEMMA Constants ==
    /\ MaxSessions \in Nat /\ MaxClock \in Nat /\ Idle \in Nat
    /\ UserLifetime \in Nat /\ AdminLifetime \in Nat
    /\ Refresh \in Nat /\ Refresh > 0
    /\ NoActor \notin Administrators
    /\ Administrators \subseteq Actors
<1>1. Refresh \in {MaxSessions, UserLifetime, AdminLifetime, Idle, Refresh, MaxClock}
  OBVIOUS
<1> QED
  BY <1>1, SessionTimesAssumption

\* Revoking rows changes their state and nothing else.
LEMMA RevokedRows ==
    ASSUME SessionsTypeOK, NEW S, sessions' = Revoked(S)
    PROVE  /\ sessions' \in [SessionIds -> Session]
           /\ \A s \in SessionIds :
                /\ sessions'[s].actor = sessions[s].actor
                /\ sessions'[s].expiresAt = sessions[s].expiresAt
                /\ sessions'[s].lastSeenAt = sessions[s].lastSeenAt
                /\ sessions'[s].lastServed = sessions[s].lastServed
                /\ sessions'[s].state = IF s \in S /\ sessions[s].state = "LIVE"
                                        THEN "REVOKED" ELSE sessions[s].state
<1>1. ASSUME NEW s \in SessionIds
      PROVE  /\ sessions'[s] \in Session
             /\ sessions'[s].actor = sessions[s].actor
             /\ sessions'[s].expiresAt = sessions[s].expiresAt
             /\ sessions'[s].lastSeenAt = sessions[s].lastSeenAt
             /\ sessions'[s].lastServed = sessions[s].lastServed
             /\ sessions'[s].state = IF s \in S /\ sessions[s].state = "LIVE"
                                     THEN "REVOKED" ELSE sessions[s].state
  <2>1. sessions[s] \in Session
    BY DEF SessionsTypeOK
  <2>2. sessions'[s] = IF s \in S /\ sessions[s].state = "LIVE"
                       THEN [sessions[s] EXCEPT !.state = "REVOKED"] ELSE sessions[s]
    BY DEF Revoked
  <2> QED
    BY <2>1, <2>2 DEF Session
<1>2. sessions' = [s \in SessionIds |-> sessions'[s]]
  BY DEF Revoked
<1> QED
  BY <1>1, <1>2

\* A step that only revokes rows.
RevokesOnly ==
    /\ sessions' \in [SessionIds -> Session]
    /\ \A s \in SessionIds :
          /\ sessions'[s].actor = sessions[s].actor
          /\ sessions'[s].expiresAt = sessions[s].expiresAt
          /\ sessions'[s].lastSeenAt = sessions[s].lastSeenAt
          /\ sessions'[s].lastServed = sessions[s].lastServed
          /\ \/ sessions'[s].state = sessions[s].state
             \/ sessions[s].state = "LIVE" /\ sessions'[s].state = "REVOKED"

LEMMA RevokedIsRevokesOnly ==
    ASSUME SessionsTypeOK, NEW S, sessions' = Revoked(S)
    PROVE  RevokesOnly
<1>1. /\ sessions' \in [SessionIds -> Session]
      /\ \A s \in SessionIds :
           /\ sessions'[s].actor = sessions[s].actor
           /\ sessions'[s].expiresAt = sessions[s].expiresAt
           /\ sessions'[s].lastSeenAt = sessions[s].lastSeenAt
           /\ sessions'[s].lastServed = sessions[s].lastServed
           /\ sessions'[s].state = IF s \in S /\ sessions[s].state = "LIVE"
                                   THEN "REVOKED" ELSE sessions[s].state
  BY RevokedRows
<1> QED
  BY <1>1 DEF RevokesOnly

LEMMA LookedUpIsRevokesOnly ==
    ASSUME SessionsTypeOK, NEW s, sessions' = LookedUp(s)
    PROVE  RevokesOnly
<1>1. CASE IsAdmin(s) /\ ~Valid(s)
  BY <1>1, RevokedIsRevokesOnly DEF LookedUp
<1>2. CASE ~(IsAdmin(s) /\ ~Valid(s))
  BY <1>2 DEF LookedUp, RevokesOnly, SessionsTypeOK
<1> QED
  BY <1>1, <1>2

\* What requests read stays true of rows that are only revoked.
LEMMA RevokesOnlySound ==
    ASSUME SessionsInv, RevokesOnly, UNCHANGED <<now, requests>>,
           revocations' \subseteq SessionIds
    PROVE  SessionsInv'
<1>1. SessionsTypeOK'
  BY DEF SessionsInv, SessionsTypeOK, RevokesOnly
<1>2. ASSUME NEW s \in SessionIds
      PROVE  Activity(s)' /\ Owned(s)'
  BY DEF SessionsInv, Activity, Owned, IsAdmin, RevokesOnly
<1>3. ASSUME NEW q \in Requests
      PROVE  Reading(q)'
  <2>1. CASE requests[q].stage = "READ"
    <3>1. requests[q].session \in SessionIds
      BY <2>1 DEF SessionsInv, SessionsTypeOK, RequestState
    <3>2. Reading(q)
      BY DEF SessionsInv
    <3> QED
      BY <2>1, <3>1, <3>2 DEF Reading, IsAdmin, RevokesOnly
  <2>2. CASE requests[q].stage # "READ"
    BY <2>2 DEF Reading
  <2> QED
    BY <2>1, <2>2
<1> QED
  BY <1>1, <1>2, <1>3 DEF SessionsInv

\* A row is created in an unused place, which no request has read.
LEMMA NewSessionSound ==
    ASSUME SessionsInv, NEW s \in SessionIds, NEW row \in Session, NewSession(s, row),
           row.actor \in Actors,
           row.actor \in Administrators =>
               row.lastSeenAt = now /\ row.lastServed = now
    PROVE  SessionsInv'
<1>1. sessions[s].state = "NONE"
  BY DEF NewSession, SessionIds
<1>2. /\ sessions' \in [SessionIds -> Session]
      /\ sessions'[s] = row
      /\ \A r \in SessionIds \ {s} : sessions'[r] = sessions[r]
  BY DEF NewSession, SessionsInv, SessionsTypeOK
<1>3. SessionsTypeOK'
  BY <1>2 DEF NewSession, SessionsInv, SessionsTypeOK
<1>4. ASSUME NEW r \in SessionIds
      PROVE  Activity(r)' /\ Owned(r)'
  <2>1. CASE r = s
    <3>1. now \in Nat
      BY Constants DEF SessionsInv, SessionsTypeOK
    <3> QED
      BY <1>2, <2>1, <3>1, Constants DEF Activity, Owned, IsAdmin, NewSession
  <2>2. CASE r # s
    BY <1>2, <2>2 DEF SessionsInv, Activity, Owned, IsAdmin, NewSession
  <2> QED
    BY <2>1, <2>2
<1>5. ASSUME NEW q \in Requests
      PROVE  Reading(q)'
  <2>1. CASE requests[q].stage = "READ"
    <3>1. requests[q].session \in SessionIds /\ Reading(q)
      BY <2>1 DEF SessionsInv, SessionsTypeOK, RequestState
    <3>2. requests[q].session # s
      BY <1>1, <2>1, <3>1 DEF Reading
    <3>3. sessions'[requests[q].session] = sessions[requests[q].session]
      BY <1>2, <3>1, <3>2
    <3> QED
      BY <2>1, <3>1, <3>3 DEF Reading, IsAdmin, NewSession
  <2>2. CASE requests[q].stage # "READ"
    BY <2>2 DEF Reading, NewSession
  <2> QED
    BY <2>1, <2>2
<1> QED
  BY <1>3, <1>4, <1>5 DEF SessionsInv

LEMMA LoginSound ==
    ASSUME SessionsInv, NEW a \in Actors, NEW s \in SessionIds,
           Login(a, s) \/ GoogleCallback(a, s) \/ AdminLogin(a, s)
    PROVE  SessionsInv'
<1>0. now \in Nat
  BY Constants DEF SessionsInv, SessionsTypeOK
<1>1. CASE CreateUserSession(a, s)
  <2> DEFINE row == [state |-> "LIVE", actor |-> a, expiresAt |-> now + UserLifetime,
                     lastSeenAt |-> 0, lastServed |-> 0]
  <2>1. row \in Session /\ row.actor = a
    BY <1>0, Constants DEF Session
  <2>2. NewSession(s, row) /\ a \notin Administrators
    BY <1>1 DEF CreateUserSession
  <2> HIDE DEF row
  <2> QED
    BY <2>1, <2>2, NewSessionSound
<1>2. CASE CreateAdminSession(a, s)
  <2> DEFINE row == [state |-> "LIVE", actor |-> a, expiresAt |-> now + AdminLifetime,
                     lastSeenAt |-> now, lastServed |-> now]
  <2>1. row \in Session /\ row.actor = a /\ row.lastSeenAt = now /\ row.lastServed = now
    BY <1>0, Constants DEF Session
  <2>2. NewSession(s, row)
    BY <1>2 DEF CreateAdminSession
  <2> HIDE DEF row
  <2> QED
    BY <2>1, <2>2, NewSessionSound
<1> QED
  BY <1>1, <1>2 DEF Login, GoogleCallback, AdminLogin

LEMMA RevokingSound ==
    ASSUME SessionsInv,
           \/ \E s \in SessionIds : RevokeSession(s) \/ ChangePassword(s)
           \/ \E a \in Actors : ResetPassword(a)
    PROVE  SessionsInv' /\ RevokesOnly
<1>0. SessionsTypeOK /\ revocations \subseteq SessionIds
  BY DEF SessionsInv, SessionsTypeOK
<1>1. ASSUME NEW s \in SessionIds, RevokeSession(s)
      PROVE  SessionsInv' /\ RevokesOnly
  <2>1. RevokesOnly
    BY <1>0, <1>1, RevokedIsRevokesOnly DEF RevokeSession
  <2> QED
    BY <1>0, <1>1, <2>1, RevokesOnlySound DEF RevokeSession
<1>2. ASSUME NEW s \in SessionIds, ChangePassword(s)
      PROVE  SessionsInv' /\ RevokesOnly
  <2> DEFINE others == {o \in SessionsOf(sessions[s].actor) \ {s} : sessions[o].state = "LIVE"}
  <2>1. /\ sessions' = Revoked(others)
        /\ revocations' = revocations \cup others
        /\ UNCHANGED <<now, requests>>
    BY <1>2 DEF ChangePassword
  <2>2. others \subseteq SessionIds
    BY DEF SessionsOf
  <2> HIDE DEF others
  <2>3. RevokesOnly
    BY <1>0, <2>1, RevokedIsRevokesOnly
  <2> QED
    BY <1>0, <2>1, <2>2, <2>3, RevokesOnlySound
<1>3. ASSUME NEW a \in Actors, ResetPassword(a)
      PROVE  SessionsInv' /\ RevokesOnly
  <2> DEFINE live == {s \in SessionsOf(a) : sessions[s].state = "LIVE"}
  <2>1. /\ sessions' = Revoked(live)
        /\ revocations' = revocations \cup live
        /\ UNCHANGED <<now, requests>>
    BY <1>3 DEF ResetPassword
  <2>2. live \subseteq SessionIds
    BY DEF SessionsOf
  <2> HIDE DEF live
  <2>3. RevokesOnly
    BY <1>0, <2>1, RevokedIsRevokesOnly
  <2> QED
    BY <1>0, <2>1, <2>2, <2>3, RevokesOnlySound
<1> QED
  BY <1>1, <1>2, <1>3

LEMMA ArriveSound ==
    ASSUME SessionsInv, NEW q \in Requests, NEW s \in SessionIds, Arrive(q, s)
    PROVE  SessionsInv' /\ RevokesOnly
<1>0. SessionsTypeOK /\ revocations \subseteq SessionIds
  BY DEF SessionsInv, SessionsTypeOK
<1>1. RevokesOnly
  BY <1>0, LookedUpIsRevokesOnly DEF Arrive
<1>2. CASE Valid(s)
  <2> DEFINE read == [stage |-> "READ", session |-> s, seen |-> sessions[s].lastSeenAt]
  <2>1. /\ requests' = [requests EXCEPT ![q] = read]
        /\ UNCHANGED <<now, revocations>>
        /\ sessions[s].state # "NONE" /\ IsAdmin(s)
    BY <1>2 DEF Arrive
  <2>2. sessions' = sessions
    BY <1>2 DEF Arrive, LookedUp
  <2>3. read \in RequestState /\ sessions[s].lastSeenAt \in Nat
    BY DEF SessionsInv, SessionsTypeOK, Session, RequestState
  <2>4. read.stage = "READ" /\ read.session = s /\ read.seen = sessions[s].lastSeenAt
    OBVIOUS
  <2> HIDE DEF read
  <2>5. /\ requests' \in [Requests -> RequestState]
        /\ requests'[q] = read
        /\ \A p \in Requests \ {q} : requests'[p] = requests[p]
    BY <2>1, <2>3 DEF SessionsInv, SessionsTypeOK
  <2>6. SessionsTypeOK'
    BY <2>1, <2>2, <2>5 DEF SessionsInv, SessionsTypeOK
  <2>7. \A r \in SessionIds : Activity(r)' /\ Owned(r)'
    BY <2>1, <2>2 DEF SessionsInv, Activity, Owned, IsAdmin
  <2>8. ASSUME NEW p \in Requests
        PROVE  Reading(p)'
    <3>1. CASE p = q
      BY <2>1, <2>2, <2>3, <2>4, <2>5, <3>1 DEF Reading, IsAdmin
    <3>2. CASE p # q
      BY <2>2, <2>5, <3>2 DEF SessionsInv, Reading, IsAdmin
    <3> QED
      BY <3>1, <3>2
  <2> QED
    BY <1>1, <2>6, <2>7, <2>8 DEF SessionsInv
<1>3. CASE ~Valid(s)
  BY <1>0, <1>1, <1>3, RevokesOnlySound DEF Arrive
<1> QED
  BY <1>2, <1>3

\* A request records activity by what it read: as what the row says is no
\* earlier, it was decided within the interval of the row too.
LEMMA ServeSound ==
    ASSUME SessionsInv, NEW q \in Requests, ServeMutation(q)
    PROVE  SessionsInv'
<1> DEFINE s == requests[q].session
<1>1. /\ requests[q].stage = "READ"
      /\ s \in SessionIds /\ requests[q].seen \in Nat
      /\ IsAdmin(s) /\ sessions[s].state # "NONE"
      /\ requests[q].seen <= sessions[s].lastSeenAt
  BY DEF ServeMutation, SessionsInv, SessionsTypeOK, RequestState, Reading
<1>2. sessions[s] \in Session /\ now \in Nat /\ Activity(s)
  BY <1>1, Constants DEF SessionsInv, SessionsTypeOK
<1>3. UNCHANGED <<now, revocations>>
  BY DEF ServeMutation
<1>4. PICK end \in {"SERVED", "REFUSED"} : requests' = [requests EXCEPT ![q] = [stage |-> end]]
  BY DEF ServeMutation
<1>5. /\ requests' \in [Requests -> RequestState]
      /\ requests'[q].stage = end
      /\ \A p \in Requests \ {q} : requests'[p] = requests[p]
  <2>1. [stage |-> end] \in RequestState
    BY DEF RequestState
  <2> QED
    BY <1>4, <2>1 DEF SessionsInv, SessionsTypeOK
<1> DEFINE Follows(row) ==
        /\ row \in Session
        /\ sessions' = [sessions EXCEPT ![s] = row]
        /\ row.actor = sessions[s].actor /\ row.state = sessions[s].state
        /\ row.lastSeenAt >= sessions[s].lastSeenAt
        /\ row.lastSeenAt <= row.lastServed
        /\ row.lastServed < row.lastSeenAt + Refresh
        /\ row.lastServed <= now
<1>6. \E row : Follows(row)
  <2>1. CASE SeenRecently(q) /\ sessions' = [sessions EXCEPT ![s].lastServed = now]
    <3> DEFINE row == [sessions[s] EXCEPT !.lastServed = now]
    <3>1. sessions' = [sessions EXCEPT ![s] = row]
      BY <2>1
    <3>2. /\ row \in Session /\ row.lastServed = now
          /\ row.actor = sessions[s].actor /\ row.state = sessions[s].state
          /\ row.lastSeenAt = sessions[s].lastSeenAt
      BY <1>2 DEF Session
    <3>3. now < sessions[s].lastSeenAt + Refresh /\ sessions[s].lastSeenAt <= now
      <4>1. sessions[s].lastSeenAt \in Nat /\ sessions[s].lastServed \in Nat
        BY <1>2 DEF Session
      <4> QED
        BY <1>1, <1>2, <2>1, <4>1, Constants DEF SeenRecently, Activity
    <3> HIDE DEF row
    <3>4. sessions[s].lastSeenAt \in Nat
      BY <1>2 DEF Session
    <3>5. Follows(row)
      BY <1>2, <3>1, <3>2, <3>3, <3>4
    <3> QED
      BY <3>5, Zenon
  <2>2. CASE sessions' = [sessions EXCEPT ![s].lastServed = now, ![s].lastSeenAt = now]
    <3> DEFINE row == [sessions[s] EXCEPT !.lastServed = now, !.lastSeenAt = now]
    <3>1. sessions' = [sessions EXCEPT ![s] = row]
      BY <1>1, <2>2 DEF SessionsInv, SessionsTypeOK
    <3>2. /\ row \in Session /\ row.lastServed = now /\ row.lastSeenAt = now
          /\ row.actor = sessions[s].actor /\ row.state = sessions[s].state
      BY <1>2 DEF Session
    <3>3. sessions[s].lastSeenAt <= now /\ now < now + Refresh
      <4>1. sessions[s].lastSeenAt \in Nat /\ sessions[s].lastServed \in Nat
        BY <1>2 DEF Session
      <4> QED
        BY <1>1, <1>2, <4>1, Constants DEF Activity
    <3> HIDE DEF row
    <3>4. Follows(row)
      BY <1>2, <3>1, <3>2, <3>3, Constants
    <3> QED
      BY <3>4, Zenon
  <2>3. CASE UNCHANGED sessions
    <3>1. sessions' = [sessions EXCEPT ![s] = sessions[s]]
      BY <1>1, <2>3 DEF SessionsInv, SessionsTypeOK
    <3>2. sessions[s].lastSeenAt \in Nat
      BY <1>2 DEF Session
    <3>3. Follows(sessions[s])
      BY <1>1, <1>2, <3>1, <3>2 DEF Activity
    <3> QED
      BY <3>3, Zenon
  <2> QED
    BY <2>1, <2>2, <2>3 DEF ServeMutation
<1>11. PICK row : Follows(row)
  BY <1>6
<1> HIDE DEF s
<1>7. /\ sessions' \in [SessionIds -> Session]
      /\ sessions'[s] = row
      /\ \A r \in SessionIds \ {s} : sessions'[r] = sessions[r]
  BY <1>1, <1>11 DEF SessionsInv, SessionsTypeOK
<1>8. SessionsTypeOK'
  BY <1>3, <1>5, <1>7 DEF SessionsInv, SessionsTypeOK
<1>9. ASSUME NEW r \in SessionIds
      PROVE  Activity(r)' /\ Owned(r)'
  <2>1. CASE r = s
    BY <1>1, <1>3, <1>7, <1>11, <2>1 DEF SessionsInv, Activity, Owned
  <2>2. CASE r # s
    BY <1>3, <1>7, <2>2 DEF SessionsInv, Activity, Owned, IsAdmin
  <2> QED
    BY <2>1, <2>2
<1>10. ASSUME NEW p \in Requests
       PROVE  Reading(p)'
  <2>1. CASE p = q
    BY <1>5, <2>1 DEF Reading
  <2>2. CASE p # q /\ requests[p].stage = "READ"
    <3>1. Reading(p) /\ requests'[p] = requests[p]
      BY <1>5, <2>2 DEF SessionsInv
    <3>2. requests[p].session \in SessionIds /\ requests[p].seen \in Nat
      BY <2>2 DEF SessionsInv, SessionsTypeOK, RequestState
    <3>3. CASE requests[p].session = s
      <4>1. row.lastSeenAt \in Nat /\ sessions[s].lastSeenAt \in Nat
        BY <1>1, <1>2, <1>11 DEF Session, s
      <4> QED
        BY <1>7, <1>11, <2>2, <3>1, <3>2, <3>3, <4>1 DEF Reading, IsAdmin
    <3>4. CASE requests[p].session # s
      BY <1>7, <2>2, <3>1, <3>2, <3>4 DEF Reading, IsAdmin
    <3> QED
      BY <3>3, <3>4
  <2>3. CASE p # q /\ requests[p].stage # "READ"
    BY <1>5, <2>3 DEF Reading
  <2> QED
    BY <2>1, <2>2, <2>3
<1> QED
  BY <1>8, <1>9, <1>10 DEF SessionsInv

LEMMA TickSound ==
    ASSUME SessionsInv, Tick
    PROVE  SessionsInv'
<1>0. now \in Nat /\ now' = now + 1 /\ UNCHANGED <<sessions, revocations, requests>>
  BY Constants DEF Tick, SessionsInv, SessionsTypeOK
<1>1. SessionsTypeOK'
  BY <1>0, Constants DEF Tick, SessionsInv, SessionsTypeOK
<1>2. ASSUME NEW s \in SessionIds
      PROVE  Activity(s)' /\ Owned(s)'
  <2>1. Activity(s) /\ Owned(s) /\ sessions[s].lastServed \in Nat
    BY DEF SessionsInv, SessionsTypeOK, Session
  <2> QED
    BY <1>0, <2>1 DEF Activity, Owned, IsAdmin
<1>3. \A q \in Requests : Reading(q)'
  BY <1>0 DEF SessionsInv, Reading, IsAdmin
<1> QED
  BY <1>1, <1>2, <1>3 DEF SessionsInv

LEMMA SessionStepSound ==
    ASSUME SessionsInv, SessionStep
    PROVE  SessionsInv'
BY TickSound, RevokingSound, LoginSound, ServeSound, ArriveSound
   DEF SessionStep, RevokeUserSession, RevokeAdminSession

-----------------------------------------------------------------------------
(* The sockets.                                                            *)

\* No session is revoked in a step without being noticed, and no row is lost.
Announced ==
    \A s \in SessionIds :
        /\ Unnoticed(s)' => Unnoticed(s)
        /\ sessions'[s].state = "NONE" => sessions[s].state = "NONE"

\* A row found lapsed may be revoked with nobody told: it stays lapsed.
LEMMA LookedUpAnnounced ==
    ASSUME SessionsInv, NEW s, sessions' = LookedUp(s),
           UNCHANGED <<now, revocations>>
    PROVE  Announced
<1>1. CASE IsAdmin(s) /\ ~Valid(s)
  <2>1. sessions' = Revoked({s})
    BY <1>1 DEF LookedUp
  <2>2. \A r \in SessionIds :
           /\ sessions'[r].actor = sessions[r].actor
           /\ sessions'[r].expiresAt = sessions[r].expiresAt
           /\ sessions'[r].lastSeenAt = sessions[r].lastSeenAt
           /\ sessions'[r].state = IF r \in {s} /\ sessions[r].state = "LIVE"
                                   THEN "REVOKED" ELSE sessions[r].state
    BY <2>1, RevokedRows DEF SessionsInv
  <2>3. ASSUME NEW r \in SessionIds
        PROVE  Lapsed(r)' <=> Lapsed(r)
    BY <2>2 DEF Lapsed, IsAdmin
  <2>4. ASSUME NEW r \in SessionIds, Unnoticed(r)'
        PROVE  Unnoticed(r)
    <3>1. sessions[r].state = "REVOKED"
      BY <1>1, <2>2, <2>3, <2>4 DEF Unnoticed, Valid
    <3> QED
      BY <2>3, <2>4, <3>1 DEF Unnoticed
  <2>5. \A r \in SessionIds : sessions'[r].state = "NONE" => sessions[r].state = "NONE"
    BY <2>2
  <2> QED
    BY <2>4, <2>5 DEF Announced
<1>2. CASE ~(IsAdmin(s) /\ ~Valid(s))
  BY <1>2 DEF LookedUp, Announced, Unnoticed, Lapsed, IsAdmin
<1> QED
  BY <1>1, <1>2

\* Rows revoked together with a callback for each of them.
LEMMA RevokedAnnounced ==
    ASSUME SessionsInv, NEW S, S \subseteq SessionIds, sessions' = Revoked(S),
           UNCHANGED now, revocations' = revocations \cup S
    PROVE  Announced
<1>1. \A r \in SessionIds :
           /\ sessions'[r].actor = sessions[r].actor
           /\ sessions'[r].expiresAt = sessions[r].expiresAt
           /\ sessions'[r].lastSeenAt = sessions[r].lastSeenAt
           /\ sessions'[r].state = IF r \in S /\ sessions[r].state = "LIVE"
                                   THEN "REVOKED" ELSE sessions[r].state
  BY RevokedRows DEF SessionsInv
<1>2. ASSUME NEW r \in SessionIds
      PROVE  Lapsed(r)' <=> Lapsed(r)
  BY <1>1 DEF Lapsed, IsAdmin
<1> QED
  BY <1>1, <1>2 DEF Announced, Unnoticed

LEMMA NewSessionAnnounced ==
    ASSUME SessionsInv, NEW s \in SessionIds, NEW row, row.state = "LIVE", NewSession(s, row)
    PROVE  Announced
<1>1. /\ sessions'[s] = row
      /\ \A r \in SessionIds \ {s} : sessions'[r] = sessions[r]
  BY DEF NewSession, SessionsInv, SessionsTypeOK
<1>2. UNCHANGED <<now, revocations>>
  BY DEF NewSession
<1>3. ASSUME NEW r \in SessionIds, Unnoticed(r)'
      PROVE  Unnoticed(r)
  <2>1. r # s
    BY <1>1, <1>3 DEF Unnoticed
  <2>2. sessions'[r] = sessions[r]
    BY <1>1, <2>1
  <2> QED
    BY <1>2, <1>3, <2>2 DEF Unnoticed, Lapsed, IsAdmin
<1>4. \A r \in SessionIds : sessions'[r].state = "NONE" => sessions[r].state = "NONE"
  BY <1>1
<1> QED
  BY <1>3, <1>4 DEF Announced

\* A request served touches the row of a live session only, or what no one
\* decides by.
LEMMA ServeAnnounced ==
    ASSUME SessionsInv, NEW q \in Requests, ServeMutation(q)
    PROVE  Announced
<1> DEFINE s == requests[q].session
<1>1. s \in SessionIds /\ sessions[s] \in Session /\ UNCHANGED <<now, revocations>>
  BY DEF ServeMutation, SessionsInv, SessionsTypeOK, RequestState
<1>2. ASSUME NEW r \in SessionIds, Unnoticed(r)'
      PROVE  Unnoticed(r)
  <2>1. CASE sessions' = [sessions EXCEPT ![s].lastServed = now]
    <3>1. /\ sessions'[r].state = sessions[r].state
          /\ sessions'[r].actor = sessions[r].actor
          /\ sessions'[r].expiresAt = sessions[r].expiresAt
          /\ sessions'[r].lastSeenAt = sessions[r].lastSeenAt
      BY <1>1, <2>1 DEF SessionsInv, SessionsTypeOK, Session
    <3> QED
      BY <1>1, <1>2, <3>1 DEF Unnoticed, Lapsed, IsAdmin
  <2>2. CASE /\ Touchable(s)
             /\ sessions' = [sessions EXCEPT ![s].lastServed = now, ![s].lastSeenAt = now]
    <3>1. sessions'[s].state = sessions[s].state
      BY <1>1, <2>2 DEF SessionsInv, SessionsTypeOK, Session
    <3>2. r # s
      BY <1>2, <2>2, <3>1 DEF Unnoticed, Touchable, Valid
    <3>3. sessions'[r] = sessions[r]
      BY <2>2, <3>2 DEF SessionsInv, SessionsTypeOK
    <3> QED
      BY <1>1, <1>2, <3>3 DEF Unnoticed, Lapsed, IsAdmin
  <2>3. CASE UNCHANGED sessions
    BY <1>1, <1>2, <2>3 DEF Unnoticed, Lapsed, IsAdmin
  <2> QED
    BY <2>1, <2>2, <2>3 DEF ServeMutation
<1>3. ASSUME NEW r \in SessionIds
      PROVE  sessions'[r].state = sessions[r].state
  BY <1>1 DEF ServeMutation, SessionsInv, SessionsTypeOK, Session
<1> QED
  BY <1>2, <1>3 DEF Announced

LEMMA SessionStepAnnounced ==
    ASSUME SessionsInv, SessionStep
    PROVE  Announced
<1>1. CASE Tick
  <2>1. now \in Nat /\ now' = now + 1 /\ UNCHANGED <<sessions, revocations>>
    BY <1>1, Constants DEF Tick, SessionsInv, SessionsTypeOK
  <2>2. ASSUME NEW s \in SessionIds, Lapsed(s)
        PROVE  Lapsed(s)'
    <3>1. sessions[s].expiresAt \in Nat /\ sessions[s].lastSeenAt + Idle \in Nat
      BY Constants DEF SessionsInv, SessionsTypeOK, Session
    <3> QED
      BY <2>1, <2>2, <3>1 DEF Lapsed, IsAdmin
  <2> QED
    BY <2>1, <2>2 DEF Announced, Unnoticed
<1>2. ASSUME NEW s \in SessionIds, RevokeSession(s)
      PROVE  Announced
  BY <1>2, RevokedAnnounced DEF RevokeSession
<1>3. ASSUME NEW s \in SessionIds, ChangePassword(s)
      PROVE  Announced
  <2> DEFINE others == {o \in SessionsOf(sessions[s].actor) \ {s} : sessions[o].state = "LIVE"}
  <2>1. /\ sessions' = Revoked(others)
        /\ revocations' = revocations \cup others
        /\ UNCHANGED now
        /\ others \subseteq SessionIds
    BY <1>3 DEF ChangePassword, SessionsOf
  <2> HIDE DEF others
  <2> QED
    BY <2>1, RevokedAnnounced
<1>4. ASSUME NEW a \in Actors, ResetPassword(a)
      PROVE  Announced
  <2> DEFINE live == {s \in SessionsOf(a) : sessions[s].state = "LIVE"}
  <2>1. /\ sessions' = Revoked(live)
        /\ revocations' = revocations \cup live
        /\ UNCHANGED now
        /\ live \subseteq SessionIds
    BY <1>4 DEF ResetPassword, SessionsOf
  <2> HIDE DEF live
  <2> QED
    BY <2>1, RevokedAnnounced
<1>5. ASSUME NEW a \in Actors, NEW s \in SessionIds,
             Login(a, s) \/ GoogleCallback(a, s) \/ AdminLogin(a, s)
      PROVE  Announced
  <2>1. PICK expiry, seen : NewSession(s, [state |-> "LIVE", actor |-> a, expiresAt |-> expiry,
                                           lastSeenAt |-> seen, lastServed |-> seen])
    BY <1>5 DEF Login, GoogleCallback, AdminLogin, CreateUserSession, CreateAdminSession
  <2> QED
    BY <2>1, NewSessionAnnounced
<1>6. ASSUME NEW q \in Requests, NEW s \in SessionIds, Arrive(q, s)
      PROVE  Announced
  <2>1. CASE Valid(s)
    <3>1. UNCHANGED <<now, sessions, revocations>>
      BY <1>6, <2>1 DEF Arrive, LookedUp
    <3> QED
      BY <3>1 DEF Announced, Unnoticed, Lapsed, IsAdmin
  <2>2. CASE ~Valid(s)
    <3>1. sessions' = Revoked({s}) /\ revocations' = revocations \cup {s} /\ UNCHANGED now
      BY <1>6, <2>2 DEF Arrive, LookedUp
    <3> QED
      BY <3>1, RevokedAnnounced
  <2> QED
    BY <2>1, <2>2
<1> QED
  BY <1>1, <1>2, <1>3, <1>4, <1>5, <1>6, ServeAnnounced
     DEF SessionStep, RevokeUserSession, RevokeAdminSession

LEMMA UntouchedSocket ==
    ASSUME NEW k \in Sockets, SocketInv(k), Announced, sockets'[k] = sockets[k]
    PROVE  SocketInv(k)'
<1>1. CASE IsOpen(k)
  <2>1. sockets[k].session \in SessionIds
    BY <1>1 DEF SocketInv, IsOpen, Socket
  <2>2. Unnoticed(sockets[k].session)' => Unnoticed(sockets[k].session)
    BY <2>1 DEF Announced
  <2>3. sessions[sockets[k].session].state # "NONE" => sessions'[sockets[k].session].state # "NONE"
    BY <2>1 DEF Announced
  <2> QED
    BY <1>1, <2>2, <2>3 DEF SocketInv, IsOpen
<1>2. CASE sockets[k].stage = "CHECKED"
  <2>1. sockets[k].session \in SessionIds /\ sessions[sockets[k].session].state # "NONE"
    BY <1>2 DEF SocketInv, Socket
  <2>2. sessions'[sockets[k].session].state # "NONE"
    BY <2>1 DEF Announced
  <2> QED
    BY <1>2, <2>2 DEF SocketInv, IsOpen
<1>3. CASE sockets[k].stage \notin {"CHECKED", "OPEN"}
  BY <1>3 DEF SocketInv, IsOpen
<1> QED
  BY <1>1, <1>2, <1>3 DEF IsOpen

LEMMA ClosingSocket ==
    ASSUME NEW k \in Sockets, "stage" \in DOMAIN sockets'[k],
           sockets'[k].stage \notin {"CHECKED", "OPEN"}
    PROVE  SocketInv(k)'
BY DEF SocketInv, IsOpen

\* A socket that stays as far as it is keeps what is known of it.
LEMMA HeldSocket ==
    ASSUME NEW k \in Sockets, SocketInv(k), Announced, IsOpen(k),
           sockets'[k] \in Socket, IsOpen(k)', sockets'[k].session = sockets[k].session,
           sockets'[k].active \/ sockets'[k].check = "VALID" =>
               sockets[k].active \/ sockets[k].check = "VALID"
    PROVE  SocketInv(k)'
<1>1. sockets[k].session \in SessionIds
  BY DEF SocketInv, IsOpen, Socket
<1>2. Unnoticed(sockets[k].session)' => Unnoticed(sockets[k].session)
  BY <1>1 DEF Announced
<1>3. "stage" \in DOMAIN sockets'[k]
  BY DEF Socket
<1>4. sessions'[sockets[k].session].state # "NONE"
  BY <1>1 DEF Announced, SocketInv, IsOpen
<1> QED
  BY <1>2, <1>3, <1>4 DEF SocketInv, IsOpen

LEMMA SameSessionsAnnounced ==
    ASSUME UNCHANGED sessionVars
    PROVE  Announced
BY DEF Announced, Unnoticed, Lapsed, IsAdmin, sessionVars

LEMMA SameSessionsSound ==
    ASSUME SessionsInv, UNCHANGED sessionVars
    PROVE  SessionsInv'
BY DEF SessionsInv, SessionsTypeOK, Activity, Owned, Reading, IsAdmin, sessionVars

LEMMA LookedUpSound ==
    ASSUME SessionsInv, NEW s, sessions' = LookedUp(s), UNCHANGED <<now, revocations, requests>>
    PROVE  SessionsInv'
<1>1. SessionsTypeOK /\ revocations' \subseteq SessionIds
  BY DEF SessionsInv, SessionsTypeOK
<1>2. RevokesOnly
  BY <1>1, LookedUpIsRevokesOnly
<1> QED
  BY <1>1, <1>2, RevokesOnlySound

\* The sockets of a step that changes one socket and no session.
LEMMA OneSocketSound ==
    ASSUME HubInv, NEW k \in Sockets, NEW new, sockets' = [sockets EXCEPT ![k] = new], Announced,
           SocketInv(k)',
           UNCHANGED registered \/ registered' \in [Actors -> Sockets \cup {NoSocket}]
    PROVE  SocketsInv'
<1>1. DOMAIN sockets' = Sockets
  BY DEF HubInv, SocketsInv
<1>2. ASSUME NEW m \in Sockets
      PROVE  SocketInv(m)'
  <2>1. CASE m # k
    <3>1. sockets'[m] = sockets[m] /\ SocketInv(m)
      BY <2>1 DEF HubInv, SocketsInv
    <3> QED
      BY <3>1, UntouchedSocket
  <2>2. CASE m = k
    BY <2>2
  <2> QED
    BY <2>1, <2>2
<1>3. registered' \in [Actors -> Sockets \cup {NoSocket}]
  BY DEF HubInv, SocketsInv
<1> QED
  BY <1>1, <1>2, <1>3 DEF SocketsInv

-----------------------------------------------------------------------------
(* One lemma per step of a socket.                                         *)

LEMMA AuthenticateSound ==
    ASSUME HubInv, NEW k \in Sockets, NEW s \in SessionIds, Authenticate(k, s)
    PROVE  HubInv'
<1> DEFINE new == IF Valid(s) THEN NewSocket(s) ELSE ClosedSocket
<1>1. /\ sessions' = LookedUp(s) /\ UNCHANGED <<now, revocations, requests, registered>>
      /\ sockets' = [sockets EXCEPT ![k] = new]
  BY DEF Authenticate
<1>2. SessionsInv' /\ Announced
  BY <1>1, LookedUpSound, LookedUpAnnounced DEF HubInv
<1>3. sockets'[k] = new
  BY <1>1 DEF HubInv, SocketsInv
<1>4. SocketInv(k)'
  <2>1. CASE Valid(s)
    <3>1. sockets'[k] = NewSocket(s)
      BY <1>3, <2>1
    <3>2. /\ sockets'[k] \in Socket /\ "stage" \in DOMAIN sockets'[k]
          /\ sockets'[k].stage = "CHECKED" /\ ~sockets'[k].active
          /\ sockets'[k].check = "NONE" /\ sockets'[k].session = s
      BY <3>1 DEF NewSocket, Socket
    <3>3. sessions'[s].state # "NONE"
      BY <1>1, <2>1 DEF LookedUp, Valid
    <3> QED
      BY <3>2, <3>3 DEF SocketInv, IsOpen
  <2>2. CASE ~Valid(s)
    <3>1. sockets'[k] = [stage |-> "CLOSED"]
      BY <1>3, <2>2 DEF ClosedSocket
    <3> QED
      BY <3>1, ClosingSocket
  <2> QED
    BY <2>1, <2>2
<1> HIDE DEF new
<1> QED
  BY <1>1, <1>2, <1>4, OneSocketSound DEF HubInv

LEMMA RegisterSound ==
    ASSUME HubInv, NEW k \in Sockets, Register(k)
    PROVE  HubInv'
<1> DEFINE a == ActorOf(k)
           g == IF registered[a] = NoSocket THEN k ELSE registered[a]
<1>1. UNCHANGED sessionVars /\ sockets[k].stage = "CHECKED"
  BY DEF Register
<1>2. SessionsInv' /\ Announced
  BY <1>1, SameSessionsSound, SameSessionsAnnounced DEF HubInv
<1>3. sockets' = [m \in Sockets |->
         IF m = k THEN [sockets[k] EXCEPT !.stage = "OPEN", !.set = g, !.check = "DUE"]
         ELSE IF m \in Evicted(a) THEN [sockets[m] EXCEPT !.stage = "CLOSING", !.active = FALSE]
         ELSE sockets[m]]
  BY DEF Register
<1>4. g \in Sockets \cup {NoSocket}
  <2>1. SocketInv(k)
    BY DEF HubInv, SocketsInv
  <2>2. sockets[k].session \in SessionIds /\ sessions[sockets[k].session].state # "NONE"
    BY <1>1, <2>1 DEF SocketInv, Socket
  <2>3. a \in Actors
    BY <2>2 DEF HubInv, SessionsInv, Owned, ActorOf
  <2> QED
    BY <2>3 DEF HubInv, SocketsInv
<1>6. registered' \in [Actors -> Sockets \cup {NoSocket}]
  BY <1>4 DEF Register, HubInv, SocketsInv
<1> HIDE DEF a, g
<1>5. ASSUME NEW m \in Sockets
      PROVE  SocketInv(m)'
  <2>0. SocketInv(m)
    BY DEF HubInv, SocketsInv
  <2>1. CASE m = k
    <3>1. /\ sockets[k] \in Socket /\ ~sockets[k].active
          /\ sessions[sockets[k].session].state # "NONE"
      BY <1>1, <2>0, <2>1 DEF SocketInv
    <3>2. sockets'[k] = [sockets[k] EXCEPT !.stage = "OPEN", !.set = g, !.check = "DUE"]
      BY <1>3
    <3>3. /\ sockets'[k] \in Socket /\ "stage" \in DOMAIN sockets'[k]
          /\ sockets'[k].stage = "OPEN" /\ ~sockets'[k].active /\ sockets'[k].check = "DUE"
          /\ sockets'[k].session = sockets[k].session
      BY <1>4, <3>1, <3>2 DEF Socket
    <3> QED
      BY <1>1, <2>1, <3>1, <3>3 DEF SocketInv, sessionVars
  <2>2. CASE m # k /\ m \in Evicted(a)
    <3>1. sockets'[m] = [sockets[m] EXCEPT !.stage = "CLOSING", !.active = FALSE]
      BY <1>3, <2>2
    <3>2. "stage" \in DOMAIN sockets'[m] /\ sockets'[m].stage = "CLOSING"
      BY <2>0, <3>1 DEF SocketInv
    <3> QED
      BY <3>2, ClosingSocket
  <2>3. CASE m # k /\ m \notin Evicted(a)
    <3>1. sockets'[m] = sockets[m]
      BY <1>3, <2>3
    <3> QED
      BY <1>2, <2>0, <3>1, UntouchedSocket
  <2> QED
    BY <2>1, <2>2, <2>3
<1> QED
  BY <1>2, <1>3, <1>5, <1>6 DEF HubInv, SocketsInv

\* A validation that has just started lets no socket receive events.
LEMMA StartValidationSound ==
    ASSUME HubInv, NEW k \in Sockets, StartValidation(k)
    PROVE  HubInv'
<1> DEFINE new == [sockets[k] EXCEPT !.check = "DUE"]
<1>1. /\ UNCHANGED sessionVars /\ UNCHANGED registered /\ IsOpen(k)
      /\ sockets' = [sockets EXCEPT ![k] = new]
  BY DEF StartValidation
<1>2. SessionsInv' /\ Announced
  BY <1>1, SameSessionsSound, SameSessionsAnnounced DEF HubInv
<1>3. SocketInv(k) /\ sockets[k] \in Socket
  BY <1>1 DEF HubInv, SocketsInv, SocketInv, IsOpen
<1>4. sockets'[k] = new
  BY <1>1 DEF HubInv, SocketsInv
<1>5. /\ sockets'[k] \in Socket /\ sockets'[k].stage = "OPEN"
      /\ sockets'[k].session = sockets[k].session
      /\ sockets'[k].active = sockets[k].active /\ sockets'[k].check = "DUE"
  BY <1>1, <1>3, <1>4 DEF Socket, IsOpen
<1> HIDE DEF new
<1>6. SocketInv(k)'
  BY <1>1, <1>2, <1>3, <1>5, HeldSocket DEF IsOpen
<1> QED
  BY <1>1, <1>2, <1>6, OneSocketSound DEF HubInv

\* A validation that finds the session valid has read it live.
LEMMA ReadSessionSound ==
    ASSUME HubInv, NEW k \in Sockets, ReadSession(k)
    PROVE  HubInv'
<1> DEFINE s == sockets[k].session
           new == [sockets[k] EXCEPT !.check = IF Valid(s) THEN "VALID" ELSE "INVALID"]
<1>1. /\ sessions' = LookedUp(s) /\ UNCHANGED <<now, revocations, requests, registered>>
      /\ sockets' = [sockets EXCEPT ![k] = new]
      /\ sockets[k].check = "DUE" /\ InUse(k)
  BY DEF ReadSession
<1>2. SocketInv(k) /\ sockets'[k] = new
  BY <1>1 DEF HubInv, SocketsInv
<1>3. sockets[k].stage # "CHECKED"
  BY <1>1, <1>2 DEF SocketInv
<1>4. "stage" \in DOMAIN sockets'[k] /\ sockets'[k].stage = sockets[k].stage
  BY <1>2 DEF SocketInv
<1>5. SessionsInv'
  BY <1>1, LookedUpSound DEF HubInv
<1>6. Announced
  BY <1>1, LookedUpAnnounced DEF HubInv
<1>7. CASE ~IsOpen(k)
  <2>1. SocketInv(k)'
    BY <1>3, <1>4, <1>7, ClosingSocket DEF IsOpen
  <2> HIDE DEF new, s
  <2> QED
    BY <1>1, <1>5, <1>6, <2>1, OneSocketSound DEF HubInv
<1>8. CASE IsOpen(k)
  <2>1. sockets[k] \in Socket
    BY <1>2, <1>8 DEF SocketInv, IsOpen
  <2>2. /\ sockets'[k] \in Socket /\ sockets'[k].stage = "OPEN"
        /\ sockets'[k].session = s /\ sockets'[k].active = sockets[k].active
        /\ sockets'[k].check = IF Valid(s) THEN "VALID" ELSE "INVALID"
    BY <1>2, <1>8, <2>1 DEF Socket, IsOpen
  <2>3. CASE Valid(s)
    <3>1. sessions' = sessions /\ sessions[s].state = "LIVE"
      BY <1>1, <2>3 DEF LookedUp, Valid
    <3>2. sessions'[sockets'[k].session].state = "LIVE"
      BY <2>2, <3>1
    <3>3. SocketInv(k)'
      BY <1>4, <2>2, <3>2 DEF SocketInv, Unnoticed
    <3> HIDE DEF new, s
    <3> QED
      BY <1>1, <1>5, <1>6, <3>3, OneSocketSound DEF HubInv
  <2>4. CASE ~Valid(s)
    <3>1. SocketInv(k)'
      BY <1>2, <1>6, <1>8, <2>2, <2>4, HeldSocket DEF IsOpen
    <3> HIDE DEF new, s
    <3> QED
      BY <1>1, <1>5, <1>6, <3>1, OneSocketSound DEF HubInv
  <2> QED
    BY <2>3, <2>4
<1> QED
  BY <1>7, <1>8

\* closeSession leaves no socket of the session open.
LEMMA ClosingSessionSound ==
    ASSUME NEW all, NEW s, NEW k \in Sockets, SocketInv(k), Announced,
           "stage" \in DOMAIN all[k], all[k].stage = sockets[k].stage,
           all[k].stage = "OPEN" =>
               /\ all[k] \in Socket
               /\ all[k].session = sockets[k].session
               /\ all[k].active \/ all[k].check = "VALID" =>
                      sockets[k].active \/ sockets[k].check = "VALID",
           all[k].stage = "CHECKED" => all[k] = sockets[k],
           sockets' = ClosingSession(all, s)
    PROVE  /\ SocketInv(k)'
           /\ IsOpen(k)' => sockets'[k].session # s
<1>1. CASE all[k].stage = "OPEN" /\ all[k].session = s
  <2>1. sockets'[k] = [all[k] EXCEPT !.stage = "CLOSING"]
    BY <1>1 DEF ClosingSession
  <2>2. "stage" \in DOMAIN sockets'[k] /\ sockets'[k].stage = "CLOSING"
    BY <2>1
  <2> QED
    BY <2>2, ClosingSocket DEF IsOpen
<1>2. CASE ~(all[k].stage = "OPEN" /\ all[k].session = s)
  <2>1. sockets'[k] = all[k]
    BY <1>2 DEF ClosingSession
  <2>2. CASE all[k].stage = "OPEN"
    BY <1>2, <2>1, <2>2, HeldSocket DEF IsOpen
  <2>3. CASE all[k].stage = "CHECKED"
    BY <2>1, <2>3, UntouchedSocket DEF IsOpen
  <2>4. CASE all[k].stage \notin {"CHECKED", "OPEN"}
    BY <2>1, <2>4, ClosingSocket DEF IsOpen
  <2> QED
    BY <2>2, <2>3, <2>4
<1> QED
  BY <1>1, <1>2

LEMMA FinishValidationSound ==
    ASSUME HubInv, NEW k \in Sockets, FinishValidation(k)
    PROVE  HubInv'
<1> DEFINE done == [sockets EXCEPT ![k].check = "NONE", ![k].opening = FALSE]
<1>1. UNCHANGED sessionVars /\ UNCHANGED registered /\ sockets[k].check \in {"VALID", "INVALID"}
  BY DEF FinishValidation
<1>2. SessionsInv' /\ Announced
  BY <1>1, SameSessionsSound, SameSessionsAnnounced DEF HubInv
<1>3. \A m \in Sockets : SocketInv(m)
  BY DEF HubInv, SocketsInv
<1>4. sockets[k].stage # "CHECKED"
  BY <1>1, <1>3 DEF SocketInv
<1>5. /\ DOMAIN done = Sockets
      /\ \A m \in Sockets \ {k} : done[m] = sockets[m]
      /\ done[k] = [[sockets[k] EXCEPT !.check = "NONE"] EXCEPT !.opening = FALSE]
  BY DEF HubInv, SocketsInv
<1>6. "stage" \in DOMAIN done[k] /\ done[k].stage = sockets[k].stage
  BY <1>3, <1>5 DEF SocketInv
<1>7. IsOpen(k) => /\ done[k] \in Socket
                   /\ done[k].session = sockets[k].session
                   /\ done[k].active = sockets[k].active
                   /\ done[k].check = "NONE"
  <2>1. IsOpen(k) => sockets[k] \in Socket
    BY <1>3 DEF SocketInv, IsOpen
  <2> HIDE DEF done
  <2> QED
    BY <1>5, <2>1 DEF Socket
<1>8. CASE sockets' = ClosingSession(done, sockets[k].session)
  <2>1. DOMAIN sockets' = Sockets
    BY <1>8 DEF ClosingSession
  <2> HIDE DEF done
  <2>2. ASSUME NEW m \in Sockets
        PROVE  SocketInv(m)'
    <3>1. CASE m = k
      BY <1>2, <1>3, <1>4, <1>6, <1>7, <1>8, <3>1, ClosingSessionSound DEF IsOpen
    <3>2. CASE m # k
      <4>1. done[m] = sockets[m] /\ SocketInv(m)
        BY <1>3, <1>5, <3>2
      <4>2. "stage" \in DOMAIN done[m] /\ (done[m].stage = "OPEN" => done[m] \in Socket)
        BY <4>1 DEF SocketInv
      <4> QED
        BY <1>2, <1>8, <4>1, <4>2, ClosingSessionSound
    <3> QED
      BY <3>1, <3>2
  <2> QED
    BY <1>1, <1>2, <2>1, <2>2 DEF HubInv, SocketsInv
<1>9. CASE /\ sockets[k].check = "VALID"
           /\ sockets' = [done EXCEPT ![k].active =
                 sockets[k].active \/ (sockets[k].opening /\ CanActivate(k))]
  <2> DEFINE lets == sockets[k].active \/ (sockets[k].opening /\ CanActivate(k))
  <2>1. lets \in BOOLEAN
    OBVIOUS
  <2> HIDE DEF lets, done
  <2>2. /\ DOMAIN sockets' = Sockets
        /\ \A m \in Sockets \ {k} : sockets'[m] = done[m]
        /\ sockets'[k] = [done[k] EXCEPT !.active = lets]
    BY <1>5, <1>9 DEF lets
  <2>3. "stage" \in DOMAIN sockets'[k] /\ sockets'[k].stage = sockets[k].stage
    BY <1>6, <2>2
  <2>4. SocketInv(k)'
    <3>1. CASE IsOpen(k)
      <4>1. sockets'[k] \in Socket /\ sockets'[k].session = sockets[k].session
        BY <1>7, <2>1, <2>2, <3>1 DEF Socket
      <4> QED
        BY <1>2, <1>3, <1>9, <2>3, <3>1, <4>1, HeldSocket DEF IsOpen
    <3>2. CASE ~IsOpen(k)
      BY <1>4, <2>3, <3>2, ClosingSocket DEF IsOpen
    <3> QED
      BY <3>1, <3>2
  <2>5. ASSUME NEW m \in Sockets, m # k
        PROVE  SocketInv(m)'
    BY <1>2, <1>3, <1>5, <2>2, <2>5, UntouchedSocket
  <2> QED
    BY <1>1, <1>2, <2>2, <2>4, <2>5 DEF HubInv, SocketsInv
<1> QED
  BY <1>8, <1>9 DEF FinishValidation

\* A step that takes a socket to its end.
LEMMA EndedSound ==
    ASSUME HubInv, NEW k \in Sockets, NEW new, "stage" \in DOMAIN new,
           new.stage \notin {"CHECKED", "OPEN"}, sockets' = [sockets EXCEPT ![k] = new],
           UNCHANGED sessionVars,
           UNCHANGED registered \/ registered' \in [Actors -> Sockets \cup {NoSocket}]
    PROVE  HubInv'
<1>1. sockets'[k] = new
  BY DEF HubInv, SocketsInv
<1>2. SocketInv(k)'
  BY <1>1, ClosingSocket
<1>3. SessionsInv' /\ Announced
  BY SameSessionsSound, SameSessionsAnnounced DEF HubInv
<1> QED
  BY <1>2, <1>3, OneSocketSound DEF HubInv

LEMMA FailValidationSound ==
    ASSUME HubInv, NEW k \in Sockets, FailValidation(k)
    PROVE  HubInv'
<1> DEFINE new == [sockets[k] EXCEPT !.check = "NONE", !.opening = FALSE, !.stage = "CLOSING"]
<1>1. /\ UNCHANGED sessionVars /\ UNCHANGED registered
      /\ sockets' = [sockets EXCEPT ![k] = new]
  BY DEF FailValidation, HubInv, SocketsInv
<1>2. sockets[k] \in Socket
  BY DEF FailValidation, HubInv, SocketsInv, SocketInv, IsOpen
<1>3. "stage" \in DOMAIN new /\ new.stage = "CLOSING"
  BY <1>2 DEF Socket
<1> HIDE DEF new
<1> QED
  BY <1>1, <1>3, EndedSound

LEMMA RefuseMessageSound ==
    ASSUME HubInv, NEW k \in Sockets, RefuseMessage(k)
    PROVE  HubInv'
<1> DEFINE new == [sockets[k] EXCEPT !.stage = "CLOSING"]
<1>1. /\ UNCHANGED sessionVars /\ UNCHANGED registered
      /\ sockets' = [sockets EXCEPT ![k] = new]
  BY DEF RefuseMessage
<1>2. "stage" \in DOMAIN sockets[k]
  BY DEF HubInv, SocketsInv, SocketInv
<1>3. "stage" \in DOMAIN new /\ new.stage = "CLOSING"
  BY <1>2
<1> HIDE DEF new
<1> QED
  BY <1>1, <1>3, EndedSound

LEMMA CloseSocketSound ==
    ASSUME HubInv, NEW k \in Sockets, CloseSocket(k)
    PROVE  HubInv'
<1>1. UNCHANGED sessionVars /\ sockets' = [sockets EXCEPT ![k] = ClosedSocket]
  BY DEF CloseSocket
<1>2. UNCHANGED registered \/ registered' = [registered EXCEPT ![ActorOf(k)] = NoSocket]
  BY DEF CloseSocket
<1>3. registered' \in [Actors -> Sockets \cup {NoSocket}]
  BY <1>2 DEF HubInv, SocketsInv
<1>4. "stage" \in DOMAIN ClosedSocket /\ ClosedSocket.stage = "CLOSED"
  BY DEF ClosedSocket
<1> QED
  BY <1>1, <1>3, <1>4, EndedSound

\* The callback finds every socket of the session that is open; one that is not
\* registered yet reads the session once it is.
LEMMA NotifyRevokedSound ==
    ASSUME HubInv, NEW s \in SessionIds, NotifyRevoked(s)
    PROVE  HubInv'
<1>1. /\ s \in revocations /\ revocations' = revocations \ {s}
      /\ UNCHANGED <<now, sessions, requests, registered>>
      /\ sockets' = ClosingSession(sockets, s)
  BY DEF NotifyRevoked
<1>2. SessionsInv'
  BY <1>1 DEF HubInv, SessionsInv, SessionsTypeOK, Activity, Owned, Reading, IsAdmin
<1>3. DOMAIN sockets' = Sockets
  BY <1>1 DEF ClosingSession
<1>4. ASSUME NEW k \in Sockets
      PROVE  SocketInv(k)'
  <2>1. SocketInv(k)
    BY DEF HubInv, SocketsInv
  <2>2. CASE sockets[k].stage = "OPEN" /\ sockets[k].session = s
    <3>1. sockets'[k] = [sockets[k] EXCEPT !.stage = "CLOSING"]
      BY <1>1, <2>2 DEF ClosingSession
    <3>2. "stage" \in DOMAIN sockets'[k] /\ sockets'[k].stage = "CLOSING"
      BY <2>1, <3>1 DEF SocketInv
    <3> QED
      BY <3>2, ClosingSocket
  <2>3. CASE ~(sockets[k].stage = "OPEN" /\ sockets[k].session = s)
    <3>1. sockets'[k] = sockets[k]
      BY <1>1, <2>3 DEF ClosingSession
    <3>2. IsOpen(k) => sockets[k].session # s
      BY <2>3 DEF IsOpen
    <3>3. sockets[k].session # s =>
            (Unnoticed(sockets[k].session)' <=> Unnoticed(sockets[k].session))
      BY <1>1, <3>1 DEF Unnoticed, Lapsed, IsAdmin
    <3> QED
      BY <1>1, <2>1, <3>1, <3>2, <3>3 DEF SocketInv, IsOpen
  <2> QED
    BY <2>2, <2>3
<1> QED
  BY <1>1, <1>2, <1>3, <1>4 DEF HubInv, SocketsInv

LEMMA StopServerSound ==
    ASSUME HubInv, StopServer
    PROVE  HubInv'
<1>1. /\ UNCHANGED <<now, sessions>> /\ revocations' = {}
      /\ requests' = [q \in Requests |-> [stage |-> "NONE"]]
      /\ registered' = [a \in Actors |-> NoSocket]
      /\ sockets' = [k \in Sockets |-> IF InUse(k) THEN ClosedSocket ELSE sockets[k]]
  BY DEF StopServer, CloseAll
<1>2. SessionsInv'
  <2>1. \A q \in Requests : requests'[q].stage = "NONE" /\ requests'[q] \in RequestState
    BY <1>1 DEF RequestState
  <2>2. SessionsTypeOK'
    BY <1>1, <2>1 DEF HubInv, SessionsInv, SessionsTypeOK
  <2> QED
    BY <1>1, <2>1, <2>2 DEF HubInv, SessionsInv, Activity, Owned, Reading, IsAdmin
<1>3. ASSUME NEW k \in Sockets
      PROVE  SocketInv(k)'
  <2>1. "stage" \in DOMAIN sockets[k]
    BY DEF HubInv, SocketsInv, SocketInv
  <2>2. "stage" \in DOMAIN sockets'[k] /\ sockets'[k].stage \notin {"CHECKED", "OPEN"}
    BY <1>1, <2>1 DEF InUse, ClosedSocket
  <2> QED
    BY <2>2, ClosingSocket
<1> QED
  BY <1>1, <1>2, <1>3 DEF HubInv, SocketsInv

-----------------------------------------------------------------------------

LEMMA HubInitially ==
    ASSUME Init
    PROVE  HubInv
<1>1. \A s \in SessionIds : sessions[s] = NoSession
  BY DEF Init, SessionsInit
<1>2. NoSession \in Session /\ NoSession.state = "NONE" /\ NoSession.actor = NoActor
  BY DEF NoSession, Session
<1>3. \A q \in Requests : requests[q].stage = "NONE" /\ requests[q] \in RequestState
  BY DEF Init, SessionsInit, RequestState
<1>4. SessionsTypeOK
  BY <1>1, <1>2, <1>3, Constants DEF Init, SessionsInit, SessionsTypeOK
<1>5. SessionsInv
  BY <1>1, <1>2, <1>3, <1>4, Constants DEF SessionsInv, Activity, Owned, Reading, IsAdmin
<1>6. SocketsInv
  BY DEF Init, SocketsInv, SocketInv, IsOpen
<1> QED
  BY <1>5, <1>6 DEF HubInv

LEMMA HubStep ==
    ASSUME HubInv, [Next]_vars
    PROVE  HubInv'
<1>1. CASE UNCHANGED hubVars /\ (SessionStep \/ UNCHANGED sessionVars)
  <2>1. SessionsInv' /\ Announced
    BY <1>1, SessionStepSound, SessionStepAnnounced, SameSessionsSound, SameSessionsAnnounced
       DEF HubInv
  <2>2. \A k \in Sockets : SocketInv(k)'
    BY <1>1, <2>1, UntouchedSocket DEF HubInv, SocketsInv, hubVars
  <2> QED
    BY <1>1, <2>1, <2>2 DEF HubInv, SocketsInv, hubVars
<1>2. ASSUME NEW k \in Sockets, SocketStep(k)
      PROVE  HubInv'
  BY <1>2, AuthenticateSound, RegisterSound, StartValidationSound, ReadSessionSound,
     FinishValidationSound, FailValidationSound, RefuseMessageSound, CloseSocketSound
     DEF SocketStep
<1> QED
  BY <1>1, <1>2, NotifyRevokedSound, StopServerSound DEF Next, vars

\* The sessions, the requests and the sockets stay in the invariant that the
\* theorems below rest on, whatever sessions are revoked, and whenever
\* (sessions.ts, support-realtime.ts).
THEOREM HubInvariance == Spec => []HubInv
BY HubInitially, HubStep, PTL DEF Spec

\* What the sessions, the callbacks and the requests are made of.
THEOREM SessionTypes == Spec => []SessionsTypeOK
<1>1. HubInv => SessionsTypeOK
  BY DEF HubInv, SessionsInv
<1> QED
  BY <1>1, HubInvariance, PTL

\* An administrator's session lapses by inactivity and by nothing else
\* (touchAdminSessionForMutation), for any number of requests, any clock and
\* any refresh interval shorter than the idle one.
THEOREM InactivityOnly == Spec => []InactivityDecides
<1>1. HubInv => InactivityDecides
  BY DEF HubInv, SessionsInv, Activity, InactivityDecides
<1> QED
  BY <1>1, HubInvariance, PTL

\* No event reaches a socket of a revoked session that nothing is about to
\* close, for any number of sockets and sessions (registerPending, activate,
\* closeSession).
THEOREM NoEventToRevoked == Spec => []ActiveSessionsLive
<1>1. HubInv => ActiveSessionsLive
  BY DEF HubInv, SocketsInv, SocketInv, ActiveSessionsLive, Unnoticed, IsOpen
<1> QED
  BY <1>1, HubInvariance, PTL

-----------------------------------------------------------------------------
(* What a step may not do.                                                 *)

\* The rows of a step that only revokes keep what they record.
LEMMA RevokesOnlyFinal ==
    ASSUME RevokesOnly, NEW s \in SessionIds, sessions[s].state = "REVOKED"
    PROVE  /\ sessions'[s].state = "REVOKED"
           /\ sessions'[s].lastSeenAt = sessions[s].lastSeenAt
BY DEF RevokesOnly

LEMMA RevokedStepFinal ==
    ASSUME SessionsInv, SessionStep, NEW s \in SessionIds, sessions[s].state = "REVOKED"
    PROVE  /\ sessions'[s].state = "REVOKED"
           /\ sessions'[s].lastSeenAt = sessions[s].lastSeenAt
<1>1. CASE Tick
  BY <1>1 DEF Tick
<1>2. ASSUME \/ \E r \in SessionIds : RevokeSession(r) \/ ChangePassword(r)
             \/ \E a \in Actors : ResetPassword(a)
      PROVE  RevokesOnly
  BY <1>2, RevokingSound
<1>3. ASSUME NEW q \in Requests, NEW r \in SessionIds, Arrive(q, r)
      PROVE  RevokesOnly
  BY <1>3, ArriveSound
<1>4. ASSUME NEW a \in Actors, NEW r \in SessionIds,
             Login(a, r) \/ GoogleCallback(a, r) \/ AdminLogin(a, r)
      PROVE  sessions'[s] = sessions[s]
  <2>1. PICK row : NewSession(r, row)
    BY <1>4 DEF Login, GoogleCallback, AdminLogin, CreateUserSession, CreateAdminSession
  <2>2. s # r
    BY <2>1 DEF NewSession, SessionIds
  <2> QED
    BY <2>1, <2>2 DEF NewSession, SessionsInv, SessionsTypeOK
<1>5. ASSUME NEW q \in Requests, ServeMutation(q)
      PROVE  /\ sessions'[s].state = sessions[s].state
             /\ sessions'[s].lastSeenAt = sessions[s].lastSeenAt
  <2> DEFINE r == requests[q].session
  <2>1. CASE sessions' = [sessions EXCEPT ![r].lastServed = now]
    BY <2>1 DEF SessionsInv, SessionsTypeOK, Session
  <2>2. CASE /\ Touchable(r)
             /\ sessions' = [sessions EXCEPT ![r].lastServed = now, ![r].lastSeenAt = now]
    <3>1. s # r
      BY <2>2 DEF Touchable, Valid
    <3> QED
      BY <2>2, <3>1 DEF SessionsInv, SessionsTypeOK
  <2>3. CASE UNCHANGED sessions
    BY <2>3
  <2> QED
    BY <1>5, <2>1, <2>2, <2>3 DEF ServeMutation
<1> QED
  BY <1>1, <1>2, <1>3, <1>4, <1>5, RevokesOnlyFinal
     DEF SessionStep, RevokeUserSession, RevokeAdminSession

LEMMA HubStepRows ==
    ASSUME HubInv, Next
    PROVE  SessionStep \/ RevokesOnly
<1>1. SessionsTypeOK
  BY DEF HubInv, SessionsInv
<1>2. ASSUME UNCHANGED sessions
      PROVE  RevokesOnly
  BY <1>1, <1>2 DEF RevokesOnly, SessionsTypeOK
<1>3. ASSUME NEW k \in Sockets, SocketStep(k)
      PROVE  RevokesOnly
  <2>1. CASE \E s : sessions' = LookedUp(s)
    BY <1>1, <2>1, LookedUpIsRevokesOnly
  <2>2. CASE UNCHANGED sessions
    BY <1>2, <2>2
  <2> QED
    BY <1>3, <2>1, <2>2
       DEF SocketStep, Authenticate, Register, StartValidation, ReadSession, FinishValidation,
           FailValidation, RefuseMessage, CloseSocket, sessionVars
<1>4. ASSUME NEW s \in SessionIds, NotifyRevoked(s)
      PROVE  RevokesOnly
  BY <1>2, <1>4 DEF NotifyRevoked
<1>5. ASSUME StopServer
      PROVE  RevokesOnly
  BY <1>2, <1>5 DEF StopServer
<1> QED
  BY <1>3, <1>4, <1>5 DEF Next

\* A revoked session stays revoked and records no more activity, whatever
\* requests read it before it was (the conditions of the updates in
\* sessions.ts).
THEOREM RevokedStays == Spec => RevokedIsFinal
<1> DEFINE Final == \A s \in SessionIds : sessions[s].state = "REVOKED" =>
                       /\ sessions'[s].state = "REVOKED"
                       /\ sessions'[s].lastSeenAt = sessions[s].lastSeenAt
<1>1. ASSUME HubInv, [Next]_vars
      PROVE  [Final]_sessionVars
  <2>1. CASE UNCHANGED sessionVars
    BY <2>1
  <2>2. CASE Next
    <3>1. SessionStep \/ RevokesOnly
      BY <1>1, <2>2, HubStepRows
    <3>2. Final
      BY <1>1, <3>1, RevokedStepFinal, RevokesOnlyFinal DEF HubInv
    <3> HIDE DEF Final
    <3> QED
      BY <3>2
  <2> HIDE DEF Final
  <2> QED
    BY <1>1, <2>1, <2>2 DEF vars
<1> QED
  BY <1>1, HubInvariance, PTL DEF Spec, RevokedIsFinal

\* A mutation whose session was valid when it arrived is refused only because
\* the session no longer is, or because another mutation recorded its activity
\* in between (touchAdminSessionForMutation).
THEOREM RefusalsExplained == Spec => RefusedForReason
<1> DEFINE Explained ==
      \A q \in Requests :
          requests[q].stage = "READ" /\ requests'[q].stage = "REFUSED" =>
              LET s == requests[q].session
              IN  ~Valid(s) \/ sessions[s].lastSeenAt > requests[q].seen
<1>1. ASSUME HubInv, [Next]_vars
      PROVE  [Explained]_sessionVars
  <2>1. ASSUME NEW q \in Requests, requests[q].stage = "READ", requests'[q].stage = "REFUSED"
        PROVE  LET s == requests[q].session
               IN  ~Valid(s) \/ sessions[s].lastSeenAt > requests[q].seen
    <3>1. ServeMutation(q)
      <4>1. ASSUME NEW p \in Requests, NEW r \in SessionIds, Arrive(p, r)
            PROVE  requests'[q].stage = requests[q].stage \/ requests'[q].stage = "READ"
        BY <1>1, <4>1 DEF Arrive, HubInv, SessionsInv, SessionsTypeOK
      <4>2. ASSUME NEW p \in Requests, p # q, ServeMutation(p)
            PROVE  requests'[q] = requests[q]
        BY <1>1, <4>2 DEF ServeMutation, HubInv, SessionsInv, SessionsTypeOK
      <4>3. ASSUME StopServer
            PROVE  requests'[q].stage = "NONE"
        BY <4>3 DEF StopServer
      <4>4. requests' # requests
        BY <2>1
      <4>5. ASSUME NEW k \in Sockets, SocketStep(k)
            PROVE  requests' = requests
        BY <4>5 DEF SocketStep, Authenticate, Register, StartValidation, ReadSession,
                    FinishValidation, FailValidation, RefuseMessage, CloseSocket, sessionVars
      <4>6. ASSUME NEW s \in SessionIds, NotifyRevoked(s)
            PROVE  requests' = requests
        BY <4>6 DEF NotifyRevoked
      <4>7. SessionStep
        BY <1>1, <2>1, <4>3, <4>4, <4>5, <4>6 DEF Next, vars, sessionVars
      <4>8. PICK p \in Requests : ServeMutation(p) \/ \E r \in SessionIds : Arrive(p, r)
        BY <4>4, <4>7
           DEF SessionStep, Tick, RevokeUserSession, RevokeAdminSession, RevokeSession,
               ChangePassword, Login, GoogleCallback, AdminLogin, CreateUserSession,
               CreateAdminSession, NewSession, ResetPassword
      <4> QED
        BY <2>1, <4>1, <4>2, <4>8
    <3> DEFINE s == requests[q].session
    <3>2. /\ s \in SessionIds /\ requests[q].seen \in Nat
          /\ sessions[s].lastSeenAt \in Nat /\ now \in Nat
      BY <1>1, <2>1, Constants
         DEF HubInv, SessionsInv, SessionsTypeOK, RequestState, Session
    <3>3. ~SeenRecently(q) /\ ~Touchable(s)
      BY <1>1, <2>1, <3>1 DEF ServeMutation, HubInv, SessionsInv, SessionsTypeOK
    <3> QED
      BY <3>2, <3>3, Constants DEF SeenRecently, Touchable
  <2>2. Explained
    BY <2>1
  <2> HIDE DEF Explained
  <2> QED
    BY <2>2
<1> QED
  BY <1>1, HubInvariance, PTL DEF Spec, RefusedForReason

=============================================================================
