------------------------------ MODULE Sessions ------------------------------
(***************************************************************************)
(* The sessions of customers and administrators (sessions.ts, auth.ts): a  *)
(* row of the database per session, the callbacks that tell the real-time  *)
(* hub a session was revoked, and the requests of administrators, which    *)
(* read their session when they arrive and record their activity later,    *)
(* with what they read then.  Passwords, tokens and cookies are left out:  *)
(* a browser that holds a session's cookie is a request of that session.   *)
(***************************************************************************)
EXTENDS Naturals, FiniteSets

CONSTANTS
    Actors,         \* customers and administrators
    Administrators, \* the actors of the admin namespace
    MaxSessions,    \* bound: the session rows ever created
    Requests,       \* state-changing requests of administrators in flight
    NoActor,
    UserLifetime,   \* 30 days
    AdminLifetime,  \* ADMIN_ABSOLUTE_TIMEOUT_MS
    Idle,           \* ADMIN_IDLE_TIMEOUT_MS
    Refresh,        \* ADMIN_LAST_SEEN_UPDATE_INTERVAL_MS
    MaxClock        \* bound: the last instant of the clock

ASSUME SessionTimesAssumption ==
    /\ Administrators \subseteq Actors
    /\ NoActor \notin Actors
    /\ {MaxSessions, UserLifetime, AdminLifetime, Idle, Refresh, MaxClock} \subseteq Nat \ {0}
    /\ Refresh < Idle

VARIABLES
    now,         \* the clock
    sessions,    \* the rows of UserSession and AdminSession
    revocations, \* sessions whose onSessionRevoked callback is still to run
    requests     \* what each request read of its session, and where it stands

sessionVars == <<now, sessions, revocations, requests>>

\* Rows are numbered in the order they are created.
SessionIds == 1..MaxSessions

\* lastSeenAt, and in lastServed the instant of the last mutation served, are kept
\* for administrators: nothing reads the activity of a customer.
Session == [state: {"NONE", "LIVE", "REVOKED"}, actor: Actors \cup {NoActor},
            expiresAt: Nat, lastSeenAt: Nat, lastServed: Nat]
RequestState ==
    [stage: {"READ"}, session: SessionIds, seen: Nat] \cup [stage: {"NONE", "SERVED", "REFUSED"}]

NoSession == [state |-> "NONE", actor |-> NoActor, expiresAt |-> 0, lastSeenAt |-> 0, lastServed |-> 0]
SessionsOf(a) == {s \in SessionIds : sessions[s].actor = a}
IsAdmin(s) == sessions[s].actor \in Administrators

Lapsed(s) ==
    \/ sessions[s].expiresAt <= now
    \/ IsAdmin(s) /\ sessions[s].lastSeenAt + Idle <= now

Valid(s) == sessions[s].state = "LIVE" /\ ~Lapsed(s)

SessionsTypeOK ==
    /\ now \in 0..MaxClock
    /\ sessions \in [SessionIds -> Session]
    /\ revocations \subseteq SessionIds
    /\ requests \in [Requests -> RequestState]

SessionsInit ==
    /\ now = 0
    /\ sessions = [s \in SessionIds |-> NoSession]
    /\ revocations = {}
    /\ requests = [q \in Requests |-> [stage |-> "NONE"]]

Tick ==
    /\ now < MaxClock
    /\ now' = now + 1
    /\ UNCHANGED <<sessions, revocations, requests>>

-----------------------------------------------------------------------------
(* Session rows.  A login revokes the session of the browser it comes from *)
(* (RevokeSession) and then creates one, as two transactions.              *)

\* The rows once those of S that are not revoked yet are.
Revoked(S) ==
    [s \in SessionIds |->
        IF s \in S /\ sessions[s].state = "LIVE" THEN [sessions[s] EXCEPT !.state = "REVOKED"]
        ELSE sessions[s]]

NewSession(s, row) ==
    /\ \A r \in SessionIds : sessions[r].state = "NONE" <=> r >= s
    /\ sessions' = [sessions EXCEPT ![s] = row]
    /\ UNCHANGED <<now, revocations, requests>>

CreateUserSession(a, s) ==
    /\ a \notin Administrators
    /\ NewSession(s, [state |-> "LIVE", actor |-> a, expiresAt |-> now + UserLifetime,
                      lastSeenAt |-> 0, lastServed |-> 0])

CreateAdminSession(a, s) ==
    /\ a \in Administrators
    /\ NewSession(s, [state |-> "LIVE", actor |-> a, expiresAt |-> now + AdminLifetime,
                      lastSeenAt |-> now, lastServed |-> now])

\* The identity is checked first, with nothing to stop what happens meanwhile.
Login(a, s) == CreateUserSession(a, s)
GoogleCallback(a, s) == CreateUserSession(a, s)
AdminLogin(a, s) == CreateAdminSession(a, s)

\* The callback runs even for a session revoked before.
RevokeSession(s) ==
    /\ sessions[s].state # "NONE"
    /\ sessions' = Revoked({s})
    /\ revocations' = revocations \cup {s}
    /\ UNCHANGED <<now, requests>>

\* Log out, or log in again.
RevokeUserSession(s) == ~IsAdmin(s) /\ RevokeSession(s)
RevokeAdminSession(s) == IsAdmin(s) /\ RevokeSession(s)

RequireUser(s) == Valid(s) /\ ~IsAdmin(s)

\* A customer who is signed in sets a new password and keeps that session only.
ChangePassword(s) ==
    LET others == {o \in SessionsOf(sessions[s].actor) \ {s} : sessions[o].state = "LIVE"}
    IN  /\ RequireUser(s)
        /\ sessions' = Revoked(others)
        /\ revocations' = revocations \cup others
        /\ UNCHANGED <<now, requests>>

ResetPassword(a) ==
    LET live == {s \in SessionsOf(a) : sessions[s].state = "LIVE"}
    IN  /\ a \notin Administrators
        /\ sessions' = Revoked(live)
        /\ revocations' = revocations \cup live
        /\ UNCHANGED <<now, requests>>

\* The look-up of a session by its token: an administrator's that is found lapsed is revoked.
LookedUp(s) == IF IsAdmin(s) /\ ~Valid(s) THEN Revoked({s}) ELSE sessions

-----------------------------------------------------------------------------
(* Requests of administrators: the session is looked up when the request   *)
(* arrives, and its activity recorded after the other checks.              *)

Arrive(q, s) ==
    /\ requests[q].stage # "READ"
    /\ sessions[s].state # "NONE"
    /\ IsAdmin(s)
    /\ sessions' = LookedUp(s)
    /\ IF Valid(s)
       THEN /\ requests' = [requests EXCEPT ![q] =
                   [stage |-> "READ", session |-> s, seen |-> sessions[s].lastSeenAt]]
            /\ UNCHANGED revocations
       ELSE /\ revocations' = revocations \cup {s}
            /\ UNCHANGED requests
    /\ UNCHANGED now

\* Wrong form of SeenRecently: any live session needs no refresh.
SeenWithinIdle(q) == requests[q].seen + Idle > now

\* Seen less than Refresh ago, by what the request read of its session.
SeenRecently(q) == requests[q].seen + Refresh > now

\* Wrong form of Touchable: a revoked session may be touched.
TouchableAnyState(s) ==
    /\ sessions[s].expiresAt > now
    /\ sessions[s].lastSeenAt + Refresh <= now

\* The condition of the update that records the activity.
Touchable(s) ==
    /\ Valid(s)
    /\ sessions[s].lastSeenAt + Refresh <= now

\* touchAdminSessionForMutation, then the handler of the request.
ServeMutation(q) ==
    LET s == requests[q].session
    IN  /\ requests[q].stage = "READ"
        /\ \/ /\ SeenRecently(q)
              /\ requests' = [requests EXCEPT ![q] = [stage |-> "SERVED"]]
              /\ sessions' = [sessions EXCEPT ![s].lastServed = now]
           \/ /\ ~SeenRecently(q) /\ Touchable(s)
              /\ requests' = [requests EXCEPT ![q] = [stage |-> "SERVED"]]
              /\ sessions' = [sessions EXCEPT ![s].lastServed = now, ![s].lastSeenAt = now]
           \/ /\ ~SeenRecently(q) /\ ~Touchable(s)
              /\ requests' = [requests EXCEPT ![q] = [stage |-> "REFUSED"]]
              /\ UNCHANGED sessions
        /\ UNCHANGED <<now, revocations>>

-----------------------------------------------------------------------------

\* An administrator's session lapses by inactivity and by nothing else: what
\* the row says of the last activity is never later than the last mutation
\* served, and falls behind it by less than the refresh interval, though
\* concurrent requests decide on what each read when it arrived
\* (touchAdminSessionForMutation).
InactivityDecides ==
    \A s \in SessionIds : IsAdmin(s) =>
        /\ sessions[s].lastSeenAt <= sessions[s].lastServed
        /\ sessions[s].lastServed < sessions[s].lastSeenAt + Refresh

\* A revoked session stays revoked and records no more activity, whatever
\* requests read it before (the conditions of the updates in sessions.ts).
RevokedIsFinal ==
    [][\A s \in SessionIds : sessions[s].state = "REVOKED" =>
          /\ sessions'[s].state = "REVOKED"
          /\ sessions'[s].lastSeenAt = sessions[s].lastSeenAt]_sessionVars

\* A mutation of a session that was valid when it arrived is refused only
\* when the session is no longer valid, or when another request recorded
\* activity in between: two mutations that race to refresh a session seen
\* more than a minute ago have one loser (sessions.ts, updated.count !== 1).
RefusedForReason ==
    [][\A q \in Requests :
          requests[q].stage = "READ" /\ requests'[q].stage = "REFUSED" =>
              LET s == requests[q].session
              IN  ~Valid(s) \/ sessions[s].lastSeenAt > requests[q].seen]_sessionVars

=============================================================================
