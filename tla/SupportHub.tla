----------------------------- MODULE SupportHub -----------------------------
(***************************************************************************)
(* The real-time hub (support-realtime.ts): the websockets of each actor   *)
(* and how they open, are limited, are checked against their session and   *)
(* close.  Every await of the upgrade and of the checks is a step, so that *)
(* sessions are revoked, sockets closed and callbacks run in between.      *)
(*                                                                         *)
(* registeredSockets maps an actor to a Set object that the closures of    *)
(* its sockets keep a reference to.  A Set is named here by the socket it  *)
(* was created for, so that a Set no longer in the map is still a Set.     *)
(***************************************************************************)
EXTENDS Sessions, SequencesExt

CONSTANTS
    MaxConnections, \* bound: the connections ever made
    MaxSockets      \* MAX_SUPPORT_SOCKETS_PER_ACTOR

ASSUME SocketsAssumption ==
    /\ MaxConnections \in Nat
    /\ MaxSockets \in Nat \ {0}

\* Connections are numbered in the order their upgrades are authenticated.
Sockets == 1..MaxConnections
NoSocket == 0

VARIABLES
    sockets,    \* each connection
    registered, \* registeredSockets: the Set of each actor, NoSocket where it has none
    members     \* the members of each Set in the order they were added

hubVars == <<sockets, registered, members>>
vars == <<sessionVars, hubVars>>

\* active: in the activeSockets of its actor.  check: what a validation that has
\* started found, "DUE" until it has read the session; a socket that is not
\* activated yet is in its first validation.
Socket == [stage: {"NONE", "CHECKED", "OPEN", "CLOSING", "CLOSED"}, session: SessionIds,
           set: Sockets \cup {NoSocket}, active: BOOLEAN, opening: BOOLEAN,
           check: {"NONE", "DUE", "VALID", "INVALID"}]

NewSocket(s) == [stage |-> "CHECKED", session |-> s, set |-> NoSocket, active |-> FALSE,
                 opening |-> TRUE, check |-> "NONE"]
ClosedSocket == [stage |-> "CLOSED"]

ActorOf(k) == sessions[sockets[k].session].actor
InUse(k) == sockets[k].stage \in {"CHECKED", "OPEN", "CLOSING"}
IsOpen(k) == sockets[k].stage = "OPEN"

HubTypeOK ==
    /\ SessionsTypeOK
    /\ \A k \in Sockets : InUse(k) => sockets[k] \in Socket
    /\ registered \in [Actors -> Sockets \cup {NoSocket}]
    /\ \A g \in Sockets : ToSet(members[g]) \subseteq Sockets /\ IsInjective(members[g])

Init ==
    /\ SessionsInit
    /\ sockets = [k \in Sockets |-> [stage |-> "NONE"]]
    /\ registered = [a \in Actors |-> NoSocket]
    /\ members = [g \in Sockets |-> <<>>]

-----------------------------------------------------------------------------
(* Opening.                                                                *)

\* authenticateUpgrade; an administrator's session found lapsed is revoked, and
\* no callback tells the hub.
Authenticate(k, s) ==
    /\ \A m \in Sockets : sockets[m].stage = "NONE" <=> m >= k
    /\ sessions[s].state # "NONE"
    /\ sessions' = LookedUp(s)
    /\ sockets' = [sockets EXCEPT ![k] = IF Valid(s) THEN NewSocket(s) ELSE ClosedSocket]
    /\ UNCHANGED <<now, revocations, requests, registered, members>>

\* The members of the actor's Set that are not closing, before the limit is applied.
Remaining(g) == SelectSeq(members[g], LAMBDA m : IsOpen(m))

\* The socket that makes room for one more, if any must.
Evicted(a) ==
    IF registered[a] # NoSocket /\ Len(Remaining(registered[a])) >= MaxSockets
    THEN {Head(Remaining(registered[a]))} ELSE {}

\* registerPending, and the first validation is started.
Register(k) ==
    LET a == ActorOf(k)
        g == IF registered[a] = NoSocket THEN k ELSE registered[a]
        kept == SelectSeq(Remaining(g), LAMBDA m : m \notin Evicted(a))
    IN  /\ sockets[k].stage = "CHECKED"
        /\ members' = [members EXCEPT ![g] = Append(kept, k)]
        /\ registered' = [registered EXCEPT ![a] = g]
        /\ sockets' = [m \in Sockets |->
               IF m = k THEN [sockets[k] EXCEPT !.stage = "OPEN", !.set = g, !.check = "DUE"]
               ELSE IF m \in Evicted(a) THEN [sockets[m] EXCEPT !.stage = "CLOSING", !.active = FALSE]
               ELSE sockets[m]]
        /\ UNCHANGED sessionVars

-----------------------------------------------------------------------------
(* Validation: when the socket opens, and every minute while it is open.   *)

\* Wrong form of StartValidation: only administrators' sockets are validated.
StartValidationOfAdmins(k) ==
    /\ IsOpen(k) /\ IsAdmin(sockets[k].session)
    /\ ~sockets[k].opening
    /\ sockets[k].check = "NONE"
    /\ sockets' = [sockets EXCEPT ![k].check = "DUE"]
    /\ UNCHANGED <<sessionVars, registered, members>>

StartValidation(k) ==
    /\ IsOpen(k)
    /\ ~sockets[k].opening
    /\ sockets[k].check = "NONE"
    /\ sockets' = [sockets EXCEPT ![k].check = "DUE"]
    /\ UNCHANGED <<sessionVars, registered, members>>

\* The validation reads the session.
ReadSession(k) ==
    LET s == sockets[k].session
    IN  /\ InUse(k)
        /\ sockets[k].check = "DUE"
        /\ sessions' = LookedUp(s)
        /\ sockets' = [sockets EXCEPT ![k].check = IF Valid(s) THEN "VALID" ELSE "INVALID"]
        /\ UNCHANGED <<now, revocations, requests, registered, members>>

\* Wrong form of ClosingSession: sockets still being validated are missed.
ClosingSessionActiveOnly(all, s) ==
    [k \in Sockets |->
        IF all[k].stage = "OPEN" /\ all[k].session = s /\ all[k].active
        THEN [all[k] EXCEPT !.stage = "CLOSING"] ELSE all[k]]

\* closeSession: the registered sockets of a session.  Sets of sessionSockets are
\* left by the close event only, so they hold what is registered and not closed.
ClosingSession(all, s) ==
    [k \in Sockets |->
        IF all[k].stage = "OPEN" /\ all[k].session = s
        THEN [all[k] EXCEPT !.stage = "CLOSING"] ELSE all[k]]

\* activate(): only a socket that is open and still a member of its Set.
CanActivate(k) == IsOpen(k) /\ k \in ToSet(members[sockets[k].set])

FinishValidation(k) ==
    LET done == [sockets EXCEPT ![k].check = "NONE", ![k].opening = FALSE]
    IN  /\ InUse(k)
        /\ \/ /\ sockets[k].check = "INVALID"
              /\ sockets' = ClosingSession(done, sockets[k].session)
           \/ /\ sockets[k].check = "VALID"
              /\ sockets' = [done EXCEPT ![k].active =
                     sockets[k].active \/ (sockets[k].opening /\ CanActivate(k))]
        /\ UNCHANGED <<sessionVars, registered, members>>

\* The validation could not read the session.
FailValidation(k) ==
    /\ IsOpen(k)
    /\ sockets[k].check = "DUE"
    /\ sockets' = [sockets EXCEPT ![k].check = "NONE", ![k].opening = FALSE, ![k].stage = "CLOSING"]
    /\ UNCHANGED <<sessionVars, registered, members>>

-----------------------------------------------------------------------------
(* Closing.                                                                *)

\* onSessionRevoked
NotifyRevoked(s) ==
    /\ s \in revocations
    /\ revocations' = revocations \ {s}
    /\ sockets' = ClosingSession(sockets, s)
    /\ UNCHANGED <<now, sessions, requests, registered, members>>

\* Only short messages are read; what they say changes nothing.
RefuseMessage(k) ==
    /\ IsOpen(k)
    /\ sockets' = [sockets EXCEPT ![k].stage = "CLOSING"]
    /\ UNCHANGED <<sessionVars, registered, members>>

\* The close event, whoever closes (the peer, the network, the heartbeat, the hub
\* a moment before): unregister takes the socket out of its own Set and, when
\* that is empty, takes the actor's Set out of the map.
CloseSocket(k) ==
    LET g == sockets[k].set
        left == SelectSeq(members[g], LAMBDA m : m # k)
    IN  /\ sockets[k].stage \in {"OPEN", "CLOSING"}
        /\ members' = [members EXCEPT ![g] = left]
        /\ registered' = IF left = <<>> THEN [registered EXCEPT ![ActorOf(k)] = NoSocket]
                         ELSE registered
        /\ sockets' = [sockets EXCEPT ![k] = ClosedSocket]
        /\ UNCHANGED sessionVars

CloseAll ==
    /\ \E k \in Sockets : InUse(k)
    /\ sockets' = [k \in Sockets |-> IF InUse(k) THEN ClosedSocket ELSE sockets[k]]
    /\ registered' = [a \in Actors |-> NoSocket]
    /\ members' = [g \in Sockets |-> <<>>]

\* When the server stops, and in a crash, sockets, callbacks and requests are
\* lost, the sessions are not.
StopServer ==
    /\ CloseAll
    /\ revocations' = {}
    /\ requests' = [q \in Requests |-> [stage |-> "NONE"]]
    /\ UNCHANGED <<now, sessions>>

-----------------------------------------------------------------------------

SessionStep ==
    \/ Tick
    \/ \E s \in SessionIds : RevokeUserSession(s) \/ RevokeAdminSession(s) \/ ChangePassword(s)
    \/ \E a \in Actors, s \in SessionIds : Login(a, s) \/ GoogleCallback(a, s) \/ AdminLogin(a, s)
    \/ \E a \in Actors : ResetPassword(a)
    \/ \E q \in Requests : ServeMutation(q) \/ \E s \in SessionIds : Arrive(q, s)

SocketStep(k) ==
    \/ \E s \in SessionIds : Authenticate(k, s)
    \/ Register(k)
    \/ StartValidation(k)
    \/ ReadSession(k)
    \/ FinishValidation(k)
    \/ FailValidation(k)
    \/ RefuseMessage(k)
    \/ CloseSocket(k)

Next ==
    \/ SessionStep /\ UNCHANGED hubVars
    \/ \E s \in SessionIds : NotifyRevoked(s)
    \/ \E k \in Sockets : SocketStep(k)
    \/ StopServer

\* The timer of a socket runs, a validation that was started reads and ends, and
\* a callback that is due runs.  No client is assumed to do anything.
Fairness ==
    /\ \A k \in Sockets : WF_vars(StartValidation(k)) /\ WF_vars(ReadSession(k))
                          /\ WF_vars(FinishValidation(k))
    /\ \A s \in SessionIds : WF_vars(NotifyRevoked(s))

Spec == Init /\ [][Next]_vars
FairSpec == Spec /\ Fairness

-----------------------------------------------------------------------------

\* Events reach only sockets of live sessions: a socket that is open and
\* active has a session that is not revoked, unless the callback that will
\* close it is due or the session had lapsed before it was revoked, which
\* the next validation of the socket finds.  It holds across a revocation
\* between the upgrade's look-up and the registration, and between a
\* validation's read and its end (registerPending, activate, closeSession).
ActiveSessionsLive ==
    \A k \in Sockets :
        IsOpen(k) /\ sockets[k].active /\ sessions[sockets[k].session].state = "REVOKED" =>
            sockets[k].session \in revocations \/ Lapsed(sockets[k].session)

\* A Set never holds more sockets than the limit, and the sockets it holds
\* and that are open are the ones of one actor.
SetsWithinLimit ==
    \A g \in Sockets :
        /\ Len(members[g]) <= MaxSockets
        /\ \A k, m \in ToSet(members[g]) : ActorOf(k) = ActorOf(m)

\* A socket whose session is revoked or lapsed does not stay open, though
\* its client does nothing (the validation every minute).
InvalidSocketsClose ==
    \A k \in Sockets :
        (IsOpen(k) /\ ~Valid(sockets[k].session)) ~> ~IsOpen(k)

\* What the test "bounds simultaneous websocket connections per actor and
\* closes the oldest" (tests/support.integration.test.ts) says of the hub.
SocketLimit ==
    \A a \in Actors :
        Cardinality({k \in Sockets : IsOpen(k) /\ ActorOf(k) = a}) <= MaxSockets

=============================================================================
