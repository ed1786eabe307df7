---------------------------- MODULE MCSupportHub ----------------------------
(* Instances of the hub and its sessions for TLC. *)
EXTENDS SupportHub

CONSTANTS user, admin

MCActors == {user, admin}
MCAdministrators == {admin}
OnlyUser == {user}
Nobody == {}

\* Requests and sockets meet in the rows of the sessions only: a behaviour has the
\* ones or the others, beside every way a session begins and ends.
Apart == (\A q \in Requests : requests[q].stage = "NONE") \/ (\A k \in Sockets : sockets[k].stage = "NONE")
ApartSpec == Init /\ [][Next /\ Apart']_vars /\ Fairness

=============================================================================
