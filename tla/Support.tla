------------------------------- MODULE Support -------------------------------
(***************************************************************************)
(* A support conversation between a customer and the administrators: its   *)
(* messages, its workflow status, who has read what, the notifications of  *)
(* each message, and the unread counts pushed over the web sockets.        *)
(*                                                                         *)
(* A handler stores in one queued transaction and pushes afterwards,       *)
(* outside the queue: it reads the counts, then sends them, and pushes of  *)
(* several handlers overlap.  A request may be repeated with the same      *)
(* client id: its answer was lost.                                         *)
(***************************************************************************)
EXTENDS SequencesExt, Integers

CONSTANTS
    Customer,       \* the user of the conversation
    Admins,         \* the active administrators
    ClientIds,      \* clientMessageId values the frontends draw
    Author,         \* Author[c]: who drew it
    Opening,        \* those drawn to open the conversation
    Pushes,         \* handlers that may be pushing at once
    MaxClock        \* milliseconds of this instance

Parties == {Customer} \cup Admins

ASSUME SupportAssumption ==
    /\ Customer \notin Admins
    /\ Author \in [ClientIds -> Parties]
    /\ Opening \subseteq ClientIds
    /\ MaxClock \in Nat \ {0}

VARIABLES
    clock,          \* the server's clock
    status,         \* SupportConversation.status, "NONE" before it is opened
    messages,       \* its messages, in the order they were stored
    reply,          \* reply[c]: whether the last answer to c gave its message
    lastRead,       \* lastRead[p]: SupportConversationRead.lastReadAt, 0 if none
    notices,        \* notices[p]: notifications of p
    noticesRead,    \* noticesRead[p]: those with a readAt
    connected,      \* connected[p]: p has an active socket
    shown,          \* shown[p]: the unread count p was last sent, -1 if none
    push,           \* push[k]: what handler k is pushing, or Idle
    overlapped      \* a push failed or began while another was under way

storeVars == <<clock, status, messages, reply, lastRead, notices, noticesRead>>
pushVars == <<connected, shown, push, overlapped>>
vars == <<storeVars, pushVars>>

Statuses == {"OPEN", "IN_PROGRESS", "RESOLVED", "CLOSED"}
Idle == [stage |-> "IDLE", to |-> {}, counts |-> [p \in Parties |-> 0]]

Indices == DOMAIN messages
Stored(c) == \E i \in Indices : messages[i].client = c
SameSide(p, q) == (p = Customer) = (q = Customer)
Others(p) == {q \in Parties : ~SameSide(p, q)}
LastMessageAt == Last(messages).at

\* A message of the other side is unread when it is newer than the pointer.
UnreadMessages(p) ==
    {i \in Indices : ~SameSide(messages[i].by, p) /\ messages[i].at > lastRead[p]}
UnreadCount(p) == Cardinality(UnreadMessages(p))

SupportTypeOK ==
    /\ clock \in 1 .. MaxClock
    /\ status \in Statuses \cup {"NONE"}
    /\ messages \in Seq([by : Parties, at : Nat, client : ClientIds])
    /\ reply \in [ClientIds -> {"NONE", "GIVEN", "REFUSED"}]
    /\ lastRead \in [Parties -> Nat]
    /\ \A p \in Parties : noticesRead[p] \subseteq notices[p]
    /\ connected \in [Parties -> BOOLEAN]
    /\ shown \in [Parties -> Nat \cup {-1}]
    /\ \A p \in Parties : ~connected[p] => shown[p] = -1
    /\ overlapped \in BOOLEAN

Init ==
    /\ clock = 1
    /\ status = "NONE"
    /\ messages = <<>>
    /\ reply = [c \in ClientIds |-> "NONE"]
    /\ lastRead = [p \in Parties |-> 0]
    /\ notices = [p \in Parties |-> {}]
    /\ noticesRead = [p \in Parties |-> {}]
    /\ connected = [p \in Parties |-> FALSE]
    /\ shown = [p \in Parties |-> -1]
    /\ push = [k \in Pushes |-> Idle]
    /\ overlapped = FALSE

-----------------------------------------------------------------------------
(* What a handler leaves to push once its transaction is stored.            *)

Quiet == \A k \in Pushes : push[k] = Idle

Begin(to) ==
    \E k \in Pushes :
        /\ push[k] = Idle
        /\ push' = [push EXCEPT ![k] = [Idle EXCEPT !.stage = "STORED", !.to = to]]

\* A push of everybody's count makes up for what was missed before it.
PushToAll ==
    /\ Begin(Parties)
    /\ overlapped' = ~Quiet
    /\ UNCHANGED <<connected, shown>>

NoPush == UNCHANGED pushVars

-----------------------------------------------------------------------------
(* Messages.                                                                *)

Answer(c, answer) == reply' = [reply EXCEPT ![c] = answer]

\* One notification per recipient and message, stamped by the database.
Notify(p, i, at) ==
    notices' = [q \in Parties |->
        IF q \in Others(p) THEN notices[q] \cup {[message |-> i, at |-> at]} ELSE notices[q]]

\* The message, its author's pointer and its notifications; the clock may
\* move before they are stamped.
StoreMessage(c, at) ==
    LET p == Author[c]
    IN  /\ messages' = Append(messages, [by |-> p, at |-> at, client |-> c])
        /\ lastRead' = [lastRead EXCEPT ![p] = at]
        /\ Answer(c, "GIVEN")
        /\ clock' \in {clock, clock + 1} \cap 1 .. MaxClock
        /\ Notify(p, Len(messages) + 1, clock')
        /\ UNCHANGED noticesRead
        /\ PushToAll

OnlyAnswer(c, answer) ==
    /\ Answer(c, answer)
    /\ UNCHANGED <<clock, status, messages, lastRead, notices, noticesRead>>
    /\ NoPush

CreateConversation(c) ==
    /\ c \in Opening
    /\ \/ status = "NONE" /\ StoreMessage(c, clock) /\ status' = "OPEN"
       \/ Stored(c) /\ OnlyAnswer(c, "GIVEN")

\* Wrong form of MessageTime: the clock alone.
ClockTime == clock

\* Messages are stored in increasing time, whatever the clock does.
MessageTime == IF clock > LastMessageAt THEN clock ELSE LastMessageAt + 1

\* A message reopens a resolved conversation, and an administrator's takes
\* charge of an open one.
StatusAfterMessage(p) ==
    IF status = "RESOLVED" THEN (IF p = Customer THEN "OPEN" ELSE "IN_PROGRESS")
    ELSE IF status = "OPEN" /\ p # Customer THEN "IN_PROGRESS"
    ELSE status

\* Wrong form of SendMessage: a closed conversation is noticed first.
SendMessageClosedFirst(c) ==
    /\ c \notin Opening
    /\ status # "NONE"
    /\ \/ status = "CLOSED" /\ OnlyAnswer(c, "REFUSED")
       \/ status # "CLOSED" /\ Stored(c) /\ OnlyAnswer(c, "GIVEN")
       \/ status # "CLOSED" /\ ~Stored(c) /\ StoreMessage(c, MessageTime)
            /\ status' = StatusAfterMessage(Author[c])

SendMessage(c) ==
    /\ c \notin Opening
    /\ status # "NONE"
    /\ \/ Stored(c) /\ OnlyAnswer(c, "GIVEN")
       \/ ~Stored(c) /\ status = "CLOSED" /\ OnlyAnswer(c, "REFUSED")
       \/ ~Stored(c) /\ status # "CLOSED" /\ StoreMessage(c, MessageTime)
            /\ status' = StatusAfterMessage(Author[c])

\* PATCH status, by an administrator; its push carries no totals.
ChangeStatus(next) ==
    /\ status \notin {"NONE", next}
    /\ status' = next
    /\ UNCHANGED <<clock, messages, reply, lastRead, notices, noticesRead>>
    /\ NoPush

-----------------------------------------------------------------------------
(* Reading.                                                                 *)

\* Wrong form of MarkRead: nobody is told.
MarkReadSilently(p, i) ==
    LET next == IF lastRead[p] > messages[i].at THEN lastRead[p] ELSE messages[i].at
    IN  /\ status # "NONE"
        /\ lastRead' = [lastRead EXCEPT ![p] = next]
        /\ noticesRead' = [noticesRead EXCEPT ![p] =
            @ \cup {n \in notices[p] : n.at <= next}]
        /\ UNCHANGED <<clock, status, messages, reply, notices>>
        /\ NoPush

\* A party reads up to a message (the last one by default): the pointer
\* never goes back, and notifications stamped before it are read too.
MarkRead(p, i) ==
    LET next == IF lastRead[p] > messages[i].at THEN lastRead[p] ELSE messages[i].at
    IN  /\ status # "NONE"
        /\ lastRead' = [lastRead EXCEPT ![p] = next]
        /\ noticesRead' = [noticesRead EXCEPT ![p] =
            @ \cup {n \in notices[p] : n.at <= next}]
        /\ UNCHANGED <<clock, status, messages, reply, notices>>
        /\ PushToAll

\* POST /notifications/read-all; one notification alone is read likewise.
ReadNotices(p) ==
    /\ noticesRead[p] # notices[p]
    /\ noticesRead' = [noticesRead EXCEPT ![p] = notices[p]]
    /\ UNCHANGED <<clock, status, messages, reply, lastRead, notices>>
    /\ NoPush

-----------------------------------------------------------------------------
(* Pushes.                                                                  *)

\* An activated socket is told its own count.
Connect(p) ==
    /\ ~connected[p]
    /\ connected' = [connected EXCEPT ![p] = TRUE]
    /\ Begin({p})
    /\ overlapped' = (overlapped \/ ~Quiet)
    /\ UNCHANGED <<storeVars, shown>>

Disconnect(p) ==
    /\ connected[p]
    /\ connected' = [connected EXCEPT ![p] = FALSE]
    /\ shown' = [shown EXCEPT ![p] = -1]
    /\ UNCHANGED <<storeVars, push, overlapped>>

\* The counts of the customer and of the administrators connected by then.
ReadCounts(k) ==
    /\ push[k].stage = "STORED"
    /\ push' = [push EXCEPT ![k] =
        [stage |-> "READ",
         to |-> {p \in push[k].to : p = Customer \/ connected[p]},
         counts |-> [p \in Parties |-> IF p \in push[k].to THEN UnreadCount(p) ELSE 0]]]
    /\ UNCHANGED <<storeVars, connected, shown, overlapped>>

SendCounts(k) ==
    /\ push[k].stage = "READ"
    /\ shown' = [p \in Parties |->
        IF p \in push[k].to /\ connected[p] THEN push[k].counts[p] ELSE shown[p]]
    /\ push' = [push EXCEPT ![k] = Idle]
    /\ UNCHANGED <<storeVars, connected, overlapped>>

\* Reading the counts fails: it is logged and forgotten.
PushFails(k) ==
    /\ push[k].stage = "STORED"
    /\ push' = [push EXCEPT ![k] = Idle]
    /\ overlapped' = TRUE
    /\ UNCHANGED <<storeVars, connected, shown>>

-----------------------------------------------------------------------------

Tick ==
    /\ clock < MaxClock
    /\ clock' = clock + 1
    /\ UNCHANGED <<status, messages, reply, lastRead, notices, noticesRead, pushVars>>

Next ==
    \/ \E c \in ClientIds : CreateConversation(c) \/ SendMessage(c)
    \/ \E next \in Statuses : ChangeStatus(next)
    \/ \E p \in Parties :
        \/ \E i \in Indices : MarkRead(p, i)
        \/ ReadNotices(p)
        \/ Connect(p)
        \/ Disconnect(p)
    \/ \E k \in Pushes : ReadCounts(k) \/ SendCounts(k) \/ PushFails(k)
    \/ Tick

Spec == Init /\ [][Next]_vars

-----------------------------------------------------------------------------
(* Properties.                                                              *)

\* A message of the other side is one more unread message, however the clock
\* and the readers run, and nothing else adds one: messages stored in one
\* millisecond are told apart and no read takes the pointer back.
UnreadFollowsMessages ==
    [][\A p \in Parties :
        IF messages' # messages /\ ~SameSide(Last(messages').by, p)
        THEN UnreadCount(p)' = UnreadCount(p) + 1
        ELSE UnreadCount(p)' <= UnreadCount(p)]_vars

\* A request whose message was stored is never refused when it is repeated,
\* though the conversation was closed since.
RetriesAnswered ==
    [][\A c \in ClientIds : Stored(c) => reply'[c] # "REFUSED"]_vars

\* Every recipient has one notification of every message of the other side.
NoticePerMessage ==
    \A i \in Indices : \A p \in Others(messages[i].by) :
        Cardinality({n \in notices[p] : n.message = i}) = 1

\* Once the pushes are over, and unless one failed or overlapped another, a
\* connected party was last sent its unread count.
CountsSettle ==
    Quiet /\ ~overlapped =>
        \A p \in Parties : connected[p] => shown[p] = UnreadCount(p)
=============================================================================
