---------------------------- MODULE SupportProofs ----------------------------
(***************************************************************************)
(* Theorems about a support conversation: what is unread follows the       *)
(* messages, a repeated request is answered, and the counts pushed over    *)
(* the sockets settle.  The messages and the pointers of the readers are   *)
(* one invariant (ConversationInv), the pushes another (PushInv): a push   *)
(* under way owes their count to those it is for, and nobody else.         *)
(***************************************************************************)
EXTENDS Support, SequenceTheorems, FiniteSetTheorems, TLAPS

Message == [by : Parties, at : Nat, client : ClientIds]

\* The time of the last message, 0 before there is one.
Latest == IF messages = <<>> THEN 0 ELSE LastMessageAt

TypesInv ==
    /\ clock \in 1 .. MaxClock
    /\ status \in Statuses \cup {"NONE"}
    /\ messages \in Seq(Message)
    /\ reply \in [ClientIds -> {"NONE", "GIVEN", "REFUSED"}]
    /\ lastRead \in [Parties -> Nat]
    /\ DOMAIN notices = Parties /\ DOMAIN noticesRead = Parties
    /\ \A p \in Parties : noticesRead[p] \subseteq notices[p]

\* No message and no pointer is later than the last message.
TimesInv ==
    /\ status = "NONE" <=> messages = <<>>
    /\ \A i \in Indices : messages[i].at <= Latest
    /\ \A p \in Parties : lastRead[p] <= Latest

\* What is stored was answered.
AnswersInv == \A c \in ClientIds : Stored(c) => reply[c] # "REFUSED"

ConversationInv == TypesInv /\ TimesInv /\ AnswersInv

\* The notifications are of messages, and one is kept for each recipient.
NoticesInv ==
    /\ \A p \in Parties : \A n \in notices[p] : n.message \in Indices
    /\ NoticePerMessage

LEMMA Constants ==
    /\ MaxClock \in Nat /\ MaxClock >= 1
    /\ Author \in [ClientIds -> Parties]
BY SupportAssumption

LEMMA LatestType ==
    ASSUME TypesInv
    PROVE  /\ Latest \in Nat
           /\ Indices = 1..Len(messages) /\ Len(messages) \in Nat
           /\ \A i \in Indices : messages[i] \in Message
           /\ messages # <<>> => Latest = messages[Len(messages)].at
<1>1. /\ Indices = 1..Len(messages) /\ Len(messages) \in Nat
      /\ \A i \in Indices : messages[i] \in Message
  BY DEF TypesInv, Indices
<1>2. messages # <<>> => Len(messages) \in Indices
  BY <1>1, EmptySeq DEF TypesInv
<1>3. messages # <<>> => Latest = messages[Len(messages)].at
  BY DEF Latest, LastMessageAt, Last
<1>4. Latest \in Nat
  BY <1>1, <1>2, <1>3 DEF Latest, Message
<1> QED
  BY <1>1, <1>3, <1>4

-----------------------------------------------------------------------------
(* The messages: a step stores one, or leaves them and may move pointers.   *)

\* c's message is stored, later than all of them.
NewMessage(c) ==
    /\ \E at \in Nat :
        /\ at > Latest
        /\ messages' = Append(messages, [by |-> Author[c], at |-> at, client |-> c])
        /\ lastRead' = [lastRead EXCEPT ![Author[c]] = at]
    /\ reply' = [reply EXCEPT ![c] = "GIVEN"]
    /\ status' \in Statuses
    /\ clock' \in 1 .. MaxClock
    /\ Notify(Author[c], Len(messages) + 1, clock')
    /\ noticesRead' = noticesRead

\* No pointer goes back, and what is stored is not refused.
OldMessages ==
    /\ messages' = messages
    /\ lastRead' \in [Parties -> Nat]
    /\ \A p \in Parties : lastRead[p] <= lastRead'[p] /\ lastRead'[p] <= Latest
    /\ reply' \in [ClientIds -> {"NONE", "GIVEN", "REFUSED"}]
    /\ \A c \in ClientIds : reply'[c] = "REFUSED" => reply[c] = "REFUSED" \/ ~Stored(c)
    /\ status' \in Statuses \cup {"NONE"}
    /\ (status' = "NONE") <=> (status = "NONE")
    /\ clock' \in 1 .. MaxClock
    /\ notices' = notices
    /\ DOMAIN noticesRead' = Parties
    /\ \A p \in Parties : noticesRead'[p] \subseteq notices[p]

LEMMA InitConversation == Init => ConversationInv
<1> SUFFICES ASSUME Init PROVE ConversationInv
  OBVIOUS
<1>1. TypesInv
  BY Constants DEF Init, TypesInv
<1>2. Indices = {} /\ Latest = 0
  BY DEF Init, Indices, Latest
<1>3. TimesInv
  BY <1>2 DEF Init, TimesInv
<1>4. AnswersInv
  BY <1>2 DEF AnswersInv, Stored
<1> QED
  BY <1>1, <1>3, <1>4 DEF ConversationInv

LEMMA Unmoved ==
    ASSUME ConversationInv,
           UNCHANGED <<messages, lastRead, reply, notices>>,
           DOMAIN noticesRead' = Parties,
           \A p \in Parties : noticesRead'[p] \subseteq notices[p],
           status' \in Statuses \cup {"NONE"},
           (status' = "NONE") <=> (status = "NONE"),
           clock' \in 1 .. MaxClock
    PROVE  OldMessages
<1>1. \A p \in Parties : lastRead[p] \in Nat /\ lastRead[p] <= Latest
  BY DEF ConversationInv, TypesInv, TimesInv
<1> QED
  BY <1>1 DEF ConversationInv, TypesInv, OldMessages

LEMMA StoreMoves ==
    ASSUME ConversationInv, NEW c \in ClientIds, NEW at \in Nat,
           at > Latest, StoreMessage(c, at), status' \in Statuses
    PROVE  NewMessage(c)
<1>1. clock' \in 1 .. MaxClock
  BY DEF StoreMessage
<1> QED
  BY <1>1 DEF StoreMessage, NewMessage, Answer

LEMMA AnswerMoves ==
    ASSUME ConversationInv, NEW c \in ClientIds, NEW answer \in {"GIVEN", "REFUSED"},
           Stored(c) => answer = "GIVEN", OnlyAnswer(c, answer)
    PROVE  OldMessages
<1>1. \A p \in Parties : lastRead[p] \in Nat /\ lastRead[p] <= Latest
  BY DEF ConversationInv, TypesInv, TimesInv
<1>2. /\ reply' \in [ClientIds -> {"NONE", "GIVEN", "REFUSED"}]
      /\ \A d \in ClientIds : reply'[d] = "REFUSED" => reply[d] = "REFUSED" \/ ~Stored(d)
  BY DEF ConversationInv, TypesInv, OnlyAnswer, Answer
<1> QED
  BY <1>1, <1>2 DEF ConversationInv, TypesInv, OldMessages, OnlyAnswer

LEMMA MessageTimeLater ==
    ASSUME ConversationInv, status # "NONE"
    PROVE  MessageTime \in Nat /\ MessageTime > Latest
<1>1. messages # <<>> /\ Latest = LastMessageAt /\ Latest \in Nat
  BY LatestType DEF ConversationInv, TimesInv, Latest
<1>2. clock \in Nat
  BY Constants DEF ConversationInv, TypesInv
<1> QED
  BY <1>1, <1>2 DEF MessageTime

LEMMA MovesOfNext ==
    ASSUME ConversationInv, [Next]_vars
    PROVE  OldMessages \/ \E c \in ClientIds : NewMessage(c)
<1>0. /\ clock \in 1 .. MaxClock /\ clock \in Nat /\ clock >= 1
      /\ status \in Statuses \cup {"NONE"}
      /\ Latest \in Nat
      /\ DOMAIN noticesRead = Parties
      /\ \A p \in Parties : noticesRead[p] \subseteq notices[p]
  BY Constants, LatestType DEF ConversationInv, TypesInv
<1>1. ASSUME NEW c \in ClientIds, CreateConversation(c)
      PROVE  OldMessages \/ NewMessage(c)
  <2>1. CASE status = "NONE" /\ StoreMessage(c, clock) /\ status' = "OPEN"
    <3>1. clock > Latest
      BY <1>0, <2>1 DEF ConversationInv, TimesInv, Latest
    <3>2. status' \in Statuses
      BY <2>1 DEF Statuses
    <3> QED
      BY <1>0, <2>1, <3>1, <3>2, StoreMoves
  <2>2. CASE Stored(c) /\ OnlyAnswer(c, "GIVEN")
    BY <2>2, AnswerMoves
  <2> QED
    BY <1>1, <2>1, <2>2 DEF CreateConversation
<1>2. ASSUME NEW c \in ClientIds, SendMessage(c)
      PROVE  OldMessages \/ NewMessage(c)
  <2>1. CASE Stored(c) /\ OnlyAnswer(c, "GIVEN")
    BY <2>1, AnswerMoves
  <2>2. CASE ~Stored(c) /\ OnlyAnswer(c, "REFUSED")
    BY <2>2, AnswerMoves
  <2>3. CASE StoreMessage(c, MessageTime) /\ status' = StatusAfterMessage(Author[c])
    <3>1. status # "NONE"
      BY <1>2 DEF SendMessage
    <3>2. status' \in Statuses
      BY <1>0, <2>3, <3>1 DEF StatusAfterMessage, Statuses
    <3> QED
      BY <2>3, <3>1, <3>2, StoreMoves, MessageTimeLater
  <2> QED
    BY <1>2, <2>1, <2>2, <2>3 DEF SendMessage
<1>3. ASSUME NEW next \in Statuses, ChangeStatus(next)
      PROVE  OldMessages
  BY <1>0, <1>3, Unmoved DEF ChangeStatus, Statuses
<1>4. ASSUME NEW p \in Parties, NEW i \in Indices, MarkRead(p, i)
      PROVE  OldMessages
  <2>1. /\ messages[i].at \in Nat /\ messages[i].at <= Latest
        /\ \A q \in Parties : lastRead[q] \in Nat /\ lastRead[q] <= Latest
        /\ lastRead \in [Parties -> Nat]
    BY LatestType DEF ConversationInv, TypesInv, TimesInv, Message
  <2> DEFINE next == IF lastRead[p] > messages[i].at THEN lastRead[p] ELSE messages[i].at
  <2>2. next \in Nat /\ next >= lastRead[p] /\ next <= Latest
    BY <2>1
  <2>3. lastRead' = [lastRead EXCEPT ![p] = next]
    BY <1>4 DEF MarkRead
  <2> HIDE DEF next
  <2>4. /\ lastRead' \in [Parties -> Nat]
        /\ \A q \in Parties : lastRead[q] <= lastRead'[q] /\ lastRead'[q] <= Latest
    BY <1>0, <2>1, <2>2, <2>3
  <2>5. /\ DOMAIN noticesRead' = Parties
        /\ \A q \in Parties : noticesRead'[q] \subseteq notices[q]
    BY <1>0, <1>4 DEF MarkRead
  <2> QED
    BY <1>4, <2>4, <2>5 DEF MarkRead, OldMessages, ConversationInv, TypesInv
<1>5. ASSUME NEW p \in Parties, ReadNotices(p) \/ Connect(p) \/ Disconnect(p)
      PROVE  OldMessages
  BY <1>0, <1>5, Unmoved DEF ReadNotices, Connect, Disconnect, storeVars
<1>6. ASSUME NEW k \in Pushes, ReadCounts(k) \/ SendCounts(k) \/ PushFails(k)
      PROVE  OldMessages
  BY <1>0, <1>6, Unmoved DEF ReadCounts, SendCounts, PushFails, storeVars
<1>7. CASE Tick
  <2>1. clock' \in 1 .. MaxClock
    BY <1>0, <1>7, Constants DEF Tick
  <2> QED
    BY <1>0, <1>7, <2>1, Unmoved DEF Tick
<1>8. CASE UNCHANGED vars
  BY <1>0, <1>8, Unmoved DEF vars, storeVars
<1> QED
  BY <1>1, <1>2, <1>3, <1>4, <1>5, <1>6, <1>7, <1>8 DEF Next

\* What storing a message makes of the list of messages.
LEMMA Appended ==
    ASSUME ConversationInv, NEW c \in ClientIds, NewMessage(c)
    PROVE  LET n == Len(messages) + 1
           IN  /\ n \in Nat /\ n \notin Indices
               /\ messages' \in Seq(Message)
               /\ Indices' = Indices \cup {n}
               /\ Len(messages') = n
               /\ \A i \in Indices : messages'[i] = messages[i]
               /\ messages'[n].by = Author[c] /\ messages'[n].client = c
               /\ messages'[n].at \in Nat /\ messages'[n].at > Latest
               /\ lastRead' = [lastRead EXCEPT ![Author[c]] = messages'[n].at]
               /\ messages' # <<>> /\ messages' # messages
               /\ Latest' = messages'[n].at
               /\ Last(messages') = messages'[n]
<1> DEFINE n == Len(messages) + 1
<1>1. PICK at \in Nat :
        /\ at > Latest
        /\ messages' = Append(messages, [by |-> Author[c], at |-> at, client |-> c])
        /\ lastRead' = [lastRead EXCEPT ![Author[c]] = at]
  BY DEF NewMessage
<1> DEFINE new == [by |-> Author[c], at |-> at, client |-> c]
<1>2. new \in Message
  BY Constants DEF Message
<1>3. Indices = 1..Len(messages) /\ Len(messages) \in Nat /\ messages \in Seq(Message)
  BY LatestType DEF ConversationInv, TypesInv
<1>4. messages' = Append(messages, new)
  BY <1>1
<1>5. new.by = Author[c] /\ new.at = at /\ new.client = c
  OBVIOUS
<1> HIDE DEF new
<1>6. /\ messages' \in Seq(Message)
      /\ messages' # <<>>
      /\ Len(messages') = Len(messages) + 1
      /\ \A i \in 1 .. Len(messages) : messages'[i] = messages[i]
      /\ messages'[Len(messages) + 1] = new
  BY <1>2, <1>3, <1>4, AppendProperties
<1>7. Indices' = 1 .. Len(messages')
  BY <1>6 DEF Indices
<1>8. Last(messages') = messages'[n]
  BY <1>6 DEF Last
<1>9. Latest' = messages'[n].at
  BY <1>6, <1>8 DEF Latest, LastMessageAt
<1>10. n \in Nat /\ n \notin Indices /\ Indices' = Indices \cup {n}
  BY <1>3, <1>6, <1>7
<1>11. messages' # messages
  BY <1>3, <1>6
<1>12. \A i \in Indices : messages'[i] = messages[i]
  BY <1>3, <1>6
<1>13. /\ messages'[n] = new
       /\ lastRead' = [lastRead EXCEPT ![Author[c]] = messages'[n].at]
  BY <1>1, <1>5, <1>6
<1> QED
  BY <1>1, <1>5, <1>6, <1>8, <1>9, <1>10, <1>11, <1>12, <1>13

LEMMA NextConversation ==
    ASSUME ConversationInv, [Next]_vars
    PROVE  ConversationInv'
<1>0. /\ Latest \in Nat
      /\ lastRead \in [Parties -> Nat]
      /\ reply \in [ClientIds -> {"NONE", "GIVEN", "REFUSED"}]
      /\ \A i \in Indices : messages[i] \in Message
      /\ \A i \in Indices : messages[i].at \in Nat /\ messages[i].at <= Latest
      /\ \A p \in Parties : lastRead[p] \in Nat /\ lastRead[p] <= Latest
  BY LatestType DEF ConversationInv, TypesInv, TimesInv, Message
<1>1. ASSUME OldMessages
      PROVE  ConversationInv'
  <2>1. /\ Latest' = Latest /\ Indices' = Indices
        /\ \A c \in ClientIds : Stored(c)' = Stored(c)
    BY <1>1 DEF OldMessages, Latest, LastMessageAt, Indices, Stored
  <2>2. TypesInv'
    BY <1>1 DEF OldMessages, ConversationInv, TypesInv
  <2>3. TimesInv'
    BY <1>1, <2>1 DEF OldMessages, ConversationInv, TimesInv
  <2>4. AnswersInv'
    BY <1>1, <2>1 DEF OldMessages, ConversationInv, AnswersInv
  <2> QED
    BY <2>2, <2>3, <2>4 DEF ConversationInv
<1>2. ASSUME NEW c \in ClientIds, NewMessage(c)
      PROVE  ConversationInv'
  <2> DEFINE n == Len(messages) + 1
  <2>1. /\ messages' \in Seq(Message)
        /\ Indices' = Indices \cup {n}
        /\ \A i \in Indices : messages'[i] = messages[i]
        /\ messages'[n].client = c
        /\ messages'[n].at \in Nat /\ messages'[n].at > Latest
        /\ lastRead' = [lastRead EXCEPT ![Author[c]] = messages'[n].at]
        /\ messages' # <<>>
        /\ Latest' = messages'[n].at
    BY <1>2, Appended
  <2> HIDE DEF n
  <2>2. /\ reply' = [reply EXCEPT ![c] = "GIVEN"]
        /\ status' \in Statuses /\ clock' \in 1 .. MaxClock
    BY <1>2 DEF NewMessage
  <2>3. TypesInv'
    <3>1. /\ DOMAIN notices' = Parties /\ DOMAIN noticesRead' = Parties
          /\ \A p \in Parties : noticesRead'[p] \subseteq notices'[p]
      BY <1>2 DEF NewMessage, Notify, ConversationInv, TypesInv
    <3> QED
      BY <1>0, <2>1, <2>2, <3>1 DEF TypesInv
  <2>4. TimesInv'
    <3>1. status' # "NONE"
      BY <2>2 DEF Statuses
    <3>2. ASSUME NEW i \in Indices'
          PROVE  messages'[i].at <= Latest'
      BY <1>0, <2>1
    <3>3. ASSUME NEW p \in Parties
          PROVE  lastRead'[p] <= Latest'
      BY <1>0, <2>1
    <3> QED
      BY <2>1, <3>1, <3>2, <3>3 DEF TimesInv
  <2>5. AnswersInv'
    <3>1. ASSUME NEW d \in ClientIds, Stored(d)'
          PROVE  reply'[d] # "REFUSED"
      <4>1. CASE d = c
        BY <1>0, <2>2, <4>1
      <4>2. CASE d # c
        <5>1. PICK i \in Indices' : messages'[i].client = d
          BY <3>1 DEF Stored
        <5>2. i \in Indices /\ messages[i].client = d
          BY <2>1, <4>2, <5>1
        <5>3. Stored(d)
          BY <5>2 DEF Stored
        <5> QED
          BY <1>0, <2>2, <4>2, <5>3 DEF ConversationInv, AnswersInv
      <4> QED
        BY <4>1, <4>2
    <3> QED
      BY <3>1 DEF AnswersInv
  <2> QED
    BY <2>3, <2>4, <2>5 DEF ConversationInv
<1> QED
  BY <1>1, <1>2, MovesOfNext

\* The messages and the pointers agree in every state, whatever the clock,
\* the readers and the repeated requests do.
THEOREM ConversationInvariance == Spec => []ConversationInv
BY InitConversation, NextConversation, PTL DEF Spec

\* A repeated request is never refused once its message was stored: the
\* handler looks for its client id before it looks at the status.
THEOREM RepeatedRequestsAnswered == Spec => RetriesAnswered
<1>1. ASSUME ConversationInv, [Next]_vars
      PROVE  [\A c \in ClientIds : Stored(c) => reply'[c] # "REFUSED"]_vars
  <2>1. reply \in [ClientIds -> {"NONE", "GIVEN", "REFUSED"}]
    BY <1>1 DEF ConversationInv, TypesInv
  <2>2. ASSUME NEW c \in ClientIds, Stored(c)
        PROVE  reply'[c] # "REFUSED"
    <3>1. reply[c] # "REFUSED"
      BY <1>1, <2>2 DEF ConversationInv, AnswersInv
    <3>2. CASE OldMessages
      BY <2>2, <3>1, <3>2 DEF OldMessages
    <3>3. ASSUME NEW d \in ClientIds, NewMessage(d)
          PROVE  reply'[c] # "REFUSED"
      BY <2>1, <3>1, <3>3 DEF NewMessage
    <3> QED
      BY <1>1, <3>2, <3>3, MovesOfNext
  <2> QED
    BY <2>2
<1> QED
  BY <1>1, ConversationInvariance, PTL DEF Spec, RetriesAnswered

-----------------------------------------------------------------------------
(* What is unread.                                                          *)

LEMMA UnreadFinite ==
    ASSUME ConversationInv, NEW p \in Parties
    PROVE  /\ IsFiniteSet(UnreadMessages(p))
           /\ UnreadCount(p) \in Nat
<1>1. Indices = 1..Len(messages) /\ Len(messages) \in Nat
  BY LatestType DEF ConversationInv
<1>2. IsFiniteSet(Indices)
  BY <1>1, FS_Interval
<1>3. UnreadMessages(p) \in SUBSET Indices
  BY DEF UnreadMessages
<1>4. IsFiniteSet(UnreadMessages(p))
  BY <1>2, <1>3, FS_Subset
<1> QED
  BY <1>4, FS_CardinalityType DEF UnreadCount

LEMMA OldMessagesUnread ==
    ASSUME ConversationInv, OldMessages, NEW p \in Parties
    PROVE  UnreadCount(p)' <= UnreadCount(p)
<1>1. /\ \A i \in Indices : messages[i].at \in Nat
      /\ lastRead[p] \in Nat /\ lastRead'[p] \in Nat /\ lastRead[p] <= lastRead'[p]
  BY LatestType DEF ConversationInv, TypesInv, Message, OldMessages
<1>2. messages' = messages /\ Indices' = Indices
  BY DEF OldMessages, Indices
<1>3. UnreadMessages(p)' \in SUBSET UnreadMessages(p)
  BY <1>1, <1>2 DEF UnreadMessages
<1> QED
  BY <1>3, UnreadFinite, FS_Subset DEF UnreadCount

LEMMA NewMessageUnread ==
    ASSUME ConversationInv, NEW c \in ClientIds, NewMessage(c), NEW p \in Parties
    PROVE  IF SameSide(Author[c], p) THEN UnreadCount(p)' <= UnreadCount(p)
           ELSE UnreadCount(p)' = UnreadCount(p) + 1
<1> DEFINE n == Len(messages) + 1
<1>1. /\ n \notin Indices
      /\ Indices' = Indices \cup {n}
      /\ \A i \in Indices : messages'[i] = messages[i]
      /\ messages'[n].by = Author[c]
      /\ messages'[n].at \in Nat /\ messages'[n].at > Latest
      /\ lastRead' = [lastRead EXCEPT ![Author[c]] = messages'[n].at]
  BY Appended
<1> HIDE DEF n
<1>2. /\ \A i \in Indices : messages[i].at \in Nat /\ messages[i].at <= Latest
      /\ lastRead \in [Parties -> Nat] /\ lastRead[p] <= Latest /\ Latest \in Nat
      /\ Author[c] \in Parties
  BY Constants, LatestType DEF ConversationInv, TypesInv, TimesInv, Message
<1>3. IsFiniteSet(UnreadMessages(p))
  BY UnreadFinite
<1>4. CASE SameSide(Author[c], p)
  <2>1. lastRead'[p] \in Nat /\ lastRead'[p] >= lastRead[p]
    BY <1>1, <1>2
  <2>2. UnreadMessages(p)' \in SUBSET UnreadMessages(p)
    <3>1. ASSUME NEW i \in UnreadMessages(p)'
          PROVE  i \in UnreadMessages(p)
      <4>1. i \in Indices' /\ ~SameSide(messages'[i].by, p) /\ messages'[i].at > lastRead'[p]
        BY <3>1 DEF UnreadMessages, SameSide
      <4>2. i \in Indices
        BY <1>1, <1>4, <4>1
      <4> QED
        BY <1>1, <1>2, <2>1, <4>1, <4>2 DEF UnreadMessages
    <3> QED
      BY <3>1
  <2> QED
    BY <1>3, <1>4, <2>2, FS_Subset DEF UnreadCount
<1>5. CASE ~SameSide(Author[c], p)
  <2>1. lastRead'[p] = lastRead[p]
    BY <1>1, <1>2, <1>5 DEF SameSide
  <2>2. UnreadMessages(p)' = UnreadMessages(p) \cup {n}
    <3>1. ASSUME NEW i
          PROVE  i \in UnreadMessages(p)' <=> i \in UnreadMessages(p) \cup {n}
      <4>1. i \in UnreadMessages(p)' <=>
              i \in Indices' /\ ~SameSide(messages'[i].by, p) /\ messages'[i].at > lastRead[p]
        BY <2>1 DEF UnreadMessages, SameSide
      <4>2. i \in UnreadMessages(p) <=>
              i \in Indices /\ ~SameSide(messages[i].by, p) /\ messages[i].at > lastRead[p]
        BY DEF UnreadMessages
      <4> QED
        BY <1>1, <1>2, <1>5, <4>1, <4>2
    <3> QED
      BY <3>1
  <2>3. n \notin UnreadMessages(p)
    BY <1>1 DEF UnreadMessages
  <2> QED
    BY <1>3, <1>5, <2>2, <2>3, FS_AddElement DEF UnreadCount
<1> QED
  BY <1>4, <1>5

\* A message adds one to what the other side has not read, and nothing else
\* adds to it: times are distinct and increasing though the clock stands
\* still, and a pointer never goes back.
THEOREM UnreadIsExact == Spec => UnreadFollowsMessages
<1>1. ASSUME ConversationInv, [Next]_vars, NEW p \in Parties
      PROVE  IF messages' # messages /\ ~SameSide(Last(messages').by, p)
             THEN UnreadCount(p)' = UnreadCount(p) + 1
             ELSE UnreadCount(p)' <= UnreadCount(p)
  <2>1. CASE OldMessages
    <3>1. messages' = messages
      BY <2>1 DEF OldMessages
    <3> QED
      BY <1>1, <2>1, <3>1, OldMessagesUnread
  <2>2. ASSUME NEW c \in ClientIds, NewMessage(c)
        PROVE  IF messages' # messages /\ ~SameSide(Last(messages').by, p)
               THEN UnreadCount(p)' = UnreadCount(p) + 1
               ELSE UnreadCount(p)' <= UnreadCount(p)
    <3>1. Last(messages').by = Author[c] /\ messages' # messages
      BY <1>1, <2>2, Appended
    <3>2. IF SameSide(Author[c], p) THEN UnreadCount(p)' <= UnreadCount(p)
          ELSE UnreadCount(p)' = UnreadCount(p) + 1
      BY <1>1, <2>2, NewMessageUnread
    <3> QED
      BY <3>1, <3>2
  <2> QED
    BY <1>1, <2>1, <2>2, MovesOfNext
<1>2. ASSUME ConversationInv, [Next]_vars
      PROVE  [\A p \in Parties :
                IF messages' # messages /\ ~SameSide(Last(messages').by, p)
                THEN UnreadCount(p)' = UnreadCount(p) + 1
                ELSE UnreadCount(p)' <= UnreadCount(p)]_vars
  BY <1>1, <1>2
<1> QED
  BY <1>2, ConversationInvariance, PTL DEF Spec, UnreadFollowsMessages

-----------------------------------------------------------------------------
(* The pushes.                                                              *)

Push == [stage : {"IDLE", "STORED", "READ"}, to : SUBSET Parties,
         counts : [Parties -> Nat]]

PushTypes ==
    /\ connected \in [Parties -> BOOLEAN]
    /\ shown \in [Parties -> Nat \cup {-1}]
    /\ \A p \in Parties : ~connected[p] => shown[p] = -1
    /\ push \in [Pushes -> Push]
    /\ \A k \in Pushes : push[k].stage = "IDLE" => push[k] = Idle
    /\ overlapped \in BOOLEAN

\* Handler k is to tell p a count it has read and that is still p's, or it has
\* not read yet.
Tells(k, p) ==
    /\ p \in push[k].to
    /\ \/ push[k].stage = "STORED"
       \/ push[k].stage = "READ" /\ push[k].counts[p] = UnreadCount(p)

\* At most one handler pushes; what it has read is still so; and a connected
\* party was told its count or is about to be.
Serial ==
    /\ \A j, k \in Pushes : push[j] # Idle /\ push[k] # Idle => j = k
    /\ \A k \in Pushes : \A p \in push[k].to : push[k].stage = "READ" => Tells(k, p)
    /\ \A p \in Parties : connected[p] =>
        shown[p] = UnreadCount(p) \/ \E k \in Pushes : Tells(k, p)

PushInv == PushTypes /\ (~overlapped => Serial)

LEMMA IdlePush == Idle \in Push /\ Idle.stage = "IDLE" /\ Idle.to = {}
BY DEF Idle, Push

LEMMA InitPush == Init => PushInv
<1> SUFFICES ASSUME Init PROVE PushInv
  OBVIOUS
<1>1. PushTypes
  BY IdlePush DEF Init, PushTypes
<1>2. /\ \A k \in Pushes : push[k] = Idle
      /\ \A p \in Parties : ~connected[p]
  BY DEF Init
<1>3. Serial
  BY <1>2, IdlePush DEF Serial
<1> QED
  BY <1>1, <1>3 DEF PushInv

LEMMA Begun ==
    ASSUME PushTypes, NEW to \in SUBSET Parties, Begin(to)
    PROVE  /\ push' \in [Pushes -> Push]
           /\ \A j \in Pushes : push'[j].stage = "IDLE" => push'[j] = Idle
           /\ \E k \in Pushes :
                /\ push[k] = Idle
                /\ push'[k].stage = "STORED" /\ push'[k].to = to
                /\ \A j \in Pushes : j # k => push'[j] = push[j]
<1> DEFINE new == [Idle EXCEPT !.stage = "STORED", !.to = to]
<1>1. new \in Push /\ new.stage = "STORED" /\ new.to = to
  BY DEF Idle, Push
<1>2. PICK k \in Pushes : push[k] = Idle /\ push' = [push EXCEPT ![k] = new]
  BY DEF Begin
<1> HIDE DEF new
<1>3. push' \in [Pushes -> Push]
  BY <1>1, <1>2 DEF PushTypes
<1>4. push'[k] = new /\ \A j \in Pushes : j # k => push'[j] = push[j]
  BY <1>2 DEF PushTypes
<1>5. \A j \in Pushes : push'[j].stage = "IDLE" => push'[j] = Idle
  BY <1>1, <1>4 DEF PushTypes
<1> QED
  BY <1>1, <1>2, <1>3, <1>4, <1>5

\* A push begun alone is the only one.
LEMMA BegunAlone ==
    ASSUME PushTypes, Quiet, NEW to \in SUBSET Parties, Begin(to)
    PROVE  /\ \A j, k \in Pushes : push'[j] # Idle /\ push'[k] # Idle => j = k
           /\ \A j \in Pushes : \A p \in push'[j].to :
                push'[j].stage = "READ" => Tells(j, p)'
           /\ \A p \in to : \E k \in Pushes : Tells(k, p)'
<1>1. PICK k \in Pushes :
        /\ push'[k].stage = "STORED" /\ push'[k].to = to
        /\ \A j \in Pushes : j # k => push'[j] = push[j]
  BY Begun
<1>2. \A j \in Pushes : j # k => push'[j] = Idle
  BY <1>1 DEF Quiet
<1>3. \A p \in to : Tells(k, p)'
  BY <1>1 DEF Tells
<1>4. \A j, l \in Pushes : push'[j] # Idle /\ push'[l] # Idle => j = l
  BY <1>2
<1>5. \A j \in Pushes : push'[j].stage # "READ"
  BY <1>1, <1>2, IdlePush
<1> QED
  BY <1>3, <1>4, <1>5

LEMMA PushToAllKeeps ==
    ASSUME PushInv, PushToAll
    PROVE  PushInv'
<1>1. /\ Begin(Parties) /\ overlapped' = ~Quiet
      /\ connected' = connected /\ shown' = shown
  BY DEF PushToAll
<1>2. PushTypes'
  <2>1. PushTypes
    BY DEF PushInv
  <2>2. /\ push' \in [Pushes -> Push]
        /\ \A j \in Pushes : push'[j].stage = "IDLE" => push'[j] = Idle
    BY <1>1, <2>1, Begun
  <2>3. overlapped' \in BOOLEAN
    BY <1>1 DEF Quiet
  <2> QED
    BY <1>1, <2>1, <2>2, <2>3 DEF PushTypes
<1>3. ASSUME ~overlapped'
      PROVE  Serial'
  <2>1. Quiet
    BY <1>1, <1>3
  <2> QED
    BY <1>1, <2>1, BegunAlone DEF PushInv, Serial
<1> QED
  BY <1>2, <1>3 DEF PushInv

\* Nothing about the pushes changes, or about what they count.
LEMMA PushesStand ==
    ASSUME PushInv, UNCHANGED <<messages, lastRead, connected, shown, push, overlapped>>
    PROVE  PushInv'
<1>1. \A p : UnreadCount(p)' = UnreadCount(p)
  BY DEF UnreadCount, UnreadMessages, Indices, SameSide
<1>2. \A k, p : Tells(k, p)' = Tells(k, p)
  BY <1>1 DEF Tells
<1> QED
  BY <1>1, <1>2 DEF PushInv, PushTypes, Serial

LEMMA ConnectKeeps ==
    ASSUME PushInv, NEW p \in Parties, Connect(p)
    PROVE  PushInv'
<1>1. /\ ~connected[p] /\ connected' = [connected EXCEPT ![p] = TRUE]
      /\ Begin({p}) /\ overlapped' = (overlapped \/ ~Quiet)
      /\ messages' = messages /\ lastRead' = lastRead /\ shown' = shown
  BY DEF Connect, storeVars
<1>2. PushTypes
  BY DEF PushInv
<1>3. PushTypes'
  <2>1. /\ push' \in [Pushes -> Push]
        /\ \A j \in Pushes : push'[j].stage = "IDLE" => push'[j] = Idle
    BY <1>1, <1>2, Begun
  <2>2. /\ connected' \in [Parties -> BOOLEAN]
        /\ \A q \in Parties : ~connected'[q] => ~connected[q]
    BY <1>1, <1>2 DEF PushTypes
  <2>3. overlapped' \in BOOLEAN
    BY <1>1, <1>2 DEF PushTypes, Quiet
  <2> QED
    BY <1>1, <1>2, <2>1, <2>2, <2>3 DEF PushTypes
<1>4. ASSUME ~overlapped'
      PROVE  Serial'
  <2>1. Quiet /\ Serial
    BY <1>1, <1>4 DEF PushInv
  <2>2. \A q : UnreadCount(q)' = UnreadCount(q)
    BY <1>1 DEF UnreadCount, UnreadMessages, Indices, SameSide
  <2>3. ASSUME NEW q \in Parties, connected'[q]
        PROVE  shown'[q] = UnreadCount(q)' \/ \E k \in Pushes : Tells(k, q)'
    <3>1. CASE q = p
      BY <1>1, <1>2, <2>1, <3>1, BegunAlone
    <3>2. CASE q # p
      <4>1. connected[q]
        BY <1>1, <1>2, <2>3, <3>2 DEF PushTypes
      <4>2. \A k \in Pushes : ~Tells(k, q)
        BY <2>1, IdlePush DEF Quiet, Tells
      <4> QED
        BY <1>1, <2>1, <2>2, <4>1, <4>2 DEF Serial
    <3> QED
      BY <3>1, <3>2
  <2> QED
    BY <1>1, <1>2, <2>1, <2>3, BegunAlone DEF Serial
<1> QED
  BY <1>3, <1>4 DEF PushInv

LEMMA DisconnectKeeps ==
    ASSUME PushInv, NEW p \in Parties, Disconnect(p)
    PROVE  PushInv'
<1>1. /\ connected' = [connected EXCEPT ![p] = FALSE]
      /\ shown' = [shown EXCEPT ![p] = -1]
      /\ messages' = messages /\ lastRead' = lastRead
      /\ push' = push /\ overlapped' = overlapped
  BY DEF Disconnect, storeVars
<1>2. PushTypes'
  BY <1>1 DEF PushInv, PushTypes
<1>3. \A q : UnreadCount(q)' = UnreadCount(q)
  BY <1>1 DEF UnreadCount, UnreadMessages, Indices, SameSide
<1>4. \A k, q : Tells(k, q)' = Tells(k, q)
  BY <1>1, <1>3 DEF Tells
<1>5. \A q \in Parties : connected'[q] => connected[q] /\ shown'[q] = shown[q]
  BY <1>1 DEF PushInv, PushTypes
<1>6. Serial => Serial'
  BY <1>1, <1>3, <1>4, <1>5 DEF Serial
<1> QED
  BY <1>1, <1>2, <1>6 DEF PushInv

LEMMA ReadCountsKeeps ==
    ASSUME ConversationInv, PushInv, NEW k \in Pushes, ReadCounts(k)
    PROVE  PushInv'
<1> DEFINE new == [stage |-> "READ",
         to |-> {p \in push[k].to : p = Customer \/ connected[p]},
         counts |-> [p \in Parties |-> IF p \in push[k].to THEN UnreadCount(p) ELSE 0]]
<1>1. /\ push[k].stage = "STORED"
      /\ push' = [push EXCEPT ![k] = new]
      /\ messages' = messages /\ lastRead' = lastRead
      /\ connected' = connected /\ shown' = shown /\ overlapped' = overlapped
  BY DEF ReadCounts, storeVars
<1>2. PushTypes /\ push[k] \in Push
  BY DEF PushInv, PushTypes
<1>3. /\ new.stage = "READ"
      /\ new.to = {p \in push[k].to : p = Customer \/ connected[p]}
      /\ new.counts = [p \in Parties |-> IF p \in push[k].to THEN UnreadCount(p) ELSE 0]
  OBVIOUS
<1>4. new \in Push
  <2>1. [p \in Parties |-> IF p \in push[k].to THEN UnreadCount(p) ELSE 0] \in [Parties -> Nat]
    BY UnreadFinite
  <2>2. {p \in push[k].to : p = Customer \/ connected[p]} \in SUBSET Parties
    BY <1>2 DEF Push
  <2> QED
    BY <2>1, <2>2 DEF Push
<1> HIDE DEF new
<1>5. push' \in [Pushes -> Push] /\ push'[k] = new
      /\ \A j \in Pushes : j # k => push'[j] = push[j]
  BY <1>1, <1>2, <1>4 DEF PushTypes
<1>6. PushTypes'
  BY <1>1, <1>2, <1>3, <1>5 DEF PushTypes
<1>7. \A p : UnreadCount(p)' = UnreadCount(p)
  BY <1>1 DEF UnreadCount, UnreadMessages, Indices, SameSide
<1>8. ASSUME Serial
      PROVE  Serial'
  <2>1. push[k] # Idle
    BY <1>1, IdlePush
  <2>2. \A j \in Pushes : j # k => push'[j] = Idle /\ push[j] = Idle
    BY <1>5, <1>8, <2>1 DEF Serial
  <2>3. ASSUME NEW p \in new.to
        PROVE  Tells(k, p)'
    <3>1. p \in Parties /\ p \in push[k].to
      BY <1>2, <1>3, <2>3 DEF Push
    <3>2. new.counts[p] = UnreadCount(p)
      BY <1>3, <3>1
    <3> QED
      BY <1>3, <1>5, <1>7, <2>3, <3>2 DEF Tells
  <2>4. ASSUME NEW p \in Parties, connected[p]
        PROVE  shown[p] = UnreadCount(p) \/ Tells(k, p)'
    <3>1. CASE p \in push[k].to
      BY <1>3, <2>3, <2>4, <3>1
    <3>2. CASE p \notin push[k].to
      <4>1. \A j \in Pushes : ~Tells(j, p)
        BY <2>2, <3>2, IdlePush DEF Tells
      <4> QED
        BY <1>8, <2>4, <4>1 DEF Serial
    <3> QED
      BY <3>1, <3>2
  <2>5. \A j, l \in Pushes : push'[j] # Idle /\ push'[l] # Idle => j = l
    BY <2>2
  <2>6. \A j \in Pushes : \A p \in push'[j].to : push'[j].stage = "READ" => Tells(j, p)'
    BY <1>5, <2>2, <2>3, IdlePush
  <2> QED
    BY <1>1, <1>7, <2>4, <2>5, <2>6 DEF Serial
<1> QED
  BY <1>1, <1>6, <1>8 DEF PushInv

LEMMA SendCountsKeeps ==
    ASSUME PushInv, NEW k \in Pushes, SendCounts(k)
    PROVE  PushInv'
<1>1. /\ push[k].stage = "READ"
      /\ shown' = [p \in Parties |->
            IF p \in push[k].to /\ connected[p] THEN push[k].counts[p] ELSE shown[p]]
      /\ push' = [push EXCEPT ![k] = Idle]
      /\ messages' = messages /\ lastRead' = lastRead
      /\ connected' = connected /\ overlapped' = overlapped
  BY DEF SendCounts, storeVars
<1>2. PushTypes /\ push[k] \in Push
  BY DEF PushInv, PushTypes
<1>3. push' \in [Pushes -> Push] /\ push'[k] = Idle
      /\ \A j \in Pushes : j # k => push'[j] = push[j]
  BY <1>1, <1>2, IdlePush DEF PushTypes
<1>4. PushTypes'
  <2>1. /\ shown' \in [Parties -> Nat \cup {-1}]
        /\ \A p \in Parties : ~connected[p] => shown'[p] = -1
    <3>1. \A p \in Parties : push[k].counts[p] \in Nat
      BY <1>2 DEF Push
    <3> QED
      BY <1>1, <1>2, <3>1 DEF PushTypes
  <2> QED
    BY <1>1, <1>2, <1>3, <2>1 DEF PushTypes
<1>5. \A p : UnreadCount(p)' = UnreadCount(p)
  BY <1>1 DEF UnreadCount, UnreadMessages, Indices, SameSide
<1>6. ASSUME Serial
      PROVE  Serial'
  <2>1. push[k] # Idle
    BY <1>1, IdlePush
  <2>2. \A j \in Pushes : j # k => push'[j] = Idle /\ push[j] = Idle
    BY <1>3, <1>6, <2>1 DEF Serial
  <2>3. ASSUME NEW p \in Parties, connected[p]
        PROVE  shown'[p] = UnreadCount(p)
    <3>1. CASE p \in push[k].to
      <4>1. push[k].counts[p] = UnreadCount(p)
        BY <1>1, <1>6, <3>1 DEF Serial, Tells
      <4> QED
        BY <1>1, <2>3, <3>1, <4>1
    <3>2. CASE p \notin push[k].to
      <4>1. \A j \in Pushes : ~Tells(j, p)
        BY <2>2, <3>2, IdlePush DEF Tells
      <4> QED
        BY <1>1, <1>6, <2>3, <3>2, <4>1 DEF Serial
    <3> QED
      BY <3>1, <3>2
  <2>4. \A j \in Pushes : push'[j] = Idle
    BY <1>3, <2>2
  <2> QED
    BY <1>1, <1>5, <2>3, <2>4, IdlePush DEF Serial
<1> QED
  BY <1>1, <1>4, <1>6 DEF PushInv

LEMMA PushFailsKeeps ==
    ASSUME PushInv, NEW k \in Pushes, PushFails(k)
    PROVE  PushInv'
BY IdlePush DEF PushInv, PushTypes, PushFails, storeVars

LEMMA NextPush ==
    ASSUME ConversationInv, PushInv, [Next]_vars
    PROVE  PushInv'
<1>1. ASSUME NEW c \in ClientIds, CreateConversation(c) \/ SendMessage(c)
      PROVE  PushInv'
  <2>1. \/ PushToAll
        \/ UNCHANGED <<messages, lastRead, connected, shown, push, overlapped>>
    BY <1>1 DEF CreateConversation, SendMessage, StoreMessage, OnlyAnswer, NoPush, pushVars
  <2> QED
    BY <2>1, PushToAllKeeps, PushesStand
<1>2. ASSUME NEW next \in Statuses, ChangeStatus(next)
      PROVE  PushInv'
  BY <1>2, PushesStand DEF ChangeStatus, NoPush, pushVars
<1>3. ASSUME NEW p \in Parties, NEW i \in Indices, MarkRead(p, i)
      PROVE  PushInv'
  BY <1>3, PushToAllKeeps DEF MarkRead
<1>4. ASSUME NEW p \in Parties, ReadNotices(p)
      PROVE  PushInv'
  BY <1>4, PushesStand DEF ReadNotices, NoPush, pushVars
<1>5. CASE Tick
  BY <1>5, PushesStand DEF Tick, pushVars
<1>6. CASE UNCHANGED vars
  BY <1>6, PushesStand DEF vars, storeVars, pushVars
<1> QED
  BY <1>1, <1>2, <1>3, <1>4, <1>5, <1>6, ConnectKeeps, DisconnectKeeps,
     ReadCountsKeeps, SendCountsKeeps, PushFailsKeeps DEF Next

\* The pushes are serial until one fails or overlaps another: what a handler
\* has read is still so when it sends it.
THEOREM PushInvariance == Spec => []PushInv
<1>1. Init => PushInv
  BY InitPush
<1>2. ConversationInv /\ PushInv /\ [Next]_vars => PushInv'
  BY NextPush
<1> QED
  BY <1>1, <1>2, ConversationInvariance, PTL DEF Spec

\* When the pushes are over, and none failed or overlapped another, every
\* connected party was last sent what it has not read.
THEOREM CountsAreTold == Spec => []CountsSettle
<1>1. PushInv => CountsSettle
  <2> SUFFICES ASSUME PushInv, Quiet, ~overlapped, NEW p \in Parties, connected[p]
               PROVE  shown[p] = UnreadCount(p)
    BY DEF CountsSettle
  <2>1. \A k \in Pushes : ~Tells(k, p)
    BY IdlePush DEF Quiet, Tells
  <2> QED
    BY <2>1 DEF PushInv, Serial
<1> QED
  BY <1>1, PushInvariance, PTL

\* The types of the conversation and of its pushes.
THEOREM SupportTypes == Spec => []SupportTypeOK
<1>1. ConversationInv /\ PushInv => SupportTypeOK
  BY DEF ConversationInv, TypesInv, PushInv, PushTypes, Message, SupportTypeOK
<1> QED
  BY <1>1, ConversationInvariance, PushInvariance, PTL

-----------------------------------------------------------------------------
(* The notifications.                                                       *)

LEMMA NextNotices ==
    ASSUME ConversationInv, NoticesInv, [Next]_vars
    PROVE  NoticesInv'
<1>1. CASE OldMessages
  <2>1. messages' = messages /\ notices' = notices /\ Indices' = Indices
    BY <1>1 DEF OldMessages, Indices
  <2> QED
    BY <2>1 DEF NoticesInv, NoticePerMessage, Others, SameSide
<1>2. ASSUME NEW c \in ClientIds, NewMessage(c)
      PROVE  NoticesInv'
  <2> DEFINE n == Len(messages) + 1
             notice == [message |-> n, at |-> clock']
             About(p, i) == {m \in notices[p] : m.message = i}
  <2>1. /\ n \notin Indices
        /\ Indices' = Indices \cup {n}
        /\ \A i \in Indices : messages'[i] = messages[i]
        /\ messages'[n].by = Author[c]
    BY <1>2, Appended
  <2>2. notices' = [q \in Parties |->
            IF q \in Others(Author[c]) THEN notices[q] \cup {notice} ELSE notices[q]]
    BY <1>2 DEF NewMessage, Notify
  <2>3. notice.message = n
    OBVIOUS
  <2> HIDE DEF n, notice
  <2>4. \A p \in Parties : \A m \in notices[p] : m.message \in Indices
    BY DEF NoticesInv
  <2>5. ASSUME NEW p \in Parties
        PROVE  /\ \A m \in notices'[p] : m.message \in Indices'
               /\ \A i \in Indices : {m \in notices'[p] : m.message = i} = About(p, i)
               /\ p \in Others(Author[c]) => {m \in notices'[p] : m.message = n} = {notice}
    <3>1. About(p, n) = {}
      BY <2>1, <2>4
    <3>2. CASE p \in Others(Author[c])
      <4>1. notices'[p] = notices[p] \cup {notice}
        BY <2>2, <3>2
      <4>2. \A i \in Indices : {m \in notices'[p] : m.message = i} = About(p, i)
        BY <2>1, <2>3, <4>1
      <4>3. {m \in notices'[p] : m.message = n} = {notice}
        BY <2>3, <3>1, <4>1
      <4>4. \A m \in notices'[p] : m.message \in Indices'
        BY <2>1, <2>3, <2>4, <4>1
      <4> QED
        BY <4>2, <4>3, <4>4
    <3>3. CASE p \notin Others(Author[c])
      <4>1. notices'[p] = notices[p]
        BY <2>2, <3>3
      <4> QED
        BY <2>1, <2>4, <3>3, <4>1
    <3> QED
      BY <3>2, <3>3
  <2>6. ASSUME NEW i \in Indices', NEW p \in Others(messages'[i].by)
        PROVE  Cardinality({m \in notices'[p] : m.message = i}) = 1
    <3>1. p \in Parties
      BY <2>6 DEF Others
    <3>2. CASE i = n
      <4>1. p \in Others(Author[c])
        BY <2>1, <2>6, <3>2
      <4>2. {m \in notices'[p] : m.message = i} = {notice}
        BY <2>5, <3>1, <3>2, <4>1
      <4> QED
        BY <4>2, FS_Singleton
    <3>3. CASE i # n
      <4>1. i \in Indices /\ p \in Others(messages[i].by)
        BY <2>1, <2>6, <3>3
      <4>2. {m \in notices'[p] : m.message = i} = About(p, i)
        BY <2>5, <3>1, <4>1
      <4> QED
        BY <4>1, <4>2 DEF NoticesInv, NoticePerMessage
    <3> QED
      BY <3>2, <3>3
  <2> QED
    BY <2>5, <2>6 DEF NoticesInv, NoticePerMessage, Others, SameSide
<1> QED
  BY <1>1, <1>2, MovesOfNext

\* Every recipient has exactly one notification of every message of the
\* other side, however often its request is repeated.
THEOREM OneNoticeEach == Spec => []NoticePerMessage
<1>1. Init => NoticesInv
  BY DEF Init, NoticesInv, NoticePerMessage, Indices
<1>2. ConversationInv /\ NoticesInv /\ [Next]_vars => NoticesInv'
  BY NextNotices
<1>3. NoticesInv => NoticePerMessage
  BY DEF NoticesInv
<1> QED
  BY <1>1, <1>2, <1>3, ConversationInvariance, PTL DEF Spec

=============================================================================
