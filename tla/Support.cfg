SPECIFICATION Spec
CONSTANTS
    customer = customer
    ana = ana
    open1 = open1
    send1 = send1
    send2 = send2
    push1 = push1
    push2 = push2
    Customer = customer
    Admins = {ana}
    ClientIds = {open1, send1, send2}
    Author <- MCAuthor
    Opening = {open1}
    Pushes = {push1, push2}
    MaxClock = 2
SYMMETRY MCPushSymmetry
INVARIANTS
    CountsSettle
PROPERTIES
    UnreadFollowsMessages
    RetriesAnswered
CHECK_DEADLOCK FALSE
