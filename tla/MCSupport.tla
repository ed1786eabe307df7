------------------------------- MODULE MCSupport -------------------------------
(* A customer, an administrator, and three requests.                        *)
EXTENDS Support, TLC

CONSTANTS customer, ana, open1, send1, send2, push1, push2

\* The customer opens the conversation, both write in it.
MCAuthor == [c \in ClientIds |-> IF c = send1 THEN ana ELSE customer]

MCPushSymmetry == Permutations(Pushes)
=============================================================================
