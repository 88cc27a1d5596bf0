--------------------------- MODULE MCRunAdmission ---------------------------
EXTENDS RunAdmission, TLC

Everything == {"queue", "ask", "sweep", "confirm", "hold", "stop", "reject"}
SweepOps == {"sweep", "confirm"}
StopOps == {"ask", "sweep", "stop"}
Symmetric == Permutations(Calls)

\* Requests are alike: which of two comes first makes no difference.
Unordered == [c \in Calls |-> {}]
Ordered ==
    LET first == CHOOSE c \in Calls : TRUE
    IN [c \in Calls |-> IF c = first THEN {} ELSE {first}]
Chain ==
    [c \in Calls |-> CASE c = "a" -> {} [] c = "b" -> {"a"} [] OTHER -> {"a", "b"}]
=============================================================================
