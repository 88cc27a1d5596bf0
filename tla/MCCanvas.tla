------------------------------ MODULE MCCanvas ------------------------------
(* Instances of Canvas: three calls of any kind, and a repeated operation. *)
EXTENDS Canvas, TLC

CONSTANTS n1, n2, k1, k2, t1, t2

SomeGraphs == {{n1}, {n1, n2}}
SomeOperations ==
    {[kind |-> "patch", id |-> k1, text |-> t2], [kind |-> "delete", id |-> k1],
     [kind |-> "add", id |-> k2, text |-> t2]}
File(is, seq, comments) == [is |-> is, seq |-> seq, comments |-> comments]
SomeFiles ==
    {File("absent", 0, <<>>), File("invalid", 0, <<>>),
     File("valid", 0, <<[id |-> k1, text |-> t1]>>),
     File("valid", 2, <<[id |-> k1, text |-> t1]>>)}
Symmetric == Permutations(Clients) \cup Permutations(OperationIds)
=============================================================================
