---------------------------- MODULE RunLifecycle ----------------------------
(***************************************************************************)
(* What the rows of a run promise to everyone who reads them (the web UI,  *)
(* the cost summary, self-heal), whatever happens to the server: a run     *)
(* ends once; it is handed to self-heal at the very moment it fails or     *)
(* never; a step is charged at most once, and not after its remote task    *)
(* was given up; a task given up stays so.                                 *)
(*                                                                         *)
(* RunStore implements this specification (RunStore!Promise).              *)
(***************************************************************************)
CONSTANT Steps

VARIABLES
    phase,    \* "open", or the terminal status
    retry,    \* whether a failure continuation exists
    charged,  \* steps with an actual cost
    closed    \* steps whose provider task is settled

vars == <<phase, retry, charged, closed>>

Ends == {"succeeded", "failed", "interrupted"}

Init == phase = "open" /\ retry = FALSE /\ charged = {} /\ closed = {}

Charge(s) ==
    /\ s \notin charged \cup closed
    /\ charged' = charged \cup {s}
    /\ UNCHANGED <<phase, retry, closed>>

Close(s) ==
    /\ s \notin closed
    /\ closed' = closed \cup {s}
    /\ UNCHANGED <<phase, retry, charged>>

End(e) ==
    /\ phase = "open"
    /\ phase' = e
    /\ \/ retry' = retry
       \/ e = "failed" /\ retry' = TRUE
    /\ UNCHANGED <<charged, closed>>

Next == (\E s \in Steps : Charge(s) \/ Close(s)) \/ (\E e \in Ends : End(e))

Spec == Init /\ [][Next]_vars
=============================================================================
