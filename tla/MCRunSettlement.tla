-------------------------- MODULE MCRunSettlement --------------------------
(***************************************************************************)
(* RunSettlement for TLC: plans of one, two and three provider steps.  A   *)
(* step is a string, so that it can be told apart from "user", "exec" and  *)
(* "boot" among the actors.                                                *)
(***************************************************************************)
EXTENDS RunSettlement

OneStep    == {"s1"}
TwoSteps   == {"s1", "s2"}
ThreeSteps == {"s1", "s2", "s3"}
Second     == {"s2"}
AllActors  == Actors

NoDeps == [s \in Steps |-> {}]
Chain  == [s \in Steps |-> IF s = "s2" THEN {"s1"} ELSE {}]
Fork   == [s \in Steps |-> IF s = "s3" THEN {"s2"} ELSE {}]
=============================================================================
