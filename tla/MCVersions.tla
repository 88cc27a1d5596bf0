----------------------------- MODULE MCVersions -----------------------------
(* Instances of Versions: every route, two clients that share a key.       *)
EXTENDS Versions, TLC

AllRoutes == {"create", "ops", "restore", "undo", "apply", "dismiss", "agent",
              "migrate", "provider"}
Symmetric == Permutations(Requests)
=============================================================================
