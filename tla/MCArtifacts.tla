----------------------------- MODULE MCArtifacts -----------------------------
(* Instances of Artifacts: two runs of one node, payloads that may repeat.  *)
EXTENDS Artifacts
=============================================================================
