---------------------------- MODULE MCDeployment ----------------------------
(***************************************************************************)
(* Small instances of Deployment: two or three deployments of one service. *)
(***************************************************************************)
EXTENDS Deployment, TLC

CONSTANTS d1, d2, d3, q1

\* d1 was started by a push; the others are manual.
PushThenManual == [d \in Deployments |-> IF d = d1 THEN 150 ELSE 200]
AllManual      == [d \in Deployments |-> 200]

\* Deployments of one priority are interchangeable; used without liveness.
DeploymentSymmetry == Permutations(Deployments)
=============================================================================
