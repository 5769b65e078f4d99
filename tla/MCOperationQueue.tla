-------------------------- MODULE MCOperationQueue --------------------------
(***************************************************************************)
(* Small instances of OperationQueue: a deploy pair and a database pair,   *)
(* each pair sharing a lock key.                                           *)
(***************************************************************************)
EXTENDS OperationQueue, TLC

CONSTANTS d1, d2, b1, r1, w1, w2, w3

MCLockOf    == [o \in Ops |-> IF o \in Deploys THEN "svc" ELSE "dbi"]
MCServiceOf == MCLockOf

\* d2 is a manual deploy, d1 one a push started; the rest have the default.
MCPriority == [o \in Ops |-> IF o = d2 THEN 2 ELSE IF o = d1 THEN 1 ELSE 0]

\* The workers of one runtime are interchangeable; used where no liveness is checked.
WorkerSymmetry == Permutations(DeployWorkers) \cup Permutations(Workers \ DeployWorkers)
=============================================================================
