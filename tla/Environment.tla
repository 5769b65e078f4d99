----------------------------- MODULE Environment -----------------------------
(***************************************************************************)
(* What the models of the gateways, of the data services and of the        *)
(* control plane share: the value that stands for nothing, and the budget  *)
(* that bounds what the outside world does to them.                        *)
(*                                                                         *)
(* MCPlatform checks several of those models in one run.  They share no    *)
(* state, so `part' is chosen once and every other model then stutters:    *)
(* the run explores their behaviours side by side, never their product.    *)
(***************************************************************************)
EXTENDS Naturals

CONSTANTS
  None,        \* no row, no actor, no container, no file
  MaxTroubles, \* bound: calls to the store, Docker, the engine or S3 that fail, and process ends
  MaxRequests  \* bound: requests of operators and clients, in the models that count them here

ASSUME BudgetAssumption == MaxTroubles \in Nat /\ MaxRequests \in Nat

VARIABLES
  part,     \* the model this behaviour exercises
  faults,   \* calls that have failed
  crashes,  \* process ends so far
  requests  \* requests so far

environment == <<part, faults, crashes, requests>>

EnvironmentInit == faults = 0 /\ crashes = 0 /\ requests = 0

\* The call of this step succeeds.
NoFault == UNCHANGED environment

\* The call of this step fails.
Fault == faults + crashes < MaxTroubles /\ faults' = faults + 1 /\ UNCHANGED <<part, crashes, requests>>

\* The process ends in this step.
ProcessCrash == faults + crashes < MaxTroubles /\ crashes' = crashes + 1 /\ UNCHANGED <<part, faults, requests>>

\* Somebody asks for something, and the calls of this step succeed.
Request == requests < MaxRequests /\ requests' = requests + 1 /\ UNCHANGED <<part, faults, crashes>>
=============================================================================
