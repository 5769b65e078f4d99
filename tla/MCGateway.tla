------------------------------ MODULE MCGateway ------------------------------
(* The gateway alone. *)
EXTENDS DatabaseGateway
Init == GatewayInit /\ part = "gateway"
Spec == Init /\ [][GatewayNext]_gatewayVars /\ GatewayFairness
=============================================================================
