------------------------------ MODULE MCPlatform ------------------------------
(* The smaller models side by side: `part' says which one a behaviour is of, *)
(* and the others stay as they began.                                        *)
EXTENDS CredentialRotation, ControlPlane, ServiceCatalog, DeploymentLogs, HostResources, PlatformDomain

\* Bound: troubles and requests of one model, where they are less than for all.
AtMost(troubles, asks) == faults' + crashes' <= troubles /\ requests' <= asks

\* Bound: the host is asked a third time only without troubles; a fourth time,
\* and for a third deployment, only between image sweeps as well.
HostBound ==
  /\ requests' > 2 => faults' + crashes' = 0
  /\ requests' > 3 \/ (\E d \in Builds : d > 2 /\ build'[d].at # "none") => sweep'.at = "idle"

Init ==
  /\ part \in {"rotation", "plane", "catalog", "logs", "host", "domain"}
  /\ RotationInit /\ PlaneInit /\ CatalogInit /\ LogsInit /\ HostInit /\ DomainInit
  /\ part # "rotation" => engine = "admin"
  /\ part # "logs" => viewer.text = <<>>
  /\ part # "plane" => database = NoDatabase /\ binary = CanaryMigration /\ envKey = CHOOSE k \in Keys : TRUE

Rotation == part = "rotation" /\ RotationNext /\ AtMost(2, 2)
              /\ UNCHANGED <<planeState, catalogState, logState, hostState, domainState>>
Plane    == part = "plane" /\ PlaneNext /\ AtMost(1, 2)
              /\ UNCHANGED <<rotationState, catalogState, logState, hostState, domainState>>
Catalog  == part = "catalog" /\ CatalogNext /\ AtMost(2, 4)
              /\ UNCHANGED <<rotationState, planeState, logState, hostState, domainState>>
Logs     == part = "logs" /\ LogsNext /\ AtMost(2, 4)
              /\ UNCHANGED <<rotationState, planeState, catalogState, hostState, domainState>>
Host     == part = "host" /\ HostNext /\ AtMost(1, 4) /\ HostBound
              /\ UNCHANGED <<rotationState, planeState, catalogState, logState, domainState>>
Domain   == part = "domain" /\ DomainNext /\ AtMost(2, 3)
              /\ UNCHANGED <<rotationState, planeState, catalogState, logState, hostState>>

Next == Rotation \/ Plane \/ Catalog \/ Logs \/ Host \/ Domain

allVars == <<rotationState, planeState, catalogState, logState, hostState, domainState, environment>>

Spec == Init /\ [][Next]_allVars /\ WF_allVars(Rotation /\ RotationWork)

PlatformTypeOK ==
  RotationTypeOK /\ PlaneTypeOK /\ CatalogTypeOK /\ LogsTypeOK /\ HostTypeOK /\ DomainTypeOK
=============================================================================
