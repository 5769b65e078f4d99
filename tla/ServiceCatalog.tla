---------------------------- MODULE ServiceCatalog ----------------------------
(***************************************************************************)
(* Applications, environments and services (repository/applications.go,    *)
(* repository/service_crud.go, services/delete_v2.go and their handlers),  *)
(* where their rows come and go beside the work that runs for them: a      *)
(* request reads, calls Docker and writes in several steps, and nothing    *)
(* keeps another request, or a deploy or a provisioning under way, from    *)
(* stepping in between.                                                    *)
(*                                                                         *)
(* There is one application.  A deployment is followed from its container  *)
(* on only as far as the row of its service matters (Deployment has the    *)
(* rest), a database only as far as its volume (DatabaseInstance).         *)
(***************************************************************************)
EXTENDS Environment

CONSTANTS
  Environments, FirstEnvironment, \* ids; the one the application is created with
  Services,                       \* ids of services of either type
  Deploys,                        \* deployments, also their containers
  Clients                         \* requests that may be served at once

ASSUME CatalogAssumption == FirstEnvironment \in Environments /\ None \notin Services \cup {"application", "database"}

VARIABLES
  application,  \* whether its row is there
  environments, \* rows
  services,     \* rows: id -> type, None when there is none
  bindings,     \* rows of service_environments
  deploys,      \* the row, the service and the step of each deployment
  containers,   \* deployments whose container runs
  volumes,      \* database services whose volume was made
  networks,     \* environments whose network is there
  clients,      \* the step of each request, and what it read
  unlisted      \* history: what was recorded after a deletion had listed what there was

catalogRows == <<application, environments, services, bindings>>
catalogState == <<catalogRows, deploys, containers, volumes, networks, clients, unlisted>>
catalogVars == <<catalogState, environment>>

Idle == [at |-> "idle", service |-> None, left |-> {}, listed |-> {}, environments |-> {}]
NoDeploy == [row |-> FALSE, service |-> None, in |-> None, at |-> "none"]

CatalogInit ==
  /\ application = TRUE /\ environments = {FirstEnvironment}
  /\ services = [v \in Services |-> None] /\ bindings = {}
  /\ deploys = [d \in Deploys |-> NoDeploy]
  /\ containers = {} /\ volumes = {} /\ networks = {}
  /\ clients = [c \in Clients |-> Idle]
  /\ unlisted = {}
  /\ EnvironmentInit

-----------------------------------------------------------------------------
Existing == {v \in Services : services[v] # None}
Applications(type) == {v \in Services : services[v] = type}

Deleting(c) == clients[c].at \in {"list", "stop", "delete"}

Step(c, s) == clients' = [clients EXCEPT ![c].at = s]
Done(c)    == clients' = [clients EXCEPT ![c] = Idle]

\* ON DELETE CASCADE from services to their bindings and deployments.
Cascade(gone) ==
  /\ services' = [v \in Services |-> IF v \in gone THEN None ELSE services[v]]
  /\ bindings' = {b \in bindings : b[1] \notin gone}
  /\ deploys'  = [d \in Deploys |-> IF deploys[d].service \in gone THEN [deploys[d] EXCEPT !.row = FALSE] ELSE deploys[d]]

\* POST .../services: the application and its environments are read first.
ListEnvironmentsForService(c, v) ==
  /\ clients[c] = Idle /\ application /\ services[v] = None
  /\ \A b \in Clients : clients[b].service # v
  /\ \A d \in Deploys : deploys[d].service # v
  /\ clients' = [clients EXCEPT ![c] = [Idle EXCEPT !.at = "create", !.service = v, !.environments = environments]]
  /\ Request
  /\ UNCHANGED <<catalogRows, deploys, containers, volumes, networks, unlisted>>

\* CreateService, one transaction: foreign keys refuse what is gone by now.
CreateService(c) ==
  /\ clients[c].at = "create" /\ Done(c) /\ NoFault
  /\ IF application /\ clients[c].environments \subseteq environments
     THEN /\ services' = [services EXCEPT ![clients[c].service] = "application"]
          /\ bindings' = bindings \cup ({clients[c].service} \X clients[c].environments)
     ELSE UNCHANGED <<services, bindings>>
  /\ UNCHANGED <<application, environments, deploys, containers, volumes, networks, unlisted>>

\* The environment and a binding for each service, in one transaction.
CreateEnvironment(e) ==
  /\ application /\ e \notin environments /\ Request
  /\ environments' = environments \cup {e}
  /\ bindings' = bindings \cup (Applications("application") \X {e})
  /\ UNCHANGED <<application, services, deploys, containers, volumes, networks, clients, unlisted>>

\* POST .../database-services: PrepareManagedDatabase is one transaction.
PrepareManagedDatabase(c, v) ==
  /\ clients[c] = Idle /\ application /\ services[v] = None
  /\ \A b \in Clients : clients[b].service # v
  /\ v \notin volumes /\ \A d \in Deploys : deploys[d].service # v
  /\ services' = [services EXCEPT ![v] = "database"]
  /\ clients' = [clients EXCEPT ![c] = [Idle EXCEPT !.at = "policy", !.service = v]]
  /\ Request
  /\ UNCHANGED <<application, environments, bindings, deploys, containers, volumes, networks, unlisted>>

\* The backup policy; without it the service is deleted, whatever its
\* provisioning has made by then, unless that fails too.
SavePolicyOrUndo(c) ==
  /\ clients[c].at = "policy" /\ Done(c)
  /\ \/ NoFault /\ UNCHANGED <<services, bindings, deploys, unlisted>>
     \/ /\ Fault
        /\ Cascade({clients[c].service})
        /\ unlisted' = unlisted \cup (volumes \cap {clients[c].service})
  /\ UNCHANGED <<application, environments, containers, volumes, networks>>

\* The provision operation, for as long as its row is there.
ProvisionVolume(v) ==
  /\ services[v] = "database" /\ v \notin volumes /\ NoFault
  /\ volumes' = volumes \cup {v}
  /\ unlisted' = IF \E c \in Clients : Deleting(c) /\ clients[c].service = None
                 THEN unlisted \cup {v} ELSE unlisted
  /\ UNCHANGED <<catalogRows, deploys, containers, networks, clients>>

-----------------------------------------------------------------------------
(* A deployment of a service that has none under way. *)

Underway(v) == \E d \in Deploys : deploys[d].service = v /\ deploys[d].at \in {"queued", "network", "run", "attach", "activate"}

\* The row needs its service and binding.
QueueDeploy(d, v, e) ==
  /\ deploys[d] = NoDeploy /\ services[v] = "application" /\ <<v, e>> \in bindings /\ ~Underway(v)
  /\ deploys' = [deploys EXCEPT ![d] = [row |-> TRUE, service |-> v, in |-> e, at |-> "queued"]]
  /\ Request
  /\ UNCHANGED <<catalogRows, containers, volumes, networks, clients, unlisted>>

Advance(d, s) == deploys' = [deploys EXCEPT ![d].at = s]

\* A step fails, or an operator has cancelled, before there is a container.
StopDeploy(d) ==
  /\ deploys[d].at \in {"queued", "network", "run"} /\ NoFault /\ Advance(d, "ended")
  /\ UNCHANGED <<catalogRows, containers, volumes, networks, clients, unlisted>>

\* Claimed, loaded and built; obsolete when the row is gone.
BuildDeploy(d) ==
  /\ deploys[d].at = "queued" /\ NoFault
  /\ Advance(d, IF deploys[d].row THEN "network" ELSE "ended")
  /\ UNCHANGED <<catalogRows, containers, volumes, networks, clients, unlisted>>

EnsureEnvironmentNetwork(d) ==
  /\ deploys[d].at = "network" /\ NoFault /\ Advance(d, "run")
  /\ networks' = networks \cup {deploys[d].in}
  /\ UNCHANGED <<catalogRows, containers, volumes, clients, unlisted>>

\* Docker refuses a network that was removed in between.
RunDeployContainer(d) ==
  /\ deploys[d].at = "run"
  /\ IF deploys[d].in \in networks
     THEN Advance(d, "attach") /\ containers' = containers \cup {d} /\ NoFault
     ELSE Advance(d, "ended") /\ UNCHANGED containers /\ NoFault
  /\ UNCHANGED <<catalogRows, volumes, networks, clients, unlisted>>

\* A deletion that has read its list of this service already, or never will.
Missed(d) ==
  \E c \in Clients : Deleting(c) /\ deploys[d].service \notin clients[c].left
                     /\ clients[c].service \in {None, deploys[d].service}

\* The row of the container.  It is refused without a deployment, and a write
\* may fail or find the deployment cancelled: nothing stops the container then,
\* and nothing refers to it any more.
AttachDeployContainer(d) ==
  /\ deploys[d].at = "attach"
  /\ \/ /\ NoFault /\ deploys[d].row /\ Advance(d, "activate")
        /\ unlisted' = IF Missed(d) THEN unlisted \cup {d} ELSE unlisted
     \/ /\ (NoFault /\ ~deploys[d].row) \/ Fault \/ Request
        /\ Advance(d, "lost") /\ UNCHANGED unlisted
  /\ UNCHANGED <<catalogRows, containers, volumes, networks, clients>>

\* Healthy, promoted and active; what was active is removed, and when that
\* fails it keeps its row, which no sweep looks for: it once succeeded.
ActivateDeploy(d) ==
  /\ deploys[d].at = "activate" /\ deploys[d].row
  /\ LET previous == {p \in Deploys : deploys[p].at = "active" /\ deploys[p].service = deploys[d].service}
         Leave(s) == deploys' = [p \in Deploys |-> IF p = d THEN [deploys[d] EXCEPT !.at = "active"]
                                                  ELSE IF p \in previous THEN [deploys[p] EXCEPT !.at = s] ELSE deploys[p]] IN
     \/ NoFault /\ Leave("ended") /\ containers' = containers \ previous
     \/ Fault /\ Leave("replaced") /\ UNCHANGED containers
  /\ UNCHANGED <<catalogRows, volumes, networks, clients, unlisted>>

\* Unhealthy, cancelled, or without a row that could be promoted.
RemoveCandidate(d) ==
  /\ deploys[d].at = "activate"
  /\ \/ NoFault /\ Advance(d, "ended") /\ containers' = containers \ {d}
     \/ Fault /\ Advance(d, "left") /\ UNCHANGED containers
  /\ UNCHANGED <<catalogRows, volumes, networks, clients, unlisted>>

-----------------------------------------------------------------------------
(* Deletions. *)

\* A container has its row since it was attached.
Recorded == {"activate", "active", "replaced", "left"}
Attached(v) == {d \in containers : deploys[d].row /\ deploys[d].service = v /\ deploys[d].at \in Recorded}

\* DELETE of an application service, or of the application, which is refused
\* while it has a database service; the services are listed once.
BeginDeleteService(c, v) ==
  /\ clients[c] = Idle /\ services[v] = "application" /\ Request
  /\ clients' = [clients EXCEPT ![c] = [Idle EXCEPT !.at = "list", !.service = v, !.left = {v}]]
  /\ UNCHANGED <<catalogRows, deploys, containers, volumes, networks, unlisted>>

BeginDeleteApplication(c) ==
  /\ clients[c] = Idle /\ application /\ Applications("database") = {} /\ Request
  /\ clients' = [clients EXCEPT ![c] = [Idle EXCEPT !.at = IF Existing = {} THEN "delete" ELSE "list", !.left = Existing, !.environments = environments]]
  /\ UNCHANGED <<catalogRows, deploys, containers, volumes, networks, unlisted>>

\* Mutant of ListServiceRuntime: only what is active is looked for.
ListActiveRuntime(c, v) ==
  /\ clients[c].at = "list" /\ v \in clients[c].left /\ services[v] = "application" /\ NoFault
  /\ clients' = [clients EXCEPT ![c].at = "stop", ![c].left = @ \ {v},
                                ![c].listed = {d \in Attached(v) : deploys[d].at = "active"}]
  /\ UNCHANGED <<catalogRows, deploys, containers, volumes, networks, unlisted>>

\* cleanupServiceRuntime: what runs is listed from the rows, service by service.
ListServiceRuntime(c, v) ==
  /\ clients[c].at = "list" /\ v \in clients[c].left
  /\ \/ /\ NoFault /\ services[v] = "application"
        /\ clients' = [clients EXCEPT ![c].at = "stop", ![c].left = @ \ {v}, ![c].listed = Attached(v)]
     \/ /\ (NoFault /\ services[v] # "application") \/ Fault
        /\ Done(c)
  /\ UNCHANGED <<catalogRows, deploys, containers, volumes, networks, unlisted>>

\* StopAndRemove, one after the other; a failure ends the request, and what
\* was removed stays removed.
StopListed(c) ==
  /\ clients[c].at = "stop"
  /\ LET running == clients[c].listed \cap containers IN
     \/ running = {} /\ NoFault /\ Step(c, IF clients[c].left = {} THEN "delete" ELSE "list") /\ UNCHANGED containers
     \/ \E d \in running : NoFault /\ containers' = containers \ {d} /\ UNCHANGED clients
     \/ running # {} /\ Fault /\ Done(c) /\ UNCHANGED containers
  /\ UNCHANGED <<catalogRows, deploys, volumes, networks, unlisted>>

DeleteService(c) ==
  /\ clients[c].at = "delete" /\ clients[c].service # None /\ Done(c)
  /\ \/ NoFault /\ Cascade({clients[c].service})
     \/ Fault /\ UNCHANGED <<services, bindings, deploys>>
  /\ UNCHANGED <<application, environments, containers, volumes, networks, unlisted>>

\* Everything of the application goes with it, also what came since.
DeleteApplication(c) ==
  /\ clients[c].at = "delete" /\ clients[c].service = None
  /\ \/ /\ NoFault /\ application /\ Step(c, "networks")
        /\ application' = FALSE /\ environments' = {} /\ Cascade(Services)
     \/ /\ (NoFault /\ ~application) \/ Fault
        /\ Done(c) /\ UNCHANGED <<catalogRows, deploys>>
  /\ UNCHANGED <<containers, volumes, networks, unlisted>>

\* RemoveEnvironmentNetworkIfEmpty, best effort.
RemoveEmptyNetworks(c) ==
  /\ clients[c].at = "networks" /\ Done(c)
  /\ LET used == {deploys[d].in : d \in containers} IN
     \/ NoFault /\ networks' = networks \ (clients[c].environments \ used)
     \/ Fault /\ networks' \in {networks \ gone : gone \in SUBSET (clients[c].environments \ used)}
  /\ UNCHANGED <<catalogRows, deploys, containers, volumes, unlisted>>

\* The process ends.  At the next start recovery fails what was under way and
\* the sweep removes the containers that have a row and are not active.
CatalogCrash ==
  /\ ProcessCrash
  /\ clients' = [c \in Clients |-> Idle]
  /\ deploys' = [d \in Deploys |->
       CASE deploys[d].at = "attach" -> [deploys[d] EXCEPT !.at = "lost"]
         [] deploys[d].at = "activate" /\ ~deploys[d].row -> [deploys[d] EXCEPT !.at = "left"]
         [] deploys[d].at \in {"network", "run"} \/ (deploys[d].at = "activate" /\ deploys[d].row) -> [deploys[d] EXCEPT !.at = "ended"]
         [] OTHER -> deploys[d]]
  /\ containers' = {d \in containers : ~(deploys[d].at \in {"activate", "left"} /\ deploys[d].row)}
  /\ UNCHANGED <<catalogRows, volumes, networks, unlisted>>

CatalogNext ==
  \/ \E c \in Clients : \/ CreateService(c) \/ SavePolicyOrUndo(c)
                        \/ BeginDeleteApplication(c) \/ StopListed(c) \/ DeleteService(c)
                        \/ DeleteApplication(c) \/ RemoveEmptyNetworks(c)
                        \/ \E v \in Services : \/ ListEnvironmentsForService(c, v)
                                               \/ PrepareManagedDatabase(c, v) \/ BeginDeleteService(c, v)
                                               \/ ListServiceRuntime(c, v)
  \/ \E v \in Services : ProvisionVolume(v)
  \/ \E e \in Environments : CreateEnvironment(e)
  \/ \E d \in Deploys, v \in Services, e \in Environments : QueueDeploy(d, v, e)
  \/ \E d \in Deploys : StopDeploy(d) \/ BuildDeploy(d) \/ EnsureEnvironmentNetwork(d) \/ RunDeployContainer(d)
                        \/ AttachDeployContainer(d) \/ ActivateDeploy(d) \/ RemoveCandidate(d)
  \/ CatalogCrash

CatalogSpec == CatalogInit /\ [][CatalogNext]_catalogVars

-----------------------------------------------------------------------------
CatalogTypeOK ==
  /\ application \in BOOLEAN /\ environments \subseteq Environments
  /\ \A v \in Services : services[v] \in {None, "application", "database"}
  /\ bindings \subseteq Applications("application") \X environments
  /\ \A d \in Deploys : deploys[d].row => services[deploys[d].service] = "application"
  /\ \A d \in containers : deploys[d].at \in Recorded \cup {"attach", "lost"}

\* A service or an application that was deleted leaves no container and no
\* volume behind, whatever was under way in it.  Two exceptions: what was
\* recorded only after the deletion had listed what there was (`unlisted'), and
\* a container whose own row is not written yet, or never could be ("lost"):
\* no deletion can find it.
DeletedRunsNothing ==
  /\ \A d \in containers : deploys[d].row \/ deploys[d].at \in {"attach", "lost"} \/ d \in unlisted
  /\ \A v \in volumes : services[v] = "database" \/ v \in unlisted
=============================================================================
