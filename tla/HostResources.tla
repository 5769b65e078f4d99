---------------------------- MODULE HostResources ----------------------------
(***************************************************************************)
(* What the deployments of every service share on the host: its ports      *)
(* (internal/docker/ports.go, ListAllocatedHostPorts) and the images that  *)
(* builds leave behind (internal/services/image_gc.go).                    *)
(*                                                                         *)
(* Deployments of different services run at the same time; those of one    *)
(* service follow each other, which the queue sees to (OperationQueue).    *)
(* A deployment is named by its place in the order of creation.  Docker    *)
(* starts no container on a port that a running one has bound, creates     *)
(* none from an image that is gone, and removes no image that a container  *)
(* uses, running or not.                                                   *)
(***************************************************************************)
EXTENDS Environment, FiniteSets

CONSTANTS
  HostServices, \* services with one environment each
  LastDeploy,   \* bound: deployments are 1..LastDeploy
  Ports,        \* the ports of the configured range
  Retain        \* successful deployments per service whose images are kept

ASSUME HostAssumption == LastDeploy \in Nat /\ Retain \in Nat

Builds == 1..LastDeploy

VARIABLES
  build,     \* service, port, and how far each deployment has come
  cancelled, \* deployments whose row is CANCELLED, their handler still at work or not
  row,       \* status of its row in containers
  container, \* what Docker has for it
  images,    \* deployments whose image is on the host
  activeOf,  \* active_deployment_id of each service
  lifecycle, \* stops and restarts under way: the deployment resolved, and the step
  sweep,     \* the image sweep: where it is, the refs to keep, the tags left
  rivals,    \* history: who had picked the same port and written no row when each deployment picked
  revived,   \* history: deployments whose REMOVED row a late stop or restart wrote again
  succeeded, \* history: deployments that were ever SUCCESS
  unseen     \* history: deployments created after the sweep read what to keep, before it listed

dockerVars == <<row, container, activeOf>>
portHistory == <<rivals, revived>>
imageVars == <<images, sweep, unseen>>
hostState == <<build, cancelled, dockerVars, lifecycle, portHistory, succeeded, imageVars>>
hostVars == <<hostState, environment>>

\* Picked, and without its row in containers yet.
Rowless == {"picked", "built", "started"}

\* BUILDING, or FAILED with the cleanup of its container to come.
InFlight == Rowless \cup {"attached", "undo"}

\* SUCCESS; "unmarked" when neither the activation nor its failure could be written.
Switching == {"promoted", "unmarked", "cutover"}
Successful == Switching \cup {"success"}

Running(d) == build[d].at \in InFlight \cup Switching

HostInit ==
  /\ build = [d \in Builds |-> [at |-> "none", service |-> None, port |-> None]]
  /\ row = [d \in Builds |-> "none"] /\ container = [d \in Builds |-> "none"]
  /\ cancelled = {} /\ lifecycle = {} /\ revived = {} /\ succeeded = {}
  /\ images = {} /\ activeOf = [s \in HostServices |-> None]
  /\ sweep = [at |-> "idle", keep |-> {}, left |-> {}]
  /\ rivals = [d \in Builds |-> {}] /\ unseen = {}
  /\ EnvironmentInit

-----------------------------------------------------------------------------
(* Ports. *)

\* Mutant of ListAllocatedHostPorts: only a running container's row counts.
RunningHostPorts == {build[d].port : d \in {e \in Builds : row[e] = "RUNNING"}}

\* Rows that are not REMOVED reserve their port, running or stopped.
ListAllocatedHostPorts == {build[d].port : d \in {e \in Builds : row[e] \in {"RUNNING", "STOPPED"}}}

Bound == {build[d].port : d \in {e \in Builds : container[e] = "running"}}

Go(d, to) == build' = [build EXCEPT ![d].at = to]

\* A fault, or the context that a cancellation has ended.
Fails(d) == Fault \/ (d \in cancelled /\ NoFault)

Queue(d, s) ==
  /\ build[d].at = "none" /\ \A e \in Builds : e < d => build[e].at # "none"
  /\ Request
  /\ build' = [build EXCEPT ![d] = [at |-> "queued", service |-> s, port |-> None]]
  /\ unseen' = IF sweep.at = "list" THEN unseen \cup {d} ELSE unseen
  /\ UNCHANGED <<cancelled, dockerVars, lifecycle, portHistory, succeeded, images, sweep>>

\* The row is CANCELLED at once; the handler goes on to its next boundary.
CancelDeployment(d) ==
  /\ build[d].at \in {"queued", "attached"} \cup Rowless /\ d \notin cancelled
  /\ Request
  /\ cancelled' = cancelled \cup {d}
  /\ UNCHANGED <<build, dockerVars, lifecycle, portHistory, succeeded, imageVars>>

\* Before the container is started: there is nothing to remove.
StopAtBoundary(d) ==
  /\ build[d].at \in {"queued", "picked", "built"} /\ d \in cancelled /\ NoFault
  /\ Go(d, "failed")
  /\ UNCHANGED <<cancelled, dockerVars, lifecycle, portHistory, succeeded, imageVars>>

\* The port is picked before the build: free to listen on, and reserved by no row.
PickHostPort(d) ==
  /\ build[d].at = "queued"
  /\ \A e \in Builds : build[e].service = build[d].service =>
       ~ Running(e) /\ (e < d => build[e].at # "queued")
  /\ LET free == Ports \ (ListAllocatedHostPorts \cup Bound) IN
     \/ /\ NoFault
        /\ \E p \in free :
             /\ build' = [build EXCEPT ![d].at = "picked", ![d].port = p]
             /\ rivals' = [rivals EXCEPT ![d] = {e \in Builds : build[e].at \in Rowless /\ build[e].port = p}]
     \/ (Fault \/ (free = {} /\ NoFault)) /\ Go(d, "failed") /\ UNCHANGED rivals
  /\ UNCHANGED <<cancelled, dockerVars, lifecycle, revived, succeeded, imageVars>>

Build(d) ==
  /\ build[d].at = "picked"
  /\ \/ NoFault /\ Go(d, "built") /\ images' = images \cup {d}
     \/ Fails(d) /\ Go(d, "failed") /\ UNCHANGED images
  /\ UNCHANGED <<cancelled, dockerVars, lifecycle, portHistory, succeeded, sweep, unseen>>

\* A container that was created and could not be started stays behind.
RunContainer(d) ==
  /\ build[d].at = "built"
  /\ \/ /\ NoFault /\ d \in images /\ build[d].port \notin Bound
        /\ container' = [container EXCEPT ![d] = "running"] /\ Go(d, "started")
     \/ /\ Fails(d) \/ (build[d].port \in Bound /\ NoFault)
        /\ d \in images
        /\ container' = [container EXCEPT ![d] = "created"] /\ Go(d, "failed")
     \/ /\ Fails(d) \/ (d \notin images /\ NoFault)
        /\ Go(d, "failed") /\ UNCHANGED container
  /\ UNCHANGED <<cancelled, row, activeOf, lifecycle, portHistory, succeeded, imageVars>>

\* When the row cannot be written nothing stops the container.
AttachContainer(d) ==
  /\ build[d].at = "started"
  /\ \/ NoFault /\ row' = [row EXCEPT ![d] = "RUNNING"] /\ Go(d, "attached")
     \/ Fails(d) /\ Go(d, "failed") /\ UNCHANGED row
  /\ UNCHANGED <<cancelled, container, activeOf, lifecycle, portHistory, succeeded, imageVars>>

\* StopAndRemove, and the row only when Docker has removed the container.
RemoveWithRow(d) ==
  \/ NoFault /\ container' = [container EXCEPT ![d] = "none"] /\ row' = [row EXCEPT ![d] = "REMOVED"]
  \/ Fault /\ container' = [container EXCEPT ![d] = "none"] /\ UNCHANGED row
  \/ Fault /\ UNCHANGED <<container, row>>

\* UpdateDeploymentStatus refuses a cancelled deployment.
MarkSuccess(d) ==
  /\ build[d].at = "attached" /\ d \notin cancelled /\ NoFault
  /\ Go(d, "promoted") /\ succeeded' = succeeded \cup {d}
  /\ UNCHANGED <<cancelled, dockerVars, lifecycle, portHistory, imageVars>>

Settled(s) == {e \in Builds : build[e].service = s /\ build[e].at = "success"}

\* When the activation fails, SUCCESS becomes FAILED, if that can be written.
ActivateServiceDeployment(d) ==
  /\ build[d].at = "promoted"
  /\ \/ /\ NoFault /\ activeOf' = [activeOf EXCEPT ![build[d].service] = d]
        /\ Go(d, IF Settled(build[d].service) = {} THEN "success" ELSE "cutover")
     \/ Fault /\ (Go(d, "undo") \/ Go(d, "unmarked")) /\ UNCHANGED activeOf
  /\ UNCHANGED <<cancelled, row, container, lifecycle, portHistory, succeeded, imageVars>>

\* Unhealthy, cancelled at a boundary, refused its SUCCESS, or not activated.
CleanupCandidate(d) ==
  /\ build[d].at \in {"attached", "undo", "unmarked"}
  /\ Go(d, IF build[d].at = "unmarked" THEN "success" ELSE "failed")
  /\ RemoveWithRow(d)
  /\ UNCHANGED <<cancelled, activeOf, lifecycle, portHistory, succeeded, imageVars>>

\* The container of the latest SUCCESS before this one, active or not.
TeardownPrevious(d) ==
  /\ build[d].at = "cutover" /\ Go(d, "success")
  /\ \E e \in Settled(build[d].service) :
       (\A o \in Settled(build[d].service) : o <= e) /\ RemoveWithRow(e)
  /\ UNCHANGED <<cancelled, activeOf, lifecycle, portHistory, succeeded, imageVars>>

\* What was BUILDING is failed at the next start; a SUCCESS stays one ...
HostCrash ==
  /\ ProcessCrash
  /\ build' = [d \in Builds |-> IF build[d].at \in InFlight THEN [build[d] EXCEPT !.at = "failed"]
                                ELSE IF build[d].at \in Switching THEN [build[d] EXCEPT !.at = "success"] ELSE build[d]]
  /\ lifecycle' = {}
  /\ sweep' = [at |-> "idle", keep |-> {}, left |-> {}]
  /\ UNCHANGED <<cancelled, dockerVars, portHistory, succeeded, images, unseen>>

\* ... and the container of a failed one is removed when it has a RUNNING row,
\* before any is claimed again.
SweepOrphanedContainer(d) ==
  /\ build[d].at = "failed" /\ row[d] = "RUNNING" /\ d \notin {activeOf[s] : s \in HostServices}
  /\ crashes > 0 /\ \A e \in Builds : ~ Running(e)
  /\ RemoveWithRow(d)
  /\ UNCHANGED <<build, cancelled, activeOf, lifecycle, portHistory, succeeded, imageVars>>

-----------------------------------------------------------------------------
(* Stop and restart of a service: what they resolve may be replaced before  *)
(* they call Docker, and again before they write the row.                   *)

ResolveActiveServiceContainer(s, verb) ==
  /\ activeOf[s] # None /\ Request
  /\ lifecycle' = lifecycle \cup {[verb |-> verb, build |-> activeOf[s], at |-> "docker"]}
  /\ UNCHANGED <<build, cancelled, dockerVars, portHistory, succeeded, imageVars>>

\* A removed container, or a port that another has bound, is an error.
CallDocker(r) ==
  LET d == r.build
      done == lifecycle \ {r}
      free == container[d] = "running" \/ build[d].port \notin Bound
  IN /\ r \in lifecycle /\ r.at = "docker"
     /\ \/ /\ NoFault /\ container[d] # "none" /\ (r.verb = "stop" \/ free)
           /\ container' = [container EXCEPT ![d] = IF r.verb = "stop" THEN "stopped" ELSE "running"]
           /\ lifecycle' = done \cup {[r EXCEPT !.at = "row"]}
        \/ /\ Fault \/ (NoFault /\ (container[d] = "none" \/ (r.verb = "restart" /\ ~ free)))
           /\ lifecycle' = done /\ UNCHANGED container
     /\ UNCHANGED <<build, cancelled, row, activeOf, portHistory, succeeded, imageVars>>

\* UpdateContainerStatus asks nothing of the row it writes.
WriteRow(r) ==
  /\ r \in lifecycle /\ r.at = "row"
  /\ lifecycle' = lifecycle \ {r}
  /\ \/ /\ NoFault /\ row' = [row EXCEPT ![r.build] = IF r.verb = "stop" THEN "STOPPED" ELSE "RUNNING"]
        /\ revived' = IF row[r.build] = "REMOVED" THEN revived \cup {r.build} ELSE revived
     \/ Fault /\ UNCHANGED <<row, revived>>
  /\ UNCHANGED <<build, cancelled, container, activeOf, rivals, succeeded, imageVars>>

\* The application ends by itself and Docker starts it again: the port is free in between.
ContainerExits(d) ==
  /\ container[d] = "running" /\ Fault
  /\ container' = [container EXCEPT ![d] = "exited"]
  /\ UNCHANGED <<build, cancelled, row, activeOf, lifecycle, portHistory, succeeded, imageVars>>

ContainerReturns(d) ==
  /\ container[d] = "exited" /\ build[d].port \notin Bound /\ NoFault
  /\ container' = [container EXCEPT ![d] = "running"]
  /\ UNCHANGED <<build, cancelled, row, activeOf, lifecycle, portHistory, succeeded, imageVars>>

-----------------------------------------------------------------------------
(* Images. *)

\* Among the newest Retain of `these', deployments of its service.
Newest(d, these) ==
  Cardinality({e \in these : build[e].service = build[d].service /\ e > d}) < Retain

\* Rows in SUCCESS, of which the newest of each service keep their images.
Buffer ==
  LET now == {d \in Builds : build[d].at \in Successful}
  IN {d \in now : Newest(d, now)}

HeldByRow == {d \in Builds : row[d] \in {"RUNNING", "STOPPED"}}

\* Mutant of ListRetainedImageRefs: a deployment in flight is not kept.
RetainedAfterTheFact == HeldByRow \cup Buffer

\* A cancelled deployment is no longer QUEUED or BUILDING, nor is a failed one.
ListRetainedImageRefs ==
  HeldByRow \cup Buffer
    \cup {d \in Builds \ cancelled : build[d].at \in {"queued", "attached"} \cup Rowless}

ReadRetained ==
  /\ sweep.at = "idle" /\ NoFault
  /\ sweep' = [at |-> "list", keep |-> ListRetainedImageRefs, left |-> {}]
  /\ UNCHANGED <<build, cancelled, dockerVars, lifecycle, portHistory, succeeded, images, unseen>>

ListImages ==
  /\ sweep.at = "list"
  /\ \/ NoFault /\ sweep' = [sweep EXCEPT !.at = "remove", !.left = images \ sweep.keep]
     \/ Fault /\ sweep' = [at |-> "idle", keep |-> {}, left |-> {}]
  /\ UNCHANGED <<build, cancelled, dockerVars, lifecycle, portHistory, succeeded, images, unseen>>

\* A tag Docker will not give up is skipped.
RemoveImageIfUnused(d) ==
  /\ sweep.at = "remove" /\ d \in sweep.left
  /\ sweep' = [sweep EXCEPT !.left = @ \ {d}]
  /\ \/ NoFault /\ images' = IF container[d] = "none" THEN images \ {d} ELSE images
     \/ Fault /\ UNCHANGED images
  /\ UNCHANGED <<build, cancelled, dockerVars, lifecycle, portHistory, succeeded, unseen>>

EndSweep ==
  /\ sweep.at = "remove" /\ sweep.left = {} /\ NoFault
  /\ sweep' = [at |-> "idle", keep |-> {}, left |-> {}]
  /\ UNCHANGED <<build, cancelled, dockerVars, lifecycle, portHistory, succeeded, images, unseen>>

HostNext ==
  \/ \E d \in Builds :
       \/ \E s \in HostServices : Queue(d, s)
       \/ CancelDeployment(d) \/ StopAtBoundary(d) \/ PickHostPort(d) \/ Build(d)
       \/ RunContainer(d) \/ AttachContainer(d) \/ MarkSuccess(d)
       \/ ActivateServiceDeployment(d) \/ CleanupCandidate(d) \/ TeardownPrevious(d)
       \/ SweepOrphanedContainer(d) \/ ContainerExits(d) \/ ContainerReturns(d)
       \/ RemoveImageIfUnused(d)
  \/ \E s \in HostServices, verb \in {"stop", "restart"} : ResolveActiveServiceContainer(s, verb)
  \/ \E r \in lifecycle : CallDocker(r) \/ WriteRow(r)
  \/ HostCrash \/ ReadRetained \/ ListImages \/ EndSweep

HostSpec == HostInit /\ [][HostNext]_hostVars

-----------------------------------------------------------------------------
HostTypeOK ==
  /\ \A d \in Builds : build[d].port \in Ports \cup {None} /\ build[d].service \in HostServices \cup {None}
  /\ images \subseteq Builds /\ sweep.left \subseteq Builds /\ cancelled \subseteq Builds
  /\ \A s \in HostServices : activeOf[s] \in Builds \cup {None}
  /\ \A r \in lifecycle : r.build \in Builds

\* Rows that still own a port, running or stopped, own different ones: the
\* upstream of a route is never another service's container.  There are two
\* exceptions: deployments that pick at the same time, before either has its
\* row (`rivals'), and a row that a stop or a restart writes again after the
\* cutover it raced has removed the container and given up its port (`revived').
PortsAreDistinct ==
  \A d, e \in Builds :
    d # e /\ row[d] \in {"RUNNING", "STOPPED"} /\ row[e] \in {"RUNNING", "STOPPED"} /\ build[d].port = build[e].port
      => d \in rivals[e] \/ e \in rivals[d] \/ d \in revived \/ e \in revived

\* The sweep reads what to keep, lists and removes while deployments go on.
\* It never takes the image of a deployment that was not cancelled and has
\* still to start its container, nor one of the newest SUCCESS deployments of
\* a service, counted among all that ever succeeded.  The exception (`unseen')
\* is a deployment created and built between the reading and the listing: its
\* image is listed, and the refs to keep were read before it had a row.
ImageIsKept ==
  \A d \in Builds :
    (build[d].at = "built" /\ d \notin cancelled) \/ (build[d].at \in Successful /\ Newest(d, succeeded))
      => d \in images \cup unseen
=============================================================================
