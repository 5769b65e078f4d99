-------------------------- MODULE DatabaseInstance --------------------------
(***************************************************************************)
(* The life of one managed database: its row in database_instances, its    *)
(* container and its volume, under the handlers of the operations queue    *)
(* (provision, restore_deleted, start, stop, restart, upgrade), the        *)
(* reconciliation loop, a deletion, a restoration, the purge loop, and     *)
(* crashes of the server at any point between two of their steps.          *)
(*                                                                         *)
(* UpdateDatabaseInstanceState is a SELECT and an UPDATE of every field,   *)
(* outside a transaction: here it is a read step and a write step.  An     *)
(* operator's request also reads the row first and writes it later.        *)
(* Docker gives the one container name of the instance to one container.   *)
(*                                                                         *)
(* Left out: the gateway route, the consumers of the database, its         *)
(* credentials, progress and messages.  Pulling the image fails with the   *)
(* step that uses it.  Claims are in any order and the runtime's own       *)
(* writes succeed (OperationQueue has their order, their failures and the  *)
(* attempts); a drain of the worker runtime is a crash here.               *)
(***************************************************************************)
EXTENDS Naturals, FiniteSets

CONSTANTS
  Ops,           \* ids of operations; those of kind "provision" exist at first
  KindOf,        \* operation_type of each
  None,          \* no request, no pending write
  PromptRestore, \* assumption: no deadline passes between a restore's read and its write
  MaxCrashes,    \* bound: ends of the server process
  MaxFaults,     \* bound: failing Docker and store calls, containers removed by hand
  MaxDeletes     \* bound: deletion requests

Kinds == {"provision", "restore_deleted", "start", "stop", "restart", "upgrade"}

ASSUME InstanceAssumption ==
  /\ KindOf \in [Ops -> Kinds]
  /\ None \notin Ops /\ "loop" \notin Ops
  /\ PromptRestore \in BOOLEAN
  /\ MaxCrashes \in Nat /\ MaxFaults \in Nat /\ MaxDeletes \in Nat

VARIABLES
  row,      \* docker_container_id (0 is ''), desired_state, status, image_ref
  life,     \* deleted_at and purge_after: live, retained, due; purged: no row
  docker,   \* the container of that name: its id (0: there is none), image, running
  lastId,   \* ids Docker has given out
  volume,   \* the named volume: absent, empty, or holding data
  catalog,  \* the image this build of the server pins
  status,   \* operations.status per operation
  cancels,  \* operations with cancel_requested_at
  undone,   \* upgrades whose job is rolled_back
  pc,       \* where each operation's handler is
  made,     \* the container each handler works on
  undoing,  \* handlers that put the previous image back
  ctxDone,  \* handlers whose context is cancelled
  pending,  \* per handler and for the loop: the row values it is about to write
  loop,     \* the reconciliation loop: where it is, what it has read and found
  request,  \* the operator's request that has read the row: an operation, or None
  deletion, \* the deletion in progress: where it is, the container it removes
  purge,    \* the purge loop
  faults, crashes, deletes

rowVars     == <<row, life>>
dockerVars  == <<docker, lastId, volume>>
opVars      == <<status, cancels, undone>>
handlerVars == <<pc, made, undoing, ctxDone>>
bounds      == <<faults, crashes, deletes>>
vars == <<rowVars, dockerVars, catalog, opVars, handlerVars, pending, loop,
          request, deletion, purge, bounds>>

Loop   == "loop"
Actors == Ops \cup {Loop}
Images == {"old", "new"}

Provisions == {o \in Ops : KindOf[o] \in {"provision", "restore_deleted"}}
Runtimes   == {o \in Ops : KindOf[o] \in {"start", "stop", "restart"}}
Starts     == {o \in Ops : KindOf[o] \in {"start", "restart"}}
Upgrades   == {o \in Ops : KindOf[o] = "upgrade"}

NoContainer == [id |-> 0, image |-> "old", running |-> FALSE]
State       == [container : Nat, desired : {"running", "stopped", "deleted"},
                status : {"provisioning", "starting", "healthy", "unhealthy",
                          "stopping", "stopped", "failed", "deleted"}]
Quiet       == [pc |-> "idle", container |-> 0, desired |-> "running", image |-> "old",
                found |-> "healthy", missing |-> FALSE]

WritePcs   == {"record", "done", "cleared", "tail"}
HandlerPcs == {"idle", "load", "volume", "run", "ready", "report", "stop", "start",
               "remove", "create", "commit", "undone", "fail"} \cup WritePcs

\* An actor that is about to read the row and write it back.
Writes(a) == IF a = Loop THEN loop.pc = "write" ELSE pc[a] \in WritePcs

TypeOK ==
  /\ row \in [container : Nat, desired : {"running", "stopped", "deleted"},
              status : {"provisioning", "starting", "healthy", "unhealthy",
                        "stopping", "stopped", "failed", "deleted"}, image : Images]
  /\ life \in {"live", "retained", "due", "purged"}
  /\ docker \in [id : Nat, image : Images, running : BOOLEAN]
  /\ docker.id \in 0..lastId /\ lastId \in Nat
  /\ volume \in {"absent", "empty", "data"} /\ catalog \in Images
  /\ status \in [Ops -> {"absent", "queued", "running", "success", "failed", "cancelled"}]
  /\ cancels \subseteq Ops /\ undone \subseteq Ops
  /\ pc \in [Ops -> HandlerPcs] /\ made \in [Ops -> Nat]
  /\ undoing \subseteq Upgrades /\ ctxDone \subseteq Ops
  /\ pending \in [Actors -> State \cup {None}]
  /\ \A a \in Actors : pending[a] # None => Writes(a)
  /\ \A o \in Ops : pc[o] = "idle" => made[o] = 0 /\ o \notin undoing \cup ctxDone
  /\ loop \in [pc : {"idle", "inspect", "health", "write"}, container : Nat,
               desired : {"running", "stopped", "deleted"}, image : Images,
               found : {"healthy", "unhealthy", "stopped", "failed"}, missing : BOOLEAN]
  /\ request \in Ops \cup {None}
  /\ deletion \in [pc : {"idle", "remove", "finalize"}, container : Nat]
  /\ purge \in {"idle", "ready", "volume", "records"}
  /\ faults \in Nat /\ crashes \in Nat /\ deletes \in Nat

\* PrepareManagedDatabase has created the row and its provision operation, or
\* an earlier process, perhaps of an older build, has provisioned the instance.
Prepared ==
  /\ \E o \in Ops : KindOf[o] = "provision"
  /\ row = [container |-> 0, desired |-> "running", status |-> "provisioning", image |-> "old"]
  /\ docker = NoContainer /\ lastId = 0 /\ volume = "absent" /\ catalog = "old"
  /\ status = [o \in Ops |-> IF KindOf[o] = "provision" THEN "queued" ELSE "absent"]

Provisioned ==
  /\ \A o \in Ops : KindOf[o] # "provision"
  /\ row = [container |-> 1, desired |-> "running", status |-> "healthy", image |-> "old"]
  /\ docker = [id |-> 1, image |-> "old", running |-> TRUE] /\ lastId = 1
  /\ volume = "data" /\ catalog \in Images
  /\ status = [o \in Ops |-> "absent"]

Init ==
  /\ Prepared \/ Provisioned
  /\ life = "live" /\ cancels = {} /\ undone = {}
  /\ pc = [o \in Ops |-> "idle"] /\ made = [o \in Ops |-> 0]
  /\ undoing = {} /\ ctxDone = {} /\ pending = [a \in Actors |-> None]
  /\ loop = Quiet /\ request = None
  /\ deletion = [pc |-> "idle", container |-> 0] /\ purge = "idle"
  /\ faults = 0 /\ crashes = 0 /\ deletes = 0

Active == {o \in Ops : status[o] \in {"queued", "running"}}
Running == {o \in Ops : status[o] = "running"}

Fault == faults < MaxFaults /\ faults' = faults + 1 /\ UNCHANGED <<crashes, deletes>>

\* What the handler's own context still reaches: putting the previous image
\* back runs on a context that cannot be cancelled, reporting does not.
Interrupted(o) == o \in ctxDone /\ (o \notin undoing \/ pc[o] \in {"fail", "tail"})

\* A store or Docker call of the handler fails.
Broken(o) == (Interrupted(o) /\ UNCHANGED bounds) \/ Fault

Goto(o, l) == pc' = [pc EXCEPT ![o] = l]
Exists(c)  == c # 0 /\ docker.id = c
Serves(c)  == Exists(c) /\ docker.running

\* The container after c is stopped, or stopped and removed.
Stopped(c) == IF Exists(c) THEN [docker EXCEPT !.running = FALSE] ELSE docker
Removed(c) == IF Exists(c) THEN NoContainer ELSE docker

\* docker.RunManagedContainer on a free name: creates the container, and the
\* volume when it is not there, and starts it.
RunContainer(image, running) ==
  /\ docker.id = 0
  /\ lastId' = lastId + 1
  /\ docker' = [id |-> lastId', image |-> image, running |-> running]
  /\ volume' = IF volume = "absent" THEN "empty" ELSE volume

\* The call fails, yet Docker may have made the container, and started it: the
\* cleanup uses the same context.
RunBreaksOff(image) ==
  \/ UNCHANGED dockerVars
  \/ \E running \in BOOLEAN : RunContainer(image, running)

\* A cleanup after a failure ignores its own error.
Cleaned(cleaned) == IF faults < MaxFaults THEN {docker, cleaned} ELSE {cleaned}

-----------------------------------------------------------------------------
(* UpdateDatabaseInstanceState: read, change, write everything back.       *)

\* Which status fail() writes: it leaves that of a failed upgrade alone.
FailedStatus(o) == IF o \in Upgrades THEN row.status ELSE "failed"

Values(r) == [container |-> r.container, desired |-> r.desired, status |-> r.status]

Changed(o) == Values(
  CASE pc[o] = "record" ->
         [row EXCEPT !.container = made[o], !.desired = "running", !.status = "starting"]
    [] pc[o] = "done" /\ KindOf[o] = "stop" ->
         [row EXCEPT !.desired = "stopped", !.status = "stopped"]
    [] pc[o] = "done" /\ o \in Starts ->
         [row EXCEPT !.desired = "running", !.status = "healthy"]
    [] pc[o] = "done" /\ o \notin Runtimes ->
         [row EXCEPT !.container = made[o], !.desired = "running", !.status = "healthy"]
    [] pc[o] = "cleared" /\ o \in Upgrades ->
         [row EXCEPT !.container = 0, !.desired = "running", !.status = "failed"]
    [] pc[o] = "cleared" /\ o \notin Upgrades -> [row EXCEPT !.container = 0]
    [] OTHER -> [row EXCEPT !.status = FailedStatus(o)])

\* What the loop found, on the row as it is now.
Found == Values([row EXCEPT !.status = loop.found,
                            !.container = IF loop.missing THEN 0 ELSE @])

Written(a) ==
  [row EXCEPT !.container = pending[a].container, !.desired = pending[a].desired,
              !.status = pending[a].status]

ReadState(a) ==
  /\ Writes(a) /\ pending[a] = None /\ life # "purged"
  /\ a \in Ops => ~Interrupted(a)
  /\ pending' = [pending EXCEPT ![a] = IF a = Loop THEN Found ELSE Changed(a)]
  /\ UNCHANGED <<rowVars, dockerVars, catalog, opVars, handlerVars, loop, request,
                 deletion, purge, bounds>>

AfterWrite(o) == CASE pc[o] = "record" -> "ready"
                   [] pc[o] = "done" -> (IF o \in Upgrades THEN "undone" ELSE "report")
                   [] OTHER -> "fail"

\* The handler returns; what it knew is gone.
End(o) ==
  /\ Goto(o, "idle")
  /\ made' = [made EXCEPT ![o] = 0]
  /\ undoing' = undoing \ {o} /\ ctxDone' = ctxDone \ {o}

\* The handler goes on after its last write to the instance, or returns.
Proceed(o) ==
  IF pc[o] = "tail" THEN End(o)
  ELSE Goto(o, AfterWrite(o)) /\ UNCHANGED <<made, undoing, ctxDone>>

WriteState(a) ==
  /\ pending[a] # None
  /\ row' = IF life = "purged" THEN row ELSE Written(a)
  /\ pending' = [pending EXCEPT ![a] = None]
  /\ \/ /\ a = Loop /\ loop' = Quiet
        /\ UNCHANGED handlerVars
     \/ /\ a \in Ops /\ ~Interrupted(a)
        /\ Proceed(a)
        /\ UNCHANGED loop
  /\ UNCHANGED <<life, dockerVars, catalog, opVars, request, deletion, purge, bounds>>

\* A handler's write fails before or after it took effect.  All but the last
\* one of a provision, a restoration, a start or a stop ignore it.
WriteFails(o) ==
  /\ pc[o] \in WritePcs
  /\ Broken(o) \/ (life = "purged" /\ pending[o] = None /\ UNCHANGED bounds)
  /\ row' \in {row} \cup (IF pending[o] # None /\ life # "purged" THEN {Written(o)} ELSE {})
  /\ pending' = [pending EXCEPT ![o] = None]
  /\ docker' \in IF pc[o] = "done" /\ o \in Provisions /\ ~Interrupted(o)
                 THEN Cleaned(Removed(made[o])) ELSE {docker}
  /\ CASE pc[o] = "done" /\ o \in Provisions ->
            Goto(o, "cleared") /\ UNCHANGED <<made, undoing, ctxDone>>
       [] pc[o] = "done" /\ o \in Runtimes ->
            Goto(o, "fail") /\ UNCHANGED <<made, undoing, ctxDone>>
       [] OTHER -> Proceed(o)
  /\ UNCHANGED <<life, lastId, volume, catalog, opVars, loop, request, deletion, purge>>

-----------------------------------------------------------------------------
(* The worker: claim, cancellation, and how a handler reports.             *)

\* What Ready lets through: an instance on its way out makes its work obsolete.
Claimable(o) == status[o] = "queued" /\ Running = {} /\ row.desired # "deleted"

Claim(o) ==
  /\ pc[o] = "idle" /\ Claimable(o)
  /\ status' = [status EXCEPT ![o] = "running"]
  /\ Goto(o, "load")
  /\ UNCHANGED <<rowVars, dockerVars, catalog, cancels, undone, made, undoing, ctxDone,
                 pending, loop, request, deletion, purge, bounds>>

\* Mutant of Obsolete: such work stays queued.
ObsoleteNever(o) == FALSE

Obsolete(o) ==
  /\ pc[o] = "idle" /\ status[o] = "queued" /\ Running = {} /\ row.desired = "deleted"
  /\ status' = [status EXCEPT ![o] = "cancelled"]
  /\ UNCHANGED <<rowVars, dockerVars, catalog, cancels, undone, handlerVars, pending,
                 loop, request, deletion, purge, bounds>>

\* The renewal loop sees cancel_requested_at and cancels the context.
ObserveCancel(o) ==
  /\ status[o] = "running" /\ pc[o] # "idle" /\ o \in cancels \ ctxDone
  /\ ctxDone' = ctxDone \cup {o}
  /\ UNCHANGED <<rowVars, dockerVars, catalog, opVars, pc, made, undoing, pending,
                 loop, request, deletion, purge, bounds>>

\* UpdateDatabaseOperation reports the outcome, or cannot: then the runtime
\* records a cancellation, or a failure.
Report(o) ==
  /\ pc[o] \in {"report", "fail"}
  /\ \/ /\ ~Interrupted(o)
        /\ status' = [status EXCEPT ![o] = IF pc[o] = "report" THEN "success" ELSE "failed"]
        /\ IF pc[o] = "report" THEN End(o)
           ELSE Goto(o, "tail") /\ UNCHANGED <<made, undoing, ctxDone>>
        /\ UNCHANGED bounds
     \/ /\ Interrupted(o) /\ UNCHANGED bounds
        /\ status' = [status EXCEPT ![o] = "cancelled"]
        /\ End(o)
     \/ /\ Fault /\ pc[o] = "report"
        /\ status' = [status EXCEPT ![o] = "failed"]
        /\ End(o)
  /\ UNCHANGED <<rowVars, dockerVars, catalog, cancels, undone, pending, loop, request,
                 deletion, purge>>

-----------------------------------------------------------------------------
(* The handlers' steps.  Each goes on to another step or fails.            *)

FirstStep(o) ==
  CASE o \in Provisions -> (IF row.image = catalog THEN "volume" ELSE "fail")
    [] KindOf[o] = "stop" -> (IF Exists(row.container) THEN "stop" ELSE "fail")
    [] o \in Starts -> (IF Exists(row.container) THEN "start" ELSE "fail")
    [] OTHER -> (IF o \in undone THEN "fail"
                 ELSE IF row.image = "new" /\ row.status = "healthy" THEN "report"
                 ELSE IF row.image = "old" /\ catalog = "new" THEN "remove" ELSE "fail")

\* The handler reads the row and picks its way.
Load(o) ==
  /\ pc[o] = "load" /\ ~Interrupted(o) /\ life # "purged"
  /\ made' = [made EXCEPT ![o] = row.container]
  /\ Goto(o, FirstStep(o))
  /\ UNCHANGED <<rowVars, dockerVars, catalog, opVars, undoing, ctxDone, pending, loop,
                 request, deletion, purge, bounds>>

\* EnsureManagedVolume makes the volume or finds it.
EnsureVolume(o) ==
  /\ pc[o] = "volume" /\ ~Interrupted(o)
  /\ volume' = IF volume = "absent" THEN "empty" ELSE volume
  /\ Goto(o, "run")
  /\ UNCHANGED <<rowVars, docker, lastId, catalog, opVars, made, undoing, ctxDone, pending,
                 loop, request, deletion, purge, bounds>>

\* A provision reuses the recorded container, or the one of the instance's
\* name, unless its image has drifted; else it runs a new one.
Run(o) ==
  /\ pc[o] = "run" /\ ~Interrupted(o)
  /\ \/ /\ made[o] # 0 \/ docker.id # 0
        /\ IF docker.id # 0 /\ docker.image = row.image /\ (made[o] # 0 => Exists(made[o]))
           THEN /\ docker' = [docker EXCEPT !.running = TRUE]
                /\ made' = [made EXCEPT ![o] = docker.id]
                /\ Goto(o, "record")
           ELSE Goto(o, "fail") /\ UNCHANGED <<docker, made>>
        /\ UNCHANGED <<lastId, volume>>
     \/ /\ made[o] = 0
        /\ RunContainer(row.image, TRUE)
        /\ made' = [made EXCEPT ![o] = lastId']
        /\ Goto(o, "record")
  /\ UNCHANGED <<rowVars, catalog, opVars, undoing, ctxDone, pending, loop, request,
                 deletion, purge, bounds>>

\* stop, start and restart act on the container the row named when it was read.
StopOrStart(o) ==
  /\ pc[o] \in {"stop", "start"} /\ ~Interrupted(o)
  /\ IF Exists(made[o])
     THEN /\ docker' = [docker EXCEPT !.running = (pc[o] = "start")]
          /\ Goto(o, IF pc[o] = "start" THEN "ready" ELSE "done")
     ELSE Goto(o, "fail") /\ UNCHANGED docker
  /\ UNCHANGED <<rowVars, lastId, volume, catalog, opVars, made, undoing, ctxDone, pending,
                 loop, request, deletion, purge, bounds>>

\* The engine answers; what it serves is in the volume from now on.
Ready(o) ==
  /\ pc[o] = "ready" /\ ~Interrupted(o)
  /\ Serves(made[o])
  /\ volume' = "data"
  /\ Goto(o, IF o \in Upgrades \ undoing THEN "commit" ELSE "done")
  /\ UNCHANGED <<rowVars, docker, lastId, catalog, opVars, made, undoing, ctxDone, pending,
                 loop, request, deletion, purge, bounds>>

\* An upgrade removes the old container (one that is gone is removed).
RemoveOld(o) ==
  /\ pc[o] = "remove" /\ ~Interrupted(o)
  /\ docker' = Removed(made[o])
  /\ made' = [made EXCEPT ![o] = 0]
  /\ Goto(o, "create")
  /\ UNCHANGED <<rowVars, lastId, volume, catalog, opVars, undoing, ctxDone, pending, loop,
                 request, deletion, purge, bounds>>

\* createContainer of an upgrade, for the target or for the previous image.
Image(o) == IF o \in undoing THEN "old" ELSE "new"

Create(o) ==
  /\ pc[o] = "create" /\ ~Interrupted(o)
  /\ RunContainer(Image(o), TRUE)
  /\ made' = [made EXCEPT ![o] = lastId']
  /\ Goto(o, "record")
  /\ UNCHANGED <<rowVars, catalog, opVars, undoing, ctxDone, pending, loop, request,
                 deletion, purge, bounds>>

\* The row CommitDatabaseInstanceUpgrade may change.
Committable == row.image = "old" /\ life = "live"

Committed(o) == [container |-> made[o], desired |-> "running", status |-> "healthy",
                 image |-> "new"]

Commit(o) ==
  /\ pc[o] = "commit" /\ ~Interrupted(o) /\ Committable
  /\ row' = Committed(o)
  /\ Goto(o, "report")
  /\ UNCHANGED <<life, dockerVars, catalog, opVars, made, undoing, ctxDone, pending, loop,
                 request, deletion, purge, bounds>>

\* The target or the previous image cannot be created, does not get ready,
\* or cannot be committed; the commit's read-back may fail after its UPDATE.
\* The container made for it goes and the previous image is put back; when
\* that fails too the row loses its container.
UpgradeStepFails(o) ==
  /\ o \in Upgrades
  /\ \/ pc[o] = "create" /\ (Broken(o) \/ (docker.id # 0 /\ UNCHANGED bounds))
     \/ pc[o] = "ready" /\ (Broken(o) \/ (~Serves(made[o]) /\ UNCHANGED bounds))
     \/ pc[o] = "commit" /\ (Broken(o) \/ (~Committable /\ UNCHANGED bounds))
  /\ row' \in {row} \cup (IF pc[o] = "commit" /\ Committable THEN {Committed(o)} ELSE {})
  /\ IF pc[o] = "create" THEN RunBreaksOff(Image(o))
     ELSE docker' \in Cleaned(Removed(made[o])) /\ UNCHANGED <<lastId, volume>>
  /\ made' = [made EXCEPT ![o] = 0]
  /\ undoing' = undoing \cup {o}
  /\ Goto(o, IF o \in undoing THEN "cleared" ELSE "create")
  /\ UNCHANGED <<life, catalog, opVars, ctxDone, pending, loop, request, deletion, purge>>

\* The upgrade job is rolled_back, then the operation fails.
MarkRolledBack(o) ==
  /\ pc[o] = "undone"
  /\ undone' = undone \cup {o}
  /\ Goto(o, "fail")
  /\ UNCHANGED <<rowVars, dockerVars, catalog, status, cancels, made, undoing, ctxDone,
                 pending, loop, request, deletion, purge, bounds>>

\* What a call that fails may have done all the same; a provision that does
\* not get ready stops its container.
BreaksOff(o) ==
  \/ UNCHANGED dockerVars
  \/ /\ pc[o] = "volume" /\ volume = "absent" /\ volume' = "empty"
     /\ UNCHANGED <<docker, lastId>>
  \/ pc[o] = "run" /\ made[o] = 0 /\ RunContainer(row.image, FALSE)
  \/ pc[o] = "run" /\ made[o] = 0 /\ RunContainer(row.image, TRUE)
  \/ /\ pc[o] = "start" /\ Exists(made[o]) /\ docker' = [docker EXCEPT !.running = TRUE]
     /\ UNCHANGED <<lastId, volume>>
  \/ /\ pc[o] \in {"stop", "remove", "ready"} /\ pc[o] = "ready" => o \in Provisions
     /\ docker' = Stopped(made[o])
     /\ UNCHANGED <<lastId, volume>>
  \/ /\ pc[o] = "remove" /\ docker' = Removed(made[o])
     /\ UNCHANGED <<lastId, volume>>

\* Any other step fails.
StepFails(o) ==
  /\ \/ pc[o] \in {"load", "volume", "run", "stop", "start", "remove"} /\ Broken(o)
     \/ pc[o] = "load" /\ life = "purged" /\ UNCHANGED bounds
     \/ /\ pc[o] = "ready" /\ o \notin Upgrades
        /\ Broken(o) \/ (~Serves(made[o]) /\ UNCHANGED bounds)
  /\ BreaksOff(o)
  /\ Goto(o, "fail")
  /\ UNCHANGED <<rowVars, catalog, opVars, made, undoing, ctxDone, pending, loop, request,
                 deletion, purge>>

HandlerStep(o) ==
  \/ Claim(o) \/ Obsolete(o) \/ ObserveCancel(o) \/ Report(o)
  \/ Load(o) \/ EnsureVolume(o) \/ Run(o) \/ StopOrStart(o) \/ Ready(o)
  \/ RemoveOld(o) \/ Create(o) \/ Commit(o) \/ MarkRolledBack(o)
  \/ UpgradeStepFails(o) \/ StepFails(o)
  \/ ReadState(o) \/ WriteState(o) \/ WriteFails(o)

-----------------------------------------------------------------------------
(* The reconciliation loop: list, inspect, check the engine, write.        *)

\* Mutant of Listed: an instance that is to be stopped is not looked at.
ListedIfRunning == life = "live" /\ row.desired = "running" /\ row.container # 0

\* The rows a pass looks at.
Listed == life = "live" /\ row.desired # "deleted" /\ row.container # 0

ListInstances ==
  /\ loop.pc = "idle" /\ Listed
  /\ loop' = [Quiet EXCEPT !.pc = "inspect", !.container = row.container,
                           !.desired = row.desired, !.image = row.image]
  /\ UNCHANGED <<rowVars, dockerVars, catalog, opVars, handlerVars, pending, request,
                 deletion, purge, bounds>>

\* What Docker says of the container that was listed.
Verdict ==
  IF volume = "absent" \/ ~Exists(loop.container) \/ docker.image # loop.image THEN "failed"
  ELSE IF loop.desired = "stopped" THEN (IF docker.running THEN "unhealthy" ELSE "stopped")
  ELSE (IF docker.running THEN "healthy" ELSE "unhealthy")

\* A call to Docker may also fail, which tells nothing of the container.
Inspect ==
  /\ loop.pc = "inspect"
  /\ \/ /\ loop' = [loop EXCEPT !.found = Verdict,
                                !.missing = (volume # "absent" /\ ~Exists(loop.container)),
                                !.pc = IF Verdict = "healthy" THEN "health" ELSE "write"]
        /\ UNCHANGED bounds
     \/ /\ Fault
        /\ loop' = [loop EXCEPT !.found = "failed", !.pc = "write"]
  /\ UNCHANGED <<rowVars, dockerVars, catalog, opVars, handlerVars, pending, request,
                 deletion, purge>>

\* The authenticated health check, seconds after the inspection.
CheckHealth ==
  /\ loop.pc = "health"
  /\ \/ /\ loop' = [loop EXCEPT !.pc = "write",
                      !.found = IF Serves(loop.container) THEN "healthy" ELSE "unhealthy"]
        /\ UNCHANGED bounds
     \/ /\ Fault
        /\ loop' = [loop EXCEPT !.pc = "write", !.found = "unhealthy"]
  /\ UNCHANGED <<rowVars, dockerVars, catalog, opVars, handlerVars, pending, request,
                 deletion, purge>>

\* The write fails, or its row is gone: the loop goes on.
LoopWriteFails ==
  /\ loop.pc = "write"
  /\ Fault \/ (life = "purged" /\ pending[Loop] = None /\ UNCHANGED bounds)
  /\ loop' = Quiet
  /\ pending' = [pending EXCEPT ![Loop] = None]
  /\ UNCHANGED <<rowVars, dockerVars, catalog, opVars, handlerVars, request, deletion, purge>>

LoopStep == \/ ListInstances \/ Inspect \/ CheckHealth
            \/ ReadState(Loop) \/ WriteState(Loop) \/ LoopWriteFails

-----------------------------------------------------------------------------
(* The operator's requests: each reads the row, then writes.               *)

\* Mutant of Requestable: a restoration after the deadline.
RequestableLate(o) ==
  CASE KindOf[o] = "provision" -> FALSE
    [] KindOf[o] = "restore_deleted" -> life \in {"retained", "due"}
    [] o \in Runtimes -> life = "live" /\ row.desired # "deleted" /\ row.container # 0
    [] OTHER -> /\ life = "live" /\ row.desired = "running" /\ row.status = "healthy"
                /\ row.container # 0 /\ catalog = "new" /\ row.image = "old"

\* QueueDatabaseInstanceOperation, QueueDatabaseUpgrade and
\* RestoreDeletedDatabaseService, by what they read.
Requestable(o) ==
  CASE KindOf[o] = "provision" -> FALSE
    [] KindOf[o] = "restore_deleted" -> life = "retained"
    [] o \in Runtimes -> life = "live" /\ row.desired # "deleted" /\ row.container # 0
    [] OTHER -> /\ life = "live" /\ row.desired = "running" /\ row.status = "healthy"
                /\ row.container # 0 /\ catalog = "new" /\ row.image = "old"

ReadRequest(o) ==
  /\ request = None /\ status[o] = "absent" /\ Requestable(o)
  /\ request' = o
  /\ UNCHANGED <<rowVars, dockerVars, catalog, opVars, handlerVars, pending, loop, deletion,
                 purge, bounds>>

\* The transaction: its UPDATE has no guard; an insert for a purged row fails.
CommitRequest(o) ==
  /\ request = o
  /\ request' = None
  /\ IF life = "purged" THEN UNCHANGED <<rowVars, status>>
     ELSE /\ status' = [status EXCEPT ![o] = "queued"]
          /\ row' = CASE KindOf[o] = "restore_deleted" ->
                           [row EXCEPT !.desired = "running", !.status = "provisioning"]
                      [] KindOf[o] = "stop" ->
                           [row EXCEPT !.desired = "stopped", !.status = "stopping"]
                      [] KindOf[o] = "upgrade" -> row
                      [] OTHER -> [row EXCEPT !.desired = "running", !.status = "starting"]
          /\ life' = IF KindOf[o] = "restore_deleted" THEN "live" ELSE life
  /\ UNCHANGED <<dockerVars, catalog, cancels, undone, handlerVars, pending, loop, deletion,
                 purge, bounds>>

-----------------------------------------------------------------------------
(* Deletion, retention and purge.                                          *)

\* BeginDatabaseServiceDeletion and EnsureDatabaseServiceDeletionReady refuse
\* while an operation runs.
Idle == Running = {}

\* BeginDatabaseServiceDeletion: asks what runs to stop and refuses, or
\* cancels what is queued and marks the row.
BeginDeletion ==
  /\ deletion.pc = "idle" /\ deletes < MaxDeletes /\ life = "live"
  /\ deletes' = deletes + 1
  /\ IF Idle
     THEN /\ status' = [o \in Ops |-> IF status[o] = "queued" THEN "cancelled" ELSE status[o]]
          /\ row' = [row EXCEPT !.desired = "deleted", !.status = "stopping"]
          /\ deletion' = [pc |-> "remove", container |-> row.container]
          /\ UNCHANGED cancels
     ELSE /\ cancels' = cancels \cup Running
          /\ UNCHANGED <<row, status, deletion>>
  /\ UNCHANGED <<life, dockerVars, catalog, undone, handlerVars, pending, loop, request,
                 purge, faults, crashes>>

\* The recorded container is stopped and removed; one that is gone is fine.
RemoveContainer ==
  /\ deletion.pc = "remove"
  /\ \/ /\ docker' = Removed(deletion.container)
        /\ deletion' = [deletion EXCEPT !.pc = "finalize"]
        /\ UNCHANGED bounds
     \/ /\ Fault /\ Exists(deletion.container)
        /\ deletion' = [pc |-> "idle", container |-> 0]
        /\ docker' \in {docker, Stopped(deletion.container), Removed(deletion.container)}
  /\ UNCHANGED <<rowVars, lastId, volume, catalog, opVars, handlerVars, pending, loop,
                 request, purge>>

\* What FinalizeDatabaseServiceDeletion requires.
Finalizable == life = "live" /\ row.desired = "deleted" /\ Active = {}

FinalizeDeletion ==
  /\ deletion.pc = "finalize"
  /\ deletion' = [pc |-> "idle", container |-> 0]
  /\ IF Finalizable
     THEN /\ row' = [row EXCEPT !.container = 0, !.desired = "deleted", !.status = "deleted"]
          /\ life' = "retained"
     ELSE UNCHANGED rowVars
  /\ UNCHANGED <<dockerVars, catalog, opVars, handlerVars, pending, loop, request, purge, bounds>>

\* purge_after passes.  It is days after the deletion: every handler, pass and
\* request that was under way then has come to its end.
DeadlinePasses ==
  /\ life = "retained"
  /\ \A o \in Ops : pc[o] = "idle"
  /\ \A a \in Actors : pending[a] = None
  /\ request = None \/ (request \in Provisions /\ ~PromptRestore)
  /\ life' = "due"
  /\ UNCHANGED <<row, dockerVars, catalog, opVars, handlerVars, pending, loop, request,
                 deletion, purge, bounds>>

\* What the purge loop selects, and checks again before it starts.
Due == life = "due"

SelectDue ==
  /\ purge = "idle" /\ Due
  /\ purge' = "ready"
  /\ UNCHANGED <<rowVars, dockerVars, catalog, opVars, handlerVars, pending, loop, request,
                 deletion, bounds>>

\* EnsureDatabaseServicePurgeReady.
EnsurePurgeReady ==
  /\ purge = "ready"
  /\ purge' = IF Active = {} THEN "volume" ELSE "idle"
  /\ UNCHANGED <<rowVars, dockerVars, catalog, opVars, handlerVars, pending, loop, request,
                 deletion, bounds>>

\* Mutant of Removable: the error of a volume in use is ignored.
RemovableAlways == TRUE

\* Docker refuses to remove a volume that a container, running or not, uses.
Removable == docker.id = 0

PurgeVolume ==
  /\ purge = "volume"
  /\ IF Removable
     THEN /\ volume' = IF docker.id = 0 THEN "absent" ELSE volume
          /\ purge' = "records"
     ELSE purge' = "idle" /\ UNCHANGED volume
  /\ UNCHANGED <<rowVars, docker, lastId, catalog, opVars, handlerVars, pending, loop, request,
                 deletion, bounds>>

\* PurgeDatabaseServiceRecords: the service and all that refers to it.
PurgeRecords ==
  /\ purge = "records"
  /\ purge' = "idle"
  /\ life' = IF Due THEN "purged" ELSE life
  /\ status' = IF Due THEN [o \in Ops |-> "absent"] ELSE status
  /\ UNCHANGED <<row, dockerVars, catalog, cancels, undone, handlerVars, pending, loop,
                 request, deletion, bounds>>

\* A step of the purge fails; Docker may have removed the volume.
PurgeFails ==
  /\ purge # "idle" /\ Fault
  /\ purge' = "idle"
  /\ volume' \in {volume} \cup (IF purge = "volume" /\ Removable THEN {"absent"} ELSE {})
  /\ UNCHANGED <<rowVars, docker, lastId, catalog, opVars, handlerVars, pending, loop, request,
                 deletion>>

PurgeStep == SelectDue \/ EnsurePurgeReady \/ PurgeVolume \/ PurgeRecords

-----------------------------------------------------------------------------
(* The server ends and starts again, possibly as a newer build.  What ran  *)
(* is queued again, or has failed when its attempts are spent.             *)

Restart ==
  /\ crashes < MaxCrashes
  /\ crashes' = crashes + 1
  /\ catalog' \in {catalog, "new"}
  /\ \E spent \in SUBSET Running :
       status' = [o \in Ops |-> IF o \in spent THEN "failed"
                               ELSE IF o \in Running THEN "queued" ELSE status[o]]
  /\ pc' = [o \in Ops |-> "idle"] /\ made' = [o \in Ops |-> 0]
  /\ undoing' = {} /\ ctxDone' = {} /\ pending' = [a \in Actors |-> None]
  /\ loop' = Quiet /\ request' = None
  /\ deletion' = [pc |-> "idle", container |-> 0] /\ purge' = "idle"
  /\ UNCHANGED <<rowVars, dockerVars, cancels, undone, faults, deletes>>

\* Somebody removes the container by hand.
Vanish ==
  /\ docker.id # 0 /\ Fault
  /\ docker' = NoContainer
  /\ UNCHANGED <<rowVars, lastId, volume, catalog, opVars, handlerVars, pending, loop,
                 request, deletion, purge>>

DeletionStep == RemoveContainer \/ FinalizeDeletion
Operator     == \/ \E o \in Ops : ReadRequest(o) \/ CommitRequest(o)
                \/ BeginDeletion \/ DeletionStep

Next ==
  \/ \E o \in Ops : HandlerStep(o)
  \/ LoopStep \/ Operator
  \/ DeadlinePasses \/ PurgeStep \/ PurgeFails
  \/ Restart \/ Vanish

Spec == Init /\ [][Next]_vars

\* The goroutines of the server run; a request, once it has read, goes on.
Fairness ==
  /\ \A o \in Ops : WF_vars(HandlerStep(o)) /\ WF_vars(CommitRequest(o))
  /\ WF_vars(LoopStep) /\ WF_vars(PurgeStep) /\ WF_vars(DeletionStep)

FairSpec == Spec /\ Fairness

-----------------------------------------------------------------------------
\* The volume is removed only after the retention deadline of a deleted
\* instance: no order of a deletion, a restoration, the operations, a crash
\* and the purge's four steps takes it from one that is live or may still be
\* restored (docs/database-services-implementation-plan.md:540).
VolumeOutlivesRetention ==
  [][volume # "absent" /\ volume' = "absent" => life = "due"]_vars

\* When the records of a service are gone, nothing of it is left in Docker:
\* no container that leaked on the way, and no volume (database_services.go:
\* PurgeDatabaseServiceRecords, whose caller removes the volumes first).
PurgedLeavesNothing == life = "purged" => docker.id = 0 /\ volume = "absent"

\* Once requests and failures stop, the status of an instance that has a
\* container says what Docker does, although every writer overwrites what
\* others wrote between its read and its write (database_reconcile.go:17-18).
Tracked == /\ life = "live" /\ row.desired # "deleted" /\ row.container # 0
           /\ Active = {} /\ \A o \in Ops : pc[o] = "idle"

StatusAgrees ==
  row.status = IF docker.image # row.image THEN "failed"
               ELSE IF row.desired = "stopped"
                    THEN (IF docker.running THEN "unhealthy" ELSE "stopped")
                    ELSE (IF docker.running THEN "healthy" ELSE "unhealthy")

StatusConverges == <>[](Tracked => Exists(row.container) /\ StatusAgrees)

\* Once the deadline of a deleted instance without a container has passed it
\* is purged, whatever was still queued for it: work that can no longer run is
\* cancelled and does not keep the purge waiting (database_operations_handler.go:129-131).
DueIsPurged ==
  (life = "due" /\ docker.id = 0 /\ row.desired = "deleted") ~> life = "purged"
=============================================================================
