----------------------- MODULE DatabaseInstanceProofs -----------------------
(***************************************************************************)
(* Theorems about DatabaseInstance, for every set of operations of every   *)
(* kind and every bound.                                                   *)
(*                                                                         *)
(* That a purge takes only what nobody needs is not inductive: between its *)
(* check and its last step a handler must not be at work (Handling), and   *)
(* none may begin (Requesting: a request that has read the row is done     *)
(* before the deadline passes).                                            *)
(***************************************************************************)
EXTENDS DatabaseInstance, TLAPS

\* What a handler or the loop is about to write is a state of the row.
LEMMA ChangedType == ASSUME TypeOK, NEW o \in Ops PROVE Changed(o) \in State
<1> USE InstanceAssumption DEF Changed, Values, State
<1>1. /\ row.container \in Nat /\ row.desired \in {"running", "stopped", "deleted"}
      /\ row.status \in {"provisioning", "starting", "healthy", "unhealthy",
                         "stopping", "stopped", "failed", "deleted"}
      /\ made[o] \in Nat
  BY DEF TypeOK
<1> QED
  BY <1>1 DEF TypeOK, FailedStatus

LEMMA FoundType == ASSUME TypeOK PROVE Found \in State
BY DEF Found, Values, State, TypeOK

LEMMA WrittenType ==
  ASSUME TypeOK, NEW a \in Actors, pending[a] # None
  PROVE  Written(a) \in [container : Nat, desired : {"running", "stopped", "deleted"},
              status : {"provisioning", "starting", "healthy", "unhealthy",
                        "stopping", "stopped", "failed", "deleted"}, image : Images]
<1>1. pending[a] \in State
  BY DEF TypeOK
<1> QED
  BY <1>1 DEF TypeOK, Written, State

\* What Docker holds stays typed, whichever call was made or broke off.
DockerType ==
  /\ docker \in [id : Nat, image : Images, running : BOOLEAN]
  /\ docker.id \in 0..lastId /\ lastId \in Nat
  /\ volume \in {"absent", "empty", "data"}

LEMMA DockerEffects ==
  ASSUME TypeOK, NEW c \in Nat
  PROVE  /\ Removed(c) \in [id : Nat, image : Images, running : BOOLEAN]
         /\ Removed(c).id \in 0..lastId
         /\ Stopped(c) \in [id : Nat, image : Images, running : BOOLEAN]
         /\ Stopped(c).id \in 0..lastId
<1>1. /\ docker \in [id : Nat, image : Images, running : BOOLEAN]
      /\ docker.id \in 0..lastId /\ lastId \in Nat
  BY DEF TypeOK
<1>2. NoContainer \in [id : Nat, image : Images, running : BOOLEAN] /\ NoContainer.id \in 0..lastId
  BY <1>1 DEF NoContainer, Images
<1>3. /\ [docker EXCEPT !.running = FALSE] \in [id : Nat, image : Images, running : BOOLEAN]
      /\ [docker EXCEPT !.running = FALSE].id = docker.id
  BY <1>1
<1> QED
  BY <1>1, <1>2, <1>3 DEF Removed, Stopped

LEMMA RunContainerType ==
  ASSUME TypeOK, NEW image \in Images, NEW running \in BOOLEAN, RunContainer(image, running)
  PROVE  DockerType' /\ lastId' \in Nat /\ docker.id = 0
BY DEF TypeOK, RunContainer, DockerType

LEMMA RunBreaksOffType ==
  ASSUME TypeOK, NEW image \in Images, RunBreaksOff(image)
  PROVE  DockerType'
BY RunContainerType DEF RunBreaksOff, DockerType, TypeOK, dockerVars

LEMMA BreaksOffType ==
  ASSUME TypeOK, NEW o \in Ops, BreaksOff(o)
  PROVE  DockerType'
<1>1. made[o] \in Nat /\ row.image \in Images
  BY DEF TypeOK
<1>2. DockerType
  BY DEF TypeOK, DockerType
<1>3. CASE UNCHANGED dockerVars
  BY <1>2, <1>3 DEF DockerType, dockerVars
<1>4. CASE volume' = "empty" /\ UNCHANGED <<docker, lastId>>
  BY <1>2, <1>4 DEF DockerType
<1>5. CASE RunContainer(row.image, FALSE) \/ RunContainer(row.image, TRUE)
  BY <1>1, <1>5, RunContainerType
<1>6. CASE docker' = [docker EXCEPT !.running = TRUE] /\ UNCHANGED <<lastId, volume>>
  BY <1>2, <1>6 DEF DockerType
<1>7. CASE docker' = Stopped(made[o]) /\ UNCHANGED <<lastId, volume>>
  BY <1>1, <1>2, <1>7, DockerEffects DEF DockerType
<1>8. CASE docker' = Removed(made[o]) /\ UNCHANGED <<lastId, volume>>
  BY <1>1, <1>2, <1>8, DockerEffects DEF DockerType
<1> QED
  BY <1>3, <1>4, <1>5, <1>6, <1>7, <1>8 DEF BreaksOff

LEMMA FaultsType ==
  ASSUME TypeOK, NEW o \in Ops, Broken(o) \/ Fault \/ UNCHANGED bounds
  PROVE  faults' \in Nat /\ crashes' \in Nat /\ deletes' \in Nat
BY DEF TypeOK, Broken, Fault, bounds

-----------------------------------------------------------------------------
\* Initially.
LEMMA InitType == Init => TypeOK
<1> SUFFICES ASSUME Init PROVE TypeOK
  OBVIOUS
<1> USE InstanceAssumption DEF Init, HandlerPcs, WritePcs, Images, Quiet, NoContainer
<1>1. \A a \in Actors : pending[a] = None
  OBVIOUS
<1>2. /\ pending \in [Actors -> State \cup {None}]
      /\ \A a \in Actors : pending[a] # None => Writes(a)
      /\ \A o \in Ops : pc[o] = "idle" => made[o] = 0 /\ o \notin undoing \cup ctxDone
  BY <1>1
<1>3. CASE Prepared
  BY <1>2, <1>3 DEF TypeOK, Prepared
<1>4. CASE Provisioned
  BY <1>2, <1>4 DEF TypeOK, Provisioned
<1> QED
  BY <1>3, <1>4

-----------------------------------------------------------------------------
(* Each action keeps the types.                                            *)

LEMMA ClaimType ==
  ASSUME TypeOK, NEW o \in Ops, Claim(o)
  PROVE  TypeOK'
BY InstanceAssumption DEF Claim, TypeOK, rowVars, dockerVars, opVars, handlerVars, bounds, Goto, HandlerPcs, WritePcs, Writes, Actors

LEMMA ObsoleteType ==
  ASSUME TypeOK, NEW o \in Ops, Obsolete(o)
  PROVE  TypeOK'
BY InstanceAssumption DEF Obsolete, TypeOK, rowVars, dockerVars, opVars, handlerVars, bounds, Goto, HandlerPcs, WritePcs, Writes, Actors

LEMMA ObserveCancelType ==
  ASSUME TypeOK, NEW o \in Ops, ObserveCancel(o)
  PROVE  TypeOK'
BY InstanceAssumption DEF ObserveCancel, TypeOK, rowVars, dockerVars, opVars, handlerVars, bounds, Goto, HandlerPcs, WritePcs, Writes, Actors

LEMMA ReportType ==
  ASSUME TypeOK, NEW o \in Ops, Report(o)
  PROVE  TypeOK'
BY FaultsType, InstanceAssumption DEF Report, End, TypeOK, rowVars, dockerVars, opVars, handlerVars, bounds, Goto, HandlerPcs, WritePcs, Writes, Actors

LEMMA LoadType ==
  ASSUME TypeOK, NEW o \in Ops, Load(o)
  PROVE  TypeOK'
BY InstanceAssumption DEF Load, FirstStep, TypeOK, rowVars, dockerVars, opVars, handlerVars, bounds, Goto, HandlerPcs, WritePcs, Writes, Actors

LEMMA EnsureVolumeType ==
  ASSUME TypeOK, NEW o \in Ops, EnsureVolume(o)
  PROVE  TypeOK'
BY InstanceAssumption DEF EnsureVolume, TypeOK, rowVars, dockerVars, opVars, handlerVars, bounds, Goto, HandlerPcs, WritePcs, Writes, Actors

LEMMA StopOrStartType ==
  ASSUME TypeOK, NEW o \in Ops, StopOrStart(o)
  PROVE  TypeOK'
<1>1. DockerType'
  BY DEF StopOrStart, DockerType, TypeOK
<1> QED
  BY <1>1, InstanceAssumption DEF DockerType, StopOrStart, TypeOK, rowVars, dockerVars, opVars, handlerVars, bounds, Goto, HandlerPcs, WritePcs, Writes, Actors

LEMMA ReadyType ==
  ASSUME TypeOK, NEW o \in Ops, Ready(o)
  PROVE  TypeOK'
BY InstanceAssumption DEF Ready, TypeOK, rowVars, dockerVars, opVars, handlerVars, bounds, Goto, HandlerPcs, WritePcs, Writes, Actors

LEMMA RemoveOldType ==
  ASSUME TypeOK, NEW o \in Ops, RemoveOld(o)
  PROVE  TypeOK'
<1>1. made[o] \in Nat
  BY DEF TypeOK
<1>2. DockerType'
  BY <1>1, DockerEffects DEF RemoveOld, DockerType, TypeOK
<1> QED
  BY <1>2, InstanceAssumption DEF DockerType, RemoveOld, TypeOK, rowVars, dockerVars, opVars, handlerVars, bounds, Goto, HandlerPcs, WritePcs, Writes, Actors

LEMMA CommitType ==
  ASSUME TypeOK, NEW o \in Ops, Commit(o)
  PROVE  TypeOK'
BY InstanceAssumption DEF Commit, Committed, Images, TypeOK, rowVars, dockerVars, opVars, handlerVars, bounds, Goto, HandlerPcs, WritePcs, Writes, Actors

LEMMA MarkRolledBackType ==
  ASSUME TypeOK, NEW o \in Ops, MarkRolledBack(o)
  PROVE  TypeOK'
BY InstanceAssumption DEF MarkRolledBack, TypeOK, rowVars, dockerVars, opVars, handlerVars, bounds, Goto, HandlerPcs, WritePcs, Writes, Actors

LEMMA CreateType ==
  ASSUME TypeOK, NEW o \in Ops, Create(o)
  PROVE  TypeOK'
<1>1. Image(o) \in Images
  BY DEF Image, Images
<1>2. DockerType' /\ lastId' \in Nat
  BY <1>1, RunContainerType DEF Create
<1> QED
  BY <1>2, InstanceAssumption DEF DockerType, Create, TypeOK, rowVars, dockerVars, opVars, handlerVars, bounds, Goto, HandlerPcs, WritePcs, Writes, Actors

LEMMA RunType ==
  ASSUME TypeOK, NEW o \in Ops, Run(o)
  PROVE  TypeOK'
<1>1. row.image \in Images
  BY DEF TypeOK
<1>2. DockerType' /\ lastId' \in Nat
  <2>1. CASE RunContainer(row.image, TRUE)
    BY <1>1, <2>1, RunContainerType
  <2>2. CASE UNCHANGED <<lastId, volume>> /\ docker' \in {docker, [docker EXCEPT !.running = TRUE]}
    BY <2>2 DEF DockerType, TypeOK
  <2> QED
    BY <2>1, <2>2 DEF Run
<1>3. made' \in [Ops -> Nat] /\ pc' \in [Ops -> HandlerPcs] /\ pc'[o] \in {"fail", "record"}
  <2>1. docker.id \in Nat /\ made \in [Ops -> Nat] /\ pc \in [Ops -> HandlerPcs]
    BY DEF TypeOK
  <2>2. \/ made' = made \/ made' = [made EXCEPT ![o] = docker.id]
        \/ made' = [made EXCEPT ![o] = lastId']
    BY DEF Run
  <2>3. pc' = [pc EXCEPT ![o] = "record"] \/ pc' = [pc EXCEPT ![o] = "fail"]
    BY DEF Run, Goto
  <2> QED
    BY <1>2, <2>1, <2>2, <2>3 DEF HandlerPcs, WritePcs
<1>4. \A q \in Ops : q # o => pc'[q] = pc[q] /\ made'[q] = made[q]
  BY DEF TypeOK, Run, Goto
<1>5. pc[o] = "run" /\ UNCHANGED <<rowVars, catalog, opVars, undoing, ctxDone, pending, loop,
                                request, deletion, purge, bounds>>
  BY DEF Run
<1> QED
  BY <1>2, <1>3, <1>4, <1>5, InstanceAssumption DEF DockerType, TypeOK, rowVars, dockerVars, opVars, handlerVars, bounds, Goto, HandlerPcs, WritePcs, Writes, Actors

LEMMA UpgradeStepFailsType ==
  ASSUME TypeOK, NEW o \in Ops, UpgradeStepFails(o)
  PROVE  TypeOK'
<1>1. Image(o) \in Images /\ made[o] \in Nat /\ o \in Upgrades
  BY DEF Image, Images, TypeOK, UpgradeStepFails
<1>2. DockerType'
  <2>1. CASE RunBreaksOff(Image(o))
    BY <1>1, <2>1, RunBreaksOffType
  <2>2. CASE docker' \in Cleaned(Removed(made[o])) /\ UNCHANGED <<lastId, volume>>
    BY <1>1, <2>2, DockerEffects DEF DockerType, TypeOK, Cleaned
  <2> QED
    BY <2>1, <2>2 DEF UpgradeStepFails
<1>3. faults' \in Nat /\ crashes' \in Nat /\ deletes' \in Nat
  BY FaultsType DEF UpgradeStepFails
<1>4. row' \in {row, Committed(o)}
  BY DEF UpgradeStepFails
<1>5. Committed(o) \in [container : Nat, desired : {"running", "stopped", "deleted"},
              status : {"provisioning", "starting", "healthy", "unhealthy",
                        "stopping", "stopped", "failed", "deleted"}, image : Images]
  BY <1>1 DEF Committed, Images
<1>6. /\ pc[o] \in {"create", "ready", "commit"}
      /\ pc' = [pc EXCEPT ![o] = IF o \in undoing THEN "cleared" ELSE "create"]
      /\ made' = [made EXCEPT ![o] = 0] /\ undoing' = undoing \cup {o}
      /\ UNCHANGED <<life, catalog, opVars, ctxDone, pending, loop, request, deletion, purge>>
  BY DEF UpgradeStepFails, Goto
<1> QED
  BY <1>1, <1>2, <1>3, <1>4, <1>5, <1>6, InstanceAssumption DEF DockerType, TypeOK, rowVars, dockerVars, opVars, handlerVars, bounds, Goto, HandlerPcs, WritePcs, Writes, Actors

LEMMA StepFailsType ==
  ASSUME TypeOK, NEW o \in Ops, StepFails(o)
  PROVE  TypeOK'
<1>1. DockerType'
  BY BreaksOffType DEF StepFails
<1>2. faults' \in Nat /\ crashes' \in Nat /\ deletes' \in Nat
  BY FaultsType DEF StepFails
<1>3. /\ pc[o] \in {"load", "volume", "run", "stop", "start", "remove", "ready"}
      /\ pc' = [pc EXCEPT ![o] = "fail"]
      /\ UNCHANGED <<rowVars, catalog, opVars, made, undoing, ctxDone, pending, loop,
                     request, deletion, purge>>
  BY DEF StepFails, Goto
<1> QED
  BY <1>1, <1>2, <1>3, InstanceAssumption DEF DockerType, TypeOK, rowVars, dockerVars, opVars, handlerVars, bounds, Goto, HandlerPcs, WritePcs, Writes, Actors

LEMMA ReadStateType ==
  ASSUME TypeOK, NEW a \in Actors, ReadState(a)
  PROVE  TypeOK'
<1>1. (IF a = Loop THEN Found ELSE Changed(a)) \in State
  BY FoundType, ChangedType DEF Actors
<1>2. /\ pending' \in [Actors -> State \cup {None}] /\ Writes(a)
      /\ \A b \in Actors : b # a => pending'[b] = pending[b]
  BY <1>1 DEF ReadState, TypeOK
<1> QED
  BY <1>2, InstanceAssumption DEF ReadState, TypeOK, rowVars, dockerVars, opVars, handlerVars, bounds, Goto, HandlerPcs, WritePcs, Writes, Actors

\* After its write a handler goes on, or returns and knows nothing.
LEMMA ProceedType ==
  ASSUME TypeOK, NEW o \in Ops, Proceed(o)
  PROVE  /\ pc' \in [Ops -> HandlerPcs] /\ made' \in [Ops -> Nat]
         /\ undoing' \subseteq Upgrades /\ ctxDone' \subseteq Ops
         /\ \A q \in Ops : q # o => pc'[q] = pc[q] /\ made'[q] = made[q]
                                 /\ (q \in undoing' <=> q \in undoing)
                                 /\ (q \in ctxDone' <=> q \in ctxDone)
         /\ pc'[o] = "idle" => made'[o] = 0 /\ o \notin undoing' \cup ctxDone'
<1>1. CASE End(o)
  BY <1>1 DEF End, Goto, TypeOK, HandlerPcs
<1>2. CASE Goto(o, AfterWrite(o)) /\ UNCHANGED <<made, undoing, ctxDone>>
  <2>1. AfterWrite(o) \in {"ready", "undone", "report", "fail"}
    BY DEF AfterWrite
  <2> QED
    BY <1>2, <2>1 DEF Goto, TypeOK, HandlerPcs
<1> QED
  BY <1>1, <1>2 DEF Proceed

LEMMA WriteStateType ==
  ASSUME TypeOK, NEW a \in Actors, WriteState(a)
  PROVE  TypeOK'
<1>1. row' = row \/ row' = Written(a)
  BY DEF WriteState
<1>2. pending' = [pending EXCEPT ![a] = None] /\ pending[a] # None
  BY DEF WriteState
<1>3. UNCHANGED <<life, dockerVars, catalog, opVars, request, deletion, purge, bounds>>
  BY DEF WriteState
<1>4. CASE a = Loop /\ loop' = Quiet /\ UNCHANGED handlerVars
  BY <1>1, <1>2, <1>3, <1>4, WrittenType, InstanceAssumption DEF Quiet, Images, TypeOK, rowVars, dockerVars, opVars, handlerVars, bounds, Goto, HandlerPcs, WritePcs, Writes, Actors
<1>5. CASE a \in Ops /\ Proceed(a) /\ UNCHANGED loop
  BY <1>1, <1>2, <1>3, <1>5, WrittenType, ProceedType, InstanceAssumption DEF TypeOK, rowVars, dockerVars, opVars, handlerVars, bounds, Goto, HandlerPcs, WritePcs, Writes, Actors
<1> QED
  BY <1>4, <1>5 DEF WriteState

LEMMA WriteFailsType ==
  ASSUME TypeOK, NEW o \in Ops, WriteFails(o)
  PROVE  TypeOK'
<1>1. row' = row \/ (pending[o] # None /\ row' = Written(o))
  BY DEF WriteFails
<1>2. DockerType'
  <2>1. made[o] \in Nat
    BY DEF TypeOK
  <2>2. docker' \in {docker, Removed(made[o])} /\ UNCHANGED <<lastId, volume>>
    BY DEF WriteFails, Cleaned
  <2> QED
    BY <2>1, <2>2, DockerEffects, SMTT(30) DEF DockerType, TypeOK
<1>3. faults' \in Nat /\ crashes' \in Nat /\ deletes' \in Nat
  BY FaultsType DEF WriteFails
<1>4. /\ pending' = [pending EXCEPT ![o] = None] /\ o \in Actors
      /\ UNCHANGED <<life, catalog, opVars, loop, request, deletion, purge>>
  BY DEF WriteFails, Actors
<1>5. CASE Proceed(o)
  BY <1>1, <1>2, <1>3, <1>4, <1>5, WrittenType, ProceedType, InstanceAssumption DEF DockerType, TypeOK, rowVars, dockerVars, opVars, handlerVars, bounds, Goto, HandlerPcs, WritePcs, Writes, Actors
<1>6. CASE (Goto(o, "cleared") \/ Goto(o, "fail")) /\ UNCHANGED <<made, undoing, ctxDone>>
  BY <1>1, <1>2, <1>3, <1>4, <1>6, WrittenType, InstanceAssumption DEF DockerType, TypeOK, rowVars, dockerVars, opVars, handlerVars, bounds, Goto, HandlerPcs, WritePcs, Writes, Actors
<1> QED
  BY <1>5, <1>6 DEF WriteFails

LEMMA ListInstancesType ==
  ASSUME TypeOK, ListInstances
  PROVE  TypeOK'
<1>1. row.container \in Nat /\ row.desired \in {"running", "stopped", "deleted"}
      /\ row.image \in Images
  BY DEF TypeOK
<1>2. loop' \in [pc : {"idle", "inspect", "health", "write"}, container : Nat,
               desired : {"running", "stopped", "deleted"}, image : Images,
               found : {"healthy", "unhealthy", "stopped", "failed"}, missing : BOOLEAN]
  BY <1>1 DEF ListInstances, Quiet, Images
<1>3. \A a \in Actors : pending[a] # None => Writes(a)' /\ (a # Loop => Writes(a))
  BY InstanceAssumption DEF TypeOK, ListInstances, Writes, Actors, handlerVars, Loop
<1> QED
  BY <1>2, <1>3 DEF ListInstances, TypeOK, rowVars, dockerVars, opVars, handlerVars, bounds

LEMMA LoopWriteFailsType ==
  ASSUME TypeOK, LoopWriteFails
  PROVE  TypeOK'
BY InstanceAssumption DEF LoopWriteFails, Fault, Quiet, Images, TypeOK, rowVars, dockerVars, opVars, handlerVars, bounds, Goto, HandlerPcs, WritePcs, Writes, Actors

LEMMA InspectType ==
  ASSUME TypeOK, Inspect
  PROVE  TypeOK'
<1>1. Verdict \in {"healthy", "unhealthy", "stopped", "failed"}
  BY DEF Verdict
<1>2. loop' \in [pc : {"idle", "inspect", "health", "write"}, container : Nat,
               desired : {"running", "stopped", "deleted"}, image : Images,
               found : {"healthy", "unhealthy", "stopped", "failed"}, missing : BOOLEAN]
  BY <1>1, ZenonT(60) DEF Inspect, TypeOK
<1>3. \A a \in Actors : pending[a] # None => Writes(a)'
  BY InstanceAssumption DEF TypeOK, Inspect, Writes, Actors, handlerVars, Loop
<1>4. faults' \in Nat /\ crashes' \in Nat /\ deletes' \in Nat
  BY DEF Inspect, Fault, TypeOK, bounds
<1> QED
  BY <1>2, <1>3, <1>4 DEF Inspect, TypeOK, rowVars, dockerVars, opVars, handlerVars

LEMMA CheckHealthType ==
  ASSUME TypeOK, CheckHealth
  PROVE  TypeOK'
<1>1. loop' \in [pc : {"idle", "inspect", "health", "write"}, container : Nat,
               desired : {"running", "stopped", "deleted"}, image : Images,
               found : {"healthy", "unhealthy", "stopped", "failed"}, missing : BOOLEAN]
  BY ZenonT(60) DEF CheckHealth, TypeOK
<1>2. \A a \in Actors : pending[a] # None => Writes(a)'
  BY InstanceAssumption DEF TypeOK, CheckHealth, Writes, Actors, handlerVars, Loop
<1>3. faults' \in Nat /\ crashes' \in Nat /\ deletes' \in Nat
  BY DEF CheckHealth, Fault, TypeOK, bounds
<1> QED
  BY <1>1, <1>2, <1>3 DEF CheckHealth, TypeOK, rowVars, dockerVars, opVars, handlerVars

LEMMA ReadRequestType ==
  ASSUME TypeOK, NEW o \in Ops, ReadRequest(o)
  PROVE  TypeOK'
BY InstanceAssumption DEF ReadRequest, TypeOK, rowVars, dockerVars, opVars, handlerVars, bounds, Goto, HandlerPcs, WritePcs, Writes, Actors

LEMMA CommitRequestType ==
  ASSUME TypeOK, NEW o \in Ops, CommitRequest(o)
  PROVE  TypeOK'
<1>1. row' \in [container : Nat, desired : {"running", "stopped", "deleted"},
              status : {"provisioning", "starting", "healthy", "unhealthy",
                        "stopping", "stopped", "failed", "deleted"}, image : Images]
  BY ZenonT(60) DEF CommitRequest, TypeOK, rowVars
<1>2. status' \in [Ops -> {"absent", "queued", "running", "success", "failed", "cancelled"}]
      /\ life' \in {"live", "retained", "due", "purged"}
  BY DEF CommitRequest, TypeOK, rowVars
<1>3. request' = None
      /\ UNCHANGED <<dockerVars, catalog, cancels, undone, handlerVars, pending, loop, deletion,
                     purge, bounds>>
  BY DEF CommitRequest
<1> QED
  BY <1>1, <1>2, <1>3 DEF TypeOK, dockerVars, handlerVars, bounds, Writes

LEMMA BeginDeletionType ==
  ASSUME TypeOK, BeginDeletion
  PROVE  TypeOK'
<1>1. row' \in [container : Nat, desired : {"running", "stopped", "deleted"},
              status : {"provisioning", "starting", "healthy", "unhealthy",
                        "stopping", "stopped", "failed", "deleted"}, image : Images]
  BY DEF BeginDeletion, TypeOK
<1>2. status' \in [Ops -> {"absent", "queued", "running", "success", "failed", "cancelled"}]
      /\ cancels' \subseteq Ops
  BY DEF BeginDeletion, TypeOK, Running
<1>3. deletion' \in [pc : {"idle", "remove", "finalize"}, container : Nat]
  BY DEF BeginDeletion, TypeOK
<1>4. deletes' \in Nat
      /\ UNCHANGED <<life, dockerVars, catalog, undone, handlerVars, pending, loop, request,
                     purge, faults, crashes>>
  BY DEF BeginDeletion, TypeOK
<1> QED
  BY <1>1, <1>2, <1>3, <1>4 DEF TypeOK, dockerVars, handlerVars, Writes

LEMMA FinalizeDeletionType ==
  ASSUME TypeOK, FinalizeDeletion
  PROVE  TypeOK'
<1>1. \/ UNCHANGED rowVars
      \/ /\ row' = [row EXCEPT !.container = 0, !.desired = "deleted", !.status = "deleted"]
         /\ life' = "retained"
  BY DEF FinalizeDeletion
<1>2. /\ row' \in [container : Nat, desired : {"running", "stopped", "deleted"},
              status : {"provisioning", "starting", "healthy", "unhealthy",
                        "stopping", "stopped", "failed", "deleted"}, image : Images]
       /\ life' \in {"live", "retained", "due", "purged"}
  <2>1. row \in [container : Nat, desired : {"running", "stopped", "deleted"},
              status : {"provisioning", "starting", "healthy", "unhealthy",
                        "stopping", "stopped", "failed", "deleted"}, image : Images]
        /\ life \in {"live", "retained", "due", "purged"}
    BY DEF TypeOK
  <2>2. CASE UNCHANGED rowVars
    BY <2>1, <2>2 DEF rowVars
  <2>3. CASE row' = [row EXCEPT !.container = 0, !.desired = "deleted", !.status = "deleted"]
             /\ life' = "retained"
    BY <2>1, <2>3
  <2> QED
    BY <1>1, <2>2, <2>3
<1>3. deletion' \in [pc : {"idle", "remove", "finalize"}, container : Nat]
  BY DEF FinalizeDeletion
<1>4. UNCHANGED <<dockerVars, catalog, opVars, handlerVars, pending, loop, request, purge, bounds>>
  BY DEF FinalizeDeletion
<1> QED
  BY <1>2, <1>3, <1>4 DEF TypeOK, dockerVars, opVars, handlerVars, bounds, Writes

LEMMA DeadlinePassesType ==
  ASSUME TypeOK, DeadlinePasses
  PROVE  TypeOK'
BY InstanceAssumption DEF DeadlinePasses, TypeOK, rowVars, dockerVars, opVars, handlerVars, bounds, Goto, HandlerPcs, WritePcs, Writes, Actors

LEMMA SelectDueType ==
  ASSUME TypeOK, SelectDue
  PROVE  TypeOK'
BY InstanceAssumption DEF SelectDue, TypeOK, rowVars, dockerVars, opVars, handlerVars, bounds, Goto, HandlerPcs, WritePcs, Writes, Actors

LEMMA EnsurePurgeReadyType ==
  ASSUME TypeOK, EnsurePurgeReady
  PROVE  TypeOK'
BY InstanceAssumption DEF EnsurePurgeReady, TypeOK, rowVars, dockerVars, opVars, handlerVars, bounds, Goto, HandlerPcs, WritePcs, Writes, Actors

LEMMA PurgeVolumeType ==
  ASSUME TypeOK, PurgeVolume
  PROVE  TypeOK'
BY InstanceAssumption DEF PurgeVolume, TypeOK, rowVars, dockerVars, opVars, handlerVars, bounds, Goto, HandlerPcs, WritePcs, Writes, Actors

LEMMA PurgeRecordsType ==
  ASSUME TypeOK, PurgeRecords
  PROVE  TypeOK'
BY InstanceAssumption DEF PurgeRecords, TypeOK, rowVars, dockerVars, opVars, handlerVars, bounds, Goto, HandlerPcs, WritePcs, Writes, Actors

LEMMA PurgeFailsType ==
  ASSUME TypeOK, PurgeFails
  PROVE  TypeOK'
BY InstanceAssumption DEF PurgeFails, Fault, TypeOK, rowVars, dockerVars, opVars, handlerVars, bounds, Goto, HandlerPcs, WritePcs, Writes, Actors

LEMMA VanishType ==
  ASSUME TypeOK, Vanish
  PROVE  TypeOK'
BY InstanceAssumption DEF Vanish, Fault, NoContainer, Images, TypeOK, rowVars, dockerVars, opVars, handlerVars, bounds, Goto, HandlerPcs, WritePcs, Writes, Actors

LEMMA RestartType ==
  ASSUME TypeOK, Restart
  PROVE  TypeOK'
BY InstanceAssumption DEF Restart, Quiet, Images, TypeOK, rowVars, dockerVars, opVars, handlerVars, bounds, Goto, HandlerPcs, WritePcs, Writes, Actors

LEMMA RemoveContainerType ==
  ASSUME TypeOK, RemoveContainer
  PROVE  TypeOK'
<1>1. deletion.container \in Nat
  BY DEF TypeOK
<1>2. DockerType'
  BY <1>1, DockerEffects DEF RemoveContainer, DockerType, TypeOK
<1> QED
  BY <1>1, <1>2, InstanceAssumption DEF DockerType, RemoveContainer, Fault, TypeOK, rowVars, dockerVars, opVars, handlerVars, bounds, Goto, HandlerPcs, WritePcs, Writes, Actors

\* Each step of the operator, of a deletion and of the purge keeps the types.
LEMMA NextType ==
  ASSUME TypeOK, [Next]_vars
  PROVE  TypeOK'
<1>1. ASSUME NEW o \in Ops, HandlerStep(o) PROVE TypeOK'
  <2> o \in Actors
    BY DEF Actors
  <2> QED
    BY <1>1, ClaimType, ObsoleteType, ObserveCancelType, ReportType, LoadType, EnsureVolumeType,
       RunType, StopOrStartType, ReadyType, RemoveOldType, CreateType, CommitType,
       MarkRolledBackType, UpgradeStepFailsType, StepFailsType, ReadStateType, WriteStateType,
       WriteFailsType
    DEF HandlerStep
<1>2. CASE LoopStep
  <2> Loop \in Actors
    BY DEF Actors
  <2> QED
    BY <1>2, ListInstancesType, InspectType, CheckHealthType, ReadStateType, WriteStateType,
       LoopWriteFailsType
    DEF LoopStep
<1>3. CASE Operator
  BY <1>3, ReadRequestType, CommitRequestType, BeginDeletionType, RemoveContainerType,
     FinalizeDeletionType
  DEF Operator, DeletionStep
<1>4. CASE PurgeStep
  BY <1>4, SelectDueType, EnsurePurgeReadyType, PurgeVolumeType, PurgeRecordsType DEF PurgeStep
<1>5. CASE DeadlinePasses \/ PurgeFails \/ Restart \/ Vanish
  BY <1>5, DeadlinePassesType, PurgeFailsType, RestartType, VanishType
<1>6. CASE UNCHANGED vars
  BY <1>6 DEF TypeOK, vars, rowVars, dockerVars, opVars, handlerVars, bounds, Writes
<1> QED
  BY <1>1, <1>2, <1>3, <1>4, <1>5, <1>6 DEF Next

\* The row, the container, the volume and what every handler and the loop have
\* in hand stay typed; only an actor at a write holds values of the row it
\* has read, and a handler that has returned keeps nothing.
THEOREM TypeCorrect == Spec => []TypeOK
<1> QED
  BY InitType, NextType, PTL DEF Spec

-----------------------------------------------------------------------------
(* The purge.                                                              *)

\* A handler works on an operation that is running, and may still write the
\* row after it has reported.
Handling == \A o \in Ops : pc[o] \notin {"idle", "tail"} => status[o] = "running"

\* A request under way is for a new operation, and the deadline is ahead of it.
Requesting == request # None => life \in {"live", "retained"} /\ status[request] = "absent"

\* From its second check to its end the purge is alone with the instance.
Purging ==
  /\ purge # "idle" => life = "due"
  /\ purge \in {"volume", "records"} \/ life = "purged" => Active = {}
  /\ purge = "records" \/ life = "purged" => docker.id = 0 /\ volume = "absent"

\* The inductive invariant.
RetentionInv == TypeOK /\ Handling /\ Requesting /\ Purging

\* A handler at work excludes the purge's last steps.
LEMMA WorkExcludesPurge ==
  ASSUME RetentionInv, NEW o \in Ops, pc[o] \notin {"idle", "tail"}
  PROVE  /\ purge \notin {"volume", "records"} /\ life # "purged"
         /\ status[o] = "running"
<1>1. status[o] = "running" /\ o \in Active
  BY DEF RetentionInv, Handling, Active
<1> QED
  BY <1>1 DEF RetentionInv, Purging

\* What a handler at work may do to its operation, it may do to the container
\* and the volume as well.
LEMMA WorkKeeps ==
  ASSUME RetentionInv, NEW o \in Ops, pc[o] \notin {"idle", "tail"},
         UNCHANGED <<life, request, purge>>,
         \A q \in Ops : q # o => pc'[q] = pc[q] /\ status'[q] = status[q],
         pc'[o] \in {"idle", "tail"} \/ status'[o] = status[o]
  PROVE  (Handling /\ Requesting /\ Purging)'
<1>1. /\ purge \notin {"volume", "records"} /\ life # "purged" /\ status[o] = "running"
  BY WorkExcludesPurge
<1>2. Handling'
  BY <1>1 DEF RetentionInv, Handling
<1>3. Requesting'
  BY <1>1, InstanceAssumption DEF RetentionInv, Requesting, TypeOK
<1>4. Purging'
  BY <1>1 DEF RetentionInv, Purging
<1> QED
  BY <1>2, <1>3, <1>4

\* A step of a handler.
LEMMA HandlerRetention ==
  ASSUME RetentionInv, NEW o \in Ops, HandlerStep(o)
  PROVE  (Handling /\ Requesting /\ Purging)'
<1> USE DEF Goto
<1>0. TypeOK /\ pc \in [Ops -> HandlerPcs]
      /\ status \in [Ops -> {"absent", "queued", "running", "success", "failed", "cancelled"}]
  BY DEF RetentionInv, TypeOK
<1>1. CASE Claim(o)
  <2>1. /\ o \in Active /\ status[o] = "queued"
        /\ status' = [status EXCEPT ![o] = "running"] /\ pc' = [pc EXCEPT ![o] = "load"]
        /\ UNCHANGED <<life, docker, volume, request, purge>>
    BY <1>1 DEF Claim, Claimable, Active, rowVars, dockerVars
  <2>2. Active' = Active
    BY <1>0, <2>1 DEF Active
  <2>3. Handling'
    BY <1>0, <2>1 DEF RetentionInv, Handling
  <2>4. Requesting'
    BY <1>0, <2>1 DEF RetentionInv, Requesting, TypeOK
  <2> QED
    BY <2>1, <2>2, <2>3, <2>4 DEF RetentionInv, Purging
<1>2. CASE Obsolete(o)
  <2>1. /\ status[o] = "queued" /\ status' = [status EXCEPT ![o] = "cancelled"]
        /\ UNCHANGED <<life, docker, volume, pc, request, purge>>
    BY <1>2 DEF Obsolete, rowVars, dockerVars, handlerVars
  <2>2. Active' \subseteq Active
    BY <1>0, <2>1 DEF Active
  <2>3. Handling'
    BY <1>0, <2>1 DEF RetentionInv, Handling
  <2>4. Requesting'
    BY <1>0, <2>1 DEF RetentionInv, Requesting, TypeOK
  <2> QED
    BY <2>1, <2>2, <2>3, <2>4 DEF RetentionInv, Purging
<1>3. CASE ObserveCancel(o) \/ ReadState(o)
  BY <1>3 DEF ObserveCancel, ReadState, RetentionInv, Handling, Requesting, Purging, Active,
     rowVars, dockerVars, opVars, handlerVars
<1>4. CASE Report(o)
  BY <1>0, <1>4, WorkKeeps DEF Report, End, rowVars
<1>5. CASE Load(o) \/ EnsureVolume(o) \/ StopOrStart(o) \/ Ready(o) \/ RemoveOld(o)
  BY <1>0, <1>5, WorkKeeps
  DEF Load, EnsureVolume, StopOrStart, Ready, RemoveOld, rowVars, opVars
<1>6. CASE Run(o) \/ Create(o) \/ Commit(o) \/ MarkRolledBack(o)
  BY <1>0, <1>6, WorkKeeps DEF Run, Create, Commit, MarkRolledBack, rowVars, opVars
<1>7. CASE UpgradeStepFails(o) \/ StepFails(o)
  BY <1>0, <1>7, WorkKeeps DEF UpgradeStepFails, StepFails, rowVars, opVars
<1>8. CASE WriteState(o) \/ WriteFails(o)
  <2>1. /\ UNCHANGED <<life, status, request, purge>>
        /\ \A q \in Ops : q # o => pc'[q] = pc[q]
    BY <1>0, <1>8, InstanceAssumption
    DEF WriteState, WriteFails, Proceed, End, opVars, handlerVars, Loop
  <2>2. CASE pc[o] \notin {"idle", "tail"}
    BY <2>1, <2>2, WorkKeeps
  <2>3. CASE pc[o] \in {"idle", "tail"}
    <3>1. pc[o] = "tail"
      BY <1>0, <1>8, <2>3, InstanceAssumption DEF WriteState, WriteFails, Writes, WritePcs,
         TypeOK, Actors, Loop
    <3>2. pc'[o] = "idle" /\ UNCHANGED <<docker, volume>>
      BY <1>0, <1>8, <3>1, InstanceAssumption
      DEF WriteState, WriteFails, Proceed, End, dockerVars, Loop
    <3> QED
      BY <2>1, <3>1, <3>2 DEF RetentionInv, Handling, Requesting, Purging, Active
  <2> QED
    BY <2>2, <2>3
<1> QED
  BY <1>1, <1>2, <1>3, <1>4, <1>5, <1>6, <1>7, <1>8 DEF HandlerStep

\* Any other step.
LEMMA OtherRetention ==
  ASSUME PromptRestore, RetentionInv,
         LoopStep \/ Operator \/ DeadlinePasses \/ PurgeStep \/ PurgeFails \/ Restart \/ Vanish
         \/ UNCHANGED vars
  PROVE  (Handling /\ Requesting /\ Purging)'
<1> USE DEF Handling, Requesting, Purging
<1>0. TypeOK /\ Handling /\ Requesting /\ Purging
      /\ status \in [Ops -> {"absent", "queued", "running", "success", "failed", "cancelled"}]
  BY DEF RetentionInv, TypeOK
<1>1. CASE LoopStep \/ UNCHANGED vars
  <2>1. UNCHANGED <<life, docker, volume, status, pc, request, purge>>
    BY <1>1, InstanceAssumption
    DEF LoopStep, ListInstances, Inspect, CheckHealth, ReadState, WriteState, LoopWriteFails,
        Loop, rowVars, dockerVars, opVars, handlerVars, vars
  <2> QED
    BY <1>0, <2>1 DEF Active
<1>2. ASSUME NEW o \in Ops, ReadRequest(o) PROVE (Handling /\ Requesting /\ Purging)'
  <2>1. /\ request' = o /\ status[o] = "absent" /\ life \in {"live", "retained"}
        /\ UNCHANGED <<life, docker, volume, status, pc, purge>>
    BY <1>2 DEF ReadRequest, Requestable, rowVars, dockerVars, opVars, handlerVars
  <2> QED
    BY <1>0, <2>1 DEF Active
<1>3. ASSUME NEW o \in Ops, CommitRequest(o) PROVE (Handling /\ Requesting /\ Purging)'
  <2>1. /\ life \in {"live", "retained"} /\ status[o] = "absent"
        /\ life' \in {"live", "retained"} /\ request' = None
        /\ status' = [status EXCEPT ![o] = "queued"]
        /\ UNCHANGED <<docker, volume, pc, purge>>
    BY <1>0, <1>3, InstanceAssumption DEF CommitRequest, dockerVars, handlerVars
  <2>2. Handling'
    BY <1>0, <2>1
  <2> QED
    BY <1>0, <2>1, <2>2
<1>4. CASE BeginDeletion
  <2>1. /\ life = "live" /\ UNCHANGED <<life, docker, volume, pc, request, purge>>
        /\ \A o \in Ops : status[o] # "queued" => status'[o] = status[o]
    BY <1>0, <1>4 DEF BeginDeletion, dockerVars, handlerVars
  <2> QED
    BY <1>0, <2>1 DEF TypeOK
<1>5. CASE RemoveContainer \/ Vanish
  <2>1. /\ UNCHANGED <<life, volume, status, pc, request, purge>>
        /\ docker.id = 0 => docker'.id = 0
    BY <1>0, <1>5
    DEF RemoveContainer, Vanish, Removed, Stopped, NoContainer, Exists, TypeOK, rowVars, opVars,
        handlerVars
  <2> QED
    BY <1>0, <2>1 DEF Active
<1>6. CASE FinalizeDeletion
  <2>1. /\ \/ life = "live" /\ life' = "retained"
           \/ UNCHANGED life
        /\ UNCHANGED <<docker, volume, status, pc, request, purge>>
    BY <1>6 DEF FinalizeDeletion, Finalizable, rowVars, dockerVars, opVars, handlerVars
  <2> QED
    BY <1>0, <2>1 DEF Active
<1>7. CASE DeadlinePasses
  <2>1. /\ life = "retained" /\ life' = "due" /\ request = None
        /\ UNCHANGED <<docker, volume, status, pc, request, purge>>
    BY <1>7 DEF DeadlinePasses, dockerVars, opVars, handlerVars
  <2> QED
    BY <1>0, <2>1 DEF Active
<1>8. CASE SelectDue \/ EnsurePurgeReady \/ PurgeVolume \/ PurgeFails
  <2>1. UNCHANGED <<life, docker, status, pc, request>>
    BY <1>8 DEF SelectDue, EnsurePurgeReady, PurgeVolume, PurgeFails, rowVars, dockerVars, opVars,
       handlerVars
  <2> QED
    BY <1>0, <1>8, <2>1
    DEF SelectDue, EnsurePurgeReady, PurgeVolume, PurgeFails, Due, Removable, Active, dockerVars
<1>9. CASE PurgeRecords
  <2>1. /\ life = "due" /\ life' = "purged" /\ purge' = "idle" /\ Active = {}
        /\ status' = [o \in Ops |-> "absent"]
        /\ docker.id = 0 /\ volume = "absent"
        /\ UNCHANGED <<docker, volume, pc, request>>
    BY <1>0, <1>9 DEF PurgeRecords, Due, dockerVars, handlerVars
  <2>2. \A o \in Ops : pc[o] \in {"idle", "tail"}
    BY <1>0, <2>1 DEF Active
  <2> QED
    BY <1>0, <2>1, <2>2 DEF Active
<1>10. CASE Restart
  <2>1. /\ UNCHANGED <<life, docker, volume>> /\ request' = None /\ purge' = "idle"
        /\ pc' = [o \in Ops |-> "idle"] /\ Active' \subseteq Active
    BY <1>10 DEF Restart, Running, Active, rowVars, dockerVars
  <2> QED
    BY <1>0, <2>1
<1> QED
  BY <1>1, <1>2, <1>3, <1>4, <1>5, <1>6, <1>7, <1>8, <1>9, <1>10
  DEF Operator, DeletionStep, PurgeStep

LEMMA RetentionStep ==
  ASSUME PromptRestore, RetentionInv, [Next]_vars
  PROVE  RetentionInv'
<1>1. TypeOK'
  BY NextType DEF RetentionInv
<1>2. (Handling /\ Requesting /\ Purging)'
  BY HandlerRetention, OtherRetention DEF Next
<1> QED
  BY <1>1, <1>2 DEF RetentionInv

\* A purge is alone with its instance, whatever operations, requests, passes of
\* the loop, failures and restarts came before.
THEOREM RetentionInvariant ==
  ASSUME PromptRestore
  PROVE  Spec => []RetentionInv
<1>1. Init => RetentionInv
  BY InitType DEF RetentionInv, Handling, Requesting, Purging, Init
<1>2. RetentionInv /\ [Next]_vars => RetentionInv'
  BY RetentionStep
<1> QED
  BY <1>1, <1>2, PTL DEF Spec

\* When the records of a service are gone, so are its container and its volume.
THEOREM PurgeIsComplete ==
  ASSUME PromptRestore
  PROVE  Spec => []PurgedLeavesNothing
<1>1. RetentionInv => PurgedLeavesNothing
  BY DEF RetentionInv, Purging, PurgedLeavesNothing
<1> QED
  BY <1>1, RetentionInvariant, PTL

\* The volume of an instance is removed only when its deadline has passed.
THEOREM VolumeStaysForRetention ==
  ASSUME PromptRestore
  PROVE  Spec => VolumeOutlivesRetention
<1>1. RetentionInv /\ [Next]_vars => [volume # "absent" /\ volume' = "absent" => life = "due"]_vars
  <2> SUFFICES ASSUME RetentionInv, Next, volume # "absent", volume' = "absent"
               PROVE  life = "due"
    BY DEF vars, dockerVars
  <2>1. ASSUME NEW o \in Ops, HandlerStep(o) PROVE FALSE
    BY <2>1
    DEF HandlerStep, Claim, Obsolete, ObserveCancel, Report, Load, EnsureVolume, Run, StopOrStart,
        Ready, RemoveOld, Create, Commit, MarkRolledBack, UpgradeStepFails, StepFails, ReadState,
        WriteState, WriteFails, BreaksOff, RunBreaksOff, RunContainer, dockerVars
  <2>2. ASSUME LoopStep \/ Operator \/ DeadlinePasses \/ Restart \/ Vanish PROVE FALSE
    BY <2>2
    DEF LoopStep, ListInstances, Inspect, CheckHealth, ReadState, WriteState, LoopWriteFails,
        Operator, ReadRequest, CommitRequest, BeginDeletion, DeletionStep, RemoveContainer,
        FinalizeDeletion, DeadlinePasses, Restart, Vanish, dockerVars
  <2>3. CASE PurgeStep \/ PurgeFails
    BY <2>3
    DEF PurgeStep, SelectDue, EnsurePurgeReady, PurgeVolume, PurgeRecords, PurgeFails, dockerVars,
        RetentionInv, Purging
  <2> QED
    BY <2>1, <2>2, <2>3 DEF Next
<1> QED
  BY <1>1, RetentionInvariant, PTL DEF Spec, VolumeOutlivesRetention

=============================================================================
