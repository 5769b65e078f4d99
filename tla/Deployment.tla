----------------------------- MODULE Deployment -----------------------------
(***************************************************************************)
(* The deployments of one service in one environment: the API requests     *)
(* that create, cancel, stop and restart them, the deploy operation        *)
(* handler and ExecuteDeploy, and the recovery and container sweep of a    *)
(* process start.                                                          *)
(*                                                                         *)
(* All these deployments share one lock key, so one is executed at a time  *)
(* (OperationQueueProofs!DeployExclusion): the module follows a single     *)
(* runner.  Three records of one fact must agree: the deployments row      *)
(* (dep), its operations row (op) and the containers row (row), with what  *)
(* the Docker daemon really runs (box).                                    *)
(*                                                                         *)
(* Left out: builds' content, logs, ports, commit hashes, the platform     *)
(* domain's name, desired_state (only metrics and listings read it), and   *)
(* deletion of the service while it is deployed.                           *)
(***************************************************************************)
EXTENDS Naturals, Sequences, FiniteSets

CONSTANTS
  Deployments,  \* deployment ids; a deployment's operation has the same id
  Priority,     \* operations-queue priority of each, from its trigger
  Requests,     \* stop and restart requests an operator may send
  None,         \* no deployment
  MaxClock,     \* bound: distinct created_at seconds
  MaxBoots,     \* bound: process ends explored
  MaxFaults     \* bound: failed store writes, Docker calls and hung-up clients

ASSUME DeploymentAssumption ==
  /\ IsFiniteSet(Deployments) /\ None \notin Deployments
  /\ Priority \in [Deployments -> Nat]
  /\ MaxClock \in Nat /\ MaxBoots \in Nat /\ MaxFaults \in Nat

VARIABLES
  dep,             \* deployments.status, "absent" before the row exists
  created,         \* deployments.created_at, in seconds
  op,              \* operations.status of the deploy operation
  order,           \* operations.created_at (nanoseconds): 1 for the first enqueued
  cancelRequested, \* operations.cancel_requested_at is set
  active,          \* service_environments.active_deployment_id
  row,             \* containers.status of the deployment's container
  box,             \* the container itself, in the Docker daemon
  pc, job,         \* the runner: where it is, the deployment it executes
  prev,            \* job.PreviousContainer, by its deployment
  ctxDone,         \* the operation context is cancelled
  undo,            \* what a failing step has still to do, in order
  outcome,         \* what Handle returned
  preparing,       \* PrepareServiceDeploy between its insert and its enqueue
  unread,          \* PrepareServiceDeploy after an enqueue it could not read back
  cancelling,      \* the cancel endpoint between its two writes
  request,         \* where each stop or restart request is
  process,         \* "down", "sweeping", "up", or "draining" after the signal
  sweep,           \* what SweepOrphanedDeployContainers has still to look at
  timedOut,        \* the drain deadline has passed
  clock, boots, faults,
  asked,           \* history: cancellations an operator was told succeeded
  mislaid          \* history: marked FAILED although the operation is enqueued

rowVars     == <<dep, created, op, order, cancelRequested, active>>
boxVars     == <<row, box>>
runnerVars  == <<pc, job, prev, ctxDone, undo, outcome>>
apiVars     == <<preparing, unread, cancelling, request, asked, mislaid>>
processVars == <<process, sweep, timedOut, boots, clock>>
vars == <<rowVars, boxVars, runnerVars, apiVars, processVars, faults>>

Live     == {"QUEUED", "BUILDING"}
Ended    == {"SUCCESS", "FAILED", "CANCELLED"}
OpLive   == {"queued", "running"}
OpEnded  == {"success", "failed", "cancelled"}
Handling == {"load", "begin", "build", "run", "attach", "health", "cutover",
             "activate", "teardown", "forget", "undo", "return"}

\* A stop or restart request, what it resolved, and its next step.
RequestState == [kind   : {"stop", "restart"}, target : Deployments \cup {None},
                 step   : {"resolve", "docker", "row", "done"}]
InFlight(r)  == r.step \in {"docker", "row"}

\* What is left of the two orders in which a failing step marks and cleans up.
Cleanups == {<<>>, <<"fail">>, <<"forget">>, <<"remove", "forget">>, <<"forget", "fail">>,
             <<"fail", "remove", "forget">>, <<"remove", "forget", "fail">>}

TypeOK ==
  /\ dep \in [Deployments -> {"absent"} \cup Live \cup Ended]
  /\ created \in [Deployments -> Nat]
  /\ op \in [Deployments -> {"absent"} \cup OpLive \cup OpEnded]
  /\ order \in [Deployments -> Nat]
  /\ cancelRequested \in [Deployments -> BOOLEAN]
  /\ active \in Deployments \cup {None}
  /\ row \in [Deployments -> {"none", "RUNNING", "STOPPED", "REMOVED"}]
  /\ box \in [Deployments -> {"none", "running", "stopped", "removed"}]
  /\ pc \in {"idle", "ready", "complete"} \cup Handling
  /\ job \in Deployments \cup {None} /\ (job = None <=> pc = "idle")
  /\ prev \in Deployments \cup {None}
  /\ ctxDone \in BOOLEAN
  /\ undo \in Cleanups
  /\ pc = "undo" <=> undo # <<>>
  /\ outcome \in OpEnded \cup {None}
  /\ pc = "complete" => outcome \in OpEnded
  /\ preparing \subseteq Deployments /\ unread \subseteq Deployments
  /\ cancelling \subseteq Deployments
  /\ request \in [Requests -> RequestState]
  /\ \A q \in Requests : InFlight(request[q]) => request[q].target # None
  /\ asked \subseteq Deployments /\ mislaid \subseteq Deployments
  /\ process \in {"down", "sweeping", "up", "draining"}
  /\ sweep \subseteq Deployments
  /\ timedOut \in BOOLEAN
  /\ clock \in Nat /\ boots \in Nat /\ faults \in Nat

Init ==
  /\ dep = [d \in Deployments |-> "absent"]
  /\ created = [d \in Deployments |-> 0]
  /\ op = [d \in Deployments |-> "absent"]
  /\ order = [d \in Deployments |-> 0]
  /\ cancelRequested = [d \in Deployments |-> FALSE]
  /\ active = None
  /\ row = [d \in Deployments |-> "none"]
  /\ box = [d \in Deployments |-> "none"]
  /\ pc = "idle" /\ job = None /\ prev = None /\ ctxDone = FALSE
  /\ undo = <<>> /\ outcome = None
  /\ preparing = {} /\ unread = {} /\ cancelling = {} /\ asked = {} /\ mislaid = {}
  /\ request = [q \in Requests |-> [kind |-> "stop", target |-> None, step |-> "resolve"]]
  /\ process = "down" /\ sweep = {} /\ timedOut = FALSE
  /\ clock = 0 /\ boots = 0 /\ faults = 0

-----------------------------------------------------------------------------
(* Writes, as values of the rows they touch.                               *)

\* Mutant of Overwritable: UpdateDeploymentStatus without its status clause.
OverwritableAlways(d) == dep[d] # "absent"

\* UpdateDeploymentStatus: CANCELLED is final; anything else is overwritten.
Overwritable(d) == dep[d] # "CANCELLED"

\* CancelDeployment and the projections of the queue touch live rows only.
Ending(d, s) == IF dep[d] \in Live THEN [dep EXCEPT ![d] = s] ELSE dep

\* Mutant of ProjectComplete: an operation's end does not reach the deployment.
ProjectNothing(d, s) == dep

\* projectDeployCompleteTx.
ProjectComplete(d, s) ==
  Ending(d, CASE s = "success" -> "SUCCESS" [] s = "failed" -> "FAILED"
              [] s = "cancelled" -> "CANCELLED")

\* A store write or a Docker call fails of itself.
Fault == faults < MaxFaults /\ faults' = faults + 1

\* A step made under the operation context fails when that is cancelled.
StepFails == Fault \/ (ctxDone /\ UNCHANGED faults)

-----------------------------------------------------------------------------
(* API requests: the HTTP server only runs while the process is "up", and  *)
(* a shutdown lets the requests it has accepted finish.                    *)

Tick ==
  /\ clock < MaxClock
  /\ clock' = clock + 1
  /\ UNCHANGED <<rowVars, boxVars, runnerVars, apiVars, process, sweep, timedOut,
                 boots, faults>>

\* PrepareServiceDeploy inserts the row ...
Create(d) ==
  /\ process = "up"
  /\ dep[d] = "absent"
  /\ dep' = [dep EXCEPT ![d] = "QUEUED"]
  /\ created' = [created EXCEPT ![d] = clock]
  /\ preparing' = preparing \cup {d}
  /\ UNCHANGED <<op, order, cancelRequested, active, boxVars, runnerVars,
                 unread, cancelling, request, asked, mislaid, processVars, faults>>

\* The operation's row, with the next created_at.
Queued(d) ==
  /\ op' = [op EXCEPT ![d] = "queued"]
  /\ order' = [order EXCEPT ![d] = Cardinality({e \in Deployments : order[e] > 0}) + 1]

\* ... and enqueues the operation as its last write.
Enqueue(d) ==
  /\ d \in preparing
  /\ preparing' = preparing \ {d}
  /\ Queued(d)
  /\ UNCHANGED <<dep, created, cancelRequested, active, boxVars, runnerVars, unread,
                 cancelling, request, asked, mislaid, processVars, faults>>

\* The deployment is marked FAILED, with the request's context: when that is
\* what made the enqueue fail, this write fails as well.
MarkedFailed(d) ==
  dep' \in {dep} \cup (IF Overwritable(d) THEN {[dep EXCEPT ![d] = "FAILED"]} ELSE {})

\* The enqueue fails before its commit.
EnqueueFails(d) ==
  /\ d \in preparing
  /\ Fault
  /\ preparing' = preparing \ {d}
  /\ MarkedFailed(d)
  /\ UNCHANGED <<op, created, order, cancelRequested, active, boxVars, runnerVars,
                 unread, cancelling, request, asked, mislaid, processVars>>

\* EnqueueOperation reads the row back once it is committed: when only that
\* fails the operation is queued and can be claimed ...
EnqueueUnread(d) ==
  /\ d \in preparing
  /\ Fault
  /\ preparing' = preparing \ {d}
  /\ unread' = unread \cup {d}
  /\ Queued(d)
  /\ UNCHANGED <<dep, created, cancelRequested, active, boxVars, runnerVars, cancelling,
                 request, asked, mislaid, processVars>>

\* ... while its deployment is marked FAILED.
FailUnread(d) ==
  /\ d \in unread
  /\ unread' = unread \ {d}
  /\ MarkedFailed(d)
  /\ mislaid' = IF dep' = dep THEN mislaid ELSE mislaid \cup {d}
  /\ UNCHANGED <<op, created, order, cancelRequested, active, boxVars, runnerVars,
                 preparing, cancelling, request, asked, processVars, faults>>

\* handleDeploymentCancelV2: CancelDeployment is the gate ...
Cancel(d) ==
  /\ process = "up"
  /\ dep[d] \in Live
  /\ dep' = Ending(d, "CANCELLED")
  /\ cancelling' = cancelling \cup {d}
  /\ asked' = asked \cup {d}
  /\ UNCHANGED <<op, created, order, cancelRequested, active, boxVars, runnerVars,
                 preparing, unread, request, mislaid, processVars, faults>>

\* ... then RequestOperationCancellation, whose failure is only logged.
RequestCancellation(d) ==
  /\ d \in cancelling
  /\ cancelling' = cancelling \ {d}
  /\ \/ /\ op[d] = "running"
        /\ cancelRequested' = [cancelRequested EXCEPT ![d] = TRUE]
        /\ UNCHANGED <<dep, op, faults>>
     \/ /\ op[d] = "queued"
        /\ op' = [op EXCEPT ![d] = "cancelled"]
        /\ dep' = ProjectComplete(d, "cancelled")
        /\ cancelRequested' = [cancelRequested EXCEPT ![d] = TRUE]
        /\ UNCHANGED faults
     \/ /\ op[d] \notin OpLive /\ UNCHANGED <<dep, op, cancelRequested, faults>>
     \/ /\ Fault /\ UNCHANGED <<dep, op, cancelRequested>>
  /\ UNCHANGED <<created, order, active, boxVars, runnerVars, preparing, unread, request,
                 asked, mislaid, processVars>>

\* Stop/RestartServiceEnvironment: ResolveActiveServiceContainer ...
Resolve(q, kind) ==
  /\ process = "up"
  /\ request[q].step = "resolve"
  /\ active # None
  /\ request' = [request EXCEPT ![q] = [kind |-> kind, target |-> active, step |-> "docker"]]
  /\ UNCHANGED <<rowVars, boxVars, runnerVars, preparing, unread, cancelling,
                 asked, mislaid, processVars, faults>>

\* ... the Docker call, which a removed container makes fail ...
CallDocker(q) ==
  LET r == request[q]
  IN /\ r.step = "docker"
     /\ \/ /\ box[r.target] # "removed"
           /\ box' = [box EXCEPT ![r.target] = IF r.kind = "stop" THEN "stopped" ELSE "running"]
           /\ request' = [request EXCEPT ![q].step = "row"]
           /\ UNCHANGED faults
        \/ /\ box[r.target] = "removed" \/ faults < MaxFaults
           /\ faults' = IF box[r.target] = "removed" THEN faults ELSE faults + 1
           /\ request' = [request EXCEPT ![q].step = "done"]
           /\ UNCHANGED box
     /\ UNCHANGED <<rowVars, row, runnerVars, preparing, unread, cancelling,
                    asked, mislaid, processVars>>

\* Mutant of WriteRow: a stop records what a restart does.
WriteRunning(q) ==
  LET r == request[q]
  IN /\ r.step = "row"
     /\ request' = [request EXCEPT ![q].step = "done"]
     /\ row' = [row EXCEPT ![r.target] = "RUNNING"]
     /\ UNCHANGED <<rowVars, box, runnerVars, preparing, unread, cancelling,
                    asked, mislaid, processVars, faults>>

\* ... and UpdateContainerStatus, which checks nothing.
WriteRow(q) ==
  LET r == request[q]
  IN /\ r.step = "row"
     /\ request' = [request EXCEPT ![q].step = "done"]
     /\ \/ /\ row' = [row EXCEPT ![r.target] = IF r.kind = "stop" THEN "STOPPED" ELSE "RUNNING"]
           /\ UNCHANGED faults
        \/ Fault /\ UNCHANGED row
     /\ UNCHANGED <<rowVars, box, runnerVars, preparing, unread, cancelling,
                    asked, mislaid, processVars>>

-----------------------------------------------------------------------------
(* The runner, up to cutover.                                              *)

Precedes(d, e) ==
  Priority[d] > Priority[e] \/ (Priority[d] = Priority[e] /\ order[d] <= order[e])

Claimable(d) == op[d] = "queued" /\ \A e \in Deployments : op[e] # "running"

\* ClaimNextOperation and projectDeployClaimTx.
Claim(d) ==
  /\ process = "up" /\ pc = "idle"
  /\ Claimable(d)
  /\ \A e \in Deployments : Claimable(e) => Precedes(d, e)
  /\ op' = [op EXCEPT ![d] = "running"]
  /\ dep' = IF dep[d] = "QUEUED" THEN [dep EXCEPT ![d] = "BUILDING"] ELSE dep
  /\ pc' = "ready" /\ job' = d
  /\ UNCHANGED <<created, order, cancelRequested, active, boxVars, prev, ctxDone,
                 undo, outcome, apiVars, processVars, faults>>

\* The poll finds nothing to claim.
IdlePoll ==
  /\ process = "up" /\ pc = "idle"
  /\ ~ \E d \in Deployments : Claimable(d)
  /\ UNCHANGED vars

\* The runtime's CompleteOperation: guarded by the row still being held.
CompleteOperation(s) ==
  IF op[job] = "running"
  THEN op' = [op EXCEPT ![job] = s] /\ dep' = ProjectComplete(job, s)
  ELSE UNCHANGED <<op, dep>>

BecomeIdle ==
  /\ pc' = "idle" /\ job' = None /\ prev' = None /\ ctxDone' = FALSE
  /\ undo' = <<>> /\ outcome' = None

\* Ready refuses a deployment that is no longer live, or cannot read it.
ReadyRefuses ==
  /\ pc = "ready"
  /\ \/ dep[job] \notin Live /\ CompleteOperation("cancelled") /\ UNCHANGED faults
     \/ Fault /\ CompleteOperation("failed")
  /\ BecomeIdle
  /\ UNCHANGED <<created, order, cancelRequested, active, boxVars, apiVars, processVars>>

\* Steps of the handler that leave the rows alone: UNCHANGED but for the pc.
GoTo(label) ==
  /\ pc' = label
  /\ UNCHANGED <<job, prev, ctxDone, undo, outcome>>

\* The step fails: markFailed, and the cleanup of a candidate once there is
\* one, in the order the code runs them.
Unwind(steps) ==
  /\ pc' = "undo" /\ undo' = steps
  /\ UNCHANGED <<job, prev, ctxDone, outcome>>

\* Failures after the candidate is attached: a step marks the deployment
\* failed and then cleans up; stepBoundary cleans up first.
UnwindCandidate ==
  \/ Unwind(<<"fail", "remove", "forget">>)
  \/ ctxDone /\ Unwind(<<"remove", "forget", "fail">>)

ReadyAllows ==
  /\ pc = "ready" /\ dep[job] \in Live
  /\ GoTo("load")
  /\ UNCHANGED <<rowVars, boxVars, apiVars, processVars, faults>>

\* Mutant of LatestSuccess: any earlier success will do.
AnySuccess == {d \in Deployments : dep[d] = "SUCCESS"}

\* GetLatestSuccessfulServiceDeployment: ORDER BY created_at DESC LIMIT 1, so
\* deployments of one second come in either order.
LatestSuccess ==
  {d \in Deployments : dep[d] = "SUCCESS" /\
     \A e \in Deployments : dep[e] = "SUCCESS" => created[e] <= created[d]}

\* LoadDeployJob.  Its error is Handle's answer, with no outcome recorded.
Load ==
  /\ pc = "load"
  /\ \/ /\ ~ctxDone
        /\ prev' \in IF LatestSuccess = {} THEN {None} ELSE LatestSuccess
        /\ pc' = "begin" /\ UNCHANGED outcome
     \/ /\ pc' = "complete" /\ UNCHANGED prev
        /\ outcome' = IF ctxDone THEN "cancelled" ELSE "failed"
  /\ UNCHANGED <<rowVars, boxVars, job, ctxDone, undo, apiVars, processVars, faults>>

\* ExecuteDeploy opens with UpdateDeploymentStatus(BUILDING).
Begin ==
  /\ pc = "begin"
  /\ \/ /\ ~ctxDone /\ Overwritable(job)
        /\ dep' = [dep EXCEPT ![job] = "BUILDING"]
        /\ GoTo("build") /\ UNCHANGED faults
     \/ /\ ~Overwritable(job) /\ UNCHANGED <<dep, faults>> /\ GoTo("return")
     \/ /\ StepFails /\ UNCHANGED dep /\ GoTo("return")
  /\ UNCHANGED <<created, op, order, cancelRequested, active, boxVars, apiVars, processVars>>

\* Clone, checkout, port, environment, image build, with a boundary before each.
Build ==
  /\ pc = "build"
  /\ \/ ~ctxDone /\ GoTo("run")
     \/ Unwind(<<"fail">>)
  /\ UNCHANGED <<rowVars, boxVars, apiVars, processVars, faults>>

\* RunContainer creates the container and starts it; a container that was
\* created and did not start stays behind.
Run ==
  /\ pc = "run"
  /\ \/ ~ctxDone /\ box' = [box EXCEPT ![job] = "running"] /\ GoTo("attach")
     \/ box' \in {box, [box EXCEPT ![job] = "stopped"]} /\ Unwind(<<"fail">>)
  /\ UNCHANGED <<rowVars, row, apiVars, processVars, faults>>

\* AttachContainer.
Attach ==
  /\ pc = "attach"
  /\ \/ /\ ~ctxDone /\ UNCHANGED faults
        /\ row' = [row EXCEPT ![job] = "RUNNING"] /\ GoTo("health")
     \/ StepFails /\ UNCHANGED row /\ Unwind(<<"fail">>)
  /\ UNCHANGED <<rowVars, box, apiVars, processVars>>

\* WaitForHealthy and EnsurePlatformServiceDomain, with a boundary before each.
Health ==
  /\ pc = "health"
  /\ \/ ~ctxDone /\ GoTo("cutover")
     \/ UnwindCandidate
  /\ UNCHANGED <<rowVars, boxVars, apiVars, processVars, faults>>

-----------------------------------------------------------------------------
(* Cutover, teardown and the failure path.                                 *)

\* The last boundary, then UpdateDeploymentStatus(SUCCESS).
Cutover ==
  /\ pc = "cutover"
  /\ \/ /\ ~ctxDone /\ Overwritable(job) /\ UNCHANGED faults
        /\ dep' = [dep EXCEPT ![job] = "SUCCESS"] /\ GoTo("activate")
     \/ /\ ~Overwritable(job) /\ UNCHANGED <<dep, faults>> /\ UnwindCandidate
     \/ /\ StepFails /\ UNCHANGED dep /\ UnwindCandidate
  /\ UNCHANGED <<created, op, order, cancelRequested, active, boxVars, apiVars, processVars>>

\* ActivateServiceDeployment: from here the domains route to the candidate.
Activate ==
  /\ pc = "activate"
  /\ \/ /\ ~ctxDone /\ UNCHANGED faults
        /\ active' = job
        /\ GoTo(IF prev = None THEN "return" ELSE "teardown")
     \/ StepFails /\ UNCHANGED active /\ Unwind(<<"fail", "remove", "forget">>)
  /\ UNCHANGED <<dep, created, op, order, cancelRequested, boxVars, apiVars, processVars>>

\* The previous container is stopped and removed; an error is only logged.
Teardown ==
  /\ pc = "teardown"
  /\ \/ /\ ~ctxDone /\ UNCHANGED faults
        /\ box' = [box EXCEPT ![prev] = "removed"] /\ GoTo("forget")
     \/ StepFails /\ UNCHANGED box /\ GoTo("return")
  /\ UNCHANGED <<rowVars, row, apiVars, processVars>>

Forget ==
  /\ pc = "forget"
  /\ GoTo("return")
  /\ \/ ~ctxDone /\ UNCHANGED faults /\ row' = [row EXCEPT ![prev] = "REMOVED"]
     \/ StepFails /\ UNCHANGED row
  /\ UNCHANGED <<rowVars, box, apiVars, processVars>>

\* The next step of a failure path is behind us.
Undone(rest) ==
  /\ undo' = rest
  /\ pc' = IF rest = <<>> THEN "return" ELSE "undo"
  /\ UNCHANGED <<job, prev, outcome>>

Stopping == op[job] # "running" \/ cancelRequested[job]

\* markFailed: a cancelled context makes it a cancellation, written with a
\* context of its own; else FAILED is written with the operation context,
\* which may be cancelled during that very write.
MarkFailed ==
  /\ pc = "undo" /\ Head(undo) = "fail"
  /\ Undone(Tail(undo))
  /\ \/ ctxDone /\ dep' = Ending(job, "CANCELLED") /\ UNCHANGED <<ctxDone, faults>>
     \/ /\ ~ctxDone /\ UNCHANGED <<ctxDone, faults>>
        /\ dep' = IF Overwritable(job) THEN [dep EXCEPT ![job] = "FAILED"] ELSE dep
     \/ ~ctxDone /\ Stopping /\ ctxDone' = TRUE /\ UNCHANGED <<dep, faults>>
     \/ Fault /\ UNCHANGED <<dep, ctxDone>>
  /\ UNCHANGED <<created, op, order, cancelRequested, active, boxVars, apiVars, processVars>>

\* cleanupCandidateContainer, on a detached context: StopAndRemove, and only
\* when that worked the row.
RemoveCandidate ==
  /\ pc = "undo" /\ Head(undo) = "remove"
  /\ \/ /\ box' = [box EXCEPT ![job] = "removed"] /\ Undone(Tail(undo)) /\ UNCHANGED faults
     \/ Fault /\ Undone(Tail(Tail(undo))) /\ UNCHANGED box
  /\ UNCHANGED <<rowVars, row, ctxDone, apiVars, processVars>>

\* Mutant of ForgetCandidate: the row is left alone.
ForgetNothing ==
  /\ pc = "undo" /\ Head(undo) = "forget"
  /\ Undone(Tail(undo))
  /\ UNCHANGED <<rowVars, boxVars, ctxDone, apiVars, processVars, faults>>

ForgetCandidate ==
  /\ pc = "undo" /\ Head(undo) = "forget"
  /\ Undone(Tail(undo))
  /\ \/ row' = [row EXCEPT ![job] = "REMOVED"] /\ UNCHANGED faults
     \/ Fault /\ UNCHANGED row
  /\ UNCHANGED <<rowVars, box, ctxDone, apiVars, processVars>>

\* Handle re-reads the deployment and answers for what it finds.
Return ==
  /\ pc = "return"
  /\ pc' = "complete"
  /\ outcome' = CASE dep[job] \in {"SUCCESS", "CANCELLED"} -> "success"
                  [] dep[job] = "FAILED" -> "failed"
                  [] OTHER -> IF ctxDone THEN "cancelled" ELSE "failed"
  /\ UNCHANGED <<rowVars, boxVars, job, prev, ctxDone, undo, apiVars, processVars, faults>>

\* Runtime.complete; a failed write is only logged.
Complete ==
  /\ pc = "complete"
  /\ \/ CompleteOperation(outcome) /\ UNCHANGED faults
     \/ Fault /\ UNCHANGED <<op, dep>>
  /\ BecomeIdle
  /\ UNCHANGED <<created, order, cancelRequested, active, boxVars, apiVars, processVars>>

\* holdLease: a cancellation request or a lost lease cancels the context; so
\* does a renewal that fails.
StopSignal ==
  /\ pc \in Handling /\ ~ctxDone
  /\ (Stopping /\ UNCHANGED faults) \/ Fault
  /\ ctxDone' = TRUE
  /\ UNCHANGED <<rowVars, boxVars, pc, job, prev, undo, outcome, apiVars, processVars>>

-----------------------------------------------------------------------------
(* The process: start, shutdown, crash.                                    *)

\* Mutant of Sweepable: the deployment is not looked at.
SweepableAll(d) == row[d] = "RUNNING"

\* ListSweepableDeployContainers, over the rows recovery has settled.
Sweepable(d) == row[d] = "RUNNING" /\ dep'[d] \in {"FAILED", "CANCELLED"} /\ active # d

\* RecoverOperations fails a deploy that was running (its one attempt is used
\* up) and with it, as sweepOrphanedDeploymentsTx does, every live deployment
\* that no queued operation is left to finish.
Orphaned(d) == dep[d] \in Live /\ op[d] # "queued"

Boot ==
  /\ process = "down"
  /\ process' = "sweeping"
  /\ op' = [d \in Deployments |-> IF op[d] = "running" THEN "failed" ELSE op[d]]
  /\ dep' = [d \in Deployments |-> IF Orphaned(d) THEN "FAILED" ELSE dep[d]]
  /\ sweep' = {d \in Deployments : Sweepable(d)}
  /\ UNCHANGED <<created, order, cancelRequested, active, boxVars, runnerVars, apiVars,
                 timedOut, boots, clock, faults>>

\* One container of the sweep: removed, then its row; either call may fail
\* and is then only logged.
SweepContainer(d) ==
  /\ process = "sweeping" /\ d \in sweep
  /\ \/ /\ box[d] # "removed" /\ UNCHANGED <<row, sweep, faults>>
        /\ box' = [box EXCEPT ![d] = "removed"]
     \/ /\ box[d] = "removed" /\ UNCHANGED <<box, faults>>
        /\ row' = [row EXCEPT ![d] = "REMOVED"] /\ sweep' = sweep \ {d}
     \/ /\ Fault /\ sweep' = sweep \ {d} /\ UNCHANGED boxVars
  /\ UNCHANGED <<rowVars, runnerVars, apiVars, process, timedOut, boots, clock>>

\* The deploy runtime and the HTTP server start.
Serve ==
  /\ process = "sweeping" /\ sweep = {}
  /\ process' = "up"
  /\ UNCHANGED <<rowVars, boxVars, runnerVars, apiVars, sweep, timedOut, boots, clock, faults>>

Shutdown ==
  /\ process = "up" /\ boots < MaxBoots
  /\ process' = "draining"
  /\ UNCHANGED <<rowVars, boxVars, runnerVars, apiVars, sweep, timedOut, boots, clock, faults>>

\* Wait gives up: a deploy whose handler runs is failed as interrupted, while
\* the handler goes on until the process exits.
WaitTimeout ==
  /\ process = "draining" /\ ~timedOut /\ pc # "idle"
  /\ timedOut' = TRUE
  /\ IF pc # "ready" THEN CompleteOperation("failed") ELSE UNCHANGED <<op, dep>>
  /\ UNCHANGED <<created, order, cancelRequested, active, boxVars, runnerVars, apiVars,
                 process, sweep, boots, clock, faults>>

\* Only the database and the Docker daemon survive.
ProcessEnds ==
  /\ boots < MaxBoots
  /\ boots' = boots + 1
  /\ process' = "down" /\ sweep' = {} /\ timedOut' = FALSE
  /\ BecomeIdle
  /\ preparing' = {} /\ unread' = {} /\ cancelling' = {}
  /\ request' = [q \in Requests |-> IF InFlight(request[q])
                                     THEN [request[q] EXCEPT !.step = "done"] ELSE request[q]]
  /\ UNCHANGED <<rowVars, boxVars, asked, mislaid, clock, faults>>

Exit  == process = "draining" /\ (pc = "idle" \/ timedOut) /\ ProcessEnds
Crash == process # "down" /\ ProcessEnds

-----------------------------------------------------------------------------
RunnerStep ==
  \/ ReadyRefuses \/ ReadyAllows \/ Load \/ Begin \/ Build \/ Run \/ Attach
  \/ Health \/ Cutover \/ Activate \/ Teardown \/ Forget
  \/ MarkFailed \/ RemoveCandidate \/ ForgetCandidate \/ Return \/ Complete

RequestStep ==
  \/ \E d \in Deployments :
       Enqueue(d) \/ EnqueueFails(d) \/ EnqueueUnread(d) \/ FailUnread(d) \/ RequestCancellation(d)
  \/ \E q \in Requests : CallDocker(q) \/ WriteRow(q)

Next ==
  \/ Tick
  \/ \E d \in Deployments : Create(d) \/ Cancel(d) \/ Claim(d) \/ SweepContainer(d)
  \/ \E q \in Requests, kind \in {"stop", "restart"} : Resolve(q, kind)
  \/ RequestStep \/ IdlePoll \/ RunnerStep \/ StopSignal
  \/ Boot \/ Serve \/ Shutdown \/ WaitTimeout \/ Exit \/ Crash

Spec == Init /\ [][Next]_vars

(***************************************************************************)
(* Fairness: goroutines are scheduled, so an accepted request, the claim   *)
(* poll, the runner and the sweep take their next step; every Docker, git  *)
(* and network call of theirs carries a timeout or a cancellable context.  *)
(* systemd restarts the process.  Nothing forces a crash or a shutdown.    *)
(***************************************************************************)
Fairness ==
  /\ WF_vars(RunnerStep) /\ WF_vars(RequestStep)
  /\ WF_vars(\E d \in Deployments : Claim(d))
  /\ WF_vars(\E d \in Deployments : SweepContainer(d))
  /\ WF_vars(Boot) /\ WF_vars(Serve) /\ WF_vars(WaitTimeout) /\ WF_vars(Exit)

FairSpec == Spec /\ Fairness

-----------------------------------------------------------------------------
(* Properties.                                                             *)

\* It reached its cutover; only the request that enqueued it, when it could not
\* read the operation back, may mark it FAILED all the same (mislaid).
Succeeded(d) == dep[d] = "SUCCESS" \/ (dep[d] = "FAILED" /\ d \in mislaid)

\* The deployment the domains route to succeeded, and nothing, neither a
\* later cutover's teardown, nor a cancelled or failed deploy's cleanup, nor
\* the sweep, has removed its container (deploy_sweep.go:19-23,
\* store.go:251-253).
ActiveIsKept ==
  active # None => /\ Succeeded(active)
                   /\ box[active] \in {"running", "stopped"}
                   /\ row[active] \in {"RUNNING", "STOPPED"}

\* Requests of one operator, who waits for the answer to each: two at once for
\* one container write its row in an order that need not be that of Docker.
AskedAlone(d) == \A q, p \in Requests : request[q].target = d /\ request[p].target = d => q = p

\* The container whose port ListDomainRoutes publishes runs, while no request
\* for it is between its Docker call and its row write and nothing failed
\* (store.go:353-360).
RoutedContainerRuns ==
  /\ boots = 0 /\ faults = 0
  /\ active # None /\ row[active] = "RUNNING" /\ AskedAlone(active)
  /\ \A q \in Requests : request[q].target = active => ~InFlight(request[q])
  => box[active] = "running"

\* A cancelled deployment stays cancelled, whatever the work still in flight
\* concludes (store.go:44-52); a failed one is only reopened by a handler that
\* outlives its drain deadline, or when it was marked FAILED by the request
\* that could not read its committed operation back (mislaid).
OutcomeIsFinal ==
  [][\A d \in Deployments :
       \/ dep[d] = "CANCELLED"
       \/ dep[d] = "FAILED" /\ ~timedOut /\ d \notin mislaid
       => dep'[d] = dep[d]]_vars

\* The guard of UpdateDeploymentStatus is what cancels a deploy that a cancel
\* reached after its last boundary: it is never routed to.
CancelledIsNotRouted == active # None => active \notin asked

\* After recovery and the sweep the only tracked running container of a
\* failed or cancelled deployment is the one whose handler is still cleaning
\* up (store.go:243-249).
NoResidue ==
  process = "up" /\ faults = 0 =>
    \A d \in Deployments :
      row[d] = "RUNNING" /\ dep[d] \in {"FAILED", "CANCELLED"} => d = job

\* created_at tells the order in which the deployments were executed.
CreatedInOrder ==
  \A d, e \in Deployments :
    d # e /\ order[d] > 0 /\ order[e] > 0 =>
      /\ Priority[d] = Priority[e] /\ created[d] # created[e]
      /\ order[d] < order[e] => created[d] < created[e]

Superseded(d) == dep[d] = "SUCCESS" /\ active # d
Undisturbed   == process = "up" /\ pc = "idle" /\ boots = 0 /\ faults = 0

\* Each cutover removes the container it replaces, so only the active
\* deployment's is left running.
SupersededIsRemoved ==
  Undisturbed /\ CreatedInOrder =>
    \A d \in Deployments : Superseded(d) => box[d] # "running"

\* Every deployment that is created ends, over any process end, unless a write
\* of its outcome failed (operations_deploy.go:126-128).
DeploymentEnds ==
  \A d \in Deployments : dep[d] = "QUEUED" ~> dep[d] \in Ended \/ faults > 0

\* What deploy.go:115-121 is for: once a cancelled deploy is through, it
\* leaves no running container that nothing ever cleans up.
CancelledLeavesNothing ==
  \A d \in Deployments : dep[d] = "CANCELLED" /\ job # d => box[d] # "running"
=============================================================================
