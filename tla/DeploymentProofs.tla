--------------------------- MODULE DeploymentProofs ---------------------------
(***************************************************************************)
(* Theorems about Deployment, for every set of deployments and requests,   *)
(* every priority and every bound.                                         *)
(*                                                                         *)
(* That the routed container is kept is not inductive: it depends on what  *)
(* the runner will still write about its job (RunnerInv), on a deployment  *)
(* being executed only once, so that none that may still be claimed or     *)
(* marked failed by its own preparation is routed to (FreshInv), and on    *)
(* the sweep ending before anything is claimed (SweepInv).                 *)
(***************************************************************************)
EXTENDS Deployment, FiniteSetTheorems, TLAPS

\* Before the operation is claimed the deployment cannot have succeeded.
FreshInv ==
  /\ \A d \in Deployments : dep[d] = "absent" => op[d] = "absent"
  /\ \A d \in preparing : op[d] = "absent" /\ dep[d] # "absent"
  /\ \A d \in Deployments : op[d] \in {"absent", "queued"} => dep[d] # "SUCCESS"

Early    == {"ready", "load", "begin", "build", "run", "attach", "health", "cutover"}
Attached == {"health", "cutover", "activate"}

RunnerInv ==
  /\ pc # "idle" => op[job] \notin {"absent", "queued"}
  /\ pc \in Early => dep[job] # "SUCCESS"
  /\ pc = "activate" => Succeeded(job)
  /\ active # None => op[active] \notin {"absent", "queued"}
  /\ pc \in Early \cup {"activate", "undo"} => active # job
  /\ pc \in Attached \cup {"attach"} => box[job] \in {"running", "stopped"}
  /\ pc \in Attached => row[job] \in {"RUNNING", "STOPPED"}
  /\ pc \in {"begin", "build", "run", "attach", "teardown"} \cup Attached => prev # job
  /\ pc \in {"teardown", "forget"} => active = job /\ prev \in Deployments \ {job}

SweepInv ==
  /\ process \in {"down", "sweeping"} => pc = "idle"
  /\ sweep # {} => process = "sweeping"
  /\ active \notin sweep

\* As long as nothing fails every enqueued operation was read back.
QuietInv == faults = 0 => unread = {} /\ mislaid = {}

\* The inductive invariant.
DeployInv == TypeOK /\ FreshInv /\ RunnerInv /\ SweepInv /\ ActiveIsKept /\ QuietInv

-----------------------------------------------------------------------------
\* The steps of a failure path are taken off one by one, or two at a time when
\* a candidate could not be removed.
LEMMA CleanupTails ==
  \A u \in Cleanups : u # <<>> =>
    /\ Head(u) \in {"fail", "remove", "forget"}
    /\ Tail(u) \in Cleanups
    /\ Head(u) = "remove" => Tail(Tail(u)) \in Cleanups
<1>1. /\ Head(<<"fail">>) = "fail" /\ Tail(<<"fail">>) = <<>>
      /\ Head(<<"forget">>) = "forget" /\ Tail(<<"forget">>) = <<>>
  OBVIOUS
<1>2. /\ Head(<<"remove", "forget">>) = "remove"
      /\ Tail(<<"remove", "forget">>) = <<"forget">>
  OBVIOUS
<1>3. /\ Head(<<"forget", "fail">>) = "forget"
      /\ Tail(<<"forget", "fail">>) = <<"fail">>
  OBVIOUS
<1>4. /\ Head(<<"fail", "remove", "forget">>) = "fail"
      /\ Tail(<<"fail", "remove", "forget">>) = <<"remove", "forget">>
  OBVIOUS
<1>5. /\ Head(<<"remove", "forget", "fail">>) = "remove"
      /\ Tail(<<"remove", "forget", "fail">>) = <<"forget", "fail">>
  OBVIOUS
<1> QED
  BY <1>1, <1>2, <1>3, <1>4, <1>5, Zenon DEF Cleanups

\* The failure paths a step may begin.
LEMMA CleanupStarts ==
  /\ <<>> \in Cleanups
  /\ <<"fail">> \in Cleanups /\ <<"fail">> # <<>>
  /\ <<"fail", "remove", "forget">> \in Cleanups /\ <<"fail", "remove", "forget">> # <<>>
  /\ <<"remove", "forget", "fail">> \in Cleanups /\ <<"remove", "forget", "fail">> # <<>>
BY DEF Cleanups

\* Ending writes one live deployment, or nothing.
LEMMA EndingWrites ==
  ASSUME TypeOK, NEW d \in Deployments, NEW s \in Ended
  PROVE  /\ Ending(d, s) \in [Deployments -> {"absent"} \cup Live \cup Ended]
         /\ \A e \in Deployments : Ending(d, s)[e] # dep[e] =>
              e = d /\ dep[e] \in Live /\ Ending(d, s)[e] = s
BY DEF TypeOK, Ending, Live, Ended

\* So do the projections of an operation's end.
LEMMA ProjectionWrites ==
  ASSUME TypeOK, NEW d \in Deployments, NEW s \in OpEnded
  PROVE  /\ ProjectComplete(d, s) \in [Deployments -> {"absent"} \cup Live \cup Ended]
         /\ \A e \in Deployments : ProjectComplete(d, s)[e] # dep[e] =>
              /\ e = d /\ dep[e] \in Live
              /\ ProjectComplete(d, s)[e] \in Ended
              /\ s # "success" => ProjectComplete(d, s)[e] # "SUCCESS"
<1>1. CASE s = "success"
  BY <1>1, EndingWrites DEF ProjectComplete, OpEnded, Ended
<1>2. CASE s = "failed"
  BY <1>2, EndingWrites DEF ProjectComplete, OpEnded, Ended
<1>3. CASE s = "cancelled"
  BY <1>3, EndingWrites DEF ProjectComplete, OpEnded, Ended
<1> QED
  BY <1>1, <1>2, <1>3 DEF OpEnded

\* The runtime's completion ends the held row and projects it, or does nothing.
LEMMA CompletionWrites ==
  ASSUME TypeOK, job \in Deployments, NEW s \in OpEnded, CompleteOperation(s)
  PROVE  /\ op' \in [Deployments -> {"absent"} \cup OpLive \cup OpEnded]
         /\ dep' \in [Deployments -> {"absent"} \cup Live \cup Ended]
         /\ \A e \in Deployments : op'[e] # op[e] =>
              e = job /\ op[e] = "running" /\ op'[e] = s
         /\ \A e \in Deployments : dep'[e] # dep[e] =>
              /\ e = job /\ dep[e] \in Live /\ dep'[e] \in Ended
              /\ s # "success" => dep'[e] # "SUCCESS"
<1>1. CASE op[job] = "running"
  <2>1. op' = [op EXCEPT ![job] = s] /\ dep' = ProjectComplete(job, s)
    BY <1>1 DEF CompleteOperation
  <2>2. op' \in [Deployments -> {"absent"} \cup OpLive \cup OpEnded]
    BY <2>1 DEF TypeOK
  <2>3. \A e \in Deployments : op'[e] # op[e] => e = job /\ op[e] = "running" /\ op'[e] = s
    BY <1>1, <2>1 DEF TypeOK
  <2> QED
    BY <2>1, <2>2, <2>3, ProjectionWrites
<1>2. CASE op[job] # "running"
  BY <1>2 DEF CompleteOperation, TypeOK
<1> QED
  BY <1>1, <1>2

\* It holds initially.
LEMMA InitDeployInv == Init => DeployInv
<1> SUFFICES ASSUME Init PROVE DeployInv
  OBVIOUS
<1> USE DeploymentAssumption, CleanupStarts DEF Init
<1>1. TypeOK
  BY DEF TypeOK, RequestState, InFlight, Live, Ended, OpLive, OpEnded, Handling
<1>2. FreshInv /\ RunnerInv /\ SweepInv /\ ActiveIsKept /\ QuietInv
  BY DEF QuietInv, FreshInv, RunnerInv, SweepInv, ActiveIsKept, Early, Attached
<1> QED
  BY <1>1, <1>2 DEF DeployInv

-----------------------------------------------------------------------------
\* Whatever a step counts, the counter of faults stays a number.
LEMMA FaultsType ==
  ASSUME TypeOK, Fault \/ StepFails \/ UNCHANGED faults
  PROVE  faults' \in Nat
<1>1. faults \in Nat
  BY DEF TypeOK
<1>2. faults + 1 \in Nat
  BY <1>1
<1> QED
  BY <1>1, <1>2 DEF Fault, StepFails

\* API requests keep the types.
LEMMA RequestTypes ==
  ASSUME TypeOK,
         \/ Tick \/ RequestStep
         \/ \E d \in Deployments : Create(d) \/ Cancel(d)
         \/ \E q \in Requests, kind \in {"stop", "restart"} : Resolve(q, kind)
  PROVE  TypeOK'
<1> USE DeploymentAssumption, FaultsType
        DEF rowVars, boxVars, runnerVars, apiVars, processVars
<1>1. CASE Tick
  BY <1>1 DEF Tick, TypeOK
<1>2. ASSUME NEW d \in Deployments, Create(d) PROVE TypeOK'
  BY <1>2 DEF Create, Live, TypeOK
<1>3. ASSUME NEW d \in Deployments, Enqueue(d) \/ EnqueueUnread(d) PROVE TypeOK'
  <2>1. Cardinality({e \in Deployments : order[e] > 0}) \in Nat
    BY FS_Subset, FS_CardinalityType
  <2>2. order' \in [Deployments -> Nat]
    <3>1. Queued(d)
      BY <1>3 DEF Enqueue, EnqueueUnread
    <3> QED
      BY <2>1, <3>1 DEF Queued, TypeOK
  <2>3. op' \in [Deployments -> {"absent"} \cup OpLive \cup OpEnded]
    BY <1>3 DEF Enqueue, EnqueueUnread, Queued, OpLive, TypeOK
  <2>4. faults' \in Nat
    BY <1>3 DEF Enqueue, EnqueueUnread
  <2> QED
    BY <1>3, <2>2, <2>3, <2>4 DEF Enqueue, EnqueueUnread, TypeOK
<1>4. ASSUME NEW d \in Deployments, EnqueueFails(d) \/ FailUnread(d) PROVE TypeOK'
  <2>1. dep' \in [Deployments -> {"absent"} \cup Live \cup Ended]
    <3>1. MarkedFailed(d)
      BY <1>4 DEF EnqueueFails, FailUnread
    <3>2. dep' = dep \/ dep' = [dep EXCEPT ![d] = "FAILED"]
      BY <3>1 DEF MarkedFailed
    <3>3. "FAILED" \in Ended /\ dep \in [Deployments -> {"absent"} \cup Live \cup Ended]
      BY DEF Ended, TypeOK
    <3>. QED
      BY <3>2, <3>3
  <2>2. faults' \in Nat
    BY <1>4 DEF EnqueueFails, FailUnread
  <2>3. preparing' \subseteq Deployments /\ unread' \subseteq Deployments /\ mislaid' \subseteq Deployments
    BY <1>4 DEF EnqueueFails, FailUnread, TypeOK
  <2> QED
    BY <1>4, <2>1, <2>2, <2>3 DEF EnqueueFails, FailUnread, TypeOK
<1>5. ASSUME NEW d \in Deployments, Cancel(d) PROVE TypeOK'
  BY <1>5, EndingWrites DEF Cancel, Ended, TypeOK
<1>6. ASSUME NEW d \in Deployments, RequestCancellation(d) PROVE TypeOK'
  <2>1. dep' \in [Deployments -> {"absent"} \cup Live \cup Ended]
    BY <1>6, ProjectionWrites DEF RequestCancellation, OpEnded, TypeOK
  <2>2. op' \in [Deployments -> {"absent"} \cup OpLive \cup OpEnded]
    BY <1>6 DEF RequestCancellation, OpEnded, TypeOK
  <2>3. cancelRequested' \in [Deployments -> BOOLEAN]
    BY <1>6 DEF RequestCancellation, TypeOK
  <2>4. faults' \in Nat
    BY <1>6 DEF RequestCancellation
  <2> QED
    BY <1>6, <2>1, <2>2, <2>3, <2>4 DEF RequestCancellation, TypeOK
<1>7. ASSUME NEW q \in Requests, NEW kind \in {"stop", "restart"}, Resolve(q, kind) PROVE TypeOK'
  BY <1>7 DEF Resolve, TypeOK, InFlight, RequestState
<1> DEFINE Asks == /\ request \in [Requests -> RequestState]
                   /\ \A q \in Requests : InFlight(request[q]) => request[q].target # None
<1>8. ASSUME NEW q \in Requests, CallDocker(q) PROVE TypeOK'
  <2>1. box' \in [Deployments -> {"none", "running", "stopped", "removed"}]
    BY <1>8 DEF CallDocker, TypeOK
  <2>2. faults' \in Nat
    BY <1>8 DEF CallDocker, TypeOK
  <2>3. Asks'
    <3>1. /\ request[q].target # None
          /\ \/ request' = [request EXCEPT ![q].step = "row"]
             \/ request' = [request EXCEPT ![q].step = "done"]
      BY <1>8 DEF CallDocker, TypeOK, InFlight
    <3> DEFINE next(step) == [request[q] EXCEPT !.step = step]
    <3>2. \A step \in {"row", "done"} :
            next(step) \in RequestState /\ next(step).target = request[q].target
      <4> SUFFICES ASSUME NEW step \in {"row", "done"}
                   PROVE  next(step) \in RequestState /\ next(step).target = request[q].target
        OBVIOUS
      <4>1. request[q] \in RequestState
        BY DEF TypeOK
      <4>2. ASSUME NEW r \in RequestState
            PROVE  /\ [r EXCEPT !.step = step] \in RequestState
                   /\ [r EXCEPT !.step = step].target = r.target
        BY DEF RequestState
      <4> QED
        BY <4>1, <4>2
    <3>3. PICK step \in {"row", "done"} : request' = [request EXCEPT ![q] = next(step)]
      BY <3>1
    <3> HIDE DEF next
    <3>5. request' \in [Requests -> RequestState] /\ request'[q] = next(step)
      BY <3>2, <3>3 DEF TypeOK
    <3>4. \A p \in Requests \ {q} : request'[p] = request[p]
      BY <3>3 DEF TypeOK
    <3> QED
      BY <3>1, <3>2, <3>4, <3>5 DEF TypeOK, InFlight
  <2> QED
    BY <1>8, <2>1, <2>2, <2>3 DEF CallDocker, TypeOK
<1>9. ASSUME NEW q \in Requests, WriteRow(q) PROVE TypeOK'
  <2>1. row' \in [Deployments -> {"none", "RUNNING", "STOPPED", "REMOVED"}]
    BY <1>9 DEF WriteRow, TypeOK
  <2>2. faults' \in Nat
    BY <1>9 DEF WriteRow
  <2>3. Asks'
    BY <1>9, ZenonT(60) DEF WriteRow, TypeOK, InFlight, RequestState
  <2> QED
    BY <1>9, <2>1, <2>2, <2>3 DEF WriteRow, TypeOK
<1> QED
  BY <1>1, <1>2, <1>3, <1>4, <1>5, <1>6, <1>7, <1>8, <1>9 DEF RequestStep

\* The runner keeps the types.
LEMMA RunnerTypes ==
  ASSUME TypeOK, pc # "idle", RunnerStep \/ StopSignal
  PROVE  TypeOK'
<1> DEFINE Runner == /\ pc \in {"idle", "ready", "complete"} \cup Handling
                     /\ job \in Deployments \cup {None} /\ (job = None <=> pc = "idle")
                     /\ prev \in Deployments \cup {None} /\ ctxDone \in BOOLEAN
                     /\ undo \in Cleanups /\ (pc = "undo" <=> undo # <<>>)
                     /\ outcome \in OpEnded \cup {None}
                     /\ pc = "complete" => outcome \in OpEnded
<1> USE DeploymentAssumption, CleanupStarts, FaultsType
        DEF rowVars, boxVars, runnerVars, apiVars, processVars
<1>0. job \in Deployments /\ Runner
  BY DEF TypeOK
<1>f. faults' \in Nat
  BY DEF RunnerStep, StopSignal, ReadyRefuses, ReadyAllows, Load, Begin, Build, Run, Attach,
         Health, Cutover, Activate, Teardown, Forget, MarkFailed, RemoveCandidate,
         ForgetCandidate, Return, Complete
<1>u. UnwindCandidate => Runner'
  BY <1>0 DEF UnwindCandidate, Unwind, Handling
<1>1. CASE ReadyRefuses \/ Complete
  <2>1. /\ op' \in [Deployments -> {"absent"} \cup OpLive \cup OpEnded]
        /\ dep' \in [Deployments -> {"absent"} \cup Live \cup Ended]
    BY <1>0, <1>1, CompletionWrites DEF ReadyRefuses, Complete, OpEnded, TypeOK
  <2>2. Runner'
    BY <1>1 DEF ReadyRefuses, Complete, BecomeIdle
  <2> QED
    BY <1>1, <1>f, <2>1, <2>2 DEF ReadyRefuses, Complete, TypeOK
<1>2. CASE ReadyAllows
  BY <1>2, <1>f DEF ReadyAllows, GoTo, Handling, TypeOK
<1>3. CASE Load
  BY <1>3, <1>f DEF Load, LatestSuccess, OpEnded, Handling, TypeOK
<1>4. CASE Begin
  <2>1. Runner'
    BY <1>0, <1>4 DEF Begin, GoTo, Handling
  <2>2. dep' \in [Deployments -> {"absent"} \cup Live \cup Ended]
    BY <1>4 DEF Begin, Live, TypeOK
  <2> QED
    BY <1>4, <1>f, <2>1, <2>2 DEF Begin, TypeOK
<1>5. CASE Build \/ Health
  <2>1. Runner'
    BY <1>0, <1>5, <1>u DEF Build, Health, GoTo, Unwind, Handling
  <2> QED
    BY <1>5, <1>f, <2>1 DEF Build, Health, TypeOK
<1>6. CASE Run
  <2>1. Runner'
    BY <1>0, <1>6 DEF Run, GoTo, Unwind, Handling
  <2>2. box' \in [Deployments -> {"none", "running", "stopped", "removed"}]
    BY <1>6 DEF Run, TypeOK
  <2> QED
    BY <1>6, <1>f, <2>1, <2>2 DEF Run, TypeOK
<1>7. CASE Attach
  <2>1. Runner'
    BY <1>0, <1>7 DEF Attach, GoTo, Unwind, Handling
  <2>2. row' \in [Deployments -> {"none", "RUNNING", "STOPPED", "REMOVED"}]
    BY <1>7 DEF Attach, TypeOK
  <2> QED
    BY <1>7, <1>f, <2>1, <2>2 DEF Attach, TypeOK
<1>8. CASE Cutover
  <2>1. Runner'
    BY <1>0, <1>8, <1>u DEF Cutover, GoTo, Handling
  <2>2. dep' \in [Deployments -> {"absent"} \cup Live \cup Ended]
    BY <1>8 DEF Cutover, Ended, TypeOK
  <2> QED
    BY <1>8, <1>f, <2>1, <2>2 DEF Cutover, TypeOK
<1>9. CASE Activate
  <2>1. Runner'
    BY <1>0, <1>9 DEF Activate, GoTo, Unwind, Handling
  <2>2. active' \in Deployments \cup {None}
    BY <1>0, <1>9 DEF Activate, TypeOK
  <2> QED
    BY <1>9, <1>f, <2>1, <2>2 DEF Activate, TypeOK
<1>10. CASE Teardown \/ Forget
  <2>1. Runner'
    BY <1>0, <1>10 DEF Teardown, Forget, GoTo, Handling
  <2>2. /\ box' \in [Deployments -> {"none", "running", "stopped", "removed"}]
        /\ row' \in [Deployments -> {"none", "RUNNING", "STOPPED", "REMOVED"}]
    BY <1>10 DEF Teardown, Forget, TypeOK
  <2> QED
    BY <1>10, <1>f, <2>1, <2>2 DEF Teardown, Forget, TypeOK
<1> DEFINE Undoing == pc' = (IF undo' = <<>> THEN "return" ELSE "undo") /\ undo' \in Cleanups
<1>v. ASSUME Undoing, UNCHANGED <<job, prev, outcome>>, ctxDone' \in BOOLEAN PROVE Runner'
  BY <1>0, <1>v DEF Handling
<1>11. CASE MarkFailed
  <2>1. Undoing
    BY <1>0, <1>11, CleanupTails DEF MarkFailed, Undone
  <2>2. Runner'
    BY <1>0, <1>v, <1>11, <2>1 DEF MarkFailed, Undone
  <2>3. dep' \in [Deployments -> {"absent"} \cup Live \cup Ended]
    <3>1. \/ dep' = Ending(job, "CANCELLED") \/ dep' = dep
          \/ dep' = [dep EXCEPT ![job] = "FAILED"]
      BY <1>11 DEF MarkFailed
    <3>2. Ending(job, "CANCELLED") \in [Deployments -> {"absent"} \cup Live \cup Ended]
      BY <1>0, EndingWrites DEF Ended
    <3> QED
      BY <1>0, <3>1, <3>2 DEF Ended, TypeOK
  <2> QED
    BY <1>11, <1>f, <2>2, <2>3 DEF MarkFailed, TypeOK
<1>12. CASE RemoveCandidate \/ ForgetCandidate
  <2>1. Undoing
    BY <1>0, <1>12, CleanupTails DEF RemoveCandidate, ForgetCandidate, Undone
  <2>2. Runner'
    BY <1>0, <1>v, <1>12, <2>1 DEF RemoveCandidate, ForgetCandidate, Undone
  <2>3. /\ box' \in [Deployments -> {"none", "running", "stopped", "removed"}]
        /\ row' \in [Deployments -> {"none", "RUNNING", "STOPPED", "REMOVED"}]
    BY <1>12 DEF RemoveCandidate, ForgetCandidate, TypeOK
  <2> QED
    BY <1>12, <1>f, <2>2, <2>3 DEF RemoveCandidate, ForgetCandidate, TypeOK
<1>13. CASE Return
  BY <1>13, <1>f DEF Return, OpEnded, TypeOK
<1>14. CASE StopSignal
  BY <1>14, <1>f DEF StopSignal, TypeOK
<1> QED
  BY <1>1, <1>2, <1>3, <1>4, <1>5, <1>6, <1>7, <1>8, <1>9, <1>10, <1>11, <1>12, <1>13, <1>14
     DEF RunnerStep

\* Claims, starts and ends of the process keep the types.
LEMMA ProcessTypes ==
  ASSUME TypeOK,
         \/ \E d \in Deployments : Claim(d) \/ SweepContainer(d)
         \/ Boot \/ Serve \/ Shutdown \/ WaitTimeout \/ Exit \/ Crash
  PROVE  TypeOK'
<1> USE DeploymentAssumption, CleanupStarts, FaultsType
        DEF rowVars, boxVars, runnerVars, apiVars, processVars
<1>1. ASSUME NEW d \in Deployments, Claim(d) PROVE TypeOK'
  BY <1>1 DEF Claim, Live, OpLive, TypeOK
<1>2. ASSUME NEW d \in Deployments, SweepContainer(d) PROVE TypeOK'
  <2>1. faults' \in Nat
    BY <1>2 DEF SweepContainer
  <2>2. /\ box' \in [Deployments -> {"none", "running", "stopped", "removed"}]
        /\ row' \in [Deployments -> {"none", "RUNNING", "STOPPED", "REMOVED"}]
        /\ sweep' \subseteq Deployments
    BY <1>2 DEF SweepContainer, TypeOK
  <2> QED
    BY <1>2, <2>1, <2>2 DEF SweepContainer, TypeOK
<1>3. CASE Boot
  BY <1>3 DEF Boot, Ended, OpEnded, TypeOK
<1>4. CASE Serve \/ Shutdown
  BY <1>4 DEF Serve, Shutdown, TypeOK
<1>5. CASE WaitTimeout
  <2>1. /\ op' \in [Deployments -> {"absent"} \cup OpLive \cup OpEnded]
        /\ dep' \in [Deployments -> {"absent"} \cup Live \cup Ended]
    BY <1>5, CompletionWrites DEF WaitTimeout, OpEnded, TypeOK
  <2> QED
    BY <1>5, <2>1 DEF WaitTimeout, TypeOK
<1>6. CASE ProcessEnds
  <2>0. boots' = boots + 1
    BY <1>6 DEF ProcessEnds
  <2>. boots \in Nat
    BY DEF TypeOK
  <2>1. boots' \in Nat
    BY <2>0
  <2>2. /\ request' \in [Requests -> RequestState]
        /\ \A q \in Requests : InFlight(request'[q]) => request'[q].target # None
    <3>1. request' = [q \in Requests |-> IF InFlight(request[q])
                                          THEN [request[q] EXCEPT !.step = "done"] ELSE request[q]]
      BY <1>6 DEF ProcessEnds
    <3>2. ASSUME NEW q \in Requests
          PROVE  /\ request'[q] \in RequestState
                 /\ InFlight(request'[q]) => request'[q].target # None
      <4>1. request[q] \in RequestState /\ (InFlight(request[q]) => request[q].target # None)
        BY DEF TypeOK
      <4>2. [request[q] EXCEPT !.step = "done"] \in RequestState /\ ~InFlight([request[q] EXCEPT !.step = "done"])
        BY <4>1 DEF RequestState, InFlight
      <4> QED
        BY <3>1, <4>1, <4>2
    <3> QED
      BY <3>1, <3>2
  <2> QED
    BY <1>6, <2>1, <2>2, ZenonT(60) DEF ProcessEnds, BecomeIdle, TypeOK
<1> QED
  BY <1>1, <1>2, <1>3, <1>4, <1>5, <1>6 DEF Exit, Crash

\* Every step keeps the types.
LEMMA TypeOKStep == TypeOK /\ [Next]_vars => TypeOK'
<1> SUFFICES ASSUME TypeOK, [Next]_vars PROVE TypeOK'
  OBVIOUS
<1>1. CASE UNCHANGED vars \/ IdlePoll
  BY <1>1 DEF IdlePoll, vars, rowVars, boxVars, runnerVars, apiVars, processVars, TypeOK, InFlight
<1>2. CASE RunnerStep \/ StopSignal
  <2>1. pc # "idle"
    BY <1>2 DEF RunnerStep, StopSignal, ReadyRefuses, ReadyAllows, Load, Begin, Build, Run,
                Attach, Health, Cutover, Activate, Teardown, Forget, MarkFailed,
                RemoveCandidate, ForgetCandidate, Return, Complete, Handling
  <2> QED
    BY <1>2, <2>1, RunnerTypes
<1> QED
  BY <1>1, <1>2, RequestTypes, ProcessTypes DEF Next

-----------------------------------------------------------------------------
\* A deployment that is not claimed yet cannot be written as a success.
LEMMA FreshInvStep == TypeOK /\ FreshInv /\ RunnerInv /\ [Next]_vars => FreshInv'
<1> SUFFICES ASSUME TypeOK, FreshInv, RunnerInv, [Next]_vars PROVE FreshInv'
  OBVIOUS
<1> USE DEF rowVars, boxVars, runnerVars, apiVars, processVars
<1>1. CASE UNCHANGED <<dep, op, preparing>>
  BY <1>1 DEF FreshInv
<1>2. ASSUME NEW d \in Deployments, Create(d) PROVE FreshInv'
  BY <1>2 DEF FreshInv, Create, TypeOK
<1>3. ASSUME NEW d \in Deployments,
             Enqueue(d) \/ EnqueueFails(d) \/ EnqueueUnread(d) \/ FailUnread(d)
      PROVE  FreshInv'
  <2>1. CASE Enqueue(d) \/ EnqueueUnread(d)
    BY <1>3, <2>1 DEF FreshInv, Enqueue, EnqueueUnread, Queued, TypeOK
  <2>2. CASE EnqueueFails(d) \/ FailUnread(d)
    BY <1>3, <2>2 DEF FreshInv, EnqueueFails, FailUnread, MarkedFailed, TypeOK
  <2> QED
    BY <1>3, <2>1, <2>2
<1>4. ASSUME NEW d \in Deployments, Cancel(d) PROVE FreshInv'
  BY <1>4, EndingWrites DEF FreshInv, Cancel, Live, Ended, TypeOK
<1>5. ASSUME NEW d \in Deployments, RequestCancellation(d) PROVE FreshInv'
  <2>1. CASE UNCHANGED <<dep, op>>
    BY <1>5, <2>1 DEF FreshInv, RequestCancellation
  <2>2. CASE /\ op[d] = "queued" /\ op' = [op EXCEPT ![d] = "cancelled"]
             /\ dep' = ProjectComplete(d, "cancelled")
    <3>1. \A e \in Deployments : dep'[e] # dep[e] =>
            e = d /\ dep[e] \in Live /\ dep'[e] \in Ended /\ dep'[e] # "SUCCESS"
      BY <2>2, ProjectionWrites DEF OpEnded
    <3> QED
      BY <1>5, <2>2, <3>1 DEF FreshInv, RequestCancellation, Live, Ended, TypeOK
  <2> QED
    BY <1>5, <2>1, <2>2 DEF RequestCancellation
<1>6. ASSUME NEW d \in Deployments, Claim(d) PROVE FreshInv'
  BY <1>6 DEF FreshInv, Claim, Claimable, TypeOK
<1>7. CASE ReadyRefuses \/ Complete \/ WaitTimeout
  <2>1. CASE UNCHANGED <<dep, op>>
    BY <1>7, <2>1 DEF FreshInv, ReadyRefuses, Complete, WaitTimeout
  <2>2. ASSUME NEW s \in OpEnded, CompleteOperation(s), pc # "idle" PROVE FreshInv'
    <3>1. job \in Deployments
      BY <2>2 DEF TypeOK
    <3>2. \A e \in Deployments : op'[e] # op[e] =>
            e = job /\ op[e] = "running" /\ op'[e] \in OpEnded
      BY <2>2, <3>1, CompletionWrites
    <3>3. \A e \in Deployments : dep'[e] # dep[e] => e = job /\ dep'[e] # "absent"
      BY <2>2, <3>1, CompletionWrites DEF Ended
    <3>4. UNCHANGED preparing /\ preparing \subseteq Deployments
      BY <1>7 DEF ReadyRefuses, Complete, WaitTimeout, TypeOK
    <3>5. op[job] \notin {"absent", "queued"}
      BY <2>2 DEF RunnerInv
    <3>6. \A e \in Deployments : dep'[e] = "absent" => op'[e] = "absent"
      BY <3>2, <3>3 DEF FreshInv
    <3>7. \A e \in preparing' : op'[e] = "absent" /\ dep'[e] # "absent"
      BY <3>2, <3>3, <3>4 DEF FreshInv
    <3>8. \A e \in Deployments : op'[e] \in {"absent", "queued"} => dep'[e] # "SUCCESS"
      BY <3>2, <3>3, <3>5 DEF FreshInv, OpEnded
    <3> QED
      BY <3>6, <3>7, <3>8 DEF FreshInv
  <2> QED
    BY <1>7, <2>1, <2>2 DEF ReadyRefuses, Complete, WaitTimeout, OpEnded, TypeOK
<1>8. CASE Begin \/ Cutover
  BY <1>8 DEF Begin, Cutover, FreshInv, RunnerInv, TypeOK
<1>9. CASE MarkFailed
  <2>1. job \in Deployments /\ pc # "idle"
    BY <1>9 DEF MarkFailed, TypeOK
  <2>2. \/ dep' = Ending(job, "CANCELLED") \/ dep' = dep
        \/ dep' = [dep EXCEPT ![job] = "FAILED"]
    BY <1>9 DEF MarkFailed
  <2>3. \A e \in Deployments : dep'[e] # dep[e] => e = job /\ dep'[e] # "absent"
    BY <2>1, <2>2, EndingWrites DEF Ended, TypeOK
  <2>4. UNCHANGED <<op, preparing>> /\ preparing \subseteq Deployments
    BY <1>9 DEF MarkFailed, TypeOK
  <2>5. op[job] \notin {"absent", "queued"}
    BY <2>1 DEF RunnerInv
  <2>6. \A e \in Deployments : dep'[e] = "absent" => op'[e] = "absent"
    BY <2>3, <2>4 DEF FreshInv
  <2>7. \A e \in preparing' : op'[e] = "absent" /\ dep'[e] # "absent"
    BY <2>3, <2>4 DEF FreshInv
  <2>8. \A e \in Deployments : op'[e] \in {"absent", "queued"} => dep'[e] # "SUCCESS"
    BY <2>3, <2>4, <2>5 DEF FreshInv
  <2> QED
    BY <2>6, <2>7, <2>8 DEF FreshInv
<1>10. CASE Boot
  BY <1>10 DEF Boot, Orphaned, FreshInv, Live, TypeOK
<1>11. CASE Exit \/ Crash
  BY <1>11 DEF Exit, Crash, ProcessEnds, FreshInv
<1>12. ASSUME NEW q \in Requests,
              CallDocker(q) \/ WriteRow(q) \/ \E kind \in {"stop", "restart"} : Resolve(q, kind)
       PROVE  FreshInv'
  BY <1>1, <1>12 DEF CallDocker, WriteRow, Resolve
<1>13. CASE \/ ReadyAllows \/ Load \/ Build \/ Run \/ Attach \/ Health \/ Activate
            \/ Teardown \/ Forget \/ RemoveCandidate \/ ForgetCandidate \/ Return \/ StopSignal
  BY <1>1, <1>13 DEF ReadyAllows, Load, Build, Run, Attach, Health, Activate, Teardown, Forget,
       RemoveCandidate, ForgetCandidate, Return, StopSignal
<1>14. CASE Tick \/ Serve \/ Shutdown \/ IdlePoll \/ \E d \in Deployments : SweepContainer(d)
  BY <1>1, <1>14 DEF Tick, Serve, Shutdown, IdlePoll, SweepContainer, vars
<1> QED
  BY <1>1, <1>2, <1>3, <1>4, <1>5, <1>6, <1>7, <1>8, <1>9, <1>10, <1>11, <1>12, <1>13, <1>14
     DEF Next, vars, RunnerStep, RequestStep

-----------------------------------------------------------------------------
\* What every step does that neither moves the runner nor routes anew.
Keeps ==
  /\ UNCHANGED <<pc, job, prev, active>>
  /\ \A d \in Deployments : op[d] \notin {"absent", "queued"} => op'[d] \notin {"absent", "queued"}
  /\ mislaid \subseteq mislaid'
  /\ \A d \in Deployments : dep'[d] = "SUCCESS" => dep[d] = "SUCCESS"
  /\ \A d \in Deployments : Succeeded(d) => Succeeded(d)'
  /\ \A d \in Deployments : box[d] \in {"running", "stopped"} => box'[d] \in {"running", "stopped"}
  /\ \A d \in Deployments : row[d] \in {"RUNNING", "STOPPED"} => row'[d] \in {"RUNNING", "STOPPED"}

\* Such a step preserves the runner's facts and the routed container.
LEMMA KeepsInvariants ==
  ASSUME TypeOK, RunnerInv, ActiveIsKept, Keeps
  PROVE  RunnerInv' /\ ActiveIsKept'
<1>1. pc # "idle" => job \in Deployments
  BY DEF TypeOK
<1>2. RunnerInv'
  <2>1. active' # None => op'[active'] \notin {"absent", "queued"}
    BY DEF RunnerInv, Keeps, TypeOK
  <2> QED
    BY <1>1, <2>1 DEF RunnerInv, Keeps, Early, Attached
<1>3. ActiveIsKept'
  BY DEF ActiveIsKept, Keeps, TypeOK
<1> QED
  BY <1>2, <1>3

\* API requests, the drain's deadline and the lease's signal keep all that.
LEMMA RequestsKeep ==
  ASSUME TypeOK, FreshInv,
         \/ Tick \/ RequestStep \/ Serve \/ Shutdown \/ WaitTimeout \/ StopSignal
         \/ \E d \in Deployments : Create(d) \/ Cancel(d)
         \/ \E q \in Requests, kind \in {"stop", "restart"} : Resolve(q, kind)
  PROVE  Keeps
<1> USE DEF Keeps, Succeeded, rowVars, boxVars, runnerVars, apiVars, processVars
<1>1. CASE Tick \/ Serve \/ Shutdown \/ StopSignal
  BY <1>1 DEF Tick, Serve, Shutdown, StopSignal
<1>2. ASSUME NEW d \in Deployments, Create(d) PROVE Keeps
  BY <1>2 DEF Create, TypeOK
<1>3. ASSUME NEW d \in Deployments, Enqueue(d) \/ EnqueueUnread(d) PROVE Keeps
  BY <1>3 DEF Enqueue, EnqueueUnread, Queued, FreshInv, TypeOK
<1>4. ASSUME NEW d \in Deployments, EnqueueFails(d) PROVE Keeps
  BY <1>4 DEF EnqueueFails, MarkedFailed, FreshInv, TypeOK
<1>11. ASSUME NEW d \in Deployments, FailUnread(d) PROVE Keeps
  BY <1>11 DEF FailUnread, MarkedFailed, TypeOK
<1>5. ASSUME NEW d \in Deployments, Cancel(d) PROVE Keeps
  BY <1>5, EndingWrites DEF Cancel, Live, Ended
<1>6. ASSUME NEW d \in Deployments, RequestCancellation(d) PROVE Keeps
  <2>1. CASE UNCHANGED <<dep, op>>
    BY <1>6, <2>1 DEF RequestCancellation
  <2>2. CASE /\ op[d] = "queued" /\ op' = [op EXCEPT ![d] = "cancelled"]
             /\ dep' = ProjectComplete(d, "cancelled")
    <3>1. \A e \in Deployments : dep'[e] # dep[e] => dep[e] \in Live /\ dep'[e] # "SUCCESS"
      BY <2>2, ProjectionWrites DEF OpEnded
    <3> QED
      BY <1>6, <2>2, <3>1 DEF RequestCancellation, Live, TypeOK
  <2> QED
    BY <1>6, <2>1, <2>2 DEF RequestCancellation
<1>7. ASSUME NEW q \in Requests, NEW kind \in {"stop", "restart"}, Resolve(q, kind) PROVE Keeps
  BY <1>7 DEF Resolve
<1>8. ASSUME NEW q \in Requests, CallDocker(q) PROVE Keeps
  BY <1>8 DEF CallDocker, TypeOK
<1>9. ASSUME NEW q \in Requests, WriteRow(q) PROVE Keeps
  BY <1>9 DEF WriteRow, TypeOK
<1>10. CASE WaitTimeout
  <2>1. CASE UNCHANGED <<dep, op>>
    BY <1>10, <2>1 DEF WaitTimeout
  <2>2. CASE CompleteOperation("failed")
    <3>1. job \in Deployments
      BY <1>10 DEF WaitTimeout, TypeOK
    <3>2. /\ \A e \in Deployments : op'[e] # op[e] => op'[e] = "failed"
          /\ \A e \in Deployments : dep'[e] # dep[e] => dep[e] \in Live /\ dep'[e] # "SUCCESS"
      BY <2>2, <3>1, CompletionWrites DEF OpEnded
    <3> QED
      BY <1>10, <3>2 DEF WaitTimeout, Live
  <2> QED
    BY <1>10, <2>1, <2>2 DEF WaitTimeout
<1> QED
  BY <1>1, <1>2, <1>3, <1>4, <1>5, <1>6, <1>7, <1>8, <1>9, <1>10, <1>11 DEF RequestStep

-----------------------------------------------------------------------------
\* Up to cutover, and on its failure path, the runner writes its own job,
\* which is not the active deployment.
LEMMA CandidateSteps ==
  ASSUME TypeOK, RunnerInv, ActiveIsKept,
         \/ ReadyAllows \/ Load \/ Begin \/ Build \/ Run \/ Attach \/ Health \/ Cutover
         \/ MarkFailed \/ RemoveCandidate \/ ForgetCandidate
  PROVE  RunnerInv' /\ ActiveIsKept'
<1> USE DEF Succeeded, rowVars, boxVars, runnerVars, apiVars, processVars
<1>1. pc \in Early \cup {"undo"} /\ job \in Deployments /\ active # job
  BY DEF ReadyAllows, Load, Begin, Build, Run, Attach, Health, Cutover, MarkFailed,
         RemoveCandidate, ForgetCandidate, Early, TypeOK, RunnerInv
<1>2. /\ UNCHANGED <<job, active, op, mislaid>>
      /\ \A d \in Deployments \ {job} : dep'[d] = dep[d] /\ row'[d] = row[d] /\ box'[d] = box[d]
  <2>1. UNCHANGED <<job, active, op, mislaid>>
    BY DEF ReadyAllows, Load, Begin, Build, Run, Attach, Health, Cutover, MarkFailed,
           RemoveCandidate, ForgetCandidate, GoTo, Unwind, UnwindCandidate, Undone
  <2>2. \A d \in Deployments \ {job} : dep'[d] = dep[d]
    <3>1. \/ dep' = dep \/ dep' = Ending(job, "CANCELLED")
          \/ \E s \in {"BUILDING", "SUCCESS", "FAILED"} : dep' = [dep EXCEPT ![job] = s]
      BY DEF ReadyAllows, Load, Begin, Build, Run, Attach, Health, Cutover, MarkFailed,
             RemoveCandidate, ForgetCandidate
    <3> QED
      BY <1>1, <3>1 DEF Ending, TypeOK
  <2>3. \A d \in Deployments \ {job} : row'[d] = row[d]
    <3>1. row' = row \/ \E s \in {"RUNNING", "REMOVED"} : row' = [row EXCEPT ![job] = s]
      BY DEF ReadyAllows, Load, Begin, Build, Run, Attach, Health, Cutover, MarkFailed,
             RemoveCandidate, ForgetCandidate
    <3> QED
      BY <3>1 DEF TypeOK
  <2>4. \A d \in Deployments \ {job} : box'[d] = box[d]
    <3>1. \/ box' = box
          \/ \E s \in {"running", "stopped", "removed"} : box' = [box EXCEPT ![job] = s]
      BY DEF ReadyAllows, Load, Begin, Build, Run, Attach, Health, Cutover, MarkFailed,
             RemoveCandidate, ForgetCandidate
    <3> QED
      BY <3>1 DEF TypeOK
  <2> QED
    BY <2>1, <2>2, <2>3, <2>4
<1>3. ActiveIsKept'
  BY <1>1, <1>2 DEF ActiveIsKept, TypeOK
<1>4. op'[job'] \notin {"absent", "queued"} /\ active' # job'
  BY <1>1, <1>2 DEF RunnerInv, Early
<1> DEFINE Begun == active' # None => op'[active'] \notin {"absent", "queued"}
<1>b. Begun
  BY <1>2 DEF RunnerInv
<1>5. CASE pc' \in {"undo", "return", "complete"}
  BY <1>b, <1>3, <1>4, <1>5 DEF RunnerInv, Early, Attached
<1>6. CASE ReadyAllows
  BY <1>b, <1>3, <1>4, <1>6 DEF RunnerInv, ReadyAllows, GoTo, Early, Attached
<1>7. CASE Load
  <2>1. dep[job] # "SUCCESS"
    BY <1>7 DEF Load, RunnerInv, Early
  <2>2. LatestSuccess \subseteq Deployments \ {job}
    BY <2>1 DEF LatestSuccess
  <2>3. pc' = "complete" \/ (pc' = "begin" /\ prev' # job)
    BY <1>1, <1>7, <2>2, DeploymentAssumption DEF Load
  <2>4. CASE pc' = "begin"
    BY <1>b, <1>3, <1>4, <1>7, <2>1, <2>3, <2>4 DEF RunnerInv, Load, Early, Attached
  <2> QED
    BY <1>5, <2>3, <2>4
<1>8. CASE Begin
  BY <1>1, <1>b, <1>3, <1>4, <1>5, <1>8 DEF RunnerInv, Begin, GoTo, Early, Attached, TypeOK
<1>9. CASE Build
  BY <1>1, <1>b, <1>3, <1>4, <1>5, <1>9 DEF RunnerInv, Build, GoTo, Unwind, Early, Attached, TypeOK
<1>10. CASE Run
  BY <1>1, <1>b, <1>3, <1>4, <1>5, <1>10 DEF RunnerInv, Run, GoTo, Unwind, Early, Attached, TypeOK
<1>11. CASE Attach
  BY <1>1, <1>b, <1>3, <1>4, <1>5, <1>11 DEF RunnerInv, Attach, GoTo, Unwind, Early, Attached, TypeOK
<1>12. CASE Health
  BY <1>1, <1>b, <1>3, <1>4, <1>5, <1>12
     DEF RunnerInv, Health, GoTo, Unwind, UnwindCandidate, Early, Attached, TypeOK
<1>13. CASE Cutover
  BY <1>1, <1>b, <1>3, <1>4, <1>5, <1>13
     DEF RunnerInv, Cutover, GoTo, Unwind, UnwindCandidate, Early, Attached, TypeOK
<1>14. CASE MarkFailed \/ RemoveCandidate \/ ForgetCandidate
  BY <1>5, <1>14 DEF MarkFailed, RemoveCandidate, ForgetCandidate, Undone
<1> QED
  BY <1>6, <1>7, <1>8, <1>9, <1>10, <1>11, <1>12, <1>13, <1>14

\* The candidate becomes active whole, and the container removed after that is
\* another one.
LEMMA ActivationSteps ==
  ASSUME TypeOK, RunnerInv, ActiveIsKept,
         \/ Activate \/ Teardown \/ Forget \/ Return \/ ReadyRefuses \/ Complete
  PROVE  RunnerInv' /\ ActiveIsKept'
<1> USE DEF Succeeded, rowVars, boxVars, runnerVars, apiVars, processVars
<1>1. job \in Deployments /\ op[job] \notin {"absent", "queued"}
  BY DEF Activate, Teardown, Forget, Return, ReadyRefuses, Complete, TypeOK, RunnerInv
<1>2. CASE Activate
  <2>1. /\ Succeeded(job)
        /\ box[job] \in {"running", "stopped"}
        /\ row[job] \in {"RUNNING", "STOPPED"} /\ prev # job /\ active # job
    BY <1>2 DEF Activate, RunnerInv, Attached
  <2>2. CASE active' = job
    BY <1>1, <1>2, <2>1, <2>2, DeploymentAssumption
       DEF Activate, GoTo, Unwind, RunnerInv, ActiveIsKept, Early, Attached, TypeOK
  <2>3. CASE UNCHANGED active /\ Unwind(<<"fail", "remove", "forget">>)
    BY <1>1, <1>2, <2>1, <2>3
       DEF Activate, Unwind, RunnerInv, ActiveIsKept, Early, Attached, TypeOK
  <2> QED
    BY <1>2, <2>2, <2>3 DEF Activate
<1>3. CASE Teardown \/ Forget
  <2>1. active = job /\ prev \in Deployments \ {job}
    BY <1>3 DEF Teardown, Forget, RunnerInv
  <2>2. /\ UNCHANGED <<job, active, prev, op, dep, mislaid>> /\ pc' \in {"forget", "return"}
        /\ \A d \in Deployments \ {prev} : row'[d] = row[d] /\ box'[d] = box[d]
    BY <1>3, <2>1 DEF Teardown, Forget, GoTo, TypeOK
  <2> QED
    BY <1>1, <2>1, <2>2 DEF RunnerInv, ActiveIsKept, Early, Attached, TypeOK
<1>4. CASE Return
  BY <1>1, <1>4 DEF Return, RunnerInv, ActiveIsKept, Early, Attached, TypeOK
<1>5. CASE ReadyRefuses \/ Complete
  <2>1. pc' = "idle" /\ UNCHANGED <<active, row, box, mislaid>>
    BY <1>5 DEF ReadyRefuses, Complete, BecomeIdle
  <2>2. \A d \in Deployments : dep'[d] # dep[d] => dep[d] \in Live
    BY <1>1, <1>5, CompletionWrites DEF ReadyRefuses, Complete, OpEnded, TypeOK
  <2>3. ActiveIsKept'
    BY <2>1, <2>2 DEF ActiveIsKept, Live, TypeOK
  <2>4. \A d \in Deployments : op[d] \notin {"absent", "queued"} => op'[d] \notin {"absent", "queued"}
    BY <1>1, <1>5, CompletionWrites DEF ReadyRefuses, Complete, OpEnded, TypeOK
  <2>5. active' # None => op'[active'] \notin {"absent", "queued"}
    BY <2>1, <2>4 DEF RunnerInv, TypeOK
  <2> QED
    BY <2>1, <2>3, <2>5 DEF RunnerInv, Early, Attached
<1> QED
  BY <1>2, <1>3, <1>4, <1>5

\* A claim finds a deployment that has not succeeded; a start fails live
\* deployments only; the sweep leaves the active container alone.
LEMMA ProcessSteps ==
  ASSUME TypeOK, FreshInv, RunnerInv, SweepInv, ActiveIsKept,
         \/ \E d \in Deployments : Claim(d) \/ SweepContainer(d)
         \/ Boot \/ Exit \/ Crash
  PROVE  RunnerInv' /\ ActiveIsKept'
<1> USE DEF Succeeded, rowVars, boxVars, runnerVars, apiVars, processVars
<1> DEFINE Begun == active' # None => op'[active'] \notin {"absent", "queued"}
<1>i. ASSUME pc' = "idle", Begun PROVE RunnerInv'
  BY <1>i DEF RunnerInv, Early, Attached
<1>1. ASSUME NEW d \in Deployments, Claim(d) PROVE RunnerInv' /\ ActiveIsKept'
  <2>1. op[d] = "queued" /\ dep[d] # "SUCCESS"
    BY <1>1 DEF Claim, Claimable, FreshInv
  <2>2. active # d
    BY <2>1, DeploymentAssumption DEF RunnerInv
  <2>3. dep'[d] # "SUCCESS" /\ \A e \in Deployments \ {d} : dep'[e] = dep[e]
    BY <1>1, <2>1 DEF Claim, TypeOK
  <2>4. UNCHANGED <<active, row, box, mislaid>> /\ job' = d /\ pc' = "ready" /\ op'[d] = "running"
    BY <1>1 DEF Claim, TypeOK
  <2>5. ActiveIsKept'
    BY <2>2, <2>3, <2>4 DEF ActiveIsKept, TypeOK
  <2>6. Begun
    BY <1>1, <2>2, <2>4 DEF Claim, RunnerInv, TypeOK
  <2> QED
    BY <2>2, <2>3, <2>4, <2>5, <2>6 DEF RunnerInv, Early, Attached
<1>2. ASSUME NEW d \in Deployments, SweepContainer(d) PROVE RunnerInv' /\ ActiveIsKept'
  <2>1. pc = "idle" /\ active # d
    BY <1>2 DEF SweepContainer, SweepInv
  <2>2. /\ UNCHANGED <<pc, active, dep, mislaid>>
        /\ \A e \in Deployments \ {d} : row'[e] = row[e] /\ box'[e] = box[e]
    BY <1>2 DEF SweepContainer, TypeOK
  <2>3. ActiveIsKept'
    BY <2>1, <2>2 DEF ActiveIsKept, TypeOK
  <2>4. Begun
    BY <1>2, <2>2 DEF SweepContainer, RunnerInv
  <2> QED
    BY <1>i, <2>1, <2>2, <2>3, <2>4
<1>3. CASE Boot
  <2>1. pc' = "idle"
    BY <1>3 DEF Boot, SweepInv
  <2>2. \A d \in Deployments : dep[d] = "SUCCESS" => dep'[d] = "SUCCESS"
    BY <1>3 DEF Boot, Orphaned, Live
  <2>3. ActiveIsKept'
    BY <1>3, <2>2 DEF Boot, ActiveIsKept, TypeOK
  <2>4. Begun
    BY <1>3 DEF Boot, RunnerInv, TypeOK
  <2> QED
    BY <1>i, <2>1, <2>3, <2>4
<1>4. CASE ProcessEnds
  <2>1. Begun
    BY <1>4 DEF ProcessEnds, RunnerInv
  <2> QED
    BY <1>i, <1>4, <2>1 DEF ProcessEnds, BecomeIdle, ActiveIsKept
<1> QED
  BY <1>1, <1>2, <1>3, <1>4 DEF Exit, Crash

\* What every step does to the runner's facts and to the routed container.
LEMMA EveryStepKeeps ==
  TypeOK /\ FreshInv /\ RunnerInv /\ SweepInv /\ ActiveIsKept /\ [Next]_vars
    => RunnerInv' /\ ActiveIsKept'
<1> SUFFICES ASSUME TypeOK, FreshInv, RunnerInv, SweepInv, ActiveIsKept, [Next]_vars
             PROVE  RunnerInv' /\ ActiveIsKept'
  OBVIOUS
<1>1. CASE UNCHANGED vars \/ IdlePoll
  BY <1>1 DEF IdlePoll, vars, rowVars, boxVars, runnerVars, apiVars, Succeeded, RunnerInv, ActiveIsKept
<1>2. CASE \/ Tick \/ RequestStep \/ Serve \/ Shutdown \/ WaitTimeout \/ StopSignal
           \/ \E d \in Deployments : Create(d) \/ Cancel(d)
           \/ \E q \in Requests, kind \in {"stop", "restart"} : Resolve(q, kind)
  BY <1>2, RequestsKeep, KeepsInvariants
<1>3. CASE RunnerStep
  BY <1>3, CandidateSteps, ActivationSteps DEF RunnerStep
<1>4. CASE \/ \E d \in Deployments : Claim(d) \/ SweepContainer(d)
           \/ Boot \/ Exit \/ Crash
  BY <1>4, ProcessSteps
<1> QED
  BY <1>1, <1>2, <1>3, <1>4 DEF Next

-----------------------------------------------------------------------------
\* The sweep starts from the rows of containers that are not routed to, and
\* ends before a deployment can be activated.
LEMMA SweepInvStep == TypeOK /\ SweepInv /\ [Next]_vars => SweepInv'
<1> SUFFICES ASSUME TypeOK, SweepInv, [Next]_vars PROVE SweepInv'
  OBVIOUS
<1> USE DEF rowVars, boxVars, runnerVars, apiVars, processVars
<1>1. CASE UNCHANGED <<process, sweep, active, pc>>
  BY <1>1 DEF SweepInv
<1>2. ASSUME NEW d \in Deployments, Claim(d) PROVE SweepInv'
  BY <1>2 DEF Claim, SweepInv
<1>3. ASSUME NEW d \in Deployments, SweepContainer(d) PROVE SweepInv'
  BY <1>3 DEF SweepContainer, SweepInv
<1>4. CASE Boot
  BY <1>4 DEF Boot, Sweepable, SweepInv
<1>5. CASE Serve \/ Shutdown
  BY <1>5 DEF Serve, Shutdown, SweepInv
<1>6. CASE Exit \/ Crash
  BY <1>6, DeploymentAssumption DEF Exit, Crash, ProcessEnds, BecomeIdle, SweepInv
<1>7. CASE RunnerStep
  <2>1. pc # "idle" /\ UNCHANGED <<process, sweep>>
    BY <1>7 DEF RunnerStep, ReadyRefuses, ReadyAllows, Load, Begin, Build, Run, Attach, Health,
                Cutover, Activate, Teardown, Forget, MarkFailed, RemoveCandidate,
                ForgetCandidate, Return, Complete
  <2>2. sweep' = {} /\ process' \notin {"down", "sweeping"}
    BY <2>1 DEF SweepInv
  <2> QED
    BY <2>2 DEF SweepInv
<1>8. CASE \/ Tick \/ RequestStep \/ IdlePoll \/ StopSignal \/ WaitTimeout
           \/ \E d \in Deployments : Create(d) \/ Cancel(d)
           \/ \E q \in Requests, kind \in {"stop", "restart"} : Resolve(q, kind)
  BY <1>1, <1>8 DEF Tick, RequestStep, Enqueue, EnqueueFails, EnqueueUnread, FailUnread, RequestCancellation, CallDocker,
                    WriteRow, IdlePoll, StopSignal, WaitTimeout, Create, Cancel, Resolve, vars
<1> QED
  BY <1>1, <1>2, <1>3, <1>4, <1>5, <1>6, <1>7, <1>8 DEF Next, vars

\* Failures are only ever counted up.
LEMMA FaultsCount ==
  ASSUME TypeOK, [Next]_vars, faults' = 0
  PROVE  faults = 0 /\ ~Fault
<1> USE DEF rowVars, boxVars, runnerVars, apiVars, processVars
<1>1. faults' \in {faults, faults + 1}
  BY DEF Next, vars, RunnerStep, RequestStep, Tick, Create, Enqueue, EnqueueFails,
         EnqueueUnread, FailUnread, Cancel, RequestCancellation, Resolve, CallDocker, WriteRow, Claim, IdlePoll, ReadyRefuses,
         ReadyAllows, Load, Begin, Build, Run, Attach, Health, Cutover, Activate, Teardown,
         Forget, MarkFailed, RemoveCandidate, ForgetCandidate, Return, Complete, StopSignal,
         Boot, SweepContainer, Serve, Shutdown, WaitTimeout, ProcessEnds, Exit, Crash,
         StepFails, Fault
<1>2. faults \in Nat
  BY DEF TypeOK
<1> QED
  BY <1>1, <1>2 DEF Fault

\* An enqueue that is not read back is a failure.
LEMMA QuietInvStep == TypeOK /\ QuietInv /\ [Next]_vars => QuietInv'
<1> SUFFICES ASSUME TypeOK, QuietInv, [Next]_vars, faults' = 0
             PROVE  unread' = {} /\ mislaid' = {}
  BY DEF QuietInv
<1> USE DEF rowVars, boxVars, runnerVars, apiVars, processVars
<1>1. unread = {} /\ mislaid = {} /\ ~Fault
  BY FaultsCount DEF QuietInv
<1>2. \A d \in Deployments : ~EnqueueUnread(d) /\ ~FailUnread(d)
  BY <1>1 DEF EnqueueUnread, FailUnread
<1>3. unread' \in {unread, {}} /\ mislaid' = mislaid
  BY <1>2 DEF Next, vars, RunnerStep, RequestStep, Tick, Create, Enqueue, EnqueueFails, Cancel,
         RequestCancellation, Resolve, CallDocker, WriteRow, Claim, IdlePoll, ReadyRefuses,
         ReadyAllows, Load, Begin, Build, Run, Attach, Health, Cutover, Activate, Teardown,
         Forget, MarkFailed, RemoveCandidate, ForgetCandidate, Return, Complete, StopSignal,
         Boot, SweepContainer, Serve, Shutdown, WaitTimeout, ProcessEnds, Exit, Crash
<1> QED
  BY <1>1, <1>3

\* Together they are inductive.
LEMMA DeployInvStep == DeployInv /\ [Next]_vars => DeployInv'
BY TypeOKStep, FreshInvStep, EveryStepKeeps, SweepInvStep, QuietInvStep DEF DeployInv

-----------------------------------------------------------------------------
\* The invariant of every behaviour of the deploy path, crashes, failed calls
\* and racing cancellations included.
THEOREM DeployInvariant == Spec => []DeployInv
<1> QED
  BY InitDeployInv, DeployInvStep, PTL DEF Spec

\* Every variable keeps its type, whatever the instance.
THEOREM DeploymentTypeCorrect == Spec => []TypeOK
<1>1. DeployInv => TypeOK
  BY DEF DeployInv
<1> QED
  BY <1>1, DeployInvariant, PTL

\* The deployment the domains route to succeeded and its container is never
\* removed: not by the teardown of a later cutover, not by the cleanup of a
\* failing or cancelled deploy, not by the sweep of a process start.
THEOREM ActiveStaysKept == Spec => []ActiveIsKept
<1>1. DeployInv => ActiveIsKept
  BY DEF DeployInv
<1> QED
  BY <1>1, DeployInvariant, PTL

-----------------------------------------------------------------------------
\* Until its drain deadline a handler on its way to cutover works on a
\* deployment that has not failed, unless its own request marked it so; and what an operator was told is cancelled
\* is recorded so.
Onward   == {"load", "begin", "build", "run", "attach", "health", "cutover"}
FinalInv ==
  /\ pc \in Onward /\ ~timedOut /\ job \notin mislaid => dep[job] # "FAILED"
  /\ \A d \in asked : dep[d] = "CANCELLED"

\* The state part of OutcomeIsFinal, for one step.
Final(d)    == dep[d] = "CANCELLED" \/ (dep[d] = "FAILED" /\ ~timedOut /\ d \notin mislaid)
StaysFinal  == \A d \in Deployments : Final(d) => dep'[d] = dep[d]

\* Only a handler past its deadline reopens a deployment that has ended as
\* cancelled or failed.
LEMMA StaysFinalStep ==
  ASSUME DeployInv, FinalInv, [Next]_vars
  PROVE  StaysFinal
<1> USE DEF rowVars, boxVars, runnerVars, apiVars, processVars
<1>0. TypeOK /\ FreshInv /\ RunnerInv /\ SweepInv
  BY DEF DeployInv
<1>1. CASE UNCHANGED dep
  BY <1>1 DEF StaysFinal
<1>2. ASSUME NEW d \in Deployments, Create(d) \/ Claim(d) PROVE StaysFinal
  BY <1>0, <1>2 DEF Create, Claim, StaysFinal, Final, TypeOK
<1>3. ASSUME NEW d \in Deployments, EnqueueFails(d) \/ FailUnread(d) PROVE StaysFinal
  BY <1>0, <1>3 DEF EnqueueFails, FailUnread, MarkedFailed, Overwritable, StaysFinal, Final, TypeOK
<1>4. ASSUME NEW d \in Deployments, Cancel(d) \/ RequestCancellation(d) PROVE StaysFinal
  <2>1. \/ dep' = dep \/ dep' = Ending(d, "CANCELLED") \/ dep' = ProjectComplete(d, "cancelled")
    BY <1>4 DEF Cancel, RequestCancellation
  <2> QED
    BY <1>0, <2>1, EndingWrites, ProjectionWrites, SMTT(30) DEF StaysFinal, Final, Live, Ended, OpEnded
<1>5. CASE ReadyRefuses \/ Complete \/ WaitTimeout
  <2>1. CASE UNCHANGED dep
    BY <1>1, <2>1
  <2>2. ASSUME NEW s \in OpEnded, CompleteOperation(s), pc # "idle" PROVE StaysFinal
    <3>1. job \in Deployments
      BY <1>0, <2>2 DEF TypeOK
    <3> QED
      BY <1>0, <2>2, <3>1, CompletionWrites DEF StaysFinal, Final, Live
  <2> QED
    BY <1>0, <1>5, <2>1, <2>2 DEF ReadyRefuses, Complete, WaitTimeout, OpEnded, TypeOK
<1>6. CASE Begin \/ Cutover
  <2>1. pc \in Onward
    BY <1>6 DEF Begin, Cutover, Onward
  <2>2. UNCHANGED dep \/ (Overwritable(job) /\ \E s \in {"BUILDING", "SUCCESS"} : dep' = [dep EXCEPT ![job] = s])
    BY <1>6 DEF Begin, Cutover
  <2>3. \A d \in Deployments : Final(d) => d # job \/ ~Overwritable(job)
    BY <2>1 DEF FinalInv, Final, Overwritable
  <2> QED
    BY <1>0, <2>2, <2>3 DEF StaysFinal, TypeOK
<1>7. CASE MarkFailed
  <2>1. job \in Deployments
    BY <1>0, <1>7 DEF MarkFailed, TypeOK
  <2>2. \/ dep' = dep \/ dep' = Ending(job, "CANCELLED")
        \/ Overwritable(job) /\ dep' = [dep EXCEPT ![job] = "FAILED"]
    BY <1>7 DEF MarkFailed
  <2>3. CASE dep' = Ending(job, "CANCELLED")
    BY <1>0, <2>1, <2>3, EndingWrites DEF StaysFinal, Final, Live, Ended
  <2> QED
    BY <1>0, <1>1, <2>1, <2>2, <2>3 DEF StaysFinal, Final, Overwritable, TypeOK
<1>8. CASE Boot
  BY <1>0, <1>8 DEF Boot, Orphaned, StaysFinal, Final, Live
<1>9. CASE \/ ReadyAllows \/ Load \/ Build \/ Run \/ Attach \/ Health \/ Activate
           \/ Teardown \/ Forget \/ RemoveCandidate \/ ForgetCandidate \/ Return \/ StopSignal
  BY <1>1, <1>9 DEF ReadyAllows, Load, Build, Run, Attach, Health, Activate, Teardown, Forget,
       RemoveCandidate, ForgetCandidate, Return, StopSignal
<1>10. CASE \/ Tick \/ Serve \/ Shutdown \/ IdlePoll \/ Exit \/ Crash
            \/ \E d \in Deployments : SweepContainer(d) \/ Enqueue(d) \/ EnqueueUnread(d)
            \/ \E q \in Requests : CallDocker(q) \/ WriteRow(q)
            \/ \E q \in Requests, kind \in {"stop", "restart"} : Resolve(q, kind)
  BY <1>1, <1>10 DEF Tick, Serve, Shutdown, IdlePoll, Exit, Crash, ProcessEnds, SweepContainer,
       Enqueue, EnqueueUnread, CallDocker, WriteRow, Resolve, vars
<1> QED
  BY <1>1, <1>2, <1>3, <1>4, <1>5, <1>6, <1>7, <1>8, <1>9, <1>10
     DEF Next, vars, RunnerStep, RequestStep

\* Which steps move a handler, and which may fail its deployment under it.
LEMMA FinalInvStep ==
  ASSUME DeployInv, FinalInv, [Next]_vars
  PROVE  FinalInv'
<1> USE DEF rowVars, boxVars, runnerVars, apiVars, processVars
<1> DEFINE Held   == pc \in Onward /\ ~timedOut /\ job \notin mislaid => dep[job] # "FAILED"
           Stated == \A d \in asked : dep[d] = "CANCELLED"
<1>0. TypeOK /\ FreshInv /\ RunnerInv /\ SweepInv /\ Held /\ Stated
  BY DEF DeployInv, FinalInv
<1>1. Stated'
  <2>1. asked \subseteq Deployments /\ StaysFinal
    BY <1>0, StaysFinalStep DEF TypeOK
  <2>2. ASSUME asked' = asked PROVE Stated'
    BY <1>0, <2>1, <2>2 DEF StaysFinal, Final
  <2>3. ASSUME NEW d \in Deployments, Cancel(d) PROVE Stated'
    <3>1. asked' = asked \cup {d} /\ dep'[d] = "CANCELLED"
      BY <1>0, <2>3 DEF Cancel, Ending, TypeOK
    <3> QED
      BY <1>0, <2>1, <3>1 DEF StaysFinal, Final
  <2>4. asked' = asked \/ \E d \in Deployments : Cancel(d)
    BY DEF Next, vars, RunnerStep, RequestStep, Tick, Create, Enqueue, EnqueueFails,
           EnqueueUnread, FailUnread, RequestCancellation, Resolve, CallDocker, WriteRow, Claim, IdlePoll, ReadyRefuses,
           ReadyAllows, Load, Begin, Build, Run, Attach, Health, Cutover, Activate, Teardown,
           Forget, MarkFailed, RemoveCandidate, ForgetCandidate, Return, Complete, StopSignal,
           Boot, SweepContainer, Serve, Shutdown, WaitTimeout, ProcessEnds, Exit, Crash
  <2> QED
    BY <2>2, <2>3, <2>4
<1> SUFFICES Held'
  BY <1>1 DEF FinalInv
<1>2. CASE UNCHANGED <<pc, job, timedOut, dep, mislaid>>
  BY <1>0, <1>2
<1>3. CASE pc' \notin Onward
  BY <1>3
<1>4. ASSUME NEW d \in Deployments, Create(d) \/ Cancel(d) PROVE Held'
  <2>1. UNCHANGED <<pc, job, timedOut, mislaid>> /\ \A e \in Deployments : dep'[e] # dep[e] => dep'[e] # "FAILED"
    BY <1>0, <1>4, EndingWrites DEF Create, Cancel, Ended, TypeOK
  <2> QED
    BY <1>0, <2>1 DEF TypeOK, Onward
<1>15. ASSUME NEW d \in Deployments, FailUnread(d) PROVE Held'
  <2>1. /\ UNCHANGED <<pc, job, timedOut>> /\ mislaid \subseteq mislaid'
        /\ \A e \in Deployments : dep'[e] # dep[e] => e \in mislaid'
    BY <1>0, <1>15 DEF FailUnread, MarkedFailed, TypeOK
  <2> QED
    BY <1>0, <2>1 DEF TypeOK, Onward
<1>5. ASSUME NEW d \in Deployments, EnqueueFails(d) \/ RequestCancellation(d) PROVE Held'
  <2>1. CASE UNCHANGED dep
    BY <1>2, <1>5, <2>1 DEF EnqueueFails, RequestCancellation
  <2>2. CASE op[d] \in {"absent", "queued"}
    <3>1. UNCHANGED <<pc, job, timedOut, mislaid>>
      BY <1>5 DEF EnqueueFails, RequestCancellation
    <3>2. \A e \in Deployments : dep'[e] # dep[e] => e = d
      BY <1>0, <1>5, ProjectionWrites
         DEF EnqueueFails, MarkedFailed, RequestCancellation, OpEnded, TypeOK
    <3>3. pc # "idle" => job \in Deployments /\ job # d
      BY <1>0, <2>2 DEF RunnerInv, TypeOK
    <3> QED
      BY <1>0, <3>1, <3>2, <3>3 DEF Onward
  <2> QED
    BY <1>0, <1>5, <2>1, <2>2 DEF EnqueueFails, RequestCancellation, FreshInv
<1>6. CASE Begin
  BY <1>0, <1>2, <1>3, <1>6 DEF Begin, GoTo, Onward, TypeOK
<1>7. CASE Cutover \/ Activate \/ Teardown \/ Forget \/ Return
  BY <1>3, <1>7 DEF Cutover, Activate, Teardown, Forget, Return, GoTo, Unwind, UnwindCandidate, Onward
<1>8. CASE ReadyAllows
  BY <1>0, <1>8 DEF ReadyAllows, GoTo, Live, Onward
<1>9. CASE Load \/ Build \/ Run \/ Attach \/ Health \/ StopSignal
  <2>1. UNCHANGED <<job, timedOut, dep, mislaid>> /\ (pc \in Onward \/ pc' = pc)
    BY <1>9 DEF Load, Build, Run, Attach, Health, GoTo, Unwind, UnwindCandidate, StopSignal, Onward
  <2> QED
    BY <1>0, <2>1
<1>10. CASE MarkFailed \/ RemoveCandidate \/ ForgetCandidate
  BY <1>3, <1>10 DEF MarkFailed, RemoveCandidate, ForgetCandidate, Undone, Onward
<1>11. CASE ReadyRefuses \/ Complete \/ Exit \/ Crash \/ \E d \in Deployments : Claim(d)
  BY <1>3, <1>11 DEF ReadyRefuses, Complete, Exit, Crash, ProcessEnds, BecomeIdle, Claim, Onward
<1>12. CASE WaitTimeout
  BY <1>12 DEF WaitTimeout
<1>13. CASE Boot
  BY <1>0, <1>3, <1>13 DEF Boot, SweepInv, Onward
<1>14. CASE \/ Tick \/ Serve \/ Shutdown \/ IdlePoll
            \/ \E d \in Deployments : SweepContainer(d) \/ Enqueue(d) \/ EnqueueUnread(d)
            \/ \E q \in Requests : CallDocker(q) \/ WriteRow(q)
            \/ \E q \in Requests, kind \in {"stop", "restart"} : Resolve(q, kind)
            \/ UNCHANGED vars
  BY <1>2, <1>14 DEF Tick, Serve, Shutdown, IdlePoll, SweepContainer, Enqueue, EnqueueUnread, CallDocker,
       WriteRow, Resolve, vars
<1> QED
  BY <1>4, <1>5, <1>6, <1>7, <1>8, <1>9, <1>10, <1>11, <1>12, <1>13, <1>14, <1>15
     DEF Next, RunnerStep, RequestStep

\* Both invariants hold of every reachable state.
LEMMA FinalInvariant == Spec => [](DeployInv /\ FinalInv)
<1>1. Init => DeployInv /\ FinalInv
  BY InitDeployInv DEF Init, FinalInv, Onward
<1>2. DeployInv /\ FinalInv /\ [Next]_vars => DeployInv' /\ FinalInv'
  BY DeployInvStep, FinalInvStep
<1> QED
  BY <1>1, <1>2, PTL DEF Spec

\* A cancelled deployment stays cancelled whatever is still in flight, and a
\* failed one stays failed but for a handler that outlives its drain deadline,
\* or when it was marked FAILED only because its committed operation could not
\* be read back.
THEOREM OutcomesStayFinal == Spec => OutcomeIsFinal
<1>1. DeployInv /\ FinalInv /\ [Next]_vars =>
        [\A d \in Deployments :
           \/ dep[d] = "CANCELLED"
           \/ dep[d] = "FAILED" /\ ~timedOut /\ d \notin mislaid
           => dep'[d] = dep[d]]_vars
  BY StaysFinalStep DEF StaysFinal, Final
<1> QED
  BY <1>1, FinalInvariant, PTL DEF Spec, OutcomeIsFinal

\* Once an operator was told that a deployment is cancelled, no domain is ever
\* routed to it.
THEOREM CancelledNeverRouted == Spec => []CancelledIsNotRouted
<1>1. DeployInv /\ FinalInv => CancelledIsNotRouted
  BY DEF DeployInv, FinalInv, ActiveIsKept, Succeeded, CancelledIsNotRouted
<1> QED
  BY <1>1, FinalInvariant, PTL
===============================================================================
