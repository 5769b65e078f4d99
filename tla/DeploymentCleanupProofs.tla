--------------------------- MODULE DeploymentCleanupProofs ---------------------------
(***************************************************************************)
(* More theorems about Deployment: what the deploy path leaves behind.     *)
(*                                                                         *)
(* Each rests on one fact about all that is still in flight: nothing       *)
(* touches a deployment that has succeeded and is past its cutover         *)
(* (SettledStays), and requests resolve to such deployments only           *)
(* (TargetInv).  On it stand three invariants beside DeployInv: of the     *)
(* tracked running containers (ResidueInv), of rows against containers     *)
(* (BoxInv), and of the order of successes (LatestInv).                    *)
(***************************************************************************)
EXTENDS DeploymentProofs

-----------------------------------------------------------------------------
\* A deployment that was executed, succeeded and is past its cutover: the
\* routed one, those it replaced, and whatever a request has resolved.
NotClaimed(d) == op[d] \in {"absent", "queued"}
AfterCutover  == {"teardown", "forget", "return", "complete"}
Settled(d)    == Succeeded(d) /\ ~NotClaimed(d) /\ (d = job => pc \in AfterCutover)

\* The routed deployment is one.
LEMMA ActiveIsSettled == DeployInv /\ active # None => active \in Deployments /\ Settled(active)
<1> SUFFICES ASSUME DeployInv, active # None PROVE active \in Deployments /\ Settled(active)
  OBVIOUS
<1>1. active \in Deployments /\ Succeeded(active) /\ ~NotClaimed(active)
  BY DEF DeployInv, TypeOK, RunnerInv, ActiveIsKept, NotClaimed
<1>2. active = job => pc \in AfterCutover
  BY <1>1, DeploymentAssumption DEF DeployInv, TypeOK, RunnerInv, Early, Handling, AfterCutover
<1> QED
  BY <1>1, <1>2 DEF Settled

\* What was claimed once is never waiting again.
LEMMA ClaimedStays ==
  ASSUME DeployInv, [Next]_vars, NEW d \in Deployments, ~NotClaimed(d)
  PROVE  ~NotClaimed(d)'
<1> USE DEF rowVars, boxVars, runnerVars, apiVars, processVars, NotClaimed
<1>0. TypeOK /\ FreshInv /\ RunnerInv
  BY DEF DeployInv
<1>1. CASE UNCHANGED op
  BY <1>1
<1>2. ASSUME NEW e \in Deployments, Enqueue(e) \/ EnqueueUnread(e) PROVE ~NotClaimed(d)'
  BY <1>0, <1>2 DEF Enqueue, EnqueueUnread, Queued, FreshInv, TypeOK
<1>3. ASSUME NEW e \in Deployments, RequestCancellation(e) \/ Claim(e) PROVE ~NotClaimed(d)'
  BY <1>0, <1>3 DEF RequestCancellation, Claim, TypeOK
<1>4. CASE ReadyRefuses \/ Complete \/ WaitTimeout
  <2>1. ASSUME NEW s \in OpEnded, CompleteOperation(s), pc # "idle" PROVE ~NotClaimed(d)'
    BY <1>0, <2>1, CompletionWrites DEF TypeOK, OpEnded
  <2> QED
    BY <1>0, <1>1, <1>4, <2>1 DEF ReadyRefuses, Complete, WaitTimeout, OpEnded, TypeOK
<1>5. CASE Boot
  BY <1>0, <1>5 DEF Boot
<1>6. CASE \/ ReadyAllows \/ Load \/ Begin \/ Build \/ Run \/ Attach \/ Health \/ Cutover
           \/ Activate \/ Teardown \/ Forget \/ MarkFailed \/ RemoveCandidate
           \/ ForgetCandidate \/ Return \/ StopSignal
  BY <1>1, <1>6 DEF ReadyAllows, Load, Begin, Build, Run, Attach, Health, Cutover, Activate,
       Teardown, Forget, MarkFailed, RemoveCandidate, ForgetCandidate, Return, StopSignal
<1>7. CASE \/ Tick \/ Serve \/ Shutdown \/ IdlePoll \/ Exit \/ Crash \/ UNCHANGED vars
           \/ \E e \in Deployments : SweepContainer(e) \/ Create(e) \/ EnqueueFails(e) \/ FailUnread(e) \/ Cancel(e)
           \/ \E q \in Requests : CallDocker(q) \/ WriteRow(q)
           \/ \E q \in Requests, kind \in {"stop", "restart"} : Resolve(q, kind)
  BY <1>1, <1>7 DEF Tick, Serve, Shutdown, IdlePoll, Exit, Crash, ProcessEnds, SweepContainer,
       Create, EnqueueFails, EnqueueUnread, FailUnread, Cancel, CallDocker, WriteRow, Resolve, vars
<1> QED
  BY <1>2, <1>3, <1>4, <1>5, <1>6, <1>7 DEF Next, RunnerStep, RequestStep

\* Nothing that still happens touches a settled deployment: cancellations,
\* orphan sweeps and completions write live rows only.
LEMMA SettledStays ==
  ASSUME DeployInv, [Next]_vars, NEW d \in Deployments, Settled(d)
  PROVE  Settled(d)'
<1> USE DEF Succeeded, rowVars, boxVars, runnerVars, apiVars, processVars
<1>0. TypeOK /\ FreshInv /\ RunnerInv
  BY DEF DeployInv
<1>c. ~NotClaimed(d) /\ ~NotClaimed(d)' /\ Succeeded(d) /\ (d = job => pc \in AfterCutover)
  BY ClaimedStays DEF Settled
<1>1. CASE UNCHANGED <<dep, pc, job, mislaid>>
  BY <1>c, <1>1 DEF Settled
<1>2. ASSUME NEW e \in Deployments, Create(e) \/ EnqueueFails(e) \/ FailUnread(e) PROVE Settled(d)'
  <2>1. UNCHANGED <<pc, job>> /\ Succeeded(d)'
    BY <1>0, <1>c, <1>2 DEF Create, EnqueueFails, FailUnread, MarkedFailed, FreshInv, NotClaimed, TypeOK
  <2> QED
    BY <1>c, <2>1 DEF Settled
<1>3. ASSUME NEW e \in Deployments, Cancel(e) \/ RequestCancellation(e) PROVE Settled(d)'
  <2>1. UNCHANGED <<pc, job, mislaid>> /\ dep'[d] = dep[d]
    BY <1>0, <1>c, <1>3, EndingWrites, ProjectionWrites
       DEF Cancel, RequestCancellation, Live, Ended, OpEnded, TypeOK
  <2> QED
    BY <1>c, <2>1 DEF Settled
<1>4. ASSUME NEW e \in Deployments, Claim(e) PROVE Settled(d)'
  BY <1>0, <1>c, <1>4 DEF Claim, Claimable, NotClaimed, Settled, TypeOK
<1>5. CASE ReadyRefuses \/ Complete \/ WaitTimeout
  <2>1. dep'[d] = dep[d]
    <3>1. ASSUME NEW s \in OpEnded, CompleteOperation(s), pc # "idle" PROVE dep'[d] = dep[d]
      BY <1>0, <1>c, <3>1, CompletionWrites DEF TypeOK, Live
    <3> QED
      BY <1>0, <1>5, <3>1 DEF ReadyRefuses, Complete, WaitTimeout, OpEnded, TypeOK
  <2>2. mislaid' = mislaid /\ (job' = None \/ UNCHANGED <<pc, job>>)
    BY <1>5 DEF ReadyRefuses, Complete, WaitTimeout, BecomeIdle
  <2> QED
    BY <1>c, <2>1, <2>2, DeploymentAssumption DEF Settled
<1>6. CASE \/ ReadyAllows \/ Load \/ Begin \/ Build \/ Run \/ Attach \/ Health \/ Cutover
           \/ Activate \/ MarkFailed \/ RemoveCandidate \/ ForgetCandidate
  <2>1. pc \notin AfterCutover /\ UNCHANGED <<job, mislaid>>
    BY <1>6 DEF ReadyAllows, Load, Begin, Build, Run, Attach, Health, Cutover, Activate,
         MarkFailed, RemoveCandidate, ForgetCandidate, GoTo, Unwind, UnwindCandidate, Undone,
         AfterCutover
  <2>2. \/ dep' = dep \/ dep' = Ending(job, "CANCELLED")
        \/ \E s \in {"BUILDING", "SUCCESS", "FAILED"} : dep' = [dep EXCEPT ![job] = s]
    BY <1>6 DEF ReadyAllows, Load, Begin, Build, Run, Attach, Health, Cutover, Activate,
         MarkFailed, RemoveCandidate, ForgetCandidate
  <2>3. dep'[d] = dep[d]
    BY <1>0, <1>c, <2>1, <2>2 DEF Ending, TypeOK
  <2> QED
    BY <1>c, <2>1, <2>3 DEF Settled
<1>7. CASE Teardown \/ Forget \/ Return
  BY <1>c, <1>7 DEF Teardown, Forget, Return, GoTo, AfterCutover, Settled
<1>8. CASE Boot
  BY <1>0, <1>c, <1>8 DEF Boot, Orphaned, Live, Settled
<1>9. CASE Exit \/ Crash
  BY <1>c, <1>9, DeploymentAssumption DEF Exit, Crash, ProcessEnds, BecomeIdle, Settled
<1>10. CASE \/ Tick \/ Serve \/ Shutdown \/ IdlePoll \/ StopSignal \/ UNCHANGED vars
            \/ \E e \in Deployments : SweepContainer(e) \/ Enqueue(e) \/ EnqueueUnread(e)
            \/ \E q \in Requests : CallDocker(q) \/ WriteRow(q)
            \/ \E q \in Requests, kind \in {"stop", "restart"} : Resolve(q, kind)
  BY <1>1, <1>10 DEF Tick, Serve, Shutdown, IdlePoll, StopSignal, SweepContainer,
       Enqueue, EnqueueUnread, CallDocker, WriteRow, Resolve, vars
<1> QED
  BY <1>2, <1>3, <1>4, <1>5, <1>6, <1>7, <1>8, <1>9, <1>10 DEF Next, RunnerStep, RequestStep

\* As long as nothing fails, such a deployment is recorded as a success.
LEMMA SettledSuccess ==
  ASSUME DeployInv, [Next]_vars, faults' = 0, NEW d \in Deployments
  PROVE  /\ Succeeded(d) <=> dep[d] = "SUCCESS"
         /\ Settled(d) => dep'[d] = "SUCCESS"
<1>1. faults = 0
  BY FaultsCount DEF DeployInv
<1>2. DeployInv' /\ (Settled(d) => Settled(d)')
  BY DeployInvStep, SettledStays
<1> QED
  BY <1>1, <1>2 DEF DeployInv, QuietInv, Settled, Succeeded

-----------------------------------------------------------------------------
\* What a step may do to a stop or restart request: resolve it to the routed
\* deployment, or move it on with its target.
LEMMA RequestMoves ==
  ASSUME TypeOK, NEW q \in Requests, CallDocker(q) \/ WriteRow(q)
  PROVE  /\ \A p \in Requests \ {q} : request'[p] = request[p]
         /\ request'[q].target = request[q].target /\ request'[q].kind = request[q].kind
         /\ request'[q].step \in {"row", "done"} /\ (WriteRow(q) => request'[q].step = "done")
<1>1. request[q] \in RequestState /\ q \in DOMAIN request
  BY DEF TypeOK
<1>2. ASSUME NEW r \in RequestState, NEW s \in {"row", "done"}
      PROVE  /\ [r EXCEPT !.step = s].target = r.target
             /\ [r EXCEPT !.step = s].kind = r.kind
             /\ [r EXCEPT !.step = s].step = s
  BY DEF RequestState
<1> DEFINE next(s) == [request[q] EXCEPT !.step = s]
<1>3. PICK s \in {"row", "done"} :
        /\ request' = [request EXCEPT ![q] = next(s)]
        /\ WriteRow(q) => s = "done"
  BY DEF CallDocker, WriteRow
<1>4. /\ next(s).target = request[q].target /\ next(s).kind = request[q].kind
      /\ next(s).step = s
  BY <1>1, <1>2
<1> HIDE DEF next
<1>5. request'[q] = next(s) /\ \A p \in Requests \ {q} : request'[p] = request[p]
  BY <1>1, <1>3 DEF TypeOK
<1> QED
  BY <1>3, <1>4, <1>5

\* The same for any step of the system.
LEMMA RequestSteps ==
  ASSUME TypeOK, [Next]_vars, NEW q \in Requests
  PROVE  \/ request'[q] = request[q]
         \/ /\ request[q].step = "resolve" /\ active # None
            /\ request'[q].target = active /\ request'[q].step = "docker"
         \/ /\ request[q].step \in {"docker", "row"} /\ request'[q].target = request[q].target
            /\ request'[q].step \in {"row", "done"}
<1> USE DEF rowVars, boxVars, runnerVars, apiVars, processVars
<1>1. ASSUME NEW p \in Requests, CallDocker(p) \/ WriteRow(p), p # q PROVE request'[q] = request[q]
  BY <1>1, RequestMoves
<1>2. CASE CallDocker(q) \/ WriteRow(q)
  <2>1. request[q].step \in {"docker", "row"}
    BY <1>2 DEF CallDocker, WriteRow
  <2> QED
    BY <1>2, <2>1, RequestMoves
<1>3. ASSUME NEW p \in Requests, NEW kind \in {"stop", "restart"}, Resolve(p, kind)
      PROVE  \/ request'[q] = request[q]
             \/ /\ request[q].step = "resolve" /\ active # None
                /\ request'[q].target = active /\ request'[q].step = "docker"
  BY <1>3 DEF Resolve, TypeOK
<1>4. CASE Exit \/ Crash
  <2>1. request'[q] = IF InFlight(request[q]) THEN [request[q] EXCEPT !.step = "done"]
                                              ELSE request[q]
    BY <1>4 DEF Exit, Crash, ProcessEnds
  <2>2. ASSUME NEW r \in RequestState
        PROVE  [r EXCEPT !.step = "done"].target = r.target /\ [r EXCEPT !.step = "done"].step = "done"
    BY DEF RequestState
  <2>3. request[q] \in RequestState
    BY DEF TypeOK
  <2> QED
    BY <2>1, <2>2, <2>3 DEF InFlight
<1>5. CASE \/ Tick \/ Boot \/ Serve \/ Shutdown \/ WaitTimeout \/ IdlePoll \/ StopSignal
           \/ UNCHANGED vars \/ RunnerStep
           \/ \E e \in Deployments : \/ SweepContainer(e) \/ Create(e) \/ Enqueue(e) \/ Claim(e)
                                     \/ EnqueueFails(e) \/ FailUnread(e) \/ EnqueueUnread(e) \/ Cancel(e) \/ RequestCancellation(e)
  BY <1>5 DEF Tick, Boot, Serve, Shutdown, WaitTimeout, IdlePoll, StopSignal, RunnerStep,
       SweepContainer, Create, Enqueue, EnqueueFails, EnqueueUnread, FailUnread, Cancel, RequestCancellation, Claim, vars,
       ReadyRefuses, ReadyAllows, Load, Begin, Build, Run, Attach, Health, Cutover, Activate,
       Teardown, Forget, MarkFailed, RemoveCandidate, ForgetCandidate, Return, Complete
<1> QED
  BY <1>1, <1>2, <1>3, <1>4, <1>5 DEF Next, RequestStep

\* What a request has resolved stays a settled deployment.
TargetInv ==
  /\ \A q \in Requests : request[q].step = "resolve" => request[q].target = None
  /\ \A q \in Requests, d \in Deployments : request[q].target = d => Settled(d)

\* It is kept.
LEMMA TargetInvStep ==
  ASSUME DeployInv, TargetInv, [Next]_vars
  PROVE  TargetInv'
<1>0. TypeOK
  BY DEF DeployInv
<1>1. ASSUME NEW q \in Requests PROVE request'[q].step = "resolve" => request'[q].target = None
  BY <1>0, RequestSteps DEF TargetInv
<1>2. ASSUME NEW q \in Requests, NEW d \in Deployments, request'[q].target = d PROVE Settled(d)'
  <2>1. d = request[q].target \/ d = active
    BY <1>0, <1>2, RequestSteps
  <2>2. Settled(d)
    BY <2>1, ActiveIsSettled, DeploymentAssumption DEF TargetInv
  <2> QED
    BY <2>2, SettledStays
<1> QED
  BY <1>1, <1>2 DEF TargetInv

-----------------------------------------------------------------------------
\* Who writes a container's row: the runner attaches its candidate, forgets
\* what it replaced or what failed; requests write settled deployments; the
\* sweep forgets what it has listed.
LEMMA RowWrites ==
  ASSUME DeployInv, TargetInv, [Next]_vars, NEW d \in Deployments
  PROVE  \/ row'[d] = row[d]
         \/ Settled(d) /\ \E q \in Requests : WriteRow(q) /\ request[q].target = d
         \/ d = job /\ pc = "attach" /\ pc' = "health"
         \/ d = prev /\ pc = "forget" /\ row'[d] = "REMOVED"
         \/ d = job /\ pc = "undo" /\ Head(undo) = "forget" /\ row'[d] = "REMOVED"
         \/ d \in sweep /\ process = "sweeping" /\ row'[d] = "REMOVED"
<1> USE DEF rowVars, boxVars, runnerVars, apiVars, processVars
<1>0. TypeOK
  BY DEF DeployInv
<1>1. CASE UNCHANGED row
  BY <1>1
<1>2. ASSUME NEW q \in Requests, WriteRow(q)
      PROVE  row'[d] = row[d] \/ (Settled(d) /\ request[q].target = d)
  <2>1. CASE request[q].target = d
    BY <2>1 DEF TargetInv
  <2>2. CASE request[q].target # d
    BY <1>0, <1>2, <2>2 DEF WriteRow, TypeOK
  <2> QED
    BY <2>1, <2>2
<1>3. CASE Attach
  BY <1>0, <1>3 DEF Attach, GoTo, TypeOK
<1>4. CASE Forget
  BY <1>0, <1>4 DEF Forget, TypeOK
<1>5. CASE ForgetCandidate
  BY <1>0, <1>5 DEF ForgetCandidate, TypeOK
<1>6. ASSUME NEW e \in Deployments, SweepContainer(e)
      PROVE  row'[d] = row[d] \/ (d \in sweep /\ process = "sweeping" /\ row'[d] = "REMOVED")
  BY <1>0, <1>6 DEF SweepContainer, TypeOK
<1>7. CASE \/ ReadyRefuses \/ ReadyAllows \/ Load \/ Begin \/ Build \/ Run \/ Health \/ Cutover
           \/ Activate \/ Teardown \/ MarkFailed \/ RemoveCandidate \/ Return \/ Complete \/ StopSignal
  BY <1>1, <1>7 DEF ReadyRefuses, ReadyAllows, Load, Begin, Build, Run, Health, Cutover, Activate,
       Teardown, MarkFailed, RemoveCandidate, Return, Complete, StopSignal
<1>8. CASE \/ Tick \/ Boot \/ Serve \/ Shutdown \/ WaitTimeout \/ IdlePoll \/ Exit \/ Crash
           \/ UNCHANGED vars
           \/ \E e \in Deployments : \/ Create(e) \/ Enqueue(e) \/ Claim(e) \/ EnqueueFails(e) \/ FailUnread(e) \/ EnqueueUnread(e)
                                     \/ Cancel(e) \/ RequestCancellation(e)
           \/ \E q \in Requests : CallDocker(q)
           \/ \E q \in Requests, kind \in {"stop", "restart"} : Resolve(q, kind)
  BY <1>1, <1>8 DEF Tick, Boot, Serve, Shutdown, WaitTimeout, IdlePoll, Exit, Crash, ProcessEnds,
       Create, Enqueue, EnqueueFails, EnqueueUnread, FailUnread, Cancel, RequestCancellation, Claim, CallDocker, Resolve, vars
<1> QED
  BY <1>2, <1>3, <1>4, <1>5, <1>6, <1>7, <1>8 DEF Next, RunnerStep, RequestStep

\* Where a deployment that is not claimed, or not attached, has no row yet.
Unattached == {"ready", "load", "begin", "build", "run", "attach"}
RowInv ==
  /\ \A d \in Deployments : NotClaimed(d) => row[d] = "none"
  /\ prev # None => ~NotClaimed(prev)
  /\ \A d \in sweep : ~NotClaimed(d)
  /\ pc \in Unattached => row[job] = "none"

\* How a handler comes to be before its attachment, and what it replaces.
LEMMA UnattachedSteps ==
  ASSUME [Next]_vars
  PROVE  /\ \/ pc' \notin Unattached \/ (pc \in Unattached /\ job' = job)
            \/ \E d \in Deployments : Claim(d)
         /\ \/ prev' \in {prev, None} \/ prev' \in LatestSuccess
         /\ sweep' \subseteq sweep \/ Boot
<1> USE DEF rowVars, boxVars, runnerVars, apiVars, processVars
<1>1. CASE UNCHANGED <<pc, job, prev, sweep>>
  BY <1>1
<1>2. CASE RunnerStep
  BY <1>2 DEF RunnerStep, ReadyRefuses, ReadyAllows, Load, Begin, Build, Run, Attach, Health,
       Cutover, Activate, Teardown, Forget, MarkFailed, RemoveCandidate, ForgetCandidate, Return,
       Complete, GoTo, Unwind, UnwindCandidate, Undone, BecomeIdle, Unattached
<1>3. CASE Exit \/ Crash
  BY <1>3 DEF Exit, Crash, ProcessEnds, BecomeIdle, Unattached
<1>4. ASSUME NEW d \in Deployments, SweepContainer(d) \/ Claim(d)
      PROVE  /\ \/ pc' \notin Unattached \/ (pc \in Unattached /\ job' = job)
                \/ \E e \in Deployments : Claim(e)
             /\ prev' = prev /\ sweep' \subseteq sweep
  BY <1>4 DEF SweepContainer, Claim
<1>5. CASE Boot
  BY <1>5 DEF Boot
<1>6. CASE \/ Tick \/ Serve \/ Shutdown \/ WaitTimeout \/ IdlePoll \/ StopSignal \/ UNCHANGED vars
           \/ \E e \in Deployments : \/ Create(e) \/ Enqueue(e) \/ EnqueueFails(e) \/ FailUnread(e) \/ EnqueueUnread(e)
                                     \/ Cancel(e) \/ RequestCancellation(e)
           \/ \E q \in Requests : CallDocker(q) \/ WriteRow(q)
           \/ \E q \in Requests, kind \in {"stop", "restart"} : Resolve(q, kind)
  BY <1>1, <1>6 DEF Tick, Serve, Shutdown, WaitTimeout, IdlePoll, StopSignal, Create, Enqueue,
       EnqueueFails, EnqueueUnread, FailUnread, Cancel, RequestCancellation, CallDocker, WriteRow, Resolve, vars
<1> QED
  BY <1>2, <1>3, <1>4, <1>5, <1>6 DEF Next, RequestStep

\* It is kept.
LEMMA RowInvStep ==
  ASSUME DeployInv, TargetInv, RowInv, [Next]_vars
  PROVE  RowInv'
<1> USE DEF rowVars, boxVars, runnerVars, apiVars, processVars
<1>0. TypeOK /\ FreshInv /\ RunnerInv /\ SweepInv
  BY DEF DeployInv
<1>1. ASSUME NEW d \in Deployments, NotClaimed(d)' PROVE row'[d] = "none"
  <2>1. NotClaimed(d)
    BY <1>1, ClaimedStays
  <2>2. ~Settled(d) /\ d # job /\ d # prev /\ d \notin sweep
    BY <1>0, <2>1, DeploymentAssumption DEF Settled, RunnerInv, RowInv, NotClaimed, TypeOK
  <2> QED
    BY <2>1, <2>2, RowWrites DEF RowInv
<1>2. ASSUME prev' # None PROVE ~NotClaimed(prev)'
  <2>1. PICK d \in Deployments : d = prev' /\ ~NotClaimed(d)
    BY <1>0, <1>2, UnattachedSteps DEF LatestSuccess, FreshInv, RowInv, NotClaimed, TypeOK
  <2>2. ~NotClaimed(d)'
    BY <2>1, ClaimedStays
  <2> QED
    BY <2>1, <2>2 DEF NotClaimed
<1>3. ASSUME NEW d \in sweep' PROVE ~NotClaimed(d)'
  <2>1. d \in Deployments /\ ~NotClaimed(d)
    BY <1>0, <1>3, UnattachedSteps DEF Boot, Sweepable, RowInv, TypeOK
  <2> QED
    BY <2>1, ClaimedStays
<1>4. ASSUME pc' \in Unattached PROVE row'[job'] = "none"
  <2>1. CASE pc \in Unattached /\ job' = job
    <3>1. /\ job \in Deployments /\ row[job] = "none" /\ ~Settled(job)
          /\ pc \notin {"forget", "undo"} /\ process # "sweeping"
      BY <1>0, <2>1 DEF TypeOK, RowInv, Settled, Unattached, AfterCutover, SweepInv
    <3>2. pc' # "health"
      BY <1>4 DEF Unattached
    <3> QED
      BY <2>1, <3>1, <3>2, RowWrites
  <2>2. ASSUME NEW d \in Deployments, Claim(d) PROVE row'[job'] = "none"
    BY <2>2 DEF Claim, Claimable, RowInv, NotClaimed
  <2> QED
    BY <1>4, <2>1, <2>2, UnattachedSteps
<1> QED
  BY <1>1, <1>2, <1>3, <1>4 DEF RowInv

-----------------------------------------------------------------------------
\* A failure path ends by forgetting the row, or marks the deployment only.
LEMMA CleanupEnds ==
  /\ \A u \in Cleanups : u # <<>> =>
       /\ Tail(u) = <<>> => u = <<"fail">> \/ Head(u) = "forget"
       /\ Tail(u) = <<"fail">> => Head(u) = "forget"
  /\ <<"fail", "remove", "forget">> # <<"fail">> /\ <<"remove", "forget", "fail">> # <<"fail">>
  /\ <<>> # <<"fail">>
<1>1. /\ Tail(<<"remove", "forget">>) # <<>> /\ Tail(<<"remove", "forget">>) # <<"fail">>
      /\ Tail(<<"forget", "fail">>) # <<>>
      /\ Head(<<"forget", "fail">>) = "forget" /\ Head(<<"forget">>) = "forget"
      /\ Tail(<<"fail", "remove", "forget">>) # <<>>
      /\ Tail(<<"fail", "remove", "forget">>) # <<"fail">>
      /\ Tail(<<"remove", "forget", "fail">>) # <<>>
      /\ Tail(<<"remove", "forget", "fail">>) # <<"fail">>
      /\ Tail(<<"fail">>) # <<"fail">>
  OBVIOUS
<1>2. /\ <<"fail", "remove", "forget">> # <<"fail">> /\ <<"remove", "forget", "fail">> # <<"fail">>
      /\ <<>> # <<"fail">>
  OBVIOUS
<1> QED
  BY <1>1, <1>2, Zenon DEF Cleanups

\* While nothing fails, a handler that has ended leaves a tracked running
\* container only for a success, and one that only marks its deployment failed
\* has none.
CleanInv ==
  faults = 0 =>
    /\ pc \in AfterCutover /\ row[job] = "RUNNING" => dep[job] = "SUCCESS"
    /\ undo = <<"fail">> => row[job] # "RUNNING"

\* How a handler comes to its end, and to marking its deployment only.
LEMMA HandlerMoves ==
  ASSUME TypeOK, [Next]_vars
  PROVE  /\ pc' \in AfterCutover =>
              \/ pc \in AfterCutover /\ job' = job
              \/ Load \/ Begin \/ Activate \/ MarkFailed \/ RemoveCandidate \/ ForgetCandidate
         /\ undo' = <<"fail">> =>
              \/ undo' = undo /\ job' = job
              \/ Build \/ Run \/ Attach \/ MarkFailed \/ RemoveCandidate \/ ForgetCandidate
<1> USE DEF rowVars, boxVars, runnerVars, apiVars, processVars
<1>1. CASE UNCHANGED <<pc, undo, job>>
  BY <1>1
<1>2. CASE RunnerStep
  BY <1>2, CleanupEnds DEF RunnerStep, ReadyRefuses, ReadyAllows, Load, Begin, Build, Run, Attach,
       Health, Cutover, Activate, Teardown, Forget, Return, Complete, GoTo, Unwind,
       UnwindCandidate, BecomeIdle, AfterCutover
<1>3. CASE Exit \/ Crash
  BY <1>3, CleanupEnds DEF Exit, Crash, ProcessEnds, BecomeIdle, AfterCutover
<1>4. ASSUME NEW d \in Deployments, Claim(d)
      PROVE  pc' \notin AfterCutover /\ (undo' = <<"fail">> => FALSE)
  BY <1>4, CleanupEnds DEF Claim, AfterCutover, TypeOK
<1>5. CASE \/ Tick \/ Boot \/ Serve \/ Shutdown \/ WaitTimeout \/ IdlePoll \/ StopSignal
           \/ UNCHANGED vars
           \/ \E e \in Deployments : \/ Create(e) \/ Enqueue(e) \/ EnqueueFails(e) \/ FailUnread(e) \/ EnqueueUnread(e)
                                     \/ Cancel(e) \/ RequestCancellation(e) \/ SweepContainer(e)
           \/ \E q \in Requests : CallDocker(q) \/ WriteRow(q)
           \/ \E q \in Requests, kind \in {"stop", "restart"} : Resolve(q, kind)
  BY <1>1, <1>5 DEF Tick, Boot, Serve, Shutdown, WaitTimeout, IdlePoll, StopSignal, Create, Enqueue,
       EnqueueFails, EnqueueUnread, FailUnread, Cancel, RequestCancellation, CallDocker, WriteRow, Resolve, SweepContainer, vars
<1> QED
  BY <1>2, <1>3, <1>4, <1>5 DEF Next, RequestStep

\* It is kept.
LEMMA CleanInvStep ==
  ASSUME DeployInv, TargetInv, RowInv, CleanInv, [Next]_vars
  PROVE  CleanInv'
<1> SUFFICES ASSUME faults' = 0
             PROVE  /\ pc' \in AfterCutover /\ row'[job'] = "RUNNING" => dep'[job'] = "SUCCESS"
                    /\ undo' = <<"fail">> => row'[job'] # "RUNNING"
  BY DEF CleanInv
<1> USE DEF rowVars, boxVars, runnerVars, apiVars, processVars
<1>0. TypeOK /\ FreshInv /\ RunnerInv /\ SweepInv /\ faults = 0 /\ ~Fault
  BY FaultsCount DEF DeployInv
<1>s. pc \in {"load", "begin", "build", "run", "attach"} => row[job] = "none"
  BY DEF RowInv, Unattached
<1>t. pc = "undo" => undo \in Cleanups /\ undo # <<>> /\ job \in Deployments
  BY <1>0 DEF TypeOK
<1>1. ASSUME pc' \in AfterCutover, row'[job'] = "RUNNING" PROVE dep'[job'] = "SUCCESS"
  <2>1. CASE pc \in AfterCutover /\ job' = job
    <3>1. job \in Deployments /\ ~NotClaimed(job)
      BY <1>0, <2>1 DEF AfterCutover, TypeOK, RunnerInv, NotClaimed
    <3>2. row[job] = "RUNNING" \/ Settled(job)
      BY <1>1, <2>1, <3>1, RowWrites DEF AfterCutover
    <3>3. Settled(job)
      BY <1>0, <2>1, <3>1, <3>2 DEF CleanInv, Settled, Succeeded
    <3>4. dep'[job] = "SUCCESS"
      BY <3>1, <3>3, SettledSuccess
    <3> QED
      BY <2>1, <3>4
  <2>2. CASE Load \/ Begin
    BY <1>1, <1>s, <2>2 DEF Load, Begin, GoTo
  <2>3. CASE Activate
    BY <1>0, <1>1, <2>3, SettledSuccess DEF Activate, GoTo, Unwind, RunnerInv, AfterCutover, TypeOK
  <2>4. CASE MarkFailed
    <3>1. Tail(undo) = <<>> /\ Head(undo) = "fail"
      BY <1>1, <2>4 DEF MarkFailed, Undone, AfterCutover
    <3>2. undo = <<"fail">>
      BY <1>t, <2>4, <3>1, CleanupEnds DEF MarkFailed
    <3> QED
      BY <1>0, <1>1, <2>4, <3>2 DEF MarkFailed, Undone, CleanInv
  <2>5. CASE RemoveCandidate
    <3>1. Tail(undo) = <<>> /\ Head(undo) = "remove"
      BY <1>0, <1>1, <2>5 DEF RemoveCandidate, Undone, AfterCutover
    <3>2. Head(undo) = "fail" \/ Head(undo) = "forget"
      BY <1>t, <2>5, <3>1, CleanupEnds DEF RemoveCandidate
    <3> QED
      BY <3>1, <3>2
  <2>6. CASE ForgetCandidate
    BY <1>0, <1>1, <1>t, <2>6 DEF ForgetCandidate, Undone, TypeOK
  <2> QED
    BY <1>0, <1>1, <2>1, <2>2, <2>3, <2>4, <2>5, <2>6, HandlerMoves
<1>2. ASSUME undo' = <<"fail">> PROVE row'[job'] # "RUNNING"
  <2>1. CASE undo' = undo /\ job' = job
    <3>1. pc = "undo" /\ job \in Deployments /\ ~Settled(job) /\ row[job] # "RUNNING"
      BY <1>0, <1>2, <2>1, CleanupEnds DEF TypeOK, Settled, AfterCutover, CleanInv
    <3> QED
      BY <2>1, <3>1, RowWrites
  <2>2. CASE Build \/ Run
    BY <1>s, <2>2 DEF Build, Run, GoTo, Unwind
  <2>3. CASE Attach
    BY <1>0, <1>2, <1>s, <2>3, CleanupEnds DEF Attach, GoTo, Unwind, TypeOK
  <2>4. CASE MarkFailed \/ RemoveCandidate
    <3>1. Tail(undo) = <<"fail">> /\ Head(undo) # "forget" /\ pc = "undo"
      BY <1>0, <1>2, <2>4 DEF MarkFailed, RemoveCandidate, Undone
    <3> QED
      BY <1>t, <3>1, CleanupEnds
  <2>5. CASE ForgetCandidate
    BY <1>0, <1>t, <2>5 DEF ForgetCandidate, Undone, TypeOK
  <2> QED
    BY <1>0, <1>2, <2>1, <2>2, <2>3, <2>4, <2>5, HandlerMoves
<1> QED
  BY <1>1, <1>2

-----------------------------------------------------------------------------
\* While nothing fails, every tracked running container of a serving process
\* belongs to a success or to the handler at work; during the sweep, to a
\* success or to what the sweep has listed.
ResidueInv ==
  faults = 0 =>
    /\ process = "up" =>
         \A d \in Deployments : row[d] = "RUNNING" => dep[d] = "SUCCESS" \/ d = job
    /\ process = "sweeping" =>
         \A d \in Deployments : row[d] = "RUNNING" => dep[d] = "SUCCESS" \/ d \in sweep

\* Which steps start serving or sweeping, end a job, or take from the sweep.
LEMMA ServingSteps ==
  ASSUME [Next]_vars
  PROVE  /\ process' = "up" => process = "up" \/ Serve
         /\ process' = "up" => \/ job' = job \/ ReadyRefuses \/ Complete
                               \/ \E d \in Deployments : Claim(d)
         /\ process' = "sweeping" => process = "sweeping" \/ Boot
         /\ process' = "sweeping" => \/ Boot \/ sweep' = sweep
                                     \/ \E d \in Deployments : SweepContainer(d)
<1> USE DEF rowVars, boxVars, runnerVars, apiVars, processVars
<1>1. CASE UNCHANGED <<process, job, sweep>>
  BY <1>1
<1>2. CASE RunnerStep
  BY <1>2 DEF RunnerStep, ReadyRefuses, ReadyAllows, Load, Begin, Build, Run, Attach, Health,
       Cutover, Activate, Teardown, Forget, MarkFailed, RemoveCandidate, ForgetCandidate, Return,
       Complete, GoTo, Unwind, UnwindCandidate, Undone
<1>3. CASE Boot \/ Serve \/ Shutdown \/ Exit \/ Crash
  BY <1>3 DEF Boot, Serve, Shutdown, Exit, Crash, ProcessEnds
<1>4. ASSUME NEW d \in Deployments, SweepContainer(d) \/ Claim(d)
      PROVE  /\ process' = process
             /\ job' = job \/ \E e \in Deployments : Claim(e)
             /\ sweep' = sweep \/ \E e \in Deployments : SweepContainer(e)
  BY <1>4 DEF SweepContainer, Claim
<1>5. CASE \/ Tick \/ WaitTimeout \/ IdlePoll \/ StopSignal \/ UNCHANGED vars
           \/ \E e \in Deployments : \/ Create(e) \/ Enqueue(e) \/ EnqueueFails(e) \/ FailUnread(e) \/ EnqueueUnread(e)
                                     \/ Cancel(e) \/ RequestCancellation(e)
           \/ \E q \in Requests : CallDocker(q) \/ WriteRow(q)
           \/ \E q \in Requests, kind \in {"stop", "restart"} : Resolve(q, kind)
  BY <1>1, <1>5 DEF Tick, WaitTimeout, IdlePoll, StopSignal, Create, Enqueue, EnqueueFails, EnqueueUnread, FailUnread, Cancel,
       RequestCancellation, CallDocker, WriteRow, Resolve, vars
<1> QED
  BY <1>2, <1>3, <1>4, <1>5 DEF Next, RequestStep

\* It is kept.
LEMMA ResidueInvStep ==
  ASSUME DeployInv, TargetInv, RowInv, CleanInv, ResidueInv, [Next]_vars
  PROVE  ResidueInv'
<1> SUFFICES ASSUME faults' = 0, NEW d \in Deployments, row'[d] = "RUNNING"
             PROVE  /\ process' = "up" => dep'[d] = "SUCCESS" \/ d = job'
                    /\ process' = "sweeping" => dep'[d] = "SUCCESS" \/ d \in sweep'
  BY DEF ResidueInv
<1> USE DEF rowVars, boxVars, runnerVars, apiVars, processVars
<1>0. TypeOK /\ FreshInv /\ RunnerInv /\ SweepInv /\ faults = 0 /\ ~Fault
  BY FaultsCount DEF DeployInv
<1>1. CASE Settled(d)
  BY <1>1, SettledSuccess
<1>2. ASSUME ~Settled(d) PROVE dep[d] = "SUCCESS" => d = job
  BY <1>0, <1>2 DEF Settled, Succeeded, FreshInv, NotClaimed
<1>3. ASSUME ~Settled(d)
      PROVE  row[d] = "RUNNING" \/ (d = job /\ pc = "attach" /\ pc' = "health")
  BY <1>3, RowWrites
<1>4. ASSUME ~Settled(d), process' = "up" PROVE d = job'
  <2>1. d = job
    <3>1. CASE process = "up"
      BY <1>0, <1>2, <1>3, <1>4, <3>1 DEF ResidueInv
    <3>2. CASE Serve
      BY <1>0, <1>2, <1>3, <1>4, <3>2, DeploymentAssumption DEF Serve, ResidueInv, SweepInv, TypeOK
    <3> QED
      BY <1>4, <3>1, <3>2, ServingSteps
  <2>2. CASE ReadyRefuses
    BY <1>3, <1>4, <2>1, <2>2 DEF ReadyRefuses, RowInv, Unattached
  <2>3. CASE Complete
    <3>1. row[job] = "RUNNING" /\ pc = "complete"
      BY <1>3, <1>4, <2>1, <2>3 DEF Complete
    <3>2. dep[job] = "SUCCESS"
      BY <1>0, <3>1 DEF CleanInv, AfterCutover
    <3> QED
      BY <1>0, <1>4, <2>1, <3>1, <3>2 DEF Settled, Succeeded, RunnerInv, NotClaimed, AfterCutover
  <2>4. ~\E e \in Deployments : Claim(e)
    BY <1>0, <2>1, DeploymentAssumption DEF Claim, TypeOK
  <2> QED
    BY <1>4, <2>1, <2>2, <2>3, <2>4, ServingSteps
<1>5. ASSUME ~Settled(d), process' = "sweeping" PROVE dep'[d] = "SUCCESS" \/ d \in sweep'
  <2>1. CASE Boot
    <3>1. pc = "idle" /\ row' = row /\ row[d] = "RUNNING" /\ ~NotClaimed(d)
      BY <1>0, <2>1 DEF Boot, SweepInv, RowInv
    <3>2. dep[d] # "absent" /\ dep[d] # "SUCCESS"
      BY <1>0, <1>2, <1>5, <3>1, DeploymentAssumption DEF FreshInv, NotClaimed, TypeOK
    <3>3. dep'[d] \in {"FAILED", "CANCELLED"}
      BY <1>0, <2>1, <3>1, <3>2 DEF Boot, Orphaned, NotClaimed, TypeOK, Live, Ended
    <3>4. active # d
      BY <3>2, SettledSuccess, DeploymentAssumption DEF DeployInv, ActiveIsKept
    <3> QED
      BY <2>1, <3>1, <3>3, <3>4 DEF Boot, Sweepable
  <2>2. CASE process = "sweeping" /\ ~Boot
    <3>1. pc = "idle" /\ row[d] = "RUNNING" /\ d \in sweep
      BY <1>0, <1>2, <1>3, <1>5, <2>2, DeploymentAssumption DEF SweepInv, ResidueInv, TypeOK
    <3>2. ASSUME NEW e \in Deployments, SweepContainer(e) PROVE d \in sweep'
      BY <1>0, <3>1, <3>2 DEF SweepContainer, TypeOK
    <3> QED
      BY <1>5, <2>2, <3>1, <3>2, ServingSteps
  <2> QED
    BY <1>5, <2>1, <2>2, ServingSteps
<1> QED
  BY <1>1, <1>4, <1>5

\* All these invariants hold of every reachable state.
CleanupInv == DeployInv /\ TargetInv /\ RowInv /\ CleanInv /\ ResidueInv
LEMMA CleanupInvariant == Spec => []CleanupInv
<1>1. Init => CleanupInv
  BY InitDeployInv, CleanupEnds, DeploymentAssumption
     DEF Init, CleanupInv, TargetInv, RowInv, CleanInv, ResidueInv, Unattached, AfterCutover
<1>2. CleanupInv /\ [Next]_vars => CleanupInv'
  BY DeployInvStep, TargetInvStep, RowInvStep, CleanInvStep, ResidueInvStep DEF CleanupInv
<1> QED
  BY <1>1, <1>2, PTL DEF Spec

\* A process that serves has no tracked running container of a failed or
\* cancelled deployment but the one its handler is still cleaning up: whatever
\* the crashes and cancellations before, the failure paths and the sweep of the
\* start have seen to the others.
THEOREM ResidueIsCleared == Spec => []NoResidue
<1>1. CleanupInv => NoResidue
  BY DEF CleanupInv, ResidueInv, NoResidue
<1> QED
  BY <1>1, CleanupInvariant, PTL

-----------------------------------------------------------------------------
\* Who writes a container in the Docker daemon.
LEMMA BoxWrites ==
  ASSUME DeployInv, [Next]_vars, NEW d \in Deployments
  PROVE  \/ box'[d] = box[d]
         \/ \E q \in Requests : CallDocker(q) /\ request[q].target = d
         \/ d = job /\ pc = "run"
         \/ d = prev /\ pc = "teardown"
         \/ d = job /\ pc = "undo"
         \/ d \in sweep /\ process = "sweeping"
<1> USE DEF rowVars, boxVars, runnerVars, apiVars, processVars
<1>0. TypeOK
  BY DEF DeployInv
<1>1. CASE UNCHANGED box
  BY <1>1
<1>2. ASSUME NEW q \in Requests, CallDocker(q)
      PROVE  box'[d] = box[d] \/ request[q].target = d
  BY <1>0, <1>2 DEF CallDocker, TypeOK
<1>3. CASE Run \/ Teardown \/ RemoveCandidate
  BY <1>0, <1>3 DEF Run, Teardown, RemoveCandidate, TypeOK
<1>4. ASSUME NEW e \in Deployments, SweepContainer(e)
      PROVE  box'[d] = box[d] \/ (d \in sweep /\ process = "sweeping")
  BY <1>0, <1>4 DEF SweepContainer, TypeOK
<1>5. CASE \/ ReadyRefuses \/ ReadyAllows \/ Load \/ Begin \/ Build \/ Attach \/ Health \/ Cutover
           \/ Activate \/ Forget \/ MarkFailed \/ ForgetCandidate \/ Return \/ Complete \/ StopSignal
  BY <1>1, <1>5 DEF ReadyRefuses, ReadyAllows, Load, Begin, Build, Attach, Health, Cutover, Activate,
       Forget, MarkFailed, ForgetCandidate, Return, Complete, StopSignal
<1>6. CASE \/ Tick \/ Boot \/ Serve \/ Shutdown \/ WaitTimeout \/ IdlePoll \/ Exit \/ Crash
           \/ UNCHANGED vars
           \/ \E e \in Deployments : \/ Create(e) \/ Enqueue(e) \/ Claim(e) \/ EnqueueFails(e) \/ FailUnread(e) \/ EnqueueUnread(e)
                                     \/ Cancel(e) \/ RequestCancellation(e)
           \/ \E q \in Requests : WriteRow(q)
           \/ \E q \in Requests, kind \in {"stop", "restart"} : Resolve(q, kind)
  BY <1>1, <1>6 DEF Tick, Boot, Serve, Shutdown, WaitTimeout, IdlePoll, Exit, Crash, ProcessEnds,
       Create, Enqueue, EnqueueFails, EnqueueUnread, FailUnread, Cancel, RequestCancellation, Claim, WriteRow, Resolve, vars
<1> QED
  BY <1>2, <1>3, <1>4, <1>5, <1>6 DEF Next, RunnerStep, RequestStep

\* The routed container, and the candidate once it is attached, run as their
\* row says, but for what the one request that has called Docker will write.
Serving(d) == d = active \/ (d = job /\ pc \in Attached)
Agrees(d)  ==
  /\ \A q \in Requests : request[q].target = d /\ request[q].step = "row" =>
       box[d] = IF request[q].kind = "stop" THEN "stopped" ELSE "running"
  /\ (\A q \in Requests : request[q].target = d => request[q].step # "row")
       /\ row[d] = "RUNNING" => box[d] = "running"
BoxInv ==
  boots = 0 /\ faults = 0 =>
    /\ pc = "attach" => box[job] = "running"
    /\ \A d \in Deployments : Serving(d) /\ AskedAlone(d) => Agrees(d)

\* How a candidate comes to its attachment, and a deployment to serve, in the
\* first life of a process.
LEMMA ServingMoves ==
  ASSUME TypeOK, [Next]_vars, boots' = 0
  PROVE  /\ boots = 0
         /\ pc' = "attach" => (pc = "attach" /\ job' = job) \/ Run
         /\ active' = active \/ (Activate /\ active' = job)
         /\ pc' \in Attached => (pc \in Attached /\ job' = job) \/ (Attach /\ job' = job)
         /\ \/ UNCHANGED request
            \/ \E q \in Requests : CallDocker(q) \/ WriteRow(q)
            \/ \E q \in Requests, kind \in {"stop", "restart"} : Resolve(q, kind)
<1> USE DEF rowVars, boxVars, runnerVars, apiVars, processVars
<1>0. boots \in Nat
  BY DEF TypeOK
<1>1. CASE UNCHANGED <<pc, job, active, boots, request>>
  BY <1>1
<1>2. CASE RunnerStep
  BY <1>2 DEF RunnerStep, ReadyRefuses, ReadyAllows, Load, Begin, Build, Run, Attach, Health,
       Cutover, Activate, Teardown, Forget, MarkFailed, RemoveCandidate, ForgetCandidate, Return,
       Complete, GoTo, Unwind, UnwindCandidate, Undone, BecomeIdle, Attached
<1>3. CASE Exit \/ Crash
  BY <1>0, <1>3 DEF Exit, Crash, ProcessEnds
<1>4. ASSUME NEW d \in Deployments, Claim(d)
      PROVE  /\ UNCHANGED <<active, boots, request>>
             /\ pc' = "ready"
  BY <1>4 DEF Claim
<1>5. CASE \/ Tick \/ Boot \/ Serve \/ Shutdown \/ WaitTimeout \/ IdlePoll \/ StopSignal
           \/ UNCHANGED vars
           \/ \E e \in Deployments : \/ Create(e) \/ Enqueue(e) \/ EnqueueFails(e) \/ FailUnread(e) \/ EnqueueUnread(e)
                                     \/ Cancel(e) \/ RequestCancellation(e) \/ SweepContainer(e)
  BY <1>1, <1>5 DEF Tick, Boot, Serve, Shutdown, WaitTimeout, IdlePoll, StopSignal, Create, Enqueue,
       EnqueueFails, EnqueueUnread, FailUnread, Cancel, RequestCancellation, SweepContainer, vars
<1>6. CASE \/ \E q \in Requests : CallDocker(q) \/ WriteRow(q)
           \/ \E q \in Requests, kind \in {"stop", "restart"} : Resolve(q, kind)
  BY <1>6 DEF CallDocker, WriteRow, Resolve
<1> QED
  BY <1>2, <1>3, <1>4, <1>5, <1>6 DEF Next, RequestStep, Attached

\* A request about a deployment moves box and row together, in two steps.
LEMMA RequestAgrees ==
  ASSUME DeployInv, TargetInv, [Next]_vars, faults' = 0,
         NEW d \in Deployments, AskedAlone(d), Agrees(d),
         NEW q \in Requests, CallDocker(q) \/ WriteRow(q), request[q].target = d
  PROVE  Agrees(d)'
<1> USE DEF rowVars, boxVars, runnerVars, apiVars, processVars
<1>0. TypeOK /\ ~Fault /\ faults = 0
  BY FaultsCount DEF DeployInv
<1>1. /\ \A p \in Requests \ {q} : request'[p] = request[p] /\ request'[p].target # d
      /\ request'[q].target = d /\ request'[q].kind = request[q].kind
  BY <1>0, RequestMoves DEF AskedAlone
<1>2. CASE WriteRow(q)
  <2>1. request[q].step = "row" /\ request'[q].step = "done" /\ box' = box
    BY <1>0, <1>2, RequestMoves DEF WriteRow
  <2>2. row'[d] = IF request[q].kind = "stop" THEN "STOPPED" ELSE "RUNNING"
    BY <1>0, <1>2 DEF WriteRow, TypeOK
  <2>3. box[d] = IF request[q].kind = "stop" THEN "stopped" ELSE "running"
    BY <2>1 DEF Agrees
  <2> QED
    BY <1>1, <2>1, <2>2, <2>3 DEF Agrees
<1>3. CASE CallDocker(q)
  <2>1. row' = row /\ request[q].step = "docker" /\ request'[q].step \in {"row", "done"}
    BY <1>0, <1>3, RequestMoves DEF CallDocker
  <2>2. CASE request'[q].step = "row"
    <3>1. request' # [request EXCEPT ![q].step = "done"]
      <4>1. [request EXCEPT ![q].step = "done"][q].step = "done"
        <5>1. ASSUME NEW r \in RequestState PROVE [r EXCEPT !.step = "done"].step = "done"
          BY DEF RequestState
        <5>2. [request EXCEPT ![q].step = "done"][q] = [request[q] EXCEPT !.step = "done"]
          BY <1>0 DEF TypeOK
        <5> QED
          BY <1>0, <5>1, <5>2 DEF TypeOK
      <4> QED
        BY <2>2, <4>1
    <3>2. box'[d] = IF request[q].kind = "stop" THEN "stopped" ELSE "running"
      BY <1>0, <1>3, <3>1 DEF CallDocker, TypeOK
    <3> QED
      BY <1>1, <2>1, <2>2, <3>2 DEF Agrees
  <2>3. CASE request'[q].step = "done"
    <3>1. request' # [request EXCEPT ![q].step = "row"]
      <4>1. [request EXCEPT ![q].step = "row"][q].step = "row"
        <5>1. ASSUME NEW r \in RequestState PROVE [r EXCEPT !.step = "row"].step = "row"
          BY DEF RequestState
        <5>2. [request EXCEPT ![q].step = "row"][q] = [request[q] EXCEPT !.step = "row"]
          BY <1>0 DEF TypeOK
        <5> QED
          BY <1>0, <5>1, <5>2 DEF TypeOK
      <4> QED
        BY <2>3, <4>1
    <3>2. box' = box
      BY <1>3, <3>1 DEF CallDocker
    <3>3. \A p \in Requests : request[p].target = d => request[p].step # "row"
      BY <2>1 DEF AskedAlone
    <3> QED
      BY <1>1, <2>1, <2>3, <3>2, <3>3 DEF Agrees
  <2> QED
    BY <2>1, <2>2, <2>3
<1> QED
  BY <1>2, <1>3

\* A request that is resolved to a deployment has not called Docker yet.
LEMMA ResolvingAgrees ==
  ASSUME DeployInv, TargetInv, NEW d \in Deployments, Agrees(d), AskedAlone(d)',
         NEW q \in Requests, NEW kind \in {"stop", "restart"}, Resolve(q, kind)
  PROVE  Agrees(d)'
<1> USE DEF rowVars, boxVars, runnerVars, apiVars, processVars
<1>1. /\ UNCHANGED <<row, box>> /\ request[q].target = None
      /\ request'[q].step = "docker" /\ request'[q].target = active
      /\ \A p \in Requests \ {q} : request'[p] = request[p]
  BY DEF Resolve, DeployInv, TypeOK, TargetInv
<1>2. CASE active = d
  <2>1. \A p \in Requests : request[p].target # d
    BY <1>1, <1>2, DeploymentAssumption DEF AskedAlone
  <2>2. \A p \in Requests : request'[p].target = d => request'[p].step # "row"
    BY <1>1, <2>1
  <2> QED
    BY <1>1, <2>1, <2>2 DEF Agrees
<1>3. CASE active # d
  BY <1>1, <1>3, DeploymentAssumption DEF Agrees
<1> QED
  BY <1>2, <1>3

\* It is kept.
LEMMA BoxInvStep ==
  ASSUME DeployInv, TargetInv, BoxInv, [Next]_vars
  PROVE  BoxInv'
<1> SUFFICES ASSUME boots' = 0, faults' = 0
             PROVE  /\ pc' = "attach" => box'[job'] = "running"
                    /\ \A d \in Deployments : Serving(d)' /\ AskedAlone(d)' => Agrees(d)'
  BY DEF BoxInv
<1> USE DEF rowVars, boxVars, runnerVars, apiVars, processVars
<1>0. TypeOK /\ RunnerInv /\ SweepInv /\ faults = 0 /\ boots = 0 /\ ~Fault
  BY FaultsCount, ServingMoves DEF DeployInv
<1>1. ASSUME pc' = "attach" PROVE box'[job'] = "running"
  <2>1. CASE pc = "attach" /\ job' = job
    <3>1. job \in Deployments /\ box[job] = "running" /\ process # "sweeping" /\ ~Settled(job)
      BY <1>0, <2>1 DEF TypeOK, BoxInv, SweepInv, Settled, AfterCutover
    <3>2. \A q \in Requests : request[q].target # job
      BY <3>1 DEF TargetInv
    <3> QED
      BY <2>1, <3>1, <3>2, BoxWrites
  <2>2. CASE Run
    BY <1>0, <1>1, <2>2 DEF Run, GoTo, Unwind, TypeOK
  <2> QED
    BY <1>0, <1>1, <2>1, <2>2, ServingMoves
<1>2. ASSUME NEW d \in Deployments, Serving(d)', AskedAlone(d)' PROVE Agrees(d)'
  <2>1. AskedAlone(d)
    <3>1. \A q \in Requests : request[q].target = d => request'[q].target = d
      BY <1>0, RequestSteps, DeploymentAssumption DEF TargetInv
    <3> QED
      BY <1>2, <3>1 DEF AskedAlone
  <2>2. CASE Attach /\ d = job
    <3>1. /\ pc = "attach" /\ box' = box /\ box[d] = "running" /\ UNCHANGED request
      BY <1>0, <2>2 DEF Attach, BoxInv
    <3>2. ~Settled(d)
      BY <2>2, <3>1 DEF Settled, AfterCutover
    <3>3. \A q \in Requests : request'[q].target # d
      BY <3>1, <3>2 DEF TargetInv
    <3> QED
      BY <3>1, <3>3 DEF Agrees
  <2>3. CASE ~(Attach /\ d = job)
    <3>1. Serving(d)
      BY <1>0, <1>2, <2>3, ServingMoves DEF Serving, Activate, Attached
    <3>2. Agrees(d)
      BY <1>0, <2>1, <3>1 DEF BoxInv
    <3>3. CASE \E q \in Requests : (CallDocker(q) \/ WriteRow(q)) /\ request[q].target = d
      BY <2>1, <3>2, <3>3, RequestAgrees
    <3>4. CASE \E q \in Requests, kind \in {"stop", "restart"} : Resolve(q, kind)
      BY <1>2, <3>2, <3>4, ResolvingAgrees
    <3>5. CASE /\ ~\E q \in Requests : (CallDocker(q) \/ WriteRow(q)) /\ request[q].target = d
               /\ ~\E q \in Requests, kind \in {"stop", "restart"} : Resolve(q, kind)
      <4>1. /\ d = job => pc \notin {"run", "undo"} /\ ~(pc = "attach" /\ pc' = "health")
            /\ d = prev => pc \notin {"teardown", "forget"}
            /\ d \in sweep => process # "sweeping"
        BY <1>0, <3>1, DeploymentAssumption
           DEF Serving, RunnerInv, SweepInv, Early, Attached, TypeOK
      <4>2. box'[d] = box[d]
        BY <3>5, <4>1, BoxWrites
      <4>3. row'[d] = row[d]
        BY <3>5, <4>1, RowWrites
      <4>4. \A p \in Requests : request'[p] = request[p] \/ (request[p].target # d /\ request'[p].target # d)
        <5>1. ASSUME NEW q \in Requests, CallDocker(q) \/ WriteRow(q)
              PROVE  \A p \in Requests : request'[p] = request[p] \/ (request[p].target # d /\ request'[p].target # d)
          BY <1>0, <3>5, <5>1, RequestMoves
        <5> QED
          BY <1>0, <3>5, <5>1, ServingMoves
      <4> QED
        BY <3>2, <4>2, <4>3, <4>4 DEF Agrees
    <3> QED
      BY <3>3, <3>4, <3>5
  <2> QED
    BY <2>2, <2>3
<1> QED
  BY <1>1, <1>2

LEMMA BoxInvariant == Spec => [](DeployInv /\ TargetInv /\ BoxInv)
<1>1. Init => DeployInv /\ TargetInv /\ BoxInv
  BY InitDeployInv, DeploymentAssumption DEF Init, TargetInv, BoxInv, Serving, Attached
<1>2. DeployInv /\ TargetInv /\ BoxInv /\ [Next]_vars => DeployInv' /\ TargetInv' /\ BoxInv'
  BY DeployInvStep, TargetInvStep, BoxInvStep
<1> QED
  BY <1>1, <1>2, PTL DEF Spec

\* As long as nothing failed and the process was not restarted, the container
\* the domains are routed to runs whenever its row says so: across cutovers,
\* cleanups and the stop and restart requests, but for a container that two
\* requests were made about.
THEOREM RoutedStaysRunning == Spec => []RoutedContainerRuns
<1>1. DeployInv /\ BoxInv => RoutedContainerRuns
  <2> SUFFICES ASSUME DeployInv, BoxInv, boots = 0, faults = 0, active # None,
                      row[active] = "RUNNING", AskedAlone(active),
                      \A q \in Requests : request[q].target = active => ~InFlight(request[q])
               PROVE  box[active] = "running"
    BY DEF RoutedContainerRuns
  <2>1. active \in Deployments /\ Serving(active)
    BY DEF DeployInv, TypeOK, Serving
  <2>2. Agrees(active)
    BY <2>1 DEF BoxInv
  <2> QED
    BY <2>2 DEF Agrees, InFlight
<1> QED
  BY <1>1, BoxInvariant, PTL

-----------------------------------------------------------------------------
\* The first life of a process, before it drains, while nothing fails.
Calm == process # "draining" /\ boots = 0 /\ faults = 0

\* How the handler moves then.
LEMMA CalmSteps ==
  ASSUME TypeOK, [Next]_vars, Calm'
  PROVE  /\ Calm /\ ~Fault /\ ~WaitTimeout
         /\ pc = "activate" => (pc' = "activate" /\ job' = job) \/ Activate
         /\ pc = "teardown" => (pc' = "teardown" /\ prev' = prev) \/ Teardown
         /\ pc' \in Attached \cup {"begin", "build", "run", "attach"} =>
              \/ UNCHANGED <<prev, active>> /\ pc \in Attached \cup {"begin", "build", "run", "attach"}
              \/ Load /\ pc' = "begin"
         /\ active' = active \/ (Activate /\ active' = job)
<1> USE DEF rowVars, boxVars, runnerVars, apiVars, processVars
<1>0. boots \in Nat /\ boots' = 0 /\ faults' = 0 /\ process' # "draining"
  BY DEF TypeOK, Calm
<1>f. faults = 0 /\ ~Fault
  BY <1>0, FaultsCount
<1> DEFINE Moves ==
      /\ pc = "activate" => (pc' = "activate" /\ job' = job) \/ Activate
      /\ pc = "teardown" => (pc' = "teardown" /\ prev' = prev) \/ Teardown
      /\ pc' \in Attached \cup {"begin", "build", "run", "attach"} =>
           \/ UNCHANGED <<prev, active>> /\ pc \in Attached \cup {"begin", "build", "run", "attach"}
           \/ Load /\ pc' = "begin"
      /\ active' = active \/ (Activate /\ active' = job)
<1>1. CASE UNCHANGED <<pc, job, prev, active, boots, process>>
  <2>1. ~WaitTimeout
    BY <1>0, <1>1 DEF WaitTimeout
  <2> QED
    BY <1>0, <1>1, <1>f, <2>1 DEF Calm
<1>2. CASE RunnerStep
  <2>1. UNCHANGED <<boots, process>>
    BY <1>2 DEF RunnerStep, ReadyRefuses, ReadyAllows, Load, Begin, Build, Run, Attach, Health,
       Cutover, Activate, Teardown, Forget, MarkFailed, RemoveCandidate, ForgetCandidate, Return,
       Complete
  <2>2. Moves
    BY <1>2 DEF RunnerStep, ReadyRefuses, ReadyAllows, Load, Begin, Build, Run, Attach, Health,
       Cutover, Activate, Teardown, Forget, MarkFailed, RemoveCandidate, ForgetCandidate, Return,
       Complete, GoTo, Unwind, UnwindCandidate, Undone, BecomeIdle, Attached
  <2>3. Calm /\ ~WaitTimeout
    BY <1>0, <1>f, <2>1 DEF Calm, WaitTimeout
  <2> QED
    BY <1>f, <2>2, <2>3
<1>3. CASE Exit \/ Crash
  BY <1>0, <1>3 DEF Exit, Crash, ProcessEnds
<1>4. ASSUME NEW d \in Deployments, Claim(d)
      PROVE  Calm /\ ~WaitTimeout /\ Moves
  BY <1>0, <1>4, <1>f DEF Claim, Calm, WaitTimeout, Attached
<1>5. CASE Boot \/ Serve \/ Shutdown \/ WaitTimeout
  <2>1. UNCHANGED <<pc, job, prev, active, boots>>
    BY <1>5 DEF Boot, Serve, Shutdown, WaitTimeout
  <2>2. ~Shutdown /\ ~WaitTimeout
    BY <1>0 DEF Shutdown, WaitTimeout
  <2> QED
    BY <1>0, <1>5, <1>f, <2>1, <2>2 DEF Boot, Serve, Calm
<1>6. CASE \/ Tick \/ IdlePoll \/ StopSignal \/ UNCHANGED vars
           \/ \E e \in Deployments : \/ Create(e) \/ Enqueue(e) \/ EnqueueFails(e) \/ FailUnread(e) \/ EnqueueUnread(e)
                                     \/ Cancel(e) \/ RequestCancellation(e) \/ SweepContainer(e)
           \/ \E q \in Requests : CallDocker(q) \/ WriteRow(q)
           \/ \E q \in Requests, kind \in {"stop", "restart"} : Resolve(q, kind)
  BY <1>1, <1>6 DEF Tick, IdlePoll, StopSignal, Create, Enqueue, EnqueueFails, EnqueueUnread, FailUnread, Cancel,
       RequestCancellation, SweepContainer, CallDocker, WriteRow, Resolve, vars
<1> QED
  BY <1>2, <1>3, <1>4, <1>5, <1>6, <1>f DEF Next, RequestStep

\* A deployment succeeds at its cutover; nothing else records a success, but
\* for a handler that answers one for a deployment it left live.
LEMMA SuccessSteps ==
  ASSUME TypeOK, [Next]_vars, NEW d \in Deployments, dep'[d] = "SUCCESS"
  PROVE  \/ dep[d] = "SUCCESS"
         \/ d = job /\ job' = job /\ pc = "cutover" /\ pc' = "activate"
         \/ d = job /\ pc = "complete" /\ outcome = "success" /\ dep[d] \in Live /\ pc' = "idle"
<1> USE DEF rowVars, boxVars, runnerVars, apiVars, processVars
<1>1. CASE UNCHANGED dep
  BY <1>1
<1>2. ASSUME NEW e \in Deployments,
             Create(e) \/ EnqueueFails(e) \/ FailUnread(e) \/ Cancel(e) \/ RequestCancellation(e) \/ Claim(e)
      PROVE  dep[d] = "SUCCESS"
  <2>1. \/ dep' = dep \/ dep' = Ending(e, "CANCELLED") \/ dep' = ProjectComplete(e, "cancelled")
        \/ \E s \in {"QUEUED", "FAILED", "BUILDING"} : dep' = [dep EXCEPT ![e] = s]
    BY <1>2 DEF Create, EnqueueFails, FailUnread, MarkedFailed, Cancel, RequestCancellation, Claim
  <2> QED
    BY <2>1, EndingWrites, ProjectionWrites DEF Ended, OpEnded, TypeOK
<1>3. CASE ReadyRefuses \/ WaitTimeout
  <2>1. job \in Deployments
    BY <1>3 DEF ReadyRefuses, WaitTimeout, TypeOK
  <2> QED
    BY <1>1, <1>3, <2>1, CompletionWrites DEF ReadyRefuses, WaitTimeout, OpEnded
<1>4. CASE Complete
  <2>1. job \in Deployments /\ outcome \in OpEnded /\ pc = "complete" /\ pc' = "idle"
    BY <1>4 DEF Complete, BecomeIdle, TypeOK
  <2> QED
    BY <1>1, <1>4, <2>1, CompletionWrites DEF Complete
<1>5. CASE Begin \/ MarkFailed
  <2>1. \/ dep' = dep \/ dep' = Ending(job, "CANCELLED")
        \/ \E s \in {"BUILDING", "FAILED"} : dep' = [dep EXCEPT ![job] = s]
    BY <1>5 DEF Begin, MarkFailed
  <2>2. job \in Deployments
    BY <1>5 DEF Begin, MarkFailed, TypeOK
  <2> QED
    BY <2>1, <2>2, EndingWrites DEF Ended, TypeOK
<1>6. CASE Cutover
  BY <1>6 DEF Cutover, GoTo, TypeOK
<1>7. CASE Boot
  BY <1>7 DEF Boot, TypeOK
<1>8. CASE \/ ReadyAllows \/ Load \/ Build \/ Run \/ Attach \/ Health \/ Activate
           \/ Teardown \/ Forget \/ RemoveCandidate \/ ForgetCandidate \/ Return \/ StopSignal
  BY <1>1, <1>8 DEF ReadyAllows, Load, Build, Run, Attach, Health, Activate, Teardown, Forget,
       RemoveCandidate, ForgetCandidate, Return, StopSignal
<1>9. CASE \/ Tick \/ Serve \/ Shutdown \/ IdlePoll \/ Exit \/ Crash \/ UNCHANGED vars
           \/ \E e \in Deployments : SweepContainer(e) \/ Enqueue(e) \/ EnqueueUnread(e)
           \/ \E q \in Requests : CallDocker(q) \/ WriteRow(q)
           \/ \E q \in Requests, kind \in {"stop", "restart"} : Resolve(q, kind)
  BY <1>1, <1>9 DEF Tick, Serve, Shutdown, IdlePoll, Exit, Crash, ProcessEnds, SweepContainer,
       Enqueue, EnqueueUnread, CallDocker, WriteRow, Resolve, vars
<1> QED
  BY <1>2, <1>3, <1>4, <1>5, <1>6, <1>7, <1>8, <1>9 DEF Next, RunnerStep, RequestStep

\* A context is only cancelled, then, for what an operator was told; and what
\* a handler answers is what it found.
AskedInv ==
  /\ cancelling \subseteq asked
  /\ \A d \in Deployments : cancelRequested[d] => d \in asked
  /\ pc = "idle" => ~ctxDone
  /\ Calm /\ pc # "idle" => op[job] = "running"
  /\ Calm /\ ctxDone => job \in asked
  /\ pc = "complete" /\ outcome = "success" => Succeeded(job) \/ dep[job] = "CANCELLED"

\* What reaches the first four.
LEMMA AskedSteps ==
  ASSUME TypeOK, [Next]_vars
  PROVE  /\ asked \subseteq asked'
         /\ \/ cancelling' \subseteq cancelling \/ \E d \in Deployments : Cancel(d)
         /\ \/ cancelRequested' = cancelRequested
            \/ \E d \in Deployments : RequestCancellation(d)
         /\ \/ ~ctxDone' \/ (ctxDone /\ job' = job /\ pc' # "idle")
            \/ (Stopping \/ Fault) /\ job' = job /\ pc # "idle" /\ pc' # "idle"
            \/ (pc = "idle" /\ ctxDone' = ctxDone)
         /\ pc' = "complete" => (pc = "complete" /\ UNCHANGED <<job, outcome>>) \/ Load \/ Return
<1> USE DEF rowVars, boxVars, runnerVars, apiVars, processVars
<1>1. CASE UNCHANGED <<asked, cancelling, cancelRequested, ctxDone, job, outcome, pc>>
  BY <1>1
<1>2. CASE RunnerStep
  <2>1. UNCHANGED <<asked, cancelling, cancelRequested>>
    BY <1>2 DEF RunnerStep, ReadyRefuses, ReadyAllows, Load, Begin, Build, Run, Attach, Health,
       Cutover, Activate, Teardown, Forget, MarkFailed, RemoveCandidate, ForgetCandidate, Return,
       Complete
  <2>2. \/ ~ctxDone' \/ (ctxDone /\ job' = job /\ pc' # "idle")
        \/ Stopping /\ job' = job /\ pc # "idle" /\ pc' # "idle"
    BY <1>2 DEF RunnerStep, ReadyRefuses, ReadyAllows, Load, Begin, Build, Run, Attach, Health,
       Cutover, Activate, Teardown, Forget, MarkFailed, RemoveCandidate, ForgetCandidate, Return,
       Complete, GoTo, Unwind, UnwindCandidate, Undone, BecomeIdle, TypeOK
  <2>3. pc' = "complete" => Load \/ Return
    BY <1>2 DEF RunnerStep, ReadyRefuses, ReadyAllows, Load, Begin, Build, Run, Attach, Health,
       Cutover, Activate, Teardown, Forget, MarkFailed, RemoveCandidate, ForgetCandidate, Return,
       Complete, GoTo, Unwind, UnwindCandidate, Undone, BecomeIdle
  <2> QED
    BY <2>1, <2>2, <2>3
<1>3. CASE Exit \/ Crash
  BY <1>3 DEF Exit, Crash, ProcessEnds, BecomeIdle
<1>4. ASSUME NEW d \in Deployments, Cancel(d)
      PROVE  asked \subseteq asked' /\ UNCHANGED <<cancelRequested, ctxDone, job, outcome, pc>>
  BY <1>4 DEF Cancel
<1>5. ASSUME NEW d \in Deployments, RequestCancellation(d)
      PROVE  cancelling' \subseteq cancelling /\ UNCHANGED <<asked, ctxDone, job, outcome, pc>>
  BY <1>5 DEF RequestCancellation
<1>6. ASSUME NEW d \in Deployments, Claim(d)
      PROVE  /\ UNCHANGED <<asked, cancelling, cancelRequested, ctxDone>>
             /\ pc = "idle" /\ pc' = "ready"
  BY <1>6 DEF Claim
<1>7. CASE StopSignal
  <2>1. pc # "idle"
    BY <1>7 DEF StopSignal, Handling
  <2> QED
    BY <1>7, <2>1 DEF StopSignal
<1>8. CASE \/ Tick \/ Boot \/ Serve \/ Shutdown \/ WaitTimeout \/ IdlePoll \/ UNCHANGED vars
           \/ \E e \in Deployments : \/ Create(e) \/ Enqueue(e) \/ EnqueueFails(e) \/ FailUnread(e) \/ EnqueueUnread(e) \/ SweepContainer(e)
           \/ \E q \in Requests : CallDocker(q) \/ WriteRow(q)
           \/ \E q \in Requests, kind \in {"stop", "restart"} : Resolve(q, kind)
  BY <1>1, <1>8 DEF Tick, Boot, Serve, Shutdown, WaitTimeout, IdlePoll, Create, Enqueue,
       EnqueueFails, EnqueueUnread, FailUnread, SweepContainer, CallDocker, WriteRow, Resolve, vars
<1> QED
  BY <1>2, <1>3, <1>4, <1>5, <1>6, <1>7, <1>8 DEF Next, RequestStep

\* The steps that queue an operation.
Enqueues(d) == Enqueue(d) \/ EnqueueUnread(d)

\* Calm, the operation of the handler is held until it ends.
LEMMA HeldSteps ==
  ASSUME DeployInv, [Next]_vars, Calm', pc' # "idle",
         pc # "idle" => op[job] = "running"
  PROVE  op'[job'] = "running"
<1> USE DEF rowVars, boxVars, runnerVars, apiVars, processVars
<1>0. TypeOK /\ FreshInv /\ SweepInv /\ ~WaitTimeout
  BY CalmSteps DEF DeployInv
<1>1. ASSUME UNCHANGED <<op, job>>, pc # "idle" PROVE op'[job'] = "running"
  BY <1>1
<1>2. ASSUME NEW d \in Deployments, Claim(d) PROVE op'[job'] = "running"
  BY <1>0, <1>2 DEF Claim, TypeOK
<1>3. ASSUME NEW d \in Deployments, Enqueues(d) \/ RequestCancellation(d) PROVE op'[job'] = "running"
  BY <1>0, <1>3 DEF Enqueues, Enqueue, EnqueueUnread, Queued, RequestCancellation, FreshInv, TypeOK
<1>4. CASE ReadyRefuses \/ Complete \/ Exit \/ Crash \/ Boot
  BY <1>0, <1>4 DEF ReadyRefuses, Complete, Exit, Crash, ProcessEnds, BecomeIdle, Boot, SweepInv
<1>5. CASE \/ ReadyAllows \/ Load \/ Begin \/ Build \/ Run \/ Attach \/ Health \/ Cutover
           \/ Activate \/ Teardown \/ Forget \/ MarkFailed \/ RemoveCandidate
           \/ ForgetCandidate \/ Return \/ StopSignal
  BY <1>1, <1>5 DEF ReadyAllows, Load, Begin, Build, Run, Attach, Health, Cutover, Activate,
       Teardown, Forget, MarkFailed, RemoveCandidate, ForgetCandidate, Return, StopSignal,
       GoTo, Unwind, UnwindCandidate, Undone, Handling
<1>6. CASE \/ Tick \/ Serve \/ Shutdown \/ IdlePoll \/ UNCHANGED vars
           \/ \E e \in Deployments : SweepContainer(e) \/ Create(e) \/ EnqueueFails(e) \/ FailUnread(e) \/ Cancel(e)
           \/ \E q \in Requests : CallDocker(q) \/ WriteRow(q)
           \/ \E q \in Requests, kind \in {"stop", "restart"} : Resolve(q, kind)
  <2>1. UNCHANGED <<op, job, pc>>
    BY <1>6 DEF Tick, Serve, Shutdown, IdlePoll, SweepContainer, Create, EnqueueFails, EnqueueUnread, FailUnread, Cancel,
         CallDocker, WriteRow, Resolve, vars
  <2> QED
    BY <1>1, <2>1
<1> QED
  BY <1>0, <1>2, <1>3, <1>4, <1>5, <1>6 DEF Next, RunnerStep, RequestStep, Enqueues

\* It is kept.
LEMMA AskedInvStep ==
  ASSUME DeployInv, FinalInv, AskedInv, [Next]_vars
  PROVE  AskedInv'
<1>0. TypeOK /\ TypeOK'
  BY DeployInvStep DEF DeployInv
<1>1. cancelling' \subseteq asked'
  <2>1. ASSUME NEW d \in Deployments, Cancel(d) PROVE cancelling' \subseteq asked'
    BY <2>1 DEF Cancel, AskedInv
  <2> QED
    BY <1>0, <2>1, AskedSteps DEF AskedInv
<1>2. \A d \in Deployments : cancelRequested'[d] => d \in asked'
  <2>1. ASSUME NEW d \in Deployments, RequestCancellation(d)
        PROVE  \A e \in Deployments : cancelRequested'[e] => cancelRequested[e] \/ e \in asked
    BY <1>0, <2>1 DEF RequestCancellation, AskedInv, TypeOK
  <2> QED
    BY <1>0, <2>1, AskedSteps DEF AskedInv
<1>3. pc' = "idle" => ~ctxDone'
  BY <1>0, AskedSteps DEF AskedInv
<1>4. Calm' /\ pc' # "idle" => op'[job'] = "running"
  BY <1>0, HeldSteps, CalmSteps DEF AskedInv
<1>5. ASSUME Calm', ctxDone' PROVE job' \in asked'
  <2>1. Calm /\ ~Fault
    BY <1>0, <1>5, CalmSteps
  <2>2. CASE ctxDone /\ job' = job
    BY <1>0, <2>1, <2>2, AskedSteps DEF AskedInv
  <2>3. CASE Stopping /\ job' = job /\ pc # "idle"
    BY <1>0, <2>1, <2>3, AskedSteps DEF AskedInv, Stopping, TypeOK
  <2> QED
    BY <1>0, <1>5, <2>1, <2>2, <2>3, AskedSteps DEF AskedInv
<1>6. ASSUME pc' = "complete", outcome' = "success" PROVE Succeeded(job)' \/ dep'[job'] = "CANCELLED"
  <2>1. CASE pc = "complete" /\ UNCHANGED <<job, outcome>>
    <3>1. job \in Deployments /\ ~NotClaimed(job) /\ (Succeeded(job) \/ dep[job] = "CANCELLED")
      BY <1>0, <1>6, <2>1 DEF AskedInv, TypeOK, DeployInv, RunnerInv, NotClaimed
    <3>2. dep[job] = "CANCELLED" => dep'[job] = "CANCELLED"
      BY <3>1, StaysFinalStep DEF StaysFinal, Final
    <3>3. Succeeded(job) => Succeeded(job)'
      <4>1. Succeeded(job) => Settled(job)
        BY <2>1, <3>1 DEF Settled, AfterCutover
      <4>2. Settled(job) => dep'[job] \in {"SUCCESS", "FAILED"} /\ (dep'[job] = "FAILED" => job \in mislaid')
        BY <3>1, SettledStays DEF Settled, Succeeded
      <4>3. job' = job
        BY <2>1
      <4> QED
        BY <4>1, <4>2, <4>3 DEF Succeeded
    <3> QED
      BY <2>1, <3>1, <3>2, <3>3
  <2>2. CASE Load
    BY <1>0, <1>6, <2>2 DEF Load, TypeOK
  <2>3. CASE Return
    BY <1>6, <2>3 DEF Return, Succeeded, rowVars
  <2> QED
    BY <1>0, <1>6, <2>1, <2>2, <2>3, AskedSteps
<1> QED
  BY <1>1, <1>2, <1>3, <1>4, <1>5, <1>6 DEF AskedInv

-----------------------------------------------------------------------------
\* Operations are ranked in the order of their enqueueing, and when created_at
\* follows that order the deployments are executed in it.
Ranked == {d \in Deployments : order[d] > 0}
OrderInv ==
  /\ \A d \in Deployments : order[d] <= Cardinality(Ranked)
  /\ \A d \in Deployments : order[d] > 0 <=> op[d] # "absent"
  /\ \A d, e \in Ranked : order[d] = order[e] => d = e
  /\ CreatedInOrder =>
       \A d, e \in Deployments :
         (dep[e] = "SUCCESS" \/ e = job) /\ op[d] = "queued" => order[e] < order[d]
  /\ CreatedInOrder /\ pc # "idle" =>
       \A e \in Deployments : dep[e] = "SUCCESS" /\ e # job => order[e] < order[job]

\* What a step does to the ranks.
LEMMA RankSteps ==
  ASSUME DeployInv, OrderInv, [Next]_vars
  PROVE  /\ \A d \in Deployments : order[d] > 0 => order'[d] = order[d] /\ created'[d] = created[d]
         /\ \A d \in Deployments : op'[d] = "absent" => op[d] = "absent"
         /\ \/ order' = order /\ \A d \in Deployments : op[d] = "absent" => op'[d] = "absent"
            \/ \E d \in Deployments : Enqueues(d)
         /\ \A d \in Deployments : op'[d] = "queued" => op[d] = "queued" \/ Enqueues(d)
<1> USE DEF rowVars, boxVars, runnerVars, apiVars, processVars
<1>0. TypeOK /\ FreshInv
  BY DEF DeployInv
<1>1. CASE UNCHANGED <<op, order, created>>
  BY <1>1
<1>2. ASSUME NEW d \in Deployments, Create(d)
      PROVE  /\ UNCHANGED <<op, order>>
             /\ \A e \in Deployments : order[e] > 0 => created'[e] = created[e]
  BY <1>0, <1>2 DEF Create, FreshInv, OrderInv, TypeOK
<1>3. ASSUME NEW d \in Deployments, Enqueues(d)
      PROVE  /\ \A e \in Deployments : order[e] > 0 => order'[e] = order[e] /\ created'[e] = created[e]
             /\ \A e \in Deployments : op'[e] = "absent" => op[e] = "absent"
             /\ \A e \in Deployments : op'[e] = "queued" => op[e] = "queued" \/ Enqueues(e)
  BY <1>0, <1>3 DEF Enqueues, Enqueue, EnqueueUnread, Queued, FreshInv, OrderInv, TypeOK
<1>4. ASSUME NEW d \in Deployments, RequestCancellation(d) \/ Claim(d)
      PROVE  /\ UNCHANGED <<order, created>>
             /\ \A e \in Deployments : op'[e] = "absent" <=> op[e] = "absent"
             /\ \A e \in Deployments : op'[e] = "queued" => op[e] = "queued"
  BY <1>0, <1>4 DEF RequestCancellation, Claim, Claimable, TypeOK
<1>5. CASE ReadyRefuses \/ Complete \/ WaitTimeout
  <2>1. UNCHANGED <<order, created>>
    BY <1>5 DEF ReadyRefuses, Complete, WaitTimeout
  <2>2. /\ \A e \in Deployments : op'[e] = "absent" <=> op[e] = "absent"
        /\ \A e \in Deployments : op'[e] = "queued" => op[e] = "queued"
    <3>1. CASE op' = op
      BY <3>1
    <3>2. ASSUME NEW s \in OpEnded, CompleteOperation(s), pc # "idle"
          PROVE  /\ \A e \in Deployments : op'[e] = "absent" <=> op[e] = "absent"
                 /\ \A e \in Deployments : op'[e] = "queued" => op[e] = "queued"
      <4>1. job \in Deployments
        BY <1>0, <3>2 DEF TypeOK
      <4>2. \A e \in Deployments : op'[e] # op[e] => op[e] = "running" /\ op'[e] \in OpEnded
        BY <1>0, <3>2, <4>1, CompletionWrites
      <4> QED
        BY <4>2 DEF OpEnded
    <3> QED
      BY <1>0, <1>5, <3>1, <3>2 DEF ReadyRefuses, Complete, WaitTimeout, OpEnded, TypeOK
  <2> QED
    BY <2>1, <2>2
<1>6. CASE Boot
  BY <1>0, <1>6 DEF Boot, TypeOK
<1>7. CASE \/ ReadyAllows \/ Load \/ Begin \/ Build \/ Run \/ Attach \/ Health \/ Cutover
           \/ Activate \/ Teardown \/ Forget \/ MarkFailed \/ RemoveCandidate
           \/ ForgetCandidate \/ Return \/ StopSignal
  BY <1>1, <1>7 DEF ReadyAllows, Load, Begin, Build, Run, Attach, Health, Cutover, Activate,
       Teardown, Forget, MarkFailed, RemoveCandidate, ForgetCandidate, Return, StopSignal
<1>8. CASE \/ Tick \/ Serve \/ Shutdown \/ IdlePoll \/ Exit \/ Crash \/ UNCHANGED vars
           \/ \E e \in Deployments : SweepContainer(e) \/ EnqueueFails(e) \/ FailUnread(e) \/ Cancel(e)
           \/ \E q \in Requests : CallDocker(q) \/ WriteRow(q)
           \/ \E q \in Requests, kind \in {"stop", "restart"} : Resolve(q, kind)
  BY <1>1, <1>8 DEF Tick, Serve, Shutdown, IdlePoll, Exit, Crash, ProcessEnds, SweepContainer,
       EnqueueFails, EnqueueUnread, FailUnread, Cancel, CallDocker, WriteRow, Resolve, vars
<1> QED
  BY <1>2, <1>3, <1>4, <1>5, <1>6, <1>7, <1>8 DEF Next, RunnerStep, RequestStep, Enqueues

\* An order that is kept was kept before.
LEMMA InOrderBefore ==
  ASSUME DeployInv, OrderInv, [Next]_vars, CreatedInOrder'
  PROVE  CreatedInOrder
BY RankSteps DEF CreatedInOrder

\* It is kept: a new operation ranks last, and the first of those of one
\* priority is claimed.
LEMMA OrderInvStep ==
  ASSUME DeployInv, OrderInv, [Next]_vars
  PROVE  OrderInv'
<1> USE DEF rowVars, boxVars, runnerVars, apiVars, processVars
<1>0. TypeOK /\ TypeOK' /\ FreshInv' /\ RunnerInv'
  BY DeployInvStep DEF DeployInv
<1>c. Cardinality(Ranked) \in Nat /\ IsFiniteSet(Ranked)
  BY FS_Subset, FS_CardinalityType, DeploymentAssumption DEF Ranked
<1>o. order \in [Deployments -> Nat]
  BY <1>0 DEF TypeOK
<1>1. ASSUME NEW d \in Deployments, Enqueues(d)
      PROVE  /\ order[d] = 0 /\ d \notin Ranked /\ Ranked' = Ranked \cup {d}
             /\ order'[d] = Cardinality(Ranked) + 1
             /\ \A e \in Deployments \ {d} : order'[e] = order[e] /\ op'[e] = op[e]
             /\ op'[d] = "queued"
             /\ Cardinality(Ranked') = Cardinality(Ranked) + 1
  <2>1. op[d] = "absent"
    BY <1>1 DEF Enqueues, Enqueue, EnqueueUnread, DeployInv, FreshInv
  <2>2. order[d] = 0 /\ d \notin Ranked
    BY <1>o, <2>1 DEF OrderInv, Ranked
  <2>3. /\ order'[d] = Cardinality(Ranked) + 1 /\ op'[d] = "queued"
        /\ \A e \in Deployments \ {d} : order'[e] = order[e] /\ op'[e] = op[e]
    BY <1>0, <1>1 DEF Enqueues, Enqueue, EnqueueUnread, Queued, Ranked, TypeOK
  <2>4. Ranked' = Ranked \cup {d}
    BY <1>c, <2>2, <2>3 DEF Ranked
  <2> QED
    BY <1>c, <2>2, <2>3, <2>4, FS_AddElement
<1>2. \A d \in Deployments : order'[d] <= Cardinality(Ranked')
  <2>1. CASE order' = order
    BY <2>1 DEF OrderInv, Ranked
  <2>2. ASSUME NEW d \in Deployments, Enqueues(d)
        PROVE  \A e \in Deployments : order'[e] <= Cardinality(Ranked')
    BY <1>c, <1>o, <1>1, <2>2 DEF OrderInv
  <2> QED
    BY <2>1, <2>2, RankSteps
<1>3. \A d \in Deployments : order'[d] > 0 <=> op'[d] # "absent"
  <2>1. CASE order' = order /\ \A d \in Deployments : op[d] = "absent" => op'[d] = "absent"
    BY <2>1, RankSteps DEF OrderInv
  <2>2. ASSUME NEW d \in Deployments, Enqueues(d)
        PROVE  \A e \in Deployments : order'[e] > 0 <=> op'[e] # "absent"
    BY <1>c, <1>1, <2>2 DEF OrderInv
  <2> QED
    BY <2>1, <2>2, RankSteps
<1>4. \A d, e \in Ranked' : order'[d] = order'[e] => d = e
  <2>1. CASE order' = order
    BY <2>1 DEF OrderInv, Ranked
  <2>2. ASSUME NEW x \in Deployments, Enqueues(x)
        PROVE  \A d, e \in Ranked' : order'[d] = order'[e] => d = e
    <3>1. ASSUME NEW d \in Ranked PROVE order'[d] = order[d] /\ order[d] < order'[x]
      <4>1. d \in Deployments \ {x} /\ order[d] \in Nat /\ order[d] <= Cardinality(Ranked)
        BY <1>o, <1>1, <2>2 DEF OrderInv, Ranked
      <4> QED
        BY <1>c, <1>1, <2>2, <4>1
    <3>2. Ranked' = Ranked \cup {x} /\ \A d \in Ranked : order[d] \in Nat
      BY <1>o, <1>1, <2>2 DEF Ranked
    <3>3. ASSUME NEW d \in Ranked', NEW e \in Ranked', order'[d] = order'[e] PROVE d = e
      <4>1. CASE d \in Ranked /\ e \in Ranked
        BY <3>1, <3>3, <4>1 DEF OrderInv
      <4>2. CASE d \in Ranked /\ e = x
        BY <3>1, <3>2, <3>3, <4>2
      <4>3. CASE d = x /\ e \in Ranked
        BY <3>1, <3>2, <3>3, <4>3
      <4> QED
        BY <3>2, <4>1, <4>2, <4>3
    <3> QED
      BY <3>3
  <2> QED
    BY <2>1, <2>2, RankSteps
<1>k. \A e \in Deployments : dep'[e] = "SUCCESS" => dep[e] = "SUCCESS" \/ e = job
  BY <1>0, SuccessSteps
<1>j. job' = job \/ job' = None \/ \E d \in Deployments : Claim(d)
  <2>1. CASE RunnerStep \/ StopSignal
    BY <2>1 DEF RunnerStep, ReadyRefuses, ReadyAllows, Load, Begin, Build, Run, Attach, Health,
       Cutover, Activate, Teardown, Forget, MarkFailed, RemoveCandidate, ForgetCandidate, Return,
       Complete, GoTo, Unwind, UnwindCandidate, Undone, BecomeIdle, StopSignal
  <2>2. CASE ~(RunnerStep \/ StopSignal)
    BY <2>2 DEF Next, vars, RequestStep, Tick, Create, Enqueue, EnqueueFails, EnqueueUnread, FailUnread, Cancel,
         RequestCancellation, Resolve, CallDocker, WriteRow, IdlePoll,
         Boot, SweepContainer, Serve, Shutdown, WaitTimeout, ProcessEnds, BecomeIdle, Exit, Crash
  <2> QED
    BY <2>1, <2>2
<1>5. ASSUME CreatedInOrder', NEW d \in Deployments, NEW e \in Deployments,
             dep'[e] = "SUCCESS" \/ e = job', op'[d] = "queued"
      PROVE  order'[e] < order'[d]
  <2>0. CreatedInOrder /\ e # d
    BY <1>0, <1>5, InOrderBefore, DeploymentAssumption DEF FreshInv, RunnerInv, TypeOK
  <2>1. CASE Enqueues(d)
    BY <1>c, <1>o, <1>1, <2>0, <2>1 DEF OrderInv
  <2>2. CASE op[d] = "queued"
    <3>1. order'[d] = order[d] /\ order[d] > 0
      BY <2>2, RankSteps DEF OrderInv
    <3>2. CASE dep[e] = "SUCCESS" \/ e = job
      <4>1. order[e] < order[d]
        BY <2>0, <2>2, <3>2 DEF OrderInv
      <4>2. op[e] # "absent"
        BY <1>0, <3>2, DeploymentAssumption DEF DeployInv, FreshInv, RunnerInv, TypeOK
      <4>3. order'[e] = order[e]
        BY <4>2, RankSteps DEF OrderInv
      <4> QED
        BY <3>1, <4>1, <4>3
    <3>3. CASE Claim(e)
      <4>1. op[e] = "queued" /\ Claimable(d) /\ Precedes(e, d)
        BY <2>2, <3>3 DEF Claim, Claimable
      <4>2. order[e] > 0 /\ order[d] > 0
        BY <2>2, <4>1 DEF OrderInv
      <4>3. Priority[e] = Priority[d]
        BY <2>0, <4>2 DEF CreatedInOrder
      <4>4. order[e] <= order[d] /\ order[e] # order[d]
        BY <2>0, <4>1, <4>2, <4>3, DeploymentAssumption DEF Precedes, OrderInv, Ranked
      <4> QED
        BY <1>o, <3>1, <4>2, <4>4, RankSteps
    <3> QED
      <4>1. e = job' => job' = job \/ Claim(e)
        BY <1>j, DeploymentAssumption DEF Claim
      <4> QED
        BY <1>5, <1>k, <3>2, <3>3, <4>1
  <2> QED
    BY <1>5, <2>1, <2>2, RankSteps
<1>6. ASSUME CreatedInOrder', pc' # "idle", NEW e \in Deployments, dep'[e] = "SUCCESS", e # job'
      PROVE  order'[e] < order'[job']
  <2>0. CreatedInOrder
    BY <1>6, InOrderBefore
  <2>1. CASE job' = job
    <3>1. job \in Deployments /\ pc # "idle" /\ dep[e] = "SUCCESS"
      BY <1>0, <1>6, <1>k, <2>1 DEF TypeOK
    <3>2. op[e] # "absent" /\ op[job] # "absent"
      BY <3>1 DEF DeployInv, FreshInv, RunnerInv
    <3>3. order[e] > 0 /\ order[job] > 0
      BY <3>1, <3>2 DEF OrderInv
    <3>4. order'[e] = order[e] /\ order'[job] = order[job]
      BY <3>1, <3>3, RankSteps
    <3>5. order[e] < order[job]
      BY <1>6, <2>0, <2>1, <3>1 DEF OrderInv
    <3> QED
      BY <2>1, <3>4, <3>5
  <2>2. ASSUME NEW d \in Deployments, Claim(d) PROVE order'[e] < order'[job']
    <3>1. job' = d /\ op[d] = "queued" /\ dep[e] = "SUCCESS" /\ UNCHANGED order
      BY <1>0, <1>6, <2>2 DEF Claim, Claimable, TypeOK
    <3> QED
      BY <2>0, <3>1 DEF OrderInv
  <2>3. job' # None
    BY <1>0, <1>6 DEF TypeOK
  <2> QED
    BY <1>j, <2>1, <2>2, <2>3
<1> QED
  BY <1>2, <1>3, <1>4, <1>5, <1>6 DEF OrderInv

-----------------------------------------------------------------------------
\* Calm and in order, the routed deployment is the latest success, a handler
\* knows it as the one to replace, and the container of any other success is
\* removed, or is what the teardown at work is about to remove.
Activating(d) == d = job /\ pc = "activate"
Candidacy     == Attached \cup {"begin", "build", "run", "attach"}
LatestInv ==
  Calm /\ CreatedInOrder =>
    /\ \A d \in Deployments :
         dep[d] = "SUCCESS" /\ ~Activating(d) => active # None /\ order[d] <= order[active]
    /\ pc \in Candidacy => prev = active
    /\ \A d \in Deployments :
         /\ dep[d] = "SUCCESS" /\ ~Activating(d) /\ d # active
         /\ ~(pc = "teardown" /\ d = prev)
         => box[d] = "removed"

\* A removed container stays so, but for the one a handler starts.
LEMMA RemovedStays ==
  ASSUME DeployInv, [Next]_vars, NEW d \in Deployments, box[d] = "removed"
  PROVE  box'[d] = "removed" \/ (d = job /\ pc = "run")
<1> USE DEF rowVars, boxVars, runnerVars, apiVars, processVars
<1>0. TypeOK
  BY DEF DeployInv
<1>1. ASSUME NEW q \in Requests, CallDocker(q) PROVE box'[d] = "removed"
  BY <1>0, <1>1 DEF CallDocker, TypeOK
<1>2. CASE Teardown \/ RemoveCandidate \/ box' = box
  BY <1>0, <1>2 DEF Teardown, RemoveCandidate, TypeOK
<1>3. ASSUME NEW e \in Deployments, SweepContainer(e) PROVE box'[d] = "removed"
  BY <1>0, <1>3 DEF SweepContainer, TypeOK
<1>4. CASE Run
  BY <1>0, <1>4 DEF Run, TypeOK
<1> QED
  BY <1>1, <1>2, <1>3, <1>4 DEF Next, vars, RunnerStep, RequestStep, Tick, Create, Enqueue,
     EnqueueFails, EnqueueUnread, FailUnread, Cancel, RequestCancellation, Resolve, WriteRow, Claim, IdlePoll,
     ReadyRefuses, ReadyAllows, Load, Begin, Build, Attach, Health, Cutover, Activate, Forget,
     MarkFailed, ForgetCandidate, Return, Complete, StopSignal, Boot, Serve, Shutdown,
     WaitTimeout, ProcessEnds, Exit, Crash

\* It is kept.
LEMMA LatestInvStep ==
  ASSUME DeployInv, FinalInv, AskedInv, OrderInv, LatestInv, [Next]_vars
  PROVE  LatestInv'
<1> SUFFICES ASSUME Calm', CreatedInOrder'
             PROVE  /\ \A d \in Deployments :
                         dep'[d] = "SUCCESS" /\ ~Activating(d)' =>
                           active' # None /\ order'[d] <= order'[active']
                    /\ pc' \in Candidacy => prev' = active'
                    /\ \A d \in Deployments :
                         /\ dep'[d] = "SUCCESS" /\ ~Activating(d)' /\ d # active'
                         /\ ~(pc' = "teardown" /\ d = prev')
                         => box'[d] = "removed"
  BY DEF LatestInv
<1> USE DEF rowVars, boxVars, runnerVars, apiVars, processVars
<1>0. /\ TypeOK /\ FreshInv /\ RunnerInv /\ ActiveIsKept
      /\ Calm /\ CreatedInOrder /\ ~Fault
  BY CalmSteps, InOrderBefore DEF DeployInv
<1>o. order \in [Deployments -> Nat] /\ created \in [Deployments -> Nat]
  BY <1>0 DEF TypeOK
<1>q. \A d \in Deployments : Succeeded(d) => dep[d] = "SUCCESS"
  BY <1>0 DEF DeployInv, QuietInv, Succeeded, Calm
\* The handler of a success was never asked to stop.
<1>a. pc # "idle" /\ dep[job] = "SUCCESS" => ~ctxDone
  BY <1>0 DEF AskedInv, FinalInv
<1>s. ASSUME NEW d \in Deployments, dep'[d] = "SUCCESS", ~Activating(d)'
      PROVE  /\ dep[d] = "SUCCESS" /\ order[d] > 0 /\ order'[d] = order[d]
             /\ Activating(d) => Activate
  <2>1. dep[d] = "SUCCESS"
    <3>1. outcome = "success" /\ pc = "complete" => dep[job] \notin Live
      BY <1>0, <1>q DEF AskedInv, TypeOK, Live
    <3> QED
      BY <1>0, <1>s, <3>1, SuccessSteps DEF Activating
  <2>2. op[d] # "absent"
    BY <1>0, <2>1 DEF FreshInv
  <2>3. Activating(d) => Activate
    BY <1>0, <1>s, CalmSteps DEF Activating
  <2> QED
    BY <2>1, <2>2, <2>3, RankSteps DEF OrderInv
<1>v. CASE Activate
  <2>1. /\ job \in Deployments /\ dep[job] = "SUCCESS" /\ ~ctxDone /\ active' = job
        /\ UNCHANGED <<prev, dep, job, box, order>> /\ prev = active
        /\ pc' = IF prev = None THEN "return" ELSE "teardown"
    <3>1. pc = "activate" /\ job \in Deployments /\ dep[job] = "SUCCESS"
      BY <1>0, <1>v, <1>q DEF Activate, TypeOK, RunnerInv
    <3>2. prev = active
      BY <1>0, <3>1 DEF LatestInv, Candidacy, Attached
    <3> QED
      BY <1>0, <1>a, <1>v, <3>1, <3>2 DEF Activate, GoTo, StepFails
  <2>2. ASSUME NEW d \in Deployments, dep'[d] = "SUCCESS"
        PROVE  active' # None /\ order'[d] <= order'[active']
    <3>1. d # job => order[d] < order[job]
      BY <1>0, <1>v, <2>1, <2>2 DEF OrderInv, Activate
    <3> QED
      BY <1>o, <2>1, <3>1, DeploymentAssumption
  <2>3. pc' \notin Candidacy
    BY <2>1 DEF Candidacy, Attached
  <2>4. ASSUME NEW d \in Deployments, dep'[d] = "SUCCESS", d # active',
               ~(pc' = "teardown" /\ d = prev')
        PROVE  box'[d] = "removed"
    <3>1. d # job /\ d # active /\ pc = "activate" /\ dep[d] = "SUCCESS"
      BY <1>v, <2>1, <2>4, DeploymentAssumption DEF Activate
    <3> QED
      BY <1>0, <2>1, <3>1 DEF LatestInv, Activating
  <2> QED
    BY <2>2, <2>3, <2>4
<1>w. CASE ~Activate
  <2>1. active' = active
    BY <1>0, <1>w, CalmSteps
  <2>2. ASSUME NEW d \in Deployments, dep'[d] = "SUCCESS", ~Activating(d)'
        PROVE  active' # None /\ order'[d] <= order'[active']
    <3>1. /\ dep[d] = "SUCCESS" /\ order[d] > 0 /\ order'[d] = order[d] /\ ~Activating(d)
      BY <1>s, <1>w, <2>2
    <3>2. active # None /\ order[d] <= order[active]
      BY <1>0, <3>1 DEF LatestInv
    <3>3. active \in Deployments /\ order[active] > 0
      BY <1>0, <1>o, <3>1, <3>2 DEF TypeOK
    <3> QED
      BY <2>1, <3>1, <3>2, <3>3, RankSteps
  <2>3. ASSUME pc' \in Candidacy PROVE prev' = active'
    <3>1. CASE UNCHANGED <<prev, active>> /\ pc \in Candidacy
      BY <1>0, <3>1 DEF LatestInv
    <3>2. CASE Load /\ pc' = "begin"
      <4>1. pc = "load" /\ prev' \in IF LatestSuccess = {} THEN {None} ELSE LatestSuccess
        BY <3>2 DEF Load
      <4>2. \A d \in Deployments : dep[d] = "SUCCESS" => active # None /\ order[d] <= order[active]
        BY <1>0, <4>1 DEF LatestInv, Activating
      <4>3. CASE active = None
        BY <2>1, <4>1, <4>2, <4>3 DEF LatestSuccess
      <4>4. CASE active # None
        <5>1. active \in Deployments /\ dep[active] = "SUCCESS"
          BY <1>0, <1>q, <4>4 DEF TypeOK, ActiveIsKept
        <5>2. ASSUME NEW d \in Deployments, dep[d] = "SUCCESS", d # active
              PROVE  created[d] < created[active]
          <6>1. order[d] > 0 /\ order[active] > 0
            BY <1>0, <5>1, <5>2 DEF OrderInv, FreshInv
          <6>2. order[d] # order[active]
            BY <5>1, <5>2, <6>1 DEF OrderInv, Ranked
          <6>3. order[d] < order[active]
            BY <1>o, <4>2, <5>1, <5>2, <6>2
          <6> QED
            BY <1>0, <5>1, <5>2, <6>1, <6>3 DEF CreatedInOrder
        <5>3. \A d \in Deployments : dep[d] = "SUCCESS" => created[d] <= created[active]
          BY <1>o, <5>1, <5>2
        <5>4. LatestSuccess = {active}
          <6>1. active \in LatestSuccess
            BY <5>1, <5>3 DEF LatestSuccess
          <6>2. ASSUME NEW d \in LatestSuccess PROVE d = active
            <7>1. d \in Deployments /\ dep[d] = "SUCCESS" /\ created[active] <= created[d]
              BY <5>1 DEF LatestSuccess
            <7> QED
              BY <1>o, <5>1, <5>2, <7>1
          <6> QED
            BY <6>1, <6>2
        <5> QED
          BY <2>1, <4>1, <5>4
      <4> QED
        BY <4>3, <4>4
    <3> QED
      BY <1>0, <2>3, <3>1, <3>2, CalmSteps DEF Candidacy
  <2>4. ASSUME NEW d \in Deployments, dep'[d] = "SUCCESS", ~Activating(d)', d # active',
               ~(pc' = "teardown" /\ d = prev')
        PROVE  box'[d] = "removed"
    <3>1. dep[d] = "SUCCESS" /\ ~Activating(d) /\ d # active
      BY <1>s, <1>w, <2>1, <2>4
    <3>2. CASE pc = "teardown" /\ d = prev
      <4>1. Teardown
        BY <1>0, <2>4, <3>2, CalmSteps
      <4>2. dep[job] = "SUCCESS"
        BY <1>0, <1>q, <3>2, DeploymentAssumption DEF RunnerInv, ActiveIsKept, TypeOK
      <4> QED
        BY <1>0, <1>a, <3>2, <4>1, <4>2 DEF Teardown, StepFails, TypeOK
    <3>3. CASE ~(pc = "teardown" /\ d = prev)
      <4>1. box[d] = "removed"
        BY <1>0, <3>1, <3>3 DEF LatestInv
      <4>2. ~(d = job /\ pc = "run")
        BY <1>0, <3>1 DEF RunnerInv, Early
      <4> QED
        BY <4>1, <4>2, RemovedStays
    <3> QED
      BY <3>2, <3>3
  <2> QED
    BY <2>2, <2>3, <2>4
<1> QED
  BY <1>v, <1>w

\* All these invariants hold of every reachable state.
LEMMA SuccessionInvariant == Spec => [](DeployInv /\ FinalInv /\ AskedInv /\ OrderInv /\ LatestInv)
<1> DEFINE Inv == DeployInv /\ FinalInv /\ AskedInv /\ OrderInv /\ LatestInv
<1>1. Init => Inv
  <2> SUFFICES ASSUME Init PROVE Inv
    OBVIOUS
  <2>1. DeployInv /\ FinalInv
    BY InitDeployInv DEF Init, FinalInv, Onward
  <2>2. AskedInv /\ LatestInv
    BY DEF Init, AskedInv, LatestInv, Candidacy, Attached
  <2>3. OrderInv
    <3>1. Cardinality(Ranked) \in Nat
      BY FS_Subset, FS_CardinalityType, DeploymentAssumption DEF Ranked
    <3>2. pc = "idle" /\ \A d \in Deployments : order[d] = 0 /\ op[d] = "absent"
      BY DEF Init
    <3>3. \A d \in Deployments : d \notin Ranked
      BY <3>2 DEF Ranked
    <3>4. \A d, e \in Ranked : order[d] = order[e] => d = e
      BY <3>3 DEF Ranked
    <3> QED
      BY <3>1, <3>2, <3>4 DEF OrderInv
  <2> QED
    BY <2>1, <2>2, <2>3
<1>2. Inv /\ [Next]_vars => Inv'
  BY DeployInvStep, FinalInvStep, AskedInvStep, OrderInvStep, LatestInvStep
<1> QED
  BY <1>1, <1>2, PTL DEF Spec

\* As long as nothing failed and the process was not restarted, a cutover
\* leaves no container of an earlier success running, if created_at tells the
\* deployments apart in the order they were queued: LatestSuccess is then the
\* routed deployment, and its teardown is never skipped.
THEOREM SupersededGetsRemoved == Spec => []SupersededIsRemoved
<1>1. DeployInv /\ LatestInv => SupersededIsRemoved
  BY DeploymentAssumption
     DEF DeployInv, TypeOK, LatestInv, SupersededIsRemoved, Undisturbed, Superseded, Calm, Activating
<1> QED
  BY <1>1, SuccessionInvariant, PTL
======================================================================================
