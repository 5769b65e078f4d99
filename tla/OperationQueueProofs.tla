------------------------ MODULE OperationQueueProofs ------------------------
(***************************************************************************)
(* Theorems about OperationQueue, for every set of operations, workers and *)
(* lock keys and every bound.                                              *)
(*                                                                         *)
(* The lock-key property is not inductive: a database handler writes       *)
(* "running" back to its row without looking at it, so the proof has to    *)
(* know that no rival of an engaged worker's operation can be running      *)
(* (EngagedAlone), which at a claim follows from the fact that an engaged  *)
(* worker still holds its row unless its runtime's drain deadline has      *)
(* passed (EngagedHolds), and by then nothing claims any more.             *)
(***************************************************************************)
EXTENDS OperationQueue, TLAPS

Quiet ==
  /\ process = "down" => \A w \in Workers : pc[w] = "idle"
  /\ process # "draining" => expired = {} /\ releasing = {}

ReleaseScope ==
  \A o \in Ops, w \in Workers : <<o, w>> \in releasing => RuntimeOf(w) \in expired

Served == \A w \in Workers : pc[w] # "idle" => Serves(w, job[w])

EngagedHolds ==
  \A w \in Workers : Engaged(w) /\ RuntimeOf(w) \notin expired => Holds(w, job[w])

EngagedAlone ==
  \A w \in Workers : Engaged(w) =>
    \A r \in Ops : r # job[w] /\ LockOf[r] = LockOf[job[w]] => status[r] # "running"

EngagedApart ==
  \A v, w \in Workers :
    v # w /\ Engaged(v) /\ Engaged(w) => LockOf[job[v]] # LockOf[job[w]]

AbsentIsFresh == \A o \in Ops : status[o] = "absent" => attempt[o] = 0

DeployCounts == \A o \in Deploys : starts[o] <= attempt[o]

ReadyIsFresh ==
  \A w \in Workers : pc[w] = "ready" /\ job[w] \in Deploys
    => starts[job[w]] = 0 /\ attempt[job[w]] = 1

LockInv   == OneRunningPerLockKey /\ EngagedHolds /\ EngagedAlone /\ EngagedApart
CountInv  == QueuedIsClaimable /\ AbsentIsFresh /\ DeployCounts /\ ReadyIsFresh
ScopeInv  == Quiet /\ ReleaseScope /\ Served

\* The inductive invariant.
QueueInv == TypeOK /\ ScopeInv /\ LockInv /\ CountInv

-----------------------------------------------------------------------------
\* Every operation may be attempted at least once.
LEMMA MaxAttemptsIsPositive == \A o \in Ops : MaxAttempts(o) \in Nat \ {0}
BY ConstantsAssumption DEF MaxAttempts

\* The invariant holds of an empty queue.
LEMMA InitQueueInv == Init => QueueInv
<1> SUFFICES ASSUME Init PROVE QueueInv
  OBVIOUS
<1> USE ConstantsAssumption, MaxAttemptsIsPositive DEF Init
<1>1. TypeOK
  BY DEF TypeOK, Terminal
<1>2. ScopeInv
  BY DEF ScopeInv, Quiet, ReleaseScope, Served
<1>3. LockInv
  BY DEF LockInv, OneRunningPerLockKey, EngagedHolds, EngagedAlone, EngagedApart, Engaged
<1>4. CountInv
  BY DEF CountInv, QueuedIsClaimable, AbsentIsFresh, DeployCounts, ReadyIsFresh
<1> QED
  BY <1>1, <1>2, <1>3, <1>4 DEF QueueInv

-----------------------------------------------------------------------------
\* Every step keeps the types.
LEMMA TypeOKStep == TypeOK /\ [Next]_vars => TypeOK'
<1> SUFFICES ASSUME TypeOK, [Next]_vars PROVE TypeOK'
  OBVIOUS
<1> USE ConstantsAssumption, MaxAttemptsIsPositive
        DEF TypeOK, Terminal, rowVars, workerVars, processVars
<1>1. CASE Tick
  BY <1>1 DEF Tick
<1>2. ASSUME NEW o \in Ops, Enqueue(o) \/ RequestCancel(o) \/ BecomeDue(o)
      PROVE  TypeOK'
  <2>1. CASE Enqueue(o)
    BY <2>1 DEF Enqueue
  <2>2. CASE RequestCancel(o)
    BY <2>2 DEF RequestCancel
  <2>3. CASE BecomeDue(o)
    BY <2>3 DEF BecomeDue
  <2> QED
    BY <1>2, <2>1, <2>2, <2>3
<1>3. ASSUME NEW s, BeginServiceDeletion(s) PROVE TypeOK'
  <2> DEFINE mine    == {o \in Ops \ Deploys : ServiceOf[o] = s}
             running == {o \in mine : status[o] = "running"}
             stopped == {o \in mine : Cancellable(o)}
  <2> HIDE DEF mine, running, stopped
  <2>1. CASE /\ UNCHANGED <<status, owner>>
             /\ cancelRequested' = [o \in Ops |-> IF o \in running THEN TRUE
                                                   ELSE cancelRequested[o]]
    <3>1. cancelRequested' \in [Ops -> BOOLEAN]
      BY <2>1, Zenon
    <3> QED
      BY <1>3, <2>1, <3>1 DEF BeginServiceDeletion
  <2>2. CASE /\ UNCHANGED cancelRequested
             /\ status' = [o \in Ops |-> IF o \in stopped THEN "cancelled" ELSE status[o]]
             /\ owner' = [o \in Ops |-> IF o \in stopped THEN None ELSE owner[o]]
    BY <1>3, <2>2 DEF BeginServiceDeletion
  <2> QED
    BY <1>3, <2>1, <2>2 DEF BeginServiceDeletion, mine, running, stopped
<1>4. ASSUME NEW w \in Workers, NEW o \in Ops, Claim(w, o) PROVE TypeOK'
  BY <1>4 DEF Claim, Claimable
<1>5. ASSUME NEW w \in Workers, NEW o \in Ops, ReleaseLease(w, o) PROVE TypeOK'
  BY <1>5 DEF ReleaseLease, CompleteOperation, DeferOperation
<1>6. ASSUME NEW w \in Workers, Execute(w) PROVE TypeOK'
  <2>1. CASE ReadyRefuses(w)
    BY <2>1 DEF ReadyRefuses, CompleteOperation, BecomeIdle
  <2>2. CASE ReadyRetries(w)
    BY <2>2 DEF ReadyRetries, DeferOperation, BecomeIdle
  <2>3. CASE Dispatch(w)
    BY <2>3 DEF Dispatch
  <2>4. CASE \E s \in {"success", "failed"} : Report(w, s)
    BY <2>4 DEF Report
  <2>5. CASE Abandon(w)
    BY <2>5 DEF Abandon
  <2>6. CASE DatabaseReturn(w)
    BY <2>6 DEF DatabaseReturn, Return
  <2>7. CASE DeployReturn(w)
    BY <2>7 DEF DeployReturn, Return
  <2>8. CASE Complete(w)
    BY <2>8 DEF Complete, CompleteOperation, BecomeIdle
  <2> QED
    BY <1>6, <2>1, <2>2, <2>3, <2>4, <2>5, <2>6, <2>7, <2>8 DEF Execute, HandlerEnds
<1>7. ASSUME NEW w \in Workers, IdlePoll(w) \/ StopSignal(w) \/ Progress(w)
      PROVE  TypeOK'
  <2>1. CASE IdlePoll(w)
    BY <2>1 DEF IdlePoll, vars
  <2>2. CASE StopSignal(w)
    BY <2>2 DEF StopSignal
  <2>3. CASE Progress(w)
    BY <2>3 DEF Progress
  <2> QED
    BY <1>7, <2>1, <2>2, <2>3
<1>8. ASSUME NEW w \in Workers, StoreFault(w) PROVE TypeOK'
  <2>1. CASE BecomeIdle(w) /\ UNCHANGED releasing
    BY <1>8, <2>1 DEF StoreFault, BecomeIdle
  <2>2. CASE /\ pc[w] = "handle" /\ pc' = [pc EXCEPT ![w] = "tail"]
             /\ UNCHANGED <<job, ctxDone, outcome, releasing>>
    BY <1>8, <2>2 DEF StoreFault
  <2>3. CASE /\ ctxDone' = [ctxDone EXCEPT ![w] = TRUE]
             /\ UNCHANGED <<pc, job, outcome, releasing>>
    BY <1>8, <2>3 DEF StoreFault
  <2>4. CASE releasing' \subseteq releasing /\ UNCHANGED workerVars
    BY <1>8, <2>4 DEF StoreFault
  <2> QED
    BY <1>8, <2>1, <2>2, <2>3, <2>4 DEF StoreFault
<1>9. ASSUME NEW r \in Runtimes, WaitTimeout(r) PROVE TypeOK'
  BY <1>9 DEF WaitTimeout, Held
<1>10. CASE Shutdown \/ Exit \/ Crash
  <2>1. CASE Shutdown
    BY <2>1 DEF Shutdown
  <2>2. CASE ProcessEnds
    BY <2>2 DEF ProcessEnds
  <2> QED
    BY <1>10, <2>1, <2>2 DEF Exit, Crash
<1>11. CASE Boot
  BY <1>11 DEF Boot
<1>12. CASE UNCHANGED vars
  BY <1>12 DEF vars
<1> QED
  BY <1>1, <1>2, <1>3, <1>4, <1>5, <1>6, <1>7, <1>8, <1>9, <1>10, <1>11, <1>12 DEF Next

-----------------------------------------------------------------------------
\* Which runtimes have expired, and which workers can be busy when.
LEMMA ScopeInvStep == TypeOK /\ ScopeInv /\ [Next]_vars => ScopeInv'
<1> SUFFICES ASSUME TypeOK, ScopeInv, [Next]_vars PROVE ScopeInv'
  OBVIOUS
<1> USE ConstantsAssumption
        DEF TypeOK, ScopeInv, Quiet, ReleaseScope, Served, rowVars, workerVars, processVars
<1>1. CASE Tick
  BY <1>1 DEF Tick
<1>2. ASSUME NEW o \in Ops, Enqueue(o) \/ RequestCancel(o) \/ BecomeDue(o)
      PROVE  ScopeInv'
  BY <1>2 DEF Enqueue, RequestCancel, BecomeDue
<1>3. ASSUME NEW s, BeginServiceDeletion(s) PROVE ScopeInv'
  BY <1>3 DEF BeginServiceDeletion
<1>4. ASSUME NEW w \in Workers, NEW o \in Ops, Claim(w, o) PROVE ScopeInv'
  BY <1>4 DEF Claim, Claimable, MayClaim
<1>5. ASSUME NEW w \in Workers, NEW o \in Ops, ReleaseLease(w, o) PROVE ScopeInv'
  BY <1>5 DEF ReleaseLease
<1>6. ASSUME NEW w \in Workers, Execute(w) PROVE ScopeInv'
  <2>1. CASE BecomeIdle(w) /\ UNCHANGED processVars
    BY <2>1 DEF BecomeIdle
  <2>2. CASE /\ UNCHANGED <<job, processVars>> /\ pc[w] # "idle"
             /\ \E x \in {"handle", "tail", "complete"} : pc' = [pc EXCEPT ![w] = x]
    BY <2>2
  <2> QED
    BY <1>6, <2>1, <2>2
       DEF Execute, HandlerEnds, ReadyRefuses, ReadyRetries, Dispatch, Report, Abandon,
           DatabaseReturn, DeployReturn, Return, Complete
<1>7. ASSUME NEW w \in Workers, IdlePoll(w) \/ StopSignal(w) \/ Progress(w)
      PROVE  ScopeInv'
  BY <1>7 DEF IdlePoll, StopSignal, Progress, vars
<1>8. ASSUME NEW w \in Workers, StoreFault(w) PROVE ScopeInv'
  BY <1>8, ZenonT(60) DEF StoreFault, BecomeIdle
<1>9. ASSUME NEW r \in Runtimes, WaitTimeout(r) PROVE ScopeInv'
  <2>1. \A o \in Ops, w \in Workers : <<o, w>> \in releasing' => RuntimeOf(w) = r
    BY <1>9 DEF WaitTimeout, Held
  <2> QED
    BY <1>9, <2>1 DEF WaitTimeout
<1>10. CASE Shutdown \/ Exit \/ Crash
  BY <1>10 DEF Shutdown, Exit, Crash, ProcessEnds
<1>11. CASE Boot
  BY <1>11 DEF Boot
<1>12. CASE UNCHANGED vars
  BY <1>12 DEF vars
<1> QED
  BY <1>1, <1>2, <1>3, <1>4, <1>5, <1>6, <1>7, <1>8, <1>9, <1>10, <1>11, <1>12 DEF Next

-----------------------------------------------------------------------------
\* The lock key.  All but Claim and Progress set no row running and engage no
\* worker; for those only EngagedHolds is in question (<1>0).
LEMMA LockInvStep == TypeOK /\ TypeOK' /\ ScopeInv /\ LockInv /\ [Next]_vars => LockInv'
<1> SUFFICES ASSUME TypeOK, TypeOK', ScopeInv, LockInv, [Next]_vars PROVE LockInv'
  OBVIOUS
<1> DEFINE Narrows ==
      /\ \A v \in Workers : Engaged(v)' => Engaged(v) /\ job'[v] = job[v]
      /\ \A o \in Ops : status'[o] = "running" => status[o] = "running"
<1> HIDE DEF Narrows
<1>0. ASSUME Narrows, EngagedHolds' PROVE LockInv'
  <2> \A v \in Workers : Engaged(v) => job[v] \in Ops
    BY DEF Engaged, TypeOK
  <2>1. OneRunningPerLockKey'
    BY <1>0 DEF Narrows, LockInv, OneRunningPerLockKey
  <2>2. EngagedAlone'
    BY <1>0 DEF Narrows, LockInv, EngagedAlone
  <2>3. EngagedApart'
    BY <1>0 DEF Narrows, LockInv, EngagedApart
  <2> QED
    BY <1>0, <2>1, <2>2, <2>3 DEF LockInv
<1>1. CASE UNCHANGED <<status, owner, pc, job, expired>>
  BY <1>1 DEF LockInv, OneRunningPerLockKey, EngagedHolds, EngagedAlone, EngagedApart,
              Engaged, Holds
<1>2. ASSUME NEW o \in Ops, Enqueue(o) \/ RequestCancel(o) PROVE LockInv'
  <2>1. Narrows
    BY <1>2 DEF Narrows, Enqueue, RequestCancel, Cancellable, Engaged, TypeOK,
                workerVars, processVars
  <2>2. EngagedHolds'
    BY <1>2 DEF Enqueue, RequestCancel, Cancellable, LockInv, EngagedHolds, Holds, Engaged,
                TypeOK, workerVars, processVars
  <2> QED
    BY <1>0, <2>1, <2>2
<1>3. ASSUME NEW s, BeginServiceDeletion(s) PROVE LockInv'
  <2>1. \A o \in Ops : \/ status'[o] = status[o] /\ owner'[o] = owner[o]
                       \/ status[o] = "queued" /\ status'[o] = "cancelled"
    <3> DEFINE stopped == {o \in {q \in Ops \ Deploys : ServiceOf[q] = s} : Cancellable(o)}
    <3>1. CASE UNCHANGED <<status, owner>>
      BY <3>1
    <3>2. CASE /\ status' = [o \in Ops |-> IF o \in stopped THEN "cancelled" ELSE status[o]]
               /\ owner' = [o \in Ops |-> IF o \in stopped THEN None ELSE owner[o]]
      BY <3>2 DEF Cancellable
    <3> QED
      BY <1>3, <3>1, <3>2 DEF BeginServiceDeletion
  <2>2. UNCHANGED <<pc, job, expired>>
    BY <1>3 DEF BeginServiceDeletion, workerVars, processVars
  <2>3. Narrows
    BY <2>1, <2>2 DEF Narrows, Engaged
  <2>4. EngagedHolds'
    BY <2>1, <2>2 DEF LockInv, EngagedHolds, Holds, Engaged, TypeOK
  <2> QED
    BY <1>0, <2>3, <2>4
<1>4. ASSUME NEW w \in Workers, NEW o \in Ops, Claim(w, o) PROVE LockInv'
  <2>1. /\ pc[w] = "idle" /\ LockFree(o) /\ expired = {}
        /\ status' = [status EXCEPT ![o] = "running"]
        /\ owner' = [owner EXCEPT ![o] = w]
        /\ pc' = [pc EXCEPT ![w] = "ready"]
        /\ job' = [job EXCEPT ![w] = o]
        /\ expired' = expired
    BY <1>4 DEF Claim, Claimable, MayClaim, ScopeInv, Quiet, processVars
  <2>2. ~Engaged(w) /\ Engaged(w)' /\ job'[w] = o
    BY <2>1 DEF Engaged, TypeOK
  <2>3. \A v \in Workers \ {w} : /\ Engaged(v)' <=> Engaged(v)
                                /\ job'[v] = job[v]
    BY <2>1 DEF Engaged, TypeOK
  <2>4. \A v \in Workers \ {w} : Engaged(v) => LockOf[job[v]] # LockOf[o]
    BY <2>1 DEF LockInv, EngagedHolds, Holds, LockFree, TypeOK, Engaged
  <2>5. OneRunningPerLockKey'
    BY <2>1 DEF LockInv, OneRunningPerLockKey, LockFree, TypeOK
  <2>6. EngagedHolds'
    BY <2>1, <2>2, <2>3, <2>4 DEF LockInv, EngagedHolds, Holds, TypeOK
  <2>7. EngagedAlone'
    <3>1. \A r \in Ops : r # o /\ LockOf[r] = LockOf[o] => status'[r] # "running"
      BY <2>1 DEF LockFree, TypeOK
    <3>2. \A v \in Workers \ {w} : Engaged(v) =>
            \A r \in Ops : r # job[v] /\ LockOf[r] = LockOf[job[v]] => status'[r] # "running"
      BY <2>1, <2>4 DEF LockInv, EngagedAlone, TypeOK
    <3> QED
      BY <3>1, <3>2, <2>2, <2>3 DEF EngagedAlone
  <2>8. EngagedApart'
    BY <2>2, <2>3, <2>4 DEF LockInv, EngagedApart
  <2> QED
    BY <2>5, <2>6, <2>7, <2>8 DEF LockInv
<1>5. ASSUME NEW w \in Workers, NEW o \in Ops, ReleaseLease(w, o) PROVE LockInv'
  <2>1. RuntimeOf(w) \in expired
    BY <1>5 DEF ReleaseLease, ScopeInv, ReleaseScope
  <2>2. UNCHANGED <<pc, job, expired>>
    BY <1>5 DEF ReleaseLease, workerVars
  <2>3. \/ UNCHANGED <<status, owner>>
        \/ /\ Holds(w, o)
           /\ \E x \in {"failed", "queued"} : status' = [status EXCEPT ![o] = x]
           /\ owner' = [owner EXCEPT ![o] = None]
    BY <1>5 DEF ReleaseLease, CompleteOperation, DeferOperation, rowVars
  <2>4. Narrows
    BY <2>2, <2>3 DEF Narrows, Engaged, TypeOK
  <2>5. EngagedHolds'
    BY <2>1, <2>2, <2>3 DEF LockInv, EngagedHolds, Holds, Engaged, TypeOK
  <2> QED
    BY <1>0, <2>4, <2>5
<1>6. ASSUME NEW w \in Workers, Execute(w) PROVE LockInv'
  <2>1. CASE /\ BecomeIdle(w) /\ UNCHANGED processVars /\ pc[w] # "idle"
             /\ \/ UNCHANGED <<status, owner>>
                \/ /\ Holds(w, job[w])
                   /\ \E x \in Terminal \cup {"queued"} :
                        status' = [status EXCEPT ![job[w]] = x]
                   /\ owner' = [owner EXCEPT ![job[w]] = None]
    <3>1. ~Engaged(w)' /\ \A v \in Workers \ {w} : (Engaged(v)' <=> Engaged(v)) /\ job'[v] = job[v]
      BY <2>1 DEF BecomeIdle, Engaged, TypeOK
    <3>2. Narrows
      BY <2>1, <3>1 DEF Narrows, TypeOK, Terminal
    <3>3. \A v \in Workers \ {w} : Engaged(v) /\ RuntimeOf(v) \notin expired =>
            job[v] \in Ops /\ Holds(v, job[v])
      BY DEF LockInv, EngagedHolds, Engaged, TypeOK
    <3>4. \A v \in Workers \ {w}, o \in Ops : Holds(v, o) => Holds(v, o)'
      BY <2>1 DEF Holds, TypeOK
    <3>5. EngagedHolds'
      BY <2>1, <3>1, <3>3, <3>4 DEF EngagedHolds, Holds, processVars
    <3> QED
      BY <1>0, <3>2, <3>5
  <2>2. CASE /\ UNCHANGED <<rowVars, job, processVars>>
             /\ \/ Dispatch(w)
                \/ job[w] \notin Deploys /\ pc' = [pc EXCEPT ![w] = "tail"]
                \/ pc[w] # "idle" /\ pc' = [pc EXCEPT ![w] = "complete"]
    <3>1. Narrows
      BY <2>2 DEF Narrows, Dispatch, Engaged, TypeOK, rowVars
    <3>2. EngagedHolds'
      BY <2>2, <3>1 DEF Narrows, LockInv, EngagedHolds, Holds, rowVars, processVars
    <3> QED
      BY <1>0, <3>1, <3>2
  <2>3. CASE \E s \in {"success", "failed"} : Report(w, s)
    <3>1. /\ Engaged(w) /\ job[w] \notin Deploys /\ job[w] \in Ops
          /\ UNCHANGED <<job, expired>>
          /\ pc' = [pc EXCEPT ![w] = "tail"]
          /\ \E s \in {"success", "failed"} : status' = [status EXCEPT ![job[w]] = s]
          /\ owner' = [owner EXCEPT ![job[w]] = None]
      BY <2>3 DEF Report, Engaged, processVars, TypeOK
    <3>2. ~Engaged(w)' /\ \A v \in Workers \ {w} : Engaged(v)' <=> Engaged(v)
      BY <3>1 DEF Engaged, TypeOK
    <3>3. \A v \in Workers \ {w} : Engaged(v) => job[v] # job[w]
      BY <3>1 DEF LockInv, EngagedApart
    <3>4. Narrows
      BY <3>1, <3>2 DEF Narrows, TypeOK
    <3>5. EngagedHolds'
      BY <3>1, <3>2, <3>3 DEF LockInv, EngagedHolds, Holds, TypeOK, Engaged
    <3> QED
      BY <1>0, <3>4, <3>5
  <2>4. CASE ReadyRefuses(w) \/ ReadyRetries(w) \/ Complete(w)
    BY <2>1, <2>4 DEF ReadyRefuses, ReadyRetries, Complete, CompleteOperation, DeferOperation,
                      rowVars, Terminal, TypeOK
  <2>5. CASE Dispatch(w) \/ Abandon(w) \/ DatabaseReturn(w) \/ DeployReturn(w)
    BY <2>2, <2>5 DEF Dispatch, Abandon, DatabaseReturn, DeployReturn, Return
  <2> QED
    BY <1>6, <2>3, <2>4, <2>5 DEF Execute, HandlerEnds
<1>7. ASSUME NEW w \in Workers, Progress(w) PROVE LockInv'
  <2>1. /\ Engaged(w) /\ job[w] \in Ops
        /\ UNCHANGED <<owner, pc, job, expired>>
        /\ status' = [status EXCEPT ![job[w]] = "running"]
    BY <1>7 DEF Progress, Engaged, TypeOK, workerVars, processVars
  <2>2. \A r \in Ops : r # job[w] /\ LockOf[r] = LockOf[job[w]] => status[r] # "running"
    BY <2>1 DEF LockInv, EngagedAlone
  <2>3. OneRunningPerLockKey'
    BY <2>1, <2>2 DEF LockInv, OneRunningPerLockKey, TypeOK
  <2>4. EngagedHolds'
    BY <2>1 DEF LockInv, EngagedHolds, Holds, Engaged, TypeOK
  <2>5. EngagedAlone'
    <3>1. \A v \in Workers \ {w} : Engaged(v) => LockOf[job[v]] # LockOf[job[w]]
      BY <2>1 DEF LockInv, EngagedApart
    <3> QED
      BY <2>1, <3>1 DEF LockInv, EngagedAlone, Engaged, TypeOK
  <2>6. EngagedApart'
    BY <2>1 DEF LockInv, EngagedApart, Engaged
  <2> QED
    BY <2>3, <2>4, <2>5, <2>6 DEF LockInv
<1>8. ASSUME NEW w \in Workers, StoreFault(w) PROVE LockInv'
  <2>1. UNCHANGED <<status, owner, expired>>
    BY <1>8 DEF StoreFault, rowVars
  <2>2. Narrows
    BY <1>8 DEF StoreFault, BecomeIdle, Narrows, Engaged, TypeOK, rowVars, workerVars
  <2>3. EngagedHolds'
    BY <2>1, <2>2 DEF Narrows, LockInv, EngagedHolds, Holds
  <2> QED
    BY <1>0, <2>2, <2>3
<1>9. ASSUME NEW r \in Runtimes, WaitTimeout(r) PROVE LockInv'
  BY <1>9 DEF WaitTimeout, rowVars, workerVars, LockInv, OneRunningPerLockKey, EngagedHolds,
              EngagedAlone, EngagedApart, Engaged, Holds
<1>10. CASE Exit \/ Crash
  <2>1. UNCHANGED <<status, owner>> /\ \A v \in Workers : ~Engaged(v)'
    BY <1>10 DEF Exit, Crash, ProcessEnds, Engaged, rowVars
  <2> QED
    BY <2>1 DEF LockInv, OneRunningPerLockKey, EngagedHolds, EngagedAlone, EngagedApart
<1>11. CASE Boot
  <2>1. \A v \in Workers : ~Engaged(v)'
    BY <1>11 DEF Boot, ScopeInv, Quiet, Engaged, workerVars
  <2>2. \A o \in Ops : status'[o] # "running"
    BY <1>11 DEF Boot, Interrupted, TypeOK
  <2> QED
    BY <2>1, <2>2 DEF LockInv, OneRunningPerLockKey, EngagedHolds, EngagedAlone, EngagedApart
<1> QED
  <2>1. ASSUME Tick \/ Shutdown \/ UNCHANGED vars PROVE LockInv'
    BY <1>1, <2>1 DEF Tick, Shutdown, vars, rowVars, workerVars, processVars
  <2>2. ASSUME NEW o \in Ops, BecomeDue(o) PROVE LockInv'
    BY <1>1, <2>2 DEF BecomeDue, workerVars, processVars
  <2>3. ASSUME NEW w \in Workers, IdlePoll(w) \/ StopSignal(w) PROVE LockInv'
    BY <1>1, <2>3 DEF IdlePoll, StopSignal, vars, rowVars, workerVars, processVars
  <2> QED
    BY <1>2, <1>3, <1>4, <1>5, <1>6, <1>7, <1>8, <1>9, <1>10, <1>11, <2>1, <2>2, <2>3 DEF Next

-----------------------------------------------------------------------------
\* Attempts and starts.  Only Claim, DeferOperation and Dispatch count; a
\* deploy is never deferred, so its attempt never goes down again (<1>0 covers
\* every step that counts nothing and requeues nothing).
LEMMA CountInvStep ==
  TypeOK /\ TypeOK' /\ ScopeInv /\ LockInv /\ CountInv /\ [Next]_vars => CountInv'
<1> SUFFICES ASSUME TypeOK, TypeOK', ScopeInv, LockInv, CountInv, [Next]_vars
             PROVE  CountInv'
  OBVIOUS
<1> USE ConstantsAssumption, MaxAttemptsIsPositive
<1> DEFINE Requeues ==
      \E o \in Ops : /\ status'[o] \in {"queued", "absent"} /\ status[o] # status'[o]
                     /\ ~(status[o] = "absent" /\ attempt[o] = 0)
<1> HIDE DEF Requeues
<1>0. ASSUME ~Requeues, UNCHANGED <<attempt, starts>>,
             \A v \in Workers : pc'[v] = "ready" => pc[v] = "ready" /\ job'[v] = job[v]
      PROVE  CountInv'
  <2>1. QueuedIsClaimable'
    BY <1>0 DEF Requeues, CountInv, QueuedIsClaimable, TypeOK, MaxAttempts
  <2>2. AbsentIsFresh'
    BY <1>0 DEF Requeues, CountInv, AbsentIsFresh, TypeOK
  <2>3. DeployCounts' /\ ReadyIsFresh'
    BY <1>0 DEF CountInv, DeployCounts, ReadyIsFresh, TypeOK
  <2> QED
    BY <2>1, <2>2, <2>3 DEF CountInv
<1>1. ASSUME NEW o \in Ops, Enqueue(o) \/ RequestCancel(o) \/ BecomeDue(o)
      PROVE  CountInv'
  <2>1. ~Requeues
    BY <1>1 DEF Requeues, Enqueue, RequestCancel, BecomeDue, TypeOK, CountInv, AbsentIsFresh
  <2> QED
    BY <1>0, <1>1, <2>1 DEF Enqueue, RequestCancel, BecomeDue, workerVars
<1>2. ASSUME NEW s, BeginServiceDeletion(s) PROVE CountInv'
  <2>1. \A o \in Ops : status'[o] = status[o] \/ status'[o] = "cancelled"
    <3> DEFINE stopped == {o \in {q \in Ops \ Deploys : ServiceOf[q] = s} : Cancellable(o)}
    <3>1. CASE UNCHANGED status
      BY <3>1
    <3>2. CASE status' = [o \in Ops |-> IF o \in stopped THEN "cancelled" ELSE status[o]]
      BY <3>2
    <3> QED
      BY <1>2, <3>1, <3>2 DEF BeginServiceDeletion
  <2>2. UNCHANGED <<attempt, starts, workerVars>>
    BY <1>2 DEF BeginServiceDeletion
  <2> QED
    BY <1>0, <2>1, <2>2 DEF Requeues, workerVars
<1>3. ASSUME NEW w \in Workers, NEW o \in Ops, Claim(w, o) PROVE CountInv'
  <2>1. /\ status[o] = "queued" /\ attempt[o] < MaxAttempts(o)
        /\ status' = [status EXCEPT ![o] = "running"]
        /\ attempt' = [attempt EXCEPT ![o] = @ + 1]
        /\ pc' = [pc EXCEPT ![w] = "ready"] /\ job' = [job EXCEPT ![w] = o]
        /\ UNCHANGED starts
    BY <1>3 DEF Claim, Claimable
  <2>2. QueuedIsClaimable' /\ AbsentIsFresh'
    BY <2>1 DEF CountInv, QueuedIsClaimable, AbsentIsFresh, TypeOK, MaxAttempts
  <2>3. DeployCounts'
    BY <2>1 DEF CountInv, DeployCounts, TypeOK
  <2>4. ReadyIsFresh'
    <3>1. o \in Deploys => starts[o] = 0 /\ attempt'[o] = 1
      BY <2>1 DEF CountInv, DeployCounts, TypeOK, MaxAttempts
    <3>2. \A v \in Workers \ {w} : pc[v] = "ready" /\ job[v] \in Deploys => job[v] # o
      BY <2>1 DEF CountInv, ReadyIsFresh, TypeOK, MaxAttempts
    <3> QED
      BY <2>1, <3>1, <3>2 DEF CountInv, ReadyIsFresh, TypeOK
  <2> QED
    BY <2>2, <2>3, <2>4 DEF CountInv
<1>4. ASSUME NEW w \in Workers, NEW o \in Ops, o \notin Deploys, DeferOperation(w, o, "later")
             \/ DeferOperation(w, o, "due"),
             UNCHANGED starts,
             \A v \in Workers : pc'[v] = "ready" => pc[v] = "ready" /\ job'[v] = job[v]
      PROVE  CountInv'
  <2>1. CASE UNCHANGED rowVars
    BY <1>0, <1>4, <2>1 DEF Requeues, rowVars
  <2>2. CASE /\ status' = [status EXCEPT ![o] = "queued"]
             /\ attempt' = [attempt EXCEPT ![o] = IF @ = 0 THEN 0 ELSE @ - 1]
    <3>1. attempt'[o] < MaxAttempts(o)
      BY <2>2 DEF TypeOK
    <3>2. QueuedIsClaimable' /\ AbsentIsFresh'
      BY <2>2, <3>1 DEF CountInv, QueuedIsClaimable, AbsentIsFresh, TypeOK, MaxAttempts
    <3>3. \A d \in Deploys : attempt'[d] = attempt[d]
      BY <1>4, <2>2 DEF TypeOK
    <3>4. DeployCounts' /\ ReadyIsFresh'
      BY <1>4, <3>3 DEF CountInv, DeployCounts, ReadyIsFresh, TypeOK
    <3> QED
      BY <3>2, <3>4 DEF CountInv
  <2> QED
    BY <1>4, <2>1, <2>2 DEF DeferOperation
<1>5. ASSUME NEW w \in Workers, NEW o \in Ops, ReleaseLease(w, o) PROVE CountInv'
  <2>1. CASE DeferOperation(w, o, "due") /\ o \notin Deploys
    BY <1>4, <1>5, <2>1 DEF ReleaseLease, workerVars
  <2>2. CASE CompleteOperation(w, o, "failed")
    <3>1. ~Requeues /\ UNCHANGED attempt
      BY <2>2 DEF CompleteOperation, Requeues, rowVars, TypeOK
    <3> QED
      BY <1>0, <1>5, <3>1 DEF ReleaseLease, workerVars
  <2> QED
    BY <1>5, <2>1, <2>2 DEF ReleaseLease, Resumable, MaxAttempts
<1>6. ASSUME NEW w \in Workers, Execute(w) PROVE CountInv'
  <2>1. CASE ReadyRetries(w)
    <3>1. /\ job[w] \in Ops \ Deploys /\ UNCHANGED starts
          /\ \A v \in Workers : pc'[v] = "ready" => pc[v] = "ready" /\ job'[v] = job[v]
      BY <2>1 DEF ReadyRetries, BecomeIdle, TypeOK
    <3>2. CASE DeferOperation(w, job[w], "later")
      BY <1>4, <3>1, <3>2
    <3>3. CASE UNCHANGED rowVars
      <4>1. ~Requeues /\ UNCHANGED attempt
        BY <3>3 DEF Requeues, rowVars
      <4> QED
        BY <1>0, <3>1, <4>1
    <3> QED
      BY <2>1, <3>2, <3>3 DEF ReadyRetries
  <2>2. CASE Dispatch(w)
    <3>1. /\ job[w] \in Ops /\ pc[w] = "ready" /\ Engaged(w)
          /\ pc' = [pc EXCEPT ![w] = "handle"]
          /\ starts' = [starts EXCEPT ![job[w]] = @ + 1]
          /\ UNCHANGED <<status, attempt, job>>
      BY <2>2 DEF Dispatch, TypeOK, Engaged, rowVars
    <3>2. \A v \in Workers \ {w} : pc[v] = "ready" => job[v] # job[w]
      BY <3>1 DEF LockInv, EngagedApart, Engaged
    <3>3. DeployCounts'
      BY <3>1 DEF CountInv, DeployCounts, ReadyIsFresh, TypeOK
    <3>4. ReadyIsFresh'
      BY <3>1, <3>2 DEF CountInv, ReadyIsFresh, TypeOK
    <3>5. QueuedIsClaimable' /\ AbsentIsFresh'
      BY <3>1 DEF CountInv, QueuedIsClaimable, AbsentIsFresh, MaxAttempts
    <3> QED
      BY <3>3, <3>4, <3>5 DEF CountInv
  <2>3. CASE ReadyRefuses(w) \/ Complete(w)
    <3>1. UNCHANGED starts /\ \A v \in Workers : pc'[v] = "ready" => pc[v] = "ready" /\ job'[v] = job[v]
      BY <2>3 DEF ReadyRefuses, Complete, BecomeIdle, TypeOK
    <3>2. \E x \in Terminal : CompleteOperation(w, job[w], x)
      BY <2>3 DEF ReadyRefuses, Complete, Terminal, TypeOK
    <3>3. ~Requeues /\ UNCHANGED attempt
      BY <3>2 DEF CompleteOperation, Requeues, rowVars, TypeOK, Terminal
    <3> QED
      BY <1>0, <3>1, <3>3
  <2>4. CASE HandlerEnds(w)
    <3>1. /\ UNCHANGED <<attempt, starts, job>>
          /\ \E x \in {"tail", "complete"} : pc' = [pc EXCEPT ![w] = x]
          /\ UNCHANGED status \/ \E x \in Terminal : status' = [status EXCEPT ![job[w]] = x]
      BY <2>4 DEF HandlerEnds, Report, Abandon, DatabaseReturn, DeployReturn, Return, rowVars,
                  Terminal
    <3>2. ~Requeues
      BY <3>1 DEF Requeues, Terminal, TypeOK
    <3> QED
      BY <1>0, <3>1, <3>2 DEF TypeOK
  <2> QED
    BY <1>6, <2>1, <2>2, <2>3, <2>4 DEF Execute
<1>7. ASSUME NEW w \in Workers, IdlePoll(w) \/ StopSignal(w) \/ Progress(w) PROVE CountInv'
  <2>1. ~Requeues
    BY <1>7 DEF Requeues, IdlePoll, StopSignal, Progress, vars, rowVars, TypeOK
  <2> QED
    BY <1>0, <1>7, <2>1 DEF IdlePoll, StopSignal, Progress, vars, rowVars, workerVars
<1>8. ASSUME NEW w \in Workers, StoreFault(w) PROVE CountInv'
  <2>1. ~Requeues /\ UNCHANGED <<attempt, starts>>
    BY <1>8 DEF Requeues, StoreFault, rowVars
  <2>2. \A v \in Workers : pc'[v] = "ready" => pc[v] = "ready" /\ job'[v] = job[v]
    BY <1>8 DEF StoreFault, BecomeIdle, workerVars, TypeOK
  <2> QED
    BY <1>0, <2>1, <2>2
<1>9. CASE Boot
  <2>1. \A o \in Ops : \/ status'[o] \in {status[o], "failed"}
                       \/ status'[o] = "queued" /\ attempt[o] < MaxAttempts(o)
    BY <1>9 DEF Boot, Interrupted, Exhausted, TypeOK, MaxAttempts
  <2>2. UNCHANGED <<attempt, starts, pc, job>>
    BY <1>9 DEF Boot, workerVars
  <2>3. QueuedIsClaimable'
    BY <2>1, <2>2 DEF CountInv, QueuedIsClaimable, MaxAttempts
  <2>4. AbsentIsFresh'
    BY <2>1, <2>2 DEF CountInv, AbsentIsFresh
  <2>5. DeployCounts' /\ ReadyIsFresh'
    BY <2>2 DEF CountInv, DeployCounts, ReadyIsFresh
  <2> QED
    BY <2>3, <2>4, <2>5 DEF CountInv
<1>10. CASE Exit \/ Crash
  <2>1. UNCHANGED <<status, attempt, starts>> /\ \A v \in Workers : pc'[v] # "ready"
    BY <1>10 DEF Exit, Crash, ProcessEnds, rowVars
  <2> QED
    BY <1>0, <2>1 DEF Requeues
<1>11. CASE Tick \/ Shutdown \/ (\E r \in Runtimes : WaitTimeout(r)) \/ UNCHANGED vars
  <2>1. UNCHANGED <<status, attempt, starts, pc, job>>
    BY <1>11 DEF Tick, Shutdown, WaitTimeout, vars, rowVars, workerVars
  <2> QED
    BY <1>0, <2>1 DEF Requeues
<1> QED
  BY <1>1, <1>2, <1>3, <1>5, <1>6, <1>7, <1>8, <1>9, <1>10, <1>11 DEF Next

-----------------------------------------------------------------------------
\* Together the parts are inductive.
LEMMA QueueInvStep == QueueInv /\ [Next]_vars => QueueInv'
BY TypeOKStep, ScopeInvStep, LockInvStep, CountInvStep DEF QueueInv

\* The inductive invariant holds of every reachable state.
THEOREM QueueInvariant == Spec => []QueueInv
<1>1. Init => QueueInv
  BY InitQueueInv
<1>2. QueueInv /\ [Next]_vars => QueueInv'
  BY QueueInvStep
<1> QED
  BY <1>1, <1>2, PTL DEF Spec

\* The variables keep their types and no row counts more attempts than its
\* max_attempts, whatever the workers, drains and restarts do.
THEOREM TypeCorrect == Spec => []TypeOK
<1>1. QueueInv => TypeOK
  BY DEF QueueInv
<1> QED
  BY <1>1, QueueInvariant, PTL

\* No two rows with one lock key are ever both running, although the check is
\* made only at the claim and handlers write their row unguarded
\* (ClaimNextOperation, UpdateDatabaseOperation).
THEOREM LockKeyExclusion == Spec => []OneRunningPerLockKey
<1>1. QueueInv => OneRunningPerLockKey
  BY DEF QueueInv, LockInv
<1> QED
  BY <1>1, QueueInvariant, PTL

\* No two workers ever execute deploys with one lock key at once, not even
\* after a drain has failed the row under a handler that still runs.
THEOREM DeployExclusion == Spec => []OneDeployPerLockKey
<1>1. QueueInv => OneDeployPerLockKey
  <2> SUFFICES ASSUME QueueInv, NEW v \in Workers, NEW w \in Workers,
                      v # w, job[v] \in Deploys, job[w] \in Deploys
               PROVE  LockOf[job[v]] # LockOf[job[w]]
    BY DEF OneDeployPerLockKey
  <2>1. Engaged(v) /\ Engaged(w)
    BY ConstantsAssumption DEF QueueInv, TypeOK, Engaged
  <2> QED
    BY <2>1 DEF QueueInv, LockInv, EngagedApart
<1> QED
  BY <1>1, QueueInvariant, PTL

\* No row is left queued where the claim query can never select it
\* (RecoverOperations, DeferOperation).
THEOREM QueuedStaysClaimable == Spec => []QueuedIsClaimable
<1>1. QueueInv => QueuedIsClaimable
  BY DEF QueueInv, CountInv
<1> QED
  BY <1>1, QueueInvariant, PTL

\* The handler of a deploy is dispatched at most once over any number of
\* crashes, drains and recoveries (max_attempts = 1).
THEOREM DeployRunsOnce == Spec => []DeployStartsOnce
<1>1. QueueInv => DeployStartsOnce
  <2> SUFFICES ASSUME QueueInv, NEW o \in Deploys PROVE starts[o] <= 1
    BY DEF DeployStartsOnce
  <2>1. o \in Ops /\ MaxAttempts(o) = 1
    BY ConstantsAssumption DEF MaxAttempts
  <2>2. starts[o] \in Nat /\ attempt[o] \in Nat /\ attempt[o] <= 1
    BY <2>1 DEF QueueInv, TypeOK
  <2>3. starts[o] <= attempt[o]
    BY DEF QueueInv, CountInv, DeployCounts
  <2> QED
    BY <2>2, <2>3
<1> QED
  BY <1>1, QueueInvariant, PTL

-----------------------------------------------------------------------------
\* A terminal row keeps its status for good, except that of a database
\* operation whose handler outlives its drain deadline.
THEOREM TerminalStays == Spec => TerminalIsFinal
<1> DEFINE Fixed(o) == status[o] \in Terminal /\ (o \in Deploys \/ "database" \notin expired)
           Keeps == \A o \in Ops : Fixed(o) => status'[o] = status[o]
<1>1. QueueInv /\ [Next]_vars => [Keeps]_vars
  <2> SUFFICES ASSUME QueueInv, Next, NEW o \in Ops, Fixed(o)
               PROVE  status'[o] = status[o]
    OBVIOUS
  <2> USE DEF Terminal
  <2>0. TypeOK
    BY DEF QueueInv
  <2>1. CASE UNCHANGED rowVars \/ UNCHANGED status
    BY <2>1 DEF rowVars
  <2>2. ASSUME NEW p \in Ops, Enqueue(p) \/ RequestCancel(p) PROVE status'[o] = status[o]
    BY <2>0, <2>2 DEF Enqueue, RequestCancel, Cancellable, TypeOK
  <2>3. ASSUME NEW s, BeginServiceDeletion(s) PROVE status'[o] = status[o]
    <3> DEFINE stopped == {p \in {q \in Ops \ Deploys : ServiceOf[q] = s} : Cancellable(p)}
    <3>1. CASE status' = [p \in Ops |-> IF p \in stopped THEN "cancelled" ELSE status[p]]
      BY <3>1 DEF Cancellable
    <3> QED
      BY <2>1, <2>3, <3>1 DEF BeginServiceDeletion
  <2>4. ASSUME NEW w \in Workers, NEW p \in Ops,
               \/ Claim(w, p) \/ DeferOperation(w, p, "later") \/ DeferOperation(w, p, "due")
               \/ \E x \in Terminal : CompleteOperation(w, p, x)
        PROVE  status'[o] = status[o]
    BY <2>0, <2>4 DEF Claim, Claimable, DeferOperation, CompleteOperation, Holds, TypeOK, rowVars
  <2>5. ASSUME NEW w \in Workers, pc[w] = "handle", job[w] \notin Deploys,
               NEW x, status' = [status EXCEPT ![job[w]] = x]
        PROVE  status'[o] = status[o]
    <3>1. Engaged(w) /\ job[w] \in Ops /\ Serves(w, job[w])
      BY <2>0, <2>5 DEF Engaged, TypeOK, QueueInv, ScopeInv, Served
    <3>2. CASE o = job[w]
      <4>1. RuntimeOf(w) = "database" /\ "database" \notin expired
        BY <2>5, <3>1, <3>2 DEF RuntimeOf, Serves
      <4>2. Holds(w, o)
        BY <3>1, <3>2, <4>1 DEF QueueInv, LockInv, EngagedHolds
      <4> QED
        BY <4>2 DEF Holds
    <3>3. CASE o # job[w]
      BY <2>0, <2>5, <3>3 DEF TypeOK
    <3> QED
      BY <3>2, <3>3
  <2>6. ASSUME NEW w \in Workers, NEW p \in Ops, ReleaseLease(w, p)
        PROVE  status'[o] = status[o]
    BY <2>4, <2>6 DEF ReleaseLease
  <2>7. ASSUME NEW w \in Workers, Execute(w) PROVE status'[o] = status[o]
    <3>1. CASE ReadyRefuses(w) \/ ReadyRetries(w) \/ Complete(w)
      BY <2>0, <2>1, <2>4, <3>1 DEF ReadyRefuses, ReadyRetries, Complete, TypeOK, rowVars
    <3>2. CASE \E s \in {"success", "failed"} : Report(w, s)
      BY <2>5, <3>2 DEF Report
    <3>3. CASE Dispatch(w) \/ Abandon(w) \/ DatabaseReturn(w) \/ DeployReturn(w)
      BY <2>1, <3>3 DEF Dispatch, Abandon, DatabaseReturn, DeployReturn, Return
    <3> QED
      BY <2>7, <3>1, <3>2, <3>3 DEF Execute, HandlerEnds
  <2>8. ASSUME NEW w \in Workers, IdlePoll(w) \/ StopSignal(w) \/ Progress(w) \/ StoreFault(w)
        PROVE  status'[o] = status[o]
    BY <2>1, <2>5, <2>8 DEF IdlePoll, StopSignal, Progress, StoreFault, vars
  <2>9. CASE Boot
    BY <2>9 DEF Boot, Interrupted
  <2>10. CASE \/ Tick \/ Shutdown \/ Exit \/ Crash \/ (\E r \in Runtimes : WaitTimeout(r))
             \/ (\E p \in Ops : BecomeDue(p))
    BY <2>1, <2>10 DEF Tick, Shutdown, Exit, Crash, ProcessEnds, WaitTimeout, BecomeDue
  <2> QED
    BY <2>2, <2>3, <2>4, <2>6, <2>7, <2>8, <2>9, <2>10 DEF Next
<1> QED
  BY <1>1, QueueInvariant, PTL DEF Spec, TerminalIsFinal
-----------------------------------------------------------------------------
(* The refinement: what each step looks like to a client of the queue.     *)

\* A worker that goes idle takes its operation, and no other, out of what is
\* being executed.
LEMMA IdleLeaves ==
  ASSUME QueueInv, NEW w \in Workers, pc[w] # "idle", BecomeIdle(w)
  PROVE  Executing' = IF Engaged(w) THEN Executing \ {job[w]} ELSE Executing
<1> USE DEF QueueInv, TypeOK, BecomeIdle
<1>1. \A v \in Workers : v # w => (Engaged(v)' <=> Engaged(v)) /\ job'[v] = job[v]
  BY DEF Engaged
<1>2. ~ Engaged(w)'
  BY DEF Engaged
<1>3. Executing' = {job[v] : v \in {u \in Workers : Engaged(u) /\ u # w}}
  BY <1>1, <1>2 DEF Executing
<1>4. CASE Engaged(w)
  <2>1. \A v \in Workers : Engaged(v) /\ v # w => job[v] # job[w]
    BY <1>4 DEF LockInv, EngagedApart
  <2>2. {job[v] : v \in {u \in Workers : Engaged(u) /\ u # w}}
          = {job[v] : v \in {u \in Workers : Engaged(u)}} \ {job[w]}
    <3> HIDE DEF QueueInv, TypeOK, BecomeIdle
    <3> QED
      BY <1>4, <2>1
  <2> QED
    BY <1>3, <1>4, <2>2 DEF Executing
<1>5. CASE ~ Engaged(w)
  BY <1>3, <1>5 DEF Executing
<1> QED
  BY <1>4, <1>5

\* Only an engaged worker's job is executed, and it is an operation.
LEMMA ExecutingIsOps == QueueInv => Executing \subseteq Ops
BY DEF QueueInv, TypeOK, Executing, Engaged

\* A row that w holds before any drain deadline is executed by nobody else.
LEMMA HeldByNobodyElse ==
  ASSUME QueueInv, expired = {}, NEW w \in Workers, NEW o \in Ops, Holds(w, o), ~ Engaged(w)
  PROVE  o \notin Executing
<1> SUFFICES ASSUME NEW v \in Workers, Engaged(v), job[v] = o PROVE FALSE
  BY DEF Executing
<1>1. Holds(v, o)
  BY DEF QueueInv, LockInv, EngagedHolds
<1> QED
  BY <1>1 DEF Holds

\* Nor is a queued row.
LEMMA QueuedIsIdle ==
  ASSUME QueueInv, expired = {}, NEW o \in Ops, status[o] = "queued"
  PROVE  o \notin Executing
<1> SUFFICES ASSUME NEW v \in Workers, Engaged(v), job[v] = o PROVE FALSE
  BY DEF Executing
<1>1. Holds(v, o)
  BY DEF QueueInv, LockInv, EngagedHolds
<1> QED
  BY <1>1 DEF Holds

\* What a store transaction on one row looks like from outside.
LEMMA RowOutcome ==
  ASSUME QueueInv, NEW w \in Workers, NEW o \in Ops
  PROVE  /\ \A s \in Terminal : CompleteOperation(w, o, s) =>
              IF Holds(w, o)
              THEN Outcome[o] = None /\ Outcome' = [Outcome EXCEPT ![o] = s]
              ELSE Outcome' = Outcome
         /\ \A at : DeferOperation(w, o, at) => Outcome' = Outcome
<1> USE DEF QueueInv, TypeOK, Terminal, Outcome, Holds
<1>1. ASSUME NEW s \in Terminal, CompleteOperation(w, o, s)
      PROVE  IF Holds(w, o)
             THEN Outcome[o] = None /\ Outcome' = [Outcome EXCEPT ![o] = s]
             ELSE Outcome' = Outcome
  <2>1. CASE Holds(w, o)
    <3>1. status' = [status EXCEPT ![o] = s] /\ status[o] = "running"
      BY <1>1, <2>1 DEF CompleteOperation
    <3>2. \A p \in Ops : Outcome'[p] = IF p = o THEN s ELSE Outcome[p]
      BY <3>1
    <3>3. Outcome' = [p \in Ops |-> Outcome'[p]] /\ Outcome = [p \in Ops |-> Outcome[p]]
      OBVIOUS
    <3> HIDE DEF Outcome
    <3>4. Outcome' = [Outcome EXCEPT ![o] = s]
      BY <3>2, <3>3
    <3> QED
      BY <2>1, <3>1, <3>4 DEF Outcome
  <2>2. CASE ~ Holds(w, o)
    BY <1>1, <2>2 DEF CompleteOperation, rowVars
  <2> QED
    BY <2>1, <2>2
<1>2. \A at : DeferOperation(w, o, at) => Outcome' = Outcome
  BY DEF DeferOperation, rowVars
<1> QED
  BY <1>1, <1>2

\* A deploy is never given an attempt back.
LEMMA RowEntered ==
  ASSUME QueueInv, NEW w \in Workers, NEW o \in Ops
  PROVE  /\ \A s : CompleteOperation(w, o, s) => Entered' = Entered
         /\ \A at : DeferOperation(w, o, at) /\ o \notin Deploys => Entered' = Entered
<1> USE ConstantsAssumption DEF QueueInv, TypeOK, Entered
<1>1. ASSUME NEW s, CompleteOperation(w, o, s) PROVE Entered' = Entered
  <2>1. attempt' = attempt
    BY <1>1 DEF CompleteOperation, rowVars
  <2> QED
    BY <2>1
<1>2. ASSUME NEW at, DeferOperation(w, o, at), o \notin Deploys PROVE Entered' = Entered
  <2>1. \A d \in Deploys : attempt'[d] = attempt[d]
    BY <1>2 DEF DeferOperation, rowVars
  <2> QED
    BY <2>1
<1> QED
  BY <1>1, <1>2

\* The empty queue is an initial state of the contract.
LEMMA InitContract == Init => Contract!Init
BY ConstantsAssumption
   DEF Init, Contract!Init, Executing, Entered, Outcome, Engaged, Terminal

\* Steps of the environment and of the process.
LEMMA ClientStep ==
  ASSUME QueueInv,
         \/ Tick \/ Shutdown \/ Exit \/ Crash \/ Boot
         \/ \E o \in Ops : Enqueue(o) \/ RequestCancel(o) \/ BecomeDue(o)
         \/ \E s \in {ServiceOf[o] : o \in Ops \ Deploys} : BeginServiceDeletion(s)
         \/ \E r \in Runtimes : WaitTimeout(r)
  PROVE  Contract!Next \/ UNCHANGED Contract!contract
<1> USE ConstantsAssumption DEF QueueInv, TypeOK, Contract!Next, Contract!contract
<1>1. ASSUME UNCHANGED <<status, attempt, workerVars>>
      PROVE  UNCHANGED <<Executing, Entered, Outcome>>
  BY <1>1 DEF workerVars, Executing, Entered, Outcome, Engaged
<1>2. CASE Tick \/ Shutdown \/ \E o \in Ops : BecomeDue(o)
  BY <1>1, <1>2 DEF Tick, Shutdown, BecomeDue, rowVars, processVars
<1>3. CASE Exit \/ Crash
  <2>1. Contract!End
    <3>1. ProcessEnds /\ process # "down"
      BY <1>3 DEF Exit, Crash
    <3>2. Executing' = {}
      BY <3>1 DEF ProcessEnds, Executing, Engaged
    <3> QED
      BY <3>1, <3>2 DEF ProcessEnds, Contract!End, rowVars, Entered, Outcome
  <2> QED
    BY <2>1
<1>4. CASE Boot
  <2> DEFINE given == {o \in Ops : Interrupted(o) /\ Exhausted(o)}
  <2>1. \A o \in Ops : status'[o] = IF o \in given THEN "failed"
                                    ELSE IF Interrupted(o) THEN "queued" ELSE status[o]
    BY <1>4 DEF Boot
  <2>2. given \in SUBSET {o \in Ops : Contract!Open(o)}
    BY DEF Contract!Open, Outcome, Interrupted, Terminal
  <2>3. \A o \in Entered : Contract!Open(o) => o \in given
    <3> SUFFICES ASSUME NEW o \in Deploys, attempt[o] > 0, status[o] \notin Terminal
                 PROVE  o \in given
      BY DEF Contract!Open, Outcome, Entered, Terminal
    <3>1. attempt[o] >= MaxAttempts(o)
      BY DEF MaxAttempts
    <3>2. status[o] = "running"
      BY <3>1 DEF CountInv, QueuedIsClaimable, AbsentIsFresh, Terminal, MaxAttempts
    <3> QED
      BY <3>1, <3>2 DEF Interrupted, Exhausted
  <2>4. Outcome' = [o \in Ops |-> IF o \in given THEN "failed" ELSE Outcome[o]]
    BY <2>1 DEF Outcome, Terminal, Interrupted
  <2>5. process = "down" /\ process' = "up" /\ UNCHANGED <<expired, Executing, Entered>>
    BY <1>4 DEF Boot, Executing, Entered, Engaged, workerVars
  <2>6. Contract!Start
    <3> HIDE DEF given
    <3> QED
      BY <2>2, <2>3, <2>4, <2>5 DEF Contract!Start
  <2> QED
    BY <2>6
<1>5. ASSUME NEW o \in Ops, Enqueue(o) PROVE UNCHANGED Contract!contract
  <2>1. UNCHANGED Outcome
    BY <1>5 DEF Enqueue, Outcome, Terminal
  <2> QED
    BY <1>5, <2>1 DEF Enqueue, Executing, Entered, Engaged, workerVars, processVars
<1>6. ASSUME NEW given \in SUBSET {o \in Ops : status[o] = "queued"}, process # "down",
             status' = [o \in Ops |-> IF o \in given THEN "cancelled" ELSE status[o]],
             UNCHANGED <<attempt, workerVars, processVars>>
      PROVE  Contract!Withdraw(given)
  <2>1. given \cap Executing = {} \/ expired # {}
    BY QueuedIsIdle
  <2>2. \A o \in given : Contract!Open(o)
    BY DEF Contract!Open, Outcome, Terminal
  <2>3. Outcome' = [o \in Ops |-> IF o \in given THEN "cancelled" ELSE Outcome[o]]
    BY <1>6 DEF Outcome, Terminal
  <2>4. UNCHANGED <<process, expired, Executing, Entered>>
    BY <1>6 DEF Executing, Entered, Engaged, workerVars, processVars
  <2> QED
    BY <1>6, <2>1, <2>2, <2>3, <2>4 DEF Contract!Withdraw
<1>7. ASSUME NEW o \in Ops, RequestCancel(o)
      PROVE  Contract!Next \/ UNCHANGED Contract!contract
  <2>1. CASE UNCHANGED status
    BY <1>1, <1>7, <2>1 DEF RequestCancel, processVars
  <2>2. CASE Cancellable(o) /\ status' = [status EXCEPT ![o] = "cancelled"]
    <3>1. status' = [p \in Ops |-> IF p \in {o} THEN "cancelled" ELSE status[p]]
      BY <2>2
    <3>2. {o} \in SUBSET {p \in Ops : status[p] = "queued"}
      BY <2>2 DEF Cancellable
    <3>3. Contract!Withdraw({o})
      BY <1>6, <1>7, <3>1, <3>2 DEF RequestCancel, Serving
    <3> QED
      BY <3>3
  <2> QED
    BY <1>7, <2>1, <2>2 DEF RequestCancel
<1>8. ASSUME NEW s, BeginServiceDeletion(s)
      PROVE  Contract!Next \/ UNCHANGED Contract!contract
  <2> DEFINE stopped == {o \in {p \in Ops \ Deploys : ServiceOf[p] = s} : Cancellable(o)}
  <2>1. CASE UNCHANGED <<status, owner>>
    BY <1>1, <1>8, <2>1 DEF BeginServiceDeletion, processVars
  <2>2. CASE status' = [o \in Ops |-> IF o \in stopped THEN "cancelled" ELSE status[o]]
    <3>1. stopped \in SUBSET {o \in Ops : status[o] = "queued"}
      BY DEF Cancellable
    <3>2. process # "down" /\ UNCHANGED <<attempt, workerVars, processVars>>
      BY <1>8 DEF BeginServiceDeletion, Serving
    <3> HIDE DEF stopped
    <3>3. Contract!Withdraw(stopped) /\ stopped \in SUBSET Ops
      BY <1>6, <2>2, <3>1, <3>2
    <3> QED
      BY <3>3
  <2> QED
    BY <1>8, <2>1, <2>2 DEF BeginServiceDeletion
<1>9. ASSUME NEW r \in Runtimes, WaitTimeout(r) PROVE Contract!Deadline
  <2>1. expired' # {} /\ process' # "down"
    BY <1>9 DEF WaitTimeout
  <2> QED
    BY <1>1, <1>9, <2>1 DEF WaitTimeout, Contract!Deadline, rowVars
<1> QED
  BY <1>2, <1>3, <1>4, <1>5, <1>7, <1>8, <1>9

\* A claim begins an operation that shares its key with none under way.
LEMMA ClaimBegins ==
  ASSUME QueueInv, NEW w \in Workers, NEW o \in Ops, Claim(w, o)
  PROVE  Contract!Begin(o)
<1> USE ConstantsAssumption DEF QueueInv, TypeOK
<1>1. process = "up" /\ expired = {} /\ pc[w] = "idle" /\ status[o] = "queued"
  BY DEF Claim, MayClaim, Claimable, ScopeInv, Quiet
<1>2. \A r \in Executing : LockOf[r] # LockOf[o]
  <2> SUFFICES ASSUME NEW v \in Workers, Engaged(v) PROVE LockOf[job[v]] # LockOf[o]
    BY DEF Executing
  <2>1. job[v] \in Ops /\ status[job[v]] = "running"
    BY <1>1 DEF LockInv, EngagedHolds, Holds, Engaged
  <2> QED
    BY <2>1 DEF Claim, Claimable, LockFree
<1>3. Executing' = Executing \cup {o}
  <2>1. \A v \in Workers : v # w => (Engaged(v)' <=> Engaged(v)) /\ job'[v] = job[v]
    BY DEF Claim, Engaged
  <2>2. Engaged(w)' /\ job'[w] = o /\ ~ Engaged(w)
    BY <1>1 DEF Claim, Engaged
  <2>3. Executing' = {job'[v] : v \in {u \in Workers : Engaged(u)'}}
    BY DEF Executing
  <2>4. ASSUME NEW x PROVE x \in Executing' <=> x \in Executing \cup {o}
    <3>1. x \in Executing' <=> \E v \in Workers : Engaged(v)' /\ x = job'[v]
      BY <2>3
    <3>2. x \in Executing <=> \E v \in Workers : Engaged(v) /\ x = job[v]
      BY DEF Executing
    <3> HIDE DEF QueueInv, TypeOK
    <3> QED
      BY <2>1, <2>2, <3>1, <3>2
  <2> QED
    BY <2>4
<1>4. o \notin Entered /\ Entered' = IF o \in Deploys THEN Entered \cup {o} ELSE Entered
  <2>1. o \in Deploys => attempt[o] = 0
    BY <1>1 DEF CountInv, QueuedIsClaimable, MaxAttempts
  <2>2. \A d \in Deploys : attempt'[d] > 0 <=> attempt[d] > 0 \/ d = o
    BY DEF Claim
  <2> QED
    BY <2>1, <2>2 DEF Entered
<1>5. Contract!Open(o) /\ Outcome' = Outcome
  BY <1>1 DEF Claim, Contract!Open, Outcome, Terminal
<1> QED
  BY <1>1, <1>2, <1>3, <1>4, <1>5 DEF Contract!Begin, Claim, processVars

\* A handler that writes its own row settles it, or, past the deadline,
\* settles or reopens it once more.
LEMMA HandlerWrite ==
  ASSUME QueueInv, NEW w \in Workers, pc[w] = "handle", job[w] \notin Deploys,
         NEW s \in {"running", "success", "failed"},
         status' = [status EXCEPT ![job[w]] = s],
         UNCHANGED <<attempt, processVars>>,
         s = "running" => Executing' = Executing,
         s # "running" => Executing' = Executing \ {job[w]}
  PROVE  Contract!Next \/ UNCHANGED Contract!contract
<1> USE ConstantsAssumption DEF QueueInv, TypeOK
<1> DEFINE o == job[w]
<1>1. o \in Ops /\ process # "down" /\ RuntimeOf(w) = "database"
  BY DEF ScopeInv, Quiet, Served, Serves, RuntimeOf
<1>2. expired = {} => Outcome[o] = None /\ status[o] = "running"
  BY <1>1 DEF LockInv, EngagedHolds, Engaged, Holds, Outcome, Terminal
<1>3. Entered' = Entered
  BY DEF Entered
<1>4. \A p \in Ops : Outcome'[p] = IF p # o THEN Outcome[p]
                                   ELSE IF s = "running" THEN None ELSE s
  BY <1>1 DEF Outcome, Terminal
<1>5. Outcome' = [Outcome EXCEPT ![o] = IF s = "running" THEN None ELSE s]
  <2>1. Outcome = [p \in Ops |-> Outcome[p]] /\ Outcome' = [p \in Ops |-> Outcome'[p]]
    BY DEF Outcome
  <2> HIDE DEF o
  <2> QED
    BY <1>1, <1>4, <2>1
<1>6. CASE s = "running" /\ expired = {}
  <2>1. status' = status
    BY <1>1, <1>2, <1>6
  <2> QED
    BY <1>3, <1>6, <2>1 DEF Contract!contract, Outcome, processVars
<1>7. CASE s = "running" /\ expired # {}
  <2>1. Contract!Reopen(o)
    BY <1>1, <1>3, <1>5, <1>7 DEF Contract!Reopen, processVars
  <2> QED
    BY <1>1, <2>1 DEF Contract!Next
<1>8. CASE s # "running"
  <2>1. Contract!Settle(o, s)
    BY <1>1, <1>2, <1>3, <1>5, <1>8 DEF Contract!Settle, Contract!Open, processVars
  <2> QED
    BY <1>1, <1>8, <2>1 DEF Contract!Next, Contract!Results
<1> QED
  BY <1>6, <1>7, <1>8

\* A database handler that is through no longer executes its operation.
LEMMA TailLeaves ==
  ASSUME QueueInv, NEW w \in Workers, pc[w] = "handle", job[w] \notin Deploys,
         pc' = [pc EXCEPT ![w] = "tail"], job' = job
  PROVE  Executing' = Executing \ {job[w]}
<1>1. \A v \in Workers : Engaged(v)' <=> Engaged(v) /\ v # w
  BY DEF Engaged, QueueInv, TypeOK
<1>2. \A v \in Workers : Engaged(v) /\ v # w => job[v] # job[w]
  BY DEF QueueInv, LockInv, EngagedApart, Engaged
<1>3. Executing' = {job[v] : v \in {u \in Workers : Engaged(u) /\ u # w}}
  BY <1>1 DEF Executing
<1>4. Engaged(w)
  BY DEF Engaged
<1>5. {job[v] : v \in {u \in Workers : Engaged(u) /\ u # w}}
        = {job[v] : v \in {u \in Workers : Engaged(u)}} \ {job[w]}
  BY <1>2, <1>4
<1> QED
  BY <1>3, <1>5 DEF Executing

\* A worker that goes idle, whatever its last write did, leaves its operation
\* or settles it.
LEMMA WorkerFinishes ==
  ASSUME QueueInv, NEW w \in Workers, pc[w] # "idle", BecomeIdle(w), UNCHANGED processVars,
         \/ UNCHANGED rowVars
         \/ \E s \in Terminal : CompleteOperation(w, job[w], s)
         \/ job[w] \notin Deploys /\ \E at : DeferOperation(w, job[w], at)
  PROVE  Contract!Next \/ UNCHANGED Contract!contract
<1> DEFINE o == job[w]
<1>1. o \in Ops /\ process # "down" /\ UNCHANGED <<process, expired>>
  BY ConstantsAssumption DEF QueueInv, TypeOK, ScopeInv, Quiet, processVars
<1>2. Executing' = IF Engaged(w) THEN Executing \ {o} ELSE Executing
  BY IdleLeaves
<1>3. Entered' = Entered
  <2>1. CASE UNCHANGED rowVars
    BY <2>1 DEF rowVars, Entered
  <2> QED
    BY <1>1, <2>1, RowEntered
<1>4. CASE Outcome' = Outcome
  <2>1. Contract!Leave(o) \/ UNCHANGED Contract!contract
    BY <1>1, <1>2, <1>3, <1>4 DEF Contract!Leave, Contract!contract
  <2> QED
    BY <1>1, <2>1 DEF Contract!Next
<1>5. ASSUME NEW s \in Terminal, CompleteOperation(w, o, s), Outcome' # Outcome
      PROVE  Contract!Next
  <2>1. Holds(w, o) /\ Outcome[o] = None /\ Outcome' = [Outcome EXCEPT ![o] = s]
    BY <1>1, <1>5, RowOutcome
  <2>2. Executing' = Executing \ {o} \/ (expired # {} /\ Executing' = Executing)
    BY <1>1, <1>2, <2>1, HeldByNobodyElse
  <2>3. Contract!Settle(o, s)
    BY <1>1, <1>3, <2>1, <2>2 DEF Contract!Settle, Contract!Open
  <2> QED
    BY <1>1, <2>3 DEF Contract!Next, Contract!Results, Terminal
<1>6. CASE UNCHANGED rowVars
  BY <1>4, <1>6 DEF rowVars, Outcome
<1> QED
  BY <1>1, <1>4, <1>5, <1>6, RowOutcome

\* Releasing a lease at the deadline settles a deploy over its handler's head.
LEMMA ReleaseSettles ==
  ASSUME QueueInv, NEW w \in Workers, NEW o \in Ops, ReleaseLease(w, o)
  PROVE  Contract!Next \/ UNCHANGED Contract!contract
<1>1. process # "down" /\ expired # {}
  BY DEF QueueInv, ScopeInv, Quiet, ReleaseScope, ReleaseLease
<1>2. UNCHANGED <<process, expired, Executing>>
  BY DEF ReleaseLease, workerVars, Executing, Engaged
<1>3. CASE Resumable(o)
  <2>1. o \notin Deploys
    BY <1>3 DEF Resumable, MaxAttempts
  <2>2. UNCHANGED <<Outcome, Entered>>
    BY <1>3, <2>1, RowOutcome, RowEntered DEF ReleaseLease
  <2> QED
    BY <1>2, <2>2 DEF Contract!contract
<1>4. CASE ~ Resumable(o)
  <2>1. CompleteOperation(w, o, "failed") /\ "failed" \in Terminal
    BY <1>4 DEF ReleaseLease, Terminal
  <2>2. Entered' = Entered
    BY <2>1, RowEntered
  <2>3. CASE Holds(w, o)
    <3>1. Outcome[o] = None /\ Outcome' = [Outcome EXCEPT ![o] = "failed"]
      BY <2>1, <2>3, RowOutcome
    <3>2. Contract!Settle(o, "failed")
      BY <1>1, <1>2, <2>2, <3>1 DEF Contract!Settle, Contract!Open
    <3> QED
      BY <3>2 DEF Contract!Next, Contract!Results
  <2>4. CASE ~ Holds(w, o)
    BY <1>2, <2>1, <2>2, <2>4, RowOutcome DEF Contract!contract
  <2> QED
    BY <2>3, <2>4
<1> QED
  BY <1>3, <1>4

\* Steps of a worker.
LEMMA WorkerStep ==
  ASSUME QueueInv, NEW w \in Workers,
         \/ \E o \in Ops : Claim(w, o) \/ ReleaseLease(w, o)
         \/ IdlePoll(w) \/ Execute(w) \/ StopSignal(w) \/ Progress(w) \/ StoreFault(w)
  PROVE  Contract!Next \/ UNCHANGED Contract!contract
<1> USE ConstantsAssumption
<1>1. ASSUME UNCHANGED <<rowVars, process, expired, job>>,
             \A v \in Workers : Engaged(v)' <=> Engaged(v)
      PROVE  UNCHANGED Contract!contract
  BY <1>1 DEF Contract!contract, Executing, Entered, Outcome, rowVars
<1>2. ASSUME NEW o \in Ops, Claim(w, o) PROVE Contract!Next
  BY <1>2, ClaimBegins DEF Contract!Next
<1>3. CASE IdlePoll(w) \/ Dispatch(w) \/ DatabaseReturn(w) \/ DeployReturn(w) \/ StopSignal(w)
  <2>1. UNCHANGED <<rowVars, process, expired, job>>
    BY <1>3 DEF IdlePoll, Dispatch, DatabaseReturn, DeployReturn, Return, StopSignal,
                vars, processVars, workerVars
  <2>2. \A v \in Workers : Engaged(v)' <=> Engaged(v)
    BY <1>3 DEF IdlePoll, Dispatch, DatabaseReturn, DeployReturn, Return, StopSignal,
                vars, workerVars, Engaged, QueueInv, TypeOK
  <2> QED
    BY <1>1, <2>1, <2>2
<1>4. CASE ReadyRefuses(w) \/ ReadyRetries(w) \/ Complete(w)
  <2>1. /\ pc[w] # "idle" /\ BecomeIdle(w) /\ UNCHANGED processVars
        /\ \/ UNCHANGED rowVars
           \/ \E s \in Terminal : CompleteOperation(w, job[w], s)
           \/ job[w] \notin Deploys /\ \E at : DeferOperation(w, job[w], at)
    BY <1>4 DEF ReadyRefuses, ReadyRetries, Complete, QueueInv, TypeOK, Terminal
  <2> QED
    BY <2>1, WorkerFinishes
<1>5. ASSUME NEW s \in {"success", "failed"}, Report(w, s)
      PROVE  Contract!Next \/ UNCHANGED Contract!contract
  BY <1>5, HandlerWrite, TailLeaves DEF Report
<1>6. CASE Progress(w)
  <2>1. Executing' = Executing
    BY <1>6 DEF Progress, workerVars, Executing, Engaged
  <2> QED
    BY <1>6, <2>1, HandlerWrite DEF Progress, workerVars
<1>7. ASSUME pc[w] = "handle", job[w] \notin Deploys, pc' = [pc EXCEPT ![w] = "tail"],
             UNCHANGED <<rowVars, process, expired, job>>
      PROVE  Contract!Next
  <2>1. job[w] \in Ops /\ process # "down"
    BY <1>7 DEF QueueInv, TypeOK, ScopeInv, Quiet
  <2>2. Contract!Leave(job[w])
    BY <1>7, <2>1, TailLeaves DEF Contract!Leave, Entered, Outcome, rowVars
  <2> QED
    BY <2>1, <2>2 DEF Contract!Next
<1>8. CASE Abandon(w)
  BY <1>7, <1>8 DEF Abandon, processVars
<1>9. CASE StoreFault(w)
  <2>1. CASE pc[w] \in {"ready", "complete"} /\ BecomeIdle(w) /\ UNCHANGED releasing
    BY <1>9, <2>1, WorkerFinishes DEF StoreFault, processVars
  <2>2. CASE /\ pc[w] = "handle" /\ job[w] \notin Deploys
             /\ pc' = [pc EXCEPT ![w] = "tail"] /\ job' = job
    BY <1>7, <1>9, <2>2 DEF StoreFault
  <2>3. CASE UNCHANGED <<pc, job>>
    BY <1>1, <1>9, <2>3 DEF StoreFault, Engaged
  <2> QED
    BY <1>9, <2>1, <2>2, <2>3 DEF StoreFault, workerVars
<1> QED
  BY <1>2, <1>3, <1>4, <1>5, <1>6, <1>8, <1>9, ReleaseSettles DEF Execute, HandlerEnds

\* The rows, leases, attempts, recovery and drain implement the contract of
\* the queue: exclusive execution per lock key, final outcomes, deploys begun
\* once and answered by the next start.
THEOREM QueueImplementsContract == Spec => ImplementsContract
<1>1. QueueInv /\ [Next]_vars => [Contract!Next]_(Contract!contract)
  <2> SUFFICES ASSUME QueueInv, [Next]_vars
               PROVE  Contract!Next \/ UNCHANGED Contract!contract
    OBVIOUS
  <2>1. CASE UNCHANGED vars
    BY <2>1 DEF vars, rowVars, workerVars, processVars, Contract!contract,
                Executing, Entered, Outcome, Engaged
  <2>2. CASE Next
    BY <2>2, ClientStep, WorkerStep DEF Next
  <2> QED
    BY <2>1, <2>2
<1> QED
  BY <1>1, InitContract, QueueInvariant, PTL DEF Spec, ImplementsContract, Contract!Spec

=============================================================================
