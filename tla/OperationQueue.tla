--------------------------- MODULE OperationQueue ---------------------------
(***************************************************************************)
(* The durable operations queue of HostForge and the two worker runtimes   *)
(* that drain it: internal/repository/operations.go (the rows),            *)
(* internal/workers (claim, execute, holdLease, Start, Wait) and the parts *)
(* of the database and deploy handlers that decide what the queue sees.    *)
(*                                                                         *)
(* Every store call is one transaction on a pool of one SQLite connection  *)
(* (internal/database/sqlite.go), so every store call is one atomic        *)
(* action; everything between two store calls interleaves.                 *)
(*                                                                         *)
(* Left out: progress text, error text and timestamps that nothing reads   *)
(* (lease_expires_at is written by every claim and renewal and read by no  *)
(* query of the running system).                                           *)
(***************************************************************************)
EXTENDS Naturals

CONSTANTS
  Ops,                \* operation ids the environment may enqueue
  Deploys,            \* those of kind "deploy"; the others are database operations
  Restores,           \* database restores, the only operations Ready may postpone
  LockOf,             \* lock_key of each operation
  ServiceOf,          \* service_id of each operation
  Priority,           \* priority of each operation: a manual deploy goes before a pushed one
  Workers,            \* worker goroutines of both runtimes
  DeployWorkers,      \* those of the deploy runtime
  DefaultMaxAttempts, \* defaultOperationMaxAttempts (5 in the code)
  None,               \* no operation, no worker, no outcome
  MaxBoots,           \* bound: process ends (crash or exit) explored
  MaxFaults,          \* bound: store writes that fail
  MaxClock            \* bound: distinct created_at seconds

ASSUME ConstantsAssumption ==
  /\ Deploys \subseteq Ops
  /\ Restores \subseteq Ops \ Deploys
  /\ DeployWorkers \subseteq Workers
  /\ Priority \in [Ops -> Nat]
  /\ DefaultMaxAttempts \in Nat \ {0}
  /\ None \notin Ops \cup Workers \cup {"success", "failed", "cancelled"}
  /\ MaxBoots \in Nat /\ MaxFaults \in Nat /\ MaxClock \in Nat

VARIABLES
  status,          \* operations.status, "absent" before the row exists
  attempt,         \* operations.attempt
  available,       \* available_at: "now" (''), "later" or "due" (a past stamp)
  owner,           \* lease_owner
  cancelRequested, \* cancel_requested_at is set
  created,         \* created_at, in seconds
  pc,              \* where each worker is in Runtime.execute
  job,             \* the operation each worker has claimed
  ctxDone,         \* the operation context of each worker is cancelled
  outcome,         \* what Handle returned
  process,         \* "down", "up", or "draining" after the signal
  expired,         \* runtimes whose Wait reached the drain deadline
  releasing,       \* snapshot of held leases releaseHeldLeases is still writing back
  clock, boots, faults,
  starts           \* history: times the handler of each operation was dispatched

rowVars     == <<status, attempt, available, owner, cancelRequested, created>>
workerVars  == <<pc, job, ctxDone, outcome>>
processVars == <<process, expired, releasing, boots>>
vars == <<rowVars, workerVars, processVars, clock, faults, starts>>

Terminal == {"success", "failed", "cancelled"}
Runtimes == {"deploy", "database"}

MaxAttempts(o) == IF o \in Deploys THEN 1 ELSE DefaultMaxAttempts
Serves(w, o)   == (w \in DeployWorkers) <=> (o \in Deploys)
RuntimeOf(w)   == IF w \in DeployWorkers THEN "deploy" ELSE "database"

\* The row a lease-checked UPDATE (status='running' AND lease_owner=?) matches.
Holds(w, o) == status[o] = "running" /\ owner[o] = w

\* The row a cancellation may end at once.
Cancellable(o) == status[o] = "queued"

TypeOK ==
  /\ status \in [Ops -> {"absent", "queued", "running"} \cup Terminal]
  /\ attempt \in [Ops -> Nat]
  /\ \A o \in Ops : attempt[o] <= MaxAttempts(o)
  /\ available \in [Ops -> {"now", "later", "due"}]
  /\ owner \in [Ops -> Workers \cup {None}]
  /\ cancelRequested \in [Ops -> BOOLEAN]
  /\ created \in [Ops -> Nat]
  /\ pc \in [Workers -> {"idle", "ready", "handle", "tail", "complete"}]
  /\ job \in [Workers -> Ops \cup {None}]
  /\ \A w \in Workers : pc[w] = "idle" <=> job[w] = None
  /\ ctxDone \in [Workers -> BOOLEAN]
  /\ outcome \in [Workers -> Terminal \cup {None}]
  /\ \A w \in Workers : pc[w] = "complete" => outcome[w] \in Terminal
  /\ process \in {"down", "up", "draining"}
  /\ expired \subseteq Runtimes
  /\ releasing \subseteq Ops \X Workers
  /\ clock \in Nat /\ boots \in Nat /\ faults \in Nat
  /\ starts \in [Ops -> Nat]

Init ==
  /\ status = [o \in Ops |-> "absent"]
  /\ attempt = [o \in Ops |-> 0]
  /\ available = [o \in Ops |-> "now"]
  /\ owner = [o \in Ops |-> None]
  /\ cancelRequested = [o \in Ops |-> FALSE]
  /\ created = [o \in Ops |-> 0]
  /\ pc = [w \in Workers |-> "idle"]
  /\ job = [w \in Workers |-> None]
  /\ ctxDone = [w \in Workers |-> FALSE]
  /\ outcome = [w \in Workers |-> None]
  /\ process = "down"
  /\ expired = {}
  /\ releasing = {}
  /\ clock = 0 /\ boots = 0 /\ faults = 0
  /\ starts = [o \in Ops |-> 0]

-----------------------------------------------------------------------------
(* Row updates: the body of a store transaction, as a relation on rowVars. *)

\* CompleteOperation: no row matches unless w still holds the operation.
CompleteOperation(w, o, s) ==
  IF Holds(w, o)
  THEN /\ status' = [status EXCEPT ![o] = s]
       /\ owner' = [owner EXCEPT ![o] = None]
       /\ UNCHANGED <<attempt, available, cancelRequested, created>>
  ELSE UNCHANGED rowVars

\* DeferOperation: back to the queue, the attempt of the claim given back.
DeferOperation(w, o, at) ==
  IF Holds(w, o)
  THEN /\ status' = [status EXCEPT ![o] = "queued"]
       /\ attempt' = [attempt EXCEPT ![o] = IF @ = 0 THEN 0 ELSE @ - 1]
       /\ available' = [available EXCEPT ![o] = at]
       /\ owner' = [owner EXCEPT ![o] = None]
       /\ UNCHANGED <<cancelRequested, created>>
  ELSE UNCHANGED rowVars

-----------------------------------------------------------------------------
(* Enqueueing, cancelling, deleting: what API requests and loops do.       *)

Serving == process # "down"

Tick ==
  /\ clock < MaxClock
  /\ clock' = clock + 1
  /\ UNCHANGED <<rowVars, workerVars, processVars, faults, starts>>

Enqueue(o) ==
  /\ Serving
  /\ status[o] = "absent"
  /\ status' = [status EXCEPT ![o] = "queued"]
  /\ created' = [created EXCEPT ![o] = clock]
  /\ UNCHANGED <<attempt, available, owner, cancelRequested, workerVars,
                 processVars, clock, faults, starts>>

\* RequestOperationCancellation; the deployment cancel endpoint is its caller.
RequestCancel(o) ==
  /\ Serving
  /\ o \in Deploys
  /\ \/ /\ status[o] = "running" /\ ~cancelRequested[o]
        /\ UNCHANGED status
     \/ /\ Cancellable(o)
        /\ status' = [status EXCEPT ![o] = "cancelled"]
  /\ cancelRequested' = [cancelRequested EXCEPT ![o] = TRUE]
  /\ UNCHANGED <<attempt, available, owner, created, workerVars, processVars,
                 clock, faults, starts>>

\* BeginDatabaseServiceDeletion: refuse and ask running work to stop, or
\* cancel what is queued.
BeginServiceDeletion(s) ==
  LET mine    == {o \in Ops \ Deploys : ServiceOf[o] = s}
      running == {o \in mine : status[o] = "running"}
      stopped == {o \in mine : Cancellable(o)}
  IN /\ Serving
     /\ \/ /\ running # {}
           /\ cancelRequested' = [o \in Ops |-> IF o \in running THEN TRUE ELSE cancelRequested[o]]
           /\ UNCHANGED <<status, owner>>
        \/ /\ running = {}
           /\ status' = [o \in Ops |-> IF o \in stopped THEN "cancelled" ELSE status[o]]
           /\ owner' = [o \in Ops |-> IF o \in stopped THEN None ELSE owner[o]]
           /\ UNCHANGED cancelRequested
     /\ UNCHANGED <<attempt, available, created, workerVars, processVars,
                    clock, faults, starts>>

\* The available_at of a deferred row passes.
BecomeDue(o) ==
  /\ available[o] = "later"
  /\ available' = [available EXCEPT ![o] = "due"]
  /\ UNCHANGED <<status, attempt, owner, cancelRequested, created, workerVars,
                 processVars, clock, faults, starts>>

-----------------------------------------------------------------------------
(* A worker: run, execute, holdLease.                                      *)

\* Mutants of LockFree: the clause is missing; it also waits for queued work.
LockIgnored(o) == TRUE
LockFreeOfOthers(o) ==
  \A r \in Ops \ {o} : LockOf[r] = LockOf[o] => status[r] \notin {"running", "queued"}

\* NOT EXISTS(... running.lock_key=o.lock_key AND running.status='running').
LockFree(o) == \A r \in Ops : LockOf[r] = LockOf[o] => status[r] # "running"

\* The WHERE clause of the claim query.
Claimable(w, o) ==
  /\ Serves(w, o)
  /\ status[o] = "queued"
  /\ available[o] # "later"
  /\ attempt[o] < MaxAttempts(o)
  /\ LockFree(o)

\* ORDER BY priority DESC,created_at,id: ids are random, so a tie may go either way.
Precedes(o, p) ==
  Priority[o] > Priority[p] \/ (Priority[o] = Priority[p] /\ created[o] <= created[p])

\* stopCtx is live only while the process is "up".
MayClaim == process = "up"

\* ClaimNextOperation.
Claim(w, o) ==
  /\ MayClaim
  /\ pc[w] = "idle"
  /\ Claimable(w, o)
  /\ \A p \in Ops : Claimable(w, p) => Precedes(o, p)
  /\ status' = [status EXCEPT ![o] = "running"]
  /\ owner' = [owner EXCEPT ![o] = w]
  /\ attempt' = [attempt EXCEPT ![o] = @ + 1]
  /\ pc' = [pc EXCEPT ![w] = "ready"]
  /\ job' = [job EXCEPT ![w] = o]
  /\ UNCHANGED <<available, cancelRequested, created, ctxDone, outcome,
                 processVars, clock, faults, starts>>

\* ClaimNextOperation finds nothing: the worker waits for its next poll.
IdlePoll(w) ==
  /\ MayClaim
  /\ pc[w] = "idle"
  /\ ~ \E o \in Ops : Claimable(w, o)
  /\ UNCHANGED vars

\* execute returns.
BecomeIdle(w) ==
  /\ pc' = [pc EXCEPT ![w] = "idle"]
  /\ job' = [job EXCEPT ![w] = None]
  /\ ctxDone' = [ctxDone EXCEPT ![w] = FALSE]
  /\ outcome' = [outcome EXCEPT ![w] = None]

\* Ready says the operation is obsolete (cancelled) or fails (failed).
ReadyRefuses(w) ==
  /\ pc[w] = "ready"
  /\ \E s \in {"cancelled", "failed"} : CompleteOperation(w, job[w], s)
  /\ BecomeIdle(w)
  /\ UNCHANGED <<processVars, clock, faults, starts>>

\* Ready asks for a retry: only a restore whose target is not ready does.  The
\* deferral is written under stopCtx, so while draining it fails and the row
\* stays running until the next boot.
ReadyRetries(w) ==
  /\ pc[w] = "ready"
  /\ job[w] \in Restores
  /\ IF process = "up" THEN DeferOperation(w, job[w], "later") ELSE UNCHANGED rowVars
  /\ BecomeIdle(w)
  /\ UNCHANGED <<processVars, clock, faults, starts>>

\* Ready allows it: trackLease, start holdLease, call Handle.
Dispatch(w) ==
  /\ pc[w] = "ready"
  /\ pc' = [pc EXCEPT ![w] = "handle"]
  /\ starts' = [starts EXCEPT ![job[w]] = @ + 1]
  /\ UNCHANGED <<rowVars, job, ctxDone, outcome, processVars, clock, faults>>

\* holdLease cancels the operation context: cancellation was requested, or
\* the renewal finds the row no longer held by this worker.
StopSignal(w) ==
  /\ pc[w] \in {"handle", "tail"}
  /\ ~ctxDone[w]
  /\ (status[job[w]] = "running" /\ cancelRequested[job[w]]) \/ ~Holds(w, job[w])
  /\ ctxDone' = [ctxDone EXCEPT ![w] = TRUE]
  /\ UNCHANGED <<rowVars, pc, job, outcome, processVars, clock, faults, starts>>

\* A database handler reports progress: UpdateDatabaseOperation(.., "running"),
\* whose UPDATE checks neither the status nor the owner of the row.
Progress(w) ==
  /\ pc[w] = "handle" /\ job[w] \notin Deploys /\ ~ctxDone[w]
  /\ status' = [status EXCEPT ![job[w]] = "running"]
  /\ UNCHANGED <<attempt, available, owner, cancelRequested, created,
                 workerVars, processVars, clock, faults, starts>>

\* A database handler records its own terminal status, again unguarded; the
\* deferred work of the handler (restartDatabaseConsumers, the instance write
\* of fail) is still ahead of it.
Report(w, s) ==
  /\ pc[w] = "handle" /\ job[w] \notin Deploys /\ ~ctxDone[w]
  /\ status' = [status EXCEPT ![job[w]] = s]
  /\ owner' = [owner EXCEPT ![job[w]] = None]
  /\ pc' = [pc EXCEPT ![w] = "tail"]
  /\ UNCHANGED <<attempt, available, cancelRequested, created, job, ctxDone,
                 outcome, processVars, clock, faults, starts>>

\* The database handler is through without recording a status: its context
\* was cancelled, so its writes fail.
Abandon(w) ==
  /\ pc[w] = "handle" /\ job[w] \notin Deploys /\ ctxDone[w]
  /\ pc' = [pc EXCEPT ![w] = "tail"]
  /\ UNCHANGED <<rowVars, job, ctxDone, outcome, processVars, clock, faults, starts>>

Return(w, s) ==
  /\ pc' = [pc EXCEPT ![w] = "complete"]
  /\ outcome' = [outcome EXCEPT ![w] = s]
  /\ UNCHANGED <<rowVars, job, ctxDone, processVars, clock, faults, starts>>

\* databaseOperationHandler.Handle re-reads the row and answers accordingly.
DatabaseReturn(w) ==
  LET s == status[job[w]]
  IN /\ pc[w] = "tail"
     /\ Return(w, IF s \in {"success", "cancelled"} THEN "success"
                  ELSE IF s # "failed" /\ ctxDone[w] THEN "cancelled"
                  ELSE "failed")

\* deployOperationHandler.Handle answers for the deployment it ran.
DeployReturn(w) ==
  /\ pc[w] = "handle" /\ job[w] \in Deploys
  /\ \E s \in {"success", "failed"} \cup (IF ctxDone[w] THEN {"cancelled"} ELSE {}) :
       Return(w, s)

\* Runtime.complete, then releaseLease.
Complete(w) ==
  /\ pc[w] = "complete"
  /\ CompleteOperation(w, job[w], outcome[w])
  /\ BecomeIdle(w)
  /\ UNCHANGED <<processVars, clock, faults, starts>>

\* A store write made for w fails: every caller logs the error or drops it
\* and goes on (complete, DeferOperation in execute, the progress writes of a
\* handler, releaseHeldLeases); a failed renewal counts as a lost lease.
StoreFault(w) ==
  /\ faults < MaxFaults
  /\ faults' = faults + 1
  /\ \/ /\ pc[w] \in {"ready", "complete"}
        /\ BecomeIdle(w)
        /\ UNCHANGED releasing
     \/ /\ pc[w] = "handle" /\ job[w] \notin Deploys
        /\ pc' = [pc EXCEPT ![w] = "tail"]
        /\ UNCHANGED <<job, ctxDone, outcome, releasing>>
     \/ /\ pc[w] = "handle" /\ ~ctxDone[w]
        /\ ctxDone' = [ctxDone EXCEPT ![w] = TRUE]
        /\ UNCHANGED <<pc, job, outcome, releasing>>
     \/ /\ \E o \in Ops : /\ <<o, w>> \in releasing
                         /\ releasing' = releasing \ {<<o, w>>}
        /\ UNCHANGED workerVars
  /\ UNCHANGED <<rowVars, process, expired, boots, clock, starts>>

-----------------------------------------------------------------------------
(* The process: shutdown, crash, start.                                    *)

\* SIGTERM: stopCtx is cancelled, workers stop claiming.
Shutdown ==
  /\ process = "up" /\ boots < MaxBoots
  /\ process' = "draining"
  /\ UNCHANGED <<rowVars, workerVars, expired, releasing, boots, clock, faults, starts>>

Held(r) == {<<job[w], w>> : w \in {v \in Workers : RuntimeOf(v) = r
                                    /\ pc[v] \in {"handle", "tail", "complete"}}}

\* Wait reaches the drain deadline and snapshots the leases it tracks; the
\* deploy runtime is waited for first.
WaitTimeout(r) ==
  /\ process = "draining"
  /\ r \notin expired
  /\ releasing = {}
  /\ \E w \in Workers : RuntimeOf(w) = r /\ pc[w] # "idle"
  /\ r = "database" => \/ "deploy" \in expired
                       \/ \A w \in DeployWorkers : pc[w] = "idle"
  /\ expired' = expired \cup {r}
  /\ releasing' = Held(r)
  /\ UNCHANGED <<rowVars, workerVars, process, boots, clock, faults, starts>>

\* Mutant of Resumable: every interrupted operation is deferred.
ResumableAlways(o) == TRUE

\* heldLease.maxAttempts > 1.
Resumable(o) == MaxAttempts(o) > 1

\* releaseHeldLeases, one operation of the snapshot: a non-resumable one is
\* failed as interrupted, any other is deferred with no delay.
ReleaseLease(w, o) ==
  /\ <<o, w>> \in releasing
  /\ releasing' = releasing \ {<<o, w>>}
  /\ IF Resumable(o) THEN DeferOperation(w, o, "due")
                     ELSE CompleteOperation(w, o, "failed")
  /\ UNCHANGED <<workerVars, process, expired, boots, clock, faults, starts>>

\* Everything in memory is gone; only the rows survive.
ProcessEnds ==
  /\ boots < MaxBoots
  /\ boots' = boots + 1
  /\ process' = "down"
  /\ expired' = {} /\ releasing' = {}
  /\ pc' = [w \in Workers |-> "idle"]
  /\ job' = [w \in Workers |-> None]
  /\ ctxDone' = [w \in Workers |-> FALSE]
  /\ outcome' = [w \in Workers |-> None]
  /\ UNCHANGED <<rowVars, clock, faults, starts>>

Exit ==
  /\ process = "draining"
  /\ releasing = {}
  /\ \A w \in Workers : pc[w] = "idle" \/ RuntimeOf(w) \in expired
  /\ ProcessEnds

Crash == process # "down" /\ ProcessEnds

\* Mutant of Interrupted: a row some worker still owns is left alone.
InterruptedUnowned(o) == status[o] = "running" /\ owner[o] = None

\* Mutant of Exhausted: off by one.
ExhaustedAfterMax(o) == attempt[o] > MaxAttempts(o)

\* What RecoverOperations finds at boot: whatever still says running was
\* interrupted, and it fails instead of being requeued when no attempt is left.
Interrupted(o) == status[o] = "running"
Exhausted(o)   == attempt[o] >= MaxAttempts(o)

\* Start: RecoverOperations in one transaction, before any worker exists.
Boot ==
  LET interrupted == {o \in Ops : Interrupted(o)}
      exhausted   == {o \in interrupted : Exhausted(o)}
      requeued    == interrupted \ exhausted
  IN /\ process = "down"
     /\ process' = "up"
     /\ status' = [o \in Ops |-> IF o \in exhausted THEN "failed"
                                 ELSE IF o \in requeued THEN "queued" ELSE status[o]]
     /\ available' = [o \in Ops |-> IF o \in requeued THEN "now" ELSE available[o]]
     /\ owner' = [o \in Ops |-> IF o \in interrupted THEN None ELSE owner[o]]
     /\ UNCHANGED <<attempt, cancelRequested, created, workerVars, expired,
                    releasing, boots, clock, faults, starts>>

-----------------------------------------------------------------------------
HandlerEnds(w) ==
  \/ \E s \in {"success", "failed"} : Report(w, s)
  \/ Abandon(w) \/ DatabaseReturn(w) \/ DeployReturn(w)

Execute(w) ==
  \/ ReadyRefuses(w) \/ ReadyRetries(w) \/ Dispatch(w)
  \/ HandlerEnds(w) \/ Complete(w)

Next ==
  \/ Tick
  \/ \E o \in Ops : Enqueue(o) \/ RequestCancel(o) \/ BecomeDue(o)
  \/ \E s \in {ServiceOf[o] : o \in Ops \ Deploys} : BeginServiceDeletion(s)
  \/ \E w \in Workers :
       \/ \E o \in Ops : Claim(w, o) \/ ReleaseLease(w, o)
       \/ IdlePoll(w) \/ Execute(w) \/ StopSignal(w) \/ Progress(w) \/ StoreFault(w)
  \/ \E r \in Runtimes : WaitTimeout(r)
  \/ Shutdown \/ Exit \/ Crash \/ Boot

Spec == Init /\ [][Next]_vars

(***************************************************************************)
(* Fairness.  Goroutines are scheduled, so a worker's own next step is     *)
(* taken; handlers are assumed to return (their Docker and network calls   *)
(* carry timeouts).  The claim of an operation is strongly fair because a  *)
(* deferred restore stays unavailable for five seconds while an idle       *)
(* worker claims at once, so it cannot always be first again.  systemd     *)
(* restarts the process; nothing makes it crash.                           *)
(***************************************************************************)
Fairness ==
  /\ \A w \in Workers : WF_vars(Execute(w)) /\ WF_vars(StopSignal(w))
  /\ \A o \in Ops : /\ SF_vars(\E w \in Workers : Claim(w, o))
                    /\ WF_vars(\E w \in Workers : ReleaseLease(w, o))
                    /\ WF_vars(BecomeDue(o))
  /\ \A r \in Runtimes : WF_vars(WaitTimeout(r))
  /\ WF_vars(Exit) /\ WF_vars(Boot)

FairSpec == Spec /\ Fairness

-----------------------------------------------------------------------------
(* Properties.                                                             *)

\* Two operations with one lock key are never both running: the claim checks
\* it once, and cancellation, recovery, deferral, drain and the unguarded
\* progress writes of the database handlers must all keep it
\* (operations.go:238-241).
OneRunningPerLockKey ==
  \A o, p \in Ops :
    o # p /\ LockOf[o] = LockOf[p] => ~(status[o] = "running" /\ status[p] = "running")

\* Two deploys with one lock key are never executed at once, even while a
\* timed-out drain has already failed the row of a handler that still runs.
OneDeployPerLockKey ==
  \A v, w \in Workers :
    /\ v # w
    /\ job[v] \in Deploys /\ job[w] \in Deploys
    => LockOf[job[v]] # LockOf[job[w]]

\* A queued operation can be claimed: no sequence of claims, deferrals,
\* recoveries and shutdowns leaves one queued with its attempts used up,
\* where the claim query would skip it forever (operations.go:600-601).
QueuedIsClaimable == \A o \in Ops : status[o] = "queued" => attempt[o] < MaxAttempts(o)

\* A deploy is not resumable: across crashes, recoveries and drains its
\* handler is dispatched at most once (runtime.go:183-189).
DeployStartsOnce == \A o \in Deploys : starts[o] <= 1

\* A terminal operation is never reopened or relabelled, whatever order the
\* handler's own report, the runtime's completion, a cancellation, a drain
\* and a recovery come in.  The one exception the code leaves is a database
\* handler still writing progress after its drain deadline has passed.
TerminalIsFinal ==
  [][\A o \in Ops : status[o] \in Terminal /\ (o \in Deploys \/ "database" \notin expired)
       => status'[o] = status[o]]_vars

\* A worker has begun its operation and not reported on it yet; a deploy is
\* reported on by the completion of its worker alone.
Engaged(w) == pc[w] # "idle" /\ (pc[w] \in {"ready", "handle"} \/ job[w] \in Deploys)

\* What a client of the queue sees of it.
Executing == {job[w] : w \in {v \in Workers : Engaged(v)}}
Entered   == {o \in Deploys : attempt[o] > 0}
Outcome   == [o \in Ops |-> IF status[o] \in Terminal THEN status[o] ELSE None]

Contract == INSTANCE QueueContract WITH
  Once <- Deploys, serving <- process # "down", overrun <- expired # {},
  executing <- Executing, entered <- Entered, outcome <- Outcome

\* The rows, leases, attempts, recovery and drain together keep the promise of
\* QueueContract: operations with one lock key are executed one at a time, an
\* outcome is final, and a deploy interrupted by the end of the process is
\* failed before anything new is claimed and never begun again
\* (operations.go:238-245, 579-610; runtime.go:153-190).
ImplementsContract == Contract!Spec

\* Every operation that is enqueued ends, across crashes and drains, unless
\* it is a restore whose target never becomes ready.
EveryOperationEnds ==
  \A o \in Ops \ Restores : status[o] = "queued" ~> status[o] \in Terminal
=============================================================================
