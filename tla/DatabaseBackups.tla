--------------------------- MODULE DatabaseBackups ---------------------------
(***************************************************************************)
(* Backups of one managed database: destinations, the policy and its       *)
(* scheduler, the backup and restore operations the workers run, retention *)
(* and deletion (internal/repository/database_backups.go, services/        *)
(* database_provision.go, database_backup_schedule.go, database_operations_*)
(* handler.go, cmd/server/api_database_backups.go, internal/backups/s3.go).*)
(*                                                                         *)
(* A restore goes into the database itself, after a safety backup, or into *)
(* a copy made for it.  Every store call is one transaction, every call to *)
(* S3 or Docker a step of its own, and the operator, the scheduler, the    *)
(* retention loop and the workers interleave between them.                 *)
(*                                                                         *)
(* Left out: encryption and compression of the stream (a failed call),     *)
(* cron arithmetic (the clock makes a policy due), the hourly transfer     *)
(* count (a request may be refused), destination probes and their result,  *)
(* the stop and start of the engine itself for an offline restore, and     *)
(* what the applications write: contents are whole or half overwritten.    *)
(***************************************************************************)
EXTENDS Environment, Sequences, FiniteSets, SequencesExt

CONSTANTS
  Backups,       \* ids of database_backups rows and of the operations that make them
  Restores,      \* ids of database_restore_jobs rows, which are their operations
  Destinations,  \* ids of backup_destinations rows
  Concurrency,   \* cfg.DatabaseOperationConcurrency
  MaxAttempts,   \* max_attempts of an operation
  MaxTicks       \* bound: times the policy becomes due or a backup expires

ASSUME BackupsAssumption ==
  /\ Backups \cap Restores = {} /\ None \notin Backups \cup Restores \cup Destinations
  /\ Concurrency \in Nat \ {0} /\ MaxAttempts \in Nat \ {0} /\ MaxTicks \in Nat

VARIABLES
  destination,  \* of each destination: its row, and the bucket it names
  policy,       \* the policy of the database: its destination and whether it is enabled
  due,          \* its next_scheduled_at has passed
  ticks,        \* times it became due or a backup expired
  backup,       \* the database_backups rows
  job,          \* the database_restore_jobs rows
  stored,       \* objects in S3: destination, bucket and backup
  line,         \* every operation queued so far, in the order of created_at and id
  settled,      \* how many of these were created in an earlier second than the last one
  unread,       \* history: backups completed by a call that then could not read the row back
  operation,    \* status, attempts and deferral of each operation
  at,           \* where the worker of each running operation is
  held,         \* what it holds: the destination and bucket it opened, the consumers it stopped
  contents,     \* what the database holds
  consumers,    \* the bound applications: "running" or "stopped"
  database,     \* status of the instance: "healthy", "unhealthy" or "deleted"
  copy,         \* status of the new-service target
  scheduler,    \* where the schedule loop is
  remover,      \* where the operator's deletion and the retention loop are
  dropping,     \* the destination whose deletion has been checked
  restorer      \* the restore request under way

policyVars   == <<policy, due, ticks>>
rowVars      == <<backup, job>>
workVars     == <<operation, at, held>>
engineVars   == <<contents, consumers, database, copy>>
requestVars  == <<dropping, restorer>>
lineVars     == <<line, settled>>
backupsVars  == <<destination, policyVars, rowVars, stored, lineVars, unread, workVars, engineVars,
                  scheduler, remover, requestVars, environment>>

Operations == Backups \cup Restores
Removers   == {"operator", "retention"}
NoBackup   == [status |-> "absent", trigger |-> None, destination |-> None, keyed |-> FALSE,
               expired |-> FALSE, content |-> None]
NoJob      == [status |-> "absent", source |-> None, safety |-> None, mode |-> None]
AtRest     == [left |-> {}, backup |-> None, step |-> "idle"]
NoRequest  == [source |-> None, safety |-> None, mode |-> None, step |-> "idle"]

BackupsInit ==
  /\ destination = [d \in Destinations |-> [row |-> "none", bucket |-> 1]]
  /\ policy = [destination |-> None, enabled |-> FALSE] /\ due = FALSE /\ ticks = 0
  /\ backup = [b \in Backups |-> NoBackup] /\ job = [r \in Restores |-> NoJob]
  /\ stored = {} /\ line = <<>> /\ settled = 0 /\ unread = {}
  /\ operation = [o \in Operations |-> [status |-> "absent", attempt |-> 0, deferred |-> FALSE, verdict |-> None]]
  /\ at = [o \in Operations |-> "idle"] /\ held = [o \in Operations |-> None]
  /\ contents = "whole" /\ consumers = "running" /\ database = "healthy" /\ copy = "absent"
  /\ scheduler = "idle" /\ remover = [x \in Removers |-> AtRest]
  /\ dropping = None /\ restorer = NoRequest
  /\ EnvironmentInit

-----------------------------------------------------------------------------
(* Destinations and the policy.                                            *)

Retained == {"queued", "running", "success", "deleting"}

RetainedOn(d) == {b \in Backups : backup[b].destination = d /\ backup[b].status \in Retained}

destinationRest == <<policyVars, rowVars, stored, lineVars, unread, workVars, engineVars, scheduler,
                     remover, requestVars>>

InsertDestination(d) == destination' = [destination EXCEPT ![d].row = "present"]

\* Bound: one other bucket.
MoveDestination(d) == destination' = [destination EXCEPT ![d].bucket = 2]

\* The handlers probe the bucket that is asked for before they write the row:
\* POST makes it; PATCH changes it in place, whatever is retained in the old one.
CreateBackupDestination(d) ==
  /\ destination[d].row = "none"
  /\ InsertDestination(d) /\ Request
  /\ UNCHANGED destinationRest

UpdateBackupDestination(d) ==
  /\ destination[d].row = "present" /\ destination[d].bucket = 1
  /\ MoveDestination(d) /\ Request
  /\ UNCHANGED destinationRest

\* DeleteBackupDestination counts, then deletes in a statement of its own.
CountRetained(d) ==
  /\ dropping = None /\ destination[d].row = "present" /\ RetainedOn(d) = {}
  /\ dropping' = d
  /\ Request
  /\ UNCHANGED <<destination, policyVars, rowVars, stored, lineVars, unread, workVars, engineVars,
                 scheduler, remover, restorer>>

\* A policy holds its destination; a backup row loses it.
DeleteBackupDestination ==
  /\ dropping # None
  /\ IF policy.destination = dropping THEN UNCHANGED <<destination, backup>>
     ELSE /\ destination' = [destination EXCEPT ![dropping].row = "deleted"]
          /\ backup' = [b \in Backups |-> IF backup[b].destination = dropping
                                          THEN [backup[b] EXCEPT !.destination = None] ELSE backup[b]]
  /\ dropping' = None
  /\ NoFault
  /\ UNCHANGED <<policyVars, job, stored, lineVars, unread, workVars, engineVars, scheduler, remover,
                 restorer>>

UpsertDatabaseBackupPolicy(d, enabled) ==
  /\ database # "deleted" /\ destination[d].row = "present"
  /\ policy' = [destination |-> d, enabled |-> enabled]

\* The handler computes the next time of the new schedule.
SaveBackupPolicy(d, enabled) ==
  /\ UpsertDatabaseBackupPolicy(d, enabled) /\ due' = FALSE /\ Request
  /\ UNCHANGED <<destination, ticks, rowVars, stored, lineVars, unread, workVars, engineVars, scheduler,
                 remover, requestVars>>

-----------------------------------------------------------------------------
(* Queueing: the operation, its queue row and its companion row are one    *)
(* transaction.                                                            *)

Unused(ids) == ids \ ToSet(line)

\* created_at is kept in whole seconds, and ids are random: an operation comes
\* after those of earlier seconds and anywhere among those of its own.  Where it
\* stands among operations that have ended says nothing: it comes after them.
Turns(n) ==
  {k \in n + 1 .. Len(line) + 1 :
     k \in DOMAIN line => operation[line[k]].status \in {"queued", "running"}}

\* Its second is that of the last one, or a later one.
Queued(o) ==
  /\ settled' \in {settled, Len(line)}
  /\ \E k \in Turns(settled') : line' = InsertAt(line, k, o)
  /\ operation' = [operation EXCEPT ![o].status = "queued"]

QueueDatabaseBackup(d, trigger) ==
  /\ database = "healthy" /\ d # None /\ destination[d].row = "present"
  /\ Unused(Backups) # {}
  /\ LET b == CHOOSE x \in Unused(Backups) : TRUE
     IN /\ Queued(b)
        /\ backup' = [backup EXCEPT ![b] = [NoBackup EXCEPT !.status = "queued", !.trigger = trigger,
                                                             !.destination = d]]

ManualBackup ==
  /\ QueueDatabaseBackup(policy.destination, "manual")
  /\ Request
  /\ UNCHANGED <<destination, policyVars, job, stored, unread, at, held, engineVars, scheduler, remover,
                 requestVars>>

-----------------------------------------------------------------------------
(* The schedule loop lists what is due, queues, then advances the policy.  *)

BecomeDue ==
  /\ policy.enabled /\ ~due /\ ticks < MaxTicks
  /\ due' = TRUE /\ ticks' = ticks + 1 
  /\ NoFault
  /\ UNCHANGED <<destination, policy, rowVars, stored, lineVars, unread, workVars, engineVars, scheduler,
                 remover, requestVars>>

scheduleRest == <<destination, policy, ticks, job, stored, unread, at, held, engineVars, remover, requestVars>>

\* The policy is read here, its destination with it.
ListDueDatabaseBackupPolicies ==
  /\ scheduler = "idle" /\ policy.enabled /\ due
  /\ scheduler' = policy.destination
  /\ NoFault
  /\ UNCHANGED <<scheduleRest, due, backup, lineVars, operation>>

QueueDueDatabaseBackup ==
  /\ scheduler \in Destinations
  /\ \/ /\ QueueDatabaseBackup(scheduler, "scheduled") /\ NoFault
        /\ scheduler' = "advance"
     \/ /\ NoFault \/ Fault
        /\ scheduler' = "idle"
        /\ UNCHANGED <<backup, lineVars, operation>>
  /\ UNCHANGED <<scheduleRest, due>>

AdvanceDatabaseBackupPolicySchedule ==
  /\ scheduler = "advance" /\ scheduler' = "idle"
  /\ \/ NoFault /\ due' = FALSE
     \/ Fault /\ UNCHANGED due
  /\ UNCHANGED <<scheduleRest, backup, lineVars, operation>>

-----------------------------------------------------------------------------
(* Retention and deletion.                                                 *)

\* expires_at is only read of a row that succeeded.
Expire(b) ==
  /\ backup[b].status \in {"success", "deleting"} /\ ~backup[b].expired /\ ticks < MaxTicks
  /\ backup' = [backup EXCEPT ![b].expired = TRUE] /\ ticks' = ticks + 1
  /\ NoFault
  /\ UNCHANGED <<destination, policy, due, job, stored, lineVars, unread, workVars, engineVars, scheduler,
                 remover, requestVars>>

Referenced(b) == \E r \in Restores : job[r].status # "absent" /\ b \in {job[r].source, job[r].safety}

removeRest == <<destination, policyVars, job, lineVars, unread, workVars, engineVars, scheduler, requestVars>>

MoveTo(x, s)   == remover' = [remover EXCEPT ![x].step = s]
RemoverIdle(x) == remover' = [remover EXCEPT ![x] = [AtRest EXCEPT !.left = remover[x].left]]

\* Mutant of ExpiredBackups: a deletion that was interrupted is not taken up again.
ExpiredUnmarked == {b \in Backups : backup[b].status = "success" /\ backup[b].expired /\ ~Referenced(b)}

ExpiredBackups ==
  {b \in Backups : backup[b].status \in {"success", "deleting"} /\ backup[b].expired /\ ~Referenced(b)}

ListExpiredDatabaseBackups ==
  /\ remover["retention"] = AtRest /\ ExpiredBackups # {}
  /\ remover' = [remover EXCEPT !["retention"].left = ExpiredBackups]
  /\ NoFault
  /\ UNCHANGED <<removeRest, backup, stored>>

\* One item of the list: opening its destination may fail, which skips it.
NextExpired ==
  /\ remover["retention"].step = "idle"
  /\ \E b \in remover["retention"].left :
       remover' = [remover EXCEPT !["retention"] =
         [left |-> @.left \ {b}, backup |-> IF backup[b].destination = None THEN None ELSE b,
          step |-> IF backup[b].destination = None THEN "idle" ELSE "mark"]]
  /\ NoFault
  /\ UNCHANGED <<removeRest, backup, stored>>

\* PrepareDatabaseBackupDeletion up to the mark.
PrepareDatabaseBackupDeletion(b) ==
  /\ remover["operator"].step = "idle"
  /\ backup[b].status \in {"success", "failed", "cancelled", "deleting"} /\ ~Referenced(b)
  /\ remover' = [remover EXCEPT !["operator"] =
       [left |-> {}, backup |-> b,
        step |-> IF backup[b].status = "success" THEN "mark"
                 ELSE IF backup[b].status = "deleting" THEN "erase" ELSE "forget"]]
  /\ Request
  /\ UNCHANGED <<removeRest, backup, stored>>

\* Mutant of Marked: the object is erased with its row still a success.
Unmarked(b) == UNCHANGED backup

Marked(b) ==
  backup' = [backup EXCEPT ![b].status = IF @ \in {"success", "deleting"} THEN "deleting" ELSE @]

\* The retention loop goes on when the mark fails.
MarkDatabaseBackupDeleting(x) ==
  /\ remover[x].step = "mark"
  /\ \/ NoFault /\ Marked(remover[x].backup) /\ MoveTo(x, "erase")
     \/ /\ Fault /\ UNCHANGED backup
        /\ IF x = "retention" THEN MoveTo(x, "erase") ELSE RemoverIdle(x)
  /\ UNCHANGED <<removeRest, stored>>

\* The bucket is the one the destination names now; deleting nothing succeeds.
EraseObject(x) ==
  LET b == remover[x].backup
      d == backup[b].destination
  IN /\ remover[x].step = "erase"
     /\ \/ /\ d # None /\ NoFault
           /\ stored' = stored \ {<<d, destination[d].bucket, b>>}
           /\ MoveTo(x, "forget")
        \/ /\ (d = None /\ NoFault) \/ Fault
           /\ RemoverIdle(x) /\ UNCHANGED stored
     /\ UNCHANGED <<removeRest, backup>>

\* A restore job that references the row keeps it.
DeleteDatabaseBackupRecord(x) ==
  LET b == remover[x].backup
  IN /\ remover[x].step = "forget"
     /\ RemoverIdle(x)
     /\ \/ /\ NoFault
           /\ backup' = IF backup[b].status \in {"deleting", "failed", "cancelled"} /\ ~Referenced(b)
                        THEN [backup EXCEPT ![b] = NoBackup] ELSE backup
        \/ Fault /\ UNCHANGED backup
     /\ UNCHANGED <<removeRest, stored>>

-----------------------------------------------------------------------------
(* Restore requests.                                                       *)

restoreRest == <<destination, policyVars, stored, unread, at, held, contents, consumers, database,
                 scheduler, remover, dropping>>

\* Replace-current: the safety backup is queued first, in its own transaction.
QueueSafetyBackup(b) ==
  /\ restorer = NoRequest /\ backup[b].status = "success" /\ Unused(Restores) # {}
  /\ Cardinality(Unused(Backups)) > 0
  /\ restorer' = [source |-> b, safety |-> CHOOSE x \in Unused(Backups) : TRUE,
                  mode |-> "replace_current", step |-> "check"]
  /\ QueueDatabaseBackup(policy.destination, "safety")
  /\ Request
  /\ UNCHANGED <<restoreRest, job, copy>>

\* New service: PrepareManagedDatabase makes the target and queues its provisioning.
PrepareCopy(b) ==
  /\ restorer = NoRequest /\ backup[b].status = "success" /\ Unused(Restores) # {} /\ copy = "absent"
  /\ restorer' = [source |-> b, safety |-> None, mode |-> "new_service", step |-> "check"]
  /\ copy' = "provisioning"
  /\ Request
  /\ UNCHANGED <<restoreRest, rowVars, lineVars, operation>>

Restorable ==
  /\ backup[restorer.source].status = "success" /\ backup[restorer.source].keyed
  /\ IF restorer.mode = "replace_current"
     THEN database = "healthy" /\ backup[restorer.safety].status # "absent"
     ELSE copy \in {"provisioning", "healthy"}

\* QueueDatabaseRestore checks before its transaction begins.
CheckRestorable ==
  /\ restorer.step = "check"
  /\ restorer' = IF Restorable THEN [restorer EXCEPT !.step = "insert"] ELSE NoRequest
  /\ NoFault
  /\ UNCHANGED <<restoreRest, rowVars, lineVars, operation, copy>>

\* The rows must still exist, and the transfer limit may refuse.
QueueDatabaseRestore ==
  /\ restorer.step = "insert"
  /\ \/ LET r == CHOOSE x \in Unused(Restores) : TRUE
        IN /\ backup[restorer.source].status # "absent"
           /\ restorer.safety # None => backup[restorer.safety].status # "absent"
           /\ Queued(r)
           /\ job' = [job EXCEPT ![r] = [status |-> "queued", source |-> restorer.source,
                                         safety |-> restorer.safety, mode |-> restorer.mode]]
     \/ UNCHANGED <<lineVars, operation, job>>
  /\ restorer' = NoRequest
  /\ NoFault
  /\ UNCHANGED <<restoreRest, backup, copy>>

-----------------------------------------------------------------------------
(* The worker runtime: claim, readiness, deferral.                         *)

OnCopy(o) == o \in Restores /\ job[o].mode = "new_service"

\* Operations on one instance share a lock key.
SameKey(o, p) == OnCopy(o) = OnCopy(p)

Running == {o \in Operations : operation[o].status = "running"}

Claimable(o) ==
  /\ operation[o].status = "queued" /\ ~operation[o].deferred
  /\ operation[o].attempt < MaxAttempts
  /\ \A p \in Running : ~SameKey(o, p)
  /\ OnCopy(o) => copy # "provisioning"

Place(o) == CHOOSE k \in DOMAIN line : line[k] = o

OldestClaimable(o) ==
  Claimable(o) /\ \A p \in Operations : Claimable(p) => Place(o) <= Place(p)

Target(o) == IF OnCopy(o) THEN copy ELSE database

\* Mutant of SafetyBackupEnded: only a safety backup that succeeded lets the restore go on.
SafetyBackupSucceeded(r) == job[r].safety = None \/ backup[job[r].safety].status = "success"

SafetyBackupEnded(r) == job[r].safety = None \/ backup[job[r].safety].status \in {"success", "failed", "cancelled"}

ReadyToRun(o) == o \in Restores => Target(o) = "healthy" /\ SafetyBackupEnded(o)

claimRest == <<destination, policyVars, rowVars, stored, lineVars, unread, held, engineVars, scheduler,
               remover, requestVars>>

Claim(o) ==
  /\ Cardinality(Running) < Concurrency /\ OldestClaimable(o)
  /\ IF Target(o) = "deleted"
     THEN operation' = [operation EXCEPT ![o].status = "cancelled"] /\ UNCHANGED at
     ELSE IF ReadyToRun(o)
     THEN /\ operation' = [operation EXCEPT ![o].status = "running", ![o].attempt = @ + 1]
          /\ at' = [at EXCEPT ![o] = "reserve"]
     ELSE operation' = [operation EXCEPT ![o].deferred = TRUE] /\ UNCHANGED at
  /\ NoFault
  /\ UNCHANGED claimRest

\* A readiness check that cannot read its rows fails the operation alone.
ReadyFails(o) ==
  /\ Cardinality(Running) < Concurrency /\ OldestClaimable(o)
  /\ operation' = [operation EXCEPT ![o].status = "failed"]
  /\ Fault
  /\ UNCHANGED <<claimRest, at>>

\* available_at passes.
Retry(o) ==
  /\ operation[o].deferred
  /\ operation' = [operation EXCEPT ![o].deferred = FALSE]
  /\ NoFault
  /\ UNCHANGED <<claimRest, at>>

-----------------------------------------------------------------------------
(* The handlers.  A failure goes through "fail", which writes the companion *)
(* row, and then ends the operation; both writes may fail unnoticed.        *)

workRest == <<destination, policyVars, lineVars, unread, database, copy, scheduler, remover, requestVars>>

Step(o, s) == at' = [at EXCEPT ![o] = s] /\ UNCHANGED operation

Decide(o, s, verdict) ==
  at' = [at EXCEPT ![o] = s] /\ operation' = [operation EXCEPT ![o].verdict = verdict]

ReserveDisk(o) ==
  /\ at[o] = "reserve"
  /\ \/ NoFault /\ Step(o, IF o \in Backups THEN "mark" ELSE "check")
     \/ Fault /\ Decide(o, "fail", "failed")
  /\ UNCHANGED <<workRest, rowVars, stored, held, contents, consumers>>

\* Only a queued row becomes running; any other fails the backup.
MarkDatabaseBackupRunning(b) ==
  /\ at[b] = "mark"
  /\ \/ /\ backup[b].status = "queued" /\ NoFault
        /\ backup' = [backup EXCEPT ![b].status = "running"] /\ Step(b, "open")
     \/ /\ (backup[b].status # "queued" /\ NoFault) \/ Fault
        /\ Decide(b, "fail", IF backup[b].status \in {"queued", "absent"} THEN "failed" ELSE "refused")
        /\ UNCHANGED backup
  /\ UNCHANGED <<workRest, job, stored, held, contents, consumers>>

\* GetBackupDestinationSealed and the client made from it.
OpenDestination(b) ==
  LET d == backup[b].destination
  IN /\ at[b] = "open"
     /\ \/ /\ d # None /\ NoFault
           /\ held' = [held EXCEPT ![b] = <<d, destination[d].bucket>>] /\ Step(b, "dump")
        \/ /\ (d = None /\ NoFault) \/ Fault
           /\ Decide(b, "fail", "failed") /\ UNCHANGED held
     /\ UNCHANGED <<workRest, rowVars, stored, contents, consumers>>

Object(b) == <<held[b][1], held[b][2], b>>

\* The dump job, the encryption and the upload run as one stream.
UploadDump(b) ==
  /\ at[b] = "dump"
  /\ \/ /\ database # "unhealthy" /\ NoFault
        /\ stored' = stored \cup {Object(b)}
        /\ backup' = [backup EXCEPT ![b].content = contents] /\ Step(b, "verify")
     \/ /\ (database = "unhealthy" /\ NoFault) \/ Fault
        /\ Decide(b, "discard", "failed") /\ UNCHANGED <<stored, backup>>
  /\ UNCHANGED <<workRest, job, held, contents, consumers>>

VerifyObject(b) ==
  /\ at[b] = "verify"
  /\ \/ Object(b) \in stored /\ NoFault /\ Step(b, "complete")
     \/ ((Object(b) \notin stored /\ NoFault) \/ Fault) /\ Decide(b, "discard", "failed")
  /\ UNCHANGED <<workRest, rowVars, stored, held, contents, consumers>>

Completed(b) ==
  /\ backup[b].status # "absent"
  /\ backup' = [backup EXCEPT ![b].status = "success", ![b].keyed = TRUE]

CompletedUnread(b) == Completed(b) /\ unread' = unread \cup {b}

completeRest == <<destination, policyVars, lineVars, database, copy, scheduler, remover, requestVars, job,
                  stored, held, contents, consumers>>

\* When the row cannot be completed the object goes and the row stays running;
\* when it was completed but not read back, it stays a success.
CompleteDatabaseBackup(b) ==
  /\ at[b] = "complete"
  /\ \/ Completed(b) /\ NoFault /\ Decide(b, "report", "success") /\ UNCHANGED unread
     \/ /\ (backup[b].status = "absent" /\ NoFault) \/ Fault
        /\ Decide(b, "abandon", "failed") /\ UNCHANGED <<backup, unread>>
     \/ CompletedUnread(b) /\ Fault /\ Decide(b, "abandon", "failed")
  /\ UNCHANGED completeRest

\* held.Delete; its own failure is ignored.
DiscardObject(b) ==
  /\ at[b] \in {"discard", "abandon"}
  /\ \/ NoFault /\ stored' = stored \ {Object(b)}
     \/ Fault /\ UNCHANGED stored
  /\ Step(b, IF at[b] = "discard" THEN "fail" ELSE "end")
  /\ UNCHANGED <<workRest, rowVars, held, contents, consumers>>

\* The outcome is read back from the row: a lost write turns success into failure.
ReportSuccess(o) ==
  /\ at[o] = "report"
  /\ \/ NoFault /\ Decide(o, "end", "success")
     \/ Fault /\ Decide(o, "end", "failed")
  /\ UNCHANGED <<workRest, rowVars, stored, held, contents, consumers>>

FailCompanion(o) ==
  /\ at[o] = "fail"
  /\ \/ /\ NoFault
        /\ IF o \in Backups
           THEN /\ backup' = IF backup[o].status = "absent" THEN backup
                             ELSE [backup EXCEPT ![o].status = "failed", ![o].keyed = FALSE]
                /\ UNCHANGED job
           ELSE job' = [job EXCEPT ![o].status = "failed"] /\ UNCHANGED backup
     \/ Fault /\ UNCHANGED rowVars
  /\ Step(o, IF o \in Backups THEN "end" ELSE "restart")
  /\ UNCHANGED <<workRest, stored, held, contents, consumers>>

\* CompleteOperation.
EndOperation(o) ==
  /\ at[o] = "end" /\ NoFault
  /\ operation' = [operation EXCEPT ![o].status = IF operation[o].verdict = "success" THEN "success" ELSE "failed"]
  /\ at' = [at EXCEPT ![o] = "idle"] /\ held' = [held EXCEPT ![o] = None]
  /\ UNCHANGED <<workRest, rowVars, stored, contents, consumers>>

Reachable(b) ==
  LET d == backup[b].destination
  IN d # None /\ <<d, destination[d].bucket, b>> \in stored

\* Mutant of CheckRestore: the outcome of the safety backup is not looked at.
CheckRestoreOnly(r) ==
  /\ at[r] = "check"
  /\ \/ /\ backup[job[r].source].status = "success" /\ Target(r) = "healthy" /\ NoFault
        /\ Step(r, IF OnCopy(r) THEN "load" ELSE "stop")
     \/ /\ (~(backup[job[r].source].status = "success" /\ Target(r) = "healthy") /\ NoFault) \/ Fault
        /\ Decide(r, "fail", "failed")
  /\ UNCHANGED <<workRest, rowVars, stored, held, contents, consumers>>

\* The source and the safety backup must have succeeded and the target be healthy.
CheckRestore(r) ==
  LET fit == /\ backup[job[r].source].status = "success"
             /\ job[r].safety # None => backup[job[r].safety].status = "success"
             /\ Target(r) = "healthy"
  IN /\ at[r] = "check"
     /\ \/ fit /\ NoFault /\ Step(r, IF OnCopy(r) THEN "load" ELSE "stop")
        \/ ((~fit /\ NoFault) \/ Fault) /\ Decide(r, "fail", "failed")
     /\ UNCHANGED <<workRest, rowVars, stored, held, contents, consumers>>

\* A stop that fails starts again what it stopped.
StopDatabaseConsumers(r) ==
  /\ at[r] = "stop"
  /\ \/ /\ NoFault /\ consumers' = "stopped" /\ Step(r, "load")
        /\ job' = [job EXCEPT ![r].status = "running"]
        /\ held' = [held EXCEPT ![r] = "consumers"]
     \/ Fault /\ Decide(r, "fail", "failed") /\ UNCHANGED <<job, consumers, held>>
  /\ UNCHANGED <<workRest, backup, stored, contents>>

\* Where a payload that could not be applied leads.
Undo(r) == IF at[r] = "load" \/ at[r] = "loading" THEN IF OnCopy(r) THEN "fail" ELSE "rollback" ELSE "fail"

PayloadOf(r) == IF at[r] \in {"load", "loading"} THEN job[r].source ELSE job[r].safety

Write(r, value) == contents' = IF OnCopy(r) THEN contents ELSE value

\* The object is fetched and the job begins to overwrite the target.
BeginPayload(r) ==
  /\ at[r] \in {"load", "rollback"}
  /\ \/ /\ Reachable(PayloadOf(r)) /\ Target(r) # "unhealthy" /\ NoFault
        /\ Write(r, "mixed")
        /\ Step(r, IF at[r] = "load" THEN "loading" ELSE "rolling")
     \/ /\ (~(Reachable(PayloadOf(r)) /\ Target(r) # "unhealthy") /\ NoFault) \/ Fault
        /\ UNCHANGED contents
        /\ Decide(r, Undo(r), "rollback_failed")
  /\ UNCHANGED <<workRest, rowVars, stored, held, consumers>>

EndPayload(r) ==
  /\ at[r] \in {"loading", "rolling"}
  /\ \/ /\ NoFault /\ Write(r, backup[PayloadOf(r)].content)
        /\ IF at[r] = "loading" THEN Decide(r, "succeed", "success") ELSE Decide(r, "fail", "rolled_back")
     \/ Fault /\ Decide(r, Undo(r), "rollback_failed") /\ UNCHANGED contents
  /\ UNCHANGED <<workRest, rowVars, stored, held, consumers>>

RestoreSucceeded(r) ==
  /\ at[r] = "succeed"
  /\ \/ NoFault /\ job' = [job EXCEPT ![r].status = "success"]
     \/ Fault /\ UNCHANGED job
  /\ Step(r, "restart")
  /\ UNCHANGED <<workRest, backup, stored, held, contents, consumers>>

\* The deferred restart of what this attempt stopped.
RestartDatabaseConsumers(r) ==
  /\ at[r] = "restart"
  /\ \/ NoFault /\ consumers' = IF held[r] = "consumers" THEN "running" ELSE consumers
     \/ Fault /\ UNCHANGED consumers
  /\ Step(r, IF operation[r].verdict = "success" THEN "report" ELSE "end")
  /\ UNCHANGED <<workRest, rowVars, stored, held, contents>>

\* The lease holder saw the cancellation: every later store call fails, and
\* only what runs without the cancelled context still happens.  It may come
\* between the write that completes a backup and its read-back.
Cancelled(o) ==
  /\ database = "deleted" /\ ~OnCopy(o) /\ at[o] # "idle" /\ NoFault
  /\ operation' = [operation EXCEPT ![o].status = "cancelled"]
  /\ at' = [at EXCEPT ![o] = "idle"] /\ held' = [held EXCEPT ![o] = None]
  /\ stored' = IF at[o] \in {"dump", "verify", "complete", "discard", "abandon"} THEN stored \ {Object(o)} ELSE stored
  /\ consumers' = IF held[o] = "consumers" THEN "running" ELSE consumers
  /\ \/ at[o] = "complete" /\ CompletedUnread(o)
     \/ UNCHANGED <<backup, unread>>
  /\ UNCHANGED <<destination, policyVars, lineVars, database, copy, scheduler, remover, requestVars, job,
                 contents>>

-----------------------------------------------------------------------------
(* The world outside.                                                      *)

outsideRest == <<destination, policyVars, rowVars, stored, lineVars, unread, workVars, scheduler, remover,
                 requestVars>>

CopyProvisioned ==
  /\ copy = "provisioning"
  /\ \/ NoFault /\ copy' = "healthy"
     \/ Fault /\ copy' = "failed"
  /\ UNCHANGED <<outsideRest, contents, consumers, database>>

DatabaseSickens ==
  /\ database = "healthy" /\ database' = "unhealthy" /\ Fault
  /\ UNCHANGED <<outsideRest, contents, consumers, copy>>

DatabaseRecovers ==
  /\ database = "unhealthy" /\ database' = "healthy" /\ NoFault
  /\ UNCHANGED <<outsideRest, contents, consumers, copy>>

\* desired_state becomes deleted: queued work turns obsolete, running work is cancelled.
DeleteInstance ==
  /\ database # "deleted" /\ database' = "deleted" /\ Request
  /\ UNCHANGED <<outsideRest, contents, consumers, copy>>

-----------------------------------------------------------------------------
(* The process ends: what was running is requeued with its companion, or   *)
(* failed with it when its attempts are used up.                           *)

Interrupted ==
  /\ ProcessCrash
  /\ at' = [o \in Operations |-> "idle"] /\ held' = [o \in Operations |-> None]
  /\ scheduler' = "idle" /\ remover' = [x \in Removers |-> AtRest]
  /\ dropping' = None /\ restorer' = NoRequest
  /\ UNCHANGED <<destination, policyVars, stored, lineVars, unread, engineVars>>

Recovered(o, companion) ==
  IF operation[o].status # "running" THEN companion
  ELSE IF operation[o].attempt >= MaxAttempts
       THEN IF companion.status \in {"queued", "running"} THEN [companion EXCEPT !.status = "failed"] ELSE companion
       ELSE IF companion.status = "running" THEN [companion EXCEPT !.status = "queued"] ELSE companion

\* RecoverOperations at the next boot.
BackupsCrash ==
  /\ Interrupted
  /\ backup' = [b \in Backups |-> Recovered(b, backup[b])]
  /\ job' = [r \in Restores |-> Recovered(r, job[r])]
  /\ operation' = [o \in Operations |->
       IF operation[o].status # "running" THEN [operation[o] EXCEPT !.deferred = FALSE]
       ELSE [operation[o] EXCEPT !.status = IF operation[o].attempt >= MaxAttempts THEN "failed" ELSE "queued"]]

\* Mutant of BackupsDrain: the operations that never ran give an attempt back too.
BackupsDrainAll ==
  /\ Interrupted /\ Running # {}
  /\ operation' = [o \in Operations |-> [operation[o] EXCEPT !.attempt = @ - 1]]
  /\ UNCHANGED rowVars

\* The drain gives up waiting: DeferOperation returns the operations and their
\* attempt, and leaves the companions running.
BackupsDrain ==
  /\ Interrupted /\ Running # {}
  /\ operation' = [o \in Operations |->
       IF operation[o].status # "running" THEN operation[o]
       ELSE [operation[o] EXCEPT !.status = "queued", !.attempt = @ - 1]]
  /\ UNCHANGED rowVars

-----------------------------------------------------------------------------
BackupStep(b) ==
  \/ MarkDatabaseBackupRunning(b) \/ OpenDestination(b) \/ UploadDump(b) \/ VerifyObject(b)
  \/ CompleteDatabaseBackup(b) \/ DiscardObject(b)

RestoreStep(r) ==
  \/ CheckRestore(r) \/ StopDatabaseConsumers(r) \/ BeginPayload(r) \/ EndPayload(r)
  \/ RestoreSucceeded(r) \/ RestartDatabaseConsumers(r)

BackupOperationStep(o) ==
  \/ ReserveDisk(o) \/ FailCompanion(o) \/ ReportSuccess(o) \/ EndOperation(o) \/ Cancelled(o)
  \/ o \in Backups /\ BackupStep(o)
  \/ o \in Restores /\ RestoreStep(o)

ScheduleStep == ListDueDatabaseBackupPolicies \/ QueueDueDatabaseBackup \/ AdvanceDatabaseBackupPolicySchedule

RemoverStep(x) ==
  \/ MarkDatabaseBackupDeleting(x) \/ EraseObject(x) \/ DeleteDatabaseBackupRecord(x)
  \/ x = "retention" /\ (ListExpiredDatabaseBackups \/ NextExpired)

RestorerStep == CheckRestorable \/ QueueDatabaseRestore

BackupRequest ==
  \/ \E d \in Destinations :
       \/ CreateBackupDestination(d) \/ UpdateBackupDestination(d) \/ CountRetained(d)
       \/ \E e \in BOOLEAN : SaveBackupPolicy(d, e)
  \/ ManualBackup \/ DeleteInstance
  \/ \E b \in Backups : PrepareDatabaseBackupDeletion(b) \/ QueueSafetyBackup(b) \/ PrepareCopy(b)

OutsideBackups ==
  \/ BecomeDue \/ \E b \in Backups : Expire(b)
  \/ CopyProvisioned \/ DatabaseSickens \/ DatabaseRecovers

BackupsNext ==
  \/ BackupRequest \/ OutsideBackups
  \/ ScheduleStep \/ RestorerStep \/ DeleteBackupDestination
  \/ \E x \in Removers : RemoverStep(x)
  \/ \E o \in Operations : Claim(o) \/ ReadyFails(o) \/ Retry(o) \/ BackupOperationStep(o)
  \/ BackupsCrash \/ BackupsDrain

\* Workers, loops and handlers that have begun go on; a copy gets provisioned.
\* A worker that defers an operation claims again at once, long before the five
\* seconds of the deferral: a backup behind a restore is not passed over for ever.
\* Nothing obliges an operator, the clock or the engine.
BackupsFairness ==
  /\ \A o \in Operations :
       WF_backupsVars(Claim(o)) /\ WF_backupsVars(Retry(o)) /\ WF_backupsVars(BackupOperationStep(o))
  /\ SF_backupsVars(\E b \in Backups : Claim(b))
  /\ \A x \in Removers : WF_backupsVars(RemoverStep(x))
  /\ WF_backupsVars(ScheduleStep) /\ WF_backupsVars(RestorerStep) /\ WF_backupsVars(CopyProvisioned)

BackupsSpec == BackupsInit /\ [][BackupsNext]_backupsVars /\ BackupsFairness

-----------------------------------------------------------------------------
(* Properties.                                                             *)

BackupStatuses == {"absent", "queued", "running", "success", "failed", "cancelled", "deleting"}

\* Every variable has its type, and only a running operation has a worker.
BackupsTypeOK ==
  /\ \A d \in Destinations : destination[d].bucket \in 1..2
  /\ \A b \in Backups : backup[b].status \in BackupStatuses
  /\ \A r \in Restores : job[r].status \in {"absent", "queued", "running", "success", "failed"}
  /\ \A o \in Operations :
       /\ operation[o].status \in {"absent", "queued", "running", "success", "failed", "cancelled"}
       /\ operation[o].attempt \in 0..MaxAttempts
       /\ at[o] # "idle" <=> operation[o].status = "running"
  /\ stored \subseteq Destinations \X (1..2) \X Backups /\ settled \in 0..Len(line)
  /\ contents \in {"whole", "mixed"}
  /\ scheduler \in Destinations \cup {"idle", "advance"}

Moved(d) == d # None /\ destination[d].bucket # 1

\* The row lost its destination: it was queued there after the destination's
\* retained backups were counted and before the destination was deleted.
Orphaned(b) == backup[b].destination = None

InPlace(b) == Orphaned(b) \/ Moved(backup[b].destination) \/ b \in unread \/ Reachable(b)

\* A backup the store calls successful, that has neither expired nor been
\* taken over by a deletion, can be fetched: its object was verified before
\* the row was completed and is removed only after the row is marked.  Only an
\* operator takes it away: by changing the bucket of its destination in place,
\* or by a deletion of the destination that counted before it was queued.  And
\* the call that completes the row takes it away when it cannot read back what
\* it wrote (unread).
SuccessIsStored ==
  \A b \in Backups :
    backup[b].status = "success" /\ ~backup[b].expired => InPlace(b)

\* The restore stands before its own safety backup.
Overtaken(s, r) == Place(r) < Place(s)

\* A database that a replace-current restore left half written can still be
\* put back: the safety backup of that restore is in place, whatever else is
\* retried or fails meanwhile.  Only its expiry can take it away, a deletion of
\* the safety backup that was checked before the restore referred to it, or
\* what an operator does or a failed read-back did to its object (see
\* SuccessIsStored).  And when both were queued in one second and the restore
\* comes first, a process end after the backup was completed gives its
\* operation a turn behind the restore, which fails its row (Overtaken).
MixedHasSafety ==
  contents = "mixed" =>
    \E r \in Restores :
      LET s == job[r].safety
      IN /\ s # None
         /\ \/ /\ backup[s].status \in {"success", "deleting"} /\ backup[s].keyed
               /\ backup[s].status = "deleting" \/ backup[s].expired \/ InPlace(s)
            \/ Overtaken(s, r) /\ backup[s].status = "failed"

\* The safety backup of o was marked for deletion before the restore referred
\* to it: nothing completes that deletion, and the restore waits for its end.
SafetyTaken(o) == o \in Restores /\ job[o].safety # None /\ backup[job[o].safety].status = "deleting"

\* Every backup and restore operation ends, the restores that wait for their
\* safety backup among them, whatever the process ends do, if no call fails
\* and nobody deletes that safety backup.  An operation that has ended stays so:
\* that nothing is pending again and again says that each of them ends.
BackupOperationsEnd ==
  []<>(\A o \in Operations :
         operation[o].status \in {"queued", "running"} => faults > 0 \/ SafetyTaken(o))

\* A backup that has expired and that no restore refers to is removed in the
\* end, through failed calls and process ends, unless its destination is gone.
ExpiredIsRemoved ==
  []<>(\A b \in Backups :
         backup[b].status \in {"success", "deleting"} /\ backup[b].expired
           => Referenced(b) \/ backup[b].destination = None)
=============================================================================
