-------------------------- MODULE CredentialRotation --------------------------
(***************************************************************************)
(* The rotate_credentials operation of one database instance (services/    *)
(* database_provision.go, database_engines.go): the new password is staged *)
(* in the store, given to the engine, checked, and committed; a failure    *)
(* half way gives the old one back to the engine and clears the staged one.*)
(*                                                                         *)
(* The engines differ in how the password of the application is changed:   *)
(*   "admin"   the administrator sets it (PostgreSQL, MongoDB);            *)
(*   "own"     the application itself does (MySQL, MariaDB);               *)
(*   "config"  it is set live, then written to the configuration that the  *)
(*             next start of the container reads (Redis, Valkey).          *)
(*                                                                         *)
(* Operations of an instance never run at the same time (OneRunningPerLock-*)
(* Key of OperationQueue), so one worker is enough.  A call that fails may *)
(* have taken effect: docker exec can lose the answer.                     *)
(***************************************************************************)
EXTENDS Environment, FiniteSets

CONSTANTS
  Rotations,   \* ids of rotate_credentials operations
  MaxRuns,     \* max_attempts of an operation
  MaxRestarts  \* bound: starts of the container

ASSUME RotationAssumption ==
  MaxRuns \in Nat \ {0} /\ MaxRestarts \in Nat /\ None \notin Nat /\ None \notin Rotations

VARIABLES
  engine,    \* how this engine changes a password
  password,  \* password_ct of the row: passwords are numbered as they are made
  pending,   \* pending_password_ct, None when nothing is staged
  live,      \* the password the engine accepts
  saved,     \* the password its next start accepts
  made,      \* the last password made
  rotation,  \* status and attempts of each operation
  place,     \* where the worker is
  known,     \* what it has read and what it is changing
  restarts,  \* starts of the container so far
  torn,      \* history: a commit took effect and was reported as failed
  unsaved    \* history: a password was committed that the engine had not saved

storeVars    == <<password, pending>>
engineVars   == <<engine, live, saved, restarts>>
workerVars   == <<rotation, place, known>>
rotationState == <<storeVars, engineVars, made, workerVars, torn, unsaved>>
rotationVars == <<rotationState, environment>>

NothingKnown == [id |-> None, old |-> None, new |-> None, oldValid |-> FALSE, goal |-> "rotate"]

RotationInit ==
  /\ engine \in {"admin", "own", "config"}
  /\ password = 0 /\ pending = None /\ live = 0 /\ saved = 0 /\ made = 0
  /\ rotation = [x \in Rotations |-> [status |-> "absent", runs |-> 0]]
  /\ place = "idle" /\ known = NothingKnown /\ restarts = 0
  /\ torn = FALSE /\ unsaved = FALSE
  /\ EnvironmentInit

-----------------------------------------------------------------------------
QueueRotation(x) ==
  /\ rotation[x].status = "absent"
  /\ rotation' = [rotation EXCEPT ![x].status = "queued"]
  /\ Request
  /\ UNCHANGED <<storeVars, engineVars, made, place, known, torn, unsaved>>

ClaimRotation(x) ==
  /\ place = "idle" /\ rotation[x].status = "queued" /\ rotation[x].runs < MaxRuns
  /\ rotation' = [rotation EXCEPT ![x] = [status |-> "running", runs |-> @.runs + 1]]
  /\ place' = "read" /\ known' = [NothingKnown EXCEPT !.id = x]
  /\ NoFault
  /\ UNCHANGED <<storeVars, engineVars, made, torn, unsaved>>

beyondWorker == <<storeVars, engineVars, made, torn, unsaved>>

GoTo(s) == place' = s /\ UNCHANGED <<rotation, known>>

FailRotation == GoTo("failed")

\* CompleteOperation.
EndRotation ==
  /\ place \in {"failed", "succeeded"}
  /\ rotation' = [rotation EXCEPT ![known.id].status = IF place = "failed" THEN "failed" ELSE "success"]
  /\ place' = "idle" /\ known' = NothingKnown
  /\ NoFault
  /\ UNCHANGED beyondWorker

\* The row is read: what is staged is taken up, otherwise a password is made.
ReadCredential ==
  /\ place = "read"
  /\ \/ /\ NoFault
        /\ known' = [known EXCEPT !.old = password, !.new = pending]
        /\ place' = IF pending = None THEN "stage" ELSE "probe_old"
        /\ UNCHANGED rotation
     \/ Fault /\ FailRotation
  /\ UNCHANGED beyondWorker

\* Mutant of StageDatabaseCredentialRotation: the new password is only kept in memory.
StageNothing ==
  /\ place = "stage" /\ made' = made + 1
  /\ known' = [known EXCEPT !.new = made + 1] /\ place' = "probe_old"
  /\ NoFault
  /\ UNCHANGED <<storeVars, rotation, engineVars, torn, unsaved>>

\* The update, then the row is read back.
StageDatabaseCredentialRotation ==
  /\ place = "stage" /\ made' = made + 1
  /\ \/ /\ NoFault /\ pending' = made + 1
        /\ known' = [known EXCEPT !.new = made + 1] /\ place' = "probe_old" /\ UNCHANGED rotation
     \/ Fault /\ FailRotation /\ pending' \in {None, made + 1}
  /\ UNCHANGED <<password, engineVars, torn, unsaved>>

\* checkDatabaseApplicationCredentials.
Accepted(p) == live = p

\* The container is inspected, then the old password tried.
ProbeOldPassword ==
  /\ place = "probe_old"
  /\ \/ /\ (NoFault /\ known' = [known EXCEPT !.oldValid = Accepted(known.old)])
           \/ (Fault /\ known' = [known EXCEPT !.oldValid = FALSE])
        /\ place' = "probe_new" /\ UNCHANGED rotation
     \/ Fault /\ FailRotation
  /\ UNCHANGED beyondWorker

\* Mutant of ProbeNewPassword: the engine is always asked to change.
ProbeOldOnly ==
  /\ place = "probe_new" /\ NoFault
  /\ IF known.oldValid THEN GoTo("alter") ELSE FailRotation
  /\ UNCHANGED beyondWorker

\* A new password that is already accepted is committed: an earlier attempt
\* had changed the engine.
ProbeNewPassword ==
  /\ place = "probe_new"
  /\ \/ NoFault /\ Accepted(known.new) /\ GoTo("commit")
     \/ /\ (NoFault /\ ~Accepted(known.new)) \/ Fault
        /\ IF known.oldValid THEN GoTo("alter") ELSE FailRotation
  /\ UNCHANGED beyondWorker

-----------------------------------------------------------------------------
(* alterDatabasePassword, towards the new password or back to the old one. *)

From == IF known.goal = "rotate" THEN known.old ELSE known.new
To   == IF known.goal = "rotate" THEN known.new ELSE known.old

Altered   == IF known.goal = "rotate" THEN GoTo("verify") ELSE GoTo("clear")
Unaltered == FailRotation

Allowed(p) == engine = "admin" \/ live = p

\* One statement; or, for a configuration, its first half.
AlterDatabasePassword ==
  /\ place = "alter"
  /\ \/ /\ Allowed(From) /\ NoFault
        /\ live' = To
        /\ IF engine = "config" THEN saved' = saved /\ GoTo("rewrite") ELSE saved' = To /\ Altered
     \/ /\ ~Allowed(From) /\ NoFault
        /\ Unaltered /\ UNCHANGED <<live, saved>>
     \/ /\ Fault /\ Unaltered
        /\ \/ UNCHANGED <<live, saved>>
           \/ /\ Allowed(From) /\ live' = To
              /\ saved' = IF engine = "config" THEN saved ELSE To
  /\ UNCHANGED <<storeVars, engine, restarts, made, torn, unsaved>>

\* CONFIG REWRITE.
SaveConfiguration ==
  /\ place = "rewrite"
  /\ \/ live = To /\ NoFault /\ saved' = live /\ Altered
     \/ live # To /\ NoFault /\ GoTo("unset") /\ UNCHANGED saved
     \/ Fault /\ GoTo("unset") /\ saved' \in {saved, IF live = To THEN live ELSE saved}
  /\ UNCHANGED <<storeVars, engine, live, restarts, made, torn, unsaved>>

\* The live password is put back, then saved; neither answer is looked at.
RestoreLivePassword ==
  /\ place = "unset" /\ GoTo("resave")
  /\ \/ NoFault /\ live' = IF live = To THEN From ELSE live
     \/ Fault /\ UNCHANGED live
  /\ UNCHANGED <<storeVars, engine, saved, restarts, made, torn, unsaved>>

ResaveConfiguration ==
  /\ place = "resave" /\ Unaltered
  /\ \/ NoFault /\ saved' = IF live = From THEN live ELSE saved
     \/ Fault /\ UNCHANGED saved
  /\ UNCHANGED <<storeVars, engine, live, restarts, made, torn, unsaved>>

RollBack == place' = "alter" /\ known' = [known EXCEPT !.goal = "rollback"] /\ UNCHANGED rotation

VerifyNewPassword ==
  /\ place = "verify"
  /\ \/ Accepted(known.new) /\ NoFault /\ GoTo("commit")
     \/ ((~Accepted(known.new) /\ NoFault) \/ Fault) /\ RollBack
  /\ UNCHANGED beyondWorker

\* Mutant of CommitStagedDatabaseCredentialRotation: the staged password stays staged.
CommitKeepingStaged ==
  /\ place = "commit"
  /\ \/ /\ NoFault /\ password' = pending /\ GoTo("succeeded")
     \/ Fault /\ RollBack /\ UNCHANGED password
  /\ UNCHANGED <<engineVars, made, pending, torn, unsaved>>

\* The update, then the row is read back: both may fail, and a failure of
\* either gives the old password back to the engine.
CommitStagedDatabaseCredentialRotation ==
  /\ place = "commit"
  /\ \/ /\ pending # None /\ NoFault
        /\ password' = pending /\ pending' = None
        /\ unsaved' = (unsaved \/ saved # pending)
        /\ GoTo("succeeded") /\ UNCHANGED torn
     \/ pending = None /\ NoFault /\ RollBack /\ UNCHANGED <<storeVars, torn, unsaved>>
     \/ Fault /\ RollBack /\ UNCHANGED <<storeVars, torn, unsaved>>
     \/ /\ pending # None /\ Fault /\ RollBack
        /\ password' = pending /\ pending' = None /\ torn' = TRUE /\ UNCHANGED unsaved
  /\ UNCHANGED <<engineVars, made>>

\* Only after the engine took the old password back; the answer is not looked at.
ClearStagedDatabaseCredentialRotation ==
  /\ place = "clear" /\ FailRotation
  /\ \/ NoFault /\ pending' = None
     \/ Fault /\ UNCHANGED pending
  /\ UNCHANGED <<password, engineVars, made, torn, unsaved>>

-----------------------------------------------------------------------------
\* The container starts again: an operation, an upgrade or the host.
EngineRestarts ==
  /\ restarts < MaxRestarts
  /\ restarts' = restarts + 1 /\ live' = saved
  /\ NoFault
  /\ UNCHANGED <<storeVars, engine, saved, made, workerVars, torn, unsaved>>

\* RecoverOperations at the next boot.
RotationCrash ==
  /\ ProcessCrash
  /\ rotation' = [x \in Rotations |->
       IF rotation[x].status # "running" THEN rotation[x]
       ELSE [rotation[x] EXCEPT !.status = IF @ = "running" /\ rotation[x].runs >= MaxRuns THEN "failed" ELSE "queued"]]
  /\ place' = "idle" /\ known' = NothingKnown
  /\ UNCHANGED beyondWorker

RotationWork ==
  \/ \E x \in Rotations : ClaimRotation(x)
  \/ ReadCredential \/ StageDatabaseCredentialRotation \/ ProbeOldPassword \/ ProbeNewPassword
  \/ AlterDatabasePassword \/ SaveConfiguration \/ RestoreLivePassword \/ ResaveConfiguration
  \/ VerifyNewPassword \/ CommitStagedDatabaseCredentialRotation
  \/ ClearStagedDatabaseCredentialRotation \/ EndRotation

RotationNext ==
  \/ \E x \in Rotations : QueueRotation(x)
  \/ RotationWork \/ EngineRestarts \/ RotationCrash

\* The workers claim and go on.
RotationSpec == RotationInit /\ [][RotationNext]_rotationVars /\ WF_rotationVars(RotationWork)

-----------------------------------------------------------------------------
RotationTypeOK ==
  /\ password \in 0..made /\ pending \in (1..made) \cup {None} /\ pending # password
  /\ {live, saved} \subseteq 0..made
  /\ \A x \in Rotations : rotation[x].runs \in 0..MaxRuns
  /\ place # "idle" <=> \E x \in Rotations : rotation[x].status = "running"

\* The password the engine accepts is one the store holds, current or staged,
\* after any failure and any process end: else nobody can log in any more.
\* Two ways out are known: a commit whose row could not be read back, and a
\* configuration that an interrupted attempt set and did not save.
EngineAcceptsStored == live \in {password, pending} \/ torn \/ unsaved

\* A rotation that process ends interrupt ends with the new password in the
\* engine and in the store, as long as it has an attempt left, no call fails
\* and no configuration is read again half way.
RotationResumes ==
  \A x \in Rotations :
    rotation[x].status = "queued" ~>
      rotation[x].status = "success" \/ faults > 0 \/ rotation[x].runs = MaxRuns
        \/ (engine = "config" /\ restarts > 0)
=============================================================================
