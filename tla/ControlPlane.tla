----------------------------- MODULE ControlPlane -----------------------------
(***************************************************************************)
(* The control plane's own database: what a start of the server does to it *)
(* before anything else runs (database/sqlite.go, database/migrations.go,  *)
(* envcrypt.VerifyOrInitCanary), the loop that takes and purges snapshots  *)
(* of it (services/control_plane_snapshot.go), and the operator who        *)
(* installs another version, changes the key or restores a snapshot        *)
(* (scripts/control-plane-restore.sh).                                     *)
(*                                                                         *)
(* Migrations are numbered; the migration CanaryMigration creates the table*)
(* of the encryption canary.  A database may come from a version before    *)
(* it, with secrets sealed and no canary.  An upload is configured.        *)
(***************************************************************************)
EXTENDS Environment

CONSTANTS
  Snapshots,       \* ids of snapshot attempts, also their file names
  Keys,            \* values of HOSTFORGE_ENV_ENCRYPTION_KEY
  Versions,        \* binaries, each the highest migration it embeds
  CanaryMigration, \* the migration that creates encryption_canary
  Torn,            \* what a file holds when VACUUM INTO did not finish
  Retention,       \* days a snapshot is kept; attempts are one day apart
  LastDay          \* bound: days modelled

ASSUME ControlPlaneAssumption ==
  /\ Versions \subseteq Nat /\ CanaryMigration \in Nat \ {0} /\ \A v \in Versions : v >= CanaryMigration
  /\ Retention \in Nat \ {0} /\ LastDay \in Nat /\ None \notin Keys

VARIABLES
  database,  \* hostforge.db: highest migration, canary, keys of its secrets, snapshot rows
  before,    \* history: what this start found before it migrated anything
  preFiles,  \* contents of the *.pre-migration-*.snapshot files
  snapFiles, \* content of each file of the snapshot directory
  objects,   \* snapshots stored at the destination
  attempted, \* ids used so far, rows of replaced databases included
  binary, envKey,  \* what is installed and configured
  server,    \* how far this process is
  loop,      \* where its snapshot loop is
  day

snapshotVars == <<snapFiles, objects, attempted, loop>>
bootVars     == <<before, preFiles, binary, envKey, server>>
planeState   == <<database, snapshotVars, bootVars, day>>
planeVars    == <<planeState, environment>>

NoSnapshot == [status |-> "absent", created |-> 0, remote |-> FALSE]
NoDatabase == [applied |-> 0, canary |-> None, sealed |-> {}, adopted |-> FALSE,
               rows |-> [s \in Snapshots |-> NoSnapshot]]
Asleep == [at |-> "off", id |-> None, remote |-> FALSE, expired |-> {}]

PlaneInit ==
  /\ database \in {NoDatabase} \cup
       {[NoDatabase EXCEPT !.applied = CanaryMigration - 1, !.sealed = {k}] : k \in Keys}
  /\ before = NoDatabase /\ preFiles = {}
  /\ snapFiles = [s \in Snapshots |-> None] /\ objects = {} /\ attempted = {}
  /\ binary \in Versions /\ envKey \in Keys
  /\ server = "down" /\ loop = Asleep /\ day = 0
  /\ EnvironmentInit

-----------------------------------------------------------------------------
(* A start. *)

StayDown == server' = "down" /\ UNCHANGED <<database, before, preFiles>>

\* PendingMigrations, the guard against an older binary included.
OpenSQLite ==
  /\ server = "down" /\ database.applied <= binary
  /\ before' = database
  /\ server' = IF database.applied < binary THEN "pending" ELSE "migrated"
  /\ NoFault
  /\ UNCHANGED <<database, preFiles, binary, envKey, snapshotVars, day>>

\* Without the copy nothing is migrated.
SnapshotBeforeMigrations ==
  /\ server = "pending"
  /\ \/ NoFault /\ preFiles' = preFiles \cup {database} /\ server' = "saved" /\ UNCHANGED <<database, before>>
     \/ Fault /\ StayDown
  /\ UNCHANGED <<binary, envKey, snapshotVars, day>>

\* The next migration, its row in the same transaction.
ApplyMigration ==
  /\ server = "saved"
  /\ \/ /\ NoFault
        /\ database' = [database EXCEPT !.applied = @ + 1]
        /\ server' = IF database.applied + 1 = binary THEN "migrated" ELSE "saved"
        /\ UNCHANGED <<before, preFiles>>
     \/ Fault /\ StayDown
  /\ UNCHANGED <<binary, envKey, snapshotVars, day>>

Serve == server' = "serving" /\ loop' = [Asleep EXCEPT !.at = "decide"]

\* Mutant of VerifyOrInitCanary: the canary is written again when it does not open.
ReplaceCanary ==
  /\ server = "migrated" /\ NoFault
  /\ database' = [database EXCEPT !.canary = envKey]
  /\ Serve
  /\ UNCHANGED <<before, preFiles, binary, envKey, snapFiles, objects, attempted, day>>

\* The first start that finds no canary seals one, whatever is sealed already.
VerifyOrInitCanary ==
  /\ server = "migrated"
  /\ \/ /\ NoFault /\ database.canary = None
        /\ database' = [database EXCEPT !.canary = envKey, !.adopted = database.sealed # {}]
        /\ Serve
     \/ /\ NoFault /\ database.canary = envKey /\ Serve /\ UNCHANGED database
     \/ /\ (NoFault /\ database.canary \notin {None, envKey}) \/ Fault
        /\ server' = "down" /\ UNCHANGED <<database, loop>>
  /\ UNCHANGED <<before, preFiles, binary, envKey, snapFiles, objects, attempted, day>>

\* A crash, or SIGTERM: no drain waits for the snapshot loop.
ServerEnds ==
  /\ server # "down" /\ ProcessCrash
  /\ server' = "down" /\ loop' = Asleep
  /\ snapFiles' = IF loop.at # "vacuum" THEN snapFiles ELSE [snapFiles EXCEPT ![loop.id] = Torn]
  /\ UNCHANGED <<database, before, preFiles, binary, envKey, objects, attempted, day>>

-----------------------------------------------------------------------------
(* The operator. *)

\* Another version or another key; the next start takes it.
Reconfigure ==
  /\ server = "down" /\ Request
  /\ \/ binary' \in Versions \ {binary} /\ UNCHANGED envKey
     \/ envKey' \in Keys \ {envKey} /\ UNCHANGED binary
  /\ UNCHANGED <<database, before, preFiles, server, snapshotVars, day>>

\* A retained or a pre-migration snapshot that passes the integrity check.
RestoreControlPlane ==
  /\ server = "down" /\ Request
  /\ database' \in preFiles \cup ({snapFiles[s] : s \in Snapshots} \ {None, Torn})
  /\ UNCHANGED <<bootVars, snapshotVars, day>>

\* Any request that seals a value.
StoreSecret ==
  /\ server = "serving" /\ envKey \notin database.sealed /\ Request
  /\ database' = [database EXCEPT !.sealed = @ \cup {envKey}]
  /\ UNCHANGED <<bootVars, snapshotVars, day>>

-----------------------------------------------------------------------------
(* StartControlPlaneSnapshotLoop. *)

Known == {s \in Snapshots : database.rows[s].status # "absent"}

SetRow(s, row) == database' = [database EXCEPT !.rows[s] = row]
At(a) == loop' = [loop EXCEPT !.at = a]
PlaneRest == UNCHANGED <<bootVars, day>>

\* Whether a day has passed since the last attempt, of any status.
MaybeRunControlPlaneSnapshot ==
  /\ server = "serving" /\ loop.at = "decide"
  /\ \/ NoFault /\ At(IF \E s \in Known : database.rows[s].created >= day THEN "list" ELSE "create")
     \/ Fault /\ At("list")
  /\ UNCHANGED <<database, snapFiles, objects, attempted>> /\ PlaneRest

\* CreateControlPlaneSnapshot: the row is inserted, then read.
CreateControlPlaneSnapshot ==
  /\ server = "serving" /\ loop.at = "create" /\ Snapshots \ attempted # {}
  /\ LET s == CHOOSE n \in Snapshots \ attempted : TRUE
         row == [NoSnapshot EXCEPT !.status = "running", !.created = day] IN
     \/ NoFault /\ SetRow(s, row) /\ attempted' = attempted \cup {s} /\ loop' = [loop EXCEPT !.at = "vacuum", !.id = s]
     \/ Fault /\ At("list") /\ SetRow(s, row) /\ attempted' = attempted \cup {s}
     \/ Fault /\ At("list") /\ UNCHANGED <<database, attempted>>
  /\ UNCHANGED <<snapFiles, objects>> /\ PlaneRest

\* The copy holds its own row, still running.
VacuumInto ==
  /\ server = "serving" /\ loop.at = "vacuum"
  /\ \/ NoFault /\ snapFiles' = [snapFiles EXCEPT ![loop.id] = database] /\ At("upload")
     \/ Fault /\ snapFiles' \in {snapFiles, [snapFiles EXCEPT ![loop.id] = Torn]} /\ At("fail")
  /\ UNCHANGED <<database, objects, attempted>> /\ PlaneRest

\* A failed copy is recorded when the row can be written.
RecordFailedSnapshot ==
  /\ server = "serving" /\ loop.at = "fail" /\ At("list")
  /\ \/ NoFault /\ SetRow(loop.id, [database.rows[loop.id] EXCEPT !.status = "failed"])
     \/ Fault /\ UNCHANGED database
  /\ UNCHANGED <<snapFiles, objects, attempted>> /\ PlaneRest

\* Best effort: without it the snapshot is local only.
UploadControlPlaneSnapshot ==
  /\ server = "serving" /\ loop.at = "upload"
  /\ \/ NoFault /\ objects' = objects \cup {loop.id} /\ loop' = [loop EXCEPT !.at = "complete", !.remote = TRUE]
     \/ Fault /\ objects' \in {objects, objects \cup {loop.id}} /\ At("complete")
  /\ UNCHANGED <<database, snapFiles, attempted>> /\ PlaneRest

CompleteControlPlaneSnapshot ==
  /\ server = "serving" /\ loop.at = "complete"
  /\ \/ /\ NoFault \/ Fault
        /\ SetRow(loop.id, [database.rows[loop.id] EXCEPT !.status = "success", !.remote = loop.remote])
     \/ Fault /\ UNCHANGED database
  /\ loop' = [Asleep EXCEPT !.at = "list"]
  /\ UNCHANGED <<snapFiles, objects, attempted>> /\ PlaneRest

\* A snapshot that retention lets go; only successes are ever looked at.
Lapsed(s) == database.rows[s].status = "success" /\ database.rows[s].created + Retention <= day

\* Mutant of ListExpiredControlPlaneSnapshots: a day too early.
ListLapsing ==
  /\ server = "serving" /\ loop.at = "list" /\ NoFault
  /\ loop' = [Asleep EXCEPT !.at = "file",
       !.expired = {s \in Snapshots : database.rows[s].status = "success" /\ database.rows[s].created + Retention <= day + 1}]
  /\ UNCHANGED <<database, snapFiles, objects, attempted>> /\ PlaneRest

ListExpiredControlPlaneSnapshots ==
  /\ server = "serving" /\ loop.at = "list"
  /\ \/ NoFault /\ loop' = [Asleep EXCEPT !.at = "file", !.expired = {s \in Snapshots : Lapsed(s)}]
     \/ Fault /\ loop' = [Asleep EXCEPT !.at = "sleep"]
  /\ UNCHANGED <<database, snapFiles, objects, attempted>> /\ PlaneRest

\* The oldest that is left; a file that cannot be removed is only logged.
NextLapsed == CHOOSE s \in loop.expired : \A r \in loop.expired : database.rows[s].created <= database.rows[r].created

RemoveSnapshotFile ==
  /\ server = "serving" /\ loop.at = "file"
  /\ IF loop.expired = {} THEN NoFault /\ loop' = [Asleep EXCEPT !.at = "sleep"] /\ UNCHANGED snapFiles
     ELSE /\ loop' = [loop EXCEPT !.at = "object", !.id = NextLapsed]
          /\ \/ NoFault /\ snapFiles' = [snapFiles EXCEPT ![NextLapsed] = None]
             \/ Fault /\ UNCHANGED snapFiles
  /\ UNCHANGED <<database, objects, attempted>> /\ PlaneRest

DeleteRemoteSnapshot ==
  /\ server = "serving" /\ loop.at = "object" /\ At("record")
  /\ \/ NoFault /\ objects' = IF database.rows[loop.id].remote THEN objects \ {loop.id} ELSE objects
     \/ Fault /\ UNCHANGED objects
  /\ UNCHANGED <<database, snapFiles, attempted>> /\ PlaneRest

\* The record goes whether or not the file and the object did.
DeleteControlPlaneSnapshotRecord ==
  /\ server = "serving" /\ loop.at = "record"
  /\ loop' = [loop EXCEPT !.at = "file", !.expired = @ \ {loop.id}]
  /\ \/ NoFault /\ SetRow(loop.id, NoSnapshot)
     \/ Fault /\ UNCHANGED database
  /\ UNCHANGED <<snapFiles, objects, attempted>> /\ PlaneRest

\* The ticker, once a day; a loop at work has missed none.
DayPasses ==
  /\ day < LastDay /\ (server = "serving" => loop.at = "sleep")
  /\ day' = day + 1
  /\ loop' = IF server = "serving" THEN [Asleep EXCEPT !.at = "decide"] ELSE loop
  /\ NoFault
  /\ UNCHANGED <<database, bootVars, snapFiles, objects, attempted>>

Starting == OpenSQLite \/ SnapshotBeforeMigrations \/ ApplyMigration \/ VerifyOrInitCanary

SnapshotLoop ==
  \/ MaybeRunControlPlaneSnapshot \/ CreateControlPlaneSnapshot \/ VacuumInto \/ RecordFailedSnapshot
  \/ UploadControlPlaneSnapshot \/ CompleteControlPlaneSnapshot
  \/ ListExpiredControlPlaneSnapshots \/ RemoveSnapshotFile \/ DeleteRemoteSnapshot
  \/ DeleteControlPlaneSnapshotRecord \/ DayPasses

PlaneNext ==
  \/ Starting \/ SnapshotLoop \/ ServerEnds
  \/ Reconfigure \/ RestoreControlPlane \/ StoreSecret

PlaneSpec == PlaneInit /\ [][PlaneNext]_planeVars

-----------------------------------------------------------------------------
Contents == [applied : Nat, canary : Keys \cup {None}, sealed : SUBSET Keys, adopted : BOOLEAN,
             rows : [Snapshots -> [status : {"absent", "running", "failed", "success"}, created : 0..LastDay, remote : BOOLEAN]]]

\* What is missing or was not finished does not pass for a database.
ASSUME FileAssumption == None \notin Contents /\ Torn \notin Contents

PlaneTypeOK ==
  /\ database \in Contents /\ preFiles \subseteq Contents
  /\ \A s \in Snapshots : snapFiles[s] \in Contents \cup {None, Torn}
  /\ objects \cup Known \subseteq attempted
  /\ loop.at # "off" <=> server = "serving"

\* A server that answers requests runs on exactly the schema it was built for,
\* with the key that sealed every secret, and what it migrated was copied
\* before: over upgrades, downgrades, changes of the key, restored snapshots
\* and starts that ended half way.  The one way around the key is a database
\* that already held secrets when its canary was sealed.
ServesWhatItUnderstands ==
  server = "serving" =>
    /\ database.applied = binary
    /\ database.sealed \subseteq {envKey} \/ database.adopted
    /\ before.applied < binary => before \in preFiles

\* A snapshot that is recorded as successful and not due for purging can be
\* restored: its file is complete, and its object is there if it has one.
SnapshotIsUsable ==
  \A s \in Known :
    database.rows[s].status = "success" /\ ~Lapsed(s) =>
      /\ snapFiles[s] \notin {None, Torn}
      /\ database.rows[s].remote => s \in objects
=============================================================================
