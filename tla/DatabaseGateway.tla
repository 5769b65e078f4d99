--------------------------- MODULE DatabaseGateway ---------------------------
(***************************************************************************)
(* The PostgreSQL gateway of HostForge: external connections, their        *)
(* credential generations, the durable queue of gateway operations, the    *)
(* worker that drains it and the PgBouncer configuration it activates      *)
(* (internal/repository/database_gateways.go, services/database_gateway_   *)
(* worker.go, _adapter.go, _runtime.go and the stop, start and delete      *)
(* handlers that rewrite the same configuration).                          *)
(*                                                                         *)
(* One endpoint and one database instance with its route.  Every store     *)
(* call is one transaction; everything between two of them interleaves     *)
(* with the other workers and with the lifecycle handlers, which take no   *)
(* lock in common.                                                         *)
(*                                                                         *)
(* Left out: the text of the rendered files beyond which roles they let    *)
(* in, CIDR lists, permission profiles, DNS and TLS waits (a failed call), *)
(* usage timestamps, and sessions (a role that may not log in has had its  *)
(* sessions terminated by the same script).                                *)
(***************************************************************************)
EXTENDS Environment, FiniteSets

CONSTANTS
  Connections,     \* ids of database_external_connections rows
  GatewayWorkers,  \* cfg.DatabaseGatewayOperationConcurrency goroutines
  Lifecycle,       \* the database handler that stops, starts or deletes the instance
  MaxGateway,      \* bound: gateway operations, stops, starts and deletions
  MaxGeneration    \* bound: credential generations per connection

ASSUME GatewayAssumption ==
  /\ Lifecycle \notin GatewayWorkers
  /\ None \notin Connections \cup GatewayWorkers \cup {Lifecycle}
  /\ MaxGateway \in Nat /\ MaxGeneration \in Nat

VARIABLES
  instance,    \* "starting", "healthy", "stopped" or "deleted"
  route,       \* desired_status of the route: "none" before the row exists
  endpoint,    \* the endpoint row: desired, container, wanted and applied generation
  connection,  \* status, current_generation and expiry of each connection
  credential,  \* state of each credential row, per connection and generation
  role,        \* what the engine holds for the role of that credential
  directories, \* generation directories on disk
  current,     \* credentials the current symlink lets in, None without a link
  loaded,      \* credentials PgBouncer lets in, None without a container
  queue,       \* gateway operations that have not ended
  listed,      \* what the claims loop has listed and not yet queued
  step,        \* where each actor is
  task,        \* what it has read and decided so far
  issued,      \* operations ever queued
  lifecycles,  \* lifecycle handlers ever started
  condemned,   \* the service of the instance is being deleted
  denied,      \* history: connections whose last operation denied them and succeeded
  leaked       \* history: roles whose best-effort removal did not happen

rowVars   == <<instance, route, connection, credential>>
planeVars == <<endpoint, directories, current, loaded>>
lifeVars  == <<lifecycles, condemned>>
gatewayVars ==
  <<rowVars, planeVars, role, queue, listed, step, task, issued, lifeVars, denied, leaked,
    environment>>

Generations == 1..MaxGeneration
Credentials == Connections \X Generations
Actors      == GatewayWorkers \cup {Lifecycle}
Larger(m, n) == IF m < n THEN n ELSE m

Status(c)      == connection[c].status
CredentialOf(c, g) == credential[<<c, g>>]

\* Mutant of Unrevoked: the generations in their grace period are forgotten.
UnrevokedActive(c) == {g \in Generations : CredentialOf(c, g) = "active"}

\* The credentials of a connection that externalCredentialRoles returns.
Unrevoked(c) == {g \in Generations : CredentialOf(c, g) \in {"active", "grace", "due"}}

\* currentExternalCredential: 0 when there is none.
CurrentCredential(c) ==
  LET n == connection[c].generation
  IN IF n \in Generations /\ CredentialOf(c, n) = "active" THEN n ELSE 0

\* The engine answers: its container runs.
EngineUp == instance = "healthy"

Idle == [kind |-> None, asked |-> None, id |-> 0, connection |-> None, generation |-> 0, previous |-> 0,
         roles |-> {}, rest |-> {}, plan |-> {}, number |-> 0, before |-> None, container |-> FALSE,
         grace |-> FALSE, undoing |-> FALSE, fresh |-> FALSE]

GatewayInit ==
  /\ instance = "starting" /\ route = "none"
  /\ endpoint = [desired |-> "absent", container |-> FALSE, wanted |-> 0, applied |-> 0]
  /\ connection = [c \in Connections |-> [status |-> "absent", generation |-> 0, expires |-> "later"]]
  /\ credential = [x \in Credentials |-> "none"] /\ role = [x \in Credentials |-> "none"]
  /\ directories = {} /\ current = None /\ loaded = None
  /\ queue = {} /\ listed = {} /\ issued = 0 /\ lifecycles = 0 /\ condemned = FALSE
  /\ step = [a \in Actors |-> "idle"] /\ task = [a \in Actors |-> Idle]
  /\ denied = {} /\ leaked = {}
  /\ EnvironmentInit

-----------------------------------------------------------------------------
(* Requests.  queueGatewayOperation inserts the row in the transaction of  *)
(* the change it belongs to; every change to a connection asks for a newer *)
(* configuration.                                                          *)

Operation(kind, c, g, grace) ==
  [id |-> issued + 1, kind |-> kind, connection |-> c, generation |-> g, grace |-> grace,
   status |-> "queued"]

QueueOperation(kind, c, g, grace) ==
  /\ issued + lifecycles < MaxGateway
  /\ queue' = queue \cup {Operation(kind, c, g, grace)}
  /\ issued' = issued + 1

IsQueued(kind, c, g) ==
  \E q \in queue : q.kind = kind /\ q.connection = c /\ q.generation = g

SetStatus(c, status) == connection' = [connection EXCEPT ![c].status = status]

BumpWanted == endpoint' = [endpoint EXCEPT !.wanted = @ + 1]

requestRest == <<instance, credential, role, directories, current, loaded, listed, step, task,
                 lifeVars, denied, leaked>>

QueueDatabaseGatewayProvision ==
  /\ endpoint.desired # "deleting"
  /\ QueueOperation("provision", None, 0, FALSE)
  /\ endpoint' = [endpoint EXCEPT !.desired = "active"]
  /\ NoFault
  /\ UNCHANGED <<requestRest, route, connection>>

QueueDatabaseGatewayTeardown ==
  /\ ~IsQueued("teardown", None, 0)
  /\ \A c \in Connections : Status(c) \in {"absent", "revoked"}
  /\ QueueOperation("teardown", None, 0, FALSE)
  /\ endpoint' = [endpoint EXCEPT !.desired = "deleting"]
  /\ NoFault
  /\ UNCHANGED <<requestRest, route, connection>>

\* An expiry that never lapses is no expiry.
CreateDatabaseExternalConnection(c) ==
  /\ Status(c) = "absent"
  /\ instance \in {"starting", "healthy"}
  /\ endpoint.desired # "deleting"
  /\ QueueOperation("create", c, 0, FALSE)
  /\ route' = "active"
  /\ connection' = [connection EXCEPT ![c] = [status |-> "pending", generation |-> 0, expires |-> "later"]]
  /\ endpoint' = [endpoint EXCEPT !.desired = "active", !.wanted = @ + 1]
  /\ NoFault
  /\ UNCHANGED requestRest

UpdateDatabaseExternalConnection(c) ==
  /\ Status(c) \notin {"absent", "revoked", "revoking"}
  /\ QueueOperation("update", c, 0, FALSE)
  /\ SetStatus(c, IF Status(c) = "failed" THEN "pending" ELSE Status(c))
  /\ BumpWanted /\ NoFault
  /\ UNCHANGED <<requestRest, route>>

\* QueueDatabaseExternalConnectionAction: the status changes before the work.
Action(c, from, kind, to, grace) ==
  /\ Status(c) \in from
  /\ QueueOperation(kind, c, 0, grace)
  /\ SetStatus(c, to)
  /\ BumpWanted /\ NoFault
  /\ UNCHANGED <<requestRest, route>>

Disable(c) == Action(c, {"active", "rotating"}, "disable", "disabled", FALSE)
Enable(c)  == connection[c].expires # "due" /\ Action(c, {"disabled", "expired", "failed"}, "enable", "pending", FALSE)
Rotate(c, grace) == Action(c, {"active"}, "rotate", "rotating", grace)
Revoke(c) ==
  /\ ~IsQueued("revoke", c, 0)
  /\ Action(c, {"pending", "active", "rotating", "disabled", "expired", "failed", "revoking"},
            "revoke", "revoking", FALSE)

-----------------------------------------------------------------------------
(* The claims loop: list what is due, then queue one transaction each.     *)

ExpiryLapses(c) ==
  /\ connection[c].expires = "later"
  /\ connection' = [connection EXCEPT ![c].expires = "due"]
  /\ NoFault
  /\ UNCHANGED <<instance, route, credential, planeVars, role, queue, listed, step, task, issued,
                 lifeVars, denied, leaked>>

GraceLapses(x) ==
  /\ credential[x] = "grace"
  /\ credential' = [credential EXCEPT ![x] = "due"]
  /\ NoFault
  /\ UNCHANGED <<instance, route, connection, planeVars, role, queue, listed, step, task, issued,
                 lifeVars, denied, leaked>>

\* Generation 0 stands for the connection itself.
DueClaims ==
  {<<c, 0>> : c \in {d \in Connections : /\ Status(d) = "active" /\ connection[d].expires = "due"
                                         /\ ~IsQueued("expire", d, 0)}}
    \cup {x \in Credentials : credential[x] = "due" /\ ~IsQueued("retire", x[1], x[2])}

ListDueClaims ==
  /\ listed = {} /\ DueClaims # {}
  /\ listed' = DueClaims
  /\ NoFault
  /\ UNCHANGED <<rowVars, planeVars, role, queue, step, task, issued, lifeVars, denied, leaked>>

QueueDueExpiration(c) ==
  /\ <<c, 0>> \in listed
  /\ listed' = listed \ {<<c, 0>>}
  /\ QueueOperation("expire", c, 0, FALSE)
  /\ SetStatus(c, IF Status(c) = "active" THEN "expired" ELSE Status(c))
  /\ NoFault
  /\ UNCHANGED <<instance, route, credential, planeVars, role, step, task, lifeVars, denied, leaked>>

QueueDueRetirement(x) ==
  /\ x \in listed \cap Credentials
  /\ listed' = listed \ {x}
  /\ QueueOperation("retire", x[1], x[2], FALSE)
  /\ NoFault
  /\ UNCHANGED <<rowVars, planeVars, role, step, task, lifeVars, denied, leaked>>

-----------------------------------------------------------------------------
(* The worker: claim, then the steps of the handler.                       *)

Busy == {task[a].id : a \in {b \in GatewayWorkers : step[b] # "idle"}}

\* A lease lapses only once nobody renews it.
Claimable(q) ==
  /\ q.status \in {"queued", "lapsed"}
  /\ q.kind = "create" => instance = "healthy"

OldestFirst(q) == \A p \in queue : p.id < q.id => ~Claimable(p)

SetQueued(q, status) == queue' = (queue \ {q}) \cup {[q EXCEPT !.status = status]}

ClaimNextDatabaseGatewayOperation(a) ==
  /\ step[a] = "idle"
  /\ \E q \in queue :
       /\ Claimable(q) /\ OldestFirst(q)
       /\ SetQueued(q, "running")
       /\ step' = [step EXCEPT ![a] = "read"]
       /\ task' = [task EXCEPT ![a] =
            [Idle EXCEPT !.kind = q.kind, !.asked = q.kind, !.id = q.id,
                         !.connection = q.connection, !.generation = q.generation, !.grace = q.grace]]
  /\ NoFault
  /\ UNCHANGED <<rowVars, planeVars, role, listed, issued, lifeVars, denied, leaked>>

\* Mutant of EndOf: an operation that failed stays running.
EndOfSuccess(a, outcome) ==
  IF outcome = "success" THEN {q \in queue : q.id # task[a].id} ELSE queue

\* UpdateDatabaseGatewayOperation: an ended operation is no longer claimable.
EndOf(a, outcome) == {q \in queue : q.id # task[a].id}

\* A denial that succeeded holds until another operation on the connection ends.
Denials == {"disable", "expire", "revoke"}
Settle(a, outcome) ==
  denied' = IF task[a].connection = None \/ task[a].asked = "retire" THEN denied
            ELSE IF task[a].asked \in Denials /\ outcome = "success"
                 THEN denied \cup {task[a].connection}
                 ELSE denied \ {task[a].connection}

\* Mutant of Finish: what one operation read is still there for the next.
FinishKeepingTask(a) == step' = [step EXCEPT ![a] = "idle"] /\ UNCHANGED task

Finish(a) == step' = [step EXCEPT ![a] = "idle"] /\ task' = [task EXCEPT ![a] = Idle]

\* An operation that is about to end has no use for what it read.
Ending(t) == [Idle EXCEPT !.kind = t.kind, !.asked = t.asked, !.id = t.id, !.connection = t.connection]

Goto(a, s) ==
  /\ step' = [step EXCEPT ![a] = s]
  /\ task' = IF s \in {"succeed", "fail"} THEN [task EXCEPT ![a] = Ending(@)] ELSE task

\* The call of this step fails.
FaultAt(a, s) == Fault /\ Goto(a, s)

EngineRefuses(a, s) == NoFault /\ Goto(a, s)

NeedsNewCredential(t) == t.kind \in {"create", "rotate"} \/ (t.kind = "enable" /\ t.previous = 0)

\* Where the failure of a step leads before a credential row exists, and after.
FailStep(a) == IF task[a].kind \in {"pause", "resume"} THEN "unroute"
               ELSE IF task[a].kind = "delete"
                    THEN IF step[a] \in {"render", "activate", "reload", "record"} THEN "close" ELSE "give_up"
               ELSE IF NeedsNewCredential(task[a]) /\ ~task[a].undoing THEN "undo" ELSE "fail"

ReadRows(a) ==
  /\ step[a] = "read"
  /\ LET t == task[a]
         c == t.connection
         read == IF c = None THEN t
                 ELSE IF t.kind = "retire" THEN [t EXCEPT !.roles = {t.generation}]
                 ELSE [t EXCEPT !.previous = CurrentCredential(c), !.roles = Unrevoked(c),
                                !.generation = connection[c].generation + 1]
     IN /\ task' = [task EXCEPT ![a] = read]
        /\ step' = [step EXCEPT ![a] =
             CASE t.kind = "provision"     -> "render"
               [] t.kind = "teardown"      -> "remove"
               [] NeedsNewCredential(read) -> "insert"
               [] OTHER                    -> "deny"]
  /\ NoFault
  /\ UNCHANGED <<rowVars, planeVars, role, queue, listed, issued, lifeVars, denied, leaked>>

\* Before the row exists a failed rotation only puts the status back.
AbandonCredential(a) ==
  /\ connection' = IF task[a].kind = "rotate"
                   THEN [connection EXCEPT ![task[a].connection].status = "active"] ELSE connection
  /\ UNCHANGED <<credential, role>>

\* ProvisionRole, then CreateDatabaseExternalCredentialWithIdentity.  Rows are
\* unique per connection and generation; a role without a row is removed again.
InsertCredential(a) ==
  LET c == task[a].connection
      g == task[a].generation
      free == EngineUp /\ g = connection[c].generation + 1 /\ CredentialOf(c, g) = "none"
  IN /\ step[a] = "insert" /\ g \in Generations
     /\ \/ /\ free
           /\ credential' = [credential EXCEPT ![<<c, g>>] = "active"]
           /\ role' = [role EXCEPT ![<<c, g>>] = "login"]
           /\ connection' = [connection EXCEPT ![c].generation = g]
           /\ NoFault /\ Goto(a, "render")
        \/ free /\ FaultAt(a, "fail") /\ AbandonCredential(a)
        \/ ~free /\ EngineRefuses(a, "fail") /\ AbandonCredential(a)
     /\ UNCHANGED <<instance, route, planeVars, queue, listed, issued, lifeVars, denied, leaked>>

\* The scripts run role by role, newest generation first; the first that
\* fails ends the loop.  A role that is gone fails.
SetRoles(c, gs, value) ==
  role' = [x \in Credentials |-> IF x[1] = c /\ x[2] \in gs THEN value ELSE role[x]]

Newer(gs, n) == {g \in gs : g > n}

Missing(c, gs) == {g \in gs : role[<<c, g>>] = "none"}

RunOnRoles(a, c, gs, value, next) ==
  \/ /\ gs = {} \/ (EngineUp /\ Missing(c, gs) = {})
     /\ SetRoles(c, gs, value) /\ NoFault /\ Goto(a, next)
  \/ \E n \in gs : /\ n \in Missing(c, gs) \/ ~EngineUp
                   /\ Newer(gs, n) \cap Missing(c, gs) = {}
                   /\ SetRoles(c, IF EngineUp THEN Newer(gs, n) ELSE {}, value)
                   /\ EngineRefuses(a, FailStep(a))
  \/ \E n \in gs : /\ EngineUp
                   /\ (Newer(gs, n) \cup {n}) \cap Missing(c, gs) = {}
                   /\ SetRoles(c, Newer(gs, n), value)
                   /\ FaultAt(a, FailStep(a))

\* Mutant of DisableRoles: denial is left to the configuration.
DisableRolesLater(a) ==
  /\ step[a] = "deny" /\ NoFault
  /\ Goto(a, IF task[a].kind = "delete" THEN "drop" ELSE "render")
  /\ UNCHANGED <<rowVars, planeVars, role, queue, listed, issued, lifeVars, denied, leaked>>

\* disablePostgreSQLRoles comes before the data plane, so that a denial fails closed.
DisableRoles(a) ==
  /\ step[a] = "deny"
  /\ RunOnRoles(a, task[a].connection, task[a].roles, "nologin",
                IF task[a].kind = "delete" THEN "drop" ELSE "render")
  /\ UNCHANGED <<rowVars, planeVars, queue, listed, issued, lifeVars, denied, leaked>>

-----------------------------------------------------------------------------
(* ensurePostgreSQLGatewayDataPlane: read the endpoint and the rows, write *)
(* a generation directory, swap the symlink, reload, record.               *)

\* Mutant of LetsIn: only what the store calls active is rendered.
LetsIn(c, included) == Status(c) \in {"active", "rotating"} \/ c \in included

\* buildPostgreSQLGatewayRenderRequest.
Rendered(included, excluded) ==
  IF route = "active" /\ instance = "healthy"
  THEN {x \in Credentials : /\ LetsIn(x[1], included)
                            /\ x[2] \in Unrevoked(x[1]) /\ x \notin excluded}
  ELSE {}

Included(t) ==
  IF t.kind \in {"create", "rotate", "enable", "update", "retire"} /\ ~t.undoing THEN {t.connection} ELSE {}

Excluded(t) == IF t.kind = "retire" THEN {<<t.connection, t.generation>>} ELSE {}

NextNumber == Larger(Larger(endpoint.wanted, endpoint.applied + 1), 1)

RenderConfiguration(a) ==
  /\ step[a] = "render"
  /\ \/ /\ NoFault
        /\ step' = [step EXCEPT ![a] = "activate"]
        /\ task' = [task EXCEPT ![a].plan = Rendered(Included(task[a]), Excluded(task[a])),
                                ![a].number = NextNumber,
                                ![a].container = endpoint.container]
     \/ FaultAt(a, FailStep(a))
  /\ UNCHANGED <<rowVars, planeVars, role, queue, listed, issued, lifeVars, denied, leaked>>

\* WriteInactiveDatabaseGatewayGeneration refuses a directory that exists;
\* ActivateDatabaseGatewayGeneration remembers the link it replaces.
ActivateGeneration(a) ==
  /\ step[a] = "activate"
  /\ NoFault
  /\ IF task[a].number \in directories
     THEN Goto(a, FailStep(a)) /\ UNCHANGED <<directories, current>>
     ELSE /\ directories' = directories \cup {task[a].number}
          /\ current' = task[a].plan
          /\ task' = [task EXCEPT ![a].before = current]
          /\ step' = [step EXCEPT ![a] = "reload"]
  /\ UNCHANGED <<rowVars, endpoint, loaded, role, queue, listed, issued, lifeVars, denied, leaked>>

\* The container exists or is created; the instances behind the rendered
\* routes are healthy; PgBouncer reads whatever the link now points to.
DataPlaneUp(a) ==
  /\ task[a].container <=> loaded # None
  /\ current # None
  /\ task[a].plan # {} => instance = "healthy"

\* RestoreDatabaseGatewayGeneration, and a reload nobody checks.
RestoreGeneration(a) ==
  /\ current' = task[a].before
  /\ loaded' \in IF task[a].fresh THEN {None}
                 ELSE IF task[a].container /\ task[a].before # None /\ loaded # None
                      THEN {task[a].before, loaded} ELSE {loaded}

ReloadPgBouncer(a) ==
  /\ step[a] = "reload"
  /\ \/ /\ DataPlaneUp(a)
        /\ loaded' = current
        /\ route' = IF task[a].plan # {} THEN "active" ELSE route
        /\ NoFault
        /\ step' = [step EXCEPT ![a] = "record"]
        /\ task' = [task EXCEPT ![a].fresh = ~task[a].container]
        /\ UNCHANGED current
     \/ /\ DataPlaneUp(a)
        /\ RestoreGeneration(a) /\ FaultAt(a, FailStep(a)) /\ UNCHANGED route
     \/ /\ ~DataPlaneUp(a)
        /\ RestoreGeneration(a) /\ EngineRefuses(a, FailStep(a)) /\ UNCHANGED route
  /\ UNCHANGED <<instance, connection, credential, endpoint, directories, role, queue, listed,
                 issued, lifeVars, denied, leaked>>

\* What follows the data plane.
AfterDataPlane(t) ==
  IF t.undoing THEN "fail"
  ELSE IF NeedsNewCredential(t) THEN "probe"
  ELSE CASE t.kind \in {"update", "enable"} -> "permit"
         [] t.kind \in {"revoke", "retire"} -> "drop"
         [] t.kind = "pause"                -> "stop"
         [] t.kind = "delete"               -> "close"
         [] OTHER                           -> "succeed"

\* What is left of a task once its configuration is recorded.
Applied(t) ==
  IF AfterDataPlane(t) \in {"succeed", "fail"} THEN Ending(t)
  ELSE [t EXCEPT !.plan = {}, !.number = 0, !.before = None, !.container = FALSE, !.fresh = FALSE]

\* SetDatabaseGatewayEndpointState writes what this call read and chose,
\* whatever another call or request has written since.
RecordEndpoint(a) ==
  /\ step[a] = "record"
  /\ \/ /\ endpoint' = [desired |-> "active", container |-> TRUE,
                        wanted |-> task[a].number, applied |-> task[a].number]
        /\ NoFault
        /\ step' = [step EXCEPT ![a] = AfterDataPlane(task[a])]
        /\ task' = [task EXCEPT ![a] = Applied(@)]
        /\ UNCHANGED <<current, loaded>>
     \/ RestoreGeneration(a) /\ FaultAt(a, FailStep(a)) /\ UNCHANGED endpoint
  /\ UNCHANGED <<rowVars, directories, role, queue, listed, issued, lifeVars, denied, leaked>>

-----------------------------------------------------------------------------
(* What the handlers do once the configuration is loaded.                  *)

\* update and enable let the roles in again only now.
PermitRoles(a) ==
  /\ step[a] = "permit"
  /\ RunOnRoles(a, task[a].connection, task[a].roles, "login",
                IF task[a].previous = 0 THEN "fail" ELSE "probe")
  /\ UNCHANGED <<rowVars, planeVars, queue, listed, issued, lifeVars, denied, leaked>>

ProbedGeneration(t) == IF NeedsNewCredential(t) THEN t.generation ELSE t.previous

\* The probe logs in through PgBouncer with the credential it expects to work.
ProbeSucceeds(a) ==
  LET x == <<task[a].connection, ProbedGeneration(task[a])>>
  IN loaded # None /\ x \in loaded /\ role[x] = "login" /\ EngineUp

Probe(a) ==
  /\ step[a] = "probe"
  /\ \/ ProbeSucceeds(a) /\ NoFault /\ Goto(a, "commit")
     \/ ProbeSucceeds(a) /\ FaultAt(a, FailStep(a))
     \/ ~ProbeSucceeds(a) /\ EngineRefuses(a, FailStep(a))
  /\ UNCHANGED <<rowVars, planeVars, role, queue, listed, issued, lifeVars, denied, leaked>>

\* The statuses CompleteDatabaseExternalCredentialRotation accepts.
Completes(c) == Status(c) \in {"pending", "rotating", "failed"}

\* The deadline is the end of the grace period, now when there is none.
GraceState(t) == IF t.grace THEN "grace" ELSE "due"

\* A zero grace period retires generation N within the same operation.
CompleteRotation(a) ==
  LET t == task[a]
      c == t.connection
  IN /\ step[a] = "commit" /\ NeedsNewCredential(t)
     /\ \/ /\ Completes(c)
           /\ connection' = [connection EXCEPT ![c].status = "active"]
           /\ credential' = IF t.previous # 0 /\ CredentialOf(c, t.previous) = "active"
                            THEN [credential EXCEPT ![<<c, t.previous>>] = GraceState(t)]
                            ELSE credential
           /\ NoFault
           /\ IF t.previous # 0 /\ ~t.grace
              THEN /\ step' = [step EXCEPT ![a] = "deny"]
                   /\ task' = [task EXCEPT ![a].kind = "retire", ![a].generation = t.previous,
                                           ![a].roles = {t.previous}]
              ELSE Goto(a, "succeed")
        \/ Completes(c) /\ FaultAt(a, "undo") /\ UNCHANGED <<connection, credential>>
        \/ ~Completes(c) /\ EngineRefuses(a, "undo") /\ UNCHANGED <<connection, credential>>
     /\ UNCHANGED <<instance, route, planeVars, role, queue, listed, issued, lifeVars, denied, leaked>>

\* update and enable end with the status active, whatever it became meanwhile.
CommitActive(a) ==
  /\ step[a] = "commit" /\ task[a].kind \in {"update", "enable"} /\ ~NeedsNewCredential(task[a])
  /\ \/ SetStatus(task[a].connection, "active") /\ NoFault /\ Goto(a, "succeed")
     \/ FaultAt(a, "fail") /\ UNCHANGED connection
  /\ UNCHANGED <<instance, route, credential, planeVars, role, queue, listed, issued, lifeVars,
                 denied, leaked>>

\* RevokeRole for each credential, before any row says revoked.
DropRoles(a) ==
  /\ step[a] = "drop"
  /\ RunOnRoles(a, task[a].connection, task[a].roles, "none", "commit")
  /\ UNCHANGED <<rowVars, planeVars, queue, listed, issued, lifeVars, denied, leaked>>

RevokedRows(c, gs) ==
  [x \in Credentials |-> IF x[1] = c /\ x[2] \in gs /\ credential[x] # "none" THEN "revoked"
                         ELSE credential[x]]

\* FinalizeDatabaseExternalConnectionRevocation revokes every row there is,
\* also one this operation never listed.
FinalizeRevocation(a) ==
  LET c == task[a].connection
  IN /\ step[a] = "commit" /\ task[a].kind \in {"revoke", "delete"}
     /\ \/ /\ credential' = RevokedRows(c, Generations)
           /\ connection' = [connection EXCEPT ![c].status = "revoked"]
           /\ NoFault /\ Goto(a, IF task[a].kind = "revoke" THEN "close" ELSE "next")
        \/ FaultAt(a, FailStep(a)) /\ UNCHANGED <<connection, credential>>
     /\ UNCHANGED <<instance, route, planeVars, role, queue, listed, issued, lifeVars, denied, leaked>>

RevokeRetired(a) ==
  LET x == <<task[a].connection, task[a].generation>>
  IN /\ step[a] = "commit" /\ task[a].kind = "retire"
     /\ \/ /\ credential[x] # "revoked"
           /\ credential' = [credential EXCEPT ![x] = "revoked"]
           /\ NoFault /\ Goto(a, "succeed")
        \/ credential[x] # "revoked" /\ FaultAt(a, "fail") /\ UNCHANGED credential
        \/ credential[x] = "revoked" /\ EngineRefuses(a, "fail") /\ UNCHANGED credential
     /\ UNCHANGED <<instance, route, connection, planeVars, role, queue, listed, issued, lifeVars,
                    denied, leaked>>

\* cleanupUnusedPostgreSQLGatewayRoute.
CleanupRoute(a) ==
  /\ step[a] = "close"
  /\ \/ /\ NoFault
        /\ route' = IF \A c \in Connections : Status(c) \in {"absent", "revoked"} THEN "disabled" ELSE route
        /\ Goto(a, IF task[a].kind = "delete" THEN "remove" ELSE "succeed")
     \/ /\ \A c \in Connections : Status(c) \in {"absent", "revoked"}
        /\ FaultAt(a, FailStep(a)) /\ UNCHANGED route
  /\ UNCHANGED <<instance, connection, credential, planeVars, role, queue, listed, issued,
                 lifeVars, denied, leaked>>

\* teardownPostgreSQLGateway: the counters go back to 0, the directories stay.
RemoveGateway(a) ==
  /\ step[a] = "remove" /\ task[a].kind = "teardown"
  /\ \/ /\ endpoint' = [desired |-> "absent", container |-> FALSE, wanted |-> 0, applied |-> 0]
        /\ loaded' = IF endpoint.container THEN None ELSE loaded
        /\ NoFault /\ Goto(a, "succeed")
     \/ /\ FaultAt(a, "fail") /\ loaded' \in {loaded, IF endpoint.container THEN None ELSE loaded}
        /\ UNCHANGED endpoint
  /\ UNCHANGED <<rowVars, directories, current, role, queue, listed, issued, lifeVars, denied, leaked>>

-----------------------------------------------------------------------------
(* A failed new credential: the row, then the role, then the data plane.   *)

\* RollbackDatabaseExternalCredentialRotation makes generation N current and
\* the connection active; otherwise RevokeDatabaseExternalCredential.
UndoCredential(a) ==
  LET t == task[a]
      c == t.connection
      rollback == t.kind = "rotate" /\ t.previous # 0
  IN /\ step[a] = "undo"
     /\ \/ /\ credential' = IF rollback /\ connection[c].generation <= t.previous THEN credential
                            ELSE RevokedRows(c, {t.generation})
           /\ connection' = IF rollback /\ connection[c].generation > t.previous
                            THEN [connection EXCEPT ![c].generation = t.previous, ![c].status = "active"]
                            ELSE connection
           /\ NoFault /\ Goto(a, "undrop")
        \/ FaultAt(a, "undrop") /\ UNCHANGED <<connection, credential>>
     /\ UNCHANGED <<instance, route, planeVars, role, queue, listed, issued, lifeVars, denied, leaked>>

\* Best effort: nothing looks at the error.
UndoRole(a) ==
  LET x == <<task[a].connection, task[a].generation>>
      unremoved == role[x] # "none"
  IN /\ step[a] = "undrop"
     /\ step' = [step EXCEPT ![a] = "render"]
     /\ \/ /\ EngineUp /\ role' = [role EXCEPT ![x] = "none"] /\ NoFault
           /\ task' = [task EXCEPT ![a].undoing = TRUE] /\ UNCHANGED leaked
        \/ /\ EngineUp /\ Fault /\ UNCHANGED role
           /\ task' = [task EXCEPT ![a].undoing = TRUE]
           /\ leaked' = IF unremoved THEN leaked \cup {x} ELSE leaked
        \/ /\ ~EngineUp /\ NoFault /\ UNCHANGED role
           /\ task' = [task EXCEPT ![a].undoing = TRUE]
           /\ leaked' = IF unremoved THEN leaked \cup {x} ELSE leaked
     /\ UNCHANGED <<rowVars, planeVars, queue, listed, issued, lifeVars, denied>>

\* The operations whose failure the connection shows.
FailedStatus(t) == t.connection # None /\ t.asked \in {"create", "update", "enable"}

EndOperation(a) ==
  /\ step[a] \in {"succeed", "fail"} /\ a \in GatewayWorkers
  /\ LET outcome == IF step[a] = "succeed" THEN "success" ELSE "failed"
     IN /\ queue' = EndOf(a, outcome)
        /\ Settle(a, outcome)
        /\ connection' = IF outcome = "failed" /\ FailedStatus(task[a])
                         THEN [connection EXCEPT ![task[a].connection].status = "failed"] ELSE connection
  /\ Finish(a) /\ NoFault
  /\ UNCHANGED <<instance, route, credential, planeVars, role, listed, issued, lifeVars, leaked>>

-----------------------------------------------------------------------------
(* The database handlers that rewrite the gateway configuration.           *)

lifecycleRest == <<credential, endpoint, directories, current, loaded, role, queue, listed, issued,
                   denied, leaked>>

BeginLifecycle ==
  step[Lifecycle] = "idle" /\ issued + lifecycles < MaxGateway /\ lifecycles' = lifecycles + 1

InstanceBecomesHealthy ==
  /\ instance = "starting" /\ instance' = "healthy" /\ NoFault
  /\ UNCHANGED <<route, connection, step, task, lifeVars, lifecycleRest>>

\* FailQueuedInitialDatabaseExternalConnections, when the provision fails.
ProvisionFails ==
  /\ instance = "starting"
  /\ Fault
  /\ LET pending == {c \in Connections : Status(c) = "pending"}
     IN /\ pending # {}
        /\ connection' = [c \in Connections |-> IF c \in pending THEN [connection[c] EXCEPT !.status = "failed"]
                                                ELSE connection[c]]
        /\ queue' = {q \in queue : ~(q.kind = "create" /\ q.status = "queued" /\ q.connection \in pending)}
  /\ UNCHANGED <<instance, route, step, task, lifeVars, credential, endpoint, directories, current,
                 loaded, role, listed, issued, denied, leaked>>

\* pausePostgreSQLGatewayRoute, before the container is stopped.
BeginStop ==
  /\ BeginLifecycle /\ instance = "healthy" /\ NoFault
  /\ route' = IF route = "active" THEN "disabled" ELSE route
  /\ step' = [step EXCEPT ![Lifecycle] = IF route = "active" THEN "render" ELSE "stop"]
  /\ task' = [task EXCEPT ![Lifecycle] = [Idle EXCEPT !.kind = "pause"]]
  /\ UNCHANGED <<instance, connection, condemned, lifecycleRest>>

StopInstance ==
  /\ step[Lifecycle] = "stop"
  /\ \/ instance' = "stopped" /\ NoFault
     \/ Fault /\ UNCHANGED instance
  /\ Finish(Lifecycle)
  /\ UNCHANGED <<route, connection, lifeVars, lifecycleRest>>

BeginStart ==
  /\ BeginLifecycle /\ instance = "stopped" /\ NoFault
  /\ instance' = "healthy"
  /\ step' = [step EXCEPT ![Lifecycle] = "reopen"]
  /\ task' = [task EXCEPT ![Lifecycle] = [Idle EXCEPT !.kind = "resume"]]
  /\ UNCHANGED <<route, connection, condemned, lifecycleRest>>

\* resumePostgreSQLGatewayRoute leaves a route nobody can use closed.
ReopenRoute ==
  /\ step[Lifecycle] = "reopen" /\ NoFault
  /\ IF \E c \in Connections : Status(c) \in {"active", "rotating"}
     THEN route' = "active" /\ Goto(Lifecycle, "render")
     ELSE Finish(Lifecycle) /\ UNCHANGED route
  /\ UNCHANGED <<instance, connection, lifeVars, lifecycleRest>>

\* A pause that failed opens the route again, a resume that failed closes it.
UndoRoute ==
  /\ step[Lifecycle] = "unroute"
  /\ route' = IF task[Lifecycle].kind = "pause" THEN "active" ELSE "disabled"
  /\ Finish(Lifecycle) /\ NoFault
  /\ UNCHANGED <<instance, connection, lifeVars, lifecycleRest>>

\* revokePostgreSQLGatewayRouteForDeletion: close the route, list the connections.
BeginDelete ==
  /\ BeginLifecycle /\ instance # "deleted" /\ condemned' = TRUE /\ NoFault
  /\ route' = IF route = "none" THEN "none" ELSE "disabled"
  /\ step' = [step EXCEPT ![Lifecycle] = IF route = "none" THEN "remove" ELSE "next"]
  /\ task' = [task EXCEPT ![Lifecycle] =
       [Idle EXCEPT !.kind = "delete", !.rest = {c \in Connections : Status(c) \notin {"absent", "revoked"}}]]
  /\ UNCHANGED <<instance, connection, lifecycleRest>>

RevokeNext ==
  /\ step[Lifecycle] = "next" /\ NoFault
  /\ IF task[Lifecycle].rest = {}
     THEN Goto(Lifecycle, "render") /\ UNCHANGED connection
     ELSE \E c \in task[Lifecycle].rest :
            /\ SetStatus(c, "revoking")
            /\ step' = [step EXCEPT ![Lifecycle] = "deny"]
            /\ task' = [task EXCEPT ![Lifecycle].rest = @ \ {c}, ![Lifecycle].connection = c,
                                    ![Lifecycle].roles = Unrevoked(c)]
  /\ UNCHANGED <<instance, route, lifeVars, lifecycleRest>>

RemoveInstance ==
  /\ step[Lifecycle] = "remove" /\ NoFault
  /\ instance' = "deleted"
  /\ Finish(Lifecycle)
  /\ UNCHANGED <<route, connection, lifeVars, lifecycleRest>>

EndLifecycle ==
  /\ step[Lifecycle] \in {"succeed", "give_up"} /\ NoFault
  /\ Finish(Lifecycle)
  /\ UNCHANGED <<instance, route, connection, lifeVars, lifecycleRest>>

-----------------------------------------------------------------------------
(* A process end keeps the rows, the roles and the files.  The boot        *)
(* requeues what has no live lease and provisions an endpoint in use.      *)

GatewayCrash ==
  /\ ProcessCrash
  /\ \E lapsed \in SUBSET {q \in queue : q.status = "running"} :
       LET kept == (queue \ lapsed) \cup {[q EXCEPT !.status = "queued"] : q \in lapsed}
           starts == endpoint.desired = "active" /\ ~IsQueued("provision", None, 0)
       IN /\ queue' = IF starts THEN kept \cup {Operation("provision", None, 0, FALSE)} ELSE kept
          /\ issued' = IF starts THEN issued + 1 ELSE issued
  /\ step' = [a \in Actors |-> "idle"] /\ task' = [a \in Actors |-> Idle]
  /\ listed' = {}
  /\ leaked' = leaked \cup {<<task[a].connection, task[a].generation>> : a \in {b \in Actors : step[b] = "undrop"}}
  /\ UNCHANGED <<rowVars, planeVars, role, lifeVars, denied>>

LeaseLapses(q) ==
  /\ q \in queue /\ q.status = "running" /\ q.id \notin Busy
  /\ SetQueued(q, "lapsed")
  /\ NoFault
  /\ UNCHANGED <<rowVars, planeVars, role, listed, step, task, issued, lifeVars, denied, leaked>>

-----------------------------------------------------------------------------
ExternalRequest(c) ==
  \/ CreateDatabaseExternalConnection(c)
  \/ UpdateDatabaseExternalConnection(c)
  \/ Disable(c) \/ Enable(c) \/ Revoke(c)
  \/ \E grace \in BOOLEAN : Rotate(c, grace)

DataPlaneStep(a) ==
  RenderConfiguration(a) \/ ActivateGeneration(a) \/ ReloadPgBouncer(a) \/ RecordEndpoint(a)

HandlerStep(a) ==
  \/ ReadRows(a) \/ InsertCredential(a) \/ PermitRoles(a) \/ Probe(a) \/ CompleteRotation(a)
  \/ CommitActive(a) \/ RevokeRetired(a) \/ RemoveGateway(a)
  \/ UndoCredential(a) \/ UndoRole(a) \/ EndOperation(a)

RevocationStep(a) ==
  DisableRoles(a) \/ DropRoles(a) \/ FinalizeRevocation(a) \/ CleanupRoute(a)

ActorStep(a) == DataPlaneStep(a) \/ HandlerStep(a) \/ RevocationStep(a)

LifecycleStep ==
  \/ StopInstance \/ ReopenRoute \/ UndoRoute \/ RevokeNext \/ RemoveInstance \/ EndLifecycle

GatewayClaims ==
  ListDueClaims \/ (\E c \in Connections : QueueDueExpiration(c)) \/ (\E x \in Credentials : QueueDueRetirement(x))

GatewayNext ==
  \/ QueueDatabaseGatewayProvision \/ QueueDatabaseGatewayTeardown
  \/ \E c \in Connections : ExternalRequest(c) \/ ExpiryLapses(c)
  \/ \E x \in Credentials : GraceLapses(x)
  \/ GatewayClaims
  \/ \E a \in GatewayWorkers : ClaimNextDatabaseGatewayOperation(a)
  \/ \E a \in Actors : ActorStep(a)
  \/ InstanceBecomesHealthy \/ ProvisionFails \/ BeginStop \/ BeginStart \/ BeginDelete \/ LifecycleStep
  \/ GatewayCrash \/ \E q \in queue : LeaseLapses(q)

\* The worker loops until the process ends, and a lease nobody renews lapses.
GatewayFairness ==
  /\ \A a \in GatewayWorkers : WF_gatewayVars(ClaimNextDatabaseGatewayOperation(a) \/ ActorStep(a))
  /\ WF_gatewayVars(\E q \in queue : LeaseLapses(q))

GatewaySpec == GatewayInit /\ [][GatewayNext]_gatewayVars /\ GatewayFairness

-----------------------------------------------------------------------------
(* Properties.                                                             *)

CredentialStates == {"none", "active", "grace", "due", "revoked"}

\* Every variable has its type; an idle actor remembers nothing.
GatewayTypeOK ==
  /\ instance \in {"starting", "healthy", "stopped", "deleted"}
  /\ route \in {"none", "active", "disabled"}
  /\ endpoint.desired \in {"absent", "active", "deleting"} /\ endpoint.wanted \in Nat /\ endpoint.applied \in Nat
  /\ \A c \in Connections :
       /\ Status(c) \in {"absent", "pending", "active", "rotating", "disabled", "expired", "failed",
                         "revoking", "revoked"}
       /\ connection[c].generation \in 0..MaxGeneration
       /\ connection[c].expires \in {"later", "due"}
  /\ credential \in [Credentials -> CredentialStates]
  /\ role \in [Credentials -> {"none", "login", "nologin"}]
  /\ \A n \in directories : n \in Nat
  /\ \A served \in {current, loaded} : served = None \/ \A x \in served : x \in Credentials
  /\ listed \subseteq Connections \X (0..MaxGeneration)
  /\ \A a \in Actors : step[a] = "idle" => task[a] = Idle
  /\ denied \subseteq Connections /\ leaked \subseteq Credentials

Working(c) == \E a \in Actors : step[a] # "idle" /\ task[a].connection = c

\* No operation on the connection is queued or under way.
Settled(c) == \A q \in queue : q.connection # c

\* A credential a client can log in with: PgBouncer lets it in and the engine too.
Usable(x) == loaded # None /\ x \in loaded /\ role[x] = "login"

\* A role that outlives its row: its best-effort removal was lost, or the row
\* went with a deletion of the database, whose roles go with its container.
Outlives(x) == x \in leaked \/ (condemned /\ credential[x] = "revoked")

\* With one worker, a revoked row never leaves a role behind that may log in,
\* except while the operation that made it is undoing it, or when it outlives
\* its row: revocation drops the roles first and writes the rows last, against
\* requests, lapses and the handlers of the database that run at the same time.
RevokedRowHasNoLogin ==
  \A x \in Credentials :
    credential[x] = "revoked" /\ role[x] = "login" => Outlives(x) \/ Working(x[1])

\* With one worker, once a disable, expire or revoke has succeeded, no credential
\* of the connection is usable until another operation on it has ended, whatever
\* configuration an older snapshot of another actor loads afterwards; after a
\* process end, until the operation it interrupted has been run again.  Only a
\* role that outlives its row can still be let in by such a snapshot.
DenialHolds ==
  \A c \in denied :
    ~Working(c) /\ (crashes = 0 \/ Settled(c)) =>
      \A g \in Generations : Usable(<<c, g>>) => Outlives(<<c, g>>)

\* Again and again the worker has ended every gateway operation there is, but
\* for the creations whose database is not healthy, which nobody can claim.
GatewayQueueDrains ==
  []<>(\A q \in queue : q.kind = "create" /\ instance # "healthy")
=============================================================================
