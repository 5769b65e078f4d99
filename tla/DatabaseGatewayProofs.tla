------------------------ MODULE DatabaseGatewayProofs ------------------------
(***************************************************************************)
(* Theorems about DatabaseGateway, for every set of connections and every  *)
(* bound: the types, for any number of workers; and with one worker, which *)
(* is the default of HOSTFORGE_DATABASE_GATEWAY_OPERATION_CONCURRENCY,     *)
(* that a revoked row has no role that may log in and that a denial holds. *)
(* With two workers neither is true: see README, section 4.                *)
(***************************************************************************)
EXTENDS DatabaseGateway, TLAPS

(***************************************************************************)
(* Types.                                                                  *)

WorkerKinds == {"provision", "teardown", "create", "update", "disable", "enable", "rotate", "expire",
                "revoke", "retire"}
LifecycleKinds == {"pause", "resume", "delete"}
ConnectionKinds == WorkerKinds \ {"provision", "teardown"}
Kinds == WorkerKinds \cup LifecycleKinds

Statuses == {"absent", "pending", "active", "rotating", "disabled", "expired", "failed", "revoking",
             "revoked"}
Roles == {"none", "login", "nologin"}

ConnectionRows == [status : Statuses, generation : 0..MaxGeneration, expires : {"later", "due"}]
EndpointRows == [desired : {"absent", "active", "deleting"}, container : BOOLEAN, wanted : Nat,
                 applied : Nat]
QueueRows == [id : Nat, kind : WorkerKinds, connection : Connections \cup {None},
              generation : 0..MaxGeneration, grace : BOOLEAN, status : {"queued", "running", "lapsed"}]
Configurations == {None} \cup SUBSET Credentials

Tasks == [kind : Kinds \cup {None}, asked : Kinds \cup {None}, id : Nat,
          connection : Connections \cup {None}, generation : 0..(MaxGeneration + 1),
          previous : 0..MaxGeneration, roles : SUBSET Generations, rest : SUBSET Connections,
          plan : SUBSET Credentials, number : Nat, before : Configurations, container : BOOLEAN,
          grace : BOOLEAN, undoing : BOOLEAN, fresh : BOOLEAN]

Places == {"idle", "read", "insert", "deny", "render", "activate", "reload", "record", "permit",
           "probe", "commit", "drop", "close", "remove", "undo", "undrop", "succeed", "fail",
           "stop", "reopen", "unroute", "next", "give_up"}

\* A queued operation names what its handler needs.
Named(q) ==
  /\ q.kind \in ConnectionKinds => q.connection \in Connections
  /\ q.kind = "retire" => q.generation \in Generations

RowsTyped ==
  /\ instance \in {"starting", "healthy", "stopped", "deleted"}
  /\ route \in {"none", "active", "disabled"}
  /\ endpoint \in EndpointRows
  /\ connection \in [Connections -> ConnectionRows]
  /\ condemned \in BOOLEAN /\ lifecycles \in Nat /\ issued \in Nat /\ crashes \in Nat

CredentialsTyped ==
  /\ credential \in [Credentials -> CredentialStates]
  /\ role \in [Credentials -> Roles]

PlaneTyped ==
  /\ directories \subseteq Nat
  /\ current \in Configurations /\ loaded \in Configurations

QueueTyped ==
  /\ queue \subseteq QueueRows
  /\ \A q \in queue : Named(q)
  /\ listed \subseteq Connections \X (0..MaxGeneration)

HistoryTyped == denied \subseteq Connections /\ leaked \subseteq Credentials

(* What a step of a handler finds in its task: the calls on a connection    *)
(* have one, the undoing of a credential has made one, and the database     *)
(* handlers take their own way through the data plane.                      *)

\* From its insertion to its undoing.
Inserted == {"render", "activate", "reload", "record", "probe", "commit", "undo", "undrop"}

TaskFits(a, s, t) ==
  /\ t.kind \in IF a = Lifecycle THEN LifecycleKinds ELSE WorkerKinds
  /\ a # Lifecycle => t.asked \in WorkerKinds
  /\ s = "read" => a # Lifecycle
  /\ t.kind \in ConnectionKinds => t.connection \in Connections
  /\ t.kind = "delete" /\ s \in {"deny", "drop", "commit"} => t.connection \in Connections
  /\ t.kind = "retire" /\ s \notin {"succeed", "fail"} => t.generation \in Generations
  /\ s \in {"deny", "permit", "drop"} => ~NeedsNewCredential(t) /\ t.kind \in ConnectionKinds \cup {"delete"}
  /\ s \in {"insert", "undo", "undrop"} => NeedsNewCredential(t)
  /\ s \in {"insert", "permit", "probe", "undo", "undrop"} => t.kind \in ConnectionKinds
  /\ s = "commit" => t.kind \in ConnectionKinds \cup {"delete"}
  /\ s \in Inserted /\ NeedsNewCredential(t) => t.generation \in Generations
  /\ s = "close" => t.kind \in {"revoke", "delete"}
  /\ s = "remove" => t.kind \in {"teardown", "delete"}
  /\ s = "next" => t.kind = "delete"
  /\ s = "reopen" => t.kind = "resume"

TaskTyped(a) ==
  /\ step[a] \in Places /\ task[a] \in Tasks
  /\ step[a] = "idle" => task[a] = Idle
  /\ step[a] # "idle" => TaskFits(a, step[a], task[a])

TasksTyped ==
  /\ step = [a \in Actors |-> step[a]] /\ task = [a \in Actors |-> task[a]]
  /\ \A a \in Actors : TaskTyped(a)

GatewayTyped ==
  RowsTyped /\ CredentialsTyped /\ PlaneTyped /\ QueueTyped /\ HistoryTyped /\ TasksTyped

-----------------------------------------------------------------------------
(* What holds with one worker, w.                                          *)

OneWorker == \E w \in GatewayWorkers : GatewayWorkers = {w}

On(w, c) == step[w] # "idle" /\ task[w].connection = c

\* Operations have distinct ids, and the one a worker is at stays in the queue.
IdsDiffer ==
  /\ \A q \in queue : q.id <= issued
  /\ \A p, q \in queue : p.id = q.id => p = q

QueueHasTask(w) ==
  step[w] # "idle" =>
    \E q \in queue : /\ q.id = task[w].id /\ q.status = "running"
                     /\ q.connection = task[w].connection /\ q.kind = task[w].asked

\* Only a rotation without a grace period goes on as something else.
AskedIs(w) ==
  step[w] # "idle" /\ task[w].kind # task[w].asked =>
    task[w].kind = "retire" /\ task[w].asked \in {"create", "rotate", "enable"}

DeleteIsCondemned ==
  step[Lifecycle] # "idle" /\ task[Lifecycle].kind = "delete" => condemned

\* A role is made with its row, by an engine that runs.
RolesHaveRows == \A x \in Credentials : credential[x] = "none" => role[x] = "none"

RolesNeedEngine == instance = "starting" => \A x \in Credentials : role[x] # "login"

\* A denial and a retirement know every role a client may use, and have
\* silenced them before they go on to the configuration.
FromDenial == {"render", "activate", "reload", "record", "drop", "commit"}

Listed(w) ==
  LET t == task[w] IN
  /\ t.kind \in Denials /\ step[w] \in FromDenial \cup {"deny"} =>
       \A g \in Generations : g \in t.roles \/ CredentialOf(t.connection, g) \in {"none", "revoked"}
  /\ t.kind = "retire" /\ step[w] \in FromDenial \cup {"deny"} => t.roles = {t.generation}

Silenced(w) ==
  task[w].kind \in Denials \cup {"retire"} /\ step[w] \in FromDenial =>
    \A g \in task[w].roles : role[<<task[w].connection, g>>] # "login"

\* Only these operations let a role in again, and none whose row was revoked.
Admits(w) ==
  LET t == task[w] IN
  /\ step[w] \in {"permit", "probe"} => t.kind \in {"create", "rotate", "enable", "update"}
  /\ t.kind \in {"update", "enable"} /\ ~NeedsNewCredential(t)
     /\ step[w] \in {"deny", "render", "activate", "reload", "record", "permit"} =>
       \A g \in t.roles : CredentialOf(t.connection, g) # "revoked" \/ condemned

\* The credential whose role the worker is about to remove.
Undoing(w, x) == step[w] = "undrop" /\ x = <<task[w].connection, task[w].generation>>

RevokedIsSilent(w) ==
  \A x \in Credentials :
    credential[x] = "revoked" /\ role[x] = "login" => Outlives(x) \/ Undoing(w, x)

\* No role of the connection may log in but one that outlives its row.
Quiet(c) == \A g \in Generations : role[<<c, g>>] = "login" => Outlives(<<c, g>>)

\* An operation that may let roles in again is at work, or was cut short.
Reopened(w, c) ==
  \/ On(w, c) /\ task[w].asked # "retire"
  \/ crashes > 0 /\ \E q \in queue : q.connection = c /\ q.kind # "retire"

DeniedIsQuiet(w) == \A c \in denied : Quiet(c) \/ Reopened(w, c)

EndsQuiet(w) ==
  step[w] \in {"close", "succeed"} /\ task[w].kind \in Denials => Quiet(task[w].connection)

GatewayInv(w) ==
  /\ GatewayTyped
  /\ IdsDiffer /\ QueueHasTask(w) /\ AskedIs(w) /\ DeleteIsCondemned
  /\ RolesHaveRows /\ RolesNeedEngine
  /\ Listed(w) /\ Silenced(w) /\ Admits(w) /\ RevokedIsSilent(w)
  /\ DeniedIsQuiet(w) /\ EndsQuiet(w)
-----------------------------------------------------------------------------
(* Where a step may lead, and what it finds there.                          *)

\* The task of an idle actor is one.
LEMMA IdleIsTask == Idle \in Tasks
<1>1. 0 \in 0..(MaxGeneration + 1) /\ 0 \in 0..MaxGeneration /\ 0 \in Nat
  BY GatewayAssumption
<1>2. None \in Configurations /\ None \in Kinds \cup {None} /\ None \in Connections \cup {None}
  BY DEF Configurations
<1> QED BY <1>1, <1>2 DEF Idle, Tasks

\* An operation that is about to end keeps what its end needs.
LEMMA EndingFits ==
  ASSUME NEW a \in Actors, NEW s \in Places, NEW e \in {"succeed", "fail"}, NEW t \in Tasks,
         TaskFits(a, s, t)
  PROVE  Ending(t) \in Tasks /\ TaskFits(a, e, Ending(t))
<1> DEFINE r == Ending(t)
<1>1. r \in Tasks
  BY IdleIsTask DEF Ending, Tasks
<1>2. r.kind = t.kind /\ r.asked = t.asked /\ r.connection = t.connection
  BY DEF Ending, Idle
<1>3. TaskFits(a, e, r)
  <2> HIDE DEF r
  <2> QED BY <1>2 DEF TaskFits, Inserted
<1> QED BY <1>1, <1>3

\* A step of one actor leaves the others where they are.
LEMMA StepTyped ==
  ASSUME TasksTyped, NEW a \in Actors, NEW s \in Places, NEW t \in Tasks,
         s = "idle" => t = Idle,
         s # "idle" => TaskFits(a, s, t),
         step' = [step EXCEPT ![a] = s], task' = [task EXCEPT ![a] = t]
  PROVE  TasksTyped'
<1>1. step' = [b \in Actors |-> step'[b]] /\ task' = [b \in Actors |-> task'[b]]
  BY DEF TasksTyped
<1>2. step'[a] = s /\ task'[a] = t
  BY DEF TasksTyped
<1>3. ASSUME NEW b \in Actors, b # a PROVE step'[b] = step[b] /\ task'[b] = task[b]
  BY <1>3 DEF TasksTyped
<1>4. ASSUME NEW b \in Actors PROVE TaskTyped(b)'
  <2>1. CASE b = a
    BY <2>1, <1>2 DEF TaskTyped, TaskFits
  <2>2. CASE b # a
    BY <2>2, <1>3 DEF TasksTyped, TaskTyped, TaskFits
  <2> QED BY <2>1, <2>2
<1> QED BY <1>1, <1>4 DEF TasksTyped

\* Goto leads to a step whose needs the task meets.
LEMMA GotoTyped ==
  ASSUME TasksTyped, NEW a \in Actors, step[a] # "idle", NEW s \in Places, s # "idle",
         s \notin {"succeed", "fail"} => TaskFits(a, s, task[a]),
         Goto(a, s)
  PROVE  TasksTyped'
<1>1. task[a] \in Tasks /\ step[a] \in Places /\ TaskFits(a, step[a], task[a])
  BY DEF TasksTyped, TaskTyped
<1>2. CASE s \in {"succeed", "fail"}
  <2>1. Ending(task[a]) \in Tasks /\ TaskFits(a, s, Ending(task[a]))
    BY <1>1, <1>2, EndingFits
  <2>2. step' = [step EXCEPT ![a] = s] /\ task' = [task EXCEPT ![a] = Ending(task[a])]
    BY <1>2 DEF Goto
  <2> QED BY <2>1, <2>2, StepTyped
<1>3. CASE s \notin {"succeed", "fail"}
  <2>1. step' = [step EXCEPT ![a] = s] /\ task' = [task EXCEPT ![a] = task[a]]
    BY <1>3 DEF Goto, TasksTyped
  <2> QED BY <1>1, <1>3, <2>1, StepTyped
<1> QED BY <1>2, <1>3

\* Where a failed step leads.
LEMMA FailStepFits ==
  ASSUME NEW a \in Actors, TaskTyped(a),
         step[a] \in FromDenial \cup {"deny", "permit", "probe", "close"}
  PROVE  /\ FailStep(a) \in Places /\ FailStep(a) # "idle"
         /\ FailStep(a) \notin {"succeed", "fail"} => TaskFits(a, FailStep(a), task[a])
<1>1. TaskFits(a, step[a], task[a])
  BY DEF TaskTyped, FromDenial
<1>2. CASE task[a].kind \in {"pause", "resume"}
  BY <1>1, <1>2 DEF FailStep, Places, TaskFits, Inserted, ConnectionKinds, WorkerKinds, LifecycleKinds
<1>3. CASE task[a].kind = "delete"
  BY <1>1, <1>3 DEF FailStep, Places, TaskFits, Inserted, ConnectionKinds, WorkerKinds, LifecycleKinds,
                    NeedsNewCredential
<1>4. CASE task[a].kind \notin LifecycleKinds
  <2>1. CASE NeedsNewCredential(task[a]) /\ ~task[a].undoing
    <3>1. step[a] \in Inserted
      BY <1>1, <2>1 DEF TaskFits, FromDenial, Inserted, NeedsNewCredential
    <3>2. FailStep(a) = "undo"
      BY <1>4, <2>1 DEF FailStep, LifecycleKinds
    <3>3. TaskFits(a, "undo", task[a])
      BY <1>1, <2>1, <3>1 DEF TaskFits, Inserted, NeedsNewCredential, ConnectionKinds, WorkerKinds
    <3> QED BY <3>2, <3>3 DEF Places
  <2>2. CASE ~(NeedsNewCredential(task[a]) /\ ~task[a].undoing)
    BY <1>4, <2>2 DEF FailStep, LifecycleKinds, Places
  <2> QED BY <2>1, <2>2
<1> QED BY <1>2, <1>3, <1>4 DEF LifecycleKinds

\* So a failed step keeps the tasks typed.
LEMMA FailTyped ==
  ASSUME TasksTyped, NEW a \in Actors,
         step[a] \in FromDenial \cup {"deny", "permit", "probe", "close"},
         Goto(a, FailStep(a))
  PROVE  TasksTyped'
<1>1. TaskTyped(a) /\ step[a] # "idle"
  BY DEF TasksTyped, FromDenial
<1> QED BY <1>1, FailStepFits, GotoTyped

\* Roles run through, one by one, keep their types, and no role comes into being.
LEMMA RunTyped ==
  ASSUME TasksTyped, role \in [Credentials -> Roles], NEW a \in Actors,
         step[a] \in {"deny", "permit", "drop"}, NEW c, NEW gs, NEW value \in Roles,
         NEW next \in Places, next # "idle",
         next \notin {"succeed", "fail"} => TaskFits(a, next, task[a]),
         RunOnRoles(a, c, gs, value, next)
  PROVE  role' \in [Credentials -> Roles] /\ TasksTyped'
<1>1. ASSUME NEW hs, SetRoles(c, hs, value) PROVE role' \in [Credentials -> Roles]
  BY <1>1 DEF SetRoles
<1>2. role' \in [Credentials -> Roles]
  BY <1>1 DEF RunOnRoles
<1>3. Goto(a, next) \/ Goto(a, FailStep(a))
  BY DEF RunOnRoles, EngineRefuses, FaultAt
<1>4. CASE Goto(a, next)
  BY <1>4, <1>2, GotoTyped
<1>5. CASE Goto(a, FailStep(a))
  <2>1. step[a] \in FromDenial \cup {"deny", "permit", "probe", "close"}
    BY DEF FromDenial
  <2> QED BY <2>1, <1>5, <1>2, FailTyped
<1> QED BY <1>3, <1>4, <1>5

-----------------------------------------------------------------------------
(* Types, action by action.                                                 *)

LEMMA TasksSame ==
  ASSUME TasksTyped, UNCHANGED <<step, task>> PROVE TasksTyped'
BY DEF TasksTyped, TaskTyped, TaskFits

LEMMA QueuedTyped ==
  ASSUME QueueTyped, issued \in Nat, NEW kind \in WorkerKinds, NEW c \in Connections \cup {None},
         NEW g \in 0..MaxGeneration, NEW grace \in BOOLEAN,
         kind \in ConnectionKinds => c \in Connections,
         kind = "retire" => g \in Generations,
         QueueOperation(kind, c, g, grace)
  PROVE  queue' \subseteq QueueRows /\ (\A q \in queue' : Named(q)) /\ issued' \in Nat
<1> DEFINE o == Operation(kind, c, g, grace)
<1>1. o \in QueueRows
  BY DEF Operation, QueueRows
<1>2. Named(o)
  BY DEF Operation, Named
<1>3. queue' = queue \cup {o} /\ issued' = issued + 1
  BY DEF QueueOperation
<1> QED BY <1>1, <1>2, <1>3 DEF QueueTyped

\* The row of one connection is written.
LEMMA ConnectionTyped ==
  ASSUME connection \in [Connections -> ConnectionRows], NEW c \in Connections
  PROVE  /\ \A s \in Statuses : [connection EXCEPT ![c].status = s] \in [Connections -> ConnectionRows]
         /\ \A g \in 0..MaxGeneration : 
              [connection EXCEPT ![c].generation = g] \in [Connections -> ConnectionRows]
         /\ \A g \in 0..MaxGeneration, s \in Statuses : 
              [connection EXCEPT ![c].generation = g, ![c].status = s] \in [Connections -> ConnectionRows]
         /\ [connection EXCEPT ![c].expires = "due"] \in [Connections -> ConnectionRows]
         /\ Status(c) \in Statuses /\ connection[c].generation \in 0..MaxGeneration
BY DEF ConnectionRows, Status

LEMMA EndpointTyped ==
  ASSUME endpoint \in EndpointRows
  PROVE  /\ [endpoint EXCEPT !.wanted = @ + 1] \in EndpointRows
         /\ [endpoint EXCEPT !.desired = "active"] \in EndpointRows
         /\ [endpoint EXCEPT !.desired = "deleting"] \in EndpointRows
         /\ [endpoint EXCEPT !.desired = "active", !.wanted = @ + 1] \in EndpointRows
         /\ endpoint.wanted \in Nat /\ endpoint.applied \in Nat /\ endpoint.container \in BOOLEAN
<1>1. /\ endpoint.wanted \in Nat /\ endpoint.applied \in Nat /\ endpoint.container \in BOOLEAN
      /\ endpoint.desired \in {"absent", "active", "deleting"}
  BY DEF EndpointRows
<1>2. endpoint.wanted + 1 \in Nat
  BY <1>1
<1> QED BY <1>1, <1>2, Zenon DEF EndpointRows

\* What a request leaves alone.
LEMMA RequestRest ==
  ASSUME GatewayTyped, UNCHANGED requestRest
  PROVE  CredentialsTyped' /\ PlaneTyped' /\ HistoryTyped' /\ TasksTyped' /\ UNCHANGED listed
<1>1. UNCHANGED <<credential, role, directories, current, loaded, listed, step, task, denied, leaked>>
  BY DEF requestRest
<1>2. TasksTyped'
  BY <1>1, TasksSame DEF GatewayTyped
<1> QED BY <1>1, <1>2 DEF GatewayTyped, CredentialsTyped, PlaneTyped, HistoryTyped

LEMMA EndpointRequestTyped ==
  ASSUME GatewayTyped, QueueDatabaseGatewayProvision \/ QueueDatabaseGatewayTeardown
  PROVE  GatewayTyped'
<1> USE DEF NoFault, environment
<1>1. UNCHANGED <<requestRest, route, connection, crashes>>
  BY DEF QueueDatabaseGatewayProvision, QueueDatabaseGatewayTeardown
<1>2. UNCHANGED <<instance, condemned, lifecycles>>
  BY <1>1 DEF requestRest, lifeVars
<1>3. endpoint' \in EndpointRows
  BY EndpointTyped DEF QueueDatabaseGatewayProvision, QueueDatabaseGatewayTeardown, GatewayTyped, RowsTyped
<1>4. \E kind \in {"provision", "teardown"} : QueueOperation(kind, None, 0, FALSE)
  BY DEF QueueDatabaseGatewayProvision, QueueDatabaseGatewayTeardown
<1>5. queue' \subseteq QueueRows /\ (\A q \in queue' : Named(q)) /\ issued' \in Nat
  <2> PICK kind \in {"provision", "teardown"} : QueueOperation(kind, None, 0, FALSE)
    BY <1>4
  <2>1. kind \in WorkerKinds /\ kind \notin ConnectionKinds /\ kind # "retire" /\ 0 \in 0..MaxGeneration
    BY GatewayAssumption DEF WorkerKinds, ConnectionKinds
  <2> QED BY <2>1, QueuedTyped DEF GatewayTyped, RowsTyped
<1>6. CredentialsTyped' /\ PlaneTyped' /\ HistoryTyped' /\ TasksTyped' /\ UNCHANGED listed
  BY <1>1, RequestRest
<1> QED BY <1>1, <1>2, <1>3, <1>5, <1>6 DEF GatewayTyped, RowsTyped, QueueTyped

LEMMA ExternalRequestTyped ==
  ASSUME GatewayTyped, NEW c \in Connections, ExternalRequest(c)
  PROVE  GatewayTyped'
<1> USE DEF NoFault, environment
<1>0. instance \in {"starting", "healthy", "stopped", "deleted"} /\ Status(c) \in Statuses
  BY ConnectionTyped DEF GatewayTyped, RowsTyped
<1>1. UNCHANGED <<requestRest, crashes>>
  BY DEF ExternalRequest, CreateDatabaseExternalConnection, UpdateDatabaseExternalConnection, Disable,
         Enable, Revoke, Rotate, Action
<1>2. UNCHANGED <<instance, condemned, lifecycles>>
  BY <1>1 DEF requestRest, lifeVars
<1>3. endpoint' \in EndpointRows
  BY EndpointTyped
  DEF ExternalRequest, CreateDatabaseExternalConnection, UpdateDatabaseExternalConnection, Disable,
      Enable, Revoke, Rotate, Action, BumpWanted, GatewayTyped, RowsTyped
<1>4. route' \in {"none", "active", "disabled"}
  BY DEF ExternalRequest, CreateDatabaseExternalConnection, UpdateDatabaseExternalConnection, Disable,
         Enable, Revoke, Rotate, Action, GatewayTyped, RowsTyped
<1>5. connection' \in [Connections -> ConnectionRows]
  <2>1. CASE CreateDatabaseExternalConnection(c)
    <3>1. [status |-> "pending", generation |-> 0, expires |-> "later"] \in ConnectionRows
      BY GatewayAssumption DEF ConnectionRows, Statuses
    <3> QED BY <2>1, <3>1 DEF CreateDatabaseExternalConnection, GatewayTyped, RowsTyped
  <2>2. ASSUME NEW s \in Statuses, SetStatus(c, s) PROVE connection' \in [Connections -> ConnectionRows]
    BY <2>2, ConnectionTyped DEF SetStatus, GatewayTyped, RowsTyped
  <2>3. CASE ~CreateDatabaseExternalConnection(c)
    <3>1. \E s \in Statuses : SetStatus(c, s)
      <4>1. {"pending", "disabled", "rotating", "revoking"} \subseteq Statuses
        BY DEF Statuses
      <4> QED BY <1>0, <2>3, <4>1
              DEF ExternalRequest, UpdateDatabaseExternalConnection, Disable, Enable, Revoke, Rotate, Action
    <3> QED BY <3>1, <2>2
  <2> QED BY <2>1, <2>3
<1>6. \E kind \in ConnectionKinds \ {"retire"}, grace \in BOOLEAN : QueueOperation(kind, c, 0, grace)
  <2>1. {"create", "update", "disable", "enable", "rotate", "revoke"} \subseteq ConnectionKinds \ {"retire"}
    BY DEF ConnectionKinds, WorkerKinds
  <2> QED BY <2>1 DEF ExternalRequest, CreateDatabaseExternalConnection, UpdateDatabaseExternalConnection,
                      Disable, Enable, Revoke, Rotate, Action
<1>7. queue' \subseteq QueueRows /\ (\A q \in queue' : Named(q)) /\ issued' \in Nat
  <2> PICK kind \in ConnectionKinds \ {"retire"}, grace \in BOOLEAN : QueueOperation(kind, c, 0, grace)
    BY <1>6
  <2>1. kind \in WorkerKinds /\ kind # "retire" /\ 0 \in 0..MaxGeneration
    BY GatewayAssumption DEF ConnectionKinds
  <2> QED BY <2>1, QueuedTyped DEF GatewayTyped, RowsTyped
<1>8. CredentialsTyped' /\ PlaneTyped' /\ HistoryTyped' /\ TasksTyped' /\ UNCHANGED listed
  BY <1>1, RequestRest
<1> QED BY <1>1, <1>2, <1>3, <1>4, <1>5, <1>7, <1>8 DEF GatewayTyped, RowsTyped, QueueTyped

\* What the lapses and the claims loop leave alone.
LEMMA ClaimsRest ==
  ASSUME GatewayTyped, UNCHANGED <<instance, route, endpoint, lifeVars, role, directories, current, loaded,
                                   step, task, denied, leaked, crashes>>,
         connection' \in [Connections -> ConnectionRows], issued' \in Nat,
         credential' \in [Credentials -> CredentialStates], QueueTyped'
  PROVE  GatewayTyped'
<1>1. TasksTyped'
  BY TasksSame DEF GatewayTyped
<1> QED BY <1>1 DEF GatewayTyped, RowsTyped, CredentialsTyped, PlaneTyped, HistoryTyped, lifeVars

LEMMA QueueSame ==
  ASSUME QueueTyped, UNCHANGED <<queue, listed>> PROVE QueueTyped'
BY DEF QueueTyped

LEMMA LapseTyped ==
  ASSUME GatewayTyped,
         (\E c \in Connections : ExpiryLapses(c)) \/ (\E x \in Credentials : GraceLapses(x))
  PROVE  GatewayTyped'
<1> USE DEF NoFault, environment
<1>1. UNCHANGED <<instance, route, endpoint, lifeVars, role, directories, current, loaded,
                  step, task, denied, leaked, crashes, queue, listed, issued>>
  BY DEF ExpiryLapses, GraceLapses, planeVars
<1>2. connection' \in [Connections -> ConnectionRows]
  BY ConnectionTyped, ZenonT(60) DEF ExpiryLapses, GraceLapses, GatewayTyped, RowsTyped
<1>3. credential' \in [Credentials -> CredentialStates]
  BY DEF ExpiryLapses, GraceLapses, GatewayTyped, CredentialsTyped, CredentialStates
<1>4. QueueTyped' /\ issued' \in Nat
  BY <1>1, QueueSame DEF GatewayTyped, RowsTyped
<1> QED BY <1>1, <1>2, <1>3, <1>4, ClaimsRest

LEMMA GatewayClaimsTyped ==
  ASSUME GatewayTyped, GatewayClaims
  PROVE  GatewayTyped'
<1> USE DEF NoFault, environment, rowVars, planeVars
<1>0. UNCHANGED <<instance, route, endpoint, lifeVars, role, directories, current, loaded,
                  step, task, denied, leaked, crashes>>
  BY DEF GatewayClaims, ListDueClaims, QueueDueExpiration, QueueDueRetirement
<1>1. CASE ListDueClaims
  <2>1. DueClaims \subseteq Connections \X (0..MaxGeneration)
    <3>1. 0 \in 0..MaxGeneration /\ Generations \subseteq 0..MaxGeneration
      BY GatewayAssumption DEF Generations
    <3>2. ASSUME NEW x \in DueClaims PROVE x \in Connections \X (0..MaxGeneration)
      <4>1. CASE \E c \in Connections : x = <<c, 0>>
        BY <4>1, <3>1
      <4>2. CASE x \in Credentials
        BY <4>2, <3>1 DEF Credentials
      <4> QED BY <4>1, <4>2 DEF DueClaims
    <3> QED BY <3>2
  <2>2. UNCHANGED <<connection, credential, issued, queue>>
    BY <1>1 DEF ListDueClaims
  <2>3. QueueTyped'
    BY <1>1, <2>1, <2>2 DEF ListDueClaims, GatewayTyped, QueueTyped
  <2> QED BY <1>0, <2>2, <2>3, ClaimsRest DEF GatewayTyped, RowsTyped, CredentialsTyped
<1>2. ASSUME NEW c \in Connections, QueueDueExpiration(c) PROVE GatewayTyped'
  <2>1. connection' \in [Connections -> ConnectionRows]
    BY <1>2, ConnectionTyped DEF QueueDueExpiration, SetStatus, Statuses, GatewayTyped, RowsTyped
  <2>2. queue' \subseteq QueueRows /\ (\A q \in queue' : Named(q)) /\ issued' \in Nat
    <3>1. "expire" \in WorkerKinds /\ 0 \in 0..MaxGeneration /\ "expire" # "retire"
      BY GatewayAssumption DEF WorkerKinds
    <3> QED BY <1>2, <3>1, QueuedTyped DEF QueueDueExpiration, GatewayTyped, RowsTyped
  <2>3. QueueTyped' /\ UNCHANGED credential
    BY <1>2, <2>2 DEF QueueDueExpiration, GatewayTyped, QueueTyped
  <2> QED BY <1>0, <2>1, <2>2, <2>3, ClaimsRest DEF GatewayTyped, CredentialsTyped
<1>3. ASSUME NEW x \in Credentials, QueueDueRetirement(x) PROVE GatewayTyped'
  <2>1. UNCHANGED <<connection, credential>>
    BY <1>3 DEF QueueDueRetirement
  <2>2. queue' \subseteq QueueRows /\ (\A q \in queue' : Named(q)) /\ issued' \in Nat
    <3>1. "retire" \in WorkerKinds /\ x[1] \in Connections /\ x[2] \in Generations /\ x[2] \in 0..MaxGeneration
      BY GatewayAssumption DEF WorkerKinds, Credentials, Generations
    <3> QED BY <1>3, <3>1, QueuedTyped DEF QueueDueRetirement, GatewayTyped, RowsTyped
  <2>3. QueueTyped'
    BY <1>3, <2>2 DEF QueueDueRetirement, GatewayTyped, QueueTyped
  <2> QED BY <1>0, <2>1, <2>2, <2>3, ClaimsRest DEF GatewayTyped, RowsTyped, CredentialsTyped
<1> QED BY <1>1, <1>2, <1>3 DEF GatewayClaims

\* One row of the queue changes its status.
LEMMA StatusTyped ==
  ASSUME NEW q \in QueueRows, Named(q), NEW s \in {"queued", "running", "lapsed"}
  PROVE  [q EXCEPT !.status = s] \in QueueRows /\ Named([q EXCEPT !.status = s])
BY DEF QueueRows, Named

LEMMA ClaimTyped ==
  ASSUME GatewayTyped, NEW a \in GatewayWorkers, ClaimNextDatabaseGatewayOperation(a)
  PROVE  GatewayTyped'
<1> USE DEF NoFault, environment, rowVars, planeVars
<1>1. PICK q \in queue :
        /\ SetQueued(q, "running")
        /\ step' = [step EXCEPT ![a] = "read"]
        /\ task' = [task EXCEPT ![a] =
             [Idle EXCEPT !.kind = q.kind, !.asked = q.kind, !.id = q.id,
                          !.connection = q.connection, !.generation = q.generation, !.grace = q.grace]]
  BY DEF ClaimNextDatabaseGatewayOperation
<1> DEFINE t == [Idle EXCEPT !.kind = q.kind, !.asked = q.kind, !.id = q.id,
                             !.connection = q.connection, !.generation = q.generation, !.grace = q.grace]
<1>2. q \in QueueRows /\ Named(q)
  BY DEF GatewayTyped, QueueTyped
<1>3. t \in Tasks
  <2>1. /\ q.kind \in Kinds /\ q.id \in Nat /\ q.connection \in Connections \cup {None}
        /\ q.generation \in 0..(MaxGeneration + 1) /\ q.grace \in BOOLEAN
    BY <1>2, GatewayAssumption DEF QueueRows, Kinds
  <2> QED BY <2>1, IdleIsTask DEF Tasks
<1>4. /\ t.kind = q.kind /\ t.asked = q.kind /\ t.connection = q.connection
      /\ t.generation = q.generation /\ a # Lifecycle
  BY GatewayAssumption DEF Idle
<1>5. TaskFits(a, "read", t)
  <2> HIDE DEF t
  <2>1. q.kind \in WorkerKinds
    BY <1>2 DEF QueueRows
  <2> QED BY <1>2, <1>4, <2>1 DEF TaskFits, Named, Inserted, WorkerKinds
<1>6. TasksTyped'
  <2>1. "read" \in Places /\ a \in Actors
    BY DEF Places, Actors
  <2>2. step' = [step EXCEPT ![a] = "read"] /\ task' = [task EXCEPT ![a] = t]
    BY <1>1
  <2> HIDE DEF t
  <2> QED BY <2>1, <2>2, <1>3, <1>5, StepTyped DEF GatewayTyped
<1>7. QueueTyped'
  <2>1. queue' = (queue \ {q}) \cup {[q EXCEPT !.status = "running"]} /\ UNCHANGED listed
    BY <1>1 DEF SetQueued, ClaimNextDatabaseGatewayOperation
  <2> QED BY <2>1, <1>2, StatusTyped DEF GatewayTyped, QueueTyped
<1>8. RowsTyped' /\ CredentialsTyped' /\ PlaneTyped' /\ HistoryTyped'
  BY DEF ClaimNextDatabaseGatewayOperation, GatewayTyped, RowsTyped, CredentialsTyped, PlaneTyped,
         HistoryTyped, lifeVars
<1> QED BY <1>6, <1>7, <1>8 DEF GatewayTyped

\* A task whose parts are written keeps its type.
LEMMA TaskWrites ==
  ASSUME NEW t \in Tasks
  PROVE  /\ \A p \in SUBSET Credentials, n \in Nat, b \in BOOLEAN :
              [t EXCEPT !.plan = p, !.number = n, !.container = b] \in Tasks
         /\ \A f \in Configurations : [t EXCEPT !.before = f] \in Tasks
         /\ \A b \in BOOLEAN : [t EXCEPT !.fresh = b] \in Tasks
         /\ [t EXCEPT !.undoing = TRUE] \in Tasks
         /\ [t EXCEPT !.plan = {}, !.number = 0, !.before = None, !.container = FALSE,
                      !.fresh = FALSE] \in Tasks
         /\ \A k \in Kinds, g \in Generations :
              [t EXCEPT !.kind = k, !.generation = g, !.roles = {g}] \in Tasks
         /\ \A p \in 0..MaxGeneration, gs \in SUBSET Generations, g \in 0..(MaxGeneration + 1) :
              [t EXCEPT !.previous = p, !.roles = gs, !.generation = g] \in Tasks
         /\ \A g \in Generations : [t EXCEPT !.roles = {g}] \in Tasks
         /\ \A cs \in SUBSET Connections, c \in Connections, gs \in SUBSET Generations :
              [t EXCEPT !.rest = cs, !.connection = c, !.roles = gs] \in Tasks
<1>1. None \in Configurations /\ 0 \in Nat
  BY DEF Configurations
<1>2. \A g \in Generations : g \in 0..(MaxGeneration + 1)
  BY GatewayAssumption DEF Generations
<1> QED BY <1>1, <1>2, ZenonT(60) DEF Tasks

\* What a handler looks at does not change when the data plane is written.
LEMMA PlaneFits ==
  ASSUME NEW a \in Actors, NEW s \in FromDenial, NEW e \in {"render", "activate", "reload", "record"},
         NEW t, NEW r, TaskFits(a, s, t), s \in {"render", "activate", "reload"},
         r.kind = t.kind, r.asked = t.asked, r.connection = t.connection,
         r.generation = t.generation, r.previous = t.previous
  PROVE  TaskFits(a, e, r)
BY DEF TaskFits, Inserted, NeedsNewCredential, FromDenial

LEMMA RenderedTyped ==
  ASSUME NEW included, NEW excluded PROVE Rendered(included, excluded) \in SUBSET Credentials
BY DEF Rendered

LEMMA RenderTyped ==
  ASSUME GatewayTyped, NEW a \in Actors, RenderConfiguration(a)
  PROVE  GatewayTyped'
<1> USE DEF NoFault, environment, Fault, FaultAt
<1>0. step[a] = "render" /\ TaskTyped(a) /\ TaskFits(a, "render", task[a]) /\ task[a] \in Tasks /\ TasksTyped
  BY DEF RenderConfiguration, GatewayTyped, TasksTyped, TaskTyped
<1>1. TasksTyped'
  <2>1. CASE Goto(a, FailStep(a))
    BY <1>0, <2>1, FailTyped DEF FromDenial
  <2>2. CASE ~Goto(a, FailStep(a))
    <3> DEFINE p == Rendered(Included(task[a]), Excluded(task[a]))
               t == [task[a] EXCEPT !.plan = p, !.number = NextNumber, !.container = endpoint.container]
    <3>1. p \in SUBSET Credentials
      BY RenderedTyped
    <3>2. NextNumber \in Nat /\ endpoint.container \in BOOLEAN
      <4>1. endpoint.wanted \in Nat /\ endpoint.applied \in Nat /\ endpoint.container \in BOOLEAN
        BY EndpointTyped DEF GatewayTyped, RowsTyped
      <4> QED BY <4>1 DEF NextNumber, Larger
    <3>3. t \in Tasks
      <4> HIDE DEF p
      <4> QED BY <1>0, <3>1, <3>2, TaskWrites
    <3>4. step' = [step EXCEPT ![a] = "activate"] /\ task' = [task EXCEPT ![a] = t]
      BY <2>2 DEF RenderConfiguration
    <3>5. TaskFits(a, "activate", t)
      <4>1. /\ t.kind = task[a].kind /\ t.asked = task[a].asked /\ t.connection = task[a].connection
            /\ t.generation = task[a].generation /\ t.previous = task[a].previous
        BY <1>0 DEF Tasks
      <4> HIDE DEF t
      <4> QED BY <1>0, <4>1, PlaneFits DEF FromDenial
    <3> HIDE DEF t
    <3> QED BY <1>0, <3>3, <3>4, <3>5, StepTyped DEF Places
  <2> QED BY <2>1, <2>2
<1>2. UNCHANGED <<rowVars, planeVars, role, queue, listed, issued, lifeVars, denied, leaked>>
  BY DEF RenderConfiguration
<1>3. crashes' = crashes
  BY DEF RenderConfiguration
<1> QED BY <1>1, <1>2, <1>3 DEF GatewayTyped, RowsTyped, CredentialsTyped, PlaneTyped, QueueTyped, HistoryTyped,
                          rowVars, planeVars, lifeVars

LEMMA ActivateTyped ==
  ASSUME GatewayTyped, NEW a \in Actors, ActivateGeneration(a)
  PROVE  GatewayTyped'
<1> USE DEF NoFault, environment
<1>0. step[a] = "activate" /\ TaskTyped(a) /\ TaskFits(a, "activate", task[a]) /\ task[a] \in Tasks /\ TasksTyped
  BY DEF ActivateGeneration, GatewayTyped, TasksTyped, TaskTyped
<1>1. task[a].number \in Nat /\ task[a].plan \in Configurations /\ current \in Configurations
  BY <1>0 DEF Tasks, Configurations, GatewayTyped, PlaneTyped
<1>2. PlaneTyped'
  BY <1>1 DEF ActivateGeneration, GatewayTyped, PlaneTyped
<1>3. TasksTyped'
  <2>1. CASE task[a].number \in directories
    BY <1>0, <2>1, FailTyped DEF FromDenial, ActivateGeneration
  <2>2. CASE task[a].number \notin directories
    <3> DEFINE t == [task[a] EXCEPT !.before = current]
    <3>1. t \in Tasks
      BY <1>0, <1>1, TaskWrites
    <3>2. step' = [step EXCEPT ![a] = "reload"] /\ task' = [task EXCEPT ![a] = t]
      BY <2>2 DEF ActivateGeneration
    <3>3. TaskFits(a, "reload", t)
      <4>1. /\ t.kind = task[a].kind /\ t.asked = task[a].asked /\ t.connection = task[a].connection
            /\ t.generation = task[a].generation /\ t.previous = task[a].previous
        BY <1>0 DEF Tasks
      <4> HIDE DEF t
      <4> QED BY <1>0, <4>1, PlaneFits DEF FromDenial
    <3> HIDE DEF t
    <3> QED BY <1>0, <3>1, <3>2, <3>3, StepTyped DEF Places
  <2> QED BY <2>1, <2>2
<1>4. UNCHANGED <<rowVars, endpoint, role, queue, listed, issued, lifeVars, denied, leaked, crashes>>
  BY DEF ActivateGeneration
<1> QED BY <1>2, <1>3, <1>4 DEF GatewayTyped, RowsTyped, CredentialsTyped, QueueTyped, HistoryTyped,
                          rowVars, lifeVars

\* The link that is put back is one.
LEMMA RestoreTyped ==
  ASSUME PlaneTyped, NEW a \in Actors, task[a] \in Tasks, RestoreGeneration(a)
  PROVE  current' \in Configurations /\ loaded' \in Configurations
BY DEF RestoreGeneration, PlaneTyped, Tasks, Configurations

LEMMA ReloadTyped ==
  ASSUME GatewayTyped, NEW a \in Actors, ReloadPgBouncer(a)
  PROVE  GatewayTyped'
<1> USE DEF NoFault, environment, Fault, FaultAt, EngineRefuses
<1>0. step[a] = "reload" /\ TaskTyped(a) /\ TaskFits(a, "reload", task[a]) /\ task[a] \in Tasks /\ TasksTyped
  BY DEF ReloadPgBouncer, GatewayTyped, TasksTyped, TaskTyped
<1>1. PlaneTyped'
  BY <1>0, RestoreTyped DEF ReloadPgBouncer, GatewayTyped, PlaneTyped
<1>2. TasksTyped'
  <2>1. CASE Goto(a, FailStep(a))
    BY <1>0, <2>1, FailTyped DEF FromDenial
  <2>2. CASE ~Goto(a, FailStep(a))
    <3> DEFINE t == [task[a] EXCEPT !.fresh = ~task[a].container]
    <3>1. t \in Tasks
      <4>1. task[a].container \in BOOLEAN
        BY <1>0 DEF Tasks
      <4>2. (~task[a].container) \in BOOLEAN
        BY <4>1, Zenon
      <4> QED BY <1>0, <4>2, TaskWrites
    <3>2. step' = [step EXCEPT ![a] = "record"] /\ task' = [task EXCEPT ![a] = t]
      BY <2>2 DEF ReloadPgBouncer
    <3>3. TaskFits(a, "record", t)
      <4>1. /\ t.kind = task[a].kind /\ t.asked = task[a].asked /\ t.connection = task[a].connection
            /\ t.generation = task[a].generation /\ t.previous = task[a].previous
        BY <1>0 DEF Tasks
      <4> HIDE DEF t
      <4> QED BY <1>0, <4>1, PlaneFits DEF FromDenial
    <3> HIDE DEF t
    <3> QED BY <1>0, <3>1, <3>2, <3>3, StepTyped DEF Places
  <2> QED BY <2>1, <2>2
<1>3. route' \in {"none", "active", "disabled"}
  BY DEF ReloadPgBouncer, GatewayTyped, RowsTyped
<1>4. UNCHANGED <<instance, connection, credential, endpoint, role, queue, listed, issued, lifeVars, denied,
                  leaked, crashes>>
  BY DEF ReloadPgBouncer
<1> QED BY <1>1, <1>2, <1>3, <1>4 DEF GatewayTyped, RowsTyped, CredentialsTyped, QueueTyped, HistoryTyped, lifeVars

\* Where the data plane leads, and what is there.
LEMMA AfterFits ==
  ASSUME NEW a \in Actors, NEW t \in Tasks, TaskFits(a, "record", t)
  PROVE  /\ AfterDataPlane(t) \in Places /\ AfterDataPlane(t) # "idle"
         /\ AfterDataPlane(t) \notin {"succeed", "fail"} => TaskFits(a, AfterDataPlane(t), t)
<1>1. CASE t.undoing
  BY <1>1 DEF AfterDataPlane, Places
<1>2. CASE ~t.undoing /\ NeedsNewCredential(t)
  <2>1. AfterDataPlane(t) = "probe"
    BY <1>2 DEF AfterDataPlane
  <2>2. TaskFits(a, "probe", t)
    BY <1>2 DEF TaskFits, Inserted, NeedsNewCredential, ConnectionKinds, WorkerKinds
  <2> QED BY <2>1, <2>2 DEF Places
<1>3. CASE ~t.undoing /\ ~NeedsNewCredential(t)
  <2>1. t.kind \in Kinds
    BY DEF TaskFits, Kinds
  <2>2. CASE t.kind \in {"update", "enable"}
    BY <1>3, <2>2 DEF AfterDataPlane, TaskFits, Places, Inserted, ConnectionKinds, WorkerKinds, LifecycleKinds
  <2>3. CASE t.kind \in {"revoke", "retire"}
    BY <1>3, <2>3 DEF AfterDataPlane, TaskFits, Places, Inserted, ConnectionKinds, WorkerKinds, LifecycleKinds
  <2>4. CASE t.kind \in {"pause", "delete"}
    BY <1>3, <2>4 DEF AfterDataPlane, TaskFits, Places, Inserted, ConnectionKinds, WorkerKinds, LifecycleKinds
  <2>5. CASE t.kind \notin {"update", "enable", "revoke", "retire", "pause", "delete"}
    BY <1>3, <2>5 DEF AfterDataPlane, Places
  <2> QED BY <2>2, <2>3, <2>4, <2>5
<1> QED BY <1>1, <1>2, <1>3

LEMMA RecordTyped ==
  ASSUME GatewayTyped, NEW a \in Actors, RecordEndpoint(a)
  PROVE  GatewayTyped'
<1> USE DEF NoFault, environment, Fault, FaultAt
<1>0. step[a] = "record" /\ TaskTyped(a) /\ TaskFits(a, "record", task[a]) /\ task[a] \in Tasks /\ TasksTyped
  BY DEF RecordEndpoint, GatewayTyped, TasksTyped, TaskTyped
<1>1. PlaneTyped'
  BY <1>0, RestoreTyped DEF RecordEndpoint, GatewayTyped, PlaneTyped
<1>2. TasksTyped'
  <2>1. CASE Goto(a, FailStep(a))
    BY <1>0, <2>1, FailTyped DEF FromDenial
  <2>2. CASE ~Goto(a, FailStep(a))
    <3> DEFINE s == AfterDataPlane(task[a])
               t == Applied(task[a])
    <3>1. step' = [step EXCEPT ![a] = s] /\ task' = [task EXCEPT ![a] = t]
      BY <2>2 DEF RecordEndpoint
    <3>2. /\ s \in Places /\ s # "idle"
          /\ s \notin {"succeed", "fail"} => TaskFits(a, s, task[a])
      BY <1>0, AfterFits
    <3>3. t \in Tasks /\ TaskFits(a, s, t)
      <4>1. CASE s \in {"succeed", "fail"}
        BY <1>0, <4>1, EndingFits DEF Applied, Places
      <4>2. CASE s \notin {"succeed", "fail"}
        <5>1. t = [task[a] EXCEPT !.plan = {}, !.number = 0, !.before = None, !.container = FALSE, !.fresh = FALSE]
          BY <4>2 DEF Applied
        <5>2. t \in Tasks
          BY <1>0, <5>1, TaskWrites
        <5>3. /\ t.kind = task[a].kind /\ t.asked = task[a].asked /\ t.connection = task[a].connection
              /\ t.generation = task[a].generation /\ t.previous = task[a].previous
          <6> HIDE DEF t
          <6> QED BY <1>0, <5>1 DEF Tasks
        <5>4. TaskFits(a, s, t)
          <6> HIDE DEF s, t
          <6> QED BY <3>2, <4>2, <5>3 DEF TaskFits, NeedsNewCredential
        <5> QED BY <5>2, <5>4
      <4> QED BY <4>1, <4>2
    <3> HIDE DEF s, t
    <3> QED BY <1>0, <3>1, <3>2, <3>3, StepTyped
  <2> QED BY <2>1, <2>2
<1>3. endpoint' \in EndpointRows
  <2>1. task[a].number \in Nat /\ endpoint \in EndpointRows
    BY <1>0 DEF GatewayTyped, RowsTyped, Tasks
  <2>2. [desired |-> "active", container |-> TRUE, wanted |-> task[a].number, applied |-> task[a].number]
          \in EndpointRows
    BY <2>1, Zenon DEF EndpointRows
  <2> QED BY <2>1, <2>2 DEF RecordEndpoint
<1>4. UNCHANGED <<rowVars, role, queue, listed, issued, lifeVars, denied, leaked, crashes>>
  BY DEF RecordEndpoint
<1> QED BY <1>1, <1>2, <1>3, <1>4 DEF GatewayTyped, RowsTyped, CredentialsTyped, QueueTyped, HistoryTyped,
                                rowVars, lifeVars

\* What is known of an actor that is at a step.
LEMMA AtStep ==
  ASSUME TasksTyped, NEW a \in Actors, step[a] # "idle"
  PROVE  TaskTyped(a) /\ TaskFits(a, step[a], task[a]) /\ task[a] \in Tasks /\ step[a] \in Places
BY DEF TasksTyped, TaskTyped

LEMMA HistorySame ==
  ASSUME HistoryTyped, UNCHANGED <<denied, leaked>> PROVE HistoryTyped'
BY DEF HistoryTyped

LEMMA PlaneSame ==
  ASSUME PlaneTyped, UNCHANGED <<directories, current, loaded>> PROVE PlaneTyped'
BY DEF PlaneTyped

LEMMA CredentialsSame ==
  ASSUME CredentialsTyped, UNCHANGED <<credential, role>> PROVE CredentialsTyped'
BY DEF CredentialsTyped

\* What most steps of a handler leave alone.
LEMMA HandlerRest ==
  ASSUME GatewayTyped, UNCHANGED <<instance, endpoint, condemned, lifecycles, issued, crashes>>,
         connection' \in [Connections -> ConnectionRows], route' \in {"none", "active", "disabled"},
         CredentialsTyped', PlaneTyped', QueueTyped', HistoryTyped', TasksTyped'
  PROVE  GatewayTyped'
BY DEF GatewayTyped, RowsTyped

LEMMA UnrevokedTyped ==
  ASSUME GatewayTyped, NEW c \in Connections
  PROVE  /\ Unrevoked(c) \in SUBSET Generations
         /\ CurrentCredential(c) \in 0..MaxGeneration
         /\ connection[c].generation + 1 \in 0..(MaxGeneration + 1)
<1>1. connection[c].generation \in 0..MaxGeneration
  BY ConnectionTyped DEF GatewayTyped, RowsTyped
<1> QED BY <1>1, GatewayAssumption DEF Unrevoked, CurrentCredential, Generations

LEMMA ReadTyped ==
  ASSUME GatewayTyped, NEW a \in Actors, ReadRows(a)
  PROVE  GatewayTyped'
<1> USE DEF NoFault, environment, rowVars, planeVars, lifeVars
<1> DEFINE t == task[a]
           c == t.connection
           r == IF c = None THEN t
                ELSE IF t.kind = "retire" THEN [t EXCEPT !.roles = {t.generation}]
                ELSE [t EXCEPT !.previous = CurrentCredential(c), !.roles = Unrevoked(c),
                               !.generation = connection[c].generation + 1]
           s == CASE t.kind = "provision"   -> "render"
                  [] t.kind = "teardown"    -> "remove"
                  [] NeedsNewCredential(r)  -> "insert"
                  [] OTHER                  -> "deny"
<1>1. step[a] = "read" /\ step' = [step EXCEPT ![a] = s] /\ task' = [task EXCEPT ![a] = r]
  BY DEF ReadRows
<1>2. t \in Tasks /\ TaskFits(a, "read", t) /\ TasksTyped
  BY <1>1, AtStep DEF GatewayTyped
<1>3. r \in Tasks
  <2>1. CASE c = None
    BY <1>2, <2>1
  <2>2. CASE c # None /\ t.kind = "retire"
    <3>1. t.generation \in Generations
      BY <1>2, <2>2 DEF TaskFits
    <3> QED BY <1>2, <2>2, <3>1, TaskWrites
  <2>3. CASE c # None /\ t.kind # "retire"
    <3>1. c \in Connections
      BY <1>2, <2>3 DEF Tasks
    <3> QED BY <1>2, <2>3, <3>1, UnrevokedTyped, TaskWrites
  <2> QED BY <2>1, <2>2, <2>3
<1>4. /\ r.kind = t.kind /\ r.asked = t.asked /\ r.connection = t.connection
      /\ t.kind = "retire" => r.generation = t.generation
  BY <1>2 DEF Tasks
<1>5. a # Lifecycle /\ t.kind \in WorkerKinds /\ t.asked \in WorkerKinds
  BY <1>2 DEF TaskFits
<1>6. s \in Places /\ s # "idle" /\ TaskFits(a, s, r)
  <2> HIDE DEF r
  <2>1. CASE t.kind = "provision"
    <3>1. s = "render"
      BY <2>1, <1>4 DEF NeedsNewCredential
    <3> HIDE DEF s
    <3> QED BY <1>2, <1>4, <1>5, <2>1, <3>1
            DEF TaskFits, Places, NeedsNewCredential, ConnectionKinds
  <2>2. CASE t.kind = "teardown"
    <3>1. s = "remove"
      BY <2>2, <1>4 DEF NeedsNewCredential
    <3> HIDE DEF s
    <3> QED BY <1>2, <1>4, <1>5, <2>2, <3>1
            DEF TaskFits, Places, NeedsNewCredential, ConnectionKinds, Inserted
  <2>3. CASE t.kind \notin {"provision", "teardown"}
    <3>1. s = IF NeedsNewCredential(r) THEN "insert" ELSE "deny"
      <4>1. NeedsNewCredential(r) \in BOOLEAN
        BY DEF NeedsNewCredential
      <4> QED BY <2>3
    <3>2. t.kind \in ConnectionKinds /\ "insert" \in Places /\ "deny" \in Places
      BY <1>5, <2>3 DEF ConnectionKinds, Places
    <3> HIDE DEF s
    <3> QED BY <1>2, <1>4, <1>5, <3>1, <3>2 DEF TaskFits, Inserted
  <2> QED BY <2>1, <2>2, <2>3
<1>7. TasksTyped'
  <2> HIDE DEF r, s
  <2> QED BY <1>1, <1>2, <1>3, <1>6, StepTyped
<1>8. UNCHANGED <<rowVars, planeVars, role, queue, listed, issued, lifeVars, denied, leaked, crashes>>
  BY DEF ReadRows
<1>9. connection \in [Connections -> ConnectionRows] /\ route \in {"none", "active", "disabled"}
  BY DEF GatewayTyped, RowsTyped
<1> QED BY <1>7, <1>8, <1>9, HandlerRest, CredentialsSame, PlaneSame, QueueSame, HistorySame DEF GatewayTyped

LEMMA InsertTyped ==
  ASSUME GatewayTyped, NEW a \in Actors, InsertCredential(a)
  PROVE  GatewayTyped'
<1> USE DEF NoFault, environment, planeVars, lifeVars, Fault, FaultAt, EngineRefuses
<1> DEFINE c == task[a].connection
           g == task[a].generation
<1>1. step[a] = "insert" /\ g \in Generations
  BY DEF InsertCredential
<1>2. task[a] \in Tasks /\ TaskFits(a, "insert", task[a]) /\ TasksTyped
  BY <1>1, AtStep DEF GatewayTyped
<1>3. c \in Connections /\ <<c, g>> \in Credentials /\ g \in 0..MaxGeneration
  BY <1>1, <1>2, GatewayAssumption DEF TaskFits, Credentials, Generations
<1>4. TasksTyped'
  <2>1. CASE Goto(a, "render")
    <3>1. TaskFits(a, "render", task[a])
      BY <1>1, <1>2 DEF TaskFits
    <3> QED BY <1>1, <1>2, <2>1, <3>1, GotoTyped DEF Places
  <2>2. CASE Goto(a, "fail")
    BY <1>1, <1>2, <2>2, GotoTyped DEF Places
  <2> QED BY <2>1, <2>2 DEF InsertCredential
<1>5. connection' \in [Connections -> ConnectionRows]
  <2>1. "active" \in Statuses /\ connection \in [Connections -> ConnectionRows]
    BY DEF Statuses, GatewayTyped, RowsTyped
  <2>2. CASE connection' = [connection EXCEPT ![c].generation = g]
    BY <1>3, <2>1, <2>2, ConnectionTyped
  <2>3. CASE AbandonCredential(a)
    BY <1>3, <2>1, <2>3, ConnectionTyped DEF AbandonCredential
  <2> QED BY <2>2, <2>3 DEF InsertCredential
<1>6. CredentialsTyped'
  <2>1. "active" \in CredentialStates /\ "login" \in Roles
    BY DEF CredentialStates, Roles
  <2> QED BY <1>3, <2>1 DEF InsertCredential, AbandonCredential, GatewayTyped, CredentialsTyped
<1>7. UNCHANGED <<instance, route, planeVars, queue, listed, issued, lifeVars, denied, leaked, crashes>>
  BY DEF InsertCredential
<1>8. route \in {"none", "active", "disabled"}
  BY DEF GatewayTyped, RowsTyped
<1> QED BY <1>4, <1>5, <1>6, <1>7, <1>8, HandlerRest, PlaneSame, QueueSame, HistorySame DEF GatewayTyped

\* The three steps that go from role to role.
LEMMA RolesStepTyped ==
  ASSUME GatewayTyped, NEW a \in Actors, DisableRoles(a) \/ PermitRoles(a) \/ DropRoles(a)
  PROVE  GatewayTyped'
<1> USE DEF rowVars, planeVars, lifeVars
<1>1. step[a] \in {"deny", "permit", "drop"}
  BY DEF DisableRoles, PermitRoles, DropRoles
<1>2. task[a] \in Tasks /\ TaskFits(a, step[a], task[a]) /\ TasksTyped
  BY <1>1, AtStep DEF GatewayTyped
<1>3. PICK value \in Roles, next \in {"drop", "render", "fail", "probe", "commit"} :
        /\ RunOnRoles(a, task[a].connection, task[a].roles, value, next)
        /\ next # "fail" => TaskFits(a, next, task[a])
  <2>0. /\ ~NeedsNewCredential(task[a])
        /\ task[a].kind \in ConnectionKinds \cup {"delete"}
    BY <1>1, <1>2 DEF TaskFits
  <2>1. CASE DisableRoles(a)
    <3>1. step[a] = "deny"
      BY <2>1 DEF DisableRoles
    <3>2. CASE task[a].kind = "delete"
      <4>1. TaskFits(a, "drop", task[a])
        BY <1>2, <2>0, <3>1, <3>2 DEF TaskFits, Inserted
      <4> QED BY <2>1, <3>2, <4>1 DEF DisableRoles, Roles
    <3>3. CASE task[a].kind # "delete"
      <4>1. TaskFits(a, "render", task[a])
        BY <1>2, <2>0, <3>1 DEF TaskFits, Inserted
      <4> QED BY <2>1, <3>3, <4>1 DEF DisableRoles, Roles
    <3> QED BY <3>2, <3>3
  <2>2. CASE PermitRoles(a)
    <3>1. step[a] = "permit"
      BY <2>2 DEF PermitRoles
    <3>2. task[a].kind \in ConnectionKinds
      BY <1>2, <3>1 DEF TaskFits
    <3>3. TaskFits(a, "probe", task[a])
      BY <1>2, <2>0, <3>1, <3>2 DEF TaskFits, Inserted
    <3> QED BY <2>2, <3>3 DEF PermitRoles, Roles
  <2>3. CASE DropRoles(a)
    <3>1. step[a] = "drop"
      BY <2>3 DEF DropRoles
    <3>2. TaskFits(a, "commit", task[a])
      BY <1>2, <2>0, <3>1 DEF TaskFits, Inserted
    <3> QED BY <2>3, <3>2 DEF DropRoles, Roles
  <2> QED BY <2>1, <2>2, <2>3
<1>4. role' \in [Credentials -> Roles] /\ TasksTyped'
  <2>1. next \in Places /\ next # "idle"
    BY DEF Places
  <2>2. role \in [Credentials -> Roles]
    BY DEF GatewayTyped, CredentialsTyped
  <2> QED BY <1>1, <1>2, <1>3, <2>1, <2>2, RunTyped
<1>5. UNCHANGED <<rowVars, planeVars, queue, listed, issued, lifeVars, denied, leaked>>
  BY DEF DisableRoles, PermitRoles, DropRoles
<1>6. crashes' = crashes
  BY <1>3 DEF RunOnRoles, FaultAt, EngineRefuses, Fault, NoFault, environment
<1>7. /\ CredentialsTyped'
      /\ connection \in [Connections -> ConnectionRows] /\ route \in {"none", "active", "disabled"}
  BY <1>4, <1>5 DEF GatewayTyped, CredentialsTyped, RowsTyped
<1> QED BY <1>4, <1>5, <1>6, <1>7, HandlerRest, PlaneSame, QueueSame, HistorySame DEF GatewayTyped

LEMMA ProbeTyped ==
  ASSUME GatewayTyped, NEW a \in Actors, Probe(a)
  PROVE  GatewayTyped'
<1> USE DEF rowVars, planeVars, lifeVars, Fault, FaultAt, EngineRefuses, NoFault, environment
<1>1. step[a] = "probe"
  BY DEF Probe
<1>2. task[a] \in Tasks /\ TaskFits(a, "probe", task[a]) /\ TasksTyped
  BY <1>1, AtStep DEF GatewayTyped
<1>3. TasksTyped'
  <2>1. CASE Goto(a, "commit")
    <3>1. TaskFits(a, "commit", task[a])
      BY <1>1, <1>2 DEF TaskFits, Inserted, ConnectionKinds
    <3> QED BY <1>1, <1>2, <2>1, <3>1, GotoTyped DEF Places
  <2>2. CASE Goto(a, FailStep(a))
    BY <1>1, <1>2, <2>2, FailTyped
  <2> QED BY <2>1, <2>2 DEF Probe
<1>4. UNCHANGED <<rowVars, planeVars, role, queue, listed, issued, lifeVars, denied, leaked, crashes>>
  BY DEF Probe
<1>5. connection \in [Connections -> ConnectionRows] /\ route \in {"none", "active", "disabled"}
  BY DEF GatewayTyped, RowsTyped
<1> QED BY <1>3, <1>4, <1>5, HandlerRest, CredentialsSame, PlaneSame, QueueSame, HistorySame DEF GatewayTyped

LEMMA CompleteTyped ==
  ASSUME GatewayTyped, NEW a \in Actors, CompleteRotation(a)
  PROVE  GatewayTyped'
<1> USE DEF NoFault, environment, planeVars, lifeVars, Fault, FaultAt, EngineRefuses
<1> DEFINE t == task[a]
           c == t.connection
<1>1. step[a] = "commit" /\ NeedsNewCredential(t)
  BY DEF CompleteRotation
<1>2. t \in Tasks /\ TaskFits(a, "commit", t) /\ TasksTyped
  BY <1>1, AtStep DEF GatewayTyped
<1>3. c \in Connections /\ t.kind \in ConnectionKinds /\ t.generation \in Generations
  BY <1>1, <1>2 DEF TaskFits, NeedsNewCredential, ConnectionKinds, WorkerKinds, Inserted
<1>4. TasksTyped'
  <2>1. CASE Goto(a, "succeed")
    BY <1>1, <1>2, <2>1, GotoTyped DEF Places
  <2>2. CASE Goto(a, "undo")
    <3>1. TaskFits(a, "undo", t)
      BY <1>1, <1>2, <1>3 DEF TaskFits, Inserted
    <3> QED BY <1>1, <1>2, <2>2, <3>1, GotoTyped DEF Places
  <2>3. CASE ~Goto(a, "succeed") /\ ~Goto(a, "undo")
    <3> DEFINE r == [t EXCEPT !.kind = "retire", !.generation = t.previous, !.roles = {t.previous}]
    <3>1. /\ step' = [step EXCEPT ![a] = "deny"]
          /\ task' = [task EXCEPT ![a].kind = "retire", ![a].generation = t.previous, ![a].roles = {t.previous}]
          /\ t.previous # 0
      BY <2>3 DEF CompleteRotation
    <3>2. task' = [task EXCEPT ![a] = r]
      BY <3>1, <1>2 DEF TasksTyped
    <3>3. t.previous \in Generations
      BY <1>2, <3>1, GatewayAssumption DEF Tasks, Generations
    <3>4. r \in Tasks
      BY <1>2, <3>3, TaskWrites DEF Kinds, WorkerKinds
    <3>5. /\ r.kind = "retire" /\ r.generation = t.previous /\ r.connection = c /\ r.asked = t.asked
      BY <1>2 DEF Tasks
    <3>6. TaskFits(a, "deny", r)
      <4>1. a # Lifecycle
        BY <1>2, <1>3 DEF TaskFits, ConnectionKinds, WorkerKinds, LifecycleKinds
      <4> HIDE DEF r
      <4> QED BY <1>2, <1>3, <3>3, <3>5, <4>1
              DEF TaskFits, NeedsNewCredential, WorkerKinds, ConnectionKinds, Inserted
    <3> HIDE DEF r
    <3> QED BY <1>2, <3>1, <3>2, <3>4, <3>6, StepTyped DEF Places
  <2> QED BY <2>1, <2>2, <2>3
<1>5. connection' \in [Connections -> ConnectionRows]
  <2>1. "active" \in Statuses /\ connection \in [Connections -> ConnectionRows]
    BY DEF Statuses, GatewayTyped, RowsTyped
  <2>2. connection' = connection \/ connection' = [connection EXCEPT ![c].status = "active"]
    BY DEF CompleteRotation
  <2> HIDE DEF c
  <2>3. [connection EXCEPT ![c].status = "active"] \in [Connections -> ConnectionRows]
    BY <1>3, <2>1, ConnectionTyped
  <2> QED BY <2>1, <2>2, <2>3
<1>6. CredentialsTyped'
  <2>1. \/ credential' = credential
        \/ credential' = [credential EXCEPT ![<<c, t.previous>>] = GraceState(t)]
    BY DEF CompleteRotation
  <2>2. role' = role /\ GraceState(t) \in CredentialStates
    BY DEF CompleteRotation, GraceState, CredentialStates
  <2> QED BY <2>1, <2>2 DEF GatewayTyped, CredentialsTyped
<1>7. UNCHANGED <<instance, route, planeVars, queue, listed, issued, lifeVars, denied, leaked, crashes>>
  BY DEF CompleteRotation
<1>8. route \in {"none", "active", "disabled"}
  BY DEF GatewayTyped, RowsTyped
<1> QED BY <1>4, <1>5, <1>6, <1>7, <1>8, HandlerRest, PlaneSame, QueueSame, HistorySame DEF GatewayTyped

LEMMA RevokedRowsTyped ==
  ASSUME CredentialsTyped, NEW c, NEW gs
  PROVE  RevokedRows(c, gs) \in [Credentials -> CredentialStates]
BY DEF RevokedRows, CredentialsTyped, CredentialStates

\* The commits of update, enable, revoke, retire and of a deletion.
LEMMA CommitTyped ==
  ASSUME GatewayTyped, NEW a \in Actors, CommitActive(a) \/ FinalizeRevocation(a) \/ RevokeRetired(a)
  PROVE  GatewayTyped'
<1> USE DEF NoFault, environment, planeVars, lifeVars, Fault, FaultAt, EngineRefuses
<1> DEFINE t == task[a]
           c == t.connection
<1>1. step[a] = "commit"
  BY DEF CommitActive, FinalizeRevocation, RevokeRetired
<1>2. t \in Tasks /\ TaskFits(a, "commit", t) /\ TasksTyped
  BY <1>1, AtStep DEF GatewayTyped
<1>3. c \in Connections
  BY <1>2 DEF TaskFits
<1>4. TasksTyped'
  <2>1. CASE Goto(a, "succeed") \/ Goto(a, "fail")
    BY <1>1, <1>2, <2>1, GotoTyped DEF Places
  <2>2. CASE Goto(a, FailStep(a))
    <3>1. step[a] \in FromDenial \cup {"deny", "permit", "probe", "close"}
      BY <1>1 DEF FromDenial
    <3> QED BY <1>2, <2>2, <3>1, FailTyped
  <2>3. CASE FinalizeRevocation(a) /\ Goto(a, IF t.kind = "revoke" THEN "close" ELSE "next")
    <3>1. t.kind \in {"revoke", "delete"}
      BY <2>3 DEF FinalizeRevocation
    <3>2. CASE t.kind = "revoke"
      <4>1. TaskFits(a, "close", t)
        BY <1>2, <3>2 DEF TaskFits, Inserted, NeedsNewCredential
      <4> QED BY <1>1, <1>2, <2>3, <3>2, <4>1, GotoTyped DEF Places
    <3>3. CASE t.kind = "delete"
      <4>1. TaskFits(a, "next", t)
        BY <1>2, <3>3 DEF TaskFits, Inserted, NeedsNewCredential
      <4> QED BY <1>1, <1>2, <2>3, <3>3, <4>1, GotoTyped DEF Places
    <3> QED BY <3>1, <3>2, <3>3
  <2> QED BY <2>1, <2>2, <2>3 DEF CommitActive, FinalizeRevocation, RevokeRetired
<1>5. connection' \in [Connections -> ConnectionRows]
  <2>1. "active" \in Statuses /\ "revoked" \in Statuses /\ connection \in [Connections -> ConnectionRows]
    BY DEF Statuses, GatewayTyped, RowsTyped
  <2>2. \/ connection' = connection
        \/ connection' = [connection EXCEPT ![c].status = "active"]
        \/ connection' = [connection EXCEPT ![c].status = "revoked"]
    BY DEF CommitActive, FinalizeRevocation, RevokeRetired, SetStatus
  <2> HIDE DEF c
  <2>3. /\ [connection EXCEPT ![c].status = "active"] \in [Connections -> ConnectionRows]
        /\ [connection EXCEPT ![c].status = "revoked"] \in [Connections -> ConnectionRows]
    BY <1>3, <2>1, ConnectionTyped
  <2> QED BY <2>1, <2>2, <2>3
<1>6. CredentialsTyped'
  <2>1. \/ credential' = credential
        \/ credential' = RevokedRows(c, Generations)
        \/ credential' = [credential EXCEPT ![<<c, t.generation>>] = "revoked"]
    BY DEF CommitActive, FinalizeRevocation, RevokeRetired
  <2>2. role' = role /\ "revoked" \in CredentialStates
    BY DEF CommitActive, FinalizeRevocation, RevokeRetired, CredentialStates
  <2> QED BY <2>1, <2>2, RevokedRowsTyped DEF GatewayTyped, CredentialsTyped
<1>7. UNCHANGED <<instance, route, planeVars, queue, listed, issued, lifeVars, denied, leaked, crashes>>
  BY DEF CommitActive, FinalizeRevocation, RevokeRetired
<1>8. route \in {"none", "active", "disabled"}
  BY DEF GatewayTyped, RowsTyped
<1> QED BY <1>4, <1>5, <1>6, <1>7, <1>8, HandlerRest, PlaneSame, QueueSame, HistorySame DEF GatewayTyped

LEMMA CleanupTyped ==
  ASSUME GatewayTyped, NEW a \in Actors, CleanupRoute(a)
  PROVE  GatewayTyped'
<1> USE DEF NoFault, environment, planeVars, lifeVars, Fault, FaultAt
<1>1. step[a] = "close"
  BY DEF CleanupRoute
<1>2. task[a] \in Tasks /\ TaskFits(a, "close", task[a]) /\ TasksTyped
  BY <1>1, AtStep DEF GatewayTyped
<1>3. TasksTyped'
  <2>1. CASE Goto(a, FailStep(a))
    BY <1>1, <1>2, <2>1, FailTyped
  <2>2. CASE Goto(a, IF task[a].kind = "delete" THEN "remove" ELSE "succeed")
    <3>1. CASE task[a].kind = "delete"
      <4>1. TaskFits(a, "remove", task[a])
        BY <1>2, <3>1 DEF TaskFits, Inserted
      <4> QED BY <1>1, <1>2, <2>2, <3>1, <4>1, GotoTyped DEF Places
    <3>2. CASE task[a].kind # "delete"
      BY <1>1, <1>2, <2>2, <3>2, GotoTyped DEF Places
    <3> QED BY <3>1, <3>2
  <2> QED BY <2>1, <2>2 DEF CleanupRoute
<1>4. route' \in {"none", "active", "disabled"}
  BY DEF CleanupRoute, GatewayTyped, RowsTyped
<1>5. UNCHANGED <<instance, connection, credential, planeVars, role, queue, listed, issued, lifeVars, denied,
                  leaked, crashes>>
  BY DEF CleanupRoute
<1>6. connection \in [Connections -> ConnectionRows]
  BY DEF GatewayTyped, RowsTyped
<1> QED BY <1>3, <1>4, <1>5, <1>6, HandlerRest, CredentialsSame, PlaneSame, QueueSame, HistorySame DEF GatewayTyped

LEMMA RemoveTyped ==
  ASSUME GatewayTyped, NEW a \in Actors, RemoveGateway(a)
  PROVE  GatewayTyped'
<1> USE DEF NoFault, environment, rowVars, lifeVars, Fault, FaultAt
<1>1. step[a] = "remove" /\ (Goto(a, "succeed") \/ Goto(a, "fail"))
  BY DEF RemoveGateway
<1>2. TasksTyped'
  BY <1>1, GotoTyped DEF GatewayTyped, Places
<1>3. endpoint' \in EndpointRows
  <2>1. [desired |-> "absent", container |-> FALSE, wanted |-> 0, applied |-> 0] \in EndpointRows
    BY DEF EndpointRows
  <2> QED BY <2>1 DEF RemoveGateway, GatewayTyped, RowsTyped
<1>4. PlaneTyped'
  BY DEF RemoveGateway, GatewayTyped, PlaneTyped, Configurations
<1>5. UNCHANGED <<rowVars, role, queue, listed, issued, lifeVars, denied, leaked, crashes>>
  BY DEF RemoveGateway
<1> QED BY <1>2, <1>3, <1>4, <1>5, CredentialsSame, QueueSame, HistorySame DEF GatewayTyped, RowsTyped

LEMMA UndoCredentialTyped ==
  ASSUME GatewayTyped, NEW a \in Actors, UndoCredential(a)
  PROVE  GatewayTyped'
<1> USE DEF NoFault, environment, planeVars, lifeVars, Fault, FaultAt
<1> DEFINE t == task[a]
           c == t.connection
<1>1. step[a] = "undo" /\ Goto(a, "undrop")
  BY DEF UndoCredential
<1>2. t \in Tasks /\ TaskFits(a, "undo", t) /\ TasksTyped
  BY <1>1, AtStep DEF GatewayTyped
<1>3. c \in Connections /\ t.previous \in 0..MaxGeneration
  BY <1>2 DEF TaskFits, Tasks
<1>4. TasksTyped'
  <2>1. TaskFits(a, "undrop", t)
    BY <1>2 DEF TaskFits, Inserted
  <2> QED BY <1>1, <1>2, <2>1, GotoTyped DEF Places
<1>5. connection' \in [Connections -> ConnectionRows]
  <2>1. "active" \in Statuses /\ connection \in [Connections -> ConnectionRows]
    BY DEF Statuses, GatewayTyped, RowsTyped
  <2>2. connection' = connection
        \/ connection' = [connection EXCEPT ![c].generation = t.previous, ![c].status = "active"]
    BY DEF UndoCredential
  <2>3. [connection EXCEPT ![c].generation = t.previous, ![c].status = "active"]
          \in [Connections -> ConnectionRows]
    BY <1>3, <2>1, ConnectionTyped
  <2> QED BY <2>1, <2>2, <2>3
<1>6. CredentialsTyped'
  <2>1. credential' = credential \/ credential' = RevokedRows(c, {t.generation})
    BY DEF UndoCredential
  <2>2. role' = role
    BY DEF UndoCredential
  <2> QED BY <2>1, <2>2, RevokedRowsTyped DEF GatewayTyped, CredentialsTyped
<1>7. UNCHANGED <<instance, route, planeVars, queue, listed, issued, lifeVars, denied, leaked, crashes>>
  BY DEF UndoCredential
<1>8. route \in {"none", "active", "disabled"}
  BY DEF GatewayTyped, RowsTyped
<1> QED BY <1>4, <1>5, <1>6, <1>7, <1>8, HandlerRest, PlaneSame, QueueSame, HistorySame DEF GatewayTyped

LEMMA UndoRoleTyped ==
  ASSUME GatewayTyped, NEW a \in Actors, UndoRole(a)
  PROVE  GatewayTyped'
<1> USE DEF NoFault, environment, rowVars, planeVars, lifeVars, Fault
<1> DEFINE t == task[a]
           x == <<t.connection, t.generation>>
           r == [t EXCEPT !.undoing = TRUE]
<1>1. step[a] = "undrop" /\ step' = [step EXCEPT ![a] = "render"]
      /\ task' = [task EXCEPT ![a].undoing = TRUE]
  BY DEF UndoRole
<1>2. t \in Tasks /\ TaskFits(a, "undrop", t) /\ TasksTyped
  BY <1>1, AtStep DEF GatewayTyped
<1>3. x \in Credentials
  BY <1>2 DEF TaskFits, Inserted, Credentials
<1>4. TasksTyped'
  <2>1. task' = [task EXCEPT ![a] = r]
    BY <1>1, <1>2 DEF TasksTyped
  <2>2. r \in Tasks
    BY <1>2, TaskWrites
  <2>3. /\ r.kind = t.kind /\ r.asked = t.asked /\ r.connection = t.connection
        /\ r.generation = t.generation /\ r.previous = t.previous
    BY <1>2 DEF Tasks
  <2> HIDE DEF r
  <2>4. TaskFits(a, "render", r)
    BY <1>2, <2>3 DEF TaskFits, Inserted, NeedsNewCredential
  <2> QED BY <1>1, <1>2, <2>1, <2>2, <2>4, StepTyped DEF Places
<1>5. CredentialsTyped' /\ HistoryTyped'
  <2>1. "none" \in Roles
    BY DEF Roles
  <2> QED BY <1>3, <2>1 DEF UndoRole, GatewayTyped, CredentialsTyped, HistoryTyped
<1>6. UNCHANGED <<rowVars, planeVars, queue, listed, issued, lifeVars, denied, crashes>>
  BY DEF UndoRole
<1>7. connection \in [Connections -> ConnectionRows] /\ route \in {"none", "active", "disabled"}
  BY DEF GatewayTyped, RowsTyped
<1> QED BY <1>4, <1>5, <1>6, <1>7, HandlerRest, PlaneSame, QueueSame DEF GatewayTyped

LEMMA FinishTyped ==
  ASSUME TasksTyped, NEW a \in Actors, Finish(a)
  PROVE  TasksTyped'
BY IdleIsTask, StepTyped DEF Finish, Places

LEMMA EndTyped ==
  ASSUME GatewayTyped, NEW a \in Actors, EndOperation(a)
  PROVE  GatewayTyped'
<1> USE DEF NoFault, environment, planeVars, lifeVars
<1>1. step[a] \in {"succeed", "fail"} /\ Finish(a)
  BY DEF EndOperation
<1>2. task[a] \in Tasks /\ TaskFits(a, step[a], task[a]) /\ TasksTyped
  BY <1>1, AtStep DEF GatewayTyped
<1>3. TasksTyped'
  BY <1>1, <1>2, FinishTyped
<1>4. QueueTyped' /\ HistoryTyped'
  <2>1. queue' \subseteq queue /\ UNCHANGED <<listed, leaked>>
    BY DEF EndOperation, EndOf
  <2>2. denied' \subseteq Connections
    <3>1. task[a].connection \in Connections \cup {None}
      BY <1>2 DEF Tasks
    <3> QED BY <3>1 DEF EndOperation, Settle, GatewayTyped, HistoryTyped
  <2> QED BY <2>1, <2>2 DEF GatewayTyped, QueueTyped, HistoryTyped
<1>5. connection' \in [Connections -> ConnectionRows]
  <2>1. "failed" \in Statuses /\ connection \in [Connections -> ConnectionRows]
    BY DEF Statuses, GatewayTyped, RowsTyped
  <2>2. CASE FailedStatus(task[a]) /\ connection' = [connection EXCEPT ![task[a].connection].status = "failed"]
    <3>1. task[a].connection \in Connections
      BY <1>2, <2>2 DEF FailedStatus, Tasks
    <3> QED BY <2>1, <2>2, <3>1, ConnectionTyped
  <2>3. CASE connection' = connection
    BY <2>1, <2>3
  <2> QED BY <2>2, <2>3 DEF EndOperation
<1>6. UNCHANGED <<instance, route, credential, planeVars, role, issued, lifeVars, crashes>>
  BY DEF EndOperation
<1>7. route \in {"none", "active", "disabled"}
  BY DEF GatewayTyped, RowsTyped
<1> QED BY <1>3, <1>4, <1>5, <1>6, <1>7, HandlerRest, CredentialsSame, PlaneSame DEF GatewayTyped

\* What the database handlers leave alone.
LEMMA LifecycleRest ==
  ASSUME GatewayTyped, UNCHANGED <<lifecycleRest, crashes>>, TasksTyped',
         instance' \in {"starting", "healthy", "stopped", "deleted"},
         route' \in {"none", "active", "disabled"}, connection' \in [Connections -> ConnectionRows],
         condemned' \in BOOLEAN, lifecycles' \in Nat
  PROVE  GatewayTyped'
<1>1. UNCHANGED <<credential, endpoint, directories, current, loaded, role, queue, listed, issued, denied, leaked>>
  BY DEF lifecycleRest
<1> QED BY <1>1, CredentialsSame, PlaneSame, QueueSame, HistorySame DEF GatewayTyped, RowsTyped

\* A database handler begins.
LEMMA BeginFits ==
  ASSUME TasksTyped, NEW t \in Tasks, t.kind \in LifecycleKinds,
         NEW s \in {"render", "stop", "reopen", "remove", "next"},
         s = "reopen" => t.kind = "resume", s \in {"remove", "next"} => t.kind = "delete",
         step' = [step EXCEPT ![Lifecycle] = s], task' = [task EXCEPT ![Lifecycle] = t]
  PROVE  TasksTyped'
<1>1. TaskFits(Lifecycle, s, t)
  BY DEF TaskFits, LifecycleKinds, ConnectionKinds, WorkerKinds, NeedsNewCredential, Inserted
<1>2. s \in Places /\ s # "idle" /\ Lifecycle \in Actors
  BY DEF Places, Actors
<1> QED BY <1>1, <1>2, StepTyped

LEMMA BegunIsTask ==
  /\ \A k \in LifecycleKinds : [Idle EXCEPT !.kind = k] \in Tasks /\ [Idle EXCEPT !.kind = k].kind = k
  /\ \A cs \in SUBSET Connections :
       /\ [Idle EXCEPT !.kind = "delete", !.rest = cs] \in Tasks
       /\ [Idle EXCEPT !.kind = "delete", !.rest = cs].kind = "delete"
<1>1. LifecycleKinds \subseteq Kinds /\ "delete" \in LifecycleKinds
  BY DEF Kinds, LifecycleKinds
<1> QED BY <1>1, IdleIsTask DEF Tasks

LEMMA BeginTyped ==
  ASSUME GatewayTyped, BeginStop \/ BeginStart \/ BeginDelete
  PROVE  GatewayTyped'
<1> USE DEF NoFault, environment
<1>1. /\ UNCHANGED <<lifecycleRest, crashes, connection>>
      /\ instance' \in {"starting", "healthy", "stopped", "deleted"}
      /\ route' \in {"none", "active", "disabled"}
      /\ condemned' \in BOOLEAN /\ connection' \in [Connections -> ConnectionRows]
  BY DEF BeginStop, BeginStart, BeginDelete, GatewayTyped, RowsTyped
<1>2. lifecycles' \in Nat
  BY DEF BeginStop, BeginStart, BeginDelete, BeginLifecycle, GatewayTyped, RowsTyped
<1>3. TasksTyped'
  <2>0. TasksTyped
    BY DEF GatewayTyped
  <2>1. CASE BeginStop
    <3> DEFINE t == [Idle EXCEPT !.kind = "pause"]
    <3>1. t \in Tasks /\ t.kind = "pause"
      BY BegunIsTask DEF LifecycleKinds
    <3>2. PICK s \in {"render", "stop"} :
            step' = [step EXCEPT ![Lifecycle] = s] /\ task' = [task EXCEPT ![Lifecycle] = t]
      BY <2>1 DEF BeginStop
    <3> HIDE DEF t
    <3> QED BY <2>0, <3>1, <3>2, BeginFits DEF LifecycleKinds
  <2>2. CASE BeginStart
    <3> DEFINE t == [Idle EXCEPT !.kind = "resume"]
    <3>1. t \in Tasks /\ t.kind = "resume"
      BY BegunIsTask DEF LifecycleKinds
    <3>2. step' = [step EXCEPT ![Lifecycle] = "reopen"] /\ task' = [task EXCEPT ![Lifecycle] = t]
      BY <2>2 DEF BeginStart
    <3> HIDE DEF t
    <3> QED BY <2>0, <3>1, <3>2, BeginFits DEF LifecycleKinds
  <2>3. CASE BeginDelete
    <3> DEFINE t == [Idle EXCEPT !.kind = "delete",
                                 !.rest = {c \in Connections : Status(c) \notin {"absent", "revoked"}}]
    <3>1. t \in Tasks /\ t.kind = "delete"
      BY BegunIsTask
    <3>2. PICK s \in {"remove", "next"} :
            step' = [step EXCEPT ![Lifecycle] = s] /\ task' = [task EXCEPT ![Lifecycle] = t]
      BY <2>3 DEF BeginDelete
    <3> HIDE DEF t
    <3> QED BY <2>0, <3>1, <3>2, BeginFits DEF LifecycleKinds
  <2> QED BY <2>1, <2>2, <2>3
<1> QED BY <1>1, <1>2, <1>3, LifecycleRest

LEMMA LifecycleStepTyped ==
  ASSUME GatewayTyped, LifecycleStep
  PROVE  GatewayTyped'
<1> USE DEF NoFault, environment, Fault
<1>0. TasksTyped /\ Lifecycle \in Actors
  BY DEF GatewayTyped, Actors
<1>1. /\ UNCHANGED <<lifecycleRest, crashes, lifeVars>>
      /\ instance' \in {"starting", "healthy", "stopped", "deleted"}
      /\ route' \in {"none", "active", "disabled"}
  BY DEF LifecycleStep, StopInstance, ReopenRoute, UndoRoute, RevokeNext, RemoveInstance, EndLifecycle,
         GatewayTyped, RowsTyped
<1>2. condemned' \in BOOLEAN /\ lifecycles' \in Nat
  BY <1>1 DEF lifeVars, GatewayTyped, RowsTyped
<1>3. CASE StopInstance \/ UndoRoute \/ RemoveInstance \/ EndLifecycle
  <2>1. Finish(Lifecycle) /\ UNCHANGED connection
    BY <1>3 DEF StopInstance, UndoRoute, RemoveInstance, EndLifecycle
  <2> QED BY <1>0, <1>1, <1>2, <2>1, FinishTyped, LifecycleRest DEF GatewayTyped, RowsTyped
<1>4. CASE ReopenRoute
  <2>1. step[Lifecycle] = "reopen" /\ UNCHANGED connection
    BY <1>4 DEF ReopenRoute
  <2>2. TasksTyped'
    <3>1. CASE Finish(Lifecycle)
      BY <1>0, <3>1, FinishTyped
    <3>2. CASE Goto(Lifecycle, "render")
      <4>1. TaskFits(Lifecycle, "reopen", task[Lifecycle])
        BY <1>0, <2>1, AtStep
      <4>2. TaskFits(Lifecycle, "render", task[Lifecycle])
        BY <4>1 DEF TaskFits, NeedsNewCredential
      <4> QED BY <1>0, <2>1, <3>2, <4>2, GotoTyped DEF Places
    <3> QED BY <1>4, <3>1, <3>2 DEF ReopenRoute
  <2> QED BY <1>1, <1>2, <2>1, <2>2, LifecycleRest DEF GatewayTyped, RowsTyped
<1>5. CASE RevokeNext
  <2>1. step[Lifecycle] = "next"
    BY <1>5 DEF RevokeNext
  <2>2. task[Lifecycle] \in Tasks /\ TaskFits(Lifecycle, "next", task[Lifecycle])
    BY <1>0, <2>1, AtStep
  <2>3. task[Lifecycle].kind = "delete"
    BY <2>2 DEF TaskFits
  <2>4. CASE task[Lifecycle].rest = {}
    <3>1. TaskFits(Lifecycle, "render", task[Lifecycle])
      BY <2>2, <2>3 DEF TaskFits, NeedsNewCredential
    <3>2. Goto(Lifecycle, "render") /\ UNCHANGED connection
      BY <1>5, <2>4 DEF RevokeNext
    <3>3. TasksTyped'
      BY <1>0, <2>1, <3>1, <3>2, GotoTyped DEF Places
    <3> QED BY <1>1, <1>2, <3>2, <3>3, LifecycleRest DEF GatewayTyped, RowsTyped
  <2>5. CASE task[Lifecycle].rest # {}
    <3>1. PICK c \in task[Lifecycle].rest :
            /\ SetStatus(c, "revoking")
            /\ step' = [step EXCEPT ![Lifecycle] = "deny"]
            /\ task' = [task EXCEPT ![Lifecycle].rest = @ \ {c}, ![Lifecycle].connection = c,
                                    ![Lifecycle].roles = Unrevoked(c)]
      BY <1>5, <2>5 DEF RevokeNext
    <3>2. c \in Connections
      BY <2>2 DEF Tasks
    <3> DEFINE r == [task[Lifecycle] EXCEPT !.rest = task[Lifecycle].rest \ {c}, !.connection = c,
                                            !.roles = Unrevoked(c)]
    <3>3. task' = [task EXCEPT ![Lifecycle] = r]
      BY <3>1, <1>0 DEF TasksTyped
    <3>4. r \in Tasks
      <4>1. task[Lifecycle].rest \ {c} \in SUBSET Connections
        BY <2>2 DEF Tasks
      <4> QED BY <2>2, <3>2, <4>1, UnrevokedTyped, TaskWrites
    <3>5. r.kind = "delete" /\ r.connection = c
      BY <2>2, <2>3 DEF Tasks
    <3> HIDE DEF r
    <3>6. TaskFits(Lifecycle, "deny", r)
      BY <3>2, <3>5 DEF TaskFits, NeedsNewCredential, LifecycleKinds, ConnectionKinds, WorkerKinds, Inserted
    <3>7. TasksTyped'
      BY <1>0, <3>1, <3>3, <3>4, <3>6, StepTyped DEF Places
    <3>8. connection' \in [Connections -> ConnectionRows]
      <4>1. connection' = [connection EXCEPT ![c].status = "revoking"] /\ "revoking" \in Statuses
        BY <3>1 DEF SetStatus, Statuses
      <4>2. connection \in [Connections -> ConnectionRows]
        BY DEF GatewayTyped, RowsTyped
      <4>3. [connection EXCEPT ![c].status = "revoking"] \in [Connections -> ConnectionRows]
        BY <3>2, <4>1, <4>2, ConnectionTyped
      <4> QED BY <4>1, <4>3
    <3> QED BY <1>1, <1>2, <3>7, <3>8, LifecycleRest
  <2> QED BY <2>4, <2>5
<1> QED BY <1>3, <1>4, <1>5 DEF LifecycleStep

LEMMA ProvisionTyped ==
  ASSUME GatewayTyped, InstanceBecomesHealthy \/ ProvisionFails
  PROVE  GatewayTyped'
<1> USE DEF NoFault, environment, Fault
<1>1. CASE InstanceBecomesHealthy
  <2>1. /\ UNCHANGED <<lifecycleRest, crashes, connection, route, condemned, lifecycles, step, task>>
        /\ instance' = "healthy"
    BY <1>1 DEF InstanceBecomesHealthy, lifeVars
  <2>2. TasksTyped'
    BY <2>1, TasksSame DEF GatewayTyped
  <2> QED BY <2>1, <2>2, LifecycleRest DEF GatewayTyped, RowsTyped
<1>2. CASE ProvisionFails
  <2>1. /\ UNCHANGED <<instance, route, step, task, lifeVars, credential, endpoint, directories, current,
                       loaded, role, listed, issued, denied, leaked, crashes>>
        /\ queue' \subseteq queue
    BY <1>2 DEF ProvisionFails
  <2>2. connection' \in [Connections -> ConnectionRows]
    <3>1. PICK pending \in SUBSET Connections :
            connection' = [c \in Connections |-> IF c \in pending THEN [connection[c] EXCEPT !.status = "failed"]
                                                 ELSE connection[c]]
      BY <1>2 DEF ProvisionFails
    <3>2. ASSUME NEW r \in ConnectionRows PROVE [r EXCEPT !.status = "failed"] \in ConnectionRows
      BY DEF ConnectionRows, Statuses
    <3>3. connection \in [Connections -> ConnectionRows]
      BY DEF GatewayTyped, RowsTyped
    <3> QED BY <3>1, <3>2, <3>3
  <2>3. QueueTyped'
    BY <2>1 DEF GatewayTyped, QueueTyped
  <2>4. TasksTyped'
    BY <2>1, TasksSame DEF GatewayTyped
  <2> QED BY <2>1, <2>2, <2>3, <2>4, CredentialsSame, PlaneSame, HistorySame
          DEF GatewayTyped, RowsTyped, lifeVars
<1> QED BY <1>1, <1>2

\* What is left of the queue after a process end.
LEMMA RequeuedTyped ==
  ASSUME NEW Q \in SUBSET QueueRows, \A q \in Q : Named(q), NEW lapsed \in SUBSET Q
  PROVE  LET kept == (Q \ lapsed) \cup {[q EXCEPT !.status = "queued"] : q \in lapsed}
         IN kept \subseteq QueueRows /\ \A q \in kept : Named(q)
BY StatusTyped

LEMMA CrashTyped ==
  ASSUME GatewayTyped, GatewayCrash
  PROVE  GatewayTyped'
<1> USE DEF rowVars, planeVars, lifeVars
<1>1. PICK lapsed \in SUBSET {q \in queue : q.status = "running"} :
        LET kept == (queue \ lapsed) \cup {[q EXCEPT !.status = "queued"] : q \in lapsed}
            starts == endpoint.desired = "active" /\ ~IsQueued("provision", None, 0)
        IN /\ queue' = IF starts THEN kept \cup {Operation("provision", None, 0, FALSE)} ELSE kept
           /\ issued' = IF starts THEN issued + 1 ELSE issued
  BY DEF GatewayCrash
<1> DEFINE kept == (queue \ lapsed) \cup {[q EXCEPT !.status = "queued"] : q \in lapsed}
           o == Operation("provision", None, 0, FALSE)
<1>2. kept \subseteq QueueRows /\ \A q \in kept : Named(q)
  <2>1. queue \subseteq QueueRows /\ (\A q \in queue : Named(q)) /\ lapsed \in SUBSET queue
    BY DEF GatewayTyped, QueueTyped
  <2> QED BY <2>1, RequeuedTyped
<1>3. o \in QueueRows /\ Named(o) /\ issued \in Nat
  <2>1. issued + 1 \in Nat /\ issued \in Nat /\ 0 \in 0..MaxGeneration
    BY GatewayAssumption DEF GatewayTyped, RowsTyped
  <2> QED BY <2>1 DEF Operation, QueueRows, WorkerKinds, Named, ConnectionKinds
<1>4. QueueTyped' /\ issued' \in Nat
  <2>1. queue' = kept \cup {o} \/ queue' = kept
    BY <1>1
  <2>2. issued' = issued + 1 \/ issued' = issued
    BY <1>1
  <2>3. listed' = {}
    BY DEF GatewayCrash
  <2> HIDE DEF kept, o
  <2> QED BY <1>2, <1>3, <2>1, <2>2, <2>3 DEF QueueTyped
<1>5. TasksTyped'
  <2>1. step' = [a \in Actors |-> "idle"] /\ task' = [a \in Actors |-> Idle]
    BY DEF GatewayCrash
  <2> QED BY <2>1, IdleIsTask DEF TasksTyped, TaskTyped, Places
<1>6. HistoryTyped'
  <2>1. ASSUME NEW a \in Actors, step[a] = "undrop"
        PROVE  <<task[a].connection, task[a].generation>> \in Credentials
    <3>1. TaskFits(a, "undrop", task[a])
      BY <2>1, AtStep DEF GatewayTyped
    <3> QED BY <3>1 DEF TaskFits, Inserted, Credentials
  <2> QED BY <2>1 DEF GatewayCrash, GatewayTyped, HistoryTyped
<1>7. /\ UNCHANGED <<instance, route, connection, credential, endpoint, directories, current, loaded, role,
                     lifecycles, condemned>>
      /\ crashes' \in Nat
  BY DEF GatewayCrash, ProcessCrash, GatewayTyped, RowsTyped
<1> QED BY <1>4, <1>5, <1>6, <1>7, CredentialsSame, PlaneSame DEF GatewayTyped, RowsTyped

LEMMA LeaseTyped ==
  ASSUME GatewayTyped, NEW q \in queue, LeaseLapses(q)
  PROVE  GatewayTyped'
<1> USE DEF NoFault, environment, rowVars, planeVars, lifeVars
<1>1. /\ queue' = (queue \ {q}) \cup {[q EXCEPT !.status = "lapsed"]}
      /\ UNCHANGED <<rowVars, planeVars, role, listed, step, task, issued, lifeVars, denied, leaked, crashes>>
  BY DEF LeaseLapses, SetQueued
<1>2. QueueTyped'
  BY <1>1, StatusTyped DEF GatewayTyped, QueueTyped
<1>3. TasksTyped'
  BY <1>1, TasksSame DEF GatewayTyped
<1> QED BY <1>1, <1>2, <1>3, CredentialsSame, PlaneSame, HistorySame DEF GatewayTyped, RowsTyped

LEMMA GatewayTypedInit ==
  ASSUME GatewayInit PROVE GatewayTyped
<1>1. RowsTyped
  <2>1. [status |-> "absent", generation |-> 0, expires |-> "later"] \in ConnectionRows
    BY GatewayAssumption DEF ConnectionRows, Statuses
  <2>2. [desired |-> "absent", container |-> FALSE, wanted |-> 0, applied |-> 0] \in EndpointRows
    BY DEF EndpointRows
  <2> QED BY <2>1, <2>2 DEF GatewayInit, RowsTyped, EnvironmentInit
<1>2. CredentialsTyped /\ PlaneTyped /\ QueueTyped /\ HistoryTyped
  BY DEF GatewayInit, CredentialsTyped, CredentialStates, Roles, PlaneTyped, Configurations, QueueTyped,
         HistoryTyped
<1>3. TasksTyped
  BY IdleIsTask DEF GatewayInit, TasksTyped, TaskTyped, Places
<1> QED BY <1>1, <1>2, <1>3 DEF GatewayTyped

LEMMA GatewayTypedStep ==
  ASSUME GatewayTyped, [GatewayNext]_gatewayVars PROVE GatewayTyped'
<1>1. CASE QueueDatabaseGatewayProvision \/ QueueDatabaseGatewayTeardown
  BY <1>1, EndpointRequestTyped
<1>2. ASSUME NEW c \in Connections, ExternalRequest(c) PROVE GatewayTyped'
  BY <1>2, ExternalRequestTyped
<1>3. CASE (\E c \in Connections : ExpiryLapses(c)) \/ (\E x \in Credentials : GraceLapses(x))
  BY <1>3, LapseTyped
<1>4. CASE GatewayClaims
  BY <1>4, GatewayClaimsTyped
<1>5. ASSUME NEW a \in GatewayWorkers, ClaimNextDatabaseGatewayOperation(a) PROVE GatewayTyped'
  BY <1>5, ClaimTyped
<1>6. ASSUME NEW a \in Actors, ActorStep(a) PROVE GatewayTyped'
  <2>1. CASE DataPlaneStep(a)
    BY <2>1, RenderTyped, ActivateTyped, ReloadTyped, RecordTyped DEF DataPlaneStep
  <2>2. CASE HandlerStep(a)
    BY <2>2, ReadTyped, InsertTyped, RolesStepTyped, ProbeTyped, CompleteTyped, CommitTyped, RemoveTyped,
       UndoCredentialTyped, UndoRoleTyped, EndTyped DEF HandlerStep
  <2>3. CASE RevocationStep(a)
    BY <2>3, RolesStepTyped, CommitTyped, CleanupTyped DEF RevocationStep
  <2> QED BY <1>6, <2>1, <2>2, <2>3 DEF ActorStep
<1>7. CASE InstanceBecomesHealthy \/ ProvisionFails
  BY <1>7, ProvisionTyped
<1>8. CASE BeginStop \/ BeginStart \/ BeginDelete
  BY <1>8, BeginTyped
<1>9. CASE LifecycleStep
  BY <1>9, LifecycleStepTyped
<1>10. CASE GatewayCrash
  BY <1>10, CrashTyped
<1>11. ASSUME NEW q \in queue, LeaseLapses(q) PROVE GatewayTyped'
  BY <1>11, LeaseTyped
<1>12. CASE UNCHANGED gatewayVars
  <2>1. UNCHANGED <<instance, route, connection, credential, endpoint, directories, current, loaded, role,
                    queue, listed, step, task, issued, lifecycles, condemned, denied, leaked, crashes>>
    BY <1>12 DEF gatewayVars, rowVars, planeVars, lifeVars, environment
  <2>2. TasksTyped'
    BY <2>1, TasksSame DEF GatewayTyped
  <2> QED BY <2>1, <2>2, CredentialsSame, PlaneSame, QueueSame, HistorySame DEF GatewayTyped, RowsTyped
<1> QED BY <1>1, <1>2, <1>3, <1>4, <1>5, <1>6, <1>7, <1>8, <1>9, <1>10, <1>11, <1>12 DEF GatewayNext

\* With any number of workers every variable keeps its type, and an actor that
\* is done remembers nothing.
THEOREM GatewayKeepsTypes == GatewaySpec => []GatewayTypeOK
<1>1. GatewayInit => GatewayTyped
  BY GatewayTypedInit
<1>2. GatewayTyped /\ [GatewayNext]_gatewayVars => GatewayTyped'
  BY GatewayTypedStep
<1>3. GatewayTyped => GatewayTypeOK
  <2> SUFFICES ASSUME GatewayTyped PROVE GatewayTypeOK
    OBVIOUS
  <2>1. /\ instance \in {"starting", "healthy", "stopped", "deleted"}
        /\ route \in {"none", "active", "disabled"}
        /\ endpoint.desired \in {"absent", "active", "deleting"}
        /\ endpoint.wanted \in Nat /\ endpoint.applied \in Nat
    BY DEF GatewayTyped, RowsTyped, EndpointRows
  <2>2. ASSUME NEW c \in Connections
        PROVE  /\ Status(c) \in {"absent", "pending", "active", "rotating", "disabled", "expired", "failed",
                                 "revoking", "revoked"}
               /\ connection[c].generation \in 0..MaxGeneration
               /\ connection[c].expires \in {"later", "due"}
    BY DEF GatewayTyped, RowsTyped, ConnectionRows, Statuses, Status
  <2>3. credential \in [Credentials -> CredentialStates] /\ role \in [Credentials -> {"none", "login", "nologin"}]
    BY DEF GatewayTyped, CredentialsTyped, Roles
  <2>4. /\ \A n \in directories : n \in Nat
        /\ \A served \in {current, loaded} : served = None \/ \A x \in served : x \in Credentials
    BY DEF GatewayTyped, PlaneTyped, Configurations
  <2>5. \A a \in Actors : step[a] = "idle" => task[a] = Idle
    BY DEF GatewayTyped, TasksTyped, TaskTyped
  <2>6. listed \subseteq Connections \X (0..MaxGeneration) /\ denied \subseteq Connections /\ leaked \subseteq Credentials
    BY DEF GatewayTyped, QueueTyped, HistoryTyped
  <2> QED BY <2>1, <2>2, <2>3, <2>4, <2>5, <2>6 DEF GatewayTypeOK
<1> QED BY <1>1, <1>2, <1>3, PTL DEF GatewaySpec


-----------------------------------------------------------------------------
(* One worker, and what happens beside it.                                 *)

LEMMA OutlivesStays ==
  ASSUME leaked \subseteq leaked', condemned => condemned', NEW x \in Credentials, Outlives(x),
         credential[x] = "revoked" => credential'[x] = "revoked"
  PROVE  Outlives(x)'
BY DEF Outlives

\* A step that is not the worker's: only a deletion revokes rows, and no role
\* is let in.
Bystander(w) ==
  /\ UNCHANGED <<denied, leaked, crashes>> /\ step'[w] = step[w] /\ task'[w] = task[w]
  /\ \A x \in Credentials : \/ credential'[x] = credential[x]
                            \/ credential[x] = "grace" /\ credential'[x] = "due"
                            \/ condemned /\ credential[x] # "none" /\ credential'[x] = "revoked"
  /\ \A x \in Credentials : \/ role'[x] = role[x]
                            \/ role[x] # "none" /\ role'[x] \in {"none", "nologin"}
  /\ condemned => condemned'
  /\ instance' = "starting" => instance = "starting"
  /\ \/ instance = "starting"
     \/ \A q \in queue : \E p \in queue' : p.kind = q.kind /\ p.connection = q.connection

LEMMA QuietStays ==
  ASSUME leaked \subseteq leaked', condemned => condemned', NEW c \in Connections, Quiet(c),
         \A g \in Generations : /\ role'[<<c, g>>] = "login" => role[<<c, g>>] = "login"
                                /\ CredentialOf(c, g) = "revoked" => CredentialOf(c, g)' = "revoked"
  PROVE  Quiet(c)'
BY OutlivesStays DEF Quiet, Credentials, CredentialOf

LEMMA CredentialPair ==
  ASSUME NEW c \in Connections, NEW g \in Generations
  PROVE  <<c, g>> \in Credentials /\ CredentialOf(c, g) = credential[<<c, g>>]
BY DEF Credentials, CredentialOf

\* A worker at a denial or a retirement has a connection; one that is at a
\* retirement has a generation.
LEMMA AtDenial ==
  ASSUME GatewayTyped, NEW w \in GatewayWorkers, step[w] # "idle", task[w].kind \in Denials \cup {"retire"}
  PROVE  /\ task[w].connection \in Connections
         /\ task[w].kind = "retire" /\ step[w] \notin {"succeed", "fail"} => task[w].generation \in Generations
<1>1. TaskFits(w, step[w], task[w]) /\ w \in Actors
  BY AtStep DEF GatewayTyped, Actors
<1> QED BY <1>1 DEF TaskFits, ConnectionKinds, WorkerKinds, Denials

LEMMA BystanderKeeps ==
  ASSUME NEW w \in GatewayWorkers, GatewayInv(w), Bystander(w), GatewayTyped', IdsDiffer', QueueHasTask(w)',
         DeleteIsCondemned'
  PROVE  GatewayInv(w)'
<1>0. /\ GatewayTyped /\ IdsDiffer /\ QueueHasTask(w) /\ AskedIs(w) /\ RolesHaveRows /\ RolesNeedEngine
      /\ Listed(w) /\ Silenced(w) /\ Admits(w) /\ RevokedIsSilent(w) /\ DeniedIsQuiet(w) /\ EndsQuiet(w)
  BY DEF GatewayInv
<1>1. /\ step'[w] = step[w] /\ task'[w] = task[w] /\ leaked' = leaked /\ denied' = denied /\ crashes' = crashes
      /\ condemned => condemned'
  BY DEF Bystander
<1>2. \A x \in Credentials : /\ credential[x] = "revoked" => credential'[x] = "revoked"
                             /\ credential[x] = "none" <=> credential'[x] = "none"
                             /\ credential'[x] = "revoked" => credential[x] = "revoked" \/ condemned
  BY DEF Bystander
<1>3. \A x \in Credentials : /\ role'[x] = "login" => role[x] = "login"
                             /\ role[x] = "none" => role'[x] = "none"
  BY DEF Bystander
<1>4. AskedIs(w)'
  BY <1>0, <1>1 DEF AskedIs
<1>5. RolesHaveRows'
  BY <1>0, <1>2, <1>3 DEF RolesHaveRows
<1>6. RolesNeedEngine'
  BY <1>0, <1>3 DEF RolesNeedEngine, Bystander
<1>7. Listed(w)'
  <2>1. CASE task[w].kind \in Denials /\ step[w] # "idle"
    <3>1. task[w].connection \in Connections
      BY <1>0, <2>1, AtDenial
    <3> QED BY <1>0, <1>1, <1>2, <2>1, <3>1, CredentialPair DEF Listed, CredentialOf, Denials
  <2>2. CASE ~(task[w].kind \in Denials /\ step[w] # "idle")
    BY <1>0, <1>1, <2>2 DEF Listed, FromDenial
  <2> QED BY <2>1, <2>2
<1>8. Silenced(w)'
  <2>1. CASE task[w].kind \in Denials \cup {"retire"} /\ step[w] # "idle"
    <3>1. task[w].connection \in Connections /\ w \in Actors /\ task[w] \in Tasks
      BY <1>0, <2>1, AtDenial, AtStep DEF GatewayTyped, Actors
    <3>2. task[w].roles \subseteq Generations
      BY <3>1 DEF Tasks
    <3> QED BY <1>0, <1>1, <1>3, <3>1, <3>2, CredentialPair DEF Silenced
  <2>2. CASE ~(task[w].kind \in Denials \cup {"retire"} /\ step[w] # "idle")
    BY <1>0, <1>1, <2>2 DEF Silenced, FromDenial
  <2> QED BY <2>1, <2>2
<1>9. Admits(w)'
  <2>1. CASE task[w].kind \in {"update", "enable"} /\ step[w] # "idle"
    <3>1. w \in Actors /\ task[w] \in Tasks /\ TaskFits(w, step[w], task[w])
      BY <1>0, <2>1, AtStep DEF GatewayTyped, Actors
    <3>2. task[w].roles \subseteq Generations
      BY <3>1 DEF Tasks
    <3>3. task[w].connection \in Connections
      BY <2>1, <3>1 DEF TaskFits, ConnectionKinds, WorkerKinds
    <3> QED BY <1>0, <1>1, <1>2, <2>1, <3>2, <3>3, CredentialPair DEF Admits, CredentialOf
  <2>2. CASE ~(task[w].kind \in {"update", "enable"} /\ step[w] # "idle")
    BY <1>0, <1>1, <2>2 DEF Admits, FromDenial
  <2> QED BY <2>1, <2>2
<1>10. RevokedIsSilent(w)'
  <2> SUFFICES ASSUME NEW x \in Credentials, credential'[x] = "revoked", role'[x] = "login"
               PROVE  Outlives(x)' \/ Undoing(w, x)'
    BY DEF RevokedIsSilent
  <2>1. CASE credential[x] = "revoked"
    <3>1. Outlives(x) \/ Undoing(w, x)
      BY <1>0, <1>3, <2>1 DEF RevokedIsSilent
    <3> QED BY <1>1, <1>2, <3>1, OutlivesStays DEF Undoing
  <2>2. CASE credential[x] # "revoked"
    BY <1>1, <1>2, <2>2 DEF Outlives
  <2> QED BY <2>1, <2>2
<1>11. ASSUME NEW c \in Connections, Quiet(c) PROVE Quiet(c)'
  BY <1>1, <1>2, <1>3, <1>11, CredentialPair, QuietStays DEF CredentialOf
<1>12. DeniedIsQuiet(w)'
  <2> SUFFICES ASSUME NEW c \in denied' PROVE Quiet(c)' \/ Reopened(w, c)'
    BY DEF DeniedIsQuiet
  <2>1. c \in denied /\ c \in Connections
    BY <1>0, <1>1 DEF GatewayTyped, HistoryTyped
  <2>2. CASE Quiet(c)
    BY <1>11, <2>1, <2>2
  <2>3. CASE instance = "starting"
    <3>1. Quiet(c)
      BY <1>0, <2>1, <2>3, CredentialPair DEF Quiet, RolesNeedEngine
    <3> QED BY <1>11, <2>1, <3>1
  <2>4. CASE ~Quiet(c) /\ instance # "starting"
    <3>1. Reopened(w, c)
      BY <1>0, <2>1, <2>4 DEF DeniedIsQuiet
    <3>2. \A q \in queue : \E p \in queue' : p.kind = q.kind /\ p.connection = q.connection
      BY <2>4 DEF Bystander
    <3> QED BY <1>1, <3>1, <3>2 DEF Reopened, On
  <2> QED BY <2>2, <2>3, <2>4
<1>13. EndsQuiet(w)'
  <2> SUFFICES ASSUME step[w] \in {"close", "succeed"}, task[w].kind \in Denials
               PROVE  Quiet(task[w].connection)'
    BY <1>1 DEF EndsQuiet, Quiet, Outlives
  <2>1. task[w].connection \in Connections
    BY <1>0, AtDenial
  <2> DEFINE c == task[w].connection
  <2>2. Quiet(c)
    BY <1>0 DEF EndsQuiet
  <2>3. c' = c
    BY <1>1
  <2> QED BY <1>11, <2>1, <2>2, <2>3
<1> QED BY <1>4, <1>5, <1>6, <1>7, <1>8, <1>9, <1>10, <1>12, <1>13 DEF GatewayInv

-----------------------------------------------------------------------------
(* The steps of the worker between its claim and the end of the operation. *)

Works(w) ==
  /\ step[w] # "idle" /\ step'[w] # "idle"
  /\ task'[w].id = task[w].id /\ task'[w].connection = task[w].connection /\ task'[w].asked = task[w].asked
  /\ UNCHANGED <<queue, issued, denied, crashes, condemned, instance>>
  /\ step'[Lifecycle] = step[Lifecycle] /\ task'[Lifecycle] = task[Lifecycle]
  /\ leaked \subseteq leaked'
  /\ \A x \in Credentials : /\ credential[x] = "revoked" => credential'[x] = "revoked"
                            /\ x[1] # task[w].connection => role'[x] = role[x]
                            /\ task[w].asked = "retire" /\ role'[x] = "login" => role[x] = "login"

LEMMA WorksKeeps ==
  ASSUME NEW w \in GatewayWorkers, GatewayInv(w), Works(w)
  PROVE  IdsDiffer' /\ QueueHasTask(w)' /\ DeleteIsCondemned' /\ DeniedIsQuiet(w)'
<1>0. /\ GatewayTyped /\ IdsDiffer /\ QueueHasTask(w) /\ DeleteIsCondemned /\ DeniedIsQuiet(w)
      /\ step[w] # "idle" /\ step'[w] # "idle"
      /\ UNCHANGED <<queue, issued, denied, crashes, condemned, instance>>
      /\ leaked \subseteq leaked'
  BY DEF GatewayInv, Works
<1>1. IdsDiffer'
  BY <1>0 DEF IdsDiffer
<1>2. QueueHasTask(w)'
  BY <1>0 DEF QueueHasTask, Works
<1>3. DeleteIsCondemned'
  BY <1>0 DEF DeleteIsCondemned, Works
<1>4. DeniedIsQuiet(w)'
  <2> SUFFICES ASSUME NEW c \in denied' PROVE Quiet(c)' \/ Reopened(w, c)'
    BY DEF DeniedIsQuiet
  <2>1. c \in denied /\ c \in Connections
    BY <1>0 DEF GatewayTyped, HistoryTyped
  <2>2. CASE Quiet(c)
    <3>1. CASE c = task[w].connection /\ task[w].asked # "retire"
      BY <3>1 DEF Reopened, On, Works
    <3>2. CASE ~(c = task[w].connection /\ task[w].asked # "retire")
      <4>1. ASSUME NEW g \in Generations
            PROVE  /\ role'[<<c, g>>] = "login" => role[<<c, g>>] = "login"
                   /\ credential[<<c, g>>] = "revoked" => credential'[<<c, g>>] = "revoked"
        <5>1. <<c, g>> \in Credentials /\ <<c, g>>[1] = c
          BY <2>1, CredentialPair
        <5> QED BY <3>2, <5>1 DEF Works
      <4> QED BY <1>0, <2>1, <2>2, <4>1, CredentialPair, QuietStays DEF CredentialOf
    <3> QED BY <3>1, <3>2
  <2>3. CASE Reopened(w, c)
    BY <1>0, <2>3 DEF Reopened, On, Works
  <2> QED BY <1>0, <2>1, <2>2, <2>3 DEF DeniedIsQuiet
<1> QED BY <1>1, <1>2, <1>3, <1>4

\* A denial has silenced every role by the time it goes on.
LEMMA DenialIsQuiet ==
  ASSUME NEW w \in GatewayWorkers, GatewayInv(w), step[w] \in FromDenial, task[w].kind \in Denials
  PROVE  task[w].connection \in Connections /\ Quiet(task[w].connection)
<1>0. /\ GatewayTyped /\ RolesHaveRows /\ Listed(w) /\ Silenced(w) /\ RevokedIsSilent(w)
      /\ step[w] # "idle" /\ step[w] # "undrop"
  BY DEF GatewayInv, FromDenial
<1> DEFINE c == task[w].connection
<1>1. c \in Connections
  BY <1>0, AtDenial
<1>2. ASSUME NEW g \in Generations, role[<<c, g>>] = "login" PROVE Outlives(<<c, g>>)
  <2>1. <<c, g>> \in Credentials
    BY <1>1, CredentialPair
  <2>2. g \notin task[w].roles
    BY <1>0, <1>2 DEF Silenced
  <2>3. credential[<<c, g>>] \in {"none", "revoked"}
    BY <1>0, <2>2 DEF Listed, CredentialOf
  <2>4. credential[<<c, g>>] = "revoked"
    BY <1>0, <1>2, <2>1, <2>3 DEF RolesHaveRows
  <2> QED BY <1>0, <1>2, <2>1, <2>4 DEF RevokedIsSilent, Undoing
<1> QED BY <1>1, <1>2 DEF Quiet

\* A step that touches no role and no credential.
Passes(w) ==
  /\ UNCHANGED <<role, credential, leaked>> /\ task'[w].kind = task[w].kind
  /\ \/ step'[w] \in {"succeed", "fail"}
     \/ /\ task'[w].roles = task[w].roles /\ task'[w].generation = task[w].generation
        /\ task'[w].previous = task[w].previous
  /\ step[w] \in {"insert", "render", "activate", "reload", "record", "probe", "commit", "close", "remove"}
  /\ \/ step'[w] \in {"undo", "fail"}
     \/ step[w] = "render" /\ step'[w] = "activate"
     \/ step[w] = "activate" /\ step'[w] = "reload"
     \/ step[w] = "reload" /\ step'[w] = "record"
     \/ step[w] = "record" /\ step'[w] \in {"drop", "succeed"}
     \/ /\ step[w] = "record" /\ step'[w] \in {"permit", "probe"}
        /\ task[w].kind \in {"create", "rotate", "enable", "update"}
     \/ step[w] = "probe" /\ step'[w] = "commit"
     \/ step[w] = "close" /\ step'[w] = "succeed"
     \/ step[w] \in {"commit", "remove"} /\ step'[w] = "succeed" /\ task[w].kind \notin Denials

LEMMA PassesKeeps ==
  ASSUME NEW w \in GatewayWorkers, GatewayInv(w), Works(w), Passes(w), GatewayTyped'
  PROVE  GatewayInv(w)'
<1>0. /\ GatewayTyped /\ AskedIs(w) /\ RolesHaveRows /\ RolesNeedEngine
      /\ Listed(w) /\ Silenced(w) /\ Admits(w) /\ RevokedIsSilent(w) /\ EndsQuiet(w)
      /\ condemned' = condemned /\ instance' = instance /\ step[w] # "idle"
      /\ task'[w].connection = task[w].connection /\ task'[w].asked = task[w].asked
      /\ task'[w].kind = task[w].kind /\ role' = role /\ credential' = credential /\ leaked' = leaked
  BY DEF GatewayInv, Works, Passes
<1>1. AskedIs(w)'
  BY <1>0 DEF AskedIs
<1>2. RolesHaveRows' /\ RolesNeedEngine'
  BY <1>0 DEF RolesHaveRows, RolesNeedEngine
<1>3. task[w].kind \in Denials \cup {"retire"} => step[w] # "probe"
  BY <1>0 DEF Admits, Denials
<1>4. Listed(w)'
  BY <1>0, <1>3 DEF Listed, Passes, FromDenial, CredentialOf
<1>5. Silenced(w)'
  BY <1>0, <1>3 DEF Silenced, Passes, FromDenial
<1>6. Admits(w)'
  BY <1>0 DEF Admits, Passes, CredentialOf, NeedsNewCredential
<1>7. RevokedIsSilent(w)'
  BY <1>0 DEF RevokedIsSilent, Passes, Undoing, Outlives
<1>8. EndsQuiet(w)'
  <2> SUFFICES ASSUME step'[w] \in {"close", "succeed"}, task[w].kind \in Denials
               PROVE  Quiet(task[w].connection)
    BY <1>0 DEF EndsQuiet, Quiet, Outlives
  <2>1. CASE step[w] = "record"
    BY <2>1, DenialIsQuiet DEF FromDenial
  <2>2. CASE step[w] # "record"
    BY <1>0, <1>3, <2>2 DEF EndsQuiet, Passes
  <2> QED BY <2>1, <2>2
<1> QED BY <1>1, <1>2, <1>4, <1>5, <1>6, <1>7, <1>8, WorksKeeps DEF GatewayInv

\* What a worker that goes on still knows, and what the others do not see.
LEMMA EndingSame ==
  ASSUME NEW t \in Tasks
  PROVE  /\ Ending(t).id = t.id /\ Ending(t).connection = t.connection
         /\ Ending(t).asked = t.asked /\ Ending(t).kind = t.kind
<1>1. Idle \in Tasks
  BY IdleIsTask
<1> QED BY <1>1 DEF Ending, Tasks

LEMMA WorkerAt ==
  ASSUME NEW w \in GatewayWorkers, GatewayTyped, step[w] # "idle"
  PROVE  /\ w \in Actors /\ w # Lifecycle /\ Lifecycle \in Actors
         /\ TasksTyped /\ TaskFits(w, step[w], task[w]) /\ task[w] \in Tasks
         /\ step = [a \in Actors |-> step[a]] /\ task = [a \in Actors |-> task[a]]
<1>1. w \in Actors /\ w # Lifecycle /\ Lifecycle \in Actors
  BY GatewayAssumption DEF Actors
<1>2. TasksTyped
  BY DEF GatewayTyped
<1> QED BY <1>1, <1>2, AtStep DEF TasksTyped

LEMMA GotoWorks ==
  ASSUME NEW w \in GatewayWorkers, GatewayTyped, step[w] # "idle", NEW s, Goto(w, s)
  PROVE  /\ step'[w] = s /\ step'[Lifecycle] = step[Lifecycle] /\ task'[Lifecycle] = task[Lifecycle]
         /\ task'[w].id = task[w].id /\ task'[w].connection = task[w].connection
         /\ task'[w].asked = task[w].asked /\ task'[w].kind = task[w].kind
         /\ s \notin {"succeed", "fail"} => task'[w] = task[w]
<1>1. /\ w \in Actors /\ w # Lifecycle /\ Lifecycle \in Actors /\ task[w] \in Tasks
      /\ step = [a \in Actors |-> step[a]] /\ task = [a \in Actors |-> task[a]]
  BY WorkerAt
<1>2. CASE s \in {"succeed", "fail"}
  <2>1. step' = [step EXCEPT ![w] = s] /\ task' = [task EXCEPT ![w] = Ending(task[w])]
    BY <1>2 DEF Goto
  <2>2. task'[w] = Ending(task[w])
    BY <1>1, <2>1
  <2> QED BY <1>1, <1>2, <2>1, <2>2, EndingSame
<1>3. CASE s \notin {"succeed", "fail"}
  BY <1>1, <1>3 DEF Goto
<1> QED BY <1>2, <1>3

LEMMA WorkerFails ==
  ASSUME NEW w \in GatewayWorkers, GatewayTyped, step[w] # "idle"
  PROVE  /\ FailStep(w) \in {"undo", "fail"}
         /\ ~NeedsNewCredential(task[w]) => FailStep(w) = "fail"
<1>1. task[w].kind \in WorkerKinds
  BY WorkerAt DEF TaskFits
<1> QED BY <1>1 DEF FailStep, WorkerKinds

\* A step that goes on, fails or ends, and writes nothing but rows and files.
LEMMA GotoPasses ==
  ASSUME NEW w \in GatewayWorkers, GatewayInv(w), step[w] # "idle", NEW s, Goto(w, s), s # "idle",
         UNCHANGED <<queue, issued, denied, crashes, condemned, instance, role, credential, leaked>>
  PROVE  /\ Works(w)
         /\ /\ UNCHANGED <<role, credential, leaked>> /\ task'[w].kind = task[w].kind
            /\ \/ step'[w] \in {"succeed", "fail"}
               \/ /\ task'[w].roles = task[w].roles /\ task'[w].generation = task[w].generation
                  /\ task'[w].previous = task[w].previous
<1>1. GatewayTyped
  BY DEF GatewayInv
<1>2. /\ step'[w] = s /\ step'[Lifecycle] = step[Lifecycle] /\ task'[Lifecycle] = task[Lifecycle]
      /\ task'[w].id = task[w].id /\ task'[w].connection = task[w].connection
      /\ task'[w].asked = task[w].asked /\ task'[w].kind = task[w].kind
      /\ s \notin {"succeed", "fail"} => task'[w] = task[w]
  BY <1>1, GotoWorks
<1> QED BY <1>2 DEF Works

\* A failed call or a refusal, at any of these steps.
LEMMA FailsKeep ==
  ASSUME NEW w \in GatewayWorkers, GatewayInv(w), GatewayTyped', NEW s \in {"undo", "fail"}, Goto(w, s),
         step[w] \in {"insert", "render", "activate", "reload", "record", "probe", "commit", "close", "remove"},
         UNCHANGED <<queue, issued, denied, crashes, condemned, instance, role, credential, leaked>>
  PROVE  GatewayInv(w)'
<1>1. GatewayTyped /\ step[w] # "idle"
  BY DEF GatewayInv
<1>2. step'[w] = s
  BY <1>1, GotoWorks
<1>3. Works(w) /\ Passes(w)
  BY <1>1, <1>2, GotoPasses DEF Passes
<1> QED BY <1>3, PassesKeeps

\* The same for a write to the task that leaves what the invariant reads.
LEMMA WritesPass ==
  ASSUME NEW w \in GatewayWorkers, GatewayInv(w), step[w] # "idle", NEW s, s # "idle", NEW t,
         step' = [step EXCEPT ![w] = s], task' = [task EXCEPT ![w] = t],
         t.id = task[w].id, t.connection = task[w].connection, t.asked = task[w].asked,
         t.kind = task[w].kind,
         s \in {"succeed", "fail"} \/ ( /\ t.roles = task[w].roles /\ t.generation = task[w].generation
                                        /\ t.previous = task[w].previous),
         UNCHANGED <<queue, issued, denied, crashes, condemned, instance, role, credential, leaked>>
  PROVE  /\ Works(w) /\ step'[w] = s /\ task'[w].kind = task[w].kind
         /\ \/ step'[w] \in {"succeed", "fail"}
            \/ /\ task'[w].roles = task[w].roles /\ task'[w].generation = task[w].generation
               /\ task'[w].previous = task[w].previous
<1>1. GatewayTyped
  BY DEF GatewayInv
<1>2. /\ w \in Actors /\ w # Lifecycle /\ Lifecycle \in Actors /\ task[w] \in Tasks
      /\ step = [a \in Actors |-> step[a]] /\ task = [a \in Actors |-> task[a]]
  BY <1>1, WorkerAt
<1>3. /\ step'[w] = s /\ step'[Lifecycle] = step[Lifecycle] /\ task'[w] = t
      /\ task'[Lifecycle] = task[Lifecycle]
  BY <1>2
<1> QED BY <1>3 DEF Works

LEMMA PlanePasses ==
  ASSUME NEW w \in GatewayWorkers, GatewayInv(w), GatewayTyped', DataPlaneStep(w)
  PROVE  GatewayInv(w)'
<1> USE DEF NoFault, environment, Fault
<1>0. GatewayTyped /\ step[w] \in {"render", "activate", "reload", "record"} /\ step[w] # "idle"
  BY DEF GatewayInv, DataPlaneStep, RenderConfiguration, ActivateGeneration, ReloadPgBouncer, RecordEndpoint
<1>1. /\ UNCHANGED <<queue, issued, denied, crashes, condemned, instance, role, credential, leaked>>
  BY DEF DataPlaneStep, RenderConfiguration, ActivateGeneration, ReloadPgBouncer, RecordEndpoint,
         rowVars, lifeVars, FaultAt, EngineRefuses
<1>2. TaskFits(w, step[w], task[w]) /\ task[w] \in Tasks
  BY <1>0, WorkerAt
<1>3. CASE Goto(w, FailStep(w))
  BY <1>0, <1>1, <1>3, WorkerFails, FailsKeep
<1>4. CASE ~Goto(w, FailStep(w)) /\ RenderConfiguration(w)
  <2> DEFINE t == [task[w] EXCEPT !.plan = Rendered(Included(task[w]), Excluded(task[w])),
                                  !.number = NextNumber, !.container = endpoint.container]
  <2>1. /\ step[w] = "render" /\ step' = [step EXCEPT ![w] = "activate"]
        /\ task' = [task EXCEPT ![w] = t]
    BY <1>4 DEF RenderConfiguration, FaultAt
  <2>2. /\ t.id = task[w].id /\ t.connection = task[w].connection /\ t.asked = task[w].asked
        /\ t.kind = task[w].kind /\ t.roles = task[w].roles /\ t.generation = task[w].generation
        /\ t.previous = task[w].previous
    BY <1>2 DEF Tasks
  <2> HIDE DEF t
  <2>3. Works(w) /\ Passes(w)
    BY <1>0, <1>1, <2>1, <2>2, WritesPass DEF Passes
  <2> QED BY <2>3, PassesKeeps
<1>5. CASE ~Goto(w, FailStep(w)) /\ ActivateGeneration(w)
  <2> DEFINE t == [task[w] EXCEPT !.before = current]
  <2>1. /\ step[w] = "activate" /\ step' = [step EXCEPT ![w] = "reload"]
        /\ task' = [task EXCEPT ![w] = t]
    BY <1>5 DEF ActivateGeneration
  <2>2. /\ t.id = task[w].id /\ t.connection = task[w].connection /\ t.asked = task[w].asked
        /\ t.kind = task[w].kind /\ t.roles = task[w].roles /\ t.generation = task[w].generation
        /\ t.previous = task[w].previous
    BY <1>2 DEF Tasks
  <2> HIDE DEF t
  <2>3. Works(w) /\ Passes(w)
    BY <1>0, <1>1, <2>1, <2>2, WritesPass DEF Passes
  <2> QED BY <2>3, PassesKeeps
<1>6. CASE ~Goto(w, FailStep(w)) /\ ReloadPgBouncer(w)
  <2> DEFINE t == [task[w] EXCEPT !.fresh = ~task[w].container]
  <2>1. /\ step[w] = "reload" /\ step' = [step EXCEPT ![w] = "record"]
        /\ task' = [task EXCEPT ![w] = t]
    BY <1>6 DEF ReloadPgBouncer, FaultAt, EngineRefuses
  <2>2. /\ t.id = task[w].id /\ t.connection = task[w].connection /\ t.asked = task[w].asked
        /\ t.kind = task[w].kind /\ t.roles = task[w].roles /\ t.generation = task[w].generation
        /\ t.previous = task[w].previous
    BY <1>2 DEF Tasks
  <2> HIDE DEF t
  <2>3. Works(w) /\ Passes(w)
    BY <1>0, <1>1, <2>1, <2>2, WritesPass DEF Passes
  <2> QED BY <2>3, PassesKeeps
<1>7. CASE ~Goto(w, FailStep(w)) /\ RecordEndpoint(w)
  <2> DEFINE t == Applied(task[w])
             s == AfterDataPlane(task[w])
  <2>1. step[w] = "record" /\ step' = [step EXCEPT ![w] = s] /\ task' = [task EXCEPT ![w] = t]
    BY <1>7 DEF RecordEndpoint, FaultAt
  <2>2. /\ s \in {"fail", "probe", "permit", "drop", "succeed"}
        /\ s \in {"probe", "permit"} => task[w].kind \in {"create", "rotate", "enable", "update"}
    <3>1. task[w].kind \in WorkerKinds
      BY <1>2, WorkerAt, <1>0 DEF TaskFits
    <3> QED BY <3>1 DEF AfterDataPlane, NeedsNewCredential, WorkerKinds
  <2>3. /\ t.id = task[w].id /\ t.connection = task[w].connection /\ t.asked = task[w].asked
        /\ t.kind = task[w].kind
        /\ s \in {"succeed", "fail"} \/ ( /\ t.roles = task[w].roles /\ t.generation = task[w].generation
                                          /\ t.previous = task[w].previous)
    <3>1. CASE s \in {"succeed", "fail"}
      <4>1. t = Ending(task[w])
        BY <3>1 DEF Applied
      <4> HIDE DEF t
      <4> QED BY <1>2, <3>1, <4>1, EndingSame
    <3>2. CASE s \notin {"succeed", "fail"}
      <4>1. t = [task[w] EXCEPT !.plan = {}, !.number = 0, !.before = None, !.container = FALSE,
                                !.fresh = FALSE]
        BY <3>2 DEF Applied
      <4> HIDE DEF t
      <4> QED BY <1>2, <4>1 DEF Tasks
    <3> QED BY <3>1, <3>2
  <2> HIDE DEF t, s
  <2>4. Works(w) /\ Passes(w)
    BY <1>0, <1>1, <2>1, <2>2, <2>3, WritesPass DEF Passes
  <2> QED BY <2>4, PassesKeeps
<1> QED BY <1>3, <1>4, <1>5, <1>6, <1>7 DEF DataPlaneStep

LEMMA EndsPass ==
  ASSUME NEW w \in GatewayWorkers, GatewayInv(w), GatewayTyped',
         Probe(w) \/ CommitActive(w) \/ CleanupRoute(w) \/ RemoveGateway(w)
  PROVE  GatewayInv(w)'
<1> USE DEF NoFault, environment, Fault
<1>0. GatewayTyped /\ Admits(w) /\ step[w] \in {"probe", "commit", "close", "remove"} /\ step[w] # "idle"
  BY DEF GatewayInv, Probe, CommitActive, CleanupRoute, RemoveGateway
<1>1. UNCHANGED <<queue, issued, denied, crashes, condemned, instance, role, credential, leaked>>
  BY DEF Probe, CommitActive, CleanupRoute, RemoveGateway, rowVars, lifeVars, FaultAt, EngineRefuses
<1>2. TaskFits(w, step[w], task[w]) /\ task[w] \in Tasks /\ w # Lifecycle
  BY <1>0, WorkerAt
<1>3. CASE Goto(w, FailStep(w)) \/ Goto(w, "fail")
  BY <1>0, <1>1, <1>3, WorkerFails, FailsKeep
<1>4. CASE Probe(w) /\ Goto(w, "commit")
  <2>1. step[w] = "probe" /\ step'[w] = "commit"
    BY <1>0, <1>4, GotoWorks DEF Probe
  <2> QED BY <1>0, <1>1, <1>4, <2>1, GotoPasses, PassesKeeps DEF Passes
<1>5. CASE (CommitActive(w) \/ RemoveGateway(w)) /\ Goto(w, "succeed")
  <2>1. step[w] \in {"commit", "remove"} /\ task[w].kind \notin Denials
    BY <1>5 DEF CommitActive, RemoveGateway, Denials
  <2>2. step'[w] = "succeed"
    BY <1>0, <1>5, GotoWorks
  <2> QED BY <1>0, <1>1, <1>5, <2>1, <2>2, GotoPasses, PassesKeeps DEF Passes
<1>6. CASE CleanupRoute(w) /\ Goto(w, "succeed")
  <2>1. step[w] = "close" /\ step'[w] = "succeed"
    BY <1>0, <1>6, GotoWorks DEF CleanupRoute
  <2> QED BY <1>0, <1>1, <1>6, <2>1, GotoPasses, PassesKeeps DEF Passes
<1>7. task[w].kind # "delete"
  BY <1>2 DEF TaskFits, WorkerKinds
<1>8. \/ Goto(w, FailStep(w))
      \/ Goto(w, "fail")
      \/ Probe(w) /\ Goto(w, "commit")
      \/ (CommitActive(w) \/ RemoveGateway(w)) /\ Goto(w, "succeed")
      \/ CleanupRoute(w) /\ Goto(w, "succeed")
  <2>1. CASE Probe(w)
    BY <2>1 DEF Probe, FaultAt, EngineRefuses
  <2>2. CASE CommitActive(w)
    BY <2>2 DEF CommitActive, FaultAt, EngineRefuses
  <2>3. CASE CleanupRoute(w)
    BY <1>7, <2>3 DEF CleanupRoute, FaultAt
  <2>4. CASE RemoveGateway(w)
    BY <2>4 DEF RemoveGateway, FaultAt
  <2> QED BY <2>1, <2>2, <2>3, <2>4
<1> QED BY <1>3, <1>4, <1>5, <1>6, <1>8

-----------------------------------------------------------------------------
(* The steps of the worker that touch roles or credentials.                *)

\* A run of the scripts reaches roles that exist, of the connection, and only
\* while the engine runs; one that succeeds reaches all of them.
LEMMA RunWrites ==
  ASSUME role \in [Credentials -> Roles], NEW a, NEW c, NEW gs \in SUBSET Generations, NEW value,
         NEW next, RunOnRoles(a, c, gs, value, next)
  PROVE  /\ \A x \in Credentials :
              \/ role'[x] = role[x]
              \/ role'[x] = value /\ role[x] # "none" /\ x[1] = c /\ x[2] \in gs /\ instance = "healthy"
         /\ \/ Goto(a, FailStep(a))
            \/ Goto(a, next) /\ \A x \in Credentials : x[1] = c /\ x[2] \in gs => role'[x] = value
         /\ crashes' = crashes
<1> DEFINE Reaches(hs) == \A x \in Credentials : role'[x] = IF x[1] = c /\ x[2] \in hs THEN value ELSE role[x]
<1>1. ASSUME NEW hs, SetRoles(c, hs, value) PROVE Reaches(hs)
  BY <1>1 DEF SetRoles
<1>2. ASSUME NEW x \in Credentials, x[1] = c, x[2] \in gs, role[x] = "none" PROVE x[2] \in Missing(c, gs)
  <2>1. x = <<c, x[2]>>
    BY <1>2 DEF Credentials
  <2> QED BY <1>2, <2>1 DEF Missing
<1>3. CASE (gs = {} \/ (EngineUp /\ Missing(c, gs) = {})) /\ SetRoles(c, gs, value) /\ NoFault /\ Goto(a, next)
  <2>1. Reaches(gs) /\ crashes' = crashes
    BY <1>1, <1>3 DEF NoFault, environment
  <2> QED BY <1>2, <1>3, <2>1 DEF EngineUp
<1>4. ASSUME NEW n \in gs, Newer(gs, n) \cap Missing(c, gs) = {},
             SetRoles(c, IF EngineUp THEN Newer(gs, n) ELSE {}, value), Goto(a, FailStep(a)), crashes' = crashes
      PROVE  \A x \in Credentials :
               \/ role'[x] = role[x]
               \/ role'[x] = value /\ role[x] # "none" /\ x[1] = c /\ x[2] \in gs /\ instance = "healthy"
  <2>1. Reaches(IF EngineUp THEN Newer(gs, n) ELSE {})
    BY <1>1, <1>4
  <2>2. Newer(gs, n) \subseteq gs
    BY DEF Newer
  <2> QED BY <1>2, <1>4, <2>1, <2>2 DEF EngineUp
<1>5. CASE \E n \in gs : /\ n \in Missing(c, gs) \/ ~EngineUp
                         /\ Newer(gs, n) \cap Missing(c, gs) = {}
                         /\ SetRoles(c, IF EngineUp THEN Newer(gs, n) ELSE {}, value)
                         /\ EngineRefuses(a, FailStep(a))
  <2>1. Goto(a, FailStep(a)) /\ crashes' = crashes
    BY <1>5 DEF EngineRefuses, NoFault, environment
  <2> QED BY <1>4, <1>5, <2>1
<1>6. CASE \E n \in gs : /\ EngineUp
                         /\ (Newer(gs, n) \cup {n}) \cap Missing(c, gs) = {}
                         /\ SetRoles(c, Newer(gs, n), value)
                         /\ FaultAt(a, FailStep(a))
  <2>1. Goto(a, FailStep(a)) /\ crashes' = crashes
    BY <1>6 DEF FaultAt, Fault
  <2> QED BY <1>4, <1>6, <2>1
<1> QED BY <1>3, <1>5, <1>6 DEF RunOnRoles

LEMMA RolesStepKeeps ==
  ASSUME NEW w \in GatewayWorkers, GatewayInv(w), GatewayTyped', DisableRoles(w) \/ DropRoles(w) \/ PermitRoles(w)
  PROVE  GatewayInv(w)'
<1>0. /\ GatewayTyped /\ AskedIs(w) /\ RolesHaveRows /\ RolesNeedEngine
      /\ Listed(w) /\ Silenced(w) /\ Admits(w) /\ RevokedIsSilent(w) /\ EndsQuiet(w)
      /\ step[w] \in {"deny", "drop", "permit"} /\ step[w] # "idle"
  BY DEF GatewayInv, DisableRoles, DropRoles, PermitRoles
<1> DEFINE c == task[w].connection
           gs == task[w].roles
           value == IF step[w] = "deny" THEN "nologin" ELSE IF step[w] = "drop" THEN "none" ELSE "login"
<1>1. UNCHANGED <<queue, issued, denied, condemned, instance, credential, leaked>>
  BY DEF DisableRoles, DropRoles, PermitRoles, rowVars, lifeVars
<1>2. /\ TaskFits(w, step[w], task[w]) /\ task[w] \in Tasks /\ w # Lifecycle
      /\ gs \in SUBSET Generations
  BY <1>0, WorkerAt DEF Tasks
<1>3. task[w].kind # "delete" /\ ~NeedsNewCredential(task[w]) /\ c \in Connections
  BY <1>0, <1>2 DEF TaskFits, WorkerKinds
<1>4. PICK next : /\ RunOnRoles(w, c, gs, value, next)
                  /\ step[w] = "deny" => next = "render"
                  /\ step[w] = "drop" => next = "commit"
                  /\ step[w] = "permit" => next \in {"fail", "probe"}
  BY <1>0, <1>3 DEF DisableRoles, DropRoles, PermitRoles
<1>5. /\ \A x \in Credentials :
           \/ role'[x] = role[x]
           \/ role'[x] = value /\ role[x] # "none" /\ x[1] = c /\ x[2] \in gs /\ instance = "healthy"
      /\ \/ Goto(w, FailStep(w))
         \/ Goto(w, next) /\ \A x \in Credentials : x[1] = c /\ x[2] \in gs => role'[x] = value
      /\ crashes' = crashes
  <2>1. role \in [Credentials -> Roles]
    BY <1>0 DEF GatewayTyped, CredentialsTyped
  <2> HIDE DEF c, gs, value
  <2> QED BY <1>2, <1>4, <2>1, RunWrites
<1>6. FailStep(w) = "fail"
  BY <1>0, <1>3, WorkerFails
<1>7. PICK s \in {"fail", next} : Goto(w, s)
  BY <1>5, <1>6
<1>8. s \in {"fail", "render", "commit", "probe"}
  BY <1>0, <1>4
<1>9. /\ step'[w] = s /\ step'[Lifecycle] = step[Lifecycle] /\ task'[Lifecycle] = task[Lifecycle]
      /\ task'[w].id = task[w].id /\ task'[w].connection = c
      /\ task'[w].asked = task[w].asked /\ task'[w].kind = task[w].kind
      /\ s # "fail" => task'[w] = task[w]
  BY <1>0, <1>7, <1>8, GotoWorks
<1>10. step[w] = "permit" => task[w].kind \in {"update", "enable"}
  BY <1>0, <1>3 DEF Admits, NeedsNewCredential
<1>11. task[w].asked = "retire" => value # "login"
  BY <1>0, <1>10 DEF AskedIs
<1> HIDE DEF value
<1>12. Works(w)
  BY <1>0, <1>1, <1>5, <1>8, <1>9, <1>11 DEF Works
<1>13. AskedIs(w)'
  BY <1>0, <1>9 DEF AskedIs
<1>14. RolesHaveRows' /\ RolesNeedEngine'
  <2>1. RolesHaveRows'
    BY <1>0, <1>1, <1>5 DEF RolesHaveRows
  <2>2. RolesNeedEngine'
    BY <1>0, <1>1, <1>5 DEF RolesNeedEngine
  <2> QED BY <2>1, <2>2
<1>15. Listed(w)'
  BY <1>0, <1>1, <1>3, <1>4, <1>8, <1>9, <1>10, <1>7 DEF Listed, FromDenial, CredentialOf, Denials
<1>16. Silenced(w)'
  <2> SUFFICES ASSUME task[w].kind \in Denials \cup {"retire"}, s \in FromDenial, NEW g \in gs
               PROVE  role'[<<c, g>>] # "login"
    BY <1>8, <1>9 DEF Silenced, FromDenial
  <2>1. <<c, g>> \in Credentials /\ <<c, g>>[1] = c /\ <<c, g>>[2] = g
    BY <1>2, <1>3, CredentialPair
  <2>2. step[w] \in {"deny", "drop"}
    BY <1>0, <1>10 DEF Denials
  <2>3. value # "login"
    BY <2>2 DEF value
  <2>4. CASE step[w] = "deny"
    <3>1. role'[<<c, g>>] = value
      <4>1. ~Goto(w, FailStep(w))
        BY <1>6, <1>8, <1>9, <1>0, GotoWorks DEF FromDenial
      <4> QED BY <1>5, <2>1, <4>1
    <3> QED BY <2>3, <3>1
  <2>5. CASE step[w] = "drop"
    <3>1. role[<<c, g>>] # "login"
      BY <1>0, <2>5 DEF Silenced, FromDenial
    <3> QED BY <1>5, <2>1, <2>3, <3>1
  <2> QED BY <2>2, <2>4, <2>5
<1>17. Admits(w)'
  <2>1. s = "probe" => step[w] = "permit"
    BY <1>0, <1>4, <1>7
  <2>2. s = "render" => step[w] = "deny"
    BY <1>0, <1>4, <1>7
  <2> QED BY <1>0, <1>1, <1>8, <1>9, <1>10, <2>1, <2>2 DEF Admits, CredentialOf
<1>18. RevokedIsSilent(w)'
  <2> SUFFICES ASSUME NEW x \in Credentials, credential[x] = "revoked", role'[x] = "login"
               PROVE  Outlives(x)
    BY <1>1 DEF RevokedIsSilent, Outlives
  <2>1. CASE role[x] = "login"
    BY <1>0, <2>1 DEF RevokedIsSilent, Undoing
  <2>2. CASE role[x] # "login"
    <3>1. value = "login" /\ x[1] = c /\ x[2] \in gs
      BY <1>5, <2>2
    <3>2. step[w] = "permit"
      BY <1>0, <3>1 DEF value
    <3>3. x = <<c, x[2]>>
      BY <3>1 DEF Credentials
    <3>4. condemned
      BY <1>0, <1>3, <1>10, <3>1, <3>2, <3>3 DEF Admits, CredentialOf
    <3> QED BY <3>4 DEF Outlives
  <2> QED BY <2>1, <2>2
<1>19. EndsQuiet(w)'
  BY <1>8, <1>9 DEF EndsQuiet
<1> QED BY <1>12, <1>13, <1>14, <1>15, <1>16, <1>17, <1>18, <1>19, WorksKeeps DEF GatewayInv

LEMMA InsertKeeps ==
  ASSUME NEW w \in GatewayWorkers, GatewayInv(w), GatewayTyped', InsertCredential(w)
  PROVE  GatewayInv(w)'
<1> DEFINE c == task[w].connection
           g == task[w].generation
<1>0. /\ GatewayTyped /\ AskedIs(w) /\ RolesHaveRows /\ RolesNeedEngine /\ RevokedIsSilent(w)
      /\ step[w] = "insert" /\ step[w] # "idle" /\ g \in Generations
  BY DEF GatewayInv, InsertCredential
<1>1. UNCHANGED <<queue, issued, denied, condemned, instance, leaked>>
  BY DEF InsertCredential, lifeVars
<1>2. /\ TaskFits(w, "insert", task[w]) /\ w # Lifecycle /\ NeedsNewCredential(task[w])
      /\ c \in Connections
  BY <1>0, WorkerAt DEF TaskFits
<1>3. CASE Goto(w, "fail") /\ UNCHANGED <<credential, role>> /\ crashes' = crashes
  BY <1>0, <1>1, <1>3, FailsKeep
<1>4. CASE /\ CredentialOf(c, g) = "none" /\ EngineUp /\ crashes' = crashes
           /\ credential' = [credential EXCEPT ![<<c, g>>] = "active"]
           /\ role' = [role EXCEPT ![<<c, g>>] = "login"]
           /\ Goto(w, "render")
  <2>1. /\ step'[w] = "render" /\ step'[Lifecycle] = step[Lifecycle] /\ task'[Lifecycle] = task[Lifecycle]
        /\ task'[w] = task[w]
    BY <1>0, <1>4, GotoWorks
  <2>2. \A x \in Credentials :
          IF x = <<c, g>> THEN credential[x] = "none" /\ credential'[x] = "active" /\ role'[x] = "login"
                          ELSE credential'[x] = credential[x] /\ role'[x] = role[x]
    <3>1. credential \in [Credentials -> CredentialStates] /\ role \in [Credentials -> Roles]
      BY <1>0 DEF GatewayTyped, CredentialsTyped
    <3> QED BY <1>4, <3>1 DEF CredentialOf
  <2>3. task[w].kind \notin Denials \cup {"retire", "update"}
    BY <1>2 DEF NeedsNewCredential, Denials
  <2>4. task[w].asked # "retire"
    BY <1>0, <2>3 DEF AskedIs
  <2>5. Works(w)
    BY <1>0, <1>1, <1>4, <2>1, <2>2, <2>4 DEF Works
  <2>6. AskedIs(w)'
    BY <1>0, <2>1 DEF AskedIs
  <2>7. RolesHaveRows'
    BY <1>0, <2>2 DEF RolesHaveRows
  <2>8. RolesNeedEngine'
    BY <1>1, <1>4 DEF RolesNeedEngine, EngineUp
  <2>9. Listed(w)' /\ Silenced(w)' /\ Admits(w)' /\ EndsQuiet(w)'
    BY <1>2, <2>1, <2>3 DEF Listed, Silenced, Admits, EndsQuiet
  <2>10. RevokedIsSilent(w)'
    BY <1>0, <1>1, <2>2 DEF RevokedIsSilent, Undoing, Outlives
  <2> QED BY <2>5, <2>6, <2>7, <2>8, <2>9, <2>10, WorksKeeps DEF GatewayInv
<1> QED BY <1>3, <1>4 DEF InsertCredential, AbandonCredential, FaultAt, EngineRefuses, NoFault, Fault, environment

\* Rows that change while the roles stay.
LEMMA CommitsKeep ==
  ASSUME NEW w \in GatewayWorkers, GatewayInv(w), GatewayTyped', step[w] = "commit" \/ step[w] = "undo",
         NEW s \in {"succeed", "close", "deny", "undrop"}, step'[w] = s,
         \/ s # "deny" /\ task'[w].kind = task[w].kind
         \/ /\ s = "deny" /\ task'[w].kind = "retire" /\ task'[w].roles = {task'[w].generation}
            /\ task[w].asked \in {"create", "rotate", "enable"},
         UNCHANGED <<role, leaked>>, Works(w),
         \A x \in Credentials : credential'[x] = "none" => credential[x] = "none",
         \A x \in Credentials :
           credential'[x] = "revoked" /\ role[x] = "login" => credential[x] = "revoked" \/ Undoing(w, x)'
                                                              \/ Outlives(x)',
         s \in {"succeed", "close"} /\ task[w].kind \in Denials => step[w] = "commit"
  PROVE  GatewayInv(w)'
<1>0. /\ GatewayTyped /\ AskedIs(w) /\ RolesHaveRows /\ RolesNeedEngine /\ RevokedIsSilent(w)
      /\ condemned' = condemned /\ instance' = instance /\ step[w] # "idle"
      /\ task'[w].connection = task[w].connection /\ task'[w].asked = task[w].asked
      /\ \A x \in Credentials : credential[x] = "revoked" => credential'[x] = "revoked"
  BY DEF GatewayInv, Works
<1>1. AskedIs(w)'
  BY <1>0 DEF AskedIs
<1>2. RolesHaveRows' /\ RolesNeedEngine'
  BY <1>0 DEF RolesHaveRows, RolesNeedEngine
<1>3. Listed(w)' /\ Silenced(w)' /\ Admits(w)'
  BY DEF Listed, Silenced, Admits, FromDenial, Denials
<1>4. RevokedIsSilent(w)'
  <2> SUFFICES ASSUME NEW x \in Credentials, credential'[x] = "revoked", role[x] = "login"
               PROVE  Outlives(x)' \/ Undoing(w, x)'
    BY DEF RevokedIsSilent
  <2>1. CASE credential[x] = "revoked"
    <3>1. Outlives(x)
      BY <1>0, <2>1 DEF RevokedIsSilent, Undoing
    <3> QED BY <1>0, <3>1, OutlivesStays
  <2> QED BY <2>1
<1>5. EndsQuiet(w)'
  <2> SUFFICES ASSUME s \in {"close", "succeed"}, task'[w].kind \in Denials
               PROVE  Quiet(task[w].connection)'
    BY <1>0 DEF EndsQuiet, Quiet, Outlives
  <2>1. task[w].kind \in Denials /\ step[w] \in FromDenial
    BY DEF FromDenial, Denials
  <2>2. task[w].connection \in Connections /\ Quiet(task[w].connection)
    BY <2>1, DenialIsQuiet
  <2> DEFINE c == task[w].connection
  <2>3. ASSUME NEW g \in Generations PROVE CredentialOf(c, g) = "revoked" => CredentialOf(c, g)' = "revoked"
    BY <1>0, <2>2, CredentialPair DEF CredentialOf
  <2>4. ASSUME NEW g \in Generations, role'[<<c, g>>] = "login" PROVE Outlives(<<c, g>>)'
    <3>1. <<c, g>> \in Credentials
      BY <2>2, CredentialPair
    <3>2. Outlives(<<c, g>>)
      BY <2>2, <2>4 DEF Quiet
    <3> QED BY <1>0, <3>1, <3>2, OutlivesStays
  <2> QED BY <1>0, <2>4 DEF Quiet, Outlives
<1> QED BY <1>1, <1>2, <1>3, <1>4, <1>5, WorksKeeps DEF GatewayInv

LEMMA CompleteKeeps ==
  ASSUME NEW w \in GatewayWorkers, GatewayInv(w), GatewayTyped', CompleteRotation(w)
  PROVE  GatewayInv(w)'
<1> DEFINE c == task[w].connection
           p == task[w].previous
<1>0. /\ GatewayTyped /\ AskedIs(w) /\ step[w] = "commit" /\ step[w] # "idle"
      /\ NeedsNewCredential(task[w])
  BY DEF GatewayInv, CompleteRotation
<1>1. UNCHANGED <<queue, issued, denied, condemned, instance, leaked, role>>
  BY DEF CompleteRotation, lifeVars
<1>2. /\ w \in Actors /\ w # Lifecycle /\ Lifecycle \in Actors /\ task[w] \in Tasks
      /\ step = [a \in Actors |-> step[a]] /\ task = [a \in Actors |-> task[a]]
      /\ TaskFits(w, "commit", task[w])
  BY <1>0, WorkerAt
<1>3. task[w].kind \in {"create", "rotate", "enable"}
  BY <1>0 DEF NeedsNewCredential
<1>4. task[w].asked \in {"create", "rotate", "enable"} /\ c \in Connections
  BY <1>0, <1>2, <1>3 DEF AskedIs, TaskFits, ConnectionKinds, WorkerKinds
<1>5. CASE Goto(w, "undo") /\ UNCHANGED credential /\ crashes' = crashes
  BY <1>0, <1>1, <1>5, FailsKeep
<1>6. CASE /\ credential' = IF p # 0 /\ CredentialOf(c, p) = "active"
                            THEN [credential EXCEPT ![<<c, p>>] = GraceState(task[w])] ELSE credential
           /\ crashes' = crashes
           /\ IF p # 0 /\ ~task[w].grace
              THEN /\ step' = [step EXCEPT ![w] = "deny"]
                   /\ task' = [task EXCEPT ![w].kind = "retire", ![w].generation = p, ![w].roles = {p}]
              ELSE Goto(w, "succeed")
  <2>1. \A x \in Credentials : \/ credential'[x] = credential[x]
                               \/ credential[x] = "active" /\ credential'[x] \in {"grace", "due"}
    <3>1. credential \in [Credentials -> CredentialStates]
      BY <1>0 DEF GatewayTyped, CredentialsTyped
    <3> QED BY <1>6, <3>1 DEF CredentialOf, GraceState
  <2>2. CASE p # 0 /\ ~task[w].grace
    <3> DEFINE t == [task[w] EXCEPT !.kind = "retire", !.generation = p, !.roles = {p}]
    <3>1. step' = [step EXCEPT ![w] = "deny"] /\ task' = [task EXCEPT ![w] = t]
      BY <1>2, <1>6, <2>2
    <3>2. /\ t.id = task[w].id /\ t.connection = c /\ t.asked = task[w].asked /\ t.kind = "retire"
          /\ t.roles = {p} /\ t.generation = p
      BY <1>2 DEF Tasks
    <3> HIDE DEF t
    <3>3. /\ step'[w] = "deny" /\ task'[w] = t /\ step'[Lifecycle] = step[Lifecycle]
          /\ task'[Lifecycle] = task[Lifecycle]
      BY <1>2, <3>1
    <3>4. Works(w)
      BY <1>0, <1>1, <1>4, <1>6, <2>1, <3>2, <3>3 DEF Works
    <3> QED BY <1>0, <1>1, <1>4, <2>1, <3>2, <3>3, <3>4, CommitsKeep DEF Denials
  <2>3. CASE ~(p # 0 /\ ~task[w].grace)
    <3>1. Goto(w, "succeed")
      BY <1>6, <2>3
    <3>2. /\ step'[w] = "succeed" /\ step'[Lifecycle] = step[Lifecycle]
          /\ task'[Lifecycle] = task[Lifecycle]
          /\ task'[w].id = task[w].id /\ task'[w].connection = c
          /\ task'[w].asked = task[w].asked /\ task'[w].kind = task[w].kind
      BY <1>0, <3>1, GotoWorks
    <3>3. Works(w)
      BY <1>0, <1>1, <1>4, <1>6, <2>1, <3>2 DEF Works
    <3> QED BY <1>0, <1>1, <1>3, <2>1, <3>2, <3>3, CommitsKeep DEF Denials
  <2> QED BY <2>2, <2>3
<1> QED BY <1>5, <1>6 DEF CompleteRotation, FaultAt, EngineRefuses, NoFault, Fault, environment

LEMMA RevokedRowsWrite ==
  ASSUME credential \in [Credentials -> CredentialStates], NEW c, NEW gs, credential' = RevokedRows(c, gs)
  PROVE  \A x \in Credentials :
           \/ credential'[x] = credential[x]
           \/ credential'[x] = "revoked" /\ credential[x] # "none" /\ x[1] = c /\ x[2] \in gs
BY DEF RevokedRows

LEMMA RevokeKeeps ==
  ASSUME NEW w \in GatewayWorkers, GatewayInv(w), GatewayTyped', RevokeRetired(w) \/ FinalizeRevocation(w)
  PROVE  GatewayInv(w)'
<1> DEFINE c == task[w].connection
           x0 == <<task[w].connection, task[w].generation>>
<1>0. /\ GatewayTyped /\ AskedIs(w) /\ step[w] = "commit" /\ step[w] # "idle" /\ Listed(w) /\ Silenced(w)
      /\ task[w].kind \in {"retire", "revoke", "delete"}
  BY DEF GatewayInv, RevokeRetired, FinalizeRevocation
<1>1. UNCHANGED <<queue, issued, denied, condemned, instance, leaked, role>>
  BY DEF RevokeRetired, FinalizeRevocation, lifeVars
<1>2. w # Lifecycle /\ TaskFits(w, "commit", task[w])
  BY <1>0, WorkerAt
<1>3. task[w].kind \in {"retire", "revoke"} /\ c \in Connections
  BY <1>0, <1>2 DEF TaskFits, WorkerKinds, ConnectionKinds
<1>4. credential \in [Credentials -> CredentialStates]
  BY <1>0 DEF GatewayTyped, CredentialsTyped
<1>5. CASE (Goto(w, FailStep(w)) \/ Goto(w, "fail")) /\ UNCHANGED credential /\ crashes' = crashes
  BY <1>0, <1>1, <1>5, WorkerFails, FailsKeep
<1>6. CASE /\ task[w].kind = "retire" /\ Goto(w, "succeed") /\ crashes' = crashes
           /\ credential[x0] # "revoked" /\ credential' = [credential EXCEPT ![x0] = "revoked"]
  <2>1. /\ step'[w] = "succeed" /\ step'[Lifecycle] = step[Lifecycle]
        /\ task'[Lifecycle] = task[Lifecycle]
        /\ task'[w].id = task[w].id /\ task'[w].connection = c
        /\ task'[w].asked = task[w].asked /\ task'[w].kind = task[w].kind
    BY <1>0, <1>6, GotoWorks
  <2>2. task[w].generation \in Generations /\ x0 \in Credentials
    BY <1>0, <1>3, <1>6, AtDenial, CredentialPair
  <2>3. role[x0] # "login"
    <3>1. task[w].generation \in task[w].roles
      BY <1>0, <1>6 DEF Listed, FromDenial
    <3> QED BY <1>0, <1>6, <3>1 DEF Silenced, FromDenial
  <2>4. /\ \A x \in Credentials : credential'[x] = IF x = x0 THEN "revoked" ELSE credential[x]
    BY <1>4, <1>6
  <2>5. Works(w)
    BY <1>0, <1>1, <1>6, <2>1, <2>4 DEF Works
  <2> QED BY <1>0, <1>1, <1>6, <2>1, <2>3, <2>4, <2>5, CommitsKeep DEF Denials
<1>7. CASE /\ task[w].kind = "revoke" /\ Goto(w, "close") /\ crashes' = crashes
           /\ credential' = RevokedRows(c, Generations)
  <2>1. /\ step'[w] = "close" /\ step'[Lifecycle] = step[Lifecycle]
        /\ task'[Lifecycle] = task[Lifecycle]
        /\ task'[w].id = task[w].id /\ task'[w].connection = c
        /\ task'[w].asked = task[w].asked /\ task'[w].kind = task[w].kind
    BY <1>0, <1>7, GotoWorks
  <2>2. \A x \in Credentials :
           \/ credential'[x] = credential[x]
           \/ credential'[x] = "revoked" /\ credential[x] # "none" /\ x[1] = c /\ x[2] \in Generations
    BY <1>4, <1>7, RevokedRowsWrite
  <2>3. Works(w)
    BY <1>0, <1>1, <1>7, <2>1, <2>2 DEF Works
  <2>4. Quiet(c)
    BY <1>0, <1>7, DenialIsQuiet DEF FromDenial, Denials
  <2>5. ASSUME NEW x \in Credentials, credential'[x] = "revoked", role[x] = "login", credential[x] # "revoked"
        PROVE  Outlives(x)'
    <3>1. x[1] = c /\ x[2] \in Generations /\ x = <<c, x[2]>>
      BY <2>2, <2>5 DEF Credentials
    <3>2. Outlives(x)
      BY <2>4, <2>5, <3>1 DEF Quiet
    <3> QED BY <1>1, <2>5, <3>2, OutlivesStays
  <2> QED BY <1>0, <1>1, <1>7, <2>1, <2>2, <2>3, <2>5, CommitsKeep DEF Denials
<1>8. CASE RevokeRetired(w)
  BY <1>5, <1>6, <1>8 DEF RevokeRetired, FaultAt, EngineRefuses, NoFault, Fault, environment
<1>9. CASE FinalizeRevocation(w)
  BY <1>3, <1>5, <1>7, <1>9 DEF FinalizeRevocation, FaultAt, NoFault, Fault, environment
<1> QED BY <1>8, <1>9

LEMMA UndoCredentialKeeps ==
  ASSUME NEW w \in GatewayWorkers, GatewayInv(w), GatewayTyped', UndoCredential(w)
  PROVE  GatewayInv(w)'
<1> DEFINE c == task[w].connection
           g == task[w].generation
<1>0. /\ GatewayTyped /\ AskedIs(w) /\ step[w] = "undo" /\ step[w] # "idle"
  BY DEF GatewayInv, UndoCredential
<1>1. /\ UNCHANGED <<queue, issued, denied, condemned, instance, leaked, role>>
      /\ Goto(w, "undrop") /\ crashes' = crashes
      /\ credential' \in {credential, RevokedRows(c, {g})}
  BY DEF UndoCredential, lifeVars, FaultAt, NoFault, Fault, environment
<1>2. credential \in [Credentials -> CredentialStates] /\ TaskFits(w, "undo", task[w])
  BY <1>0, WorkerAt DEF GatewayTyped, CredentialsTyped
<1>3. /\ step'[w] = "undrop" /\ step'[Lifecycle] = step[Lifecycle]
      /\ task'[Lifecycle] = task[Lifecycle] /\ task'[w] = task[w]
  BY <1>0, <1>1, GotoWorks
<1>4. \A x \in Credentials :
         \/ credential'[x] = credential[x]
         \/ credential'[x] = "revoked" /\ credential[x] # "none" /\ x[1] = c /\ x[2] \in {g}
  BY <1>1, <1>2, RevokedRowsWrite
<1>5. Works(w)
  BY <1>0, <1>1, <1>3, <1>4 DEF Works
<1>6. ASSUME NEW x \in Credentials, credential'[x] = "revoked", credential[x] # "revoked"
      PROVE  Undoing(w, x)'
  <2>1. x[1] = c /\ x[2] = g /\ x = <<x[1], x[2]>>
    BY <1>4, <1>6 DEF Credentials
  <2> QED BY <1>3, <2>1 DEF Undoing
<1> QED BY <1>0, <1>1, <1>3, <1>4, <1>5, <1>6, CommitsKeep

LEMMA UndoRoleKeeps ==
  ASSUME NEW w \in GatewayWorkers, GatewayInv(w), GatewayTyped', UndoRole(w)
  PROVE  GatewayInv(w)'
<1> DEFINE c == task[w].connection
           x0 == <<task[w].connection, task[w].generation>>
           t == [task[w] EXCEPT !.undoing = TRUE]
<1>0. /\ GatewayTyped /\ AskedIs(w) /\ RolesHaveRows /\ RolesNeedEngine /\ RevokedIsSilent(w)
      /\ step[w] = "undrop" /\ step[w] # "idle"
  BY DEF GatewayInv, UndoRole
<1>1. /\ UNCHANGED <<queue, issued, denied, condemned, instance, credential>>
      /\ crashes' = crashes
      /\ step' = [step EXCEPT ![w] = "render"] /\ task' = [task EXCEPT ![w] = t]
      /\ \/ role' = [role EXCEPT ![x0] = "none"] /\ leaked' = leaked
         \/ role' = role /\ leaked' = IF role[x0] # "none" THEN leaked \cup {x0} ELSE leaked
  BY DEF UndoRole, rowVars, lifeVars, NoFault, Fault, environment
<1>2. /\ w \in Actors /\ w # Lifecycle /\ Lifecycle \in Actors /\ task[w] \in Tasks
      /\ step = [a \in Actors |-> step[a]] /\ task = [a \in Actors |-> task[a]]
      /\ TaskFits(w, "undrop", task[w])
  BY <1>0, WorkerAt
<1>3. /\ NeedsNewCredential(task[w]) /\ c \in Connections /\ task[w].generation \in Generations
      /\ x0 \in Credentials
  BY <1>2, CredentialPair DEF TaskFits, Inserted
<1>4. /\ t.id = task[w].id /\ t.connection = c /\ t.asked = task[w].asked /\ t.kind = task[w].kind
      /\ t.previous = task[w].previous /\ t.roles = task[w].roles
  BY <1>2 DEF Tasks
<1> HIDE DEF t
<1>5. /\ step'[w] = "render" /\ task'[w] = t /\ step'[Lifecycle] = step[Lifecycle]
      /\ task'[Lifecycle] = task[Lifecycle]
  BY <1>1, <1>2
<1>6. \A x \in Credentials : role'[x] = role[x] \/ (x = x0 /\ role'[x] = "none")
  <2>1. role \in [Credentials -> Roles]
    BY <1>0 DEF GatewayTyped, CredentialsTyped
  <2> QED BY <1>1, <2>1
<1>7. task[w].kind \notin Denials \cup {"retire", "update"}
  BY <1>3 DEF NeedsNewCredential, Denials
<1>8. leaked \subseteq leaked'
  BY <1>1
<1>9. Works(w)
  BY <1>0, <1>1, <1>4, <1>5, <1>6, <1>8 DEF Works
<1>10. AskedIs(w)'
  BY <1>0, <1>4, <1>5 DEF AskedIs
<1>11. RolesHaveRows'
  BY <1>0, <1>1, <1>6 DEF RolesHaveRows
<1>12. RolesNeedEngine'
  BY <1>0, <1>1, <1>6 DEF RolesNeedEngine
<1>13. Listed(w)' /\ Silenced(w)' /\ EndsQuiet(w)'
  BY <1>4, <1>5, <1>7 DEF Listed, Silenced, EndsQuiet
<1>14. Admits(w)'
  BY <1>3, <1>4, <1>5 DEF Admits, NeedsNewCredential
<1>15. RevokedIsSilent(w)'
  <2> SUFFICES ASSUME NEW x \in Credentials, credential[x] = "revoked", role'[x] = "login"
               PROVE  Outlives(x)'
    BY <1>1 DEF RevokedIsSilent
  <2>1. role[x] = "login"
    BY <1>6
  <2>2. CASE x = x0
    <3>1. role \in [Credentials -> Roles]
      BY <1>0 DEF GatewayTyped, CredentialsTyped
    <3> QED BY <1>1, <1>3, <2>1, <2>2, <3>1 DEF Outlives
  <2>3. CASE x # x0
    <3>1. Outlives(x)
      BY <1>0, <2>1, <2>3 DEF RevokedIsSilent, Undoing
    <3> QED BY <1>1, <1>8, <3>1, OutlivesStays
  <2> QED BY <2>2, <2>3
<1> QED BY <1>9, <1>10, <1>11, <1>12, <1>13, <1>14, <1>15, WorksKeeps DEF GatewayInv

LEMMA ReadKeeps ==
  ASSUME NEW w \in GatewayWorkers, GatewayInv(w), GatewayTyped', ReadRows(w)
  PROVE  GatewayInv(w)'
<1> DEFINE c == task[w].connection
           r == IF c = None THEN task[w]
                ELSE IF task[w].kind = "retire" THEN [task[w] EXCEPT !.roles = {task[w].generation}]
                ELSE [task[w] EXCEPT !.previous = CurrentCredential(c), !.roles = Unrevoked(c),
                                     !.generation = connection[c].generation + 1]
<1>0. /\ GatewayTyped /\ AskedIs(w) /\ RolesHaveRows /\ RolesNeedEngine /\ RevokedIsSilent(w)
      /\ step[w] = "read" /\ step[w] # "idle"
  BY DEF GatewayInv, ReadRows
<1>1. /\ UNCHANGED <<queue, issued, denied, condemned, instance, credential, role, leaked>>
      /\ crashes' = crashes
  BY DEF ReadRows, rowVars, lifeVars, NoFault, environment
<1>2. /\ w \in Actors /\ w # Lifecycle /\ Lifecycle \in Actors /\ task[w] \in Tasks
      /\ step = [a \in Actors |-> step[a]] /\ task = [a \in Actors |-> task[a]]
      /\ TaskFits(w, "read", task[w])
  BY <1>0, WorkerAt
<1> DEFINE s == CASE task[w].kind = "provision" -> "render"
                  [] task[w].kind = "teardown"  -> "remove"
                  [] NeedsNewCredential(r)      -> "insert"
                  [] OTHER                      -> "deny"
<1>14. step' = [step EXCEPT ![w] = s] /\ task' = [task EXCEPT ![w] = r]
  BY DEF ReadRows
<1>4. /\ r.id = task[w].id /\ r.connection = c /\ r.asked = task[w].asked /\ r.kind = task[w].kind
      /\ task[w].kind = "retire" /\ c # None => r.roles = {r.generation}
      /\ task[w].kind # "retire" /\ c # None => r.roles = Unrevoked(c)
  BY <1>2 DEF Tasks
<1> HIDE DEF r
<1>3. /\ s \in {"render", "remove", "insert", "deny"}
      /\ s = "render" => task[w].kind = "provision"
  <2>1. CASE task[w].kind = "provision"
    BY <2>1, <1>4 DEF NeedsNewCredential
  <2>2. CASE task[w].kind = "teardown"
    BY <2>2, <1>4 DEF NeedsNewCredential
  <2>3. CASE task[w].kind \notin {"provision", "teardown"}
    <3>1. NeedsNewCredential(r) \in BOOLEAN
      BY DEF NeedsNewCredential
    <3> QED BY <2>3, <3>1
  <2> QED BY <2>1, <2>2, <2>3
<1> HIDE DEF s
<1>5. /\ step'[w] = s /\ task'[w] = r /\ step'[Lifecycle] = step[Lifecycle]
      /\ task'[Lifecycle] = task[Lifecycle]
  BY <1>2, <1>14
<1>6. task[w].kind \in ConnectionKinds => c \in Connections /\ c # None
  BY <1>2, GatewayAssumption DEF TaskFits
<1>7. Works(w)
  BY <1>0, <1>1, <1>3, <1>4, <1>5 DEF Works
<1>8. AskedIs(w)'
  BY <1>0, <1>4, <1>5 DEF AskedIs
<1>9. RolesHaveRows' /\ RolesNeedEngine' /\ RevokedIsSilent(w)'
  BY <1>0, <1>1, <1>5 DEF RolesHaveRows, RolesNeedEngine, RevokedIsSilent, Undoing, Outlives
<1>10. Listed(w)'
  <2>1. CASE task[w].kind \in Denials
    <3>1. c \in Connections /\ r.roles = Unrevoked(c)
      BY <1>4, <1>6, <2>1 DEF Denials, ConnectionKinds, WorkerKinds
    <3>2. ASSUME NEW g \in Generations, g \notin Unrevoked(c) PROVE CredentialOf(c, g) \in {"none", "revoked"}
      <4>1. <<c, g>> \in Credentials /\ credential \in [Credentials -> CredentialStates]
        BY <1>0, <3>1, CredentialPair DEF GatewayTyped, CredentialsTyped
      <4>2. CredentialOf(c, g) \in CredentialStates
        BY <4>1 DEF CredentialOf
      <4> QED BY <3>2, <4>2 DEF Unrevoked, CredentialStates
    <3> QED BY <1>1, <1>4, <1>5, <2>1, <3>1, <3>2 DEF Listed, CredentialOf, Denials
  <2>2. CASE task[w].kind = "retire"
    <3>1. r.roles = {r.generation}
      BY <1>4, <1>6, <2>2 DEF ConnectionKinds, WorkerKinds
    <3> QED BY <1>4, <1>5, <2>2, <3>1 DEF Listed, Denials
  <2>3. CASE task[w].kind \notin Denials \cup {"retire"}
    BY <1>4, <1>5, <2>3 DEF Listed
  <2> QED BY <2>1, <2>2, <2>3
<1>11. Silenced(w)'
  BY <1>3, <1>4, <1>5 DEF Silenced, FromDenial, Denials
<1>12. Admits(w)'
  <2>1. task[w].kind \in {"update", "enable"} => r.roles = Unrevoked(c)
    BY <1>4, <1>6 DEF ConnectionKinds, WorkerKinds
  <2>2. \A g \in Unrevoked(c) : CredentialOf(c, g) # "revoked"
    BY DEF Unrevoked
  <2> QED BY <1>1, <1>3, <1>4, <1>5, <2>1, <2>2 DEF Admits, CredentialOf
<1>13. EndsQuiet(w)'
  BY <1>3, <1>5 DEF EndsQuiet
<1> QED BY <1>7, <1>8, <1>9, <1>10, <1>11, <1>12, <1>13, WorksKeeps DEF GatewayInv

-----------------------------------------------------------------------------
(* The claim, the end of an operation, and the process end.                *)

\* A new status is the same operation.
LEMMA StatusSame ==
  ASSUME NEW q \in QueueRows, NEW s
  PROVE  LET p == [q EXCEPT !.status = s] IN
           p.id = q.id /\ p.kind = q.kind /\ p.connection = q.connection /\ p.status = s
BY DEF QueueRows

\* What a worker that is idle, or has just begun to read, has to show.
LEMMA BeginsKeep ==
  ASSUME NEW w \in GatewayWorkers, GatewayInv(w), GatewayTyped', step'[w] \in {"idle", "read"},
         UNCHANGED <<role, credential, condemned>>, leaked \subseteq leaked',
         instance' = instance, AskedIs(w)', QueueHasTask(w)', IdsDiffer', DeleteIsCondemned',
         DeniedIsQuiet(w)', \A x \in Credentials : Undoing(w, x) => x \in leaked'
  PROVE  GatewayInv(w)'
<1>1. RolesHaveRows /\ RolesNeedEngine /\ RevokedIsSilent(w)
  BY DEF GatewayInv
<1>2. RolesHaveRows' /\ RolesNeedEngine'
  BY <1>1 DEF RolesHaveRows, RolesNeedEngine
<1>3. Listed(w)' /\ Silenced(w)' /\ Admits(w)' /\ EndsQuiet(w)'
  BY DEF Listed, Silenced, Admits, EndsQuiet, FromDenial
<1>4. RevokedIsSilent(w)'
  BY <1>1 DEF RevokedIsSilent, Outlives
<1> QED BY <1>2, <1>3, <1>4 DEF GatewayInv

LEMMA QuietSame ==
  ASSUME NEW c \in Connections, Quiet(c), UNCHANGED <<role, credential>>, leaked \subseteq leaked',
         condemned => condemned'
  PROVE  Quiet(c)'
BY CredentialPair, QuietStays DEF CredentialOf

LEMMA ClaimKeeps ==
  ASSUME NEW w \in GatewayWorkers, GatewayInv(w), GatewayTyped', ClaimNextDatabaseGatewayOperation(w)
  PROVE  GatewayInv(w)'
<1>0. /\ GatewayTyped /\ IdsDiffer /\ DeleteIsCondemned /\ DeniedIsQuiet(w) /\ step[w] = "idle"
  BY DEF GatewayInv, ClaimNextDatabaseGatewayOperation
<1>1. UNCHANGED <<issued, denied, condemned, instance, credential, role, leaked, crashes>>
  BY DEF ClaimNextDatabaseGatewayOperation, rowVars, lifeVars, NoFault, environment
<1>2. w \in Actors /\ w # Lifecycle /\ Lifecycle \in Actors
  BY GatewayAssumption DEF Actors
<1>3. step = [a \in Actors |-> step[a]] /\ task = [a \in Actors |-> task[a]]
  BY <1>0 DEF GatewayTyped, TasksTyped
<1>4. PICK q \in queue :
        /\ queue' = (queue \ {q}) \cup {[q EXCEPT !.status = "running"]}
        /\ step' = [step EXCEPT ![w] = "read"]
        /\ task' = [task EXCEPT ![w] =
             [Idle EXCEPT !.kind = q.kind, !.asked = q.kind, !.id = q.id,
                          !.connection = q.connection, !.generation = q.generation, !.grace = q.grace]]
  BY DEF ClaimNextDatabaseGatewayOperation, SetQueued
<1> DEFINE t == [Idle EXCEPT !.kind = q.kind, !.asked = q.kind, !.id = q.id,
                             !.connection = q.connection, !.generation = q.generation, !.grace = q.grace]
           p == [q EXCEPT !.status = "running"]
<1>5. /\ t.kind = q.kind /\ t.asked = q.kind /\ t.id = q.id /\ t.connection = q.connection
  BY IdleIsTask DEF Tasks
<1>6. queue \subseteq QueueRows /\ p.id = q.id /\ p.kind = q.kind /\ p.connection = q.connection
      /\ p.status = "running"
  BY <1>0, StatusSame DEF GatewayTyped, QueueTyped
<1>7. queue' = (queue \ {q}) \cup {p} /\ task' = [task EXCEPT ![w] = t]
  BY <1>4
<1> HIDE DEF t, p
<1>8. /\ step'[w] = "read" /\ task'[w] = t /\ step'[Lifecycle] = step[Lifecycle]
      /\ task'[Lifecycle] = task[Lifecycle]
  BY <1>2, <1>3, <1>4, <1>7
<1>9. AskedIs(w)' /\ DeleteIsCondemned'
  BY <1>0, <1>1, <1>5, <1>8 DEF AskedIs, DeleteIsCondemned
<1>10. QueueHasTask(w)'
  BY <1>5, <1>6, <1>7, <1>8 DEF QueueHasTask
<1>11. IdsDiffer'
  BY <1>0, <1>1, <1>6, <1>7 DEF IdsDiffer
<1>12. DeniedIsQuiet(w)'
  <2> SUFFICES ASSUME NEW c \in denied PROVE Quiet(c)' \/ Reopened(w, c)'
    BY <1>1 DEF DeniedIsQuiet
  <2>1. c \in Connections
    BY <1>0 DEF GatewayTyped, HistoryTyped
  <2>2. CASE Quiet(c)
    BY <1>1, <2>1, <2>2, QuietSame
  <2>3. CASE Reopened(w, c)
    <3>1. crashes > 0 /\ \E o \in queue : o.connection = c /\ o.kind # "retire"
      BY <1>0, <2>3 DEF Reopened, On
    <3>2. \E o \in queue' : o.connection = c /\ o.kind # "retire"
      BY <1>6, <1>7, <3>1
    <3> QED BY <1>1, <3>1, <3>2 DEF Reopened
  <2> QED BY <1>0, <2>2, <2>3 DEF DeniedIsQuiet
<1>13. \A x \in Credentials : ~Undoing(w, x)
  BY <1>0 DEF Undoing
<1> QED BY <1>1, <1>8, <1>9, <1>10, <1>11, <1>12, <1>13, BeginsKeep

LEMMA EndKeeps ==
  ASSUME NEW w \in GatewayWorkers, GatewayInv(w), GatewayTyped', EndOperation(w)
  PROVE  GatewayInv(w)'
<1> DEFINE c0 == task[w].connection
           outcome == IF step[w] = "succeed" THEN "success" ELSE "failed"
<1>0. /\ GatewayTyped /\ IdsDiffer /\ QueueHasTask(w) /\ AskedIs(w) /\ DeleteIsCondemned
      /\ DeniedIsQuiet(w) /\ EndsQuiet(w) /\ step[w] \in {"succeed", "fail"} /\ step[w] # "idle"
  BY DEF GatewayInv, EndOperation
<1>1. /\ UNCHANGED <<issued, condemned, instance, credential, role, leaked, crashes>>
      /\ queue' = {q \in queue : q.id # task[w].id}
      /\ Settle(w, outcome) /\ Finish(w)
  BY DEF EndOperation, EndOf, lifeVars, NoFault, environment
<1>2. /\ w \in Actors /\ w # Lifecycle /\ Lifecycle \in Actors
      /\ step = [a \in Actors |-> step[a]] /\ task = [a \in Actors |-> task[a]]
  BY <1>0, WorkerAt
<1>3. /\ step'[w] = "idle" /\ step'[Lifecycle] = step[Lifecycle] /\ task'[Lifecycle] = task[Lifecycle]
  BY <1>1, <1>2 DEF Finish
<1>4. AskedIs(w)' /\ QueueHasTask(w)' /\ DeleteIsCondemned'
  BY <1>0, <1>1, <1>3 DEF AskedIs, QueueHasTask, DeleteIsCondemned
<1>5. IdsDiffer'
  BY <1>0, <1>1 DEF IdsDiffer
<1>6. DeniedIsQuiet(w)'
  <2>0. \A c \in denied' : c \in Connections
    BY DEF GatewayTyped, HistoryTyped
  <2> SUFFICES ASSUME NEW c \in denied', ~Quiet(c) PROVE Reopened(w, c)'
    BY <1>1, <2>0, QuietSame DEF DeniedIsQuiet
  <2>1. None \notin Connections /\ denied \subseteq Connections
    BY <1>0, GatewayAssumption DEF GatewayTyped, HistoryTyped
  <2>2. c \in denied
    <3> SUFFICES ASSUME c \notin denied PROVE FALSE
      OBVIOUS
    <3>1. c = c0 /\ task[w].asked \in Denials /\ step[w] = "succeed"
      BY <1>1 DEF Settle
    <3>2. task[w].kind = task[w].asked
      BY <1>0, <3>1 DEF AskedIs, Denials
    <3> QED BY <1>0, <3>1, <3>2 DEF EndsQuiet
  <2>3. Reopened(w, c)
    BY <1>0, <2>2 DEF DeniedIsQuiet
  <2>4. c = c0 => task[w].asked = "retire"
    <3> SUFFICES ASSUME c = c0, task[w].asked # "retire" PROVE FALSE
      OBVIOUS
    <3>1. c # None
      BY <2>1, <2>2
    <3>2. task[w].asked \in Denials /\ step[w] = "succeed"
      BY <1>1, <3>1 DEF Settle
    <3>3. task[w].kind = task[w].asked
      BY <1>0, <3>2 DEF AskedIs, Denials
    <3> QED BY <1>0, <3>2, <3>3 DEF EndsQuiet
  <2>5. PICK q \in queue : crashes > 0 /\ q.connection = c /\ q.kind # "retire"
    BY <2>3, <2>4 DEF Reopened, On
  <2>6. q.id # task[w].id
    <3>1. PICK o \in queue : o.id = task[w].id /\ o.connection = c0 /\ o.kind = task[w].asked
      BY <1>0 DEF QueueHasTask
    <3> QED BY <1>0, <2>4, <2>5, <3>1 DEF IdsDiffer
  <2> QED BY <1>1, <2>5, <2>6 DEF Reopened
<1>7. \A x \in Credentials : ~Undoing(w, x)
  BY <1>0 DEF Undoing
<1> QED BY <1>1, <1>3, <1>4, <1>5, <1>6, <1>7, BeginsKeep

LEMMA CrashKeeps ==
  ASSUME NEW w \in GatewayWorkers, GatewayInv(w), GatewayTyped', GatewayCrash
  PROVE  GatewayInv(w)'
<1>0. /\ GatewayTyped /\ IdsDiffer /\ QueueHasTask(w) /\ DeniedIsQuiet(w) /\ RolesHaveRows
  BY DEF GatewayInv
<1>1. /\ UNCHANGED <<condemned, instance, credential, role, denied>>
      /\ step' = [a \in Actors |-> "idle"] /\ task' = [a \in Actors |-> Idle]
      /\ leaked' = leaked \cup {<<task[a].connection, task[a].generation>> : a \in {b \in Actors : step[b] = "undrop"}}
      /\ crashes' = crashes + 1
  BY DEF GatewayCrash, rowVars, lifeVars, ProcessCrash
<1>2. w \in Actors /\ Lifecycle \in Actors
  BY DEF Actors
<1>3. queue \subseteq QueueRows /\ issued \in Nat /\ crashes \in Nat
  BY <1>0 DEF GatewayTyped, QueueTyped, RowsTyped
<1>4. PICK lapsed \in SUBSET queue :
        LET kept == (queue \ lapsed) \cup {[q EXCEPT !.status = "queued"] : q \in lapsed} IN
          \/ queue' = kept /\ issued' = issued
          \/ queue' = kept \cup {Operation("provision", None, 0, FALSE)} /\ issued' = issued + 1
  <2>1. PICK lapsed \in SUBSET {q \in queue : q.status = "running"} :
          LET kept == (queue \ lapsed) \cup {[q EXCEPT !.status = "queued"] : q \in lapsed}
              starts == endpoint.desired = "active" /\ ~IsQueued("provision", None, 0)
          IN /\ queue' = IF starts THEN kept \cup {Operation("provision", None, 0, FALSE)} ELSE kept
             /\ issued' = IF starts THEN issued + 1 ELSE issued
    BY DEF GatewayCrash
  <2>2. lapsed \in SUBSET queue
    OBVIOUS
  <2> QED BY <2>1, <2>2
<1> DEFINE kept == (queue \ lapsed) \cup {[q EXCEPT !.status = "queued"] : q \in lapsed}
           o == Operation("provision", None, 0, FALSE)
<1>5. o.id = issued + 1
  BY DEF Operation
<1>6. \A q \in queue : \E p \in kept : p.id = q.id /\ p.kind = q.kind /\ p.connection = q.connection
  <2> SUFFICES ASSUME NEW q \in queue
               PROVE  \E p \in kept : p.id = q.id /\ p.kind = q.kind /\ p.connection = q.connection
    OBVIOUS
  <2>1. CASE q \in lapsed
    <3>1. [q EXCEPT !.status = "queued"] \in kept
      BY <2>1
    <3>2. LET p == [q EXCEPT !.status = "queued"] IN
            p.id = q.id /\ p.kind = q.kind /\ p.connection = q.connection
      BY <1>3, StatusSame
    <3> QED BY <3>1, <3>2
  <2>2. CASE q \notin lapsed
    BY <2>2
  <2> QED BY <2>1, <2>2
<1>7. ASSUME NEW p \in kept
      PROVE  \/ p \in queue \ lapsed
             \/ \E q \in lapsed : p = [q EXCEPT !.status = "queued"] /\ p.id = q.id
  <2>1. CASE p \in queue \ lapsed
    BY <2>1
  <2>2. CASE p \notin queue \ lapsed
    <3>1. PICK q \in lapsed : p = [q EXCEPT !.status = "queued"]
      BY <2>2
    <3>2. p.id = q.id
      <4>1. q \in QueueRows
        BY <1>3
      <4> QED BY <3>1, <4>1 DEF QueueRows
    <3> QED BY <3>1, <3>2
  <2> QED BY <2>1, <2>2
<1>8. \A p \in kept : p.id <= issued
  BY <1>0, <1>7 DEF IdsDiffer
<1>9. ASSUME NEW p1 \in kept, NEW p2 \in kept, p1.id = p2.id PROVE p1 = p2
  BY <1>0, <1>7, <1>9 DEF IdsDiffer
<1>10. \/ queue' = kept /\ issued' = issued
       \/ queue' = kept \cup {o} /\ issued' = issued + 1
  BY <1>4
<1> HIDE DEF kept, o
<1>11. IdsDiffer'
  <2>1. CASE queue' = kept /\ issued' = issued
    BY <1>8, <1>9, <2>1 DEF IdsDiffer
  <2>2. CASE queue' = kept \cup {o} /\ issued' = issued + 1
    <3>1. \A p \in kept : p.id <= issued + 1 /\ p.id # issued + 1
      <4> SUFFICES ASSUME NEW p \in kept PROVE p.id <= issued + 1 /\ p.id # issued + 1
        OBVIOUS
      <4>1. p.id \in Nat
        BY <1>3, <1>7, StatusSame DEF QueueRows
      <4> QED BY <1>3, <1>8, <4>1
    <3> QED BY <1>3, <1>5, <1>9, <2>2, <3>1 DEF IdsDiffer
  <2> QED BY <1>10, <2>1, <2>2
<1>12. \A q \in queue : \E p \in queue' : p.kind = q.kind /\ p.connection = q.connection
  BY <1>6, <1>10
<1>13. DeniedIsQuiet(w)'
  <2> SUFFICES ASSUME NEW c \in denied PROVE Quiet(c)' \/ Reopened(w, c)'
    BY <1>1 DEF DeniedIsQuiet
  <2>1. c \in Connections
    BY <1>0 DEF GatewayTyped, HistoryTyped
  <2>2. CASE Quiet(c)
    BY <1>1, <2>1, <2>2, QuietSame
  <2>3. CASE Reopened(w, c)
    <3>1. \E q \in queue : q.connection = c /\ q.kind # "retire"
      BY <1>0, <2>3 DEF Reopened, On, QueueHasTask
    <3>2. crashes' > 0
      BY <1>1, <1>3
    <3> QED BY <1>12, <3>1, <3>2 DEF Reopened
  <2> QED BY <1>0, <2>2, <2>3 DEF DeniedIsQuiet
<1>14. \A x \in Credentials : Undoing(w, x) => x \in leaked'
  BY <1>1, <1>2 DEF Undoing
<1>15. step'[w] = "idle" /\ step'[Lifecycle] = "idle"
  BY <1>1, <1>2
<1>16. AskedIs(w)' /\ QueueHasTask(w)' /\ DeleteIsCondemned'
  BY <1>15 DEF AskedIs, QueueHasTask, DeleteIsCondemned
<1> QED BY <1>1, <1>11, <1>13, <1>14, <1>15, <1>16, BeginsKeep

-----------------------------------------------------------------------------
(* The steps beside the worker.                                            *)

\* A request or a claim queues one operation with a new id.
LEMMA QueueingKeeps ==
  ASSUME NEW w \in GatewayWorkers, GatewayTyped, IdsDiffer, QueueHasTask(w),
         NEW kind, NEW c, NEW g, NEW grace, QueueOperation(kind, c, g, grace),
         step'[w] = step[w], task'[w] = task[w]
  PROVE  /\ IdsDiffer' /\ QueueHasTask(w)'
         /\ \A q \in queue : \E p \in queue' : p.kind = q.kind /\ p.connection = q.connection
<1> DEFINE o == Operation(kind, c, g, grace)
<1>1. o.id = issued + 1
  BY DEF Operation
<1>2. queue' = queue \cup {o} /\ issued' = issued + 1
  BY DEF QueueOperation
<1>3. queue \subseteq QueueRows /\ issued \in Nat
  BY DEF GatewayTyped, QueueTyped, RowsTyped
<1> HIDE DEF o
<1>4. \A q \in queue : q.id \in Nat /\ q.id <= issued
  BY <1>3 DEF IdsDiffer, QueueRows
<1>5. \A q \in queue : q.id <= issued + 1 /\ q.id # issued + 1
  BY <1>3, <1>4
<1>6. IdsDiffer'
  BY <1>1, <1>2, <1>3, <1>5 DEF IdsDiffer
<1>7. QueueHasTask(w)'
  BY <1>2 DEF QueueHasTask
<1> QED BY <1>2, <1>6, <1>7

LEMMA QueueStays ==
  ASSUME NEW w \in GatewayWorkers, IdsDiffer, QueueHasTask(w), UNCHANGED <<queue, issued>>,
         step'[w] = step[w], task'[w] = task[w]
  PROVE  /\ IdsDiffer' /\ QueueHasTask(w)'
         /\ \A q \in queue : \E p \in queue' : p.kind = q.kind /\ p.connection = q.connection
BY DEF IdsDiffer, QueueHasTask

LEMMA RequestBystander ==
  ASSUME NEW w \in GatewayWorkers, GatewayInv(w), GatewayTyped', UNCHANGED <<requestRest, crashes>>,
         IdsDiffer', QueueHasTask(w)',
         \A q \in queue : \E p \in queue' : p.kind = q.kind /\ p.connection = q.connection
  PROVE  GatewayInv(w)'
<1>1. UNCHANGED <<instance, credential, role, step, task, condemned, denied, leaked>>
  BY DEF requestRest, lifeVars
<1>2. DeleteIsCondemned' /\ Bystander(w)
  BY <1>1 DEF GatewayInv, DeleteIsCondemned, Bystander
<1> QED BY <1>2, BystanderKeeps

LEMMA RequestKeeps ==
  ASSUME NEW w \in GatewayWorkers, GatewayInv(w), GatewayTyped',
         \/ QueueDatabaseGatewayProvision \/ QueueDatabaseGatewayTeardown
         \/ \E c \in Connections : ExternalRequest(c) \/ ExpiryLapses(c)
         \/ \E x \in Credentials : GraceLapses(x)
         \/ GatewayClaims
  PROVE  GatewayInv(w)'
<1> USE DEF NoFault, environment
<1>0. GatewayTyped /\ IdsDiffer /\ QueueHasTask(w) /\ DeleteIsCondemned
  BY DEF GatewayInv
<1>1. CASE QueueDatabaseGatewayProvision \/ QueueDatabaseGatewayTeardown
  <2>1. UNCHANGED <<requestRest, crashes>> /\ \E kind \in WorkerKinds : QueueOperation(kind, None, 0, FALSE)
    BY <1>1 DEF QueueDatabaseGatewayProvision, QueueDatabaseGatewayTeardown, WorkerKinds
  <2>2. /\ IdsDiffer' /\ QueueHasTask(w)'
        /\ \A q \in queue : \E p \in queue' : p.kind = q.kind /\ p.connection = q.connection
    BY <1>0, <2>1, QueueingKeeps DEF requestRest
  <2> QED BY <1>0, <2>1, <2>2, RequestBystander
<1>2. ASSUME NEW c \in Connections, ExternalRequest(c) PROVE GatewayInv(w)'
  <2>1. UNCHANGED <<requestRest, crashes>>
    BY <1>2 DEF ExternalRequest, CreateDatabaseExternalConnection, UpdateDatabaseExternalConnection,
                Disable, Enable, Revoke, Rotate, Action
  <2>2. \E kind \in WorkerKinds, grace \in BOOLEAN : QueueOperation(kind, c, 0, grace)
    <3>1. CASE CreateDatabaseExternalConnection(c)
      BY <3>1 DEF CreateDatabaseExternalConnection, WorkerKinds
    <3>2. CASE UpdateDatabaseExternalConnection(c)
      BY <3>2 DEF UpdateDatabaseExternalConnection, WorkerKinds
    <3>3. CASE Disable(c) \/ Enable(c) \/ Revoke(c)
      BY <3>3 DEF Disable, Enable, Revoke, Action, WorkerKinds
    <3>4. CASE \E grace \in BOOLEAN : Rotate(c, grace)
      BY <3>4 DEF Rotate, Action, WorkerKinds
    <3> QED BY <1>2, <3>1, <3>2, <3>3, <3>4 DEF ExternalRequest
  <2>3. /\ IdsDiffer' /\ QueueHasTask(w)'
        /\ \A q \in queue : \E p \in queue' : p.kind = q.kind /\ p.connection = q.connection
    BY <1>0, <2>1, <2>2, QueueingKeeps DEF requestRest
  <2> QED BY <1>0, <2>1, <2>3, RequestBystander
<1>3. ASSUME NEW c \in Connections, ExpiryLapses(c) PROVE GatewayInv(w)'
  <2>1. UNCHANGED <<instance, credential, role, queue, issued, step, task, lifeVars, denied, leaked, crashes>>
    BY <1>3 DEF ExpiryLapses
  <2>2. IdsDiffer' /\ QueueHasTask(w)' /\ DeleteIsCondemned' /\ Bystander(w)
    BY <1>0, <2>1, QueueStays DEF Bystander, DeleteIsCondemned, lifeVars
  <2> QED BY <2>2, BystanderKeeps
<1>4. ASSUME NEW x \in Credentials, GraceLapses(x) PROVE GatewayInv(w)'
  <2>1. /\ UNCHANGED <<instance, role, queue, issued, step, task, lifeVars, denied, leaked, crashes>>
        /\ credential[x] = "grace" /\ credential' = [credential EXCEPT ![x] = "due"]
    BY <1>4 DEF GraceLapses
  <2>2. \A y \in Credentials : \/ credential'[y] = credential[y]
                               \/ credential[y] = "grace" /\ credential'[y] = "due"
    BY <1>0, <2>1 DEF GatewayTyped, CredentialsTyped
  <2>3. IdsDiffer' /\ QueueHasTask(w)' /\ DeleteIsCondemned' /\ Bystander(w)
    BY <1>0, <2>1, <2>2, QueueStays DEF Bystander, DeleteIsCondemned, lifeVars
  <2> QED BY <2>3, BystanderKeeps
<1>5. CASE GatewayClaims
  <2>1. UNCHANGED <<instance, credential, role, step, task, lifeVars, denied, leaked, crashes>>
    BY <1>5 DEF GatewayClaims, ListDueClaims, QueueDueExpiration, QueueDueRetirement, rowVars
  <2>2. \/ UNCHANGED <<queue, issued>>
        \/ \E kind, c, g : QueueOperation(kind, c, g, FALSE)
    BY <1>5 DEF GatewayClaims, ListDueClaims, QueueDueExpiration, QueueDueRetirement
  <2>3. /\ IdsDiffer' /\ QueueHasTask(w)'
        /\ \A q \in queue : \E p \in queue' : p.kind = q.kind /\ p.connection = q.connection
    BY <1>0, <2>1, <2>2, QueueingKeeps, QueueStays
  <2>4. DeleteIsCondemned' /\ Bystander(w)
    BY <1>0, <2>1, <2>3 DEF Bystander, DeleteIsCondemned, lifeVars
  <2> QED BY <2>3, <2>4, BystanderKeeps
<1> QED BY <1>1, <1>2, <1>3, <1>4, <1>5

-----------------------------------------------------------------------------
(* The handlers of the database beside the worker.                         *)

LEMMA HandlerKeeps ==
  ASSUME NEW w \in GatewayWorkers, GatewayInv(w), GatewayTyped', NEW s, NEW t,
         step' = [step EXCEPT ![Lifecycle] = s], task' = [task EXCEPT ![Lifecycle] = t],
         s # "idle" /\ t.kind = "delete" => condemned',
         condemned => condemned', instance' = "starting" => instance = "starting",
         UNCHANGED <<queue, issued, denied, leaked, crashes>>,
         \A x \in Credentials : \/ credential'[x] = credential[x]
                                \/ condemned /\ credential[x] # "none" /\ credential'[x] = "revoked",
         \A x \in Credentials : \/ role'[x] = role[x]
                                \/ role[x] # "none" /\ role'[x] \in {"none", "nologin"}
  PROVE  GatewayInv(w)'
<1>0. GatewayTyped /\ IdsDiffer /\ QueueHasTask(w)
  BY DEF GatewayInv
<1>1. w \in Actors /\ w # Lifecycle /\ Lifecycle \in Actors
  BY GatewayAssumption DEF Actors
<1>2. step = [a \in Actors |-> step[a]] /\ task = [a \in Actors |-> task[a]]
  BY <1>0 DEF GatewayTyped, TasksTyped
<1>3. step'[w] = step[w] /\ task'[w] = task[w] /\ step'[Lifecycle] = s /\ task'[Lifecycle] = t
  BY <1>1, <1>2
<1>4. DeleteIsCondemned'
  BY <1>3 DEF DeleteIsCondemned
<1>5. IdsDiffer' /\ QueueHasTask(w)'
  BY <1>0, <1>3, QueueStays
<1>6. Bystander(w)
  BY <1>3 DEF Bystander
<1> QED BY <1>4, <1>5, <1>6, BystanderKeeps

LEMMA HandlerAt ==
  ASSUME GatewayTyped, step[Lifecycle] # "idle"
  PROVE  /\ Lifecycle \in Actors /\ task[Lifecycle] \in Tasks /\ TaskFits(Lifecycle, step[Lifecycle], task[Lifecycle])
         /\ task[Lifecycle].kind \in LifecycleKinds
<1>1. Lifecycle \in Actors /\ TasksTyped
  BY DEF Actors, GatewayTyped
<1> QED BY <1>1, AtStep DEF TaskFits

\* A handler that only goes on or ends.
LEMMA HandlerGoesOn ==
  ASSUME NEW w \in GatewayWorkers, GatewayInv(w), GatewayTyped', step[Lifecycle] # "idle", NEW s,
         Goto(Lifecycle, s) \/ Finish(Lifecycle),
         condemned' = condemned, instance' = "starting" => instance = "starting",
         UNCHANGED <<queue, issued, denied, leaked, crashes>>,
         \A x \in Credentials : \/ credential'[x] = credential[x]
                                \/ condemned /\ credential[x] # "none" /\ credential'[x] = "revoked",
         \A x \in Credentials : \/ role'[x] = role[x]
                                \/ role[x] # "none" /\ role'[x] \in {"none", "nologin"}
  PROVE  GatewayInv(w)'
<1>0. GatewayTyped /\ DeleteIsCondemned
  BY DEF GatewayInv
<1>1. task[Lifecycle] \in Tasks /\ Lifecycle \in Actors /\ task = [a \in Actors |-> task[a]]
  BY <1>0, HandlerAt DEF GatewayTyped, TasksTyped
<1>2. CASE Finish(Lifecycle)
  BY <1>2, HandlerKeeps DEF Finish
<1>3. CASE Goto(Lifecycle, s)
  <2>1. PICK t \in {task[Lifecycle], Ending(task[Lifecycle])} :
          step' = [step EXCEPT ![Lifecycle] = s] /\ task' = [task EXCEPT ![Lifecycle] = t]
    <3>1. CASE s \in {"succeed", "fail"}
      BY <1>3, <3>1 DEF Goto
    <3>2. CASE s \notin {"succeed", "fail"}
      <4>1. task = [task EXCEPT ![Lifecycle] = task[Lifecycle]]
        BY <1>1
      <4> QED BY <1>3, <3>2, <4>1 DEF Goto
    <3> QED BY <3>1, <3>2
  <2>2. t.kind = task[Lifecycle].kind
    BY <1>1, EndingSame
  <2>3. t.kind = "delete" => condemned'
    BY <1>0, <2>2 DEF DeleteIsCondemned
  <2> QED BY <2>1, <2>3, HandlerKeeps
<1> QED BY <1>2, <1>3

\* The steps of the data plane write their task as well.
LEMMA HandlerWrites ==
  ASSUME NEW w \in GatewayWorkers, GatewayInv(w), GatewayTyped', step[Lifecycle] # "idle", NEW s, NEW t,
         step' = [step EXCEPT ![Lifecycle] = s], task' = [task EXCEPT ![Lifecycle] = t],
         t.kind = task[Lifecycle].kind,
         UNCHANGED <<instance, queue, issued, denied, leaked, crashes, condemned, credential, role>>
  PROVE  GatewayInv(w)'
<1>1. DeleteIsCondemned
  BY DEF GatewayInv
<1>2. t.kind = "delete" => condemned'
  BY <1>1 DEF DeleteIsCondemned
<1> QED BY <1>2, HandlerKeeps

LEMMA HandlerPlaneKeeps ==
  ASSUME NEW w \in GatewayWorkers, GatewayInv(w), GatewayTyped', DataPlaneStep(Lifecycle)
  PROVE  GatewayInv(w)'
<1> USE DEF NoFault, environment, Fault
<1> DEFINE L == Lifecycle
<1>0. GatewayTyped /\ step[L] # "idle"
  BY DEF GatewayInv, DataPlaneStep, RenderConfiguration, ActivateGeneration, ReloadPgBouncer, RecordEndpoint
<1>1. UNCHANGED <<instance, queue, issued, denied, leaked, crashes, condemned, credential, role>>
  BY DEF DataPlaneStep, RenderConfiguration, ActivateGeneration, ReloadPgBouncer, RecordEndpoint,
         rowVars, lifeVars, FaultAt, EngineRefuses
<1>2. task[L] \in Tasks
  BY <1>0, HandlerAt
<1>3. CASE Goto(L, FailStep(L))
  BY <1>0, <1>1, <1>3, HandlerGoesOn
<1>4. CASE ~Goto(L, FailStep(L)) /\ RenderConfiguration(L)
  <2> DEFINE t == [task[L] EXCEPT !.plan = Rendered(Included(task[L]), Excluded(task[L])),
                                  !.number = NextNumber, !.container = endpoint.container]
  <2>1. step' = [step EXCEPT ![L] = "activate"] /\ task' = [task EXCEPT ![L] = t]
    BY <1>4 DEF RenderConfiguration, FaultAt
  <2>2. t.kind = task[L].kind
    BY <1>2 DEF Tasks
  <2> HIDE DEF t
  <2> QED BY <1>0, <1>1, <2>1, <2>2, HandlerWrites
<1>5. CASE ~Goto(L, FailStep(L)) /\ ActivateGeneration(L)
  <2> DEFINE t == [task[L] EXCEPT !.before = current]
  <2>1. step' = [step EXCEPT ![L] = "reload"] /\ task' = [task EXCEPT ![L] = t]
    BY <1>5 DEF ActivateGeneration
  <2>2. t.kind = task[L].kind
    BY <1>2 DEF Tasks
  <2> HIDE DEF t
  <2> QED BY <1>0, <1>1, <2>1, <2>2, HandlerWrites
<1>6. CASE ~Goto(L, FailStep(L)) /\ ReloadPgBouncer(L)
  <2> DEFINE t == [task[L] EXCEPT !.fresh = ~task[L].container]
  <2>1. step' = [step EXCEPT ![L] = "record"] /\ task' = [task EXCEPT ![L] = t]
    BY <1>6 DEF ReloadPgBouncer, FaultAt, EngineRefuses
  <2>2. t.kind = task[L].kind
    BY <1>2 DEF Tasks
  <2> HIDE DEF t
  <2> QED BY <1>0, <1>1, <2>1, <2>2, HandlerWrites
<1>7. CASE ~Goto(L, FailStep(L)) /\ RecordEndpoint(L)
  <2> DEFINE t == Applied(task[L])
             s == AfterDataPlane(task[L])
  <2>1. step' = [step EXCEPT ![L] = s] /\ task' = [task EXCEPT ![L] = t]
    BY <1>7 DEF RecordEndpoint, FaultAt
  <2>2. t.kind = task[L].kind
    <3>1. CASE s \in {"succeed", "fail"}
      <4>1. t = Ending(task[L])
        BY <3>1 DEF Applied
      <4> HIDE DEF t
      <4> QED BY <1>2, <4>1, EndingSame
    <3>2. CASE s \notin {"succeed", "fail"}
      <4>1. t = [task[L] EXCEPT !.plan = {}, !.number = 0, !.before = None, !.container = FALSE,
                                !.fresh = FALSE]
        BY <3>2 DEF Applied
      <4> HIDE DEF t
      <4> QED BY <1>2, <4>1 DEF Tasks
    <3> QED BY <3>1, <3>2
  <2> HIDE DEF t, s
  <2> QED BY <1>0, <1>1, <2>1, <2>2, HandlerWrites
<1> QED BY <1>3, <1>4, <1>5, <1>6, <1>7 DEF DataPlaneStep

\* A deletion revokes the connections it listed, with the steps of the worker.
LEMMA DeletionKeeps ==
  ASSUME NEW w \in GatewayWorkers, GatewayInv(w), GatewayTyped', RevocationStep(Lifecycle)
  PROVE  GatewayInv(w)'
<1> USE DEF NoFault, environment, Fault
<1> DEFINE L == Lifecycle
           c == task[L].connection
           gs == task[L].roles
<1>0. GatewayTyped /\ DeleteIsCondemned /\ step[L] # "idle"
  BY DEF GatewayInv, RevocationStep, DisableRoles, DropRoles, FinalizeRevocation, CleanupRoute
<1>1. UNCHANGED <<instance, queue, issued, denied, leaked, condemned>>
  BY DEF RevocationStep, DisableRoles, DropRoles, FinalizeRevocation, CleanupRoute, rowVars, lifeVars
<1>2. /\ task[L] \in Tasks /\ TaskFits(L, step[L], task[L]) /\ task[L].kind \in LifecycleKinds
      /\ gs \in SUBSET Generations
  BY <1>0, HandlerAt DEF Tasks
<1>3. role \in [Credentials -> Roles] /\ credential \in [Credentials -> CredentialStates]
  BY <1>0 DEF GatewayTyped, CredentialsTyped
<1>4. CASE DisableRoles(L) \/ DropRoles(L)
  <2>1. PICK value \in {"nologin", "none"} : \E next : RunOnRoles(L, c, gs, value, next)
    BY <1>4 DEF DisableRoles, DropRoles
  <2>2. /\ \A x \in Credentials :
             \/ role'[x] = role[x]
             \/ role'[x] = value /\ role[x] # "none" /\ x[1] = c /\ x[2] \in gs /\ instance = "healthy"
        /\ \E s : Goto(L, s)
        /\ crashes' = crashes
    <3> HIDE DEF L, c, gs
    <3> QED BY <1>2, <1>3, <2>1, RunWrites
  <2>3. credential' = credential
    BY <1>4 DEF DisableRoles, DropRoles, rowVars
  <2> QED BY <1>0, <1>1, <2>2, <2>3, HandlerGoesOn
<1>5. CASE FinalizeRevocation(L)
  <2>1. /\ role' = role /\ crashes' = crashes /\ credential' \in {credential, RevokedRows(c, Generations)}
        /\ \E s : Goto(L, s)
    BY <1>5 DEF FinalizeRevocation, FaultAt
  <2>2. condemned
    <3>1. task[L].kind = "delete"
      BY <1>2, <1>5 DEF FinalizeRevocation, LifecycleKinds
    <3> QED BY <1>0, <3>1 DEF DeleteIsCondemned
  <2>3. \A x \in Credentials : \/ credential'[x] = credential[x]
                               \/ credential[x] # "none" /\ credential'[x] = "revoked"
    BY <1>3, <2>1, RevokedRowsWrite
  <2> QED BY <1>0, <1>1, <2>1, <2>2, <2>3, HandlerGoesOn
<1>6. CASE CleanupRoute(L)
  <2>1. UNCHANGED <<role, credential, crashes>> /\ \E s : Goto(L, s)
    BY <1>6 DEF CleanupRoute, FaultAt
  <2> QED BY <1>0, <1>1, <2>1, HandlerGoesOn
<1> QED BY <1>4, <1>5, <1>6 DEF RevocationStep

\* The rest of the worker's steps are not taken by a handler of the database.
LEMMA HandlerStepIsWorker ==
  ASSUME GatewayTyped, HandlerStep(Lifecycle) PROVE FALSE
<1> DEFINE L == Lifecycle
<1>1. step[L] # "idle"
  BY DEF HandlerStep, ReadRows, InsertCredential, PermitRoles, Probe, CompleteRotation, CommitActive,
         RevokeRetired, RemoveGateway, UndoCredential, UndoRole, EndOperation, GatewayAssumption
<1>2. TaskFits(L, step[L], task[L]) /\ task[L].kind \in {"pause", "resume", "delete"}
  BY <1>1, HandlerAt DEF LifecycleKinds
<1>3. ~NeedsNewCredential(task[L]) /\ task[L].kind \notin ConnectionKinds
  BY <1>2 DEF NeedsNewCredential, ConnectionKinds, WorkerKinds
<1>4. step[L] \notin {"read", "insert", "permit", "probe", "undo", "undrop"}
  BY <1>2, <1>3 DEF TaskFits
<1>5. Lifecycle \notin GatewayWorkers
  BY GatewayAssumption
<1>6. ~(ReadRows(L) \/ InsertCredential(L) \/ PermitRoles(L) \/ Probe(L) \/ UndoCredential(L) \/ UndoRole(L))
  BY <1>4 DEF ReadRows, InsertCredential, PermitRoles, Probe, UndoCredential, UndoRole
<1>7. ~(CompleteRotation(L) \/ CommitActive(L) \/ RevokeRetired(L) \/ RemoveGateway(L))
  BY <1>2, <1>3 DEF CompleteRotation, CommitActive, RevokeRetired, RemoveGateway
<1>8. ~EndOperation(L)
  BY <1>5 DEF EndOperation
<1> QED BY <1>6, <1>7, <1>8 DEF HandlerStep

LEMMA LifecycleKeeps ==
  ASSUME NEW w \in GatewayWorkers, GatewayInv(w), GatewayTyped',
         InstanceBecomesHealthy \/ BeginStop \/ BeginStart \/ BeginDelete \/ LifecycleStep
  PROVE  GatewayInv(w)'
<1> USE DEF NoFault, environment, Fault, lifecycleRest
<1>0. GatewayTyped /\ DeleteIsCondemned /\ IdsDiffer /\ QueueHasTask(w)
  BY DEF GatewayInv
<1>1. UNCHANGED <<queue, issued, denied, leaked, crashes, credential, role>>
  BY DEF InstanceBecomesHealthy, BeginStop, BeginStart, BeginDelete, LifecycleStep, StopInstance, ReopenRoute,
         UndoRoute, RevokeNext, RemoveInstance, EndLifecycle
<1>2. CASE InstanceBecomesHealthy
  <2>1. UNCHANGED <<step, task, condemned>> /\ instance' = "healthy"
    BY <1>2 DEF InstanceBecomesHealthy, lifeVars
  <2>2. DeleteIsCondemned' /\ Bystander(w) /\ IdsDiffer' /\ QueueHasTask(w)'
    BY <1>0, <1>1, <2>1, QueueStays DEF DeleteIsCondemned, Bystander
  <2> QED BY <2>2, BystanderKeeps
<1>3. CASE BeginStop
  <2> DEFINE t == [Idle EXCEPT !.kind = "pause"]
  <2>1. t.kind = "pause"
    BY BegunIsTask DEF LifecycleKinds
  <2>2. PICK s : step' = [step EXCEPT ![Lifecycle] = s] /\ task' = [task EXCEPT ![Lifecycle] = t]
    BY <1>3 DEF BeginStop
  <2>3. condemned' = condemned /\ instance' = instance
    BY <1>3 DEF BeginStop
  <2> HIDE DEF t
  <2> QED BY <1>1, <2>1, <2>2, <2>3, HandlerKeeps
<1>4. CASE BeginStart
  <2> DEFINE t == [Idle EXCEPT !.kind = "resume"]
  <2>1. t.kind = "resume"
    BY BegunIsTask DEF LifecycleKinds
  <2>2. PICK s : step' = [step EXCEPT ![Lifecycle] = s] /\ task' = [task EXCEPT ![Lifecycle] = t]
    BY <1>4 DEF BeginStart
  <2>3. condemned' = condemned /\ instance' = "healthy"
    BY <1>4 DEF BeginStart
  <2> HIDE DEF t
  <2> QED BY <1>1, <2>1, <2>2, <2>3, HandlerKeeps
<1>5. CASE BeginDelete
  <2>1. condemned' = TRUE /\ instance' = instance
    BY <1>5 DEF BeginDelete
  <2>2. PICK s, t : step' = [step EXCEPT ![Lifecycle] = s] /\ task' = [task EXCEPT ![Lifecycle] = t]
    BY <1>5 DEF BeginDelete
  <2> QED BY <1>1, <2>1, <2>2, HandlerKeeps
<1>6. CASE LifecycleStep
  <2>1. /\ step[Lifecycle] # "idle" /\ condemned' = condemned
        /\ instance' = "starting" => instance = "starting"
    BY <1>6 DEF LifecycleStep, StopInstance, ReopenRoute, UndoRoute, RevokeNext, RemoveInstance, EndLifecycle,
                lifeVars
  <2>2. CASE Finish(Lifecycle) \/ \E s : Goto(Lifecycle, s)
    BY <1>1, <2>1, <2>2, HandlerGoesOn
  <2>3. CASE RevokeNext
    <3>1. CASE Goto(Lifecycle, "render")
      BY <2>2, <3>1
    <3>2. CASE ~Goto(Lifecycle, "render")
      <4>1. PICK d : /\ step' = [step EXCEPT ![Lifecycle] = "deny"]
                     /\ task' = [task EXCEPT ![Lifecycle].rest = @ \ {d}, ![Lifecycle].connection = d,
                                             ![Lifecycle].roles = Unrevoked(d)]
        BY <2>3, <3>2 DEF RevokeNext
      <4> DEFINE t == [task[Lifecycle] EXCEPT !.rest = task[Lifecycle].rest \ {d}, !.connection = d,
                                              !.roles = Unrevoked(d)]
      <4>2. task' = [task EXCEPT ![Lifecycle] = t]
        <5>1. Lifecycle \in Actors /\ task = [a \in Actors |-> task[a]]
          BY <1>0 DEF Actors, GatewayTyped, TasksTyped
        <5> QED BY <4>1, <5>1
      <4>3. t.kind = task[Lifecycle].kind
        <5>1. task[Lifecycle] \in Tasks
          BY <1>0, <2>1, HandlerAt
        <5> QED BY <5>1 DEF Tasks
      <4> HIDE DEF t
      <4>4. t.kind = "delete" => condemned'
        BY <1>0, <2>1, <4>3 DEF DeleteIsCondemned
      <4> QED BY <1>1, <2>1, <4>1, <4>2, <4>4, HandlerKeeps
    <3> QED BY <3>1, <3>2
  <2>4. RevokeNext \/ Finish(Lifecycle) \/ \E s : Goto(Lifecycle, s)
    BY <1>6 DEF LifecycleStep, StopInstance, ReopenRoute, UndoRoute, RemoveInstance, EndLifecycle
  <2> QED BY <2>2, <2>3, <2>4
<1> QED BY <1>2, <1>3, <1>4, <1>5, <1>6

\* A failed provision forgets the creations that waited for it; a lapsed lease
\* is the same operation.
LEMMA ProvisionKeeps ==
  ASSUME NEW w \in GatewayWorkers, GatewayInv(w), GatewayTyped', ProvisionFails
  PROVE  GatewayInv(w)'
<1>0. GatewayTyped /\ DeleteIsCondemned /\ IdsDiffer /\ QueueHasTask(w)
  BY DEF GatewayInv
<1>1. /\ UNCHANGED <<instance, step, task, condemned, issued, denied, leaked, crashes, credential, role>>
      /\ instance = "starting" /\ queue' \subseteq queue
      /\ \A q \in queue : q.status # "queued" => q \in queue'
  BY DEF ProvisionFails, Fault, lifeVars
<1>2. IdsDiffer' /\ QueueHasTask(w)' /\ DeleteIsCondemned'
  BY <1>0, <1>1 DEF IdsDiffer, QueueHasTask, DeleteIsCondemned
<1>3. Bystander(w)
  BY <1>1 DEF Bystander
<1> QED BY <1>2, <1>3, BystanderKeeps

LEMMA LeaseKeeps ==
  ASSUME NEW w \in GatewayWorkers, GatewayInv(w), GatewayTyped', NEW q \in queue, LeaseLapses(q)
  PROVE  GatewayInv(w)'
<1> DEFINE p == [q EXCEPT !.status = "lapsed"]
<1>0. GatewayTyped /\ DeleteIsCondemned /\ IdsDiffer /\ QueueHasTask(w)
  BY DEF GatewayInv
<1>1. /\ UNCHANGED <<instance, step, task, condemned, issued, denied, leaked, crashes, credential, role>>
      /\ q.id \notin Busy /\ queue' = (queue \ {q}) \cup {p}
  BY DEF LeaseLapses, SetQueued, NoFault, environment, rowVars, lifeVars
<1>2. p.id = q.id /\ p.kind = q.kind /\ p.connection = q.connection
  BY <1>0, StatusSame DEF GatewayTyped, QueueTyped
<1> HIDE DEF p
<1>3. IdsDiffer' /\ DeleteIsCondemned'
  BY <1>0, <1>1, <1>2 DEF IdsDiffer, DeleteIsCondemned
<1>4. QueueHasTask(w)'
  <2> SUFFICES ASSUME step[w] # "idle"
               PROVE  \E o \in queue' : /\ o.id = task[w].id /\ o.status = "running"
                                        /\ o.connection = task[w].connection /\ o.kind = task[w].asked
    BY <1>1 DEF QueueHasTask
  <2>1. PICK o \in queue : /\ o.id = task[w].id /\ o.status = "running"
                           /\ o.connection = task[w].connection /\ o.kind = task[w].asked
    BY <1>0 DEF QueueHasTask
  <2>2. task[w].id \in Busy
    BY DEF Busy
  <2>3. o # q
    BY <1>1, <2>1, <2>2
  <2> QED BY <1>1, <2>1, <2>3
<1>5. \A o \in queue : \E r \in queue' : r.kind = o.kind /\ r.connection = o.connection
  BY <1>1, <1>2
<1>6. Bystander(w)
  BY <1>1, <1>5 DEF Bystander
<1> QED BY <1>3, <1>4, <1>6, BystanderKeeps

-----------------------------------------------------------------------------
(* The theorems.                                                           *)

LEMMA ActorKeeps ==
  ASSUME NEW w, GatewayWorkers = {w}, GatewayInv(w), GatewayTyped', NEW a \in Actors, ActorStep(a)
  PROVE  GatewayInv(w)'
<1>0. w \in GatewayWorkers /\ GatewayTyped
  BY DEF GatewayInv
<1>1. CASE a = Lifecycle
  <2>1. ~HandlerStep(a)
    BY <1>0, <1>1, HandlerStepIsWorker
  <2>2. CASE DataPlaneStep(a)
    BY <1>0, <1>1, <2>2, HandlerPlaneKeeps
  <2>3. CASE RevocationStep(a)
    BY <1>0, <1>1, <2>3, DeletionKeeps
  <2> QED BY <2>1, <2>2, <2>3 DEF ActorStep
<1>2. CASE a = w
  <2>1. CASE DataPlaneStep(a)
    BY <1>0, <1>2, <2>1, PlanePasses
  <2>2. CASE HandlerStep(a)
    <3>1. CASE ReadRows(a)
      BY <1>0, <1>2, <3>1, ReadKeeps
    <3>2. CASE InsertCredential(a)
      BY <1>0, <1>2, <3>2, InsertKeeps
    <3>3. CASE PermitRoles(a)
      BY <1>0, <1>2, <3>3, RolesStepKeeps
    <3>4. CASE Probe(a) \/ CommitActive(a) \/ RemoveGateway(a)
      BY <1>0, <1>2, <3>4, EndsPass
    <3>5. CASE CompleteRotation(a)
      BY <1>0, <1>2, <3>5, CompleteKeeps
    <3>6. CASE RevokeRetired(a)
      BY <1>0, <1>2, <3>6, RevokeKeeps
    <3>7. CASE UndoCredential(a)
      BY <1>0, <1>2, <3>7, UndoCredentialKeeps
    <3>8. CASE UndoRole(a)
      BY <1>0, <1>2, <3>8, UndoRoleKeeps
    <3>9. CASE EndOperation(a)
      BY <1>0, <1>2, <3>9, EndKeeps
    <3> QED BY <2>2, <3>1, <3>2, <3>3, <3>4, <3>5, <3>6, <3>7, <3>8, <3>9 DEF HandlerStep
  <2>3. CASE RevocationStep(a)
    <3>1. CASE DisableRoles(a) \/ DropRoles(a)
      BY <1>0, <1>2, <3>1, RolesStepKeeps
    <3>2. CASE FinalizeRevocation(a)
      BY <1>0, <1>2, <3>2, RevokeKeeps
    <3>3. CASE CleanupRoute(a)
      BY <1>0, <1>2, <3>3, EndsPass
    <3> QED BY <2>3, <3>1, <3>2, <3>3 DEF RevocationStep
  <2> QED BY <2>1, <2>2, <2>3 DEF ActorStep
<1> QED BY <1>1, <1>2 DEF Actors

LEMMA GatewayInvInit ==
  ASSUME NEW w \in GatewayWorkers, GatewayInit
  PROVE  GatewayInv(w)
<1>1. GatewayTyped
  BY GatewayTypedInit
<1>2. w \in Actors /\ Lifecycle \in Actors
  BY DEF Actors
<1>3. /\ step[w] = "idle" /\ step[Lifecycle] = "idle" /\ queue = {} /\ denied = {}
      /\ \A x \in Credentials : credential[x] = "none" /\ role[x] = "none"
  BY <1>2 DEF GatewayInit
<1>4. IdsDiffer /\ QueueHasTask(w) /\ AskedIs(w) /\ DeleteIsCondemned /\ DeniedIsQuiet(w) /\ EndsQuiet(w)
  BY <1>3 DEF IdsDiffer, QueueHasTask, AskedIs, DeleteIsCondemned, DeniedIsQuiet, EndsQuiet
<1>5. RolesHaveRows /\ RolesNeedEngine /\ RevokedIsSilent(w)
  BY <1>3 DEF RolesHaveRows, RolesNeedEngine, RevokedIsSilent
<1>6. Listed(w) /\ Silenced(w) /\ Admits(w)
  BY <1>3 DEF Listed, Silenced, Admits, FromDenial
<1> QED BY <1>1, <1>4, <1>5, <1>6 DEF GatewayInv

LEMMA GatewayInvStep ==
  ASSUME NEW w, GatewayWorkers = {w}, GatewayInv(w), [GatewayNext]_gatewayVars
  PROVE  GatewayInv(w)'
<1>0. w \in GatewayWorkers /\ GatewayTyped
  BY DEF GatewayInv
<1>1. GatewayTyped'
  BY <1>0, GatewayTypedStep
<1>2. CASE UNCHANGED gatewayVars
  <2>1. UNCHANGED <<instance, condemned, credential, role, queue, step, task, issued, denied, leaked, crashes>>
    BY <1>2 DEF gatewayVars, rowVars, lifeVars, environment
  <2>2. IdsDiffer' /\ QueueHasTask(w)' /\ DeleteIsCondemned' /\ Bystander(w)
    BY <1>0, <2>1, QueueStays DEF GatewayInv, DeleteIsCondemned, Bystander
  <2> QED BY <1>0, <1>1, <2>2, BystanderKeeps
<1>3. CASE \/ QueueDatabaseGatewayProvision \/ QueueDatabaseGatewayTeardown
           \/ \E c \in Connections : ExternalRequest(c) \/ ExpiryLapses(c)
           \/ \E x \in Credentials : GraceLapses(x)
           \/ GatewayClaims
  BY <1>0, <1>1, <1>3, RequestKeeps
<1>4. CASE \E a \in GatewayWorkers : ClaimNextDatabaseGatewayOperation(a)
  BY <1>0, <1>1, <1>4, ClaimKeeps
<1>5. CASE \E a \in Actors : ActorStep(a)
  BY <1>1, <1>5, ActorKeeps
<1>6. CASE InstanceBecomesHealthy \/ BeginStop \/ BeginStart \/ BeginDelete \/ LifecycleStep
  BY <1>0, <1>1, <1>6, LifecycleKeeps
<1>7. CASE ProvisionFails
  BY <1>0, <1>1, <1>7, ProvisionKeeps
<1>8. CASE GatewayCrash
  BY <1>0, <1>1, <1>8, CrashKeeps
<1>9. CASE \E q \in queue : LeaseLapses(q)
  BY <1>0, <1>1, <1>9, LeaseKeeps
<1> QED BY <1>2, <1>3, <1>4, <1>5, <1>6, <1>7, <1>8, <1>9 DEF GatewayNext

\* The invariant of one worker.
THEOREM GatewayInvariant ==
  ASSUME NEW w, GatewayWorkers = {w} PROVE GatewaySpec => []GatewayInv(w)
<1>1. GatewayInit => GatewayInv(w)
  BY GatewayInvInit
<1>2. GatewayInv(w) /\ [GatewayNext]_gatewayVars => GatewayInv(w)'
  BY GatewayInvStep
<1> QED BY <1>1, <1>2, PTL DEF GatewaySpec

LEMMA InvSilences ==
  ASSUME NEW w, GatewayWorkers = {w}, GatewayInv(w) PROVE RevokedRowHasNoLogin
<1> SUFFICES ASSUME NEW x \in Credentials, credential[x] = "revoked", role[x] = "login"
             PROVE  Outlives(x) \/ Working(x[1])
  BY DEF RevokedRowHasNoLogin
<1>1. Outlives(x) \/ Undoing(w, x)
  BY DEF GatewayInv, RevokedIsSilent
<1>2. w \in Actors
  BY DEF Actors
<1> QED BY <1>1, <1>2 DEF Undoing, Working

LEMMA InvDenies ==
  ASSUME NEW w, GatewayWorkers = {w}, GatewayInv(w) PROVE DenialHolds
<1> SUFFICES ASSUME NEW c \in denied, ~Working(c), crashes = 0 \/ Settled(c), NEW g \in Generations,
                    Usable(<<c, g>>)
             PROVE  Outlives(<<c, g>>)
  BY DEF DenialHolds
<1>1. Quiet(c) \/ Reopened(w, c)
  BY DEF GatewayInv, DeniedIsQuiet
<1>2. w \in Actors
  BY DEF Actors
<1>3. ~On(w, c)
  BY <1>2 DEF On, Working
<1>4. ~Reopened(w, c)
  BY <1>3 DEF Reopened, Settled
<1> QED BY <1>1, <1>4 DEF Quiet, Usable

\* With one worker a revoked row leaves no role behind that may log in, unless
\* its best-effort removal was lost or the database itself was deleted.
THEOREM RevokedStaysOut == OneWorker => (GatewaySpec => []RevokedRowHasNoLogin)
<1> SUFFICES ASSUME NEW w, GatewayWorkers = {w} PROVE GatewaySpec => []RevokedRowHasNoLogin
  BY DEF OneWorker
<1>1. GatewayInv(w) => RevokedRowHasNoLogin
  BY InvSilences
<1>2. GatewaySpec => []GatewayInv(w)
  BY GatewayInvariant
<1> QED BY <1>1, <1>2, PTL

\* With one worker a disable, expire or revoke that succeeded keeps clients out
\* until another operation on the connection has ended.
THEOREM DenialStays == OneWorker => (GatewaySpec => []DenialHolds)
<1> SUFFICES ASSUME NEW w, GatewayWorkers = {w} PROVE GatewaySpec => []DenialHolds
  BY DEF OneWorker
<1>1. GatewayInv(w) => DenialHolds
  BY InvDenies
<1>2. GatewaySpec => []GatewayInv(w)
  BY GatewayInvariant
<1> QED BY <1>1, <1>2, PTL
=============================================================================
