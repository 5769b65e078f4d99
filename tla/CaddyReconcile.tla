--------------------------- MODULE CaddyReconcile ---------------------------
(***************************************************************************)
(* How Caddy's configuration follows the database: the API's changes to    *)
(* domains, cutovers, stops and restarts, the reconciler's loop and its    *)
(* synchronous callers, the caddy commands it runs, and restarts of either *)
(* process.                                                                *)
(*                                                                         *)
(* A rendered configuration is the set of <<name, port>> pairs it routes,  *)
(* which is what its hash tells apart.  Left out: the certificate-only     *)
(* site of the database gateway, the control plane's own snippet, and the  *)
(* renaming of the platform domain.                                        *)
(***************************************************************************)
EXTENDS Naturals, FiniteSets

CONSTANTS
  Domains,          \* ids of domain rows
  Names, Services, Ports,
  Loop,             \* the reconciler's own goroutine
  Requests,         \* synchronous callers of Reconcile (an operator's "sync now")
  None,
  SyncAfterMutate,  \* configuration: domain changes notify the reconciler
  Periodic,         \* configuration: the reconcile interval is not 0
  MaxChanges,       \* bound: changes of domains and cutovers
  MaxStops,         \* bound: containers stopped or restarted by an operator
  MaxFaults,        \* bound: failed store calls and failed caddy commands
  MaxRestarts,      \* bound: restarts of Caddy
  MaxBoots          \* bound: restarts of the server

ASSUME CaddyAssumption ==
  /\ Loop \notin Requests
  /\ None \notin Names \cup Ports \cup [name : Names, service : Services]
  /\ \A config \in SUBSET (Names \X Ports) : config # None
  /\ SyncAfterMutate \in BOOLEAN /\ Periodic \in BOOLEAN
  /\ {MaxChanges, MaxStops, MaxFaults, MaxRestarts, MaxBoots} \subseteq Nat

Callers == {Loop} \cup Requests
Configs == SUBSET (Names \X Ports)

VARIABLES
  domain,   \* the domains rows: domain_name and service_id
  state,    \* their publish_state
  upstream, \* per service: host port of its active deployment, is its row RUNNING
  owing,    \* how many writers have committed and not called Notify yet
  notify,   \* the channel r.notify holds a token
  pc, plan, \* per caller of Reconcile: where it is, what it has read
  lastHash, \* r.lastHash, as the configuration it is the hash of
  file,     \* the generated snippet
  running,  \* what Caddy has loaded
  caddyUp,
  up,       \* the server process runs
  changes, stops, faults, restarts, boots

rowVars   == <<domain, state, upstream>>
passVars  == <<pc, plan, lastHash>>
caddyVars == <<file, running, caddyUp>>
counters  == <<changes, stops, faults, restarts, boots>>
vars == <<rowVars, owing, notify, passVars, caddyVars, up, counters>>

Present   == {d \in Domains : domain[d] # None}
Routed(d) == d \in Present /\ upstream[domain[d].service].running
RouteOf(d) == <<domain[d].name, upstream[domain[d].service].port>>

\* What a reconcile pass that starts now would render.
Desired == {RouteOf(d) : d \in {e \in Domains : Routed(e)}}

Holding == {"mark", "write", "reload", "publish", "failed"}
Free    == \A c \in Callers : pc[c] \notin Holding

Unlocked == Free

Plan == [routable : SUBSET Domains, notYet : SUBSET Domains, render : Configs]
NoPlan == [routable |-> {}, notYet |-> {}, render |-> {}]

TypeOK ==
  /\ domain \in [Domains -> {None} \cup [name : Names, service : Services]]
  /\ \A d, e \in Present : domain[d].name = domain[e].name => d = e
  /\ state \in [Domains -> {"none", "published", "unpublished"}]
  /\ \A d \in Domains : state[d] = "none" <=> d \notin Present
  /\ upstream \in [Services -> [port : Ports \cup {None}, running : BOOLEAN]]
  /\ \A s \in Services : upstream[s].running => upstream[s].port # None
  /\ owing \in Nat /\ notify \in BOOLEAN
  /\ pc \in [Callers -> {"off", "wait", "lock"} \cup Holding]
  /\ plan \in [Callers -> Plan]
  /\ lastHash \in {None} \cup Configs
  /\ file \in Configs /\ running \in Configs
  /\ caddyUp \in BOOLEAN /\ up \in BOOLEAN
  /\ changes \in Nat /\ stops \in Nat /\ faults \in Nat
  /\ restarts \in Nat /\ boots \in Nat

Init ==
  /\ domain = [d \in Domains |-> None]
  /\ state = [d \in Domains |-> "none"]
  /\ upstream = [s \in Services |-> [port |-> None, running |-> FALSE]]
  /\ owing = 0 /\ notify = FALSE
  /\ pc = [c \in Callers |-> "off"] /\ plan = [c \in Callers |-> NoPlan]
  /\ lastHash = None /\ file = {} /\ running = {} /\ caddyUp = TRUE
  /\ up = FALSE
  /\ changes = 0 /\ stops = 0 /\ faults = 0 /\ restarts = 0 /\ boots = 0

Fault == faults < MaxFaults /\ faults' = faults + 1

-----------------------------------------------------------------------------
(* What changes the routes.  A writer commits first and then notifies.     *)

\* Stores' writes that are followed by a Notify, when that is configured.
Change(notifies) ==
  /\ up /\ changes < MaxChanges
  /\ changes' = changes + 1
  /\ owing' = IF notifies THEN owing + 1 ELSE owing
  /\ UNCHANGED <<notify, passVars, caddyVars, up, stops, faults, restarts, boots>>

Unused(n, d) == \A e \in Present \ {d} : domain[e].name # n

\* CreateServiceDomain: a row, unpublished by default.
Create(d, n, s) ==
  /\ d \notin Present /\ Unused(n, d)
  /\ domain' = [domain EXCEPT ![d] = [name |-> n, service |-> s]]
  /\ state' = [state EXCEPT ![d] = "unpublished"]
  /\ UNCHANGED upstream
  /\ Change(SyncAfterMutate)

\* UpdateServiceDomain resets publish_state, whether or not the row changes.
Update(d, n, s) ==
  /\ d \in Present /\ Unused(n, d)
  /\ domain' = [domain EXCEPT ![d] = [name |-> n, service |-> s]]
  /\ state' = [state EXCEPT ![d] = "unpublished"]
  /\ UNCHANGED upstream
  /\ Change(SyncAfterMutate)

Delete(d) ==
  /\ d \in Present
  /\ domain' = [domain EXCEPT ![d] = None]
  /\ state' = [state EXCEPT ![d] = "none"]
  /\ UNCHANGED upstream
  /\ Change(SyncAfterMutate)

\* A deploy activates a container on a port of its own.
Cutover(s, p) ==
  /\ \A t \in Services : upstream[t].port # p
  /\ upstream' = [upstream EXCEPT ![s] = [port |-> p, running |-> TRUE]]
  /\ UNCHANGED <<domain, state>>
  /\ Change(TRUE)

\* StopServiceEnvironment and RestartServiceEnvironment write the container
\* row and notify nobody.
StopOrRestart(s) ==
  /\ up /\ stops < MaxStops
  /\ upstream[s].port # None
  /\ upstream' = [upstream EXCEPT ![s].running = ~upstream[s].running]
  /\ stops' = stops + 1
  /\ UNCHANGED <<domain, state, owing, notify, passVars, caddyVars, up,
                 changes, faults, restarts, boots>>

\* Mutant of Notify: an unbuffered channel, only a waiting loop hears.
NotifyWaiting ==
  /\ owing > 0
  /\ owing' = owing - 1
  /\ notify' = (notify \/ pc[Loop] = "wait")
  /\ UNCHANGED <<rowVars, passVars, caddyVars, up, counters>>

\* Reconciler.Notify: a token is left unless one is there already.
Notify ==
  /\ owing > 0
  /\ owing' = owing - 1
  /\ notify' = TRUE
  /\ UNCHANGED <<rowVars, passVars, caddyVars, up, counters>>

-----------------------------------------------------------------------------
(* Reconcile, step by step, by the loop or a request.                      *)

\* The loop's select: a token, or the ticker.
Wake ==
  /\ pc[Loop] = "wait"
  /\ (notify /\ notify' = FALSE) \/ (Periodic /\ UNCHANGED notify)
  /\ pc' = [pc EXCEPT ![Loop] = "lock"]
  /\ UNCHANGED <<rowVars, owing, plan, lastHash, caddyVars, up, counters>>

\* An operator asks for a pass; each request is sent once.
SyncNow(q) ==
  /\ up /\ pc[q] = "wait"
  /\ pc' = [pc EXCEPT ![q] = "lock"]
  /\ UNCHANGED <<rowVars, owing, notify, plan, lastHash, caddyVars, up, counters>>

\* Where a caller goes when its pass is over.
After(c) == IF c = Loop THEN "wait" ELSE "off"

PassOver(c) ==
  /\ pc' = [pc EXCEPT ![c] = After(c)]
  /\ plan' = [plan EXCEPT ![c] = NoPlan]

\* ListDomainRoutes, under the mutex.
ReadRoutes(c) ==
  /\ pc[c] = "lock" /\ Unlocked
  /\ \/ /\ plan' = [plan EXCEPT ![c] =
              [routable |-> {d \in Domains : Routed(d)},
               notYet   |-> {d \in Present : ~Routed(d)},
               render   |-> Desired]]
        /\ pc' = [pc EXCEPT ![c] = "mark"]
        /\ UNCHANGED faults
     \/ Fault /\ PassOver(c)
  /\ UNCHANGED <<rowVars, owing, notify, lastHash, caddyVars, up,
                 changes, stops, restarts, boots>>

\* SetDomainsPublishState: one UPDATE over the ids whose rows still exist.
Set(ids, s) ==
  state' = [d \in Domains |-> IF d \in ids \cap Present THEN s ELSE state[d]]

\* Mutant of Compare: any earlier apply will do, not only the same render.
CompareApplied(c) ==
  IF lastHash # None
  THEN PassOver(c)
  ELSE pc' = [pc EXCEPT ![c] = "write"] /\ UNCHANGED plan

\* The render is what was applied last: nothing to do.
Compare(c) ==
  IF plan[c].render = lastHash
  THEN PassOver(c)
  ELSE pc' = [pc EXCEPT ![c] = "write"] /\ UNCHANGED plan

\* Mutant of Mark: nothing is marked.
MarkNothing(c) ==
  /\ pc[c] = "mark"
  /\ Compare(c)
  /\ UNCHANGED <<rowVars, owing, notify, lastHash, caddyVars, up, counters>>

\* Domains without an upstream are unpublished on every pass; an error is
\* only logged.
Mark(c) ==
  /\ pc[c] = "mark"
  /\ \/ Set(plan[c].notYet, "unpublished") /\ UNCHANGED faults
     \/ Fault /\ UNCHANGED state
  /\ Compare(c)
  /\ UNCHANGED <<domain, upstream, owing, notify, lastHash, caddyVars, up,
                 changes, stops, restarts, boots>>

\* Sync replaces the snippet ...
Write(c) ==
  /\ pc[c] = "write"
  /\ \/ /\ file' = plan[c].render
        /\ pc' = [pc EXCEPT ![c] = "reload"] /\ UNCHANGED faults
     \/ /\ Fault /\ UNCHANGED file /\ pc' = [pc EXCEPT ![c] = "failed"]
  /\ UNCHANGED <<rowVars, owing, notify, plan, lastHash, running, caddyUp, up,
                 changes, stops, restarts, boots>>

\* ... validates and reloads it.  A Caddy that does not run is no error; a
\* request that is abandoned kills the command, whether or not Caddy has
\* taken the configuration by then.
Reload(c) ==
  /\ pc[c] = "reload"
  /\ \/ /\ running' = IF caddyUp THEN file ELSE running
        /\ pc' = [pc EXCEPT ![c] = "publish"] /\ UNCHANGED faults
     \/ /\ Fault /\ pc' = [pc EXCEPT ![c] = "failed"]
        /\ running' \in {running} \cup (IF caddyUp /\ c \in Requests THEN {file} ELSE {})
  /\ UNCHANGED <<rowVars, owing, notify, plan, lastHash, file, caddyUp, up,
                 changes, stops, restarts, boots>>

Publish(c) ==
  /\ pc[c] = "publish"
  /\ \/ Set(plan[c].routable, "published") /\ UNCHANGED faults
     \/ Fault /\ UNCHANGED state
  /\ lastHash' = plan[c].render
  /\ PassOver(c)
  /\ UNCHANGED <<domain, upstream, owing, notify, caddyVars, up,
                 changes, stops, restarts, boots>>

\* A failed Sync unpublishes everything and leaves the hash and the snippet.
SyncFailed(c) ==
  /\ pc[c] = "failed"
  /\ \/ Set(plan[c].routable, "unpublished") /\ UNCHANGED faults
     \/ Fault /\ UNCHANGED state
  /\ PassOver(c)
  /\ UNCHANGED <<domain, upstream, owing, notify, lastHash, caddyVars, up,
                 changes, stops, restarts, boots>>

-----------------------------------------------------------------------------
(* The two processes.                                                      *)

\* Start: the loop reconciles at once; nothing is remembered of a last apply.
Boot ==
  /\ ~up
  /\ up' = TRUE
  /\ pc' = [c \in Callers |-> IF c = Loop THEN "lock" ELSE "wait"]
  /\ UNCHANGED <<rowVars, owing, notify, plan, lastHash, caddyVars, counters>>

\* Shutdown or crash, at any step of a pass.
Down ==
  /\ up /\ boots < MaxBoots
  /\ up' = FALSE /\ boots' = boots + 1
  /\ pc' = [c \in Callers |-> "off"] /\ plan' = [c \in Callers |-> NoPlan]
  /\ lastHash' = None /\ owing' = 0 /\ notify' = FALSE
  /\ UNCHANGED <<rowVars, caddyVars, changes, stops, faults, restarts>>

CaddyStops ==
  /\ caddyUp /\ restarts < MaxRestarts
  /\ caddyUp' = FALSE /\ restarts' = restarts + 1
  /\ UNCHANGED <<rowVars, owing, notify, passVars, file, running, up,
                 changes, stops, faults, boots>>

\* caddy run loads the root configuration, which imports the snippet.
CaddyStarts ==
  /\ ~caddyUp
  /\ caddyUp' = TRUE /\ running' = file
  /\ UNCHANGED <<rowVars, owing, notify, passVars, file, up, counters>>

-----------------------------------------------------------------------------
PassStep(c) ==
  ReadRoutes(c) \/ Mark(c) \/ Write(c) \/ Reload(c) \/ Publish(c) \/ SyncFailed(c)

Next ==
  \/ \E d \in Domains, n \in Names, s \in Services : Create(d, n, s) \/ Update(d, n, s)
  \/ \E d \in Domains : Delete(d)
  \/ \E s \in Services : StopOrRestart(s) \/ \E p \in Ports : Cutover(s, p)
  \/ Notify \/ Wake
  \/ \E q \in Requests : SyncNow(q)
  \/ \E c \in Callers : PassStep(c)
  \/ Boot \/ Down \/ CaddyStops \/ CaddyStarts

Spec == Init /\ [][Next]_vars

(***************************************************************************)
(* Fairness: a handler that wrote goes on to Notify, the loop's select     *)
(* takes what is ready, a pass runs to its end (its store calls and caddy  *)
(* commands return), and systemd restarts both processes.  Nothing forces  *)
(* a change, a request, a fault or a stop.                                 *)
(***************************************************************************)
Fairness ==
  /\ WF_vars(Notify) /\ WF_vars(Wake) /\ WF_vars(Boot) /\ WF_vars(CaddyStarts)
  /\ \A c \in Callers : WF_vars(PassStep(c))

FairSpec == Spec /\ Fairness

-----------------------------------------------------------------------------
(* Properties.                                                             *)

\* While no pass runs, and nothing failed, the hash that
\* lets a pass be skipped is that of what is on disk and of what Caddy runs,
\* whoever ran the passes and however often Caddy restarted
\* (reconciler.go:48, 147-150).
HashIsApplied ==
  Free /\ lastHash # None /\ faults = 0 =>
    file = lastHash /\ (caddyUp => running = lastHash)

\* Nothing is left to do: no pass, no token, and no writer about to notify.
Settled == up /\ pc[Loop] = "wait" /\ Free /\ ~notify /\ owing = 0

\* Once settled, Caddy has the routes of the database, whatever changed while
\* passes ran and whoever ran them: no notification was lost and no pass was
\* skipped that had something to do (reconciler.go:61-66, 147-150).
SettledIsCurrent ==
  Settled /\ faults = 0 /\ stops = 0 /\ caddyUp => running = Desired

\* Once settled, every published domain is routed to its service's upstream,
\* even where a pass published a row that was changed under it
\* (0029_domain_publication_state.sql:10-12).
PublishedIsRouted ==
  Settled /\ faults = 0 /\ stops = 0 /\ caddyUp =>
    \A d \in Domains : state[d] = "published" => Routed(d) /\ RouteOf(d) \in running

\* Caddy ends up with the routes the database says, when the changes cease:
\* no notification is lost between passes, no failed pass and no container
\* nobody announced is forgotten (reconciler.go:26-31, 61-66).  The exceptions
\* are a restart of Caddy and a request that may have been abandoned, each
\* with a reload that failed: FailedReloadHeals is about those.
RoutesConverge ==
  <>[](\/ caddyUp /\ running = Desired
       \/ faults > 0 /\ (restarts > 0 \/ \E q \in Requests : pc[q] = "off"))

\* What config.go:128-130 and reconciler.go:28-30 say of the periodic tick:
\* it heals a failed reload.
FailedReloadHeals == [](faults > 0 => <>(running = Desired))
=============================================================================
