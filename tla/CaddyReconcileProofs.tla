------------------------ MODULE CaddyReconcileProofs ------------------------
(***************************************************************************)
(* Theorems about CaddyReconcile, for every set of domains, services and   *)
(* synchronous callers and every bound.                                    *)
(*                                                                         *)
(* The mutex lets one pass at a time go beyond its reads (OnePass), so the *)
(* skip hash follows what that pass has done (HashInv).  Work is owed from *)
(* a writer's commit to the read of the loop's next pass (Owed); when none *)
(* is, whoever runs a pass has read the rows as they still are, and once   *)
(* the loop waits again its last pass has applied them (CurrentInv).       *)
(***************************************************************************)
EXTENDS CaddyReconcile, TLAPS

Holds(c) == pc[c] \in Holding

OnePass   == \A b, c \in Callers : Holds(b) /\ Holds(c) => b = c
DownIsOff == ~up => \A c \in Callers : pc[c] = "off"
LoopIsOn  == up => pc[Loop] # "off"
PassInv   == OnePass /\ DownIsOff /\ LoopIsOn

Clean == faults = 0

\* The configuration is on disk, and in Caddy if that runs.
Applied(config) == file = config /\ (caddyUp => running = config)

HashInv ==
  Clean =>
    /\ \A c \in Callers : pc[c] # "failed"
    /\ \A c \in Callers : pc[c] = "reload" => file = plan[c].render
    /\ \A c \in Callers : pc[c] = "publish" => Applied(plan[c].render)
    /\ lastHash # None /\ (\A c \in Callers : pc[c] \notin {"reload", "publish"})
         => Applied(lastHash)

\* A pass of the loop is still to come that will read the rows.
Owed == owing > 0 \/ notify \/ pc[Loop] = "lock" \/ ~up

Current(p) ==
  /\ p.routable = {d \in Domains : Routed(d)}
  /\ p.notYet = {d \in Present : ~Routed(d)}
  /\ p.render = Desired

PublishedRoutable == \A d \in Domains : state[d] = "published" => Routed(d)

CurrentInv ==
  SyncAfterMutate /\ Clean /\ stops = 0 /\ ~Owed =>
    /\ \A c \in Callers : Holds(c) => Current(plan[c])
    /\ pc[Loop] # "mark" => PublishedRoutable
    /\ pc[Loop] = "wait" =>
         /\ lastHash = Desired
         /\ \A c \in Callers : Holds(c) => pc[c] = "mark"

\* The inductive invariant.
RouteInv == TypeOK /\ PassInv /\ HashInv /\ CurrentInv

-----------------------------------------------------------------------------
\* The loop and every synchronous request are callers of Reconcile.
LEMMA LoopCalls == Loop \in Callers /\ Requests \subseteq Callers
BY DEF Callers

\* The routes of the rows are pairs of a name and a port.
LEMMA DesiredIsConfig == TypeOK => Desired \in Configs
<1> SUFFICES ASSUME TypeOK, NEW d \in Domains, Routed(d) PROVE RouteOf(d) \in Names \X Ports
  BY DEF Desired, Configs
<1>1. domain[d] \in [name : Names, service : Services]
  BY DEF TypeOK, Routed, Present
<1>2. upstream[domain[d].service] \in [port : Ports \cup {None}, running : BOOLEAN]
  BY <1>1 DEF TypeOK
<1>3. upstream[domain[d].service].port \in Ports
  BY <1>1, <1>2 DEF TypeOK, Routed
<1> QED
  BY <1>1, <1>3 DEF RouteOf

\* The invariant holds when the process has not started yet.
LEMMA InitRouteInv == Init => RouteInv
<1> SUFFICES ASSUME Init PROVE RouteInv
  OBVIOUS
<1> USE LoopCalls, CaddyAssumption DEF Init
<1>1. TypeOK
  BY DEF TypeOK, Present, Configs, Plan, NoPlan, Holding
<1>2. PassInv
  BY DEF PassInv, OnePass, DownIsOff, LoopIsOn, Holds, Holding
<1>3. HashInv
  BY DEF HashInv
<1>4. CurrentInv
  BY DEF CurrentInv, Owed
<1> QED
  BY <1>1, <1>2, <1>3, <1>4 DEF RouteInv

-----------------------------------------------------------------------------
\* A write of one row, to something no other row is named like.
LEMMA RowWrite ==
  ASSUME TypeOK, NEW d \in Domains, NEW r \in {None} \cup [name : Names, service : Services],
         r # None => Unused(r.name, d),
         domain' = [domain EXCEPT ![d] = r],
         state' = [state EXCEPT ![d] = IF r = None THEN "none" ELSE "unpublished"]
  PROVE  /\ domain' \in [Domains -> {None} \cup [name : Names, service : Services]]
         /\ \A e, f \in Present' : domain'[e].name = domain'[f].name => e = f
         /\ state' \in [Domains -> {"none", "published", "unpublished"}]
         /\ \A e \in Domains : state'[e] = "none" <=> e \notin Present'
<1> USE DEF TypeOK, Present
<1>1. domain' \in [Domains -> {None} \cup [name : Names, service : Services]]
  OBVIOUS
<1>2. \A e \in Domains : domain'[e] = IF e = d THEN r ELSE domain[e]
  OBVIOUS
<1>3. ASSUME NEW e \in Present', NEW f \in Present', domain'[e].name = domain'[f].name, e # f
      PROVE  FALSE
  <2>1. CASE e = d
    BY <1>2, <1>3, <2>1 DEF Unused
  <2>2. CASE f = d
    BY <1>2, <1>3, <2>2 DEF Unused
  <2>3. CASE e # d /\ f # d
    BY <1>2, <1>3, <2>3
  <2> QED
    BY <2>1, <2>2, <2>3
<1>4. state' \in [Domains -> {"none", "published", "unpublished"}]
  OBVIOUS
<1>5. \A e \in Domains : state'[e] = "none" <=> e \notin Present'
  BY <1>2
<1> QED
  BY <1>1, <1>3, <1>4, <1>5

\* A write of publish states neither adds nor drops one.
LEMMA SetKeepsType ==
  ASSUME TypeOK, NEW ids, NEW s \in {"published", "unpublished"}, Set(ids, s),
         UNCHANGED domain
  PROVE  /\ state' \in [Domains -> {"none", "published", "unpublished"}]
         /\ \A d \in Domains : state'[d] = "none" <=> d \notin Present'
<1>1. Present' = Present
  BY DEF Present
<1> QED
  BY <1>1 DEF TypeOK, Set, Present

\* Every step keeps the types.
LEMMA TypeOKStep == TypeOK /\ [Next]_vars => TypeOK'
<1> SUFFICES ASSUME TypeOK, [Next]_vars PROVE TypeOK'
  OBVIOUS
<1> USE LoopCalls, CaddyAssumption DEF rowVars, passVars, caddyVars, counters
<1> DEFINE Rows ==
      /\ domain \in [Domains -> {None} \cup [name : Names, service : Services]]
      /\ \A d, e \in Present : domain[d].name = domain[e].name => d = e
      /\ state \in [Domains -> {"none", "published", "unpublished"}]
      /\ \A d \in Domains : state[d] = "none" <=> d \notin Present
<1>0. ASSUME UNCHANGED <<domain, state>> PROVE Rows'
  <2>1. Present' = Present
    BY <1>0 DEF Present
  <2> QED
    BY <1>0, <2>1 DEF TypeOK
<1> HIDE DEF Rows
<1>1. CASE UNCHANGED vars
  BY <1>1, <1>0 DEF TypeOK, vars, Rows
<1>2. ASSUME NEW d \in Domains, NEW n \in Names, NEW s \in Services,
             Create(d, n, s) \/ Update(d, n, s)
      PROVE  TypeOK'
  <2> DEFINE r == [name |-> n, service |-> s]
  <2>1. r \in [name : Names, service : Services] /\ r.name = n
    OBVIOUS
  <2>2. state' = [state EXCEPT ![d] = IF r = None THEN "none" ELSE "unpublished"]
    BY <1>2, <2>1 DEF Create, Update
  <2>3. Unused(r.name, d) /\ domain' = [domain EXCEPT ![d] = r]
    BY <1>2, <2>1 DEF Create, Update
  <2> HIDE DEF r
  <2>4. /\ domain' \in [Domains -> {None} \cup [name : Names, service : Services]]
        /\ \A e, f \in Present' : domain'[e].name = domain'[f].name => e = f
        /\ state' \in [Domains -> {"none", "published", "unpublished"}]
        /\ \A e \in Domains : state'[e] = "none" <=> e \notin Present'
    BY <2>1, <2>2, <2>3, RowWrite
  <2> QED
    BY <1>2, <2>4 DEF TypeOK, Create, Update, Change
<1>3. ASSUME NEW d \in Domains, Delete(d) PROVE TypeOK'
  <2>1. /\ domain' \in [Domains -> {None} \cup [name : Names, service : Services]]
        /\ \A e, f \in Present' : domain'[e].name = domain'[f].name => e = f
        /\ state' \in [Domains -> {"none", "published", "unpublished"}]
        /\ \A e \in Domains : state'[e] = "none" <=> e \notin Present'
    BY <1>3, RowWrite DEF Delete
  <2> QED
    BY <1>3, <2>1 DEF TypeOK, Delete, Change
<1>4. ASSUME NEW s \in Services, NEW p \in Ports, Cutover(s, p) PROVE TypeOK'
  BY <1>4, <1>0 DEF TypeOK, Cutover, Change, Rows
<1>5. ASSUME NEW s \in Services, StopOrRestart(s) PROVE TypeOK'
  <2>1. Rows'
    BY <1>5, <1>0 DEF StopOrRestart
  <2>2. upstream' \in [Services -> [port : Ports \cup {None}, running : BOOLEAN]]
    BY <1>5 DEF TypeOK, StopOrRestart
  <2>3. \A t \in Services : upstream'[t].running => upstream'[t].port # None
    BY <1>5 DEF TypeOK, StopOrRestart
  <2> QED
    BY <1>5, <2>1, <2>2, <2>3 DEF TypeOK, StopOrRestart, Rows
<1>6. CASE Notify \/ Wake
  <2>1. Rows'
    BY <1>6, <1>0 DEF Notify, Wake
  <2>2. CASE Notify
    BY <2>1, <2>2 DEF TypeOK, Notify, Rows
  <2>3. CASE Wake
    BY <2>1, <2>3 DEF TypeOK, Wake, Rows
  <2> QED
    BY <1>6, <2>2, <2>3
<1>7. ASSUME NEW q \in Requests, SyncNow(q) PROVE TypeOK'
  BY <1>7, <1>0 DEF TypeOK, SyncNow, Rows
<1>8. ASSUME NEW c \in Callers, PassStep(c) PROVE TypeOK'
  <2> USE DEF PassOver, After, Fault
  <2>1. NoPlan \in Plan
    BY DEF NoPlan, Plan, Configs
  <2>2. plan[c].render \in Configs
    BY DEF TypeOK, Plan
  <2>3. CASE ReadRoutes(c)
    <3>1. [routable |-> {d \in Domains : Routed(d)}, notYet |-> {d \in Present : ~Routed(d)},
           render |-> Desired] \in Plan
      BY DesiredIsConfig DEF Plan, Present
    <3>2. Rows'
      BY <2>3, <1>0 DEF ReadRoutes
    <3>3. pc' \in [Callers -> {"off", "wait", "lock"} \cup Holding]
      BY <2>3 DEF TypeOK, ReadRoutes, Holding
    <3>4. plan' \in [Callers -> Plan]
      BY <2>1, <2>3, <3>1 DEF TypeOK, ReadRoutes
    <3> QED
      BY <2>3, <3>2, <3>3, <3>4 DEF TypeOK, ReadRoutes, Rows
  <2>4. CASE Mark(c)
    <3>1. Rows'
      <4>1. CASE UNCHANGED state
        BY <2>4, <4>1, <1>0 DEF Mark
      <4>2. CASE Set(plan[c].notYet, "unpublished")
        BY <2>4, <4>2, SetKeepsType DEF Mark, TypeOK, Present, Rows
      <4> QED
        BY <2>4, <4>1, <4>2 DEF Mark
    <3>2. pc' \in [Callers -> {"off", "wait", "lock"} \cup Holding] /\ plan' \in [Callers -> Plan]
      BY <2>1, <2>4 DEF TypeOK, Mark, Compare, Holding
    <3> QED
      BY <2>4, <3>1, <3>2 DEF TypeOK, Mark, Rows
  <2>5. CASE Write(c)
    BY <2>2, <2>5, <1>0 DEF TypeOK, Write, Holding, Rows
  <2>6. CASE Reload(c)
    BY <2>6, <1>0 DEF TypeOK, Reload, Holding, Rows
  <2>7. CASE Publish(c) \/ SyncFailed(c)
    <3>1. Rows'
      <4>1. CASE UNCHANGED state
        BY <2>7, <4>1, <1>0 DEF Publish, SyncFailed
      <4>2. ASSUME NEW s \in {"published", "unpublished"}, Set(plan[c].routable, s) PROVE Rows'
        BY <2>7, <4>2, SetKeepsType DEF Publish, SyncFailed, TypeOK, Present, Rows
      <4> QED
        BY <2>7, <4>1, <4>2 DEF Publish, SyncFailed
    <3>2. pc' \in [Callers -> {"off", "wait", "lock"} \cup Holding] /\ plan' \in [Callers -> Plan]
      BY <2>1, <2>7 DEF TypeOK, Publish, SyncFailed
    <3> QED
      BY <2>2, <2>7, <3>1, <3>2 DEF TypeOK, Publish, SyncFailed, Rows
  <2> QED
    BY <1>8, <2>3, <2>4, <2>5, <2>6, <2>7 DEF PassStep
<1>9. CASE Boot \/ Down
  <2>1. Rows'
    BY <1>9, <1>0 DEF Boot, Down
  <2>2. CASE Boot
    BY <2>1, <2>2 DEF TypeOK, Boot, Rows
  <2>3. CASE Down
    <3>1. NoPlan \in Plan
      BY DEF NoPlan, Plan, Configs
    <3>2. boots' \in Nat /\ owing' \in Nat
      BY <2>3 DEF TypeOK, Down
    <3>3. notify' \in BOOLEAN /\ up' \in BOOLEAN
      BY <2>3 DEF Down
    <3> QED
      BY <2>1, <2>3, <3>1, <3>2, <3>3 DEF TypeOK, Down, Rows
  <2> QED
    BY <1>9, <2>2, <2>3
<1>10. CASE CaddyStops \/ CaddyStarts
  <2>1. Rows'
    BY <1>10, <1>0 DEF CaddyStops, CaddyStarts
  <2>2. CASE CaddyStops
    <3>1. restarts' \in Nat
      BY <2>2 DEF TypeOK, CaddyStops
    <3>2. caddyUp' \in BOOLEAN
      BY <2>2 DEF CaddyStops
    <3> QED
      BY <2>1, <2>2, <3>1, <3>2 DEF TypeOK, CaddyStops, Rows
  <2>3. CASE CaddyStarts
    BY <2>1, <2>3 DEF TypeOK, CaddyStarts, Rows
  <2> QED
    BY <1>10, <2>2, <2>3
<1> QED
  BY <1>1, <1>2, <1>3, <1>4, <1>5, <1>6, <1>7, <1>8, <1>9, <1>10 DEF Next

-----------------------------------------------------------------------------
\* How a step of a pass moves its caller, and that it moves nobody else.
LEMMA PassStepShape ==
  ASSUME TypeOK, NEW c \in Callers, PassStep(c)
  PROVE  /\ (pc[c] = "lock" /\ Free) \/ Holds(c)
         /\ pc'[c] \in Holding \cup {After(c)}
         /\ \A e \in Callers \ {c} : pc'[e] = pc[e] /\ plan'[e] = plan[e]
         /\ UNCHANGED <<domain, upstream, owing, notify, caddyUp, up, stops>>
<1> USE DEF rowVars, passVars, caddyVars, counters, Holds, Holding, PassOver, TypeOK
<1>1. CASE ReadRoutes(c)
  BY <1>1 DEF ReadRoutes, Unlocked
<1>2. CASE Mark(c)
  BY <1>2 DEF Mark, Compare
<1>3. CASE Write(c) \/ Reload(c)
  BY <1>3 DEF Write, Reload
<1>4. CASE Publish(c) \/ SyncFailed(c)
  BY <1>4 DEF Publish, SyncFailed
<1> QED
  BY <1>1, <1>2, <1>3, <1>4 DEF PassStep

\* No step lets a second pass beyond its reads.
LEMMA PassInvStep == TypeOK /\ PassInv /\ [Next]_vars => PassInv'
<1> SUFFICES ASSUME TypeOK, PassInv, [Next]_vars PROVE PassInv'
  OBVIOUS
<1> USE LoopCalls, CaddyAssumption
        DEF PassInv, OnePass, DownIsOff, LoopIsOn, Holds, rowVars, passVars, caddyVars, counters
<1>1. CASE UNCHANGED <<pc, up>>
  BY <1>1
<1>2. CASE Wake
  BY <1>2 DEF Wake, Holding, TypeOK
<1>3. ASSUME NEW q \in Requests, SyncNow(q) PROVE PassInv'
  BY <1>3 DEF SyncNow, Holding, TypeOK
<1>4. ASSUME NEW c \in Callers, PassStep(c) PROVE PassInv'
  <2>1. /\ (pc[c] = "lock" /\ Free) \/ Holds(c)
        /\ pc'[c] \in Holding \cup {After(c)}
        /\ \A e \in Callers \ {c} : pc'[e] = pc[e]
        /\ UNCHANGED up
    BY <1>4, PassStepShape
  <2>2. \A e \in Callers \ {c} : ~ Holds(e)
    BY <2>1 DEF Free
  <2>3. up
    BY <2>1 DEF Holding
  <2>4. After(Loop) = "wait"
    BY DEF After
  <2> QED
    BY <2>1, <2>2, <2>3, <2>4 DEF Holding
<1>5. CASE Boot \/ Down
  BY <1>5 DEF Boot, Down, Holding
<1>6. CASE CaddyStops \/ CaddyStarts \/ Notify
  BY <1>6, <1>1 DEF CaddyStops, CaddyStarts, Notify
<1> QED
  BY <1>1, <1>2, <1>3, <1>4, <1>5, <1>6
     DEF Next, vars, Create, Update, Delete, Cutover, StopOrRestart, Change

\* The hash and the files follow the one pass that runs.
LEMMA HashInvStep == TypeOK /\ PassInv /\ HashInv /\ [Next]_vars => HashInv'
<1> SUFFICES ASSUME TypeOK, PassInv, HashInv, [Next]_vars PROVE HashInv'
  OBVIOUS
<1> USE LoopCalls, CaddyAssumption
        DEF Clean, Applied, rowVars, passVars, caddyVars, counters
<1>1. CASE UNCHANGED <<passVars, caddyVars, faults>>
  BY <1>1 DEF HashInv
<1>2. CASE Wake
  BY <1>2 DEF HashInv, Wake, TypeOK
<1>3. ASSUME NEW q \in Requests, SyncNow(q) PROVE HashInv'
  BY <1>3 DEF HashInv, SyncNow, TypeOK
<1>4. ASSUME NEW c \in Callers, PassStep(c) PROVE HashInv'
  <2>1. /\ (pc[c] = "lock" /\ Free) \/ Holds(c)
        /\ \A e \in Callers \ {c} : pc'[e] = pc[e] /\ plan'[e] = plan[e]
    BY <1>4, PassStepShape
  <2>2. \A e \in Callers \ {c} : ~ Holds(e) /\ pc'[e] \notin Holding
    BY <2>1 DEF Free, Holds, PassInv, OnePass
  <2>3. Fault => ~ Clean'
    BY DEF Fault, TypeOK
  <2>4. After(c) \notin Holding
    BY DEF After, Holding
  <2> USE <2>1, <2>2, <2>3, <2>4 DEF HashInv, Holds, Holding, PassOver
  <2>5. CASE ReadRoutes(c)
    BY <2>5 DEF ReadRoutes, TypeOK
  <2>6. CASE Mark(c)
    BY <2>6 DEF Mark, Compare, TypeOK
  <2>7. CASE Write(c)
    BY <2>7 DEF Write, TypeOK
  <2>8. CASE Reload(c)
    BY <2>8 DEF Reload, TypeOK
  <2>9. CASE Publish(c)
    BY <2>9 DEF Publish, TypeOK
  <2>10. CASE SyncFailed(c)
    BY <2>10 DEF SyncFailed, TypeOK
  <2> QED
    BY <1>4, <2>5, <2>6, <2>7, <2>8, <2>9, <2>10 DEF PassStep
<1>5. CASE Boot
  BY <1>5 DEF HashInv, Boot, PassInv, DownIsOff, TypeOK
<1>6. CASE Down
  BY <1>6 DEF HashInv, Down
<1>7. CASE CaddyStops \/ CaddyStarts
  BY <1>7 DEF HashInv, CaddyStops, CaddyStarts
<1> QED
  BY <1>1, <1>2, <1>3, <1>4, <1>5, <1>6, <1>7
     DEF Next, vars, Create, Update, Delete, Cutover, StopOrRestart, Change, Notify

\* Whoever changes rows owes a pass; a pass that is not owed has read them as they are.
LEMMA CurrentInvStep ==
  TypeOK /\ PassInv /\ HashInv /\ CurrentInv /\ [Next]_vars => CurrentInv'
<1> SUFFICES ASSUME TypeOK, PassInv, HashInv, CurrentInv, [Next]_vars,
                    SyncAfterMutate, Clean', stops' = 0, ~Owed'
             PROVE  /\ \A c \in Callers : Holds(c)' => Current(plan[c])'
                    /\ pc'[Loop] # "mark" => PublishedRoutable'
                    /\ pc'[Loop] = "wait" =>
                         /\ lastHash' = Desired'
                         /\ \A c \in Callers : Holds(c)' => pc'[c] = "mark"
  BY DEF CurrentInv
<1> DEFINE Goal == /\ \A c \in Callers : Holds(c)' => Current(plan[c])'
                   /\ pc'[Loop] # "mark" => PublishedRoutable'
                   /\ pc'[Loop] = "wait" =>
                        /\ lastHash' = Desired'
                        /\ \A c \in Callers : Holds(c)' => pc'[c] = "mark"
<1> USE LoopCalls, CaddyAssumption DEF Clean, rowVars, passVars, caddyVars, counters
<1>0. ASSUME UNCHANGED <<domain, upstream>>
      PROVE  /\ Present' = Present /\ Desired' = Desired
             /\ \A d \in Domains : Routed(d)' = Routed(d)
             /\ {d \in Domains : Routed(d)}' = {d \in Domains : Routed(d)}
             /\ {d \in Present : ~Routed(d)}' = {d \in Present : ~Routed(d)}
  <2>1. Present' = Present
    BY <1>0 DEF Present
  <2>2. \A d \in Domains : Routed(d)' = Routed(d) /\ RouteOf(d)' = RouteOf(d)
    BY <1>0, <2>1 DEF Routed, RouteOf
  <2>3. {d \in Domains : Routed(d)}' = {d \in Domains : Routed(d)}
    BY <2>2
  <2>4. {d \in Present : ~Routed(d)}' = {d \in Present : ~Routed(d)}
    <3>1. Present' \subseteq Domains
      BY <2>1 DEF Present
    <3> QED
      BY <2>1, <2>2, <3>1
  <2> QED
    BY <1>0, <2>1, <2>2, <2>3, <2>4 DEF Desired
<1>1. CASE UNCHANGED <<rowVars, owing, notify, passVars, up, stops, faults>>
  <2>1. ~Owed /\ stops = 0 /\ Clean
    BY <1>1 DEF Owed
  <2> QED
    <3>1. /\ Present' = Present /\ Desired' = Desired
          /\ \A d \in Domains : Routed(d)' = Routed(d)
          /\ {d \in Domains : Routed(d)}' = {d \in Domains : Routed(d)}
          /\ {d \in Present : ~Routed(d)}' = {d \in Present : ~Routed(d)}
      BY <1>0, <1>1
    <3>2. \A c \in Callers : Holds(c)' => Current(plan[c])'
      BY <1>1, <2>1, <3>1 DEF CurrentInv, Holds, Current
    <3>3. pc'[Loop] # "mark" => PublishedRoutable'
      BY <1>1, <2>1, <3>1 DEF CurrentInv, PublishedRoutable
    <3> QED
      BY <1>1, <2>1, <3>1, <3>2, <3>3 DEF CurrentInv, Holds
<1>2. CASE \/ \E d \in Domains, n \in Names, s \in Services : Create(d, n, s) \/ Update(d, n, s)
           \/ \E d \in Domains : Delete(d)
           \/ \E s \in Services : \E p \in Ports : Cutover(s, p)
  <2>1. owing' = owing + 1
    BY <1>2 DEF Create, Update, Delete, Cutover, Change
  <2> QED
    BY <2>1 DEF Owed, TypeOK
<1>3. ASSUME NEW s \in Services, StopOrRestart(s) PROVE Goal
  BY <1>3 DEF StopOrRestart, TypeOK
<1>4. CASE Notify \/ Wake
  BY <1>4 DEF Notify, Wake, Owed, TypeOK
<1>5. ASSUME NEW q \in Requests, SyncNow(q) PROVE Goal
  <2>1. ~Owed /\ stops = 0 /\ Clean
    BY <1>5 DEF Owed, SyncNow, TypeOK
  <2>2. \A c \in Callers : Holds(c)' => Holds(c) /\ pc'[c] = pc[c]
    BY <1>5 DEF Holds, Holding, SyncNow, TypeOK
  <2>3. pc'[Loop] = pc[Loop]
    BY <1>5 DEF SyncNow, TypeOK
  <2> QED
    <3>1. /\ Present' = Present /\ Desired' = Desired
          /\ \A d \in Domains : Routed(d)' = Routed(d)
          /\ {d \in Domains : Routed(d)}' = {d \in Domains : Routed(d)}
          /\ {d \in Present : ~Routed(d)}' = {d \in Present : ~Routed(d)}
      BY <1>0, <1>5 DEF SyncNow
    <3>2. UNCHANGED <<state, plan, lastHash>>
      BY <1>5 DEF SyncNow
    <3>3. \A c \in Callers : Holds(c)' => Current(plan[c])'
      BY <2>1, <2>2, <3>1, <3>2 DEF CurrentInv, Current
    <3>4. pc'[Loop] # "mark" => PublishedRoutable'
      BY <2>1, <2>3, <3>1, <3>2 DEF CurrentInv, PublishedRoutable
    <3> QED
      BY <2>1, <2>2, <2>3, <3>1, <3>2, <3>3, <3>4 DEF CurrentInv
<1>6. ASSUME NEW c \in Callers, PassStep(c) PROVE Goal
  <2>1. /\ (pc[c] = "lock" /\ Free) \/ Holds(c)
        /\ pc'[c] \in Holding \cup {After(c)}
        /\ \A e \in Callers \ {c} : pc'[e] = pc[e] /\ plan'[e] = plan[e]
        /\ UNCHANGED <<domain, upstream, owing, notify, up, stops>>
    BY <1>6, PassStepShape
  <2>2. \A e \in Callers \ {c} : ~ Holds(e) /\ ~ Holds(e)'
    BY <2>1 DEF Free, Holds, PassInv, OnePass
  <2>3. UNCHANGED faults /\ Clean
    BY <1>6 DEF PassStep, ReadRoutes, Mark, Write, Reload, Publish, SyncFailed, Fault, TypeOK
  <2>4. pc[c] # "failed"
    BY <2>3 DEF HashInv
  <2>5. ~Owed \/ (c = Loop /\ pc[c] = "lock")
    BY <2>1 DEF Owed
  <2>6. c # Loop => pc[Loop] = "wait" /\ pc'[Loop] = "wait"
    BY <2>1, <2>2, <2>5 DEF PassInv, LoopIsOn, Owed, Holds, Holding, TypeOK
  <2>7. /\ Present' = Present /\ Desired' = Desired
        /\ \A d \in Domains : Routed(d)' = Routed(d)
        /\ {d \in Domains : Routed(d)}' = {d \in Domains : Routed(d)}
        /\ {d \in Present : ~Routed(d)}' = {d \in Present : ~Routed(d)}
    BY <1>0, <2>1
  <2>8. After(Loop) = "wait" /\ After(c) \notin Holding
    BY DEF After, Holding
  <2> DEFINE Marks == pc'[Loop] # "mark" => PublishedRoutable'
             Waits == pc'[Loop] = "wait" =>
                        lastHash' = Desired' /\ (Holds(c)' => pc'[c] = "mark")
             Reads == Holds(c)' => Current(plan[c])'
  <2>9. SUFFICES Reads /\ Marks /\ Waits
    BY <2>2
  <2>10. Holds(c) => /\ ~Owed /\ Current(plan[c])
                     /\ pc[Loop] # "mark" => PublishedRoutable
                     /\ c # Loop => lastHash = Desired /\ pc[c] = "mark"
    BY <2>1, <2>3, <2>5, <2>6 DEF CurrentInv, Holds, Holding
  <2>11. ASSUME Current(plan[c]), UNCHANGED plan PROVE Reads
    BY <2>7, <2>11 DEF Current
  <2>12. ASSUME PublishedRoutable, UNCHANGED state PROVE Marks
    BY <2>7, <2>12 DEF PublishedRoutable
  <2>13. CASE ReadRoutes(c)
    <3>1. /\ plan'[c] = [routable |-> {d \in Domains : Routed(d)},
                         notYet |-> {d \in Present : ~Routed(d)}, render |-> Desired]
          /\ pc'[c] = "mark" /\ UNCHANGED <<state, lastHash>>
      BY <2>3, <2>13 DEF ReadRoutes, Fault, TypeOK
    <3>2. Reads
      BY <2>7, <3>1 DEF Current
    <3>3. CASE c = Loop
      BY <3>1, <3>2, <3>3
    <3>4. CASE c # Loop
      <4>1. PublishedRoutable /\ lastHash = Desired
        BY <2>3, <2>5, <2>6, <2>1, <3>4 DEF CurrentInv
      <4> QED
        BY <2>7, <2>12, <3>1, <3>2, <4>1
    <3> QED
      BY <3>3, <3>4
  <2>14. CASE Mark(c)
    <3>1. /\ Holds(c) /\ Set(plan[c].notYet, "unpublished") /\ UNCHANGED lastHash
          /\ pc[c] = "mark"
      BY <2>3, <2>14 DEF Mark, Fault, TypeOK, Holds, Holding
    <3>2. Current(plan[c])
      BY <2>10, <3>1
    <3>3. PublishedRoutable'
      <4> SUFFICES ASSUME NEW d \in Domains, state'[d] = "published" PROVE Routed(d)
        BY <2>7 DEF PublishedRoutable
      <4>1. d \notin plan[c].notYet \cap Present /\ state[d] = "published"
        BY <3>1 DEF Set
      <4>2. d \in Present
        BY <4>1 DEF TypeOK
      <4> QED
        BY <3>2, <4>1, <4>2 DEF Current
    <3>4. CASE plan[c].render = lastHash
      <4>1. pc'[c] = After(c) /\ lastHash' = Desired
        BY <2>14, <3>1, <3>2, <3>4 DEF Mark, Compare, PassOver, TypeOK, Current
      <4> QED
        BY <2>7, <2>8, <3>3, <4>1 DEF Holds
    <3>5. CASE plan[c].render # lastHash
      <4>1. pc'[c] = "write" /\ UNCHANGED plan
        BY <2>14, <3>5 DEF Mark, Compare, TypeOK
      <4>2. c = Loop
        BY <2>10, <3>1, <3>2, <3>5 DEF Current
      <4> QED
        BY <2>11, <3>2, <3>3, <4>1, <4>2
    <3> QED
      BY <3>4, <3>5
  <2>15. CASE Write(c) \/ Reload(c)
    <3>1. /\ Holds(c) /\ pc[c] # "mark" /\ pc'[c] \in Holding \ {"mark"}
          /\ UNCHANGED <<state, plan>>
      BY <2>15 DEF Write, Reload, Holds, Holding, TypeOK
    <3>2. c = Loop /\ Current(plan[c]) /\ PublishedRoutable
      BY <2>10, <3>1
    <3> QED
      BY <2>11, <2>12, <3>1, <3>2 DEF Holding
  <2>16. CASE Publish(c)
    <3>1. /\ Holds(c) /\ pc[c] # "mark" /\ pc'[c] = After(c)
          /\ Set(plan[c].routable, "published") /\ lastHash' = plan[c].render
      BY <2>3, <2>16 DEF Publish, PassOver, Fault, Holds, Holding, TypeOK
    <3>2. c = Loop /\ Current(plan[c]) /\ PublishedRoutable
      BY <2>10, <3>1
    <3>3. PublishedRoutable'
      BY <2>7, <3>1, <3>2 DEF PublishedRoutable, Set, Current
    <3> QED
      BY <2>7, <2>8, <3>1, <3>2, <3>3 DEF Current, Holds
  <2>17. CASE SyncFailed(c)
    BY <2>4, <2>17 DEF SyncFailed
  <2> QED
    BY <1>6, <2>13, <2>14, <2>15, <2>16, <2>17 DEF PassStep
<1>7. CASE Boot \/ Down
  BY <1>7 DEF Boot, Down, Owed
<1>8. CASE CaddyStops \/ CaddyStarts
  BY <1>1, <1>8 DEF CaddyStops, CaddyStarts
<1> QED
  BY <1>1, <1>2, <1>3, <1>4, <1>5, <1>6, <1>7, <1>8 DEF Next, vars

\* Together the four parts are inductive.
LEMMA RouteInvStep == RouteInv /\ [Next]_vars => RouteInv'
BY TypeOKStep, PassInvStep, HashInvStep, CurrentInvStep DEF RouteInv

\* The inductive invariant holds of every reachable state.
THEOREM RouteInvariant == Spec => []RouteInv
<1>1. Init => RouteInv
  BY InitRouteInv
<1>2. RouteInv /\ [Next]_vars => RouteInv'
  BY RouteInvStep
<1> QED
  BY <1>1, <1>2, PTL DEF Spec

\* The variables keep their types, no two domains get one name, and a row has
\* a publish state exactly as long as it exists.
THEOREM CaddyTypeCorrect == Spec => []TypeOK
<1>1. RouteInv => TypeOK
  BY DEF RouteInv
<1> QED
  BY <1>1, RouteInvariant, PTL

\* The hash that lets a pass skip is that of what is on disk and in Caddy, for
\* any number of callers, passes and restarts.
THEOREM HashStaysApplied == Spec => []HashIsApplied
<1>1. RouteInv => HashIsApplied
  BY DEF RouteInv, HashInv, HashIsApplied, Clean, Applied, Free, Holding
<1> QED
  BY <1>1, RouteInvariant, PTL

\* When domain changes notify, a settled reconciler has brought Caddy to the
\* routes of the database.
THEOREM SettledStaysCurrent ==
  ASSUME SyncAfterMutate
  PROVE  Spec => []SettledIsCurrent
<1>1. RouteInv => SettledIsCurrent
  <2> SUFFICES ASSUME RouteInv, Settled, faults = 0, stops = 0, caddyUp
               PROVE  running = Desired
    BY DEF SettledIsCurrent
  <2>1. lastHash = Desired
    BY LoopCalls DEF RouteInv, CurrentInv, Clean, Owed, Settled, TypeOK
  <2>2. lastHash # None => running = lastHash
    BY DEF RouteInv, HashInv, Clean, Applied, Settled, Free, Holding
  <2>3. Desired # None
    BY DesiredIsConfig, CaddyAssumption DEF RouteInv, Configs
  <2> QED
    BY <2>1, <2>2, <2>3
<1> QED
  BY <1>1, RouteInvariant, PTL

\* ... and what it has published is routed, even where a pass published rows
\* that were changed under it.
THEOREM PublishedStaysRouted ==
  ASSUME SyncAfterMutate
  PROVE  Spec => []PublishedIsRouted
<1>1. RouteInv /\ SettledIsCurrent => PublishedIsRouted
  <2> SUFFICES ASSUME RouteInv, SettledIsCurrent, Settled, faults = 0, stops = 0, caddyUp,
                      NEW d \in Domains, state[d] = "published"
               PROVE  Routed(d) /\ RouteOf(d) \in running
    BY DEF PublishedIsRouted
  <2>1. Routed(d)
    BY LoopCalls DEF RouteInv, CurrentInv, PublishedRoutable, Clean, Owed, Settled, TypeOK
  <2>2. running = Desired
    BY DEF SettledIsCurrent
  <2> QED
    BY <2>1, <2>2 DEF Desired
<1> QED
  BY <1>1, RouteInvariant, SettledStaysCurrent, PTL
=============================================================================
