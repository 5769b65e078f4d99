---------------------------- MODULE PlatformDomain ----------------------------
(***************************************************************************)
(* The platform domain: onboarding records it (cmd/server/api_onboarding), *)
(* an operator changes it (cmd/server/api_settings.go), every service with *)
(* a share URL has a managed domain under it (EnsurePlatformServiceDomain, *)
(* UpdatePlatformDomain in internal/repository), and the certificate poll  *)
(* reports on those names (internal/services/cert_poll.go).                *)
(*                                                                         *)
(* A managed domain is the label of its service under a zone; only the     *)
(* zone matters here.  Zones do not contain each other, and no database    *)
(* gateway is in use: it would refuse the change (DatabaseGateway).        *)
(***************************************************************************)
EXTENDS Environment

CONSTANTS
  Zones,     \* names the platform domain may have
  Shares,    \* services with a share URL
  Operators  \* who completes onboarding or changes the domain

ASSUME DomainAssumption == None \notin Zones

VARIABLES
  platform,  \* onboarding_state.platform_domain, None until onboarding completes
  githubApp, \* whether the GitHub App is registered
  snippet,   \* the domain in the control-plane snippet of Caddy, None while bootstrapping
  share,     \* zone of each service's managed domain, None while it has none
  ssl,       \* ssl_status of that row: the zone whose certificate made it ACTIVE, None for PENDING
  certs,     \* certificates Caddy has stored
  ensure,    \* zone read for a managed domain about to be inserted
  asked,     \* the request of each operator: where it is, from and to which domain
  poll,      \* rows the poll has read and those it has still to report on
  overtaken, \* history: shares inserted from a zone read before the domain changed
  late,      \* history: status written by a poll that had read the row under another name
  halfDone       \* history: a request ended half way, or two onboardings overlapped

domainState == <<platform, githubApp, snippet, share, ssl, certs, ensure, asked, poll, overtaken, late, halfDone>>
domainVars == <<domainState, environment>>
certVars == <<ssl, certs, poll, late>>

NotAsked == [at |-> "idle", from |-> None, to |-> None]
NotPolling == [at |-> "idle", read |-> [s \in Shares |-> None], left |-> {}]

DomainInit ==
  /\ platform = None /\ githubApp = FALSE /\ snippet = None
  /\ share = [s \in Shares |-> None] /\ ssl = [s \in Shares |-> None] /\ certs = {}
  /\ ensure = [s \in Shares |-> None]
  /\ asked = [o \in Operators |-> NotAsked] /\ poll = NotPolling
  /\ overtaken = {} /\ late = {} /\ halfDone = FALSE
  /\ EnvironmentInit

AskedAt(o, to) == asked' = [asked EXCEPT ![o].at = to]
Answered(o) == asked' = [asked EXCEPT ![o] = NotAsked]

\* databaseGatewayDomainMu
Free == \A o \in Operators : asked[o].at \notin {"store", "snippet", "routes", "undo store", "undo snippet", "undo routes"}

-----------------------------------------------------------------------------
(* Managed domains of services. *)

\* A deployment before its cutover, a page of the UI, or the backfill after
\* onboarding and at start.
ReadPlatformDomain(s) ==
  /\ ensure[s] = None /\ share[s] = None /\ platform # None /\ NoFault
  /\ ensure' = [ensure EXCEPT ![s] = platform]
  /\ UNCHANGED <<platform, githubApp, snippet, share, certVars, asked, overtaken, halfDone>>

\* The row's unique index is over the service and environment.
InsertPlatformDomain(s) ==
  /\ ensure[s] # None
  /\ \/ /\ NoFault /\ share[s] = None
        /\ share' = [share EXCEPT ![s] = ensure[s]] /\ ssl' = [ssl EXCEPT ![s] = None]
        /\ overtaken' = IF ensure[s] # platform THEN overtaken \cup {s} ELSE overtaken
     \/ (Fault \/ (share[s] # None /\ NoFault)) /\ UNCHANGED <<share, ssl, overtaken>>
  /\ ensure' = [ensure EXCEPT ![s] = None]
  /\ UNCHANGED <<platform, githubApp, snippet, certs, asked, poll, late, halfDone>>

-----------------------------------------------------------------------------
(* Onboarding. *)

RegisterGitHubApp ==
  /\ ~githubApp /\ githubApp' = TRUE /\ NoFault
  /\ UNCHANGED <<platform, snippet, share, certVars, ensure, asked, overtaken, halfDone>>

BeginOnboarding(o, to) ==
  /\ asked[o].at = "idle" /\ platform = None /\ githubApp /\ Request
  /\ asked' = [asked EXCEPT ![o] = [at |-> "onboard", from |-> None, to |-> to]]
  /\ UNCHANGED <<platform, githubApp, snippet, share, certVars, ensure, overtaken, halfDone>>

\* ReplaceManagedConfig puts the former snippet back when Caddy refuses the new one.
ReplaceManagedConfig(name) ==
  \/ NoFault /\ snippet' = name
  \/ Fault /\ UNCHANGED snippet

OnboardSnippet(o) ==
  /\ asked[o].at = "onboard" /\ ReplaceManagedConfig(asked[o].to)
  /\ IF snippet' = asked[o].to THEN AskedAt(o, "record") ELSE Answered(o)
  /\ UNCHANGED <<platform, githubApp, share, certVars, ensure, overtaken, halfDone>>

\* Nothing but the GitHub App is checked again.
CompleteOnboarding(o) ==
  /\ asked[o].at = "record" /\ Answered(o)
  /\ \/ NoFault /\ platform' = asked[o].to /\ halfDone' = (halfDone \/ platform # None \/ snippet # asked[o].to)
     \/ Fault /\ UNCHANGED platform /\ halfDone' = TRUE
  /\ UNCHANGED <<githubApp, snippet, share, certVars, ensure, overtaken>>

-----------------------------------------------------------------------------
(* Changing the domain. *)

BeginDomainChange(o, to) ==
  /\ asked[o].at = "idle" /\ platform \notin {None, to} /\ Request
  /\ asked' = [asked EXCEPT ![o] = [at |-> "change", from |-> platform, to |-> to]]
  /\ UNCHANGED <<platform, githubApp, snippet, share, certVars, ensure, overtaken, halfDone>>

\* The mutex, and then the DNS checks.
LockDomain(o) ==
  /\ asked[o].at = "change" /\ Free
  /\ \/ NoFault /\ AskedAt(o, "store")
     \/ Fault /\ Answered(o)
  /\ UNCHANGED <<platform, githubApp, snippet, share, certVars, ensure, overtaken, halfDone>>

\* One transaction, refused when the domain is no longer `from' or when some
\* managed domain is outside it.
Movable(from) == platform = from /\ \A s \in Shares : share[s] \in {None, from}

\* Mutant of UpdatePlatformDomain: the managed domains stay where they are.
MoveTheRootOnly(from, to) ==
  /\ Movable(from) /\ NoFault /\ platform' = to
  /\ UNCHANGED <<share, ssl, late>>

\* Mutant of UpdatePlatformDomain: the status of the old name is kept.
MoveWithStatus(from, to) ==
  /\ Movable(from) /\ NoFault /\ platform' = to
  /\ share' = [s \in Shares |-> IF share[s] = None THEN None ELSE to]
  /\ UNCHANGED ssl /\ late' = {}

UpdatePlatformDomain(from, to) ==
  /\ Movable(from) /\ NoFault /\ platform' = to
  /\ share' = [s \in Shares |-> IF share[s] = None THEN None ELSE to]
  /\ ssl' = [s \in Shares |-> None] /\ late' = {}

Refused(from) == (Fault \/ (NoFault /\ ~Movable(from))) /\ UNCHANGED <<platform, share, ssl, late>>

StoreDomain(o) ==
  /\ asked[o].at = "store"
  /\ \/ UpdatePlatformDomain(asked[o].from, asked[o].to) /\ AskedAt(o, "snippet")
     \/ Refused(asked[o].from) /\ Answered(o)
  /\ UNCHANGED <<githubApp, snippet, certs, ensure, poll, overtaken, halfDone>>

SwitchSnippet(o) ==
  /\ asked[o].at = "snippet" /\ ReplaceManagedConfig(asked[o].to)
  /\ AskedAt(o, IF snippet' = asked[o].to THEN "routes" ELSE "undo store")
  /\ UNCHANGED <<platform, githubApp, share, certVars, ensure, overtaken, halfDone>>

SyncRoutes(o) ==
  /\ asked[o].at = "routes"
  /\ \/ NoFault /\ Answered(o)
     \/ Fault /\ AskedAt(o, "undo store")
  /\ UNCHANGED <<platform, githubApp, snippet, share, certVars, ensure, overtaken, halfDone>>

\* The rollback goes through whatever of it fails.
UndoStore(o) ==
  /\ asked[o].at = "undo store" /\ AskedAt(o, "undo snippet")
  /\ \/ UpdatePlatformDomain(asked[o].to, asked[o].from) /\ UNCHANGED halfDone
     \/ Refused(asked[o].to) /\ halfDone' = TRUE
  /\ UNCHANGED <<githubApp, snippet, certs, ensure, poll, overtaken>>

\* Mutant of UndoSnippet: only the store is rolled back.
KeepSnippet(o) ==
  /\ asked[o].at = "undo snippet" /\ Answered(o) /\ NoFault
  /\ UNCHANGED <<platform, githubApp, snippet, share, certVars, ensure, overtaken, halfDone>>

UndoSnippet(o) ==
  /\ asked[o].at = "undo snippet" /\ AskedAt(o, "undo routes")
  /\ ReplaceManagedConfig(asked[o].from)
  /\ halfDone' = (halfDone \/ snippet' # asked[o].from)
  /\ UNCHANGED <<platform, githubApp, share, certVars, ensure, overtaken>>

UndoRoutes(o) ==
  /\ asked[o].at = "undo routes" /\ Answered(o) /\ (NoFault \/ Fault)
  /\ UNCHANGED <<platform, githubApp, snippet, share, certVars, ensure, overtaken, halfDone>>

DomainCrash ==
  /\ ProcessCrash
  /\ halfDone' = (halfDone \/ \E o \in Operators : asked[o].at \notin {"idle", "change", "onboard"})
  /\ ensure' = [s \in Shares |-> None] /\ asked' = [o \in Operators |-> NotAsked] /\ poll' = NotPolling
  /\ UNCHANGED <<platform, githubApp, snippet, share, ssl, certs, overtaken, late>>

-----------------------------------------------------------------------------
(* Certificates. *)

Issue(s) ==
  /\ share[s] # None /\ <<s, share[s]>> \notin certs /\ NoFault
  /\ certs' = certs \cup {<<s, share[s]>>}
  /\ UNCHANGED <<platform, githubApp, snippet, share, ssl, ensure, asked, poll, overtaken, late, halfDone>>

ListAllDomains ==
  /\ poll.at = "idle" /\ NoFault
  /\ poll' = [at |-> "observe", read |-> share, left |-> {s \in Shares : share[s] # None}]
  /\ UNCHANGED <<platform, githubApp, snippet, share, ssl, certs, ensure, asked, overtaken, late, halfDone>>

\* The file of the name that was read; the row is found by its id.
ObserveCertificate(s) ==
  /\ poll.at = "observe" /\ s \in poll.left
  /\ poll' = IF poll.left = {s} THEN NotPolling ELSE [poll EXCEPT !.left = @ \ {s}]
  /\ \/ NoFault /\ ssl' = [ssl EXCEPT ![s] = IF <<s, poll.read[s]>> \in certs THEN poll.read[s] ELSE None]
        /\ late' = IF poll.read[s] = share[s] THEN late \ {s} ELSE late \cup {s}
     \/ Fault /\ UNCHANGED <<ssl, late>>
  /\ UNCHANGED <<platform, githubApp, snippet, share, certs, ensure, asked, overtaken, halfDone>>

DomainNext ==
  \/ RegisterGitHubApp \/ DomainCrash \/ ListAllDomains
  \/ \E s \in Shares : ReadPlatformDomain(s) \/ InsertPlatformDomain(s) \/ Issue(s) \/ ObserveCertificate(s)
  \/ \E o \in Operators :
       \/ \E to \in Zones : BeginOnboarding(o, to) \/ BeginDomainChange(o, to)
       \/ OnboardSnippet(o) \/ CompleteOnboarding(o)
       \/ LockDomain(o) \/ StoreDomain(o) \/ SwitchSnippet(o) \/ SyncRoutes(o)
       \/ UndoStore(o) \/ UndoSnippet(o) \/ UndoRoutes(o)

DomainSpec == DomainInit /\ [][DomainNext]_domainVars

-----------------------------------------------------------------------------
DomainTypeOK ==
  /\ {platform, snippet} \subseteq Zones \cup {None}
  /\ \A s \in Shares : {share[s], ssl[s], ensure[s]} \subseteq Zones \cup {None}
  /\ certs \subseteq Shares \X Zones /\ poll.left \subseteq Shares

\* Over changes that fail half way, operators at the same time and requests
\* that end with the process, every managed domain is under the platform
\* domain.  One inserted from a domain that was read before it changed, and
\* two onboardings at once, are the exceptions.
ShareFollowsPlatform ==
  \A s \in Shares : share[s] \in {None, platform} \/ s \in overtaken \/ halfDone

\* When nobody is changing it, Caddy serves the control plane under the domain
\* the store has: a change that fails is undone in both.  A request that ended
\* with the process or whose rollback failed is the exception.
SnippetServesPlatform ==
  halfDone \/ snippet = platform \/ \E o \in Operators : asked[o].at \notin {"idle", "change", "onboard"}

\* The certificate status of a managed domain is about the name it has now:
\* one of an old name is reset with the name, and comes back only from a poll
\* that had read the row before.
StatusIsOfTheName ==
  \A s \in Shares : ssl[s] \in {None, share[s]} \/ s \in late
=============================================================================
