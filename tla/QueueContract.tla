---------------------------- MODULE QueueContract ----------------------------
(***************************************************************************)
(* What the operations queue promises whoever enqueues: an operation is    *)
(* executed alone among those with its lock key, what it came to is final, *)
(* and a deploy is begun at most once and has its answer by the time the   *)
(* process serves again.  There are no rows, leases, attempts or workers   *)
(* here; OperationQueue, which has them, implements this specification.    *)
(*                                                                         *)
(* The promise has a hole, and it is drawn as it is: between the drain     *)
(* deadline and the end of the process (`overrun'), a handler that has not *)
(* stopped goes on, its operation may be settled over its head, and an     *)
(* operation that is not a deploy may even be settled again.               *)
(***************************************************************************)
CONSTANTS
  Ops,    \* operations
  Once,   \* those that are begun at most once: the deploys
  LockOf, \* the lock key of each operation
  None    \* no outcome yet

Results == {"success", "failed", "cancelled"}

VARIABLES
  serving,   \* the process has started and not ended
  overrun,   \* its drain deadline has passed
  executing, \* operations some worker has begun and not reported on
  entered,   \* operations of Once that were ever begun
  outcome    \* what each operation came to

contract == <<serving, overrun, executing, entered, outcome>>

Open(o) == outcome[o] = None

Init ==
  /\ serving = FALSE /\ overrun = FALSE
  /\ executing = {} /\ entered = {}
  /\ outcome = [o \in Ops |-> None]

\* The process starts: what had begun and has no outcome fails, if it may not
\* be begun again; anything else may be given up or taken up later.
Start ==
  /\ ~serving
  /\ serving' = TRUE
  /\ \E given \in SUBSET {o \in Ops : Open(o)} :
       /\ \A o \in entered : Open(o) => o \in given
       /\ outcome' = [o \in Ops |-> IF o \in given THEN "failed" ELSE outcome[o]]
  /\ UNCHANGED <<overrun, executing, entered>>

Begin(o) ==
  /\ serving /\ ~overrun
  /\ Open(o) /\ o \notin entered
  /\ \A r \in executing : LockOf[r] # LockOf[o]
  /\ executing' = executing \cup {o}
  /\ entered' = IF o \in Once THEN entered \cup {o} ELSE entered
  /\ UNCHANGED <<serving, overrun, outcome>>

\* A worker is through with o and leaves what it comes to for later.
Leave(o) ==
  /\ serving
  /\ executing' = executing \ {o}
  /\ UNCHANGED <<serving, overrun, entered, outcome>>

Settle(o, result) ==
  /\ serving
  /\ Open(o) \/ (overrun /\ o \notin Once)
  /\ outcome' = [outcome EXCEPT ![o] = result]
  /\ \/ executing' = executing \ {o}
     \/ overrun /\ executing' = executing
  /\ UNCHANGED <<serving, overrun, entered>>

\* A handler that has outlived the deadline says its operation is running.
Reopen(o) ==
  /\ serving /\ overrun /\ o \notin Once
  /\ outcome' = [outcome EXCEPT ![o] = None]
  /\ UNCHANGED <<serving, overrun, executing, entered>>

\* Operations are cancelled before any worker begins them.
Withdraw(given) ==
  /\ serving
  /\ \A o \in given : Open(o)
  /\ given \cap executing = {} \/ overrun
  /\ outcome' = [o \in Ops |-> IF o \in given THEN "cancelled" ELSE outcome[o]]
  /\ UNCHANGED <<serving, overrun, executing, entered>>

Deadline ==
  /\ serving
  /\ overrun' = TRUE
  /\ UNCHANGED <<serving, executing, entered, outcome>>

\* The process ends, by itself or not: no outcome is lost.
End ==
  /\ serving
  /\ serving' = FALSE /\ overrun' = FALSE /\ executing' = {}
  /\ UNCHANGED <<entered, outcome>>

Next ==
  \/ Start \/ Deadline \/ End
  \/ \E o \in Ops : \/ Begin(o) \/ Leave(o) \/ Reopen(o)
                    \/ \E result \in Results : Settle(o, result)
  \/ \E given \in SUBSET Ops : Withdraw(given)

Spec == Init /\ [][Next]_contract
=============================================================================
