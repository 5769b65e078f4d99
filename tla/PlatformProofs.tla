---------------------------- MODULE PlatformProofs ----------------------------
(***************************************************************************)
(* Theorems about the models that MCPlatform puts side by side: the        *)
(* rotation of credentials, the control plane and its snapshots, the       *)
(* applications and their services, the live logs, the ports and images of *)
(* the host, and the platform domain.  Each section states the inductive   *)
(* invariant of one model, shows that every step keeps it, and ends in the *)
(* theorems of that model; the last one puts them together again.          *)
(***************************************************************************)
EXTENDS MCPlatform, FiniteSetTheorems, SequenceTheorems, WellFoundedInduction, TLAPS

-----------------------------------------------------------------------------
(***************************************************************************)
(* CredentialRotation, for every number of operations, attempts, faults    *)
(* and starts.  EngineAcceptsStored alone is not inductive.  A start of    *)
(* the container makes the saved password the live one, so the saved one   *)
(* must be stored as well; and what a worker does next depends on what it  *)
(* has read, which must still be what the store holds: only this operation *)
(* writes there.                                                           *)
(***************************************************************************)

RotationPlaces ==
  {"idle", "read", "stage", "probe_old", "probe_new", "alter", "rewrite", "unset", "resave",
   "verify", "commit", "clear", "failed", "succeeded"}

\* Where the worker holds the old and the new password.
Changing == {"probe_old", "probe_new", "alter", "rewrite", "unset", "resave", "verify", "commit", "clear"}

KnownType ==
  [id : Rotations \cup {None}, old : Nat \cup {None}, new : Nat \cup {None}, oldValid : BOOLEAN,
   goal : {"rotate", "rollback"}]

RotationTypes ==
  /\ password \in Nat /\ torn \in BOOLEAN /\ unsaved \in BOOLEAN /\ pending \in Nat \cup {None} /\ made \in Nat
  /\ engine \in {"admin", "own", "config"}
  /\ place \in RotationPlaces /\ known \in KnownType

\* Both passwords of the engine are stored.
BothStored == {live, saved} \subseteq {password, pending} \ {None}

\* What the worker knows is what the store holds.
KnownIsStored ==
  /\ place = "stage" => known.old = password /\ pending = None
  /\ place \in Changing => known.old = password /\ known.new = pending /\ pending # None

\* A commit drops the old password: the engine must have the new one, unless
\* it had never saved it.
CommitIsSafe == place = "commit" => live = pending \/ saved # pending

\* Clearing drops the new password: the engine must have the old one.
ClearIsSafe == place = "clear" => live = password /\ saved = password

RotationInv ==
  /\ RotationTypes
  /\ torn \/ unsaved \/ (BothStored /\ KnownIsStored /\ CommitIsSafe /\ ClearIsSafe)

-----------------------------------------------------------------------------
LEMMA RotationBegins == RotationInit => RotationInv
<1>. SUFFICES ASSUME RotationInit PROVE RotationInv
  OBVIOUS
<1>1. known \in KnownType
  BY DEF RotationInit, NothingKnown, KnownType
<1>2. RotationTypes
  BY <1>1, RotationAssumption DEF RotationInit, RotationTypes, RotationPlaces
<1>3. BothStored /\ KnownIsStored /\ CommitIsSafe /\ ClearIsSafe
  BY RotationAssumption DEF RotationInit, Changing, BothStored, KnownIsStored, CommitIsSafe, ClearIsSafe
<1>. QED BY <1>2, <1>3 DEF RotationInv

LEMMA RotationKeepsInv == RotationInv /\ [RotationNext]_rotationState => RotationInv'
<1> USE RotationAssumption
<1>. SUFFICES ASSUME RotationInv, [RotationNext]_rotationState PROVE RotationInv'
  OBVIOUS
<1>1. ASSUME NEW x \in Rotations, QueueRotation(x) PROVE RotationInv'
  BY <1>1 DEF QueueRotation, RotationInv, RotationTypes, KnownType, RotationPlaces, Changing,
          BothStored, KnownIsStored, CommitIsSafe, ClearIsSafe, storeVars, engineVars
<1>2. ASSUME NEW x \in Rotations, ClaimRotation(x) PROVE RotationInv'
  BY <1>2 DEF ClaimRotation, RotationInv, RotationTypes, KnownType, RotationPlaces, Changing,
          BothStored, KnownIsStored, CommitIsSafe, ClearIsSafe, NothingKnown, storeVars, engineVars
<1>3. CASE ReadCredential
  BY <1>3 DEF ReadCredential, RotationInv, RotationTypes, KnownType, RotationPlaces, Changing,
          BothStored, KnownIsStored, CommitIsSafe, ClearIsSafe, storeVars, engineVars, workerVars, rotationState, beyondWorker, GoTo, FailRotation
<1>4. CASE StageDatabaseCredentialRotation
  BY <1>4 DEF StageDatabaseCredentialRotation, RotationInv, RotationTypes, KnownType, RotationPlaces, Changing,
          BothStored, KnownIsStored, CommitIsSafe, ClearIsSafe, storeVars, engineVars, workerVars, rotationState, beyondWorker, GoTo, FailRotation
<1>5. CASE ProbeOldPassword
  BY <1>5 DEF ProbeOldPassword, RotationInv, RotationTypes, KnownType, RotationPlaces, Changing,
          BothStored, KnownIsStored, CommitIsSafe, ClearIsSafe, Accepted, storeVars, engineVars, workerVars, rotationState, beyondWorker, GoTo, FailRotation
<1>6. CASE ProbeNewPassword
  BY <1>6 DEF ProbeNewPassword, RotationInv, RotationTypes, KnownType, RotationPlaces, Changing,
          BothStored, KnownIsStored, CommitIsSafe, ClearIsSafe, Accepted, storeVars, engineVars, workerVars, rotationState, beyondWorker, GoTo, FailRotation
<1>7. CASE AlterDatabasePassword
  BY <1>7 DEF AlterDatabasePassword, RotationInv, RotationTypes, KnownType, RotationPlaces, Changing,
          BothStored, KnownIsStored, CommitIsSafe, ClearIsSafe, Allowed, From, To, Altered, Unaltered, storeVars, engineVars, workerVars, rotationState, beyondWorker, GoTo, FailRotation
<1>8. CASE SaveConfiguration
  BY <1>8 DEF SaveConfiguration, RotationInv, RotationTypes, KnownType, RotationPlaces, Changing,
          BothStored, KnownIsStored, CommitIsSafe, ClearIsSafe, From, To, Altered, Unaltered, storeVars, engineVars, workerVars, rotationState, beyondWorker, GoTo, FailRotation
<1>9. CASE RestoreLivePassword
  BY <1>9 DEF RestoreLivePassword, RotationInv, RotationTypes, KnownType, RotationPlaces, Changing,
          BothStored, KnownIsStored, CommitIsSafe, ClearIsSafe, From, To, storeVars, engineVars, workerVars, rotationState, beyondWorker, GoTo, FailRotation
<1>10. CASE ResaveConfiguration
  BY <1>10 DEF ResaveConfiguration, RotationInv, RotationTypes, KnownType, RotationPlaces, Changing,
          BothStored, KnownIsStored, CommitIsSafe, ClearIsSafe, From, Unaltered, storeVars, engineVars, workerVars, rotationState, beyondWorker, GoTo, FailRotation
<1>11. CASE VerifyNewPassword
  BY <1>11 DEF VerifyNewPassword, RotationInv, RotationTypes, KnownType, RotationPlaces, Changing,
          BothStored, KnownIsStored, CommitIsSafe, ClearIsSafe, Accepted, RollBack, storeVars, engineVars, workerVars, rotationState, beyondWorker, GoTo, FailRotation
<1>12. CASE CommitStagedDatabaseCredentialRotation
  <2>. USE <1>12 DEF CommitStagedDatabaseCredentialRotation
  <2>1. CASE GoTo("succeeded") /\ password' = pending /\ pending' = None /\ pending # None
              /\ unsaved' = (unsaved \/ saved # pending) /\ UNCHANGED torn
    <3>1. CASE torn \/ unsaved'
      BY <2>1, <3>1 DEF RotationInv, RotationTypes, KnownType, RotationPlaces, engineVars, GoTo
    <3>2. CASE ~torn /\ ~unsaved'
      BY <2>1, <3>2 DEF RotationInv, RotationTypes, KnownType, RotationPlaces, Changing,
            BothStored, KnownIsStored, CommitIsSafe, ClearIsSafe, engineVars, GoTo
    <3>. QED BY <3>1, <3>2
  <2>2. CASE RollBack /\ UNCHANGED <<storeVars, torn, unsaved>>
    BY <2>2 DEF RotationInv, RotationTypes, KnownType, RotationPlaces, Changing,
            BothStored, KnownIsStored, CommitIsSafe, ClearIsSafe,
            storeVars, engineVars, RollBack
  <2>3. CASE pending # None /\ RollBack /\ password' = pending /\ pending' = None /\ torn' = TRUE /\ UNCHANGED unsaved
    BY <2>3 DEF RotationInv, RotationTypes, KnownType, RotationPlaces, Changing,
            BothStored, KnownIsStored, CommitIsSafe, ClearIsSafe,
            engineVars, RollBack
  <2>. QED BY <2>1, <2>2, <2>3
<1>13. CASE ClearStagedDatabaseCredentialRotation
  BY <1>13 DEF ClearStagedDatabaseCredentialRotation, RotationInv, RotationTypes, KnownType, RotationPlaces, Changing,
          BothStored, KnownIsStored, CommitIsSafe, ClearIsSafe, storeVars, engineVars, workerVars, rotationState, beyondWorker, GoTo, FailRotation
<1>14. CASE EndRotation
  BY <1>14 DEF EndRotation, RotationInv, RotationTypes, KnownType, RotationPlaces, Changing,
          BothStored, KnownIsStored, CommitIsSafe, ClearIsSafe, NothingKnown, storeVars, engineVars, workerVars, rotationState, beyondWorker, GoTo, FailRotation
<1>15. CASE EngineRestarts
  BY <1>15 DEF EngineRestarts, RotationInv, RotationTypes, KnownType, RotationPlaces, Changing,
          BothStored, KnownIsStored, CommitIsSafe, ClearIsSafe, storeVars, engineVars, workerVars, rotationState, beyondWorker, GoTo, FailRotation
<1>16. CASE RotationCrash
  BY <1>16 DEF RotationCrash, RotationInv, RotationTypes, KnownType, RotationPlaces, Changing,
          BothStored, KnownIsStored, CommitIsSafe, ClearIsSafe, NothingKnown, storeVars, engineVars, workerVars, rotationState, beyondWorker, GoTo, FailRotation
<1>17. CASE UNCHANGED rotationState
  BY <1>17 DEF rotationState, storeVars, engineVars, workerVars, RotationInv, RotationTypes, KnownType, RotationPlaces, Changing,
          BothStored, KnownIsStored, CommitIsSafe, ClearIsSafe
<1>. QED BY <1>1, <1>2, <1>3, <1>4, <1>5, <1>6, <1>7, <1>8, <1>9, <1>10, <1>11, <1>12, <1>13, <1>14, <1>15, <1>16, <1>17 DEF RotationNext, RotationWork

\* The inductive invariant of a rotation (database_provision.go:867-985).
THEOREM RotationInvariant == RotationSpec => []RotationInv
<1>1. RotationInit => RotationInv BY RotationBegins
<1>2. RotationInv /\ [RotationNext]_rotationVars => RotationInv'
  BY RotationKeepsInv DEF rotationVars
<1>. QED BY <1>1, <1>2, PTL DEF RotationSpec

\* Whatever fails or ends in whatever order, the engine accepts a password
\* that the store still has, but for the two disagreements it excepts.
THEOREM EngineStaysReachable == RotationSpec => []EngineAcceptsStored
<1>1. RotationInv => EngineAcceptsStored BY DEF RotationInv, BothStored, EngineAcceptsStored
<1>. QED BY <1>1, RotationInvariant, PTL

\* The passwords the store, the engine and the worker hold have been made.
PasswordInv ==
  /\ made \in Nat /\ password \in 0..made /\ pending \in (1..made) \cup {None} /\ pending # password
  /\ live \in 0..made /\ saved \in 0..made
  /\ place = "stage" => known.old \in 0..made
  /\ place \in Changing => known.old \in 0..made /\ known.new \in 0..made

\* One operation is with the worker.
ClaimInv ==
  /\ rotation \in [Rotations -> [status : {"absent", "queued", "running", "failed", "success"}, runs : 0..MaxRuns]]
  /\ place # "idle" => known.id \in Rotations
  /\ \A x \in Rotations : rotation[x].status = "running" <=> (place # "idle" /\ x = known.id)

LEMMA PasswordInvStep == RotationTypes /\ PasswordInv /\ [RotationNext]_rotationState => PasswordInv'
<1> SUFFICES ASSUME RotationTypes, PasswordInv, [RotationNext]_rotationState PROVE PasswordInv'
  OBVIOUS
<1> USE RotationAssumption DEF storeVars, engineVars, workerVars, rotationState, beyondWorker, GoTo, FailRotation, Changing
<1>1. /\ made \in Nat /\ password \in 0..made /\ live \in 0..made /\ saved \in 0..made
      /\ pending \in (1..made) \cup {None} /\ pending # password
      /\ place \in Changing => From \in 0..made /\ To \in 0..made
  BY DEF PasswordInv, From, To
<1>2. known \in KnownType
  BY DEF RotationTypes
<1>3. ASSUME UNCHANGED <<storeVars, made>>, live' \in 0..made, saved' \in 0..made,
             UNCHANGED known, place' \in Changing => place \in Changing, place' # "stage"
      PROVE  PasswordInv'
  BY <1>3 DEF PasswordInv
<1>4. CASE RestoreLivePassword \/ AlterDatabasePassword \/ SaveConfiguration \/ ResaveConfiguration
  <2>1. CASE RestoreLivePassword
    BY <1>1, <1>3, <2>1 DEF RestoreLivePassword
  <2>2. CASE AlterDatabasePassword
    BY <1>1, <1>3, <2>2 DEF AlterDatabasePassword, Altered, Unaltered
  <2>3. CASE SaveConfiguration
    BY <1>1, <1>3, <2>3 DEF SaveConfiguration, Altered, Unaltered
  <2>4. CASE ResaveConfiguration
    BY <1>1, <1>3, <2>4 DEF ResaveConfiguration, Unaltered
  <2> QED
    BY <1>4, <2>1, <2>2, <2>3, <2>4
<1>5. CASE ReadCredential
  <2>1. CASE UNCHANGED known /\ place' = "failed"
    BY <1>3, <1>1, <1>5, <2>1 DEF ReadCredential
  <2>2. CASE known' = [known EXCEPT !.old = password, !.new = pending] /\ place' = IF pending = None THEN "stage" ELSE "probe_old"
    <3>1. known'.old = password /\ known'.new = pending
      BY <1>2, <2>2 DEF KnownType
    <3>2. UNCHANGED <<storeVars, made, live, saved>>
      BY <1>5 DEF ReadCredential
    <3> QED
      BY <1>1, <2>2, <3>1, <3>2 DEF PasswordInv
  <2> QED
    BY <1>5, <2>1, <2>2 DEF ReadCredential
<1>6. CASE StageDatabaseCredentialRotation
  <2>1. /\ made' = made + 1 /\ pending' \in {None, made + 1} /\ UNCHANGED <<password, live, saved>>
        /\ \/ place' = "probe_old" /\ place = "stage" /\ known' = [known EXCEPT !.new = made + 1]
           \/ place' = "failed"
    BY <1>6 DEF StageDatabaseCredentialRotation
  <2>2. known' = [known EXCEPT !.new = made + 1] => known'.old = known.old /\ known'.new = made + 1
    BY <1>2 DEF KnownType
  <2> QED
    BY <1>1, <2>1, <2>2 DEF PasswordInv
<1>7. CASE ProbeOldPassword
  <2>1. /\ UNCHANGED <<storeVars, made, live, saved>> /\ place = "probe_old"
        /\ known' \in {[known EXCEPT !.oldValid = TRUE], [known EXCEPT !.oldValid = FALSE], known}
        /\ place' \in {"probe_new", "failed"}
    BY <1>7 DEF ProbeOldPassword, Accepted
  <2>2. known'.old = known.old /\ known'.new = known.new
    BY <1>2, <2>1 DEF KnownType
  <2> QED
    BY <1>1, <2>1, <2>2 DEF PasswordInv
<1>8. CASE ProbeNewPassword
  BY <1>1, <1>3, <1>8 DEF ProbeNewPassword
<1>9. CASE VerifyNewPassword \/ CommitStagedDatabaseCredentialRotation
  <2>1. /\ place \in Changing /\ UNCHANGED <<made, live, saved>>
        /\ UNCHANGED storeVars \/ (pending # None /\ password' = pending /\ pending' = None)
        /\ \/ known' = known /\ place' \in {"commit", "succeeded"}
           \/ known' = [known EXCEPT !.goal = "rollback"] /\ place' = "alter"
    BY <1>9 DEF VerifyNewPassword, CommitStagedDatabaseCredentialRotation, RollBack
  <2>2. known'.old = known.old /\ known'.new = known.new
    BY <1>2, <2>1 DEF KnownType
  <2> QED
    BY <1>1, <2>1, <2>2 DEF PasswordInv
<1>10. CASE ClearStagedDatabaseCredentialRotation
  BY <1>1, <1>10 DEF ClearStagedDatabaseCredentialRotation, PasswordInv
<1>11. CASE RotationCrash \/ EndRotation \/ \E x \in Rotations : ClaimRotation(x)
  <2>1. UNCHANGED <<storeVars, made, live, saved>> /\ place' \in {"idle", "read"}
    BY <1>11 DEF RotationCrash, EndRotation, ClaimRotation
  <2> QED
    BY <1>1, <2>1 DEF PasswordInv
<1>12. CASE EngineRestarts \/ (\E x \in Rotations : QueueRotation(x)) \/ UNCHANGED rotationState
  <2>1. UNCHANGED <<storeVars, made, saved, place, known>> /\ live' \in {live, saved}
    BY <1>12 DEF EngineRestarts, QueueRotation
  <2> QED
    BY <1>1, <2>1 DEF PasswordInv
<1> QED
  BY <1>4, <1>5, <1>6, <1>7, <1>8, <1>9, <1>10, <1>11, <1>12 DEF RotationNext, RotationWork

LEMMA ClaimInvStep == RotationTypes /\ ClaimInv /\ [RotationNext]_rotationState => ClaimInv'
<1> SUFFICES ASSUME RotationTypes, ClaimInv, [RotationNext]_rotationState PROVE ClaimInv'
  OBVIOUS
<1> USE RotationAssumption DEF storeVars, engineVars, workerVars, rotationState, beyondWorker, GoTo, FailRotation
<1> DEFINE RowSet == [status : {"absent", "queued", "running", "failed", "success"}, runs : 0..MaxRuns]
<1>1. known \in KnownType
  BY DEF RotationTypes
<1>2. ASSUME UNCHANGED rotation, place # "idle", place' # "idle", known'.id = known.id
      PROVE  ClaimInv'
  BY <1>2 DEF ClaimInv
<1>3. ASSUME NEW x \in Rotations, QueueRotation(x)
      PROVE  ClaimInv'
  <2>1. [rotation[x] EXCEPT !.status = "queued"] \in RowSet /\ [rotation[x] EXCEPT !.status = "queued"].status = "queued"
    BY DEF ClaimInv
  <2>2. UNCHANGED <<place, known>> /\ rotation' = [rotation EXCEPT ![x] = [rotation[x] EXCEPT !.status = "queued"]]
    BY <1>3 DEF QueueRotation, ClaimInv
  <2>3. rotation' \in [Rotations -> RowSet] /\ rotation'[x].status = "queued" /\ \A y \in Rotations \ {x} : rotation'[y] = rotation[y]
    BY <2>1, <2>2 DEF ClaimInv
  <2>4. rotation[x].status # "running"
    BY <1>3 DEF QueueRotation
  <2> QED
    BY <2>2, <2>3, <2>4 DEF ClaimInv
<1>4. ASSUME NEW x \in Rotations, ClaimRotation(x)
      PROVE  ClaimInv'
  <2>1. rotation[x].runs + 1 \in 0..MaxRuns
    BY <1>4 DEF ClaimRotation, ClaimInv
  <2>2. rotation' = [rotation EXCEPT ![x] = [status |-> "running", runs |-> rotation[x].runs + 1]]
    BY <1>4 DEF ClaimRotation, ClaimInv
  <2>3. [status |-> "running", runs |-> rotation[x].runs + 1] \in RowSet
    BY <2>1
  <2>4. rotation' \in [Rotations -> RowSet] /\ rotation'[x].status = "running" /\ \A y \in Rotations \ {x} : rotation'[y] = rotation[y]
    BY <2>2, <2>3 DEF ClaimInv
  <2>5. place = "idle" /\ place' = "read" /\ known'.id = x
    BY <1>4 DEF ClaimRotation, NothingKnown
  <2> QED
    BY <2>4, <2>5 DEF ClaimInv
<1>5. CASE EndRotation
  <2> DEFINE s == IF place = "failed" THEN "failed" ELSE "success"
  <2>1. known.id \in Rotations /\ place' = "idle" /\ place # "idle"
    BY <1>5 DEF EndRotation, ClaimInv
  <2>2. rotation' = [rotation EXCEPT ![known.id] = [rotation[known.id] EXCEPT !.status = s]]
    BY <1>5, <2>1 DEF EndRotation, ClaimInv
  <2>3. [rotation[known.id] EXCEPT !.status = s] \in RowSet /\ [rotation[known.id] EXCEPT !.status = s].status = s
    BY <2>1 DEF ClaimInv
  <2>4. s # "running"
    OBVIOUS
  <2> HIDE DEF s
  <2>5. rotation' \in [Rotations -> RowSet] /\ rotation'[known.id].status = s /\ \A y \in Rotations \ {known.id} : rotation'[y] = rotation[y]
    BY <2>1, <2>2, <2>3 DEF ClaimInv
  <2> QED
    BY <2>1, <2>4, <2>5 DEF ClaimInv
<1>6. CASE RotationCrash
  <2>1. ASSUME NEW r \in RowSet, NEW n,
               n = IF r.status # "running" THEN r
                   ELSE [r EXCEPT !.status = IF @ = "running" /\ r.runs >= MaxRuns THEN "failed" ELSE "queued"]
        PROVE  n \in RowSet /\ n.status # "running"
    BY <2>1
  <2>2. /\ place' = "idle" /\ rotation' = [x \in Rotations |-> rotation'[x]]
        /\ \A x \in Rotations : rotation'[x] = IF rotation[x].status # "running" THEN rotation[x]
             ELSE [rotation[x] EXCEPT !.status = IF @ = "running" /\ rotation[x].runs >= MaxRuns THEN "failed" ELSE "queued"]
    BY <1>6 DEF RotationCrash
  <2>3. \A x \in Rotations : rotation[x] \in RowSet
    BY DEF ClaimInv
  <2> HIDE DEF RowSet
  <2>4. \A x \in Rotations : rotation'[x] \in RowSet /\ rotation'[x].status # "running"
    BY <2>1, <2>2, <2>3
  <2>5. rotation' \in [Rotations -> RowSet]
    BY <2>2, <2>4
  <2> QED
    BY <2>2, <2>4, <2>5 DEF ClaimInv, RowSet
<1>7. CASE ReadCredential \/ StageDatabaseCredentialRotation \/ ProbeOldPassword \/ ProbeNewPassword \/ VerifyNewPassword
  <2>1. UNCHANGED rotation /\ place # "idle" /\ place' # "idle"
    BY <1>7 DEF ReadCredential, StageDatabaseCredentialRotation, ProbeOldPassword, ProbeNewPassword, VerifyNewPassword, RollBack
  <2>2. known'.id = known.id
    BY <1>1, <1>7 DEF ReadCredential, StageDatabaseCredentialRotation, ProbeOldPassword, ProbeNewPassword, VerifyNewPassword,
         RollBack, KnownType, Accepted
  <2> QED
    BY <1>2, <2>1, <2>2
<1>8. CASE CommitStagedDatabaseCredentialRotation \/ ClearStagedDatabaseCredentialRotation
           \/ AlterDatabasePassword \/ SaveConfiguration \/ RestoreLivePassword \/ ResaveConfiguration
  <2>1. UNCHANGED rotation /\ place # "idle" /\ place' # "idle"
    BY <1>8 DEF CommitStagedDatabaseCredentialRotation, ClearStagedDatabaseCredentialRotation, AlterDatabasePassword,
         SaveConfiguration, RestoreLivePassword, ResaveConfiguration, RollBack, Altered, Unaltered
  <2>2. known'.id = known.id
    BY <1>1, <1>8 DEF CommitStagedDatabaseCredentialRotation, ClearStagedDatabaseCredentialRotation, AlterDatabasePassword,
         SaveConfiguration, RestoreLivePassword, ResaveConfiguration, RollBack, Altered, Unaltered, KnownType
  <2> QED
    BY <1>2, <2>1, <2>2
<1>9. CASE EngineRestarts \/ UNCHANGED rotationState
  BY <1>9 DEF EngineRestarts, ClaimInv
<1> QED
  BY <1>3, <1>4, <1>5, <1>6, <1>7, <1>8, <1>9 DEF RotationNext, RotationWork

LEMMA ClaimsBegin == RotationInit => PasswordInv /\ ClaimInv
<1> SUFFICES ASSUME RotationInit PROVE PasswordInv /\ ClaimInv
  OBVIOUS
<1>1. PasswordInv
  BY RotationAssumption DEF RotationInit, PasswordInv, Changing
<1>2. ClaimInv
  BY RotationAssumption DEF RotationInit, ClaimInv
<1> QED
  BY <1>1, <1>2

LEMMA RotationTyped == PasswordInv /\ ClaimInv => RotationTypeOK
  BY DEF PasswordInv, ClaimInv, RotationTypeOK

-----------------------------------------------------------------------------
(***************************************************************************)
(* ControlPlane, for every number of versions, keys, snapshots and days.   *)
(* That a server understands what it serves is decided by every copy of    *)
(* the database it may have been started from, so BootInv speaks of all    *)
(* the copies that are kept (Kept).  That a snapshot stays usable is about *)
(* what the loop has read from the rows before it purges: RowsInv says     *)
(* what a row stands for, UsableInv that the newest one is never expired,  *)
(* LoopInv what the loop knows at each of its steps.                       *)
(***************************************************************************)

LessThan == {ss \in Nat \X Nat : ss[1] < ss[2]}

\* Every set of naturals that is not empty has a least element.
LEMMA HasLeast ==
  ASSUME NEW S, S \subseteq Nat, S # {}
  PROVE  \E m \in S : \A n \in S : m <= n
<1>1. IsWellFoundedOn(LessThan, Nat)
  BY NatLessThanWellFounded DEF OpToRel, LessThan
<1>2. PICK m \in S : \A n \in S : ~(<<n, m>> \in LessThan)
  BY <1>1, WFMin
<1>3. ASSUME NEW n \in S PROVE m <= n
  <2>1. m \in Nat /\ n \in Nat
    OBVIOUS
  <2>2. n < m => <<n, m>> \in LessThan
    BY <2>1 DEF LessThan
  <2> QED
    BY <1>2, <2>1, <2>2
<1> QED
  BY <1>3

RowType == [status : {"absent", "running", "failed", "success"}, created : 0..LastDay, remote : BOOLEAN]

LoopType ==
  [at : {"off", "decide", "create", "vacuum", "upload", "fail", "complete", "list", "file", "object", "record", "sleep"},
   id : Snapshots \cup {None}, remote : BOOLEAN, expired : SUBSET Snapshots]

PlaneTypes ==
  /\ database \in Contents /\ before \in Contents /\ preFiles \subseteq Contents
  /\ snapFiles \in [Snapshots -> Contents \cup {None, Torn}]
  /\ attempted \subseteq Snapshots
  /\ binary \in Versions /\ envKey \in Keys
  /\ server \in {"down", "pending", "saved", "migrated", "serving"}
  /\ loop \in LoopType
  /\ day \in 0..LastDay

\* The databases that are in use or may be restored.
Kept == {database} \cup preFiles \cup ({snapFiles[s] : s \in Snapshots} \ {None, Torn})

KeyRecorded(c) == c.canary = None \/ c.sealed \subseteq {c.canary} \/ c.adopted

BootInv ==
  /\ \A c \in Kept : KeyRecorded(c)
  /\ server \in {"pending", "saved"} => database.applied < binary
  /\ server = "pending" => before = database
  /\ server = "saved" => before \in preFiles
  /\ server \in {"migrated", "serving"} => database.applied = binary /\ (before.applied < binary => before \in preFiles)
  /\ server = "serving" => database.canary = envKey

Absent(c, s) == c.rows[s].status = "absent"

\* An attempt has one id and one day, in every database.
RowsInv ==
  /\ objects \subseteq attempted
  /\ \A c \in Kept, s \in Snapshots : ~Absent(c, s) =>
       /\ s \in attempted
       /\ \A d \in Kept : ~Absent(d, s) => d.rows[s].created = c.rows[s].created

UsableInv ==
  \A c \in Kept, s \in Snapshots : c.rows[s].status = "success" =>
    \/ c.rows[s].created + Retention <= day
    \/ snapFiles[s] \notin {None, Torn} /\ (c.rows[s].remote => s \in objects)

LoopInv ==
  /\ loop.at # "off" <=> server = "serving"
  /\ loop.at \in {"vacuum", "upload", "complete", "fail"} =>
       /\ loop.id \in attempted /\ ~Absent(database, loop.id)
       /\ \A c \in Kept : c.rows[loop.id].status \in {"absent", "running"}
  /\ loop.at \in {"upload", "complete"} => snapFiles[loop.id] \notin {None, Torn}
  /\ loop.remote => loop.at = "complete" /\ loop.id \in objects
  /\ loop.expired # {} => loop.at \in {"file", "object", "record"}
  /\ \A s \in loop.expired : Lapsed(s)
  /\ loop.at \in {"object", "record"} => loop.id \in loop.expired

-----------------------------------------------------------------------------
\* A database is a record: what its parts are, and what writing one leaves.
LEMMA ContentsParts ==
  ASSUME NEW c \in Contents
  PROVE  /\ c.applied \in Nat /\ c.canary \in Keys \cup {None} /\ c.sealed \subseteq Keys /\ c.adopted \in BOOLEAN
         /\ c.rows \in [Snapshots -> RowType]
         /\ \A s \in Snapshots :
              /\ c.rows[s].status \in {"absent", "running", "failed", "success"}
              /\ c.rows[s].created \in 0..LastDay /\ c.rows[s].remote \in BOOLEAN
  BY DEF Contents, RowType

LEMMA SnapshotRowWrites ==
  ASSUME NEW c \in Contents, NEW s \in Snapshots, NEW entry \in RowType
  PROVE  LET n == [c EXCEPT !.rows[s] = entry] IN
         /\ n \in Contents
         /\ n.applied = c.applied /\ n.canary = c.canary /\ n.sealed = c.sealed /\ n.adopted = c.adopted
         /\ \A r \in Snapshots : n.rows[r] = IF r = s THEN entry ELSE c.rows[r]
  BY DEF Contents, RowType

LEMMA WriteSealed ==
  ASSUME NEW c \in Contents, NEW k \in Keys
  PROVE  LET n == [c EXCEPT !.sealed = @ \cup {k}] IN
         /\ n \in Contents
         /\ n.applied = c.applied /\ n.canary = c.canary /\ n.adopted = c.adopted /\ n.rows = c.rows
         /\ n.sealed = c.sealed \cup {k}
  BY DEF Contents

LEMMA WriteCanary ==
  ASSUME NEW c \in Contents, NEW k \in Keys
  PROVE  LET n == [c EXCEPT !.canary = k, !.adopted = c.sealed # {}] IN
         /\ n \in Contents /\ (n.adopted <=> c.sealed # {})
         /\ n.applied = c.applied /\ n.canary = k /\ n.rows = c.rows /\ n.sealed = c.sealed
  BY DEF Contents

LEMMA WriteApplied ==
  ASSUME NEW c \in Contents
  PROVE  LET n == [c EXCEPT !.applied = @ + 1] IN
         /\ n \in Contents
         /\ n.applied = c.applied + 1 /\ n.canary = c.canary /\ n.adopted = c.adopted
         /\ n.rows = c.rows /\ n.sealed = c.sealed
  BY DEF Contents

\* The loop is a record too.
LEMMA LoopParts ==
  ASSUME PlaneTypes
  PROVE  /\ loop.id \in Snapshots \cup {None} /\ loop.remote \in BOOLEAN /\ loop.expired \subseteq Snapshots
         /\ Asleep \in LoopType
         /\ Asleep.at = "off" /\ Asleep.id = None /\ Asleep.remote = FALSE /\ Asleep.expired = {}
         /\ \A a \in {"decide", "list", "sleep"} :
              LET l == [Asleep EXCEPT !.at = a] IN
              l \in LoopType /\ l.at = a /\ l.remote = FALSE /\ l.expired = {}
         /\ \A a \in {"decide", "create", "upload", "complete", "fail", "list", "object", "record", "file"} :
              LET l == [loop EXCEPT !.at = a] IN
              l \in LoopType /\ l.at = a /\ l.id = loop.id /\ l.remote = loop.remote /\ l.expired = loop.expired
  BY DEF PlaneTypes, LoopType, Asleep

LEMMA LoopWrites ==
  ASSUME PlaneTypes
  PROVE  /\ \A s \in Snapshots : \A a \in {"vacuum", "object"} :
              LET l == [loop EXCEPT !.at = a, !.id = s] IN
              l \in LoopType /\ l.at = a /\ l.id = s /\ l.remote = loop.remote /\ l.expired = loop.expired
         /\ LET l == [loop EXCEPT !.at = "complete", !.remote = TRUE] IN
            l \in LoopType /\ l.at = "complete" /\ l.id = loop.id /\ l.remote = TRUE /\ l.expired = loop.expired
         /\ \A e \in SUBSET Snapshots :
              LET l == [Asleep EXCEPT !.at = "file", !.expired = e] IN
              l \in LoopType /\ l.at = "file" /\ l.remote = FALSE /\ l.expired = e
         /\ LET l == [loop EXCEPT !.at = "file", !.expired = @ \ {loop.id}] IN
            l \in LoopType /\ l.at = "file" /\ l.remote = loop.remote /\ l.expired = loop.expired \ {loop.id}
<1>1. Asleep \in LoopType /\ Asleep.remote = FALSE
  BY DEF LoopType, Asleep
<1> QED
  BY <1>1 DEF PlaneTypes, LoopType

LEMMA AtMoves ==
  ASSUME PlaneTypes, NEW a \in {"decide", "create", "upload", "complete", "fail", "list", "object", "record", "file"}, At(a)
  PROVE  loop'.at = a /\ loop'.id = loop.id /\ loop'.remote = loop.remote /\ loop'.expired = loop.expired
  BY LoopParts DEF At

LEMMA WriteStatus ==
  ASSUME NEW entry \in RowType, NEW b \in BOOLEAN
  PROVE  /\ LET n == [entry EXCEPT !.status = "failed"] IN
            n \in RowType /\ n.status = "failed" /\ n.created = entry.created
         /\ LET n == [entry EXCEPT !.status = "success", !.remote = b] IN
            n \in RowType /\ n.status = "success" /\ n.remote = b /\ n.created = entry.created
  BY DEF RowType

LEMMA OldestIsLapsed ==
  ASSUME PlaneTypes, loop.expired # {}
  PROVE  NextLapsed \in loop.expired
<1> DEFINE Days == {database.rows[s].created : s \in loop.expired}
<1>1. loop.expired \subseteq Snapshots
  BY LoopParts
<1>2. \A s \in loop.expired : database.rows[s].created \in Nat
  BY <1>1, ContentsParts, ControlPlaneAssumption DEF PlaneTypes
<1>3. Days \subseteq Nat /\ Days # {}
  BY <1>2
<1>4. PICK m \in Days : \A n \in Days : m <= n
  BY <1>3, HasLeast
<1>5. \E s \in loop.expired : \A r \in loop.expired : database.rows[s].created <= database.rows[r].created
  BY <1>4
<1> QED
  BY <1>5 DEF NextLapsed

-----------------------------------------------------------------------------
LEMMA PlaneBegins == PlaneInit => PlaneTypes /\ BootInv /\ RowsInv /\ UsableInv /\ LoopInv
<1> SUFFICES ASSUME PlaneInit PROVE PlaneTypes /\ BootInv /\ RowsInv /\ UsableInv /\ LoopInv
  OBVIOUS
<1> USE ControlPlaneAssumption, FileAssumption
<1>1. NoDatabase \in Contents /\ NoDatabase.canary = None /\ NoDatabase.applied = 0
         /\ \A s \in Snapshots : NoDatabase.rows[s].status = "absent"
  <2>1. NoSnapshot \in RowType /\ NoSnapshot.status = "absent"
    BY DEF NoSnapshot, RowType
  <2> QED
    BY <2>1 DEF NoDatabase, Contents, RowType
<1>2. ASSUME NEW k \in Keys
      PROVE  LET n == [NoDatabase EXCEPT !.applied = CanaryMigration - 1, !.sealed = {k}] IN
             n \in Contents /\ n.canary = NoDatabase.canary /\ n.rows = NoDatabase.rows
  <2>1. CanaryMigration - 1 \in Nat
    OBVIOUS
  <2>2. ASSUME NEW c \in Contents, NEW n \in Nat
        PROVE  LET w == [c EXCEPT !.applied = n, !.sealed = {k}] IN
               w \in Contents /\ w.canary = c.canary /\ w.rows = c.rows
    BY DEF Contents
  <2> QED
    BY <1>1, <2>1, <2>2
<1>3. database \in Contents /\ database.canary = None
         /\ \A s \in Snapshots : database.rows[s].status = "absent"
  BY <1>1, <1>2 DEF PlaneInit
<1>4. Asleep \in LoopType /\ Asleep.at = "off" /\ Asleep.remote = FALSE /\ Asleep.expired = {}
  BY DEF Asleep, LoopType
<1>5. PlaneTypes
  <2>1. snapFiles \in [Snapshots -> Contents \cup {None, Torn}]
    BY DEF PlaneInit
  <2>2. day = 0
    BY DEF PlaneInit
  <2>3. 0 \in 0..LastDay
    <3>1. LastDay \in Nat
      OBVIOUS
    <3> QED
      BY <3>1
  <2> QED
    BY <1>1, <1>3, <1>4, <2>1, <2>2, <2>3 DEF PlaneInit, PlaneTypes
<1>6. Kept = {database}
  BY DEF PlaneInit, Kept
<1>7. BootInv
  BY <1>3, <1>6 DEF PlaneInit, BootInv, KeyRecorded
<1>8. RowsInv /\ UsableInv
  BY <1>3, <1>6 DEF PlaneInit, RowsInv, UsableInv, Absent
<1>9. LoopInv
  BY <1>4 DEF PlaneInit, LoopInv
<1> QED
  BY <1>5, <1>7, <1>8, <1>9

-----------------------------------------------------------------------------
LEMMA PlaneTypesStep == PlaneTypes /\ LoopInv /\ [PlaneNext]_planeState => PlaneTypes'
<1> SUFFICES ASSUME PlaneTypes, LoopInv, [PlaneNext]_planeState PROVE PlaneTypes'
  OBVIOUS
<1> USE DEF snapshotVars, bootVars, planeState
<1>1. CASE OpenSQLite
  BY <1>1 DEF OpenSQLite, PlaneTypes
<1>2. CASE SnapshotBeforeMigrations
  BY <1>2 DEF SnapshotBeforeMigrations, StayDown, PlaneTypes
<1>3. CASE ApplyMigration
  <2>1. database' \in Contents
    BY <1>3, WriteApplied DEF ApplyMigration, StayDown, PlaneTypes
  <2> QED
    BY <1>3, <2>1 DEF ApplyMigration, StayDown, PlaneTypes
<1>4. CASE VerifyOrInitCanary
  <2>3. [database EXCEPT !.canary = envKey, !.adopted = database.sealed # {}] \in Contents
    BY WriteCanary DEF PlaneTypes
  <2>1. database' \in Contents
    BY <1>4, <2>3 DEF VerifyOrInitCanary, Serve, PlaneTypes
  <2>2. loop' \in LoopType
    BY <1>4, LoopParts DEF VerifyOrInitCanary, Serve, PlaneTypes
  <2> QED
    BY <1>4, <2>1, <2>2 DEF VerifyOrInitCanary, Serve, PlaneTypes
<1>5. CASE ServerEnds
  BY <1>5, LoopParts DEF ServerEnds, PlaneTypes
<1>6. CASE Reconfigure
  BY <1>6 DEF Reconfigure, PlaneTypes
<1>7. CASE RestoreControlPlane
  BY <1>7 DEF RestoreControlPlane, PlaneTypes
<1>8. CASE StoreSecret
  <2>1. database' \in Contents
    BY <1>8, WriteSealed DEF StoreSecret, PlaneTypes
  <2> QED
    BY <1>8, <2>1 DEF StoreSecret, PlaneTypes
<1>9. CASE MaybeRunControlPlaneSnapshot
  <2>1. loop' \in LoopType
    BY <1>9, LoopParts DEF MaybeRunControlPlaneSnapshot, At
  <2> QED
    BY <1>9, <2>1 DEF MaybeRunControlPlaneSnapshot, PlaneRest, PlaneTypes
<1>10. CASE CreateControlPlaneSnapshot
  <2> DEFINE s == CHOOSE n \in Snapshots \ attempted : TRUE
             entry == [NoSnapshot EXCEPT !.status = "running", !.created = day]
  <2>1. s \in Snapshots /\ entry \in RowType
    BY <1>10 DEF CreateControlPlaneSnapshot, PlaneTypes, RowType, NoSnapshot
  <2>2. database' \in {database, [database EXCEPT !.rows[s] = entry]}
    BY <1>10 DEF CreateControlPlaneSnapshot, SetRow
  <2> HIDE DEF s, entry
  <2>3. database' \in Contents
    BY <2>1, <2>2, SnapshotRowWrites DEF PlaneTypes
  <2> USE DEF s, entry
  <2>4. [loop EXCEPT !.at = "vacuum", !.id = s] \in LoopType /\ [loop EXCEPT !.at = "list"] \in LoopType
    BY <2>1, LoopParts, LoopWrites
  <2>6. loop' \in LoopType
    BY <1>10, <2>4 DEF CreateControlPlaneSnapshot, At
  <2>5. attempted' \subseteq Snapshots
    BY <1>10, <2>1 DEF CreateControlPlaneSnapshot, PlaneTypes
  <2> QED
    BY <1>10, <2>3, <2>6, <2>5 DEF CreateControlPlaneSnapshot, PlaneRest, PlaneTypes
<1>11. CASE VacuumInto
  <2>1. loop' \in LoopType
    BY <1>11, LoopParts DEF VacuumInto, At
  <2> QED
    BY <1>11, <2>1 DEF VacuumInto, PlaneRest, PlaneTypes
<1>12. CASE RecordFailedSnapshot
  <2>1. loop' \in LoopType
    BY <1>12, LoopParts DEF RecordFailedSnapshot, At
  <2>2. loop.id \in Snapshots
    BY <1>12 DEF RecordFailedSnapshot, LoopInv, PlaneTypes
  <2>3. [database.rows[loop.id] EXCEPT !.status = "failed"] \in RowType
    <3>1. database.rows[loop.id] \in RowType
      BY <2>2, ContentsParts DEF PlaneTypes
    <3> QED
      BY <3>1, WriteStatus
  <2>4. database' \in Contents
    BY <1>12, <2>2, <2>3, SnapshotRowWrites DEF RecordFailedSnapshot, SetRow, PlaneTypes
  <2> QED
    BY <1>12, <2>1, <2>4 DEF RecordFailedSnapshot, PlaneRest, PlaneTypes
<1>13. CASE UploadControlPlaneSnapshot
  <2>2. [loop EXCEPT !.at = "complete", !.remote = TRUE] \in LoopType /\ [loop EXCEPT !.at = "complete"] \in LoopType
    BY LoopParts, LoopWrites
  <2>1. loop' \in LoopType
    BY <1>13, <2>2 DEF UploadControlPlaneSnapshot, At
  <2> QED
    BY <1>13, <2>1 DEF UploadControlPlaneSnapshot, PlaneRest, PlaneTypes
<1>14. CASE CompleteControlPlaneSnapshot
  <2>1. loop' \in LoopType
    BY <1>14, LoopParts DEF CompleteControlPlaneSnapshot
  <2>2. loop.id \in Snapshots
    BY <1>14 DEF CompleteControlPlaneSnapshot, LoopInv, PlaneTypes
  <2>3. [database.rows[loop.id] EXCEPT !.status = "success", !.remote = loop.remote] \in RowType
    <3>1. database.rows[loop.id] \in RowType /\ loop.remote \in BOOLEAN
      BY <2>2, ContentsParts, LoopParts DEF PlaneTypes
    <3> QED
      BY <3>1, WriteStatus
  <2>4. database' \in Contents
    BY <1>14, <2>2, <2>3, SnapshotRowWrites DEF CompleteControlPlaneSnapshot, SetRow, PlaneTypes
  <2> QED
    BY <1>14, <2>1, <2>4 DEF CompleteControlPlaneSnapshot, PlaneRest, PlaneTypes
<1>15. CASE ListExpiredControlPlaneSnapshots
  <2>2. [Asleep EXCEPT !.at = "file", !.expired = {s \in Snapshots : Lapsed(s)}] \in LoopType
    BY LoopWrites
  <2>3. [Asleep EXCEPT !.at = "sleep"] \in LoopType
    BY LoopParts
  <2>1. loop' \in LoopType
    BY <1>15, <2>2, <2>3 DEF ListExpiredControlPlaneSnapshots
  <2> QED
    BY <1>15, <2>1 DEF ListExpiredControlPlaneSnapshots, PlaneRest, PlaneTypes
<1>16. CASE RemoveSnapshotFile
  <2>1. loop.expired = {} \/ NextLapsed \in Snapshots
    BY OldestIsLapsed, LoopParts
  <2>4. loop.expired # {} => [loop EXCEPT !.at = "object", !.id = NextLapsed] \in LoopType
    BY <2>1, LoopWrites
  <2>5. [Asleep EXCEPT !.at = "sleep"] \in LoopType
    BY LoopParts
  <2>2. loop' \in LoopType
    BY <1>16, <2>4, <2>5 DEF RemoveSnapshotFile
  <2>3. snapFiles' \in [Snapshots -> Contents \cup {None, Torn}]
    BY <1>16 DEF RemoveSnapshotFile, PlaneTypes
  <2> QED
    BY <1>16, <2>2, <2>3 DEF RemoveSnapshotFile, PlaneRest, PlaneTypes
<1>17. CASE DeleteRemoteSnapshot
  <2>1. loop' \in LoopType
    BY <1>17, LoopParts DEF DeleteRemoteSnapshot, At
  <2> QED
    BY <1>17, <2>1 DEF DeleteRemoteSnapshot, PlaneRest, PlaneTypes
<1>18. CASE DeleteControlPlaneSnapshotRecord
  <2>1. loop' \in LoopType
    BY <1>18, LoopWrites DEF DeleteControlPlaneSnapshotRecord
  <2>2. loop.id \in Snapshots
    BY <1>18, LoopParts DEF DeleteControlPlaneSnapshotRecord, LoopInv
  <2>3. NoSnapshot \in RowType
    BY ControlPlaneAssumption DEF NoSnapshot, RowType
  <2>4. database' \in Contents
    BY <1>18, <2>2, <2>3, SnapshotRowWrites DEF DeleteControlPlaneSnapshotRecord, SetRow, PlaneTypes
  <2> QED
    BY <1>18, <2>1, <2>4 DEF DeleteControlPlaneSnapshotRecord, PlaneRest, PlaneTypes
<1>19. CASE DayPasses
  <2>1. loop' \in LoopType
    BY <1>19, LoopParts DEF DayPasses, PlaneTypes
  <2>2. day' \in 0..LastDay
    BY <1>19, ControlPlaneAssumption DEF DayPasses, PlaneTypes
  <2> QED
    BY <1>19, <2>1, <2>2 DEF DayPasses, PlaneTypes
<1>20. CASE UNCHANGED planeState
  BY <1>20 DEF PlaneTypes
<1> QED
  BY <1>1, <1>2, <1>3, <1>4, <1>5, <1>6, <1>7, <1>8, <1>9, <1>10, <1>11, <1>12, <1>13, <1>14, <1>15,
     <1>16, <1>17, <1>18, <1>19, <1>20 DEF PlaneNext, Starting, SnapshotLoop

-----------------------------------------------------------------------------
\* Only the database in use changes; a copy is of what it was.
LEMMA FileSteps ==
  ASSUME PlaneTypes, [PlaneNext]_planeState
  PROVE  /\ preFiles \subseteq preFiles' /\ preFiles' \subseteq preFiles \cup {database}
         /\ \A s \in Snapshots : snapFiles'[s] \in {snapFiles[s], None, Torn, database}
<1> USE DEF snapshotVars, bootVars, planeState, PlaneRest, PlaneTypes
<1>1. CASE Starting
  BY <1>1 DEF Starting, OpenSQLite, SnapshotBeforeMigrations, ApplyMigration, VerifyOrInitCanary, StayDown
<1>2. CASE ServerEnds \/ Reconfigure \/ RestoreControlPlane \/ StoreSecret
  BY <1>2 DEF ServerEnds, Reconfigure, RestoreControlPlane, StoreSecret
<1>3. CASE VacuumInto \/ RemoveSnapshotFile
  BY <1>3 DEF VacuumInto, RemoveSnapshotFile
<1>4. CASE MaybeRunControlPlaneSnapshot \/ CreateControlPlaneSnapshot \/ RecordFailedSnapshot
             \/ UploadControlPlaneSnapshot \/ CompleteControlPlaneSnapshot \/ ListExpiredControlPlaneSnapshots
  BY <1>4 DEF MaybeRunControlPlaneSnapshot, CreateControlPlaneSnapshot, RecordFailedSnapshot,
       UploadControlPlaneSnapshot, CompleteControlPlaneSnapshot, ListExpiredControlPlaneSnapshots
<1>5. CASE DeleteRemoteSnapshot \/ DeleteControlPlaneSnapshotRecord \/ DayPasses \/ UNCHANGED planeState
  BY <1>5 DEF DeleteRemoteSnapshot, DeleteControlPlaneSnapshotRecord, DayPasses
<1> QED
  BY <1>1, <1>2, <1>3, <1>4, <1>5 DEF PlaneNext, SnapshotLoop

LEMMA KeptSteps ==
  ASSUME PlaneTypes, [PlaneNext]_planeState
  PROVE  Kept' \subseteq Kept \cup {database'}
<1> SUFFICES ASSUME NEW c \in Kept', c # database' PROVE c \in Kept
  OBVIOUS
<1>1. CASE c \in preFiles'
  BY <1>1, FileSteps DEF Kept
<1>2. CASE c \notin preFiles'
  <2>1. PICK s \in Snapshots : c = snapFiles'[s] /\ c \notin {None, Torn}
    BY <1>2 DEF Kept
  <2>2. c \in {snapFiles[s], database}
    BY <2>1, FileSteps
  <2> QED
    BY <2>1, <2>2 DEF Kept
<1> QED
  BY <1>1, <1>2

LEMMA KeptAreContents == PlaneTypes => Kept \subseteq Contents
  BY DEF PlaneTypes, Kept

\* The steps of the loop that write a row; a restore brings back rows that
\* are kept; nothing else touches one.
Writing ==
  \/ CreateControlPlaneSnapshot \/ RecordFailedSnapshot
  \/ CompleteControlPlaneSnapshot \/ DeleteControlPlaneSnapshotRecord

LEMMA OldRows ==
  ASSUME PlaneTypes, [PlaneNext]_planeState
  PROVE  \/ Writing
         \/ attempted' = attempted /\ RestoreControlPlane /\ server = "down" /\ database' \in Kept
         \/ attempted' = attempted /\ database'.rows = database.rows /\ database' \in Contents
<1> USE DEF snapshotVars, bootVars, planeState, PlaneRest, PlaneTypes
<1>1. CASE OpenSQLite \/ SnapshotBeforeMigrations
  BY <1>1 DEF OpenSQLite, SnapshotBeforeMigrations, StayDown
<1>2. CASE ApplyMigration
  BY <1>2, WriteApplied DEF ApplyMigration, StayDown
<1>3. CASE VerifyOrInitCanary
  <2>1. LET n == [database EXCEPT !.canary = envKey, !.adopted = database.sealed # {}] IN
        n \in Contents /\ n.rows = database.rows
    BY WriteCanary
  <2> QED
    BY <1>3, <2>1 DEF VerifyOrInitCanary, Serve
<1>4. CASE StoreSecret
  BY <1>4, WriteSealed DEF StoreSecret
<1>5. CASE RestoreControlPlane
  BY <1>5 DEF RestoreControlPlane, Kept
<1>6. CASE ServerEnds \/ Reconfigure \/ DayPasses \/ UNCHANGED planeState
  BY <1>6 DEF ServerEnds, Reconfigure, DayPasses
<1>7. CASE MaybeRunControlPlaneSnapshot \/ VacuumInto \/ UploadControlPlaneSnapshot
             \/ ListExpiredControlPlaneSnapshots \/ RemoveSnapshotFile \/ DeleteRemoteSnapshot
  BY <1>7 DEF MaybeRunControlPlaneSnapshot, VacuumInto, UploadControlPlaneSnapshot,
       ListExpiredControlPlaneSnapshots, RemoveSnapshotFile, DeleteRemoteSnapshot
<1> QED
  BY <1>1, <1>2, <1>3, <1>4, <1>5, <1>6, <1>7 DEF PlaneNext, Starting, SnapshotLoop, Writing

\* What the steps that write a row make of the database.
LEMMA RowWrites ==
  ASSUME PlaneTypes, LoopInv, Writing
  PROVE  /\ server = "serving" /\ UNCHANGED <<snapFiles, objects, preFiles, before, binary, envKey, server, day>>
         /\ database' \in Contents /\ database'.applied = database.applied /\ database'.canary = database.canary
         /\ database'.sealed = database.sealed /\ database'.adopted = database.adopted
         /\ \/ attempted' = attempted /\ database' = database
            \/ CreateControlPlaneSnapshot /\ \E s \in Snapshots \ attempted :
                 /\ attempted' = attempted \cup {s}
                 /\ loop'.at = "vacuum" => loop'.id = s
                 /\ database'.rows[s].status = "running"
                 /\ \A r \in Snapshots \ {s} : database'.rows[r] = database.rows[r]
            \/ /\ attempted' = attempted /\ loop.id \in Snapshots
               /\ \/ RecordFailedSnapshot /\ database'.rows[loop.id].status = "failed"
                       /\ database'.rows[loop.id].created = database.rows[loop.id].created
                  \/ CompleteControlPlaneSnapshot /\ database'.rows[loop.id].status = "success"
                       /\ database'.rows[loop.id].created = database.rows[loop.id].created
                       /\ database'.rows[loop.id].remote = loop.remote
                  \/ DeleteControlPlaneSnapshotRecord /\ database'.rows[loop.id].status = "absent"
               /\ \A r \in Snapshots \ {loop.id} : database'.rows[r] = database.rows[r]
<1> USE DEF bootVars, PlaneRest
<1>1. CASE CreateControlPlaneSnapshot
  <2> DEFINE s == CHOOSE n \in Snapshots \ attempted : TRUE
             entry == [NoSnapshot EXCEPT !.status = "running", !.created = day]
  <2>1. s \in Snapshots \ attempted /\ entry \in RowType /\ entry.status = "running"
    BY <1>1 DEF CreateControlPlaneSnapshot, PlaneTypes, RowType, NoSnapshot
  <2>2. \/ database' = [database EXCEPT !.rows[s] = entry] /\ attempted' = attempted \cup {s}
        \/ UNCHANGED <<database, attempted>>
    BY <1>1 DEF CreateControlPlaneSnapshot, SetRow
  <2>3. loop'.at = "vacuum" => loop'.id = s /\ attempted' = attempted \cup {s}
    BY <1>1, <2>1, LoopParts DEF CreateControlPlaneSnapshot, At, PlaneTypes, LoopType
  <2> HIDE DEF s, entry
  <2>4. CASE database' = [database EXCEPT !.rows[s] = entry] /\ attempted' = attempted \cup {s}
    <3>1. /\ database' \in Contents /\ database'.applied = database.applied /\ database'.canary = database.canary
          /\ database'.sealed = database.sealed /\ database'.adopted = database.adopted
          /\ \A r \in Snapshots : database'.rows[r] = IF r = s THEN entry ELSE database.rows[r]
      BY <2>1, <2>4, SnapshotRowWrites DEF PlaneTypes
    <3> QED
      BY <1>1, <2>1, <2>3, <2>4, <3>1 DEF CreateControlPlaneSnapshot
  <2>5. CASE UNCHANGED <<database, attempted>>
    BY <1>1, <2>5 DEF CreateControlPlaneSnapshot, PlaneTypes
  <2> QED
    BY <2>2, <2>4, <2>5
<1>2. CASE RecordFailedSnapshot
  <2> DEFINE entry == [database.rows[loop.id] EXCEPT !.status = "failed"]
  <2>1. loop.id \in Snapshots
    BY <1>2 DEF RecordFailedSnapshot, LoopInv, PlaneTypes
  <2>2. entry \in RowType /\ entry.status = "failed" /\ entry.created = database.rows[loop.id].created
    <3>1. database.rows[loop.id] \in RowType
      BY <2>1, ContentsParts DEF PlaneTypes
    <3> QED
      BY <3>1, WriteStatus
  <2>3. database' = [database EXCEPT !.rows[loop.id] = entry] \/ UNCHANGED database
    BY <1>2 DEF RecordFailedSnapshot, SetRow
  <2> HIDE DEF entry
  <2>4. CASE database' = [database EXCEPT !.rows[loop.id] = entry]
    BY <1>2, <2>1, <2>2, <2>4, SnapshotRowWrites DEF PlaneTypes, RecordFailedSnapshot
  <2> QED
    BY <1>2, <2>3, <2>4 DEF RecordFailedSnapshot, PlaneTypes
<1>3. CASE CompleteControlPlaneSnapshot
  <2> DEFINE entry == [database.rows[loop.id] EXCEPT !.status = "success", !.remote = loop.remote]
  <2>1. loop.id \in Snapshots
    BY <1>3 DEF CompleteControlPlaneSnapshot, LoopInv, PlaneTypes
  <2>5. database.rows[loop.id] \in RowType /\ loop.remote \in BOOLEAN
    BY <2>1, ContentsParts, LoopParts DEF PlaneTypes
  <2>2. entry \in RowType /\ entry.status = "success" /\ entry.created = database.rows[loop.id].created /\ entry.remote = loop.remote
    BY <2>5, WriteStatus
  <2>3. database' = [database EXCEPT !.rows[loop.id] = entry] \/ UNCHANGED database
    BY <1>3 DEF CompleteControlPlaneSnapshot, SetRow
  <2> HIDE DEF entry
  <2>4. CASE database' = [database EXCEPT !.rows[loop.id] = entry]
    BY <1>3, <2>1, <2>2, <2>4, SnapshotRowWrites DEF PlaneTypes, CompleteControlPlaneSnapshot
  <2> QED
    BY <1>3, <2>3, <2>4 DEF CompleteControlPlaneSnapshot, PlaneTypes
<1>4. CASE DeleteControlPlaneSnapshotRecord
  <2>1. loop.id \in Snapshots
    BY <1>4, LoopParts DEF DeleteControlPlaneSnapshotRecord, LoopInv
  <2>2. NoSnapshot \in RowType /\ NoSnapshot.status = "absent"
    BY ControlPlaneAssumption DEF NoSnapshot, RowType
  <2>3. database' = [database EXCEPT !.rows[loop.id] = NoSnapshot] \/ UNCHANGED database
    BY <1>4 DEF DeleteControlPlaneSnapshotRecord, SetRow
  <2>4. CASE database' = [database EXCEPT !.rows[loop.id] = NoSnapshot]
    BY <1>4, <2>1, <2>2, <2>4, SnapshotRowWrites DEF PlaneTypes, DeleteControlPlaneSnapshotRecord
  <2> QED
    BY <1>4, <2>3, <2>4 DEF DeleteControlPlaneSnapshotRecord, PlaneTypes
<1> QED
  BY <1>1, <1>2, <1>3, <1>4 DEF Writing

-----------------------------------------------------------------------------
\* Every row of a kept database comes from an older one, or from the attempt
\* that is under way.
LEMMA RowsInvStep == PlaneTypes /\ LoopInv /\ RowsInv /\ [PlaneNext]_planeState => RowsInv'
<1> SUFFICES ASSUME PlaneTypes, LoopInv, RowsInv, [PlaneNext]_planeState PROVE RowsInv'
  OBVIOUS
<1> DEFINE Known1(c, s) == ~Absent(c, s) =>
             /\ s \in attempted'
             /\ \A d \in Kept' : ~Absent(d, s) => d.rows[s].created = c.rows[s].created
<1>1. objects' \subseteq attempted'
  <2>1. CASE UploadControlPlaneSnapshot
    BY <2>1 DEF UploadControlPlaneSnapshot, LoopInv, RowsInv
  <2>2. CASE ~UploadControlPlaneSnapshot
    <3>1. objects' \subseteq objects
      <4> USE DEF snapshotVars, bootVars, planeState
      <4>1. CASE Starting \/ ServerEnds \/ Reconfigure \/ RestoreControlPlane \/ StoreSecret \/ UNCHANGED planeState
        BY <4>1 DEF Starting, OpenSQLite, SnapshotBeforeMigrations, ApplyMigration, VerifyOrInitCanary,
             ServerEnds, Reconfigure, RestoreControlPlane, StoreSecret
      <4>2. CASE SnapshotLoop
        BY <4>2, <2>2 DEF SnapshotLoop, MaybeRunControlPlaneSnapshot, CreateControlPlaneSnapshot, VacuumInto,
             RecordFailedSnapshot, CompleteControlPlaneSnapshot, ListExpiredControlPlaneSnapshots,
             RemoveSnapshotFile, DeleteRemoteSnapshot, DeleteControlPlaneSnapshotRecord, DayPasses
      <4> QED
        BY <4>1, <4>2 DEF PlaneNext
    <3>2. attempted \subseteq attempted'
      BY OldRows, RowWrites
    <3> QED
      BY <3>1, <3>2 DEF RowsInv
  <2> QED
    BY <2>1, <2>2
<1>2. Kept' \subseteq Kept \cup {database'} /\ database \in Kept
  BY KeptSteps DEF Kept
<1>3. ASSUME attempted' = attempted,
             NEW b \in Kept, \A s \in Snapshots :
               \/ Absent(database', s)
               \/ ~Absent(b, s) /\ database'.rows[s].created = b.rows[s].created
      PROVE  \A c \in Kept', s \in Snapshots : Known1(c, s)
  <2> SUFFICES ASSUME NEW c \in Kept', NEW s \in Snapshots, ~Absent(c, s)
               PROVE  s \in attempted' /\ \A d \in Kept' : ~Absent(d, s) => d.rows[s].created = c.rows[s].created
    OBVIOUS
  <2>1. ASSUME NEW d \in Kept', ~Absent(d, s)
        PROVE  \E e \in Kept : ~Absent(e, s) /\ e.rows[s].created = d.rows[s].created
    BY <1>2, <1>3, <2>1
  <2> QED
    BY <1>3, <2>1 DEF RowsInv
<1>4. CASE Writing
  <2>1. CASE attempted' = attempted /\ database' = database
    BY <1>1, <1>2, <1>3, <2>1 DEF RowsInv
  <2>2. ASSUME NEW s \in Snapshots \ attempted, attempted' = attempted \cup {s},
               \A r \in Snapshots \ {s} : database'.rows[r] = database.rows[r]
        PROVE  RowsInv'
    <3>1. \A c \in Kept : Absent(c, s)
      BY DEF RowsInv
    <3>2. \A c \in Kept' : ~Absent(c, s) => c = database'
      BY <1>2, <3>1
    <3>3. ASSUME NEW r \in Snapshots, r # s, NEW c \in Kept', ~Absent(c, r)
          PROVE  r \in attempted /\ \A d \in Kept' : ~Absent(d, r) => d.rows[r].created = c.rows[r].created
      <4>1. \A d \in Kept' : \E e \in Kept : e.rows[r] = d.rows[r]
        BY <1>2, <2>2, <3>3
      <4> QED
        BY <3>3, <4>1 DEF RowsInv, Absent
    <3> QED
      BY <1>1, <2>2, <3>2, <3>3 DEF RowsInv, Absent
  <2>3. ASSUME attempted' = attempted, loop.id \in Snapshots,
               \/ DeleteControlPlaneSnapshotRecord /\ database'.rows[loop.id].status = "absent"
               \/ /\ RecordFailedSnapshot \/ CompleteControlPlaneSnapshot
                  /\ database'.rows[loop.id].created = database.rows[loop.id].created,
               \A r \in Snapshots \ {loop.id} : database'.rows[r] = database.rows[r]
        PROVE  RowsInv'
    <3>1. \/ Absent(database', loop.id)
          \/ ~Absent(database, loop.id) /\ database'.rows[loop.id].created = database.rows[loop.id].created
      BY <2>3 DEF Absent, LoopInv, RecordFailedSnapshot, CompleteControlPlaneSnapshot
    <3>2. \A s \in Snapshots : Absent(database', s)
             \/ (~Absent(database, s) /\ database'.rows[s].created = database.rows[s].created)
      BY <2>3, <3>1 DEF Absent
    <3> QED
      BY <1>1, <1>2, <1>3, <2>3, <3>2 DEF RowsInv
  <2> QED
    BY <1>4, <2>1, <2>2, <2>3, RowWrites
<1>5. CASE attempted' = attempted /\ database' \in Kept
  BY <1>1, <1>2, <1>3, <1>5 DEF RowsInv
<1>6. CASE attempted' = attempted /\ database'.rows = database.rows
  <2>1. \A s \in Snapshots : Absent(database', s)
           \/ (~Absent(database, s) /\ database'.rows[s].created = database.rows[s].created)
    BY <1>6 DEF Absent
  <2> QED
    BY <1>1, <1>2, <1>3, <1>6, <2>1 DEF RowsInv
<1> QED
  BY <1>4, <1>5, <1>6, OldRows

-----------------------------------------------------------------------------
\* A file or an object goes only when its snapshot has lapsed; a file that is
\* written anew has no row that calls it a success.
LEMMA PurgeSteps ==
  ASSUME PlaneTypes, LoopInv, [PlaneNext]_planeState, NEW s \in Snapshots
  PROVE  /\ day' \in Nat /\ day \in Nat /\ day' >= day
         /\ \/ /\ snapFiles[s] \notin {None, Torn} => snapFiles'[s] \notin {None, Torn}
               /\ s \in objects => s \in objects'
            \/ Lapsed(s)
            \/ loop.at = "vacuum" /\ s = loop.id
<1> USE DEF snapshotVars, bootVars, planeState, PlaneRest
<1>1. day \in Nat
  BY ControlPlaneAssumption DEF PlaneTypes
<1>2. CASE DayPasses
  BY <1>1, <1>2 DEF DayPasses
<1>3. CASE Starting \/ Reconfigure \/ RestoreControlPlane \/ StoreSecret \/ UNCHANGED planeState
  BY <1>1, <1>3 DEF Starting, OpenSQLite, SnapshotBeforeMigrations, ApplyMigration, VerifyOrInitCanary,
       Reconfigure, RestoreControlPlane, StoreSecret
<1>4. CASE ServerEnds
  BY <1>1, <1>4 DEF ServerEnds, PlaneTypes
<1>5. CASE VacuumInto
  BY <1>1, <1>5 DEF VacuumInto, PlaneTypes
<1>6. CASE RemoveSnapshotFile
  <2>1. loop.expired = {} \/ Lapsed(NextLapsed)
    BY OldestIsLapsed DEF LoopInv
  <2> QED
    BY <1>1, <1>6, <2>1 DEF RemoveSnapshotFile, PlaneTypes
<1>7. CASE DeleteRemoteSnapshot
  BY <1>1, <1>7 DEF DeleteRemoteSnapshot, LoopInv
<1>8. CASE UploadControlPlaneSnapshot
  BY <1>1, <1>8 DEF UploadControlPlaneSnapshot
<1>9. CASE \/ MaybeRunControlPlaneSnapshot \/ CreateControlPlaneSnapshot \/ RecordFailedSnapshot
           \/ CompleteControlPlaneSnapshot \/ ListExpiredControlPlaneSnapshots \/ DeleteControlPlaneSnapshotRecord
  BY <1>1, <1>9 DEF MaybeRunControlPlaneSnapshot, CreateControlPlaneSnapshot, RecordFailedSnapshot,
       CompleteControlPlaneSnapshot, ListExpiredControlPlaneSnapshots, DeleteControlPlaneSnapshotRecord
<1> QED
  BY <1>2, <1>3, <1>4, <1>5, <1>6, <1>7, <1>8, <1>9 DEF PlaneNext, SnapshotLoop

LEMMA UsableInvStep ==
  PlaneTypes /\ LoopInv /\ RowsInv /\ UsableInv /\ [PlaneNext]_planeState => UsableInv'
<1> SUFFICES ASSUME PlaneTypes, LoopInv, RowsInv, UsableInv, [PlaneNext]_planeState,
                    NEW c \in Kept', NEW s \in Snapshots, c.rows[s].status = "success"
             PROVE  \/ c.rows[s].created + Retention <= day'
                    \/ snapFiles'[s] \notin {None, Torn} /\ (c.rows[s].remote => s \in objects')
  BY DEF UsableInv
<1>1. c \in Kept \/ c = database'
  BY KeptSteps
<1>2. ASSUME NEW e \in Kept, e.rows[s] = c.rows[s]
      PROVE  \/ c.rows[s].created + Retention <= day'
             \/ snapFiles'[s] \notin {None, Torn} /\ (c.rows[s].remote => s \in objects')
  <2>1. e.rows[s].created \in Nat /\ Retention \in Nat /\ day \in Nat /\ day' \in Nat /\ day' >= day
    BY KeptAreContents, ContentsParts, ControlPlaneAssumption, PurgeSteps
  <2>2. CASE e.rows[s].created + Retention <= day
    BY <1>2, <2>1, <2>2
  <2>3. CASE ~(e.rows[s].created + Retention <= day)
    <3>1. snapFiles[s] \notin {None, Torn} /\ (e.rows[s].remote => s \in objects)
      BY <1>2, <2>3 DEF UsableInv
    <3>2. ~Lapsed(s)
      <4>1. database \in Kept
        BY DEF Kept
      <4>2. Lapsed(s) => database.rows[s].created = e.rows[s].created
        BY <1>2, <4>1 DEF RowsInv, Absent, Lapsed
      <4> QED
        BY <2>3, <4>2 DEF Lapsed
    <3>3. ~(loop.at = "vacuum" /\ s = loop.id)
      BY <1>2 DEF LoopInv
    <3> QED
      BY <1>2, <3>1, <3>2, <3>3, PurgeSteps
  <2> QED
    BY <2>2, <2>3
<1>3. CASE c \in Kept \/ database' \in Kept \/ database'.rows = database.rows
  <2>1. \E e \in Kept : e.rows[s] = c.rows[s]
    BY <1>1, <1>3 DEF Kept
  <2> QED
    BY <1>2, <2>1
<1>4. CASE c = database' /\ Writing /\ database'.rows[s] # database.rows[s]
  <2>1. CompleteControlPlaneSnapshot /\ s = loop.id /\ c.rows[s].remote = loop.remote
    BY <1>4, RowWrites
  <2>2. UNCHANGED <<snapFiles, objects>>
    BY <1>4, RowWrites
  <2> QED
    BY <2>1, <2>2 DEF CompleteControlPlaneSnapshot, LoopInv
<1>5. database'.rows[s] = database.rows[s] => \E e \in Kept : e.rows[s] = database'.rows[s]
  BY DEF Kept
<1> QED
  BY <1>1, <1>2, <1>3, <1>4, <1>5, OldRows

Resting(l) == l.at \in {"off", "decide", "create", "list", "sleep"} /\ ~l.remote /\ l.expired = {}

LEMMA LoopInvStep == PlaneTypes /\ LoopInv /\ RowsInv /\ [PlaneNext]_planeState => LoopInv'
<1> SUFFICES ASSUME PlaneTypes, LoopInv, RowsInv, [PlaneNext]_planeState PROVE LoopInv'
  OBVIOUS
<1> USE DEF snapshotVars, bootVars, planeState, PlaneRest
<1>1. Kept' \subseteq Kept \cup {database'} /\ database \in Kept
  BY KeptSteps DEF Kept
<1>2. ASSUME loop' = loop, server' = server, database'.rows = database.rows, UNCHANGED <<snapFiles, objects, attempted, day>>
      PROVE  LoopInv'
  BY <1>1, <1>2 DEF LoopInv, Absent, Lapsed
<1>3. ASSUME Resting(loop'), loop'.at = "off" <=> server' # "serving"
      PROVE  LoopInv'
  BY <1>3 DEF LoopInv, Resting
<1>4. loop.at = "off" => Resting(loop) /\ server # "serving"
  BY LoopParts DEF LoopInv, Resting
<1>5. CASE OpenSQLite \/ SnapshotBeforeMigrations \/ ApplyMigration \/ RestoreControlPlane
  <2>1. loop' = loop /\ server # "serving" /\ server' # "serving"
    BY <1>5 DEF OpenSQLite, SnapshotBeforeMigrations, ApplyMigration, RestoreControlPlane, StayDown
  <2>2. loop.at = "off"
    BY <2>1 DEF LoopInv
  <2> QED
    BY <1>3, <1>4, <2>1, <2>2
<1>6. CASE Reconfigure \/ UNCHANGED planeState
  BY <1>2, <1>6 DEF Reconfigure
<1>7. CASE StoreSecret
  <2>1. database'.rows = database.rows
    BY <1>7, WriteSealed DEF StoreSecret, PlaneTypes
  <2> QED
    BY <1>2, <1>7, <2>1 DEF StoreSecret
<1>8. CASE VerifyOrInitCanary
  <2>1. CASE loop' = loop /\ server' = "down"
    <3>1. loop.at = "off"
      BY <1>8 DEF VerifyOrInitCanary, LoopInv
    <3> QED
      BY <1>3, <1>4, <2>1, <3>1
  <2>2. CASE Serve
    BY <1>3, <2>2, LoopParts DEF Serve, Resting
  <2> QED
    BY <1>8, <2>1, <2>2 DEF VerifyOrInitCanary
<1>9. CASE ServerEnds
  BY <1>3, <1>9, LoopParts DEF ServerEnds, Resting
<1>10. CASE DayPasses
  <2>1. CASE server = "serving"
    BY <1>3, <1>10, <2>1, LoopParts DEF DayPasses, Resting
  <2>2. CASE server # "serving"
    BY <1>3, <1>4, <1>10, <2>2 DEF DayPasses, LoopInv
  <2> QED
    BY <2>1, <2>2
<1>11. CASE MaybeRunControlPlaneSnapshot
  <2>1. ~loop.remote /\ loop.expired = {}
    BY <1>11 DEF MaybeRunControlPlaneSnapshot, LoopInv
  <2>2. Resting(loop') /\ loop'.at # "off"
    <3>1. PICK a \in {"list", "create"} : At(a)
      BY <1>11 DEF MaybeRunControlPlaneSnapshot
    <3> QED
      BY <2>1, <3>1, AtMoves DEF Resting
  <2> QED
    BY <1>3, <1>11, <2>2 DEF MaybeRunControlPlaneSnapshot
<1>12. CASE CreateControlPlaneSnapshot
  <2>1. ~loop.remote /\ loop.expired = {} /\ server' = "serving"
    BY <1>12 DEF CreateControlPlaneSnapshot, LoopInv
  <2>2. CASE loop'.at = "list"
    <3>1. PICK n \in Snapshots : loop' = [loop EXCEPT !.at = "vacuum", !.id = n] \/ At("list")
      BY <1>12 DEF CreateControlPlaneSnapshot, PlaneTypes
    <3>2. At("list")
      BY <2>2, <3>1, LoopWrites
    <3> QED
      BY <1>3, <2>1, <3>2, AtMoves DEF Resting
  <2>3. CASE loop'.at # "list"
    <3> DEFINE s == CHOOSE n \in Snapshots \ attempted : TRUE
               entry == [NoSnapshot EXCEPT !.status = "running", !.created = day]
    <3>1. s \in Snapshots \ attempted /\ entry \in RowType /\ entry.status = "running"
      BY <1>12 DEF CreateControlPlaneSnapshot, PlaneTypes, RowType, NoSnapshot
    <3>2. /\ database' = [database EXCEPT !.rows[s] = entry] /\ attempted' = attempted \cup {s}
          /\ loop' = [loop EXCEPT !.at = "vacuum", !.id = s]
      BY <1>12, <2>3, LoopParts DEF CreateControlPlaneSnapshot, SetRow, At
    <3> HIDE DEF s, entry
    <3>3. loop'.at = "vacuum" /\ loop'.id = s /\ loop'.remote = loop.remote /\ loop'.expired = loop.expired
      BY <3>1, <3>2, LoopWrites
    <3>4. database'.rows[s].status = "running"
      BY <3>1, <3>2, SnapshotRowWrites DEF PlaneTypes
    <3>5. \A c \in Kept : c.rows[s].status = "absent"
      BY <3>1 DEF RowsInv, Absent
    <3>6. \A c \in Kept' : c.rows[s].status \in {"absent", "running"}
      BY <1>1, <3>4, <3>5
    <3>7. s \in attempted' /\ ~Absent(database', s)
      BY <3>2, <3>4 DEF Absent
    <3> QED
      BY <2>1, <3>3, <3>6, <3>7 DEF LoopInv, Absent
  <2> QED
    BY <2>2, <2>3
<1>13. ASSUME VacuumInto \/ UploadControlPlaneSnapshot
       PROVE  LoopInv'
  <2>1. /\ loop.id \in attempted /\ ~Absent(database, loop.id) /\ loop.id \in Snapshots
        /\ \A c \in Kept : c.rows[loop.id].status \in {"absent", "running"}
        /\ ~loop.remote /\ loop.expired = {}
    BY <1>13 DEF VacuumInto, UploadControlPlaneSnapshot, LoopInv, PlaneTypes
  <2>2. database' = database /\ attempted' = attempted /\ server = "serving" /\ server' = server
    BY <1>13 DEF VacuumInto, UploadControlPlaneSnapshot
  <2>3. \/ (\E a \in {"upload", "fail", "complete"} : At(a))
        \/ UploadControlPlaneSnapshot /\ loop' = [loop EXCEPT !.at = "complete", !.remote = TRUE] /\ loop.id \in objects'
    BY <1>13 DEF VacuumInto, UploadControlPlaneSnapshot
  <2>4. /\ loop'.at \in {"upload", "fail", "complete"} /\ loop'.id = loop.id /\ loop'.expired = {}
        /\ loop'.remote => loop'.at = "complete" /\ loop.id \in objects'
    BY <2>1, <2>3, AtMoves, LoopWrites
  <2>5. loop'.at \in {"upload", "complete"} => snapFiles'[loop.id] \notin {None, Torn}
    <3>1. CASE VacuumInto
      <4>1. (At("upload") /\ snapFiles'[loop.id] = database) \/ At("fail")
        BY <2>1, <3>1 DEF VacuumInto, PlaneTypes
      <4> QED
        BY <4>1, AtMoves, FileAssumption DEF PlaneTypes
    <3>2. CASE UploadControlPlaneSnapshot
      BY <3>2 DEF UploadControlPlaneSnapshot, LoopInv
    <3> QED
      BY <1>13, <3>1, <3>2
  <2> QED
    BY <1>1, <2>1, <2>2, <2>4, <2>5 DEF LoopInv, Absent
<1>14. CASE RecordFailedSnapshot
  <2>1. ~loop.remote /\ loop.expired = {} /\ server' = "serving"
    BY <1>14 DEF RecordFailedSnapshot, LoopInv
  <2> QED
    BY <1>3, <1>14, <2>1, LoopParts DEF RecordFailedSnapshot, At, Resting
<1>15. CASE CompleteControlPlaneSnapshot
  BY <1>3, <1>15, LoopParts DEF CompleteControlPlaneSnapshot, Resting
<1>16. CASE ListExpiredControlPlaneSnapshots
  <2>1. CASE loop' = [Asleep EXCEPT !.at = "sleep"]
    BY <1>3, <1>16, <2>1, LoopParts DEF ListExpiredControlPlaneSnapshots, Resting
  <2>2. CASE loop' = [Asleep EXCEPT !.at = "file", !.expired = {s \in Snapshots : Lapsed(s)}]
    <3>1. loop'.at = "file" /\ ~loop'.remote /\ loop'.expired = {s \in Snapshots : Lapsed(s)}
      BY <2>2, LoopWrites
    <3> QED
      BY <1>16, <3>1 DEF ListExpiredControlPlaneSnapshots, LoopInv, Lapsed
  <2> QED
    BY <1>16, <2>1, <2>2 DEF ListExpiredControlPlaneSnapshots
<1>17. CASE RemoveSnapshotFile
  <2>1. CASE loop.expired = {}
    BY <1>3, <1>17, <2>1, LoopParts DEF RemoveSnapshotFile, Resting
  <2>2. CASE loop.expired # {}
    <3>1. NextLapsed \in loop.expired /\ NextLapsed \in Snapshots
      BY <2>2, OldestIsLapsed, LoopParts
    <3>2. loop'.at = "object" /\ loop'.id = NextLapsed /\ loop'.remote = loop.remote /\ loop'.expired = loop.expired
      <4>1. loop' = [loop EXCEPT !.at = "object", !.id = NextLapsed]
        BY <1>17, <2>2 DEF RemoveSnapshotFile
      <4> QED
        BY <3>1, <4>1, LoopWrites
    <3>3. ~loop.remote
      BY <1>17 DEF RemoveSnapshotFile, LoopInv
    <3> QED
      BY <1>17, <3>1, <3>2, <3>3 DEF RemoveSnapshotFile, LoopInv, Lapsed
  <2> QED
    BY <2>1, <2>2
<1>18. CASE DeleteRemoteSnapshot
  <2>1. loop'.at = "record" /\ loop'.id = loop.id /\ loop'.remote = loop.remote /\ loop'.expired = loop.expired
    BY <1>18, LoopParts DEF DeleteRemoteSnapshot, At
  <2> QED
    BY <1>18, <2>1 DEF DeleteRemoteSnapshot, LoopInv, Lapsed
<1>19. CASE DeleteControlPlaneSnapshotRecord
  <2>1. loop'.at = "file" /\ loop'.remote = loop.remote /\ loop'.expired = loop.expired \ {loop.id}
    BY <1>19, LoopWrites DEF DeleteControlPlaneSnapshotRecord
  <2>2. ~loop.remote
    BY <1>19 DEF DeleteControlPlaneSnapshotRecord, LoopInv
  <2>3. \A s \in loop'.expired : Lapsed(s) /\ database'.rows[s] = database.rows[s]
    <3>1. loop.expired \subseteq Snapshots
      BY LoopParts
    <3>2. \A s \in Snapshots \ {loop.id} : database'.rows[s] = database.rows[s]
      BY <1>19, RowWrites DEF Writing, DeleteControlPlaneSnapshotRecord, CreateControlPlaneSnapshot
    <3> QED
      BY <2>1, <3>1, <3>2 DEF LoopInv
  <2> QED
    BY <1>19, <2>1, <2>2, <2>3 DEF DeleteControlPlaneSnapshotRecord, LoopInv, Lapsed
<1> QED
  BY <1>5, <1>6, <1>7, <1>8, <1>9, <1>10, <1>11, <1>12, <1>13, <1>14, <1>15, <1>16, <1>17, <1>18, <1>19
     DEF PlaneNext, Starting, SnapshotLoop

-----------------------------------------------------------------------------
\* A server that serves has sealed or opened the canary with its key, and only
\* such a server seals a secret.
LEMMA KeysStayRecorded ==
  PlaneTypes /\ LoopInv /\ BootInv /\ [PlaneNext]_planeState => KeyRecorded(database)'
<1> SUFFICES ASSUME PlaneTypes, LoopInv, BootInv, [PlaneNext]_planeState PROVE KeyRecorded(database)'
  OBVIOUS
<1> USE DEF snapshotVars, bootVars, planeState, PlaneRest
<1>1. database \in Kept /\ database \in Contents /\ KeyRecorded(database)
  BY DEF Kept, PlaneTypes, BootInv
<1>2. CASE database' \in Kept
  BY <1>2 DEF BootInv, KeyRecorded
<1>3. CASE ApplyMigration
  BY <1>1, <1>3, WriteApplied DEF ApplyMigration, StayDown, KeyRecorded
<1>4. CASE VerifyOrInitCanary
  <2>1. CASE database' = [database EXCEPT !.canary = envKey, !.adopted = database.sealed # {}]
    <3>1. envKey \in Keys
      BY DEF PlaneTypes
    <3>2. (database'.adopted <=> database.sealed # {}) /\ database'.sealed = database.sealed
      BY <1>1, <2>1, <3>1, WriteCanary
    <3> QED
      BY <3>2 DEF KeyRecorded
  <2>2. CASE database' = database
    BY <1>1, <2>2 DEF KeyRecorded
  <2> QED
    BY <1>4, <2>1, <2>2 DEF VerifyOrInitCanary
<1>5. CASE StoreSecret
  <2>1. /\ database'.sealed = database.sealed \cup {envKey} /\ database'.canary = database.canary
        /\ database'.adopted = database.adopted
    BY <1>1, <1>5, WriteSealed DEF StoreSecret, PlaneTypes
  <2>2. database.canary = envKey
    BY <1>5 DEF StoreSecret, BootInv
  <2> QED
    BY <1>1, <2>1, <2>2, ControlPlaneAssumption DEF KeyRecorded, PlaneTypes
<1>6. CASE Writing
  BY <1>1, <1>6, RowWrites DEF KeyRecorded
<1>7. CASE database' = database
  BY <1>1, <1>7
<1>8. \/ ApplyMigration \/ VerifyOrInitCanary \/ StoreSecret \/ Writing \/ database' = database \/ database' \in Kept
  <2>1. CASE RestoreControlPlane
    BY <2>1 DEF RestoreControlPlane, Kept
  <2>2. CASE OpenSQLite \/ SnapshotBeforeMigrations \/ ServerEnds \/ Reconfigure \/ UNCHANGED planeState
    BY <2>2 DEF OpenSQLite, SnapshotBeforeMigrations, StayDown, ServerEnds, Reconfigure
  <2>3. CASE SnapshotLoop
    BY <2>3 DEF SnapshotLoop, Writing, MaybeRunControlPlaneSnapshot, VacuumInto, UploadControlPlaneSnapshot,
         ListExpiredControlPlaneSnapshots, RemoveSnapshotFile, DeleteRemoteSnapshot, DayPasses
  <2> QED
    BY <2>1, <2>2, <2>3 DEF PlaneNext, Starting
<1> QED
  BY <1>2, <1>3, <1>4, <1>5, <1>6, <1>7, <1>8

LEMMA BootInvStep == PlaneTypes /\ LoopInv /\ BootInv /\ [PlaneNext]_planeState => BootInv'
<1> SUFFICES ASSUME PlaneTypes, LoopInv, BootInv, [PlaneNext]_planeState PROVE BootInv'
  OBVIOUS
<1> USE DEF snapshotVars, bootVars, planeState, PlaneRest
<1> DEFINE Booted ==
      /\ server \in {"pending", "saved"} => database.applied < binary
      /\ server = "pending" => before = database
      /\ server = "saved" => before \in preFiles
      /\ server \in {"migrated", "serving"} => database.applied = binary /\ (before.applied < binary => before \in preFiles)
      /\ server = "serving" => database.canary = envKey
<1>1. \A c \in Kept' : KeyRecorded(c)'
  <2>1. \A c \in Kept : KeyRecorded(c)'
    BY DEF BootInv, KeyRecorded
  <2>2. KeyRecorded(database)'
    BY KeysStayRecorded
  <2> QED
    BY <2>1, <2>2, KeptSteps DEF KeyRecorded
<1>2. database \in Contents /\ database.applied \in Nat /\ binary \in Nat /\ before.applied \in Nat
  BY ContentsParts, ControlPlaneAssumption DEF PlaneTypes
<1>3. preFiles \subseteq preFiles'
  BY FileSteps
<1>4. Booted'
  <2>1. CASE server' = "down"
    BY <2>1
  <2>2. CASE OpenSQLite
    BY <1>2, <2>2 DEF OpenSQLite
  <2>3. CASE SnapshotBeforeMigrations /\ server' # "down"
    BY <2>3 DEF SnapshotBeforeMigrations, StayDown, BootInv
  <2>4. CASE ApplyMigration /\ server' # "down"
    <3>1. database'.applied = database.applied + 1 /\ UNCHANGED <<before, preFiles, binary, envKey>>
             /\ server' = IF database.applied + 1 = binary THEN "migrated" ELSE "saved"
      BY <1>2, <2>4, WriteApplied DEF ApplyMigration, StayDown
    <3>2. before \in preFiles /\ database.applied < binary
      BY <2>4 DEF ApplyMigration, BootInv
    <3>3. database'.applied = binary \/ database'.applied < binary
      BY <1>2, <3>1, <3>2
    <3> QED
      BY <3>1, <3>2, <3>3
  <2>5. CASE VerifyOrInitCanary /\ server' # "down"
    <3>1. /\ server' = "serving" /\ UNCHANGED <<before, preFiles, binary, envKey>>
          /\ \/ database' = [database EXCEPT !.canary = envKey, !.adopted = database.sealed # {}]
             \/ database' = database /\ database.canary = envKey
      BY <2>5 DEF VerifyOrInitCanary, Serve
    <3>2. database'.applied = database.applied /\ database'.canary = envKey
      <4>1. envKey \in Keys
        BY DEF PlaneTypes
      <4>2. CASE database' = [database EXCEPT !.canary = envKey, !.adopted = database.sealed # {}]
        BY <1>2, <4>1, <4>2, WriteCanary
      <4>3. CASE database' = database /\ database.canary = envKey
        BY <4>3
      <4> QED
        BY <3>1, <4>2, <4>3
    <3>3. database.applied = binary /\ (before.applied < binary => before \in preFiles)
      BY <2>5 DEF VerifyOrInitCanary, BootInv
    <3> QED
      BY <3>1, <3>2, <3>3
  <2>6. CASE \/ server = "down" /\ server' = "down"
             \/ UNCHANGED <<before, preFiles, binary, envKey, server>> /\ server = "serving"
                  /\ database'.applied = database.applied /\ database'.canary = database.canary
    BY <2>6 DEF BootInv
  <2>7. CASE StoreSecret
    BY <1>2, <2>6, <2>7, WriteSealed DEF StoreSecret, PlaneTypes
  <2>8. CASE SnapshotLoop
    <3>1. CASE Writing
      BY <2>6, <3>1, RowWrites
    <3>2. CASE ~Writing /\ ~DayPasses
      BY <2>6, <2>8, <3>2 DEF SnapshotLoop, Writing, MaybeRunControlPlaneSnapshot, VacuumInto, UploadControlPlaneSnapshot,
           ListExpiredControlPlaneSnapshots, RemoveSnapshotFile, DeleteRemoteSnapshot
    <3>3. CASE DayPasses
      BY <3>3 DEF DayPasses, BootInv
    <3> QED
      BY <3>1, <3>2, <3>3
  <2>9. CASE UNCHANGED planeState
    BY <2>9 DEF BootInv
  <2> QED
    BY <2>1, <2>2, <2>3, <2>4, <2>5, <2>7, <2>8, <2>9
       DEF PlaneNext, Starting, ServerEnds, Reconfigure, RestoreControlPlane
<1> QED
  BY <1>1, <1>4 DEF BootInv

-----------------------------------------------------------------------------
PlaneInv == PlaneTypes /\ BootInv /\ RowsInv /\ UsableInv /\ LoopInv

LEMMA PlaneKept == PlaneInv /\ [PlaneNext]_planeState => PlaneInv'
  BY PlaneTypesStep, BootInvStep, RowsInvStep, UsableInvStep, LoopInvStep DEF PlaneInv

\* The invariant of the control plane, over every start, upgrade, change of
\* the key, restore and round of the snapshot loop.
THEOREM PlaneInvariant == PlaneSpec => []PlaneInv
<1>1. PlaneInit => PlaneInv
  BY PlaneBegins DEF PlaneInv
<1>2. PlaneInv /\ [PlaneNext]_planeVars => PlaneInv'
  BY PlaneKept DEF planeVars
<1> QED
  BY <1>1, <1>2, PTL DEF PlaneSpec

LEMMA PlaneMeans == PlaneInv => PlaneTypeOK /\ ServesWhatItUnderstands /\ SnapshotIsUsable
<1> SUFFICES ASSUME PlaneInv PROVE PlaneTypeOK /\ ServesWhatItUnderstands /\ SnapshotIsUsable
  OBVIOUS
<1>1. database \in Kept
  BY DEF Kept
<1>2. PlaneTypeOK
  BY <1>1 DEF PlaneInv, PlaneTypes, RowsInv, LoopInv, PlaneTypeOK, Known, Absent
<1>3. ServesWhatItUnderstands
  BY <1>1, ControlPlaneAssumption DEF PlaneInv, PlaneTypes, BootInv, KeyRecorded, ServesWhatItUnderstands
<1>4. SnapshotIsUsable
  BY <1>1 DEF PlaneInv, UsableInv, SnapshotIsUsable, Known, Lapsed
<1> QED
  BY <1>2, <1>3, <1>4

\* A server answers requests only on the schema it was built for, with the key
\* that sealed its secrets, and with a copy of what it migrated.
THEOREM ServerUnderstands == PlaneSpec => []ServesWhatItUnderstands
  BY PlaneInvariant, PlaneMeans, PTL

\* Whatever database is restored and whatever the purge removes, a snapshot
\* that is recorded as successful and has not lapsed can be restored.
THEOREM SnapshotsStayUsable == PlaneSpec => []SnapshotIsUsable
  BY PlaneInvariant, PlaneMeans, PTL

-----------------------------------------------------------------------------
(***************************************************************************)
(* ServiceCatalog, for every set of services, environments, deployments    *)
(* and requests.  A deletion removes rows last, so what decides whether a  *)
(* container outlives its rows is what the deletion has listed and stopped *)
(* before (DeletionInv); that no deletion reaches a database service       *)
(* through its application depends on what the requests hold (HoldInv).    *)
(***************************************************************************)

ClientType ==
  [at : {"idle", "create", "policy", "list", "stop", "delete", "networks"}, service : Services \cup {None},
   left : SUBSET Services, listed : SUBSET Deploys, environments : SUBSET Environments]

DeployType ==
  [row : BOOLEAN, service : Services \cup {None}, in : Environments \cup {None},
   at : Recorded \cup {"none", "queued", "network", "run", "attach", "lost", "ended"}]

CatalogTypes ==
  /\ application \in BOOLEAN /\ environments \subseteq Environments
  /\ services \in [Services -> {None, "application", "database"}]
  /\ deploys \in [Deploys -> DeployType]
  /\ containers \subseteq Deploys /\ volumes \subseteq Services
  /\ clients \in [Clients -> ClientType]

\* ON DELETE CASCADE and the foreign keys.
KeysInv ==
  /\ bindings \subseteq Applications("application") \X environments
  /\ \A d \in Deploys : deploys[d].row => deploys[d].service \in Services /\ services[deploys[d].service] = "application"

\* What a request holds, no request that creates will touch.
HoldInv ==
  /\ \A c \in Clients :
       /\ clients[c].at \in {"create", "policy"} => clients[c].service # None
       /\ clients[c].at = "create" => services[clients[c].service] = None
       /\ clients[c].at = "policy" => services[clients[c].service] # "application"
       /\ Deleting(c) /\ clients[c].service # None => services[clients[c].service] # "database"
       /\ clients[c].at = "delete" => clients[c].left = {}
  /\ \A b, c \in Clients : b # c /\ clients[c].at \in {"create", "policy"} => clients[b].service # clients[c].service

\* A container that had a row and has lost it was recorded too late to be listed.
ContainerInv ==
  \A d \in containers :
    /\ deploys[d].at \in Recorded \cup {"attach", "lost"}
    /\ deploys[d].at \in Recorded /\ ~deploys[d].row => d \in unlisted

Runs(d) == d \in containers /\ deploys[d].row /\ deploys[d].at \in Recorded

\* A deletion has removed, or is about to remove, what ran in the services it
\* is done with.
DeletionInv ==
  \A c \in Clients : Deleting(c) =>
    /\ \A d \in Deploys :
         Runs(d) /\ deploys[d].service \notin clients[c].left /\ clients[c].service \in {None, deploys[d].service}
           => d \in unlisted \/ (clients[c].at = "stop" /\ d \in clients[c].listed)
    /\ clients[c].service = None => volumes \subseteq unlisted

VolumeInv == \A v \in volumes : services[v] = "database" \/ v \in unlisted

\* The steps of a deployment that concern no other.
Advancing(d) ==
  \/ StopDeploy(d) \/ BuildDeploy(d) \/ EnsureEnvironmentNetwork(d) \/ RunDeployContainer(d)
  \/ AttachDeployContainer(d) \/ RemoveCandidate(d)

Deploying(d) == Advancing(d) \/ ActivateDeploy(d)

-----------------------------------------------------------------------------
\* What writing the step of a request or of a deployment leaves.
LEMMA ClientWrites ==
  ASSUME CatalogTypes, NEW c \in Clients
  PROVE  /\ Idle \in ClientType /\ Idle.at = "idle" /\ Idle.service = None
         /\ clients[c] \in ClientType
         /\ Done(c) => /\ clients' \in [Clients -> ClientType] /\ clients'[c] = Idle
                       /\ \A b \in Clients \ {c} : clients'[b] = clients[b]
         /\ \A s \in {"stop", "delete", "list", "networks"} :
              Step(c, s) => /\ clients' \in [Clients -> ClientType]
                            /\ clients'[c].at = s /\ clients'[c].service = clients[c].service
                            /\ clients'[c].left = clients[c].left /\ clients'[c].listed = clients[c].listed
                            /\ \A b \in Clients \ {c} : clients'[b] = clients[b]
<1>1. Idle \in ClientType /\ Idle.at = "idle" /\ Idle.service = None
  BY DEF Idle, ClientType
<1> QED
  BY <1>1 DEF CatalogTypes, ClientType, Done, Step

LEMMA DeployWrites ==
  ASSUME CatalogTypes, NEW d \in Deploys, NEW s \in Recorded \cup {"network", "run", "attach", "lost", "ended"}, Advance(d, s)
  PROVE  /\ deploys' \in [Deploys -> DeployType]
         /\ deploys'[d].at = s /\ deploys'[d].row = deploys[d].row
         /\ deploys'[d].service = deploys[d].service /\ deploys'[d].in = deploys[d].in
         /\ \A p \in Deploys \ {d} : deploys'[p] = deploys[p]
  BY DEF CatalogTypes, DeployType, Advance

LEMMA ActivateWrites ==
  ASSUME CatalogTypes, NEW d \in Deploys, ActivateDeploy(d)
  PROVE  /\ deploys' \in [Deploys -> DeployType] /\ UNCHANGED unlisted /\ containers' \subseteq containers
         /\ deploys[d].at = "activate" /\ deploys[d].row
         /\ \A p \in Deploys :
              /\ deploys'[p].row = deploys[p].row /\ deploys'[p].service = deploys[p].service
              /\ \/ deploys'[p].at = deploys[p].at
                 \/ p = d /\ deploys'[p].at = "active"
                 \/ deploys[p].at = "active" /\ (deploys'[p].at = "replaced" \/ p \notin containers')
<1> DEFINE previous == {p \in Deploys : deploys[p].at = "active" /\ deploys[p].service = deploys[d].service}
<1>1. ASSUME NEW r \in DeployType, NEW s \in {"active", "replaced", "ended"}
      PROVE  /\ [r EXCEPT !.at = s] \in DeployType /\ [r EXCEPT !.at = s].at = s
             /\ [r EXCEPT !.at = s].row = r.row /\ [r EXCEPT !.at = s].service = r.service
  BY DEF DeployType, Recorded
<1>2. PICK s \in {"replaced", "ended"} :
        /\ deploys' = [p \in Deploys |-> IF p = d THEN [deploys[d] EXCEPT !.at = "active"]
                                         ELSE IF p \in previous THEN [deploys[p] EXCEPT !.at = s] ELSE deploys[p]]
        /\ s = "ended" => containers' = containers \ previous
  BY DEF ActivateDeploy
<1>3. UNCHANGED unlisted /\ containers' \subseteq containers /\ deploys[d].at = "activate" /\ deploys[d].row
  BY DEF ActivateDeploy
<1>4. ASSUME NEW p \in Deploys
      PROVE  /\ deploys'[p] \in DeployType
             /\ deploys'[p].row = deploys[p].row /\ deploys'[p].service = deploys[p].service
             /\ \/ deploys'[p].at = deploys[p].at
                \/ p = d /\ deploys'[p].at = "active"
                \/ deploys[p].at = "active" /\ (deploys'[p].at = "replaced" \/ p \notin containers')
  <2>1. deploys[p] \in DeployType
    BY DEF CatalogTypes
  <2>2. CASE p = d
    BY <1>1, <1>2, <2>1, <2>2, ZenonT(60)
  <2>3. CASE p # d /\ p \in previous
    <3>1. deploys'[p] = [deploys[p] EXCEPT !.at = s] /\ (s = "ended" => p \notin containers')
      BY <1>2, <2>3
    <3>2. deploys'[p] \in DeployType /\ deploys'[p].at = s /\ deploys'[p].row = deploys[p].row /\ deploys'[p].service = deploys[p].service
      BY <2>1, <3>1 DEF DeployType, Recorded
    <3> QED
      BY <2>3, <3>1, <3>2
  <2>4. CASE p # d /\ p \notin previous
    BY <1>2, <2>1, <2>4
  <2> QED
    BY <2>2, <2>3, <2>4
<1>5. deploys' = [p \in Deploys |-> deploys'[p]]
  BY <1>2
<1> QED
  BY <1>3, <1>4, <1>5

LEMMA CrashWrites ==
  ASSUME CatalogTypes, CatalogCrash
  PROVE  /\ deploys' \in [Deploys -> DeployType] /\ UNCHANGED unlisted /\ containers' \subseteq containers
         /\ \A p \in Deploys :
              /\ deploys'[p].row = deploys[p].row /\ deploys'[p].service = deploys[p].service
              /\ \/ deploys'[p].at = deploys[p].at /\ deploys[p].at \notin {"activate", "attach"}
                 \/ deploys[p].at = "attach" /\ deploys'[p].at = "lost"
                 \/ deploys[p].at = "activate" /\ ~deploys[p].row /\ deploys'[p].at = "left"
                 \/ deploys[p].at \in {"network", "run"} /\ deploys'[p].at = "ended"
                 \/ p \notin containers' /\ deploys'[p].at = "ended"
<1>2. ASSUME NEW p \in Deploys
      PROVE  /\ deploys[p] \in DeployType
             /\ deploys'[p] = CASE deploys[p].at = "attach" -> [deploys[p] EXCEPT !.at = "lost"]
                                [] deploys[p].at = "activate" /\ ~deploys[p].row -> [deploys[p] EXCEPT !.at = "left"]
                                [] deploys[p].at \in {"network", "run"} \/ (deploys[p].at = "activate" /\ deploys[p].row)
                                     -> [deploys[p] EXCEPT !.at = "ended"]
                                [] OTHER -> deploys[p]
  BY DEF CatalogTypes, CatalogCrash
<1>3. UNCHANGED unlisted /\ containers' \subseteq containers
        /\ \A p \in Deploys : deploys[p].at = "activate" /\ deploys[p].row => p \notin containers'
  BY DEF CatalogCrash
<1>4. ASSUME NEW p \in Deploys
      PROVE  /\ deploys'[p] \in DeployType
             /\ deploys'[p].row = deploys[p].row /\ deploys'[p].service = deploys[p].service
             /\ \/ deploys'[p].at = deploys[p].at /\ deploys[p].at \notin {"activate", "attach"}
                \/ deploys[p].at = "attach" /\ deploys'[p].at = "lost"
                \/ deploys[p].at = "activate" /\ ~deploys[p].row /\ deploys'[p].at = "left"
                \/ deploys[p].at \in {"network", "run"} /\ deploys'[p].at = "ended"
                \/ p \notin containers' /\ deploys'[p].at = "ended"
  <2>1. CASE deploys[p].at = "attach"
    <3>1. deploys'[p] = [deploys[p] EXCEPT !.at = "lost"]
      BY <1>2, <2>1
    <3>2. deploys'[p] \in DeployType /\ deploys'[p].at = "lost" /\ deploys'[p].row = deploys[p].row /\ deploys'[p].service = deploys[p].service
      BY <1>2, <3>1 DEF DeployType, Recorded
    <3> QED
      BY <2>1, <3>2
  <2>2. CASE deploys[p].at = "activate" /\ ~deploys[p].row
    <3>1. deploys'[p] = [deploys[p] EXCEPT !.at = "left"]
      BY <1>2, <2>2
    <3>2. deploys'[p] \in DeployType /\ deploys'[p].at = "left" /\ deploys'[p].row = deploys[p].row /\ deploys'[p].service = deploys[p].service
      BY <1>2, <3>1 DEF DeployType, Recorded
    <3> QED
      BY <2>2, <3>2
  <2>3. CASE deploys[p].at \in {"network", "run"} \/ (deploys[p].at = "activate" /\ deploys[p].row)
    <3>1. deploys'[p] = [deploys[p] EXCEPT !.at = "ended"]
      BY <1>2, <2>3
    <3>2. deploys'[p] \in DeployType /\ deploys'[p].at = "ended" /\ deploys'[p].row = deploys[p].row /\ deploys'[p].service = deploys[p].service
      BY <1>2, <3>1 DEF DeployType, Recorded
    <3> QED
      BY <1>3, <2>3, <3>2
  <2>4. CASE deploys[p].at \notin {"attach", "activate", "network", "run"}
    BY <1>2, <2>4
  <2>5. deploys[p].row \in BOOLEAN
    BY <1>2 DEF DeployType
  <2> QED
    BY <2>1, <2>2, <2>3, <2>4, <2>5
<1>5. deploys' = [p \in Deploys |-> deploys'[p]]
  BY DEF CatalogCrash
<1> QED
  BY <1>3, <1>4, <1>5

LEMMA CascadeWrites ==
  ASSUME CatalogTypes, NEW gone \in SUBSET Services, Cascade(gone)
  PROVE  /\ deploys' \in [Deploys -> DeployType]
         /\ services' \in [Services -> {None, "application", "database"}]
         /\ \A v \in Services : services'[v] = IF v \in gone THEN None ELSE services[v]
         /\ \A d \in Deploys :
              /\ deploys'[d].at = deploys[d].at /\ deploys'[d].service = deploys[d].service /\ deploys'[d].in = deploys[d].in
              /\ deploys'[d].row <=> deploys[d].row /\ deploys[d].service \notin gone
<1>1. ASSUME NEW r \in DeployType
      PROVE  LET n == [r EXCEPT !.row = FALSE] IN
             n \in DeployType /\ ~n.row /\ n.at = r.at /\ n.service = r.service /\ n.in = r.in
  BY DEF DeployType
<1>2. ASSUME NEW d \in Deploys
      PROVE  deploys[d] \in DeployType
               /\ deploys'[d] = IF deploys[d].service \in gone THEN [deploys[d] EXCEPT !.row = FALSE] ELSE deploys[d]
  BY DEF CatalogTypes, Cascade
<1>3. deploys' = [d \in Deploys |-> deploys'[d]]
  BY DEF Cascade
<1>4. ASSUME NEW d \in Deploys
      PROVE  /\ deploys'[d] \in DeployType
             /\ deploys'[d].at = deploys[d].at /\ deploys'[d].service = deploys[d].service /\ deploys'[d].in = deploys[d].in
             /\ deploys'[d].row <=> deploys[d].row /\ deploys[d].service \notin gone
  BY <1>1, <1>2
<1>5. services' \in [Services -> {None, "application", "database"}]
         /\ \A v \in Services : services'[v] = IF v \in gone THEN None ELSE services[v]
  BY DEF CatalogTypes, Cascade
<1> QED
  BY <1>3, <1>4, <1>5

-----------------------------------------------------------------------------
CatalogInv == CatalogTypes /\ KeysInv /\ HoldInv /\ ContainerInv /\ DeletionInv /\ VolumeInv

LEMMA CatalogBegins == CatalogInit => CatalogInv
<1> SUFFICES ASSUME CatalogInit PROVE CatalogInv
  OBVIOUS
<1> USE CatalogAssumption
<1>1. NoDeploy \in DeployType /\ NoDeploy.row = FALSE
  BY DEF NoDeploy, DeployType
<1>2. Idle \in ClientType /\ Idle.at = "idle" /\ Idle.service = None
  BY DEF Idle, ClientType
<1>3. CatalogTypes
  BY <1>1, <1>2 DEF CatalogInit, CatalogTypes
<1>4. KeysInv
  BY <1>1 DEF CatalogInit, KeysInv
<1>5. HoldInv /\ DeletionInv
  BY <1>2 DEF CatalogInit, HoldInv, DeletionInv, Deleting
<1>6. ContainerInv /\ VolumeInv
  BY DEF CatalogInit, ContainerInv, VolumeInv
<1> QED
  BY <1>3, <1>4, <1>5, <1>6 DEF CatalogInv

LEMMA CatalogTypesStep == CatalogTypes /\ HoldInv /\ [CatalogNext]_catalogState => CatalogTypes'
<1> SUFFICES ASSUME CatalogTypes, HoldInv, [CatalogNext]_catalogState PROVE CatalogTypes'
  OBVIOUS
<1> USE DEF catalogRows, catalogState
<1>1. ASSUME NEW c \in Clients, NEW v \in Services, ListEnvironmentsForService(c, v)
      PROVE  CatalogTypes'
  <2>1. [Idle EXCEPT !.at = "create", !.service = v, !.environments = environments] \in ClientType
    BY DEF Idle, ClientType, CatalogTypes
  <2> QED
    BY <1>1, <2>1 DEF ListEnvironmentsForService, CatalogTypes
<1>2. ASSUME NEW c \in Clients, CreateService(c)
      PROVE  CatalogTypes'
  <2>1. clients[c].service \in Services
    BY <1>2 DEF CreateService, CatalogTypes, ClientType, HoldInv
  <2>2. services' \in [Services -> {None, "application", "database"}]
    BY <1>2, <2>1 DEF CreateService, CatalogTypes
  <2> QED
    BY <1>2, <2>2, ClientWrites DEF CreateService, CatalogTypes
<1>3. ASSUME NEW e \in Environments, CreateEnvironment(e)
      PROVE  CatalogTypes'
  BY <1>3 DEF CreateEnvironment, CatalogTypes
<1>4. ASSUME NEW c \in Clients, NEW v \in Services, PrepareManagedDatabase(c, v)
      PROVE  CatalogTypes'
  <2>1. [Idle EXCEPT !.at = "policy", !.service = v] \in ClientType
    BY DEF Idle, ClientType
  <2> QED
    BY <1>4, <2>1 DEF PrepareManagedDatabase, CatalogTypes
<1>5. ASSUME NEW c \in Clients, SavePolicyOrUndo(c)
      PROVE  CatalogTypes'
  <2>1. {clients[c].service} \subseteq Services
    BY <1>5 DEF SavePolicyOrUndo, CatalogTypes, ClientType, HoldInv
  <2>2. CASE Cascade({clients[c].service})
    BY <1>5, <2>1, <2>2, ClientWrites, CascadeWrites DEF SavePolicyOrUndo, CatalogTypes
  <2>3. CASE UNCHANGED <<services, deploys>>
    BY <1>5, <2>3, ClientWrites DEF SavePolicyOrUndo, CatalogTypes
  <2> QED
    BY <1>5, <2>2, <2>3 DEF SavePolicyOrUndo
<1>6. ASSUME NEW v \in Services, ProvisionVolume(v)
      PROVE  CatalogTypes'
  BY <1>6 DEF ProvisionVolume, CatalogTypes
<1>7. ASSUME NEW d \in Deploys, NEW v \in Services, NEW e \in Environments, QueueDeploy(d, v, e)
      PROVE  CatalogTypes'
  BY <1>7 DEF QueueDeploy, CatalogTypes, DeployType
<1>8. ASSUME NEW d \in Deploys, Advancing(d)
      PROVE  CatalogTypes'
  BY <1>8, DeployWrites DEF Advancing, StopDeploy, BuildDeploy, EnsureEnvironmentNetwork, RunDeployContainer,
       AttachDeployContainer, RemoveCandidate, Recorded, CatalogTypes
<1>9. ASSUME NEW d \in Deploys, ActivateDeploy(d)
      PROVE  CatalogTypes'
  BY <1>9, ActivateWrites DEF ActivateDeploy, CatalogTypes
<1>10. ASSUME NEW c \in Clients, NEW v \in Services, BeginDeleteService(c, v)
       PROVE  CatalogTypes'
  <2>1. [Idle EXCEPT !.at = "list", !.service = v, !.left = {v}] \in ClientType
    BY DEF Idle, ClientType
  <2> QED
    BY <1>10, <2>1 DEF BeginDeleteService, CatalogTypes
<1>11. ASSUME NEW c \in Clients, BeginDeleteApplication(c)
       PROVE  CatalogTypes'
  <2>1. ASSUME NEW s \in {"delete", "list"}
        PROVE  [Idle EXCEPT !.at = s, !.left = Existing, !.environments = environments] \in ClientType
    BY DEF Idle, ClientType, Existing, CatalogTypes
  <2> QED
    BY <1>11, <2>1 DEF BeginDeleteApplication, CatalogTypes
<1>12. ASSUME NEW c \in Clients, NEW v \in Services, ListServiceRuntime(c, v)
       PROVE  CatalogTypes'
  <2>1. ASSUME NEW r \in ClientType
        PROVE  [r EXCEPT !.at = "stop", !.left = @ \ {v}, !.listed = Attached(v)] \in ClientType
    BY DEF ClientType, Attached, CatalogTypes
  <2>2. clients' \in [Clients -> ClientType]
    <3>1. CASE Done(c)
      BY <3>1, ClientWrites
    <3>2. CASE clients' = [clients EXCEPT ![c].at = "stop", ![c].left = @ \ {v}, ![c].listed = Attached(v)]
      BY <2>1, <3>2 DEF CatalogTypes
    <3> QED
      BY <1>12, <3>1, <3>2 DEF ListServiceRuntime
  <2> QED
    BY <1>12, <2>2 DEF ListServiceRuntime, CatalogTypes
<1>13. ASSUME NEW c \in Clients, StopListed(c)
       PROVE  CatalogTypes'
  <2>1. clients' \in [Clients -> ClientType] /\ containers' \subseteq containers
    BY <1>13, ClientWrites DEF StopListed, CatalogTypes
  <2> QED
    BY <1>13, <2>1 DEF StopListed, CatalogTypes
<1>14. ASSUME NEW c \in Clients, DeleteService(c)
       PROVE  CatalogTypes'
  <2>1. {clients[c].service} \subseteq Services
    BY <1>14 DEF DeleteService, CatalogTypes, ClientType
  <2>2. CASE Cascade({clients[c].service})
    BY <1>14, <2>1, <2>2, ClientWrites, CascadeWrites DEF DeleteService, CatalogTypes
  <2>3. CASE UNCHANGED <<services, deploys>>
    BY <1>14, <2>3, ClientWrites DEF DeleteService, CatalogTypes
  <2> QED
    BY <1>14, <2>2, <2>3 DEF DeleteService
<1>15. ASSUME NEW c \in Clients, DeleteApplication(c)
       PROVE  CatalogTypes'
  <2>1. CASE Cascade(Services) /\ Step(c, "networks") /\ application' = FALSE /\ environments' = {}
    BY <1>15, <2>1, ClientWrites, CascadeWrites DEF DeleteApplication, CatalogTypes
  <2>2. CASE Done(c) /\ UNCHANGED <<catalogRows, deploys>>
    BY <1>15, <2>2, ClientWrites DEF DeleteApplication, CatalogTypes
  <2> QED
    BY <1>15, <2>1, <2>2 DEF DeleteApplication
<1>16. ASSUME NEW c \in Clients, RemoveEmptyNetworks(c)
       PROVE  CatalogTypes'
  BY <1>16, ClientWrites DEF RemoveEmptyNetworks, CatalogTypes
<1>17. CASE CatalogCrash
  <2>1. Idle \in ClientType
    BY DEF Idle, ClientType
  <2> QED
    BY <1>17, <2>1, CrashWrites DEF CatalogCrash, CatalogTypes
<1>18. CASE UNCHANGED catalogState
  BY <1>18 DEF CatalogTypes
<1> QED
  BY <1>1, <1>2, <1>3, <1>4, <1>5, <1>6, <1>7, <1>8, <1>9, <1>10, <1>11, <1>12, <1>13, <1>14, <1>15,
     <1>16, <1>17, <1>18 DEF CatalogNext, Advancing

-----------------------------------------------------------------------------
\* The steps of a deployment, and the end of the process, leave the row and
\* the service alone.
LEMMA DeployMoves ==
  ASSUME CatalogTypes, CatalogCrash \/ (\E d \in Deploys : Deploying(d))
  PROVE  /\ UNCHANGED catalogRows /\ UNCHANGED volumes
         /\ \A p \in Deploys : deploys'[p].row = deploys[p].row /\ deploys'[p].service = deploys[p].service
<1>1. CASE CatalogCrash
  BY <1>1, CrashWrites DEF CatalogCrash
<1>2. ASSUME NEW d \in Deploys, Advancing(d)
      PROVE  /\ UNCHANGED catalogRows /\ UNCHANGED volumes
             /\ \A p \in Deploys : deploys'[p].row = deploys[p].row /\ deploys'[p].service = deploys[p].service
  BY <1>2, DeployWrites DEF Advancing, StopDeploy, BuildDeploy, EnsureEnvironmentNetwork, RunDeployContainer,
       AttachDeployContainer, RemoveCandidate, Recorded
<1>3. ASSUME NEW d \in Deploys, ActivateDeploy(d)
      PROVE  /\ UNCHANGED catalogRows /\ UNCHANGED volumes
             /\ \A p \in Deploys : deploys'[p].row = deploys[p].row /\ deploys'[p].service = deploys[p].service
  BY <1>3, ActivateWrites DEF ActivateDeploy
<1> QED
  BY <1>1, <1>2, <1>3 DEF Deploying

\* The requests that only read, or act on what runs.
Reading ==
  \/ \E c \in Clients : BeginDeleteApplication(c) \/ StopListed(c) \/ RemoveEmptyNetworks(c)
  \/ \E c \in Clients, v \in Services :
       ListEnvironmentsForService(c, v) \/ BeginDeleteService(c, v) \/ ListServiceRuntime(c, v)
  \/ \E v \in Services : ProvisionVolume(v)

LEMMA ReadingKeeps == Reading => UNCHANGED <<catalogRows, deploys>>
  BY DEF Reading, catalogRows, ListEnvironmentsForService, BeginDeleteService, BeginDeleteApplication,
       ListServiceRuntime, StopListed, RemoveEmptyNetworks, ProvisionVolume

\* Every step, in the groups the proofs below go by.
LEMMA CatalogSteps ==
  ASSUME [CatalogNext]_catalogState
  PROVE  \/ Reading
         \/ CatalogCrash \/ \E d \in Deploys : Deploying(d)
         \/ \E d \in Deploys, v \in Services, e \in Environments : QueueDeploy(d, v, e)
         \/ \E c \in Clients : CreateService(c) \/ SavePolicyOrUndo(c) \/ DeleteService(c) \/ DeleteApplication(c)
         \/ \E c \in Clients, v \in Services : PrepareManagedDatabase(c, v)
         \/ \E e \in Environments : CreateEnvironment(e)
         \/ UNCHANGED catalogState
  BY DEF CatalogNext, Reading, Deploying, Advancing

LEMMA KeysInvStep == CatalogTypes /\ KeysInv /\ HoldInv /\ [CatalogNext]_catalogState => KeysInv'
<1> SUFFICES ASSUME CatalogTypes, KeysInv, HoldInv, [CatalogNext]_catalogState PROVE KeysInv'
  OBVIOUS
<1> USE DEF catalogRows, catalogState
<1>1. ASSUME UNCHANGED <<services, bindings, environments>>,
             \A p \in Deploys : deploys'[p].row = deploys[p].row /\ deploys'[p].service = deploys[p].service
      PROVE  KeysInv'
  BY <1>1 DEF KeysInv, Applications
<1>2. ASSUME NEW gone \in SUBSET Services, Cascade(gone), environments' = environments \/ gone = Services
      PROVE  KeysInv'
  <2>1. ASSUME NEW b \in bindings'
        PROVE  b \in Applications("application")' \X environments'
    <3>1. b \in Applications("application") \X environments /\ b[1] \notin gone
      BY <2>1, <1>2 DEF KeysInv, Cascade
    <3>2. b[1] \in Services
      BY <3>1 DEF Applications
    <3>3. b[1] \in Applications("application")' /\ environments' = environments
      BY <1>2, <3>1, <3>2, CascadeWrites DEF Applications
    <3> QED
      BY <3>1, <3>3
  <2>2. ASSUME NEW d \in Deploys, deploys'[d].row
        PROVE  deploys'[d].service \in Services /\ services'[deploys'[d].service] = "application"
    <3>1. deploys[d].row /\ deploys'[d].service = deploys[d].service /\ deploys[d].service \notin gone
      BY <1>2, <2>2, CascadeWrites
    <3> QED
      BY <1>2, <3>1, CascadeWrites DEF KeysInv
  <2> QED
    BY <2>1, <2>2 DEF KeysInv
<1>3. ASSUME NEW v \in Services, services[v] = None, UNCHANGED <<environments, deploys>>,
             NEW t \in {"application", "database"}, services' = [services EXCEPT ![v] = t],
             \/ bindings' = bindings
             \/ t = "application" /\ \E e \in SUBSET environments : bindings' = bindings \cup ({v} \X e)
      PROVE  KeysInv'
  <2>1. \A w \in Services : services'[w] = IF w = v THEN t ELSE services[w]
    BY <1>3 DEF CatalogTypes
  <2>2. Applications("application") \subseteq Applications("application")'
    BY <1>3, <2>1, CatalogAssumption DEF Applications
  <2>3. t = "application" => v \in Applications("application")'
    BY <2>1 DEF Applications
  <2>4. bindings' \subseteq Applications("application")' \X environments'
    BY <1>3, <2>2, <2>3 DEF KeysInv
  <2>5. \A d \in Deploys : deploys[d].row => deploys[d].service # v \/ t = "application"
    BY <1>3, CatalogAssumption DEF KeysInv
  <2> QED
    BY <1>3, <2>1, <2>4, <2>5 DEF KeysInv
<1>4. ASSUME NEW c \in Clients, CreateService(c)
      PROVE  KeysInv'
  <2>1. clients[c].service \in Services /\ services[clients[c].service] = None
    BY <1>4 DEF CreateService, CatalogTypes, ClientType, HoldInv
  <2> QED
    BY <1>1, <1>3, <1>4, <2>1 DEF CreateService
<1>5. ASSUME NEW c \in Clients, NEW v \in Services, PrepareManagedDatabase(c, v)
      PROVE  KeysInv'
  BY <1>3, <1>5 DEF PrepareManagedDatabase
<1>6. ASSUME NEW d \in Deploys, NEW v \in Services, NEW e \in Environments, QueueDeploy(d, v, e)
      PROVE  KeysInv'
  <2>1. \A p \in Deploys : deploys'[p] = IF p = d THEN [row |-> TRUE, service |-> v, in |-> e, at |-> "queued"] ELSE deploys[p]
    BY <1>6 DEF QueueDeploy, CatalogTypes
  <2>2. services[v] = "application" /\ UNCHANGED <<services, bindings, environments>>
    BY <1>6 DEF QueueDeploy
  <2> QED
    BY <2>1, <2>2 DEF KeysInv, Applications
<1>7. ASSUME NEW e \in Environments, CreateEnvironment(e)
      PROVE  KeysInv'
  BY <1>7 DEF CreateEnvironment, KeysInv, Applications
<1>8. ASSUME NEW c \in Clients, SavePolicyOrUndo(c) \/ DeleteService(c) \/ DeleteApplication(c)
      PROVE  KeysInv'
  <2>1. \/ /\ environments' = environments /\ Cascade({clients[c].service}) /\ {clients[c].service} \in SUBSET Services
        \/ Cascade(Services)
        \/ UNCHANGED <<services, bindings, environments, deploys>>
    BY <1>8 DEF SavePolicyOrUndo, DeleteService, DeleteApplication, HoldInv, CatalogTypes, ClientType
  <2> QED
    BY <1>1, <1>2, <2>1
<1> QED
  BY <1>1, <1>4, <1>5, <1>6, <1>7, <1>8, CatalogSteps, ReadingKeeps, DeployMoves

LEMMA HoldInvStep == CatalogTypes /\ HoldInv /\ [CatalogNext]_catalogState => HoldInv'
<1> SUFFICES ASSUME CatalogTypes, HoldInv, [CatalogNext]_catalogState PROVE HoldInv'
  OBVIOUS
<1> USE DEF catalogRows, catalogState
<1> USE CatalogAssumption
<1>1. ASSUME UNCHANGED <<services, clients>>
      PROVE  HoldInv'
  BY <1>1 DEF HoldInv, Deleting
<1>2. ASSUME NEW c \in Clients, \A b \in Clients \ {c} : clients'[b] = clients[b],
             \A v \in Services : services'[v] \in {None, services[v]},
             clients'[c].at \notin {"create", "policy"}, clients'[c].service \in {None, clients[c].service},
             Deleting(c)' => Deleting(c) \/ clients'[c].service = None,
             clients'[c].at = "delete" => clients'[c].left = {}
      PROVE  HoldInv'
  <2>1. ASSUME NEW b \in Clients
        PROVE  /\ clients'[b].at \in {"create", "policy"} => clients'[b].service # None
               /\ clients'[b].at = "create" => services'[clients'[b].service] = None
               /\ clients'[b].at = "policy" => services'[clients'[b].service] # "application"
               /\ Deleting(b)' /\ clients'[b].service # None => services'[clients'[b].service] # "database"
               /\ clients'[b].at = "delete" => clients'[b].left = {}
    <3>1. clients[b].service \in Services \cup {None}
      BY DEF CatalogTypes, ClientType
    <3>2. CASE b = c
      BY <1>2, <3>1, <3>2 DEF HoldInv
    <3>3. CASE b # c
      BY <1>2, <3>1, <3>3 DEF HoldInv, Deleting
    <3> QED
      BY <3>2, <3>3
  <2>2. \A a, b \in Clients : a # b /\ clients'[b].at \in {"create", "policy"} => clients'[a].service # clients'[b].service
    BY <1>2 DEF HoldInv
  <2> QED
    BY <2>1, <2>2 DEF HoldInv
<1>3. ASSUME NEW c \in Clients, Done(c), \A v \in Services : services'[v] \in {None, services[v]}
      PROVE  HoldInv'
  BY <1>2, <1>3, ClientWrites DEF Deleting
<1>4. ASSUME NEW c \in Clients, NEW v \in Services, ListEnvironmentsForService(c, v)
      PROVE  HoldInv'
  <2>1. clients'[c].at = "create" /\ clients'[c].service = v /\ \A b \in Clients \ {c} : clients'[b] = clients[b]
    BY <1>4 DEF ListEnvironmentsForService, CatalogTypes, Idle
  <2>2. services' = services /\ services[v] = None /\ \A b \in Clients : clients[b].service # v
    BY <1>4 DEF ListEnvironmentsForService
  <2> QED
    BY <2>1, <2>2 DEF HoldInv, Deleting
<1>5. ASSUME NEW c \in Clients, NEW v \in Services, PrepareManagedDatabase(c, v)
      PROVE  HoldInv'
  <2>1. clients'[c].at = "policy" /\ clients'[c].service = v /\ \A b \in Clients \ {c} : clients'[b] = clients[b]
    BY <1>5 DEF PrepareManagedDatabase, CatalogTypes, Idle
  <2>2. /\ \A b \in Clients : clients[b].service # v
        /\ \A w \in Services : services'[w] = IF w = v THEN "database" ELSE services[w]
    BY <1>5 DEF PrepareManagedDatabase, CatalogTypes
  <2>3. \A b \in Clients : clients[b].service \in Services \cup {None}
    BY DEF CatalogTypes, ClientType
  <2> QED
    BY <2>1, <2>2, <2>3 DEF HoldInv, Deleting
<1>6. ASSUME NEW c \in Clients, CreateService(c)
      PROVE  HoldInv'
  <2> DEFINE v == clients[c].service
  <2>1. v \in Services /\ \A b \in Clients \ {c} : clients[b].service # v
    BY <1>6 DEF CreateService, HoldInv, CatalogTypes, ClientType
  <2>2. \A w \in Services \ {v} : services'[w] = services[w]
    BY <1>6, <2>1 DEF CreateService, CatalogTypes
  <2>3. clients'[c].at = "idle" /\ clients'[c].service = None /\ \A b \in Clients \ {c} : clients'[b] = clients[b]
    BY <1>6, ClientWrites DEF CreateService
  <2>4. \A b \in Clients : clients[b].service \in Services \cup {None}
    BY DEF CatalogTypes, ClientType
  <2> QED
    BY <2>1, <2>2, <2>3, <2>4 DEF HoldInv, Deleting
<1>7. ASSUME NEW c \in Clients, NEW v \in Services, BeginDeleteService(c, v)
      PROVE  HoldInv'
  <2>1. clients'[c].at = "list" /\ clients'[c].service = v /\ \A b \in Clients \ {c} : clients'[b] = clients[b]
    BY <1>7 DEF BeginDeleteService, CatalogTypes, Idle
  <2>2. services' = services /\ services[v] = "application"
    BY <1>7 DEF BeginDeleteService
  <2> QED
    BY <2>1, <2>2 DEF HoldInv, Deleting
<1>8. ASSUME NEW c \in Clients, BeginDeleteApplication(c)
      PROVE  HoldInv'
  <2>1. /\ clients'[c].at \in {"list", "delete"} /\ clients'[c].service = None
        /\ clients'[c].at = "delete" => clients'[c].left = {}
        /\ \A b \in Clients \ {c} : clients'[b] = clients[b]
    BY <1>8 DEF BeginDeleteApplication, CatalogTypes, Idle
  <2>2. services' = services
    BY <1>8 DEF BeginDeleteApplication
  <2> QED
    BY <1>2, <2>1, <2>2
<1>9. ASSUME NEW c \in Clients, NEW v \in Services, ListServiceRuntime(c, v)
      PROVE  HoldInv'
  <2>1. CASE Done(c)
    BY <1>3, <1>9, <2>1 DEF ListServiceRuntime
  <2>2. CASE clients' = [clients EXCEPT ![c].at = "stop", ![c].left = @ \ {v}, ![c].listed = Attached(v)]
    <3>1. clients'[c].at = "stop" /\ clients'[c].service = clients[c].service /\ \A b \in Clients \ {c} : clients'[b] = clients[b]
      BY <2>2 DEF CatalogTypes, ClientType
    <3> QED
      BY <1>2, <1>9, <3>1 DEF ListServiceRuntime, Deleting
  <2> QED
    BY <1>9, <2>1, <2>2 DEF ListServiceRuntime
<1>10. ASSUME NEW c \in Clients, StopListed(c)
       PROVE  HoldInv'
  <2>1. services' = services /\ clients[c].at = "stop"
    BY <1>10 DEF StopListed
  <2>2. Done(c) \/ clients' = clients \/ Step(c, IF clients[c].left = {} THEN "delete" ELSE "list")
    BY <1>10 DEF StopListed
  <2>3. CASE Step(c, IF clients[c].left = {} THEN "delete" ELSE "list")
    <3>1. /\ clients'[c].at \in {"delete", "list"} /\ clients'[c].service = clients[c].service
          /\ clients'[c].at = "delete" => clients'[c].left = {}
          /\ \A b \in Clients \ {c} : clients'[b] = clients[b]
      BY <2>3, ClientWrites
    <3> QED
      BY <1>2, <2>1, <3>1 DEF Deleting
  <2> QED
    BY <1>1, <1>3, <2>1, <2>2, <2>3
<1>11. ASSUME NEW c \in Clients, SavePolicyOrUndo(c) \/ DeleteService(c) \/ DeleteApplication(c) \/ RemoveEmptyNetworks(c)
       PROVE  HoldInv'
  <2>1. \A v \in Services : services'[v] \in {None, services[v]}
    <3>1. CASE services' = services
      BY <3>1
    <3>2. CASE Cascade(Services) \/ Cascade({clients[c].service})
      BY <3>2 DEF Cascade
    <3> QED
      BY <1>11, <3>1, <3>2 DEF SavePolicyOrUndo, DeleteService, DeleteApplication, RemoveEmptyNetworks
  <2>2. CASE Done(c)
    BY <1>3, <2>1, <2>2
  <2>3. CASE Step(c, "networks")
    <3>1. /\ clients'[c].at = "networks" /\ clients'[c].service = clients[c].service
          /\ \A b \in Clients \ {c} : clients'[b] = clients[b]
      BY <2>3, ClientWrites
    <3> QED
      BY <1>2, <2>1, <3>1 DEF Deleting
  <2> QED
    BY <1>11, <2>2, <2>3 DEF SavePolicyOrUndo, DeleteService, DeleteApplication, RemoveEmptyNetworks
<1>12. CASE CatalogCrash
  <2>1. \A b \in Clients : clients'[b].at = "idle"
    BY <1>12 DEF CatalogCrash, Idle
  <2> QED
    BY <2>1 DEF HoldInv, Deleting
<1>13. ASSUME NEW d \in Deploys, Deploying(d) \/ \E v \in Services, e \in Environments : QueueDeploy(d, v, e)
       PROVE  HoldInv'
  BY <1>1, <1>13 DEF Deploying, Advancing, StopDeploy, BuildDeploy, EnsureEnvironmentNetwork, RunDeployContainer,
       AttachDeployContainer, RemoveCandidate, ActivateDeploy, QueueDeploy
<1>14. CASE (\E v \in Services : ProvisionVolume(v)) \/ (\E e \in Environments : CreateEnvironment(e)) \/ UNCHANGED catalogState
  BY <1>1, <1>14 DEF ProvisionVolume, CreateEnvironment
<1> QED
  BY <1>4, <1>5, <1>6, <1>7, <1>8, <1>9, <1>10, <1>11, <1>12, <1>13, <1>14, CatalogSteps DEF Reading

-----------------------------------------------------------------------------
LEMMA UnlistedGrows == [CatalogNext]_catalogState => unlisted \subseteq unlisted'
  BY DEF CatalogNext, catalogState, ListEnvironmentsForService, CreateService, CreateEnvironment, PrepareManagedDatabase,
       SavePolicyOrUndo, ProvisionVolume, QueueDeploy, BuildDeploy, EnsureEnvironmentNetwork, RunDeployContainer,
       StopDeploy, RemoveCandidate, AttachDeployContainer, ActivateDeploy, BeginDeleteService, BeginDeleteApplication, ListServiceRuntime,
       StopListed, DeleteService, DeleteApplication, RemoveEmptyNetworks, CatalogCrash

\* Who removes rows: no request but the deletion of a service or of the
\* application reaches one that runs.
LEMMA CascadeSteps ==
  ASSUME CatalogTypes, KeysInv, HoldInv, DeletionInv, VolumeInv, NEW c \in Clients,
         SavePolicyOrUndo(c) \/ DeleteService(c) \/ DeleteApplication(c)
  PROVE  /\ UNCHANGED <<containers, volumes>> /\ unlisted \subseteq unlisted'
         /\ \A d \in Deploys :
              /\ deploys'[d].at = deploys[d].at /\ deploys'[d].service = deploys[d].service
              /\ deploys'[d].row => deploys[d].row
              /\ Runs(d) => deploys'[d].row \/ d \in unlisted
         /\ \A v \in volumes : services'[v] = services[v] \/ v \in unlisted'
<1> USE DEF catalogRows
<1>1. unlisted \subseteq unlisted' /\ UNCHANGED <<containers, volumes>>
  BY DEF SavePolicyOrUndo, DeleteService, DeleteApplication
<1>2. CASE UNCHANGED <<services, deploys>>
  BY <1>1, <1>2 DEF Runs
<1>3. ASSUME NEW gone \in SUBSET Services, Cascade(gone),
             \A d \in Deploys : Runs(d) /\ deploys[d].service \in gone => d \in unlisted,
             \A v \in volumes \cap gone : v \in unlisted'
      PROVE  /\ \A d \in Deploys :
                  /\ deploys'[d].at = deploys[d].at /\ deploys'[d].service = deploys[d].service
                  /\ deploys'[d].row => deploys[d].row
                  /\ Runs(d) => deploys'[d].row \/ d \in unlisted
             /\ \A v \in volumes : services'[v] = services[v] \/ v \in unlisted'
  <2>1. /\ \A v \in Services : services'[v] = IF v \in gone THEN None ELSE services[v]
        /\ \A d \in Deploys :
              /\ deploys'[d].at = deploys[d].at /\ deploys'[d].service = deploys[d].service
              /\ deploys'[d].row <=> deploys[d].row /\ deploys[d].service \notin gone
    BY <1>3, CascadeWrites
  <2>2. volumes \subseteq Services
    BY DEF CatalogTypes
  <2> QED
    BY <1>3, <2>1, <2>2 DEF Runs
<1>4. CASE SavePolicyOrUndo(c) /\ Cascade({clients[c].service})
  <2>1. clients[c].service \in Services /\ services[clients[c].service] # "application"
    BY <1>4 DEF SavePolicyOrUndo, HoldInv, CatalogTypes, ClientType
  <2>2. \A d \in Deploys : ~(Runs(d) /\ deploys[d].service \in {clients[c].service})
    BY <2>1 DEF KeysInv, Runs
  <2>3. UNCHANGED <<services, deploys>> \/ unlisted' = unlisted \cup (volumes \cap {clients[c].service})
    BY <1>4 DEF SavePolicyOrUndo
  <2> QED
    BY <1>1, <1>2, <1>3, <1>4, <2>1, <2>2, <2>3
<1>5. CASE DeleteService(c) /\ Cascade({clients[c].service})
  <2>1. clients[c].service \in Services /\ clients[c].at = "delete" /\ Deleting(c) /\ clients[c].left = {}
    BY <1>5 DEF DeleteService, Deleting, HoldInv, CatalogTypes, ClientType
  <2>2. \A d \in Deploys : Runs(d) /\ deploys[d].service \in {clients[c].service} => d \in unlisted
    BY <2>1 DEF DeletionInv
  <2>3. services[clients[c].service] # "database"
    BY <1>5, <2>1 DEF DeleteService, HoldInv
  <2>4. \A v \in volumes \cap {clients[c].service} : v \in unlisted'
    BY <1>1, <2>3 DEF VolumeInv
  <2> QED
    BY <1>1, <1>3, <1>5, <2>1, <2>2, <2>4
<1>6. CASE DeleteApplication(c) /\ Cascade(Services)
  <2>1. clients[c].service = None /\ clients[c].at = "delete" /\ Deleting(c) /\ clients[c].left = {}
    BY <1>6 DEF DeleteApplication, Deleting, HoldInv
  <2>2. \A d \in Deploys : Runs(d) /\ deploys[d].service \in Services => d \in unlisted
    BY <2>1 DEF DeletionInv
  <2>3. \A v \in volumes \cap Services : v \in unlisted'
    BY <1>1, <2>1 DEF DeletionInv
  <2> QED
    BY <1>1, <1>3, <1>6, <2>2, <2>3
<1> QED
  BY <1>2, <1>4, <1>5, <1>6 DEF SavePolicyOrUndo, DeleteService, DeleteApplication

LEMMA ContainerInvStep ==
  CatalogTypes /\ KeysInv /\ HoldInv /\ ContainerInv /\ DeletionInv /\ VolumeInv /\ [CatalogNext]_catalogState => ContainerInv'
<1> SUFFICES ASSUME CatalogTypes, KeysInv, HoldInv, ContainerInv, DeletionInv, VolumeInv, [CatalogNext]_catalogState
             PROVE  ContainerInv'
  OBVIOUS
<1> USE DEF catalogRows, catalogState
<1>1. unlisted \subseteq unlisted' /\ containers \subseteq Deploys
  BY UnlistedGrows DEF CatalogTypes
<1>2. ASSUME containers' \subseteq containers, deploys' = deploys
      PROVE  ContainerInv'
  BY <1>1, <1>2 DEF ContainerInv
<1>3. ASSUME NEW d \in Deploys, NEW v \in Services, NEW e \in Environments, QueueDeploy(d, v, e)
      PROVE  ContainerInv'
  <2>1. d \notin containers
    BY <1>3 DEF QueueDeploy, NoDeploy, ContainerInv, Recorded
  <2>2. containers' = containers /\ \A p \in Deploys \ {d} : deploys'[p] = deploys[p]
    BY <1>3 DEF QueueDeploy, CatalogTypes
  <2> QED
    BY <1>1, <2>1, <2>2 DEF ContainerInv
<1>4. ASSUME NEW d \in Deploys, Advancing(d)
      PROVE  ContainerInv'
  <2> USE DEF Recorded
  <2>1. /\ containers' \subseteq Deploys /\ containers' \subseteq containers \cup {d}
        /\ \A p \in Deploys \ {d} : deploys'[p] = deploys[p]
    BY <1>1, <1>4, DeployWrites DEF Advancing, StopDeploy, BuildDeploy, EnsureEnvironmentNetwork, RunDeployContainer,
         AttachDeployContainer, RemoveCandidate
  <2>2. d \in containers' => /\ deploys'[d].at \in Recorded \cup {"attach", "lost"}
                             /\ deploys'[d].at \in Recorded /\ ~deploys'[d].row => d \in unlisted'
    <3>1. CASE StopDeploy(d) \/ BuildDeploy(d) \/ EnsureEnvironmentNetwork(d)
      BY <3>1 DEF StopDeploy, BuildDeploy, EnsureEnvironmentNetwork, ContainerInv
    <3>2. CASE RunDeployContainer(d)
      BY <3>2, DeployWrites DEF RunDeployContainer, ContainerInv
    <3>3. CASE AttachDeployContainer(d)
      BY <3>3, DeployWrites DEF AttachDeployContainer
    <3>4. CASE RemoveCandidate(d)
      BY <3>4, <1>1, DeployWrites DEF RemoveCandidate, ContainerInv
    <3> QED
      BY <1>4, <3>1, <3>2, <3>3, <3>4 DEF Advancing
  <2> QED
    BY <1>1, <2>1, <2>2 DEF ContainerInv
<1>5. ASSUME NEW d \in Deploys, ActivateDeploy(d)
      PROVE  ContainerInv'
  BY <1>1, <1>5, ActivateWrites DEF ContainerInv, Recorded
<1>6. ASSUME NEW c \in Clients, SavePolicyOrUndo(c) \/ DeleteService(c) \/ DeleteApplication(c)
      PROVE  ContainerInv'
  BY <1>1, <1>6, CascadeSteps DEF ContainerInv, Runs
<1>7. CASE CatalogCrash
  BY <1>1, <1>7, CrashWrites DEF ContainerInv, Recorded
<1>8. CASE Reading \/ UNCHANGED catalogState
  BY <1>2, <1>8, ReadingKeeps DEF Reading, ListEnvironmentsForService, BeginDeleteService, BeginDeleteApplication,
       ListServiceRuntime, StopListed, RemoveEmptyNetworks, ProvisionVolume
<1>9. CASE \/ \E c \in Clients : CreateService(c) \/ \E v \in Services : PrepareManagedDatabase(c, v)
           \/ \E e \in Environments : CreateEnvironment(e)
  BY <1>2, <1>9 DEF CreateService, PrepareManagedDatabase, CreateEnvironment
<1> QED
  BY <1>3, <1>4, <1>5, <1>6, <1>7, <1>8, <1>9, CatalogSteps DEF Deploying

\* A container comes to run in the rows with AttachDeployContainer only, a
\* volume with ProvisionVolume.
LEMMA RunsBegins ==
  ASSUME CatalogTypes, KeysInv, HoldInv, DeletionInv, VolumeInv, [CatalogNext]_catalogState, NEW d \in Deploys, Runs(d)'
  PROVE  /\ deploys'[d].service = deploys[d].service
         /\ Runs(d) \/ (clients' = clients /\ (Missed(d) => d \in unlisted'))
<1> USE DEF catalogRows, catalogState
<1>1. CASE Reading \/ UNCHANGED catalogState
  BY <1>1, ReadingKeeps DEF Runs, Reading, ListEnvironmentsForService, BeginDeleteService, BeginDeleteApplication,
       ListServiceRuntime, StopListed, RemoveEmptyNetworks, ProvisionVolume
<1> USE DEF Recorded
<1>2. CASE CatalogCrash
  BY <1>2, CrashWrites DEF Runs
<1>3. ASSUME NEW p \in Deploys, StopDeploy(p) \/ BuildDeploy(p) \/ EnsureEnvironmentNetwork(p) \/ RunDeployContainer(p)
      PROVE  Runs(d) /\ deploys'[d].service = deploys[d].service
  BY <1>3, DeployWrites DEF Runs, StopDeploy, BuildDeploy, EnsureEnvironmentNetwork, RunDeployContainer
<1>4. ASSUME NEW p \in Deploys, AttachDeployContainer(p) \/ RemoveCandidate(p)
      PROVE  /\ deploys'[d].service = deploys[d].service
             /\ Runs(d) \/ (clients' = clients /\ (Missed(d) => d \in unlisted'))
  BY <1>4, DeployWrites DEF Runs, AttachDeployContainer, RemoveCandidate
<1>5. ASSUME NEW p \in Deploys, ActivateDeploy(p)
      PROVE  Runs(d) /\ deploys'[d].service = deploys[d].service
  BY <1>5, ActivateWrites DEF Runs
<1>6. ASSUME NEW p \in Deploys, NEW v \in Services, NEW e \in Environments, QueueDeploy(p, v, e)
      PROVE  Runs(d) /\ deploys'[d].service = deploys[d].service
  <2>1. deploys'[p].at = "queued" /\ containers' = containers /\ \A q \in Deploys \ {p} : deploys'[q] = deploys[q]
    BY <1>6 DEF QueueDeploy, CatalogTypes
  <2> QED
    BY <2>1 DEF Runs
<1>7. ASSUME NEW c \in Clients, SavePolicyOrUndo(c) \/ DeleteService(c) \/ DeleteApplication(c)
      PROVE  Runs(d) /\ deploys'[d].service = deploys[d].service
  BY <1>7, CascadeSteps DEF Runs
<1>8. CASE \/ \E c \in Clients : CreateService(c) \/ \E v \in Services : PrepareManagedDatabase(c, v)
           \/ \E e \in Environments : CreateEnvironment(e)
  BY <1>8 DEF Runs, CreateService, PrepareManagedDatabase, CreateEnvironment
<1> QED
  BY <1>1, <1>2, <1>3, <1>4, <1>5, <1>6, <1>7, <1>8, CatalogSteps DEF Deploying, Advancing

LEMMA VolumesGrow ==
  ASSUME [CatalogNext]_catalogState, volumes' # volumes
  PROVE  /\ UNCHANGED <<catalogRows, clients>>
         /\ \E v \in Services : volumes' = volumes \cup {v} /\ services[v] = "database"
         /\ (\E c \in Clients : Deleting(c) /\ clients[c].service = None) => volumes' \subseteq volumes \cup unlisted'
  BY DEF CatalogNext, catalogState, ListEnvironmentsForService, CreateService, CreateEnvironment, PrepareManagedDatabase,
       SavePolicyOrUndo, ProvisionVolume, QueueDeploy, BuildDeploy, EnsureEnvironmentNetwork, RunDeployContainer,
       StopDeploy, RemoveCandidate, AttachDeployContainer, ActivateDeploy, BeginDeleteService, BeginDeleteApplication, ListServiceRuntime,
       StopListed, DeleteService, DeleteApplication, RemoveEmptyNetworks, CatalogCrash

LEMMA DeletionInvStep ==
  CatalogTypes /\ KeysInv /\ HoldInv /\ DeletionInv /\ VolumeInv /\ [CatalogNext]_catalogState => DeletionInv'
<1> SUFFICES ASSUME CatalogTypes, KeysInv, HoldInv, DeletionInv, VolumeInv, [CatalogNext]_catalogState,
                    NEW b \in Clients, Deleting(b)'
             PROVE  /\ \A d \in Deploys :
                         Runs(d)' /\ deploys'[d].service \notin clients'[b].left /\ clients'[b].service \in {None, deploys'[d].service}
                           => d \in unlisted' \/ (clients'[b].at = "stop" /\ d \in clients'[b].listed)
                    /\ clients'[b].service = None => volumes' \subseteq unlisted'
  BY DEF DeletionInv
<1> USE DEF catalogRows, catalogState
<1>1. unlisted \subseteq unlisted'
  BY UnlistedGrows
<1>2. \A d \in Deploys : Runs(d)' => deploys'[d].service = deploys[d].service
                                      /\ (Runs(d) \/ (clients' = clients /\ (Missed(d) => d \in unlisted')))
  BY RunsBegins
<1>3. CASE clients'[b] = clients[b]
  <2>1. Deleting(b)
    BY <1>3 DEF Deleting
  <2>2. clients[b].service = None => volumes' \subseteq unlisted'
    BY <1>1, <2>1, VolumesGrow DEF DeletionInv
  <2>3. ASSUME NEW d \in Deploys, Runs(d)', deploys'[d].service \notin clients'[b].left, clients'[b].service \in {None, deploys'[d].service}
        PROVE  d \in unlisted' \/ (clients'[b].at = "stop" /\ d \in clients'[b].listed)
    <3>1. CASE Runs(d)
      BY <1>1, <1>2, <1>3, <2>1, <2>3, <3>1 DEF DeletionInv
    <3>2. CASE ~Runs(d)
      BY <1>2, <1>3, <2>1, <2>3, <3>2 DEF Missed
    <3> QED
      BY <3>1, <3>2
  <2> QED
    BY <1>3, <2>2, <2>3
<1>4. CASE clients'[b] # clients[b]
  <2>1. volumes' = volumes
    BY <1>4, VolumesGrow
  <2>2. \A d \in Deploys : Runs(d)' => Runs(d) /\ deploys'[d].service = deploys[d].service
    BY <1>2, <1>4
  <2>3. ASSUME Done(b) \/ (\E s \in {"networks"} : Step(b, s)) \/ (\A c \in Clients : clients'[c] = Idle)
        PROVE  FALSE
    BY <2>3, ClientWrites DEF Deleting
  <2>4. ASSUME NEW c \in Clients, c # b, Done(c) \/ \E s \in {"stop", "delete", "list", "networks"} : Step(c, s)
        PROVE  FALSE
    BY <1>4, <2>4, ClientWrites
  <2>5. ASSUME NEW c \in Clients, CreateService(c) \/ SavePolicyOrUndo(c) \/ DeleteService(c) \/ DeleteApplication(c) \/ RemoveEmptyNetworks(c)
        PROVE  FALSE
    BY <2>3, <2>4, <2>5 DEF CreateService, SavePolicyOrUndo, DeleteService, DeleteApplication, RemoveEmptyNetworks
  <2>6. ASSUME NEW c \in Clients, NEW v \in Services, ListEnvironmentsForService(c, v) \/ PrepareManagedDatabase(c, v)
        PROVE  FALSE
    <3>1. clients'[c].at \in {"create", "policy"} /\ \A a \in Clients \ {c} : clients'[a] = clients[a]
      BY <2>6 DEF ListEnvironmentsForService, PrepareManagedDatabase, CatalogTypes, Idle
    <3> QED
      BY <1>4, <3>1 DEF Deleting
  <2>7. ASSUME NEW c \in Clients, NEW v \in Services, BeginDeleteService(c, v)
        PROVE  /\ \A d \in Deploys :
                    Runs(d)' /\ deploys'[d].service \notin clients'[b].left => ~(clients'[b].service \in {None, deploys'[d].service})
               /\ clients'[b].service # None
    <3>1. clients'[c].service = v /\ clients'[c].left = {v} /\ \A a \in Clients \ {c} : clients'[a] = clients[a]
      BY <2>7 DEF BeginDeleteService, CatalogTypes, Idle
    <3> QED
      BY <1>4, <3>1, CatalogAssumption
  <2>8. ASSUME NEW c \in Clients, BeginDeleteApplication(c)
        PROVE  /\ \A d \in Deploys : Runs(d)' => deploys'[d].service \in clients'[b].left
               /\ volumes' \subseteq unlisted'
    <3>1. clients'[c].left = Existing /\ \A a \in Clients \ {c} : clients'[a] = clients[a]
      BY <2>8 DEF BeginDeleteApplication, CatalogTypes, Idle
    <3>2. b = c
      BY <1>4, <3>1
    <3>3. \A d \in Deploys : Runs(d) => deploys[d].service \in Existing
      BY CatalogAssumption DEF Runs, KeysInv, Existing
    <3>4. volumes \subseteq unlisted
      BY <2>8 DEF BeginDeleteApplication, Applications, VolumeInv, CatalogTypes
    <3> QED
      BY <1>1, <2>1, <2>2, <3>1, <3>2, <3>3, <3>4
  <2>9. ASSUME NEW c \in Clients, NEW v \in Services, ListServiceRuntime(c, v)
        PROVE  /\ \A d \in Deploys :
                    Runs(d)' /\ deploys'[d].service \notin clients'[b].left /\ clients'[b].service \in {None, deploys'[d].service}
                      => d \in unlisted' \/ (clients'[b].at = "stop" /\ d \in clients'[b].listed)
               /\ clients'[b].service = None => volumes' \subseteq unlisted'
    <3>1. /\ clients'[c].at = "stop" /\ clients'[c].left = clients[c].left \ {v} /\ clients'[c].listed = Attached(v)
          /\ clients'[c].service = clients[c].service /\ \A a \in Clients \ {c} : clients'[a] = clients[a]
      BY <2>3, <2>4, <2>9 DEF ListServiceRuntime, CatalogTypes, ClientType
    <3>2. b = c /\ Deleting(c) /\ clients[c].at = "list"
      BY <1>4, <2>9, <3>1 DEF ListServiceRuntime, Deleting
    <3>3. \A d \in Deploys : Runs(d) /\ deploys[d].service = v => d \in Attached(v)
      BY DEF Runs, Attached
    <3> QED
      BY <1>1, <2>1, <2>2, <3>1, <3>2, <3>3 DEF DeletionInv
  <2>10. ASSUME NEW c \in Clients, StopListed(c)
         PROVE  /\ \A d \in Deploys :
                    Runs(d)' /\ deploys'[d].service \notin clients'[b].left /\ clients'[b].service \in {None, deploys'[d].service}
                      => d \in unlisted' \/ (clients'[b].at = "stop" /\ d \in clients'[b].listed)
                /\ clients'[b].service = None => volumes' \subseteq unlisted'
    <3>1. c = b /\ clients[c].at = "stop" /\ clients[c].listed \cap containers = {} /\ Deleting(c)
          /\ Step(c, IF clients[c].left = {} THEN "delete" ELSE "list")
      BY <1>4, <2>3, <2>4, <2>10 DEF StopListed, Deleting
    <3>2. clients'[c].left = clients[c].left /\ clients'[c].service = clients[c].service
      BY <3>1, ClientWrites
    <3>3. \A d \in Deploys : Runs(d) => d \notin clients[c].listed
      BY <3>1 DEF Runs
    <3> QED
      BY <1>1, <2>1, <2>2, <3>1, <3>2, <3>3 DEF DeletionInv
  <2>11. CASE CatalogCrash
    BY <2>3, <2>11 DEF CatalogCrash
  <2>12. ASSUME \/ \E d \in Deploys : Deploying(d) \/ \E v \in Services, e \in Environments : QueueDeploy(d, v, e)
                \/ \E v \in Services : ProvisionVolume(v)
                \/ \E e \in Environments : CreateEnvironment(e)
                \/ UNCHANGED catalogState
         PROVE  FALSE
    BY <1>4, <2>12 DEF Deploying, Advancing, StopDeploy, BuildDeploy, EnsureEnvironmentNetwork, RunDeployContainer,
         AttachDeployContainer, RemoveCandidate, ActivateDeploy, QueueDeploy, ProvisionVolume, CreateEnvironment
  <2> QED
    BY <2>5, <2>6, <2>7, <2>8, <2>9, <2>10, <2>11, <2>12, CatalogSteps DEF Reading
<1> QED
  BY <1>3, <1>4

LEMMA VolumeInvStep ==
  CatalogTypes /\ KeysInv /\ HoldInv /\ DeletionInv /\ VolumeInv /\ [CatalogNext]_catalogState => VolumeInv'
<1> SUFFICES ASSUME CatalogTypes, KeysInv, HoldInv, DeletionInv, VolumeInv, [CatalogNext]_catalogState
             PROVE  VolumeInv'
  OBVIOUS
<1> USE DEF catalogRows, catalogState
<1>1. unlisted \subseteq unlisted' /\ volumes \subseteq Services
  BY UnlistedGrows DEF CatalogTypes
<1>2. CASE volumes' # volumes
  BY <1>1, <1>2, VolumesGrow DEF VolumeInv
<1>3. CASE volumes' = volumes /\ services' = services
  BY <1>1, <1>3 DEF VolumeInv
<1>4. ASSUME NEW c \in Clients, SavePolicyOrUndo(c) \/ DeleteService(c) \/ DeleteApplication(c)
      PROVE  VolumeInv'
  BY <1>4, <1>1, CascadeSteps DEF VolumeInv
<1>5. ASSUME NEW c \in Clients, CreateService(c)
      PROVE  VolumeInv'
  <2>1. clients[c].service \in Services /\ services[clients[c].service] = None
    BY <1>5 DEF CreateService, CatalogTypes, ClientType, HoldInv
  <2>2. volumes' = volumes /\ \A w \in Services \ {clients[c].service} : services'[w] = services[w]
    BY <1>5, <2>1 DEF CreateService, CatalogTypes
  <2> QED
    BY <1>1, <2>1, <2>2, CatalogAssumption DEF VolumeInv
<1>6. ASSUME NEW c \in Clients, NEW v \in Services, PrepareManagedDatabase(c, v)
      PROVE  VolumeInv'
  <2>1. volumes' = volumes /\ v \notin volumes /\ \A w \in Services \ {v} : services'[w] = services[w]
    BY <1>6 DEF PrepareManagedDatabase, CatalogTypes
  <2> QED
    BY <1>1, <2>1 DEF VolumeInv
<1>7. CASE services' # services
  BY <1>4, <1>5, <1>6, <1>7, CatalogSteps, ReadingKeeps, DeployMoves DEF QueueDeploy, CreateEnvironment
<1> QED
  BY <1>2, <1>3, <1>7

LEMMA CatalogKept == CatalogInv /\ [CatalogNext]_catalogState => CatalogInv'
  BY CatalogTypesStep, KeysInvStep, HoldInvStep, ContainerInvStep, DeletionInvStep, VolumeInvStep DEF CatalogInv

LEMMA CatalogMeans == CatalogInv => CatalogTypeOK /\ DeletedRunsNothing
  BY DEF CatalogInv, CatalogTypeOK, CatalogTypes, KeysInv, ContainerInv, VolumeInv, DeletedRunsNothing

\* The inductive invariant of applications and services (repository/
\* service_crud.go, services/delete_v2.go).
THEOREM CatalogInvariant == CatalogSpec => []CatalogInv
<1>1. CatalogInv /\ [CatalogNext]_catalogVars => CatalogInv'
  BY CatalogKept DEF catalogVars
<1> QED
  BY CatalogBegins, <1>1, PTL DEF CatalogSpec

\* Whatever requests, deployments and process ends come in between, a
\* deletion leaves no container and no volume behind, but for what was recorded
\* after it had listed what there was, and a container whose row was not
\* written (delete_v2.go).
THEOREM DeletionsLeaveNothing == CatalogSpec => []DeletedRunsNothing
  BY CatalogInvariant, CatalogMeans, PTL

-----------------------------------------------------------------------------
(***************************************************************************)
(* DeploymentLogs, for every number of files and bytes.  What a viewer     *)
(* shows is exact because the offset of its session is where it stands, as *)
(* long as the server can see what happened to the file (SeenInv), and     *)
(* because a log that nobody moved only grows (GrowsInv).                  *)
(***************************************************************************)

FileType == [version : Nat, size : Nat]

ViewerType == [text : Seq(Nat \X Nat), cursor : Nat, state : {"off", "on", "broken", "ended"}]

SessionType ==
  [at : {"none", "stat", "open", "read", "emit", "follow", "end"}, offset : Nat, sent : Nat, until : Nat,
   file : Files \cup {None}, resume : {"none", "follow", "end"}]

LogTypes ==
  /\ path \in Files \cup {None} /\ disk \in [Files -> FileType] /\ toWrite \in 0..LogBytes
  /\ viewer \in ViewerType /\ session \in SessionType
  /\ due \in Nat /\ ended \in BOOLEAN /\ moved \in BOOLEAN /\ blind \in BOOLEAN

\* Where the server is with a viewer, whatever it has seen of the file.
SessionInv ==
  /\ viewer.state = "on" <=> session.at # "none"
  /\ session.at \in {"open", "read"} => session.resume # "none"
  /\ session.at \in {"read", "emit"} => session.file # None /\ session.offset <= session.until
  /\ viewer.state = "ended" \/ session.at = "end" \/ session.resume = "end" => ended

\* As long as the host leaves the log alone there is one file, and it grows.
GrowsInv ==
  ~moved =>
    /\ path = 1 /\ disk[1].version = 1 /\ session.file \in {None, 1}
    /\ session.until <= disk[1].size /\ due <= disk[1].size

\* What the viewer shows is the beginning of one version.
Prefix(text) == \A k \in 1..Len(text) : text[k] = <<text[1][1], k>>

\* As long as the server could see what happened to the file: it knows what
\* the viewer has, and a viewer it is done with has everything.  A viewer that
\* has left shows what it has, wherever the end frame put its cursor.
SeenInv ==
  \/ blind
  \/ /\ viewer.state \in {"off", "on"} => Len(viewer.text) = viewer.cursor
     /\ Prefix(viewer.text)
     /\ session.at # "none" /\ session.offset = 0 => viewer.cursor = 0
     /\ session.at \in {"follow", "emit"} => session.sent = session.offset
     /\ ~moved => /\ session.at # "none" => session.offset = viewer.cursor
                  /\ session.at \in {"open", "read"} /\ session.resume = "end" => session.until >= due
                  /\ session.at = "end" => viewer.cursor >= due
                  /\ viewer.state = "ended" => Len(viewer.text) >= due

LogInv == LogTypes /\ SessionInv /\ GrowsInv /\ SeenInv

-----------------------------------------------------------------------------
LEMMA FilesAre ==
  /\ 1 \in Files /\ Files \subseteq Nat
  /\ \A s \in [Files -> FileType] : Len(s) \in Nat
<1>1. Cardinality(Files) \in Nat
  BY LogsAssumption, FS_CardinalityType
<1>2. 1 \in Files /\ Files \subseteq Nat
  BY <1>1, LogsAssumption
<1>3. ASSUME NEW s \in [Files -> FileType] PROVE Len(s) \in Nat
  <2>1. s \in [1..Cardinality(Files) -> FileType]
    BY LogsAssumption
  <2>2. s \in Seq(FileType)
    BY <1>1, <2>1
  <2> QED
    BY <2>2
<1> QED
  BY <1>2, <1>3

\* What a chunk adds.
Chunk(v, o, n) == [k \in 1..n |-> <<v, o + k>>]

LEMMA ChunkAdds ==
  ASSUME NEW text \in Seq(Nat \X Nat), NEW v \in Nat, NEW n \in Nat \ {0}, NEW o \in Nat
  PROVE  LET t == text \o Chunk(v, o, n) IN
         /\ t \in Seq(Nat \X Nat)
         /\ Len(text) = o /\ Prefix(text) /\ (o # 0 => text[1][1] = v)
              => Len(t) = o + n /\ t[1][1] = v /\ Prefix(t)
<1> DEFINE S == Nat \X Nat
           chunk == Chunk(v, o, n)
           t == text \o chunk
<1>1. \A k \in 1..n : <<v, o + k>> \in S
  OBVIOUS
<1> HIDE DEF S
<1>2. chunk \in Seq(S) /\ Len(chunk) = n /\ \A k \in 1..n : chunk[k] = <<v, o + k>>
  <2>1. chunk \in [1..n -> S] /\ \A k \in 1..n : chunk[k] = <<v, o + k>>
    BY <1>1 DEF Chunk
  <2> HIDE DEF chunk
  <2> QED
    BY <2>1
<1> HIDE DEF chunk
<1>3. t \in Seq(S) /\ Len(t) = Len(text) + n
      /\ \A k \in 1..Len(t) : t[k] = IF k <= Len(text) THEN text[k] ELSE chunk[k - Len(text)]
  <2>1. text \in Seq(S)
    BY DEF S
  <2> QED
    BY <1>2, <2>1, ConcatProperties
<1> HIDE DEF t
<1>4. ASSUME Len(text) = o, Prefix(text), o # 0 => text[1][1] = v
      PROVE  Len(t) = o + n /\ t[1][1] = v /\ Prefix(t)
  <2>1. \A k \in 1..o : text[k] = <<v, k>>
    BY <1>4 DEF Prefix
  <2>2. ASSUME NEW k \in 1..(o + n) PROVE t[k] = <<v, k>>
    <3>1. CASE k <= o
      BY <1>3, <1>4, <2>1, <3>1
    <3>2. CASE ~(k <= o)
      <4>1. k - o \in 1..n /\ o + (k - o) = k
        BY <3>2
      <4>2. t[k] = chunk[k - o]
        BY <1>3, <1>4, <3>2
      <4>3. chunk[k - o] = <<v, o + (k - o)>>
        BY <1>2, <4>1
      <4> QED
        BY <4>1, <4>2, <4>3
    <3> QED
      BY <3>1, <3>2
  <2>3. 1 \in 1..(o + n)
    OBVIOUS
  <2>4. Len(t) = o + n /\ t[1] = <<v, 1>>
    BY <1>3, <1>4, <2>2, <2>3
  <2>5. t[1][1] = v
    BY <2>4
  <2>6. ASSUME NEW k \in 1..Len(t) PROVE t[k] = <<t[1][1], k>>
    BY <2>2, <2>4, <2>5
  <2> QED
    BY <2>4, <2>5, <2>6 DEF Prefix
<1> QED
  BY <1>3, <1>4 DEF S, t, chunk

-----------------------------------------------------------------------------
LEMMA LogsBegin == LogsInit => LogInv
<1> SUFFICES ASSUME LogsInit PROVE LogInv
  OBVIOUS
<1> USE LogsAssumption, FilesAre
<1>1. /\ viewer \in ViewerType /\ viewer.state = "off"
      /\ Len(viewer.text) = viewer.cursor /\ Prefix(viewer.text)
  <2>1. PICK n \in 0..LogBytes : viewer = [text |-> [k \in 1..n |-> <<0, k>>], cursor |-> n, state |-> "off"]
    BY DEF LogsInit
  <2> DEFINE S == Nat \X Nat
             text == [k \in 1..n |-> <<0, k>>]
  <2>2. n \in Nat /\ \A k \in 1..n : <<0, k>> \in S
    OBVIOUS
  <2>3. text \in Seq(S) /\ Len(text) = n /\ \A k \in 1..n : text[k] = <<0, k>>
    <3> HIDE DEF S
    <3> QED
      BY <2>2
  <2>4. Prefix(text)
    <3> HIDE DEF text
    <3>1. ASSUME NEW k \in 1..Len(text) PROVE text[k] = <<text[1][1], k>>
      <4>1. 1 \in 1..n /\ k \in 1..n
        BY <2>2, <2>3
      <4>2. text[1] = <<0, 1>>
        BY <2>3, <4>1
      <4> QED
        BY <2>3, <4>1, <4>2
    <3> QED
      BY <3>1 DEF Prefix
  <2>5. viewer.text = text /\ viewer.cursor = n /\ viewer.state = "off"
        /\ viewer = [text |-> viewer.text, cursor |-> viewer.cursor, state |-> "off"]
    BY <2>1
  <2> HIDE DEF text
  <2> QED
    BY <2>2, <2>3, <2>4, <2>5 DEF ViewerType
<1>2. session = [at |-> "none", offset |-> 0, sent |-> 0, until |-> 0, file |-> None, resume |-> "none"]
      /\ session \in SessionType
  BY DEF LogsInit, Disconnected, SessionType
<1>3. LogTypes
  <2>1. disk \in [Files -> FileType]
    BY DEF LogsInit, FileType
  <2>2. toWrite \in 0..LogBytes
    BY DEF LogsInit
  <2> QED
    BY <1>1, <1>2, <2>1, <2>2 DEF LogsInit, LogTypes
<1>4. SessionInv /\ GrowsInv
  BY <1>1, <1>2 DEF LogsInit, SessionInv, GrowsInv
<1>5. SeenInv
  BY <1>1, <1>2 DEF LogsInit, SeenInv
<1> QED
  BY <1>3, <1>4, <1>5 DEF LogInv

\* The writes of a session.
LEMMA SessionWrites ==
  ASSUME LogTypes
  PROVE  /\ Disconnected \in SessionType /\ Disconnected.at = "none" /\ Disconnected.offset = 0 /\ Disconnected.until = 0
         /\ Disconnected.file = None /\ Disconnected.resume = "none"
         /\ \A s \in {"none", "stat", "open", "read", "emit", "follow", "end"} :
              /\ LogAt(s) \in SessionType /\ LogAt(s).at = s /\ LogAt(s).offset = session.offset /\ LogAt(s).sent = session.sent
              /\ LogAt(s).until = session.until /\ LogAt(s).file = session.file /\ LogAt(s).resume = session.resume
  BY DEF LogTypes, SessionType, Disconnected, LogAt

LEMMA Leaves ==
  ASSUME LogTypes, Resync \/ GiveUp
  PROVE  /\ viewer' \in ViewerType /\ session' = Disconnected
         /\ \/ Resync /\ viewer'.text = <<>> /\ viewer'.cursor = 0 /\ viewer'.state = "off"
            \/ viewer'.text = viewer.text /\ viewer'.state = "broken"
<1>1. CASE Resync
  BY <1>1 DEF ViewerType, Resync
<1>2. CASE GiveUp
  <2>1. viewer \in ViewerType /\ session \in SessionType /\ session' = Disconnected
    BY <1>2 DEF LogTypes, GiveUp
  <2>2. PICK c \in {session.sent, viewer.cursor} : viewer' = [viewer EXCEPT !.state = "broken", !.cursor = c]
    BY <1>2, <2>1 DEF GiveUp, ViewerType
  <2>3. c \in Nat
    BY <2>1, <2>2 DEF ViewerType, SessionType
  <2> QED
    BY <2>1, <2>2, <2>3 DEF ViewerType
<1> QED
  BY <1>1, <1>2

\* The bytes of one frame.
ChunkRead(n) ==
  LET f == session.file IN
  /\ session.at \in {"read", "emit"} /\ session.offset < disk[f].size
  /\ session.offset + n <= disk[f].size
  /\ viewer' = [viewer EXCEPT !.cursor = session.offset + n,
                  !.text = @ \o [k \in 1..n |-> <<disk[f].version, session.offset + k>>]]
  /\ session' = [session EXCEPT !.offset = @ + n, !.sent = IF session.at = "emit" THEN session.offset + n ELSE @]
  /\ blind' = (blind \/ Stale(f))
  /\ UNCHANGED writerVars

LEMMA ChunkWrites ==
  ASSUME LogTypes, SessionInv, NEW n \in 1..(session.until - session.offset), ChunkRead(n)
  PROVE  /\ viewer' \in ViewerType /\ session' \in SessionType /\ UNCHANGED writerVars
         /\ session.file \in Files
         /\ viewer'.cursor = session.offset + n /\ viewer'.state = viewer.state
         /\ session'.at = session.at /\ session'.until = session.until /\ session'.file = session.file /\ session'.resume = session.resume
         /\ session'.offset = session.offset + n /\ (session.at = "emit" => session'.sent = session.offset + n)
         /\ Len(viewer.text) = session.offset /\ Prefix(viewer.text) /\ (session.offset # 0 => viewer.text[1][1] = disk[session.file].version)
              => Len(viewer'.text) = session.offset + n /\ viewer'.text[1][1] = disk[session.file].version /\ Prefix(viewer'.text)
<1> DEFINE f == session.file
           v == disk[f].version
           o == session.offset
<1>1. f \in Files /\ v \in Nat /\ o \in Nat /\ n \in Nat \ {0} /\ session.until \in Nat
  BY DEF ChunkRead, SessionInv, LogTypes, SessionType, FileType
<1>2. viewer.text \in Seq(Nat \X Nat) /\ viewer \in ViewerType /\ session \in SessionType
  BY DEF LogTypes, ViewerType
<1>3. viewer' = [viewer EXCEPT !.cursor = o + n, !.text = viewer.text \o [k \in 1..n |-> <<v, o + k>>]]
  BY <1>2 DEF ChunkRead, ViewerType
<1>4. /\ session' = [session EXCEPT !.offset = o + n, !.sent = IF session.at = "emit" THEN o + n ELSE session.sent]
      /\ UNCHANGED writerVars
  BY <1>2 DEF ChunkRead, SessionType
<1> HIDE DEF f, v, o
<1>5. viewer'.text = viewer.text \o [k \in 1..n |-> <<v, o + k>>]
      /\ viewer'.cursor = o + n /\ viewer'.state = viewer.state /\ viewer' = [text |-> viewer'.text, cursor |-> o + n, state |-> viewer.state]
  BY <1>2, <1>3 DEF ViewerType
<1>6. /\ viewer'.text \in Seq(Nat \X Nat)
      /\ Len(viewer.text) = o /\ Prefix(viewer.text) /\ (o # 0 => viewer.text[1][1] = v)
              => Len(viewer'.text) = o + n /\ viewer'.text[1][1] = v /\ Prefix(viewer'.text)
  <2>1. viewer'.text = viewer.text \o Chunk(v, o, n)
    BY <1>5 DEF Chunk
  <2>2. LET t == viewer.text \o Chunk(v, o, n) IN
         /\ t \in Seq(Nat \X Nat)
         /\ Len(viewer.text) = o /\ Prefix(viewer.text) /\ (o # 0 => viewer.text[1][1] = v)
              => Len(t) = o + n /\ t[1][1] = v /\ Prefix(t)
    BY <1>1, <1>2, ChunkAdds
  <2> QED
    BY <2>1, <2>2
<1>7. viewer' \in ViewerType
  <2>1. viewer.state \in {"off", "on", "broken", "ended"} /\ o + n \in Nat
    BY <1>1, <1>2 DEF ViewerType
  <2> QED
    BY <1>5, <1>6, <2>1 DEF ViewerType
<1>8. session' \in SessionType
         /\ session'.at = session.at /\ session'.until = session.until /\ session'.file = session.file /\ session'.resume = session.resume
         /\ session'.offset = o + n /\ (session.at = "emit" => session'.sent = o + n)
  <2>1. o + n \in Nat /\ session.sent \in Nat
    BY <1>1, <1>2 DEF SessionType
  <2> QED
    BY <1>2, <1>4, <2>1 DEF SessionType
<1> QED
  BY <1>1, <1>4, <1>5, <1>6, <1>7, <1>8 DEF f, v, o

\* A catch-up, or a poll, that has come to the end of what it set out to read.
ChunksEnd ==
  /\ session.at \in {"read", "emit"} /\ ~(session.offset < session.until /\ session.offset < disk[session.file].size)
  /\ UNCHANGED <<viewer, blind>> /\ UNCHANGED writerVars
  /\ session' = IF session.at = "emit" THEN LogAt("follow")
                ELSE [LogAt(session.resume) EXCEPT !.offset = session.until, !.sent = session.until, !.file = None]

LEMMA ReadSteps ==
  ReadChunk => \/ \E n \in 1..(session.until - session.offset) : ChunkRead(n)
               \/ ChunksEnd
               \/ GiveUp /\ UNCHANGED blind /\ UNCHANGED writerVars
  BY DEF ReadChunk, ChunkRead, ChunksEnd

LEMMA ChunksEndWrites ==
  ASSUME LogTypes, SessionInv, ChunksEnd
  PROVE  /\ session' \in SessionType /\ UNCHANGED <<viewer, blind>> /\ UNCHANGED writerVars
         /\ session'.until = session.until /\ session'.resume = session.resume
         /\ \/ /\ session.at = "emit" /\ session'.at = "follow" /\ session'.offset = session.offset
               /\ session'.sent = session.sent /\ session'.file = session.file
            \/ /\ session.at = "read" /\ session'.at = session.resume /\ session'.at \in {"follow", "end"}
               /\ session'.offset = session.until /\ session'.sent = session.until /\ session'.file = None
<1>1. CASE session.at = "emit"
  BY <1>1, SessionWrites DEF ChunksEnd
<1>2. CASE session.at = "read"
  <2>1. session.resume \in {"follow", "end"} /\ session \in SessionType
    BY <1>2 DEF SessionInv, LogTypes, SessionType
  <2>2. session' = [session EXCEPT !.at = session.resume, !.offset = session.until, !.sent = session.until, !.file = None]
    BY <1>2, <2>1 DEF ChunksEnd, LogAt, SessionType
  <2> QED
    BY <1>2, <2>1, <2>2 DEF SessionType, ChunksEnd
<1> QED
  BY <1>1, <1>2 DEF ChunksEnd

LEMMA LogTypesStep == LogTypes /\ SessionInv /\ [LogsNext]_logState => LogTypes'
<1> SUFFICES ASSUME LogTypes, SessionInv, [LogsNext]_logState PROVE LogTypes'
  OBVIOUS
<1> USE FilesAre DEF writerVars, logState
<1>1. CASE WriteLog
  <2>1. disk' \in [Files -> FileType]
    <3>1. disk[1] \in FileType
      BY DEF LogTypes
    <3>2. [disk[1] EXCEPT !.size = @ + 1] \in FileType
      BY <3>1 DEF FileType
    <3> QED
      BY <1>1, <3>2 DEF WriteLog, LogTypes
  <2>2. toWrite' \in 0..LogBytes
    BY <1>1, LogsAssumption DEF WriteLog, LogTypes
  <2> QED
    BY <1>1, <2>1, <2>2 DEF WriteLog, LogTypes
<1>2. CASE EndDeployment
  <2>1. disk[1].size \in Nat
    BY DEF LogTypes, FileType
  <2> QED
    BY <1>2, <2>1 DEF EndDeployment, LogTypes
<1>3. CASE TruncateLog
  <2>1. path \in Files /\ disk[path].version + Len(disk) \in Nat
    <3>1. path \in Files
      BY <1>3 DEF TruncateLog, LogTypes
    <3>2. disk[path].version \in Nat /\ Len(disk) \in Nat
      BY <3>1 DEF LogTypes, FileType
    <3> QED
      BY <3>1, <3>2
  <2>2. [version |-> disk[path].version + Len(disk), size |-> 0] \in FileType
    BY <2>1 DEF FileType
  <2>3. disk' \in [Files -> FileType]
    BY <1>3, <2>1, <2>2 DEF TruncateLog, LogTypes
  <2> QED
    BY <1>3, <2>3 DEF TruncateLog, LogTypes
<1>4. CASE RemoveLog
  BY <1>4 DEF RemoveLog, LogTypes
<1>5. CASE PutNewLog
  <2>1. path' \in Files /\ \E n \in 0..LogBytes : disk' = [disk EXCEPT ![path'].size = n]
    BY <1>5 DEF PutNewLog
  <2>2. PICK n \in 0..LogBytes : disk' = [disk EXCEPT ![path'].size = n]
    BY <2>1
  <2>3. n \in Nat
    BY LogsAssumption
  <2>4. disk' \in [Files -> FileType]
    BY <2>1, <2>2, <2>3 DEF LogTypes, FileType
  <2> QED
    BY <1>5, <2>1, <2>4 DEF PutNewLog, LogTypes
<1>6. CASE Connect
  <2>1. viewer' \in ViewerType
    BY <1>6 DEF Connect, LogTypes, ViewerType
  <2>2. viewer.cursor \in Nat
    BY DEF LogTypes, ViewerType
  <2>3. session' \in SessionType
    BY <1>6, <2>2 DEF Connect, Disconnected, SessionType
  <2> QED
    BY <1>6, <2>1, <2>3 DEF Connect, LogTypes
<1>7. CASE LoseConnection
  <2>1. viewer' \in ViewerType
    BY <1>7 DEF LoseConnection, LogTypes, ViewerType
  <2> QED
    BY <1>7, <2>1, SessionWrites DEF LoseConnection, LogTypes
<1>8. ASSUME UNCHANGED writerVars, blind' \in BOOLEAN, viewer' \in ViewerType, session' \in SessionType
      PROVE  LogTypes'
  BY <1>8 DEF LogTypes
<1>9. \A f : Stale(f) \in BOOLEAN
  BY DEF Stale
<1>10. \A f \in Files \cup {None} : Size(f) \in Nat
  BY DEF Size, LogTypes, FileType
<1>11. viewer \in ViewerType /\ session \in SessionType /\ blind \in BOOLEAN /\ path \in Files \cup {None}
  BY DEF LogTypes
<1>12. CASE StatLog
  <2>1. CASE session' = [session EXCEPT !.at = "open", !.until = Size(path), !.resume = "follow"]
    <3>1. session' \in SessionType
      BY <1>10, <1>11, <2>1 DEF SessionType
    <3> QED
      BY <1>8, <1>9, <1>11, <1>12, <3>1, SessionWrites, Leaves DEF StatLog
  <2> QED
    BY <1>8, <1>11, <1>12, <2>1, SessionWrites, Leaves DEF StatLog
<1>13. CASE OpenToCatchUp
  <2>1. CASE session' = [LogAt(session.resume) EXCEPT !.sent = session.offset, !.file = None] /\ UNCHANGED <<viewer, blind>>
    <3>1. session' \in SessionType
      BY <1>11, <1>13, <2>1 DEF SessionType, LogAt, SessionInv, OpenToCatchUp
    <3> QED
      BY <1>8, <1>11, <1>13, <2>1, <3>1 DEF OpenToCatchUp
  <2>2. CASE path # None /\ session' = [LogAt("read") EXCEPT !.file = path] /\ blind' = (blind \/ Stale(path)) /\ UNCHANGED viewer
    <3>1. session' \in SessionType
      BY <1>11, <2>2 DEF SessionType, LogAt
    <3> QED
      BY <1>8, <1>9, <1>11, <1>13, <2>2, <3>1 DEF OpenToCatchUp
  <2>3. CASE GiveUp /\ UNCHANGED blind
    BY <1>8, <1>11, <1>13, <2>3, SessionWrites, Leaves DEF OpenToCatchUp
  <2> QED
    BY <1>13, <2>1, <2>2, <2>3 DEF OpenToCatchUp
<1>14. CASE ReadChunk
  <2>1. ASSUME NEW n \in 1..(session.until - session.offset), ChunkRead(n) PROVE LogTypes'
    BY <1>8, <1>9, <1>11, <2>1, ChunkWrites DEF ChunkRead
  <2>2. CASE ChunksEnd
    BY <1>8, <1>11, <2>2, ChunksEndWrites
  <2>3. CASE GiveUp /\ UNCHANGED blind /\ UNCHANGED writerVars
    BY <1>8, <1>11, <2>3, SessionWrites, Leaves
  <2> QED
    BY <1>14, <2>1, <2>2, <2>3, ReadSteps
<1>15. CASE OpenToFollow
  <2>1. CASE session' = [session EXCEPT !.file = path]
    <3>1. session' \in SessionType
      BY <1>11, <2>1 DEF SessionType
    <3> QED
      BY <1>8, <1>9, <1>11, <1>15, <3>1, SessionWrites, Leaves DEF OpenToFollow
  <2> QED
    BY <1>8, <1>11, <1>15, <2>1, SessionWrites, Leaves DEF OpenToFollow
<1>16. CASE PollLog
  <2>1. CASE session' = [session EXCEPT !.file = None, !.offset = 0] /\ blind' = (blind \/ session.offset > 0) /\ UNCHANGED viewer
    <3>1. session' \in SessionType
      BY <1>11, <2>1 DEF SessionType
    <3> QED
      BY <1>8, <1>11, <1>16, <2>1, <3>1 DEF PollLog
  <2>2. CASE Resync /\ UNCHANGED blind
    BY <1>8, <1>11, <1>16, <2>2, SessionWrites, Leaves DEF PollLog
  <2>3. CASE session' = [LogAt("emit") EXCEPT !.until = Size(path)] /\ blind' = (blind \/ Stale(path)) /\ UNCHANGED viewer
    <3>1. session' \in SessionType
      BY <1>10, <1>11, <2>3 DEF SessionType, LogAt
    <3> QED
      BY <1>8, <1>9, <1>11, <1>16, <2>3, <3>1 DEF PollLog
  <2> QED
    BY <1>16, <2>1, <2>2, <2>3 DEF PollLog
<1>17. CASE SeeTerminalStatus
  <2>1. session.sent \in Nat /\ Size(path) \in Nat
    BY <1>10, <1>11 DEF SessionType
  <2>2. \E u \in Nat : \/ session' = [session EXCEPT !.at = "open", !.offset = session.sent, !.until = u, !.resume = "end"]
                       \/ session' = [session EXCEPT !.at = "end", !.until = u]
    BY <1>11, <1>17, <2>1 DEF SeeTerminalStatus, LogAt, SessionType
  <2>3. session' \in SessionType
    BY <1>11, <2>1, <2>2 DEF SessionType
  <2> QED
    BY <1>8, <1>11, <1>17, <2>3 DEF SeeTerminalStatus
<1>18. CASE SendEnd
  <2>1. viewer' \in ViewerType
    BY <1>11, <1>18 DEF SendEnd, ViewerType, SessionType
  <2> QED
    BY <1>8, <1>11, <1>18, <2>1, SessionWrites DEF SendEnd
<1>19. CASE UNCHANGED logState
  BY <1>19 DEF LogTypes
<1> QED
  BY <1>1, <1>2, <1>3, <1>4, <1>5, <1>6, <1>7, <1>12, <1>13, <1>14, <1>15, <1>16, <1>17, <1>18, <1>19 DEF LogsNext

-----------------------------------------------------------------------------
\* What each step of the server and of the viewer does to a session, field by
\* field.
LEMMA ServerSteps ==
  ASSUME LogTypes, SessionInv
  PROVE  /\ Connect =>
              /\ session'.at = "stat" /\ session'.offset = viewer.cursor /\ session'.until = 0 /\ session'.file = None /\ session'.resume = "none"
              /\ viewer'.text = viewer.text /\ viewer'.cursor = viewer.cursor /\ viewer'.state = "on" /\ viewer.state = "off"
         /\ LoseConnection =>
              session' = Disconnected /\ viewer'.text = viewer.text /\ viewer'.cursor = viewer.cursor /\ viewer'.state = "off"
         /\ StatLog /\ ~Resync =>
              /\ session.at = "stat" /\ session.offset <= Size(path)
              /\ session'.at = "open" /\ session'.offset = session.offset /\ session'.until = Size(path) /\ session'.file = session.file
              /\ session'.resume = "follow" /\ viewer' = viewer
         /\ OpenToCatchUp /\ ~GiveUp =>
              /\ session.at = "open" /\ viewer' = viewer
              /\ session'.offset = session.offset /\ session'.until = session.until /\ session'.resume = session.resume
              /\ \/ session.offset >= session.until /\ session'.at = session.resume /\ session'.sent = session.offset /\ session'.file = None
                 \/ session.offset < session.until /\ session'.at = "read" /\ session'.file = path /\ path # None
         /\ OpenToFollow /\ ~Resync =>
              /\ session.at = "follow" /\ viewer' = viewer /\ session'.file = path
              /\ session'.at = "follow" /\ session'.offset = session.offset /\ session'.sent = session.sent /\ session'.until = session.until
              /\ session'.resume = session.resume
         /\ PollLog /\ ~Resync =>
              /\ session.at = "follow" /\ viewer' = viewer /\ session'.sent = session.sent /\ session'.resume = session.resume
              /\ \/ /\ path = None /\ session'.at = "follow" /\ session'.file = None /\ session'.offset = 0
                    /\ session'.until = session.until /\ blind' = (blind \/ session.offset > 0)
                 \/ /\ session'.at = "emit" /\ session'.file = session.file /\ session.file # None /\ session'.offset = session.offset
                    /\ session'.until = Size(path) /\ Size(path) > session.offset
         /\ SeeTerminalStatus =>
              /\ session.at = "follow" /\ ended /\ viewer' = viewer /\ session'.file = session.file
              /\ \/ /\ session'.at = "open" /\ session'.offset = session.sent /\ session'.until = Size(path) /\ session'.resume = "end"
                 \/ /\ path = None \/ session.sent >= Size(path)
                    /\ session'.at = "end" /\ session'.offset = session.offset /\ session'.resume = session.resume
                    /\ session'.until \in {session.sent, Size(path)} /\ (path # None => session'.until = Size(path))
         /\ SendEnd =>
              session.at = "end" /\ session' = Disconnected /\ viewer'.text = viewer.text /\ viewer'.state = "ended"
<1>1. viewer \in ViewerType /\ session \in SessionType /\ path \in Files \cup {None}
  BY DEF LogTypes
<1>2. session.offset \in Nat /\ session.until \in Nat /\ session.sent \in Nat /\ Size(path) \in Nat
  BY <1>1 DEF SessionType, Size, LogTypes, FileType
<1>3. Connect =>
         /\ session'.at = "stat" /\ session'.offset = viewer.cursor /\ session'.until = 0 /\ session'.file = None /\ session'.resume = "none"
         /\ viewer'.text = viewer.text /\ viewer'.cursor = viewer.cursor /\ viewer'.state = "on" /\ viewer.state = "off"
  BY <1>1 DEF Connect, ViewerType, Disconnected
<1>4. LoseConnection =>
         session' = Disconnected /\ viewer'.text = viewer.text /\ viewer'.cursor = viewer.cursor /\ viewer'.state = "off"
  BY <1>1 DEF LoseConnection, ViewerType
<1>5. StatLog /\ ~Resync =>
         /\ session.at = "stat" /\ session.offset <= Size(path)
         /\ session'.at = "open" /\ session'.offset = session.offset /\ session'.until = Size(path) /\ session'.file = session.file
         /\ session'.resume = "follow" /\ viewer' = viewer
  <2> SUFFICES ASSUME StatLog, ~Resync
               PROVE  /\ session.at = "stat" /\ session.offset <= Size(path)
                      /\ session'.at = "open" /\ session'.offset = session.offset /\ session'.until = Size(path)
                      /\ session'.file = session.file /\ session'.resume = "follow" /\ viewer' = viewer
    OBVIOUS
  <2>1. /\ session.at = "stat" /\ ~(session.offset > Size(path)) /\ viewer' = viewer
        /\ session' = [session EXCEPT !.at = "open", !.until = Size(path), !.resume = "follow"]
    BY DEF StatLog
  <2>2. session.offset <= Size(path)
    BY <1>2, <2>1
  <2> QED
    BY <1>1, <2>1, <2>2 DEF SessionType
<1>6. OpenToCatchUp /\ ~GiveUp =>
         /\ session.at = "open" /\ viewer' = viewer
         /\ session'.offset = session.offset /\ session'.until = session.until /\ session'.resume = session.resume
         /\ \/ session.offset >= session.until /\ session'.at = session.resume /\ session'.sent = session.offset /\ session'.file = None
            \/ session.offset < session.until /\ session'.at = "read" /\ session'.file = path /\ path # None
  <2> SUFFICES ASSUME OpenToCatchUp, ~GiveUp
               PROVE  /\ session.at = "open" /\ viewer' = viewer
                      /\ session'.offset = session.offset /\ session'.until = session.until /\ session'.resume = session.resume
                      /\ \/ /\ session.offset >= session.until /\ session'.at = session.resume
                            /\ session'.sent = session.offset /\ session'.file = None
                         \/ session.offset < session.until /\ session'.at = "read" /\ session'.file = path /\ path # None
    OBVIOUS
  <2>1. /\ session.at = "open" /\ viewer' = viewer
        /\ \/ session.offset >= session.until /\ session' = [LogAt(session.resume) EXCEPT !.sent = session.offset, !.file = None]
           \/ ~(session.offset >= session.until) /\ path # None /\ session' = [LogAt("read") EXCEPT !.file = path]
    BY DEF OpenToCatchUp
  <2>2. CASE session.offset >= session.until
    BY <1>1, <2>1, <2>2 DEF LogAt, SessionType
  <2>3. CASE ~(session.offset >= session.until)
    <3>1. session.offset < session.until
      BY <1>2, <2>3
    <3> QED
      BY <1>1, <2>1, <2>3, <3>1 DEF LogAt, SessionType
  <2> QED
    BY <2>2, <2>3
<1>7. OpenToFollow /\ ~Resync =>
         /\ session.at = "follow" /\ viewer' = viewer /\ session'.file = path
         /\ session'.at = "follow" /\ session'.offset = session.offset /\ session'.sent = session.sent /\ session'.until = session.until
         /\ session'.resume = session.resume
  BY <1>1 DEF OpenToFollow, SessionType
<1>8. PollLog /\ ~Resync =>
         /\ session.at = "follow" /\ viewer' = viewer /\ session'.sent = session.sent /\ session'.resume = session.resume
         /\ \/ /\ path = None /\ session'.at = "follow" /\ session'.file = None /\ session'.offset = 0
               /\ session'.until = session.until /\ blind' = (blind \/ session.offset > 0)
            \/ /\ session'.at = "emit" /\ session'.file = session.file /\ session.file # None /\ session'.offset = session.offset
               /\ session'.until = Size(path) /\ Size(path) > session.offset
  BY <1>1 DEF PollLog, LogAt, SessionType
<1>9. SeeTerminalStatus =>
         /\ session.at = "follow" /\ ended /\ viewer' = viewer /\ session'.file = session.file
         /\ \/ /\ session'.at = "open" /\ session'.offset = session.sent /\ session'.until = Size(path) /\ session'.resume = "end"
            \/ /\ path = None \/ session.sent >= Size(path)
               /\ session'.at = "end" /\ session'.offset = session.offset /\ session'.resume = session.resume
               /\ session'.until \in {session.sent, Size(path)} /\ (path # None => session'.until = Size(path))
  BY <1>1, <1>2 DEF SeeTerminalStatus, LogAt, SessionType
<1>10. SendEnd =>
         session.at = "end" /\ session' = Disconnected /\ viewer'.text = viewer.text /\ viewer'.state = "ended"
  BY <1>1 DEF SendEnd, ViewerType
<1> QED
  BY <1>3, <1>4, <1>5, <1>6, <1>7, <1>8, <1>9, <1>10

\* What is remembered of the past stays.
LEMMA HistoryGrows ==
  ASSUME [LogsNext]_logState
  PROVE  /\ (moved => moved') /\ (TruncateLog \/ RemoveLog \/ PutNewLog => moved')
         /\ (blind => blind')
<1> USE DEF writerVars, logState
<1>1. TruncateLog => moved'
  BY DEF TruncateLog
<1>2. RemoveLog => moved'
  BY DEF RemoveLog
<1>3. PutNewLog => moved' /\ blind' = blind
  BY DEF PutNewLog
<1>4. WriteLog \/ EndDeployment => UNCHANGED <<moved, blind>>
  BY DEF WriteLog, EndDeployment
<1>5. TruncateLog \/ RemoveLog => UNCHANGED blind
  BY DEF TruncateLog, RemoveLog
<1>6. Connect \/ LoseConnection \/ SeeTerminalStatus \/ SendEnd => UNCHANGED <<moved, blind>>
  BY DEF Connect, LoseConnection, SeeTerminalStatus, SendEnd
<1>7. StatLog => moved' = moved /\ (blind => blind')
  BY Zenon DEF StatLog
<1>8. OpenToCatchUp => moved' = moved /\ (blind => blind')
  BY Zenon DEF OpenToCatchUp
<1>9. ReadChunk => moved' = moved /\ (blind => blind')
  <2>1. \A n : ChunkRead(n) => moved' = moved /\ (blind => blind')
    BY Zenon DEF ChunkRead
  <2>2. ChunksEnd => UNCHANGED <<moved, blind>>
    BY DEF ChunksEnd
  <2> QED
    BY <2>1, <2>2, ReadSteps
<1>10. OpenToFollow => moved' = moved /\ (blind => blind')
  BY Zenon DEF OpenToFollow
<1>11. PollLog => moved' = moved /\ (blind => blind')
  BY Zenon DEF PollLog
<1> QED
  BY <1>1, <1>2, <1>3, <1>4, <1>5, <1>6, <1>7, <1>8, <1>9, <1>10, <1>11 DEF LogsNext

LEMMA SessionInvStep == LogTypes /\ SessionInv /\ [LogsNext]_logState => SessionInv'
<1> SUFFICES ASSUME LogTypes, SessionInv, [LogsNext]_logState PROVE SessionInv'
  OBVIOUS
<1> USE DEF writerVars, logState
<1>1. viewer \in ViewerType /\ session \in SessionType
  BY DEF LogTypes
<1>2. session.offset \in Nat /\ session.until \in Nat
  BY <1>1 DEF SessionType
<1>3. CASE UNCHANGED <<viewer, session>> /\ ended' \in {TRUE, ended}
  BY <1>3 DEF SessionInv
<1>4. CASE (Resync \/ GiveUp) /\ ended' = ended
  BY <1>4, Leaves, SessionWrites DEF SessionInv
<1>5. CASE Connect \/ LoseConnection
  <2>1. ended' = ended
    BY <1>5 DEF Connect, LoseConnection
  <2> QED
    BY <1>5, <2>1, ServerSteps, SessionWrites DEF SessionInv
<1>6. CASE StatLog
  BY <1>4, <1>6, ServerSteps DEF StatLog, SessionInv
<1>7. CASE OpenToCatchUp
  <2>1. ended' = ended /\ session.resume \in {"follow", "end"}
    BY <1>1, <1>7 DEF OpenToCatchUp, SessionInv, SessionType
  <2> QED
    BY <1>2, <1>4, <1>7, <2>1, ServerSteps DEF OpenToCatchUp, SessionInv
<1>8. CASE ReadChunk
  <2>1. ASSUME NEW n \in 1..(session.until - session.offset), ChunkRead(n) PROVE SessionInv'
    <3>1. /\ viewer'.state = viewer.state /\ session'.at = session.at /\ session'.until = session.until
          /\ session'.file = session.file /\ session'.resume = session.resume /\ session'.offset = session.offset + n
          /\ ended' = ended
      BY <2>1, ChunkWrites
    <3>2. session.offset + n <= session.until
      BY <1>2
    <3> QED
      BY <3>1, <3>2 DEF SessionInv
  <2>2. CASE ChunksEnd
    BY <2>2, ChunksEndWrites DEF SessionInv
  <2> QED
    BY <1>4, <1>8, <2>1, <2>2, ReadSteps
<1>9. CASE OpenToFollow
  BY <1>4, <1>9, ServerSteps DEF OpenToFollow, SessionInv
<1>10. CASE PollLog
  <2>1. Size(path) \in Nat /\ ended' = ended
    BY <1>10 DEF Size, LogTypes, FileType, PollLog
  <2> QED
    BY <1>2, <1>4, <1>10, <2>1, ServerSteps DEF SessionInv
<1>11. CASE SeeTerminalStatus \/ SendEnd
  <2>1. ended' = ended
    BY <1>11 DEF SeeTerminalStatus, SendEnd
  <2> QED
    BY <1>11, <2>1, ServerSteps, SessionWrites DEF SessionInv
<1>12. CASE WriteLog \/ EndDeployment \/ TruncateLog \/ RemoveLog \/ PutNewLog \/ UNCHANGED logState
  BY <1>3, <1>12 DEF WriteLog, EndDeployment, TruncateLog, RemoveLog, PutNewLog
<1> QED
  BY <1>5, <1>6, <1>7, <1>8, <1>9, <1>10, <1>11, <1>12 DEF LogsNext

LEMMA GrowsInvStep == LogTypes /\ SessionInv /\ GrowsInv /\ [LogsNext]_logState => GrowsInv'
<1> SUFFICES ASSUME LogTypes, SessionInv, GrowsInv, [LogsNext]_logState, ~moved'
             PROVE  /\ path' = 1 /\ disk'[1].version = 1 /\ session'.file \in {None, 1}
                    /\ session'.until <= disk'[1].size /\ due' <= disk'[1].size
  BY DEF GrowsInv
<1> USE FilesAre DEF writerVars, logState
<1>1. ~moved /\ ~TruncateLog /\ ~RemoveLog /\ ~PutNewLog
  BY HistoryGrows
<1>2. /\ path = 1 /\ disk[1].version = 1 /\ session.file \in {None, 1}
      /\ session.until <= disk[1].size /\ due <= disk[1].size
  BY <1>1 DEF GrowsInv
<1>3. viewer \in ViewerType /\ session \in SessionType /\ disk[1] \in FileType /\ due \in Nat
  BY DEF LogTypes
<1>4. /\ session.offset \in Nat /\ session.until \in Nat /\ session.sent \in Nat /\ viewer.cursor \in Nat
      /\ disk[1].size \in Nat /\ Size(path) = disk[1].size
  BY <1>2, <1>3, LogsAssumption DEF SessionType, ViewerType, FileType, Size
<1>5. CASE WriteLog
  <2>1. disk'[1] = [disk[1] EXCEPT !.size = @ + 1]
    BY <1>5 DEF WriteLog, LogTypes
  <2>2. disk'[1].version = 1 /\ disk'[1].size = disk[1].size + 1
    BY <1>2, <1>3, <2>1 DEF FileType
  <2> QED
    BY <1>2, <1>4, <1>3, <1>5, <2>2 DEF WriteLog
<1>6. CASE EndDeployment \/ UNCHANGED logState
  BY <1>2, <1>4, <1>6 DEF EndDeployment
<1>7. ASSUME UNCHANGED writerVars, session'.file \in {None, 1},
             session'.until \in {0, session.until, disk[1].size}
      PROVE  /\ path' = 1 /\ disk'[1].version = 1 /\ session'.file \in {None, 1}
             /\ session'.until <= disk'[1].size /\ due' <= disk'[1].size
  BY <1>2, <1>4, <1>7
<1>8. CASE ReadChunk
  <2>1. ASSUME NEW n \in 1..(session.until - session.offset), ChunkRead(n)
        PROVE  /\ path' = 1 /\ disk'[1].version = 1 /\ session'.file \in {None, 1}
               /\ session'.until <= disk'[1].size /\ due' <= disk'[1].size
    BY <1>2, <1>4, <2>1, ChunkWrites, LogsAssumption DEF ChunkRead
  <2>2. CASE ChunksEnd
    BY <1>2, <1>7, <2>2, ChunksEndWrites
  <2>3. CASE GiveUp /\ UNCHANGED writerVars
    BY <1>7, <2>3, Leaves, SessionWrites
  <2> QED
    BY <1>8, <2>1, <2>2, <2>3, ReadSteps
<1>9. CASE Resync \/ GiveUp
  <2>1. UNCHANGED writerVars \/ ReadChunk \/ WriteLog \/ EndDeployment
    BY <1>1 DEF LogsNext, Connect, LoseConnection, StatLog, OpenToCatchUp, OpenToFollow, PollLog, SeeTerminalStatus, SendEnd
  <2> QED
    BY <1>5, <1>6, <1>7, <1>8, <1>9, <2>1, Leaves, SessionWrites
<1>10. CASE ~Resync /\ ~GiveUp /\ (Connect \/ LoseConnection \/ StatLog \/ OpenToCatchUp \/ OpenToFollow \/ PollLog \/ SeeTerminalStatus \/ SendEnd)
  <2>1. UNCHANGED writerVars
    BY <1>10 DEF Connect, LoseConnection, StatLog, OpenToCatchUp, OpenToFollow, PollLog, SeeTerminalStatus, SendEnd
  <2>2. session'.file \in {None, 1} /\ session'.until \in {0, session.until, disk[1].size}
    BY <1>2, <1>4, <1>10, ServerSteps, SessionWrites, LogsAssumption
  <2> QED
    BY <1>7, <2>1, <2>2
<1> QED
  BY <1>1, <1>5, <1>6, <1>8, <1>9, <1>10 DEF LogsNext

LEMMA SeenInvStep == LogTypes /\ SessionInv /\ GrowsInv /\ SeenInv /\ [LogsNext]_logState => SeenInv'
<1> SUFFICES ASSUME LogTypes, SessionInv, GrowsInv, SeenInv, [LogsNext]_logState, ~blind'
             PROVE  /\ (viewer'.state \in {"off", "on"} => Len(viewer'.text) = viewer'.cursor) /\ Prefix(viewer'.text)
                    /\ session'.at # "none" /\ session'.offset = 0 => viewer'.cursor = 0
                    /\ session'.at \in {"follow", "emit"} => session'.sent = session'.offset
                    /\ ~moved' => /\ session'.at # "none" => session'.offset = viewer'.cursor
                                  /\ session'.at \in {"open", "read"} /\ session'.resume = "end" => session'.until >= due'
                                  /\ session'.at = "end" => viewer'.cursor >= due'
                                  /\ viewer'.state = "ended" => Len(viewer'.text) >= due'
  BY DEF SeenInv
<1> USE FilesAre DEF writerVars, logState
<1>1. ~blind /\ (moved => moved')
  BY HistoryGrows
<1>2. /\ (viewer.state \in {"off", "on"} => Len(viewer.text) = viewer.cursor) /\ Prefix(viewer.text)
      /\ session.at # "none" /\ session.offset = 0 => viewer.cursor = 0
      /\ session.at \in {"follow", "emit"} => session.sent = session.offset
      /\ ~moved => /\ session.at # "none" => session.offset = viewer.cursor
                   /\ session.at \in {"open", "read"} /\ session.resume = "end" => session.until >= due
                   /\ session.at = "end" => viewer.cursor >= due
                   /\ viewer.state = "ended" => Len(viewer.text) >= due
  BY <1>1 DEF SeenInv
<1>3. viewer \in ViewerType /\ session \in SessionType /\ due \in Nat
  BY DEF LogTypes
<1>4. session.offset \in Nat /\ session.until \in Nat /\ session.sent \in Nat /\ viewer.cursor \in Nat /\ Size(path) \in Nat
  BY <1>3 DEF SessionType, ViewerType, Size, LogTypes, FileType
<1>5. ~moved => Size(path) = disk[1].size /\ due <= Size(path) /\ path = 1 /\ path # None
  BY LogsAssumption DEF GrowsInv, Size
<1>6. /\ viewer.state = "ended" \/ session.at = "end" \/ session.resume = "end" => ended
      /\ viewer.state = "on" <=> session.at # "none"
      /\ viewer.state = "on" => Len(viewer.text) = viewer.cursor
  BY <1>2 DEF SessionInv
<1> DEFINE Goal ==
      /\ (viewer'.state \in {"off", "on"} => Len(viewer'.text) = viewer'.cursor) /\ Prefix(viewer'.text)
      /\ session'.at # "none" /\ session'.offset = 0 => viewer'.cursor = 0
      /\ session'.at \in {"follow", "emit"} => session'.sent = session'.offset
      /\ ~moved' => /\ session'.at # "none" => session'.offset = viewer'.cursor
                    /\ session'.at \in {"open", "read"} /\ session'.resume = "end" => session'.until >= due'
                    /\ session'.at = "end" => viewer'.cursor >= due'
                    /\ viewer'.state = "ended" => Len(viewer'.text) >= due'
<1>7. CASE UNCHANGED <<viewer, session>> /\ (due' = due \/ ~ended)
  BY <1>1, <1>2, <1>6, <1>7
<1>8. CASE (Resync \/ GiveUp) /\ UNCHANGED writerVars
  <2>1. Len(<<>>) = 0 /\ Prefix(<<>>)
    BY DEF Prefix
  <2> QED
    BY <1>2, <1>6, <1>8, <2>1, Leaves, SessionWrites
<1>9. CASE Connect \/ LoseConnection \/ SendEnd
  <2>1. UNCHANGED writerVars
    BY <1>9 DEF Connect, LoseConnection, SendEnd
  <2>2. CASE Connect
    BY <1>2, <1>6, <2>1, <2>2, ServerSteps
  <2>3. CASE LoseConnection
    <3>1. viewer.state = "on"
      BY <2>3 DEF LoseConnection
    <3> QED
      BY <1>2, <1>6, <2>1, <2>3, <3>1, ServerSteps, SessionWrites
  <2>4. CASE SendEnd
    BY <1>2, <1>4, <1>6, <2>1, <2>4, ServerSteps, SessionWrites
  <2> QED
    BY <1>9, <2>2, <2>3, <2>4
<1>10. CASE (StatLog \/ OpenToCatchUp \/ OpenToFollow) /\ ~Resync /\ ~GiveUp
  <2>1. UNCHANGED writerVars
    BY <1>10 DEF StatLog, OpenToCatchUp, OpenToFollow
  <2>2. viewer' = viewer /\ session'.offset = session.offset /\ session.at # "none"
    BY <1>10, ServerSteps
  <2>3. CASE StatLog
    BY <1>2, <1>6, <1>10, <2>1, <2>2, <2>3, ServerSteps
  <2>4. CASE OpenToCatchUp
    <3>1. session.resume \in {"follow", "end"}
      BY <1>3, <2>4 DEF OpenToCatchUp, SessionInv, SessionType
    <3>2. /\ session.at = "open" /\ session'.until = session.until /\ session'.resume = session.resume
          /\ \/ session.offset >= session.until /\ session'.at = session.resume /\ session'.sent = session.offset
             \/ session'.at = "read"
      BY <1>10, <2>4, ServerSteps
    <3>3. session'.at = session.resume /\ session.resume = "end" /\ ~moved => viewer.cursor >= due
      BY <1>2, <1>3, <1>4, <3>2
    <3> QED
      BY <1>2, <1>6, <2>1, <2>2, <3>1, <3>2, <3>3
  <2>5. CASE OpenToFollow
    BY <1>2, <1>6, <1>10, <2>1, <2>2, <2>5, ServerSteps
  <2> QED
    BY <1>10, <2>3, <2>4, <2>5
<1>11. CASE PollLog /\ ~Resync
  <2>1. UNCHANGED writerVars
    BY <1>11 DEF PollLog
  <2>2. blind' = (blind \/ session.offset > 0) => ~(session.offset > 0)
    BY Zenon
  <2>3. blind' = (blind \/ session.offset > 0) => session.offset = 0
    BY <1>4, <2>2
  <2> QED
    BY <1>2, <1>4, <1>5, <1>6, <1>11, <2>1, <2>3, ServerSteps
<1>12. CASE SeeTerminalStatus
  <2>1. UNCHANGED writerVars
    BY <1>12 DEF SeeTerminalStatus
  <2>2. session'.at = "end" /\ ~moved => viewer.cursor >= due
    <3>1. session'.at = "end" /\ ~moved => session.sent >= Size(path) /\ session.sent = viewer.cursor /\ due <= Size(path)
      BY <1>2, <1>5, <1>12, ServerSteps
    <3> QED
      BY <1>3, <1>4, <3>1
  <2>3. session'.at = "open" /\ ~moved => session'.until >= due /\ session'.offset = viewer.cursor
    <3>1. session'.at = "open" /\ ~moved => session'.until = Size(path) /\ session'.offset = session.sent
      BY <1>12, ServerSteps
    <3> QED
      BY <1>2, <1>3, <1>4, <1>5, <1>12, <3>1, ServerSteps
  <2> QED
    BY <1>2, <1>6, <1>12, <2>1, <2>2, <2>3, ServerSteps
<1>13. CASE ReadChunk
  <2>1. ASSUME NEW n \in 1..(session.until - session.offset), ChunkRead(n)
        PROVE  Goal
    <3> DEFINE v == disk[session.file].version
    <3>1. session.at \in {"read", "emit"} /\ ~Stale(session.file) /\ UNCHANGED writerVars
      BY <2>1 DEF ChunkRead
    <3>2. Len(viewer.text) = session.offset /\ (session.offset # 0 => viewer.text[1][1] = v)
      BY <1>2, <1>4, <1>6, <3>1 DEF Stale
    <3>3. Len(viewer'.text) = session.offset + n /\ viewer'.text[1][1] = v /\ Prefix(viewer'.text)
      BY <1>2, <2>1, <3>2, ChunkWrites
    <3>4. /\ viewer'.cursor = session.offset + n /\ viewer'.state = viewer.state /\ session'.at = session.at
          /\ session'.until = session.until /\ session'.resume = session.resume
          /\ session'.offset = session.offset + n /\ (session.at = "emit" => session'.sent = session.offset + n)
      BY <2>1, ChunkWrites
    <3>5. viewer.state # "ended"
      BY <3>1 DEF SessionInv
    <3> HIDE DEF v
    <3> QED
      BY <1>2, <1>4, <3>1, <3>3, <3>4, <3>5
  <2>2. CASE ChunksEnd
    <3>1. session.offset \in Nat /\ ~(session.offset < session.until /\ session.offset < disk[session.file].size)
      BY <1>4, <2>2 DEF ChunksEnd
    <3>2. session.at = "read" => session.offset <= session.until
      BY DEF SessionInv
    <3>3. session.at = "read" /\ ~moved => session.offset = session.until
      BY <1>4, <1>5, <3>1, <3>2 DEF GrowsInv, SessionInv, Size
    <3>4. UNCHANGED writerVars /\ session.at # "none"
      BY <2>2 DEF ChunksEnd
    <3> QED
      BY <1>2, <1>4, <1>6, <2>2, <3>2, <3>3, <3>4, ChunksEndWrites
  <2>3. CASE GiveUp /\ UNCHANGED writerVars
    BY <1>8, <2>3
  <2> QED
    BY <1>13, <2>1, <2>2, <2>3, ReadSteps
<1>14. CASE WriteLog \/ EndDeployment \/ TruncateLog \/ RemoveLog \/ PutNewLog \/ UNCHANGED logState
  BY <1>7, <1>14 DEF WriteLog, EndDeployment, TruncateLog, RemoveLog, PutNewLog
<1>15. Resync \/ GiveUp => UNCHANGED writerVars \/ ReadChunk \/ WriteLog \/ EndDeployment \/ TruncateLog \/ RemoveLog \/ PutNewLog
  BY DEF LogsNext, Connect, LoseConnection, StatLog, OpenToCatchUp, OpenToFollow, PollLog, SeeTerminalStatus, SendEnd
<1> QED
  BY <1>8, <1>9, <1>10, <1>11, <1>12, <1>13, <1>14, <1>15 DEF LogsNext

LEMMA LogsKept == LogInv /\ [LogsNext]_logState => LogInv'
  BY LogTypesStep, SessionInvStep, GrowsInvStep, SeenInvStep DEF LogInv

LEMMA LogsMean == LogInv => LogsTypeOK /\ LogIsExact
<1> SUFFICES ASSUME LogInv PROVE LogsTypeOK /\ LogIsExact
  OBVIOUS
<1>1. viewer \in ViewerType /\ session \in SessionType
  BY DEF LogInv, LogTypes
<1>2. LogsTypeOK
  BY <1>1 DEF LogInv, LogTypes, SessionInv, LogsTypeOK, ViewerType, SessionType
<1>3. LogIsExact
  BY DEF LogInv, SeenInv, LogIsExact, Prefix
<1> QED
  BY <1>2, <1>3

\* The inductive invariant of a live log and its viewer
\* (deployment_logs_live.go, internal/logs/files.go).
THEOREM LogsInvariant == LogsSpec => []LogInv
<1>1. LogInv /\ [LogsNext]_logVars => LogInv'
  BY LogsKept DEF logVars
<1> QED
  BY LogsBegin, <1>1, PTL DEF LogsSpec

\* A viewer shows the beginning of one version of the log, every byte once,
\* and is told of the end only when it has everything written until then, as
\* long as the server could see what happened to the file.
THEOREM LogStaysExact == LogsSpec => []LogIsExact
  BY LogsInvariant, LogsMean, PTL

-----------------------------------------------------------------------------
(***************************************************************************)
(* HostResources, for every number of services, deployments and ports.     *)
(* A step moves deployments on (Moves), rows and ports (RowMoves), images  *)
(* (ImageMoves) and the sweep (SweepMoves); the invariants follow from     *)
(* these alone.  That no two rows own one port needs the deployments that  *)
(* have picked a port and written no row yet (HeldApart).  That no image   *)
(* is missed needs what the sweep knows (SweepInv): whatever it may remove *)
(* has ended for good (Over), since a cancelled deployment stays           *)
(* cancelled, one that failed stays failed, and one that is not among the  *)
(* newest that ever succeeded never is again.                              *)
(***************************************************************************)

Unattached == {"none", "queued"} \cup Rowless

BuildPlaces == {"none", "queued", "failed"} \cup InFlight \cup Successful

BuildType == [at : BuildPlaces, service : HostServices \cup {None}, port : Ports \cup {None}]

SweepType == [at : {"idle", "list", "remove"}, keep : SUBSET Builds, left : SUBSET Builds]

HostTypes ==
  /\ build \in [Builds -> BuildType]
  /\ row \in [Builds -> {"none", "RUNNING", "STOPPED", "REMOVED"}]
  /\ container \in [Builds -> {"none", "created", "running", "stopped", "exited"}]
  /\ activeOf \in [HostServices -> Builds \cup {None}]
  /\ lifecycle \subseteq [verb : {"stop", "restart"}, build : Builds, at : {"docker", "row"}]
  /\ rivals \in [Builds -> SUBSET Builds] /\ revived \subseteq Builds
  /\ cancelled \subseteq Builds /\ succeeded \subseteq Builds
  /\ images \subseteq Builds /\ unseen \subseteq Builds /\ sweep \in SweepType

Owns(d) == row[d] \in {"RUNNING", "STOPPED"}

\* A deployment gets its row when its container has started, and what is
\* active, or was when a stop or a restart resolved it, has one.
ContainerRows ==
  /\ \A d \in Builds : build[d].at \in Unattached => row[d] = "none"
  /\ \A d \in Builds : build[d].at \in {"attached", "undo"} \cup Successful => row[d] # "none"
  /\ \A s \in HostServices : activeOf[s] # None => row[activeOf[s]] # "none"
  /\ \A r \in lifecycle : row[r.build] # "none"
  /\ \A d \in Builds : build[d].at = "none" => build[d].port = None

\* A port is held from the moment it is picked.
Held(d) == build[d].at \in Rowless \/ Owns(d)

HeldApart ==
  \A d, e \in Builds :
    d # e /\ Held(d) /\ Held(e) /\ build[d].port = build[e].port
      => d \in rivals[e] \/ e \in rivals[d] \/ d \in revived \/ e \in revived

SuccessInv ==
  /\ \A d \in Builds : build[d].at \in Successful => d \in succeeded
  /\ \A d \in succeeded : build[d].at \in {"failed", "undo"} \cup Successful /\ d \notin cancelled

\* Nothing will ask for its image again.
Over(d) ==
  d \in cancelled \/ build[d].at \in {"failed", "undo"} \/ (d \in succeeded /\ ~ Newest(d, succeeded))

Wanted(d) ==
  \/ build[d].at \in {"built", "started", "attached"} /\ d \notin cancelled
  \/ build[d].at \in Successful /\ Newest(d, succeeded)

ImageInv ==
  /\ \A d \in Builds : Wanted(d) => d \in images \cup unseen
  /\ \A d \in images : build[d].at \notin {"none", "queued", "picked"}

SweepInv ==
  /\ sweep.at = "list" =>
       \A d \in Builds : d \notin sweep.keep \cup unseen => build[d].at = "none" \/ Over(d)
  /\ sweep.at = "remove" => \A d \in sweep.left : d \in unseen \/ Over(d)

HostInv == HostTypes /\ ContainerRows /\ HeldApart /\ SuccessInv /\ ImageInv /\ SweepInv

-----------------------------------------------------------------------------
(* What a step does. *)

After(a, b) ==
  \/ a = b
  \/ a = "none" /\ b = "queued"
  \/ a = "queued" /\ b = "picked"
  \/ a = "picked" /\ b = "built"
  \/ a = "built" /\ b = "started"
  \/ a = "started" /\ b = "attached"
  \/ a = "attached" /\ b = "promoted"
  \/ a = "promoted" /\ b \in {"cutover", "undo", "unmarked"}
  \/ a \in Switching /\ b = "success"
  \/ a \in {"queued"} \cup InFlight /\ b = "failed"

Moves ==
  \A d \in Builds :
    /\ After(build[d].at, build'[d].at)
    /\ build[d].at # "none" => build'[d].service = build[d].service
    /\ d \in succeeded => d \in succeeded'
    /\ d \in succeeded' /\ d \notin succeeded => build[d].at = "attached" /\ build'[d].at = "promoted"
    /\ build[d].at = "attached" /\ build'[d].at = "promoted" => d \in succeeded' /\ d \notin cancelled'
    /\ d \in cancelled => d \in cancelled'
    /\ d \in cancelled' /\ d \notin cancelled => build[d].at \in {"attached"} \cup Unattached /\ d \notin succeeded'

\* d takes a port that no row owns, and knows who else is about to.
Picks(d) ==
  /\ build[d].at = "queued" /\ build'[d].at = "picked"
  /\ \A e \in Builds : e # d => build'[e] = build[e] /\ rivals'[e] = rivals[e]
  /\ row' = row
  /\ \A e \in Builds : e # d /\ Owns(e) => build[e].port # build'[d].port
  /\ \A e \in Builds : build[e].at \in Rowless /\ build[e].port = build'[d].port => e \in rivals'[d]

RowMoves ==
  /\ \/ \E d \in Builds : Picks(d)
     \/ \A d \in Builds : /\ build'[d].port = build[d].port /\ rivals'[d] = rivals[d]
                          /\ build'[d].at = "picked" => build[d].at = "picked"
  /\ revived \subseteq revived'
  /\ \A d \in Builds :
       /\ \/ row'[d] = row[d]
          \/ build[d].at = "started" /\ build'[d].at = "attached" /\ row'[d] = "RUNNING"
          \/ row'[d] = "REMOVED" /\ build[d].at \notin Unattached
          \/ row'[d] \in {"RUNNING", "STOPPED"} /\ row[d] # "none" /\ (row[d] = "REMOVED" => d \in revived')
       /\ build[d].at = "started" /\ build'[d].at = "attached" => row'[d] = "RUNNING"
  /\ \A s \in HostServices : \/ activeOf'[s] = activeOf[s]
                             \/ activeOf'[s] \in Builds /\ build[activeOf'[s]].at = "promoted"
  /\ \A r \in lifecycle' : row[r.build] # "none"

ImageMoves ==
  /\ unseen \subseteq unseen'
  /\ \A d \in images : d \in images' \/ (sweep.at = "remove" /\ d \in sweep.left)
  /\ \A d \in images' : d \in images \/ (build[d].at = "picked" /\ build'[d].at = "built")
  /\ \A d \in Builds : build[d].at = "picked" /\ build'[d].at = "built" => d \in images'

SweepMoves ==
  \/ sweep' = sweep /\ \A d \in Builds : build[d].at = "none" /\ build'[d].at # "none" /\ sweep.at = "list" => d \in unseen'
  \/ sweep'.at = "idle"
  \/ sweep'.at = "list" /\ sweep'.keep = ListRetainedImageRefs /\ build' = build
  \/ sweep.at = "list" /\ sweep'.at = "remove" /\ sweep'.left = images \ sweep.keep /\ build' = build
  \/ sweep.at = "remove" /\ sweep'.at = "remove" /\ sweep'.left \subseteq sweep.left

LEMMA HostBegins == HostInit => HostInv
<1>. SUFFICES ASSUME HostInit PROVE HostInv
  OBVIOUS
<1>1. HostTypes
  BY DEF HostInit, HostTypes, BuildType, BuildPlaces, InFlight, SweepType
<1>2. \A d \in Builds : build[d].at = "none" /\ row[d] = "none"
  BY DEF HostInit
<1>3. ContainerRows /\ HeldApart
  BY DEF HostInit, ContainerRows, HeldApart, Held, Owns, Rowless, Successful, Switching
<1>4. SuccessInv /\ ImageInv /\ SweepInv
  BY <1>2 DEF HostInit, SuccessInv, ImageInv, SweepInv, Wanted, Successful, Switching
<1>. QED BY <1>1, <1>3, <1>4 DEF HostInv

LEMMA GoTypes ==
  ASSUME HostTypes, NEW d \in Builds, NEW to \in BuildPlaces, Go(d, to)
  PROVE  build' \in [Builds -> BuildType]
  BY DEF HostTypes, BuildType, Go

LEMMA GoMoves ==
  ASSUME HostTypes, NEW d \in Builds, NEW to, Go(d, to)
  PROVE  /\ build'[d].at = to /\ build'[d].service = build[d].service /\ build'[d].port = build[d].port
         /\ \A e \in Builds : e # d => build'[e] = build[e]
  BY DEF HostTypes, BuildType, Go

LEMMA HostTypesKept == HostTypes /\ [HostNext]_hostState => HostTypes'
<1>. SUFFICES ASSUME HostTypes, [HostNext]_hostState PROVE HostTypes'
  OBVIOUS
<1>. USE DEF dockerVars, portHistory, imageVars
<1>a. ASSUME NEW d \in Builds, NEW to \in BuildPlaces, Go(d, to) PROVE build' \in [Builds -> BuildType]
  BY <1>a, GoTypes
<1>b. ASSUME NEW d \in Builds, RemoveWithRow(d)
      PROVE  /\ row' \in [Builds -> {"none", "RUNNING", "STOPPED", "REMOVED"}]
             /\ container' \in [Builds -> {"none", "created", "running", "stopped", "exited"}]
  BY <1>b DEF RemoveWithRow, HostTypes
<1>c. {"failed", "success"} \cup Rowless \cup Successful \cup {"attached", "undo"} \subseteq BuildPlaces
  BY DEF BuildPlaces, InFlight, Successful
<1>1. ASSUME NEW d \in Builds, NEW s \in HostServices, Queue(d, s) PROVE HostTypes'
  BY <1>1 DEF Queue, HostTypes, BuildType, BuildPlaces
<1>2. ASSUME NEW d \in Builds, CancelDeployment(d) PROVE HostTypes'
  BY <1>2 DEF CancelDeployment, HostTypes
<1>3. ASSUME NEW d \in Builds, StopAtBoundary(d) PROVE HostTypes'
  BY <1>3, <1>a, <1>c DEF StopAtBoundary, HostTypes
<1>4. ASSUME NEW d \in Builds, PickHostPort(d) PROVE HostTypes'
  <2>1. CASE Go(d, "failed") /\ UNCHANGED rivals
    BY <1>4, <1>a, <1>c, <2>1 DEF PickHostPort, HostTypes
  <2>2. ASSUME NEW p \in Ports, build' = [build EXCEPT ![d].at = "picked", ![d].port = p],
               rivals' = [rivals EXCEPT ![d] = {e \in Builds : build[e].at \in Rowless /\ build[e].port = p}]
        PROVE  HostTypes'
    <3>1. build' \in [Builds -> BuildType]
      <4>1. build[d] \in BuildType /\ "picked" \in BuildPlaces
        BY <1>c DEF HostTypes, Rowless
      <4>2. [build[d] EXCEPT !.at = "picked", !.port = p] \in BuildType
        BY <4>1 DEF BuildType
      <4>3. build' = [build EXCEPT ![d] = [build[d] EXCEPT !.at = "picked", !.port = p]]
        BY <2>2, <4>1 DEF HostTypes, BuildType
      <4>. QED BY <4>2, <4>3 DEF HostTypes
    <3>2. rivals' \in [Builds -> SUBSET Builds]
      BY <2>2 DEF HostTypes
    <3>. QED BY <1>4, <3>1, <3>2 DEF PickHostPort, HostTypes
  <2>. QED BY <1>4, <2>1, <2>2 DEF PickHostPort
<1>5. ASSUME NEW d \in Builds, Build(d) PROVE HostTypes'
  <2>1. \E to \in BuildPlaces : Go(d, to)
    BY <1>5, <1>c DEF Build, Rowless
  <2>. QED BY <1>5, <1>a, <2>1 DEF Build, HostTypes
<1>6. ASSUME NEW d \in Builds, RunContainer(d) PROVE HostTypes'
  <2>1. \E to \in BuildPlaces : Go(d, to)
    BY <1>6, <1>c DEF RunContainer, Rowless
  <2>. QED BY <1>6, <1>a, <2>1 DEF RunContainer, HostTypes
<1>7. ASSUME NEW d \in Builds, AttachContainer(d) PROVE HostTypes'
  <2>1. \E to \in BuildPlaces : Go(d, to)
    BY <1>7, <1>c DEF AttachContainer
  <2>. QED BY <1>7, <1>a, <2>1 DEF AttachContainer, HostTypes
<1>8. ASSUME NEW d \in Builds, MarkSuccess(d) PROVE HostTypes'
  BY <1>8, <1>a, <1>c DEF MarkSuccess, HostTypes, Successful, Switching
<1>9. ASSUME NEW d \in Builds, ActivateServiceDeployment(d) PROVE HostTypes'
  <2>1. \E to \in BuildPlaces : Go(d, to)
    BY <1>9, <1>c DEF ActivateServiceDeployment, Successful, Switching
  <2>2. activeOf' \in [HostServices -> Builds \cup {None}]
    BY <1>9 DEF ActivateServiceDeployment, HostTypes
  <2>. QED BY <1>9, <1>a, <2>1, <2>2 DEF ActivateServiceDeployment, HostTypes
<1>10. ASSUME NEW d \in Builds, CleanupCandidate(d) PROVE HostTypes'
  <2>1. \E to \in BuildPlaces : Go(d, to)
    BY <1>10, <1>c DEF CleanupCandidate
  <2>. QED BY <1>10, <1>a, <1>b, <2>1 DEF CleanupCandidate, HostTypes
<1>11. ASSUME NEW d \in Builds, TeardownPrevious(d) PROVE HostTypes'
  <2>1. \E e \in Builds : RemoveWithRow(e)
    BY <1>11 DEF TeardownPrevious, Settled
  <2>. QED BY <1>11, <1>a, <1>b, <1>c, <2>1 DEF TeardownPrevious, HostTypes
<1>12. ASSUME NEW d \in Builds, SweepOrphanedContainer(d) PROVE HostTypes'
  BY <1>12, <1>b DEF SweepOrphanedContainer, HostTypes
<1>13. ASSUME NEW d \in Builds, ContainerExits(d) \/ ContainerReturns(d) PROVE HostTypes'
  BY <1>13 DEF ContainerExits, ContainerReturns, HostTypes
<1>14. ASSUME NEW d \in Builds, RemoveImageIfUnused(d) PROVE HostTypes'
  <2>1. sweep' \in SweepType
    <3>1. sweep.left \ {d} \in SUBSET Builds
      BY DEF HostTypes, SweepType
    <3>. QED BY <1>14, <3>1 DEF RemoveImageIfUnused, HostTypes, SweepType
  <2>. QED BY <1>14, <2>1 DEF RemoveImageIfUnused, HostTypes
<1>15. ASSUME NEW s \in HostServices, NEW verb \in {"stop", "restart"}, ResolveActiveServiceContainer(s, verb)
       PROVE  HostTypes'
  <2>1. activeOf[s] \in Builds
    BY <1>15 DEF ResolveActiveServiceContainer, HostTypes
  <2>. QED BY <1>15, <2>1 DEF ResolveActiveServiceContainer, HostTypes
<1>16. ASSUME NEW r \in lifecycle, CallDocker(r) PROVE HostTypes'
  <2>1. r.build \in Builds /\ [r EXCEPT !.at = "row"] \in [verb : {"stop", "restart"}, build : Builds, at : {"docker", "row"}]
    BY DEF HostTypes
  <2>. QED BY <1>16, <2>1 DEF CallDocker, HostTypes
<1>17. ASSUME NEW r \in lifecycle, WriteRow(r) PROVE HostTypes'
  <2>1. r.build \in Builds
    BY DEF HostTypes
  <2>. QED BY <1>17, <2>1 DEF WriteRow, HostTypes
<1>18. CASE HostCrash
  <2>1. build' \in [Builds -> BuildType]
    <3>1. \A d \in Builds : build[d] \in BuildType
      BY DEF HostTypes
    <3>2. \A d \in Builds, to \in {"failed", "success"} : [build[d] EXCEPT !.at = to] \in BuildType
      BY <1>c, <3>1 DEF BuildType
    <3>. QED BY <1>18, <3>1, <3>2 DEF HostCrash
  <2>. QED BY <1>18, <2>1 DEF HostCrash, HostTypes, SweepType
<1>19. CASE ReadRetained
  <2>1. ListRetainedImageRefs \in SUBSET Builds
    BY DEF ListRetainedImageRefs, HeldByRow, Buffer
  <2>. QED BY <1>19, <2>1 DEF ReadRetained, HostTypes, SweepType
<1>20. CASE ListImages
  <2>1. sweep' \in SweepType
    <3>1. images \ sweep.keep \in SUBSET Builds /\ sweep \in SweepType
      BY DEF HostTypes
    <3>2. [sweep EXCEPT !.at = "remove", !.left = images \ sweep.keep] \in SweepType
      BY <3>1 DEF SweepType
    <3>3. [at |-> "idle", keep |-> {}, left |-> {}] \in SweepType
      BY DEF SweepType
    <3>. QED BY <1>20, <3>2, <3>3 DEF ListImages
  <2>. QED BY <1>20, <2>1 DEF ListImages, HostTypes
<1>21. CASE EndSweep
  BY <1>21 DEF EndSweep, HostTypes, SweepType
<1>22. CASE UNCHANGED hostState
  BY <1>22 DEF hostState, HostTypes
<1>. QED
  BY <1>1, <1>2, <1>3, <1>4, <1>5, <1>6, <1>7, <1>8, <1>9, <1>10, <1>11, <1>12, <1>13, <1>14, <1>15, <1>16, <1>17,
     <1>18, <1>19, <1>20, <1>21, <1>22 DEF HostNext

LEMMA BuildsMove == HostTypes /\ SuccessInv /\ [HostNext]_hostState => Moves
<1>. SUFFICES ASSUME HostTypes, SuccessInv, [HostNext]_hostState PROVE Moves
  OBVIOUS
<1>. USE DEF dockerVars, portHistory, imageVars
<1>a. ASSUME NEW d \in Builds, NEW to, Go(d, to), After(build[d].at, to), to # "promoted",
             UNCHANGED <<cancelled, succeeded>>
      PROVE  Moves
  <2>1. /\ build'[d].at = to /\ build'[d].service = build[d].service
        /\ \A e \in Builds : e # d => build'[e] = build[e]
    BY <1>a, GoMoves
  <2>. QED BY <1>a, <2>1 DEF Moves, After
<1>b. ASSUME UNCHANGED <<build, cancelled, succeeded>> PROVE Moves
  BY <1>b DEF Moves, After
<1>1. ASSUME NEW d \in Builds, NEW s \in HostServices, Queue(d, s) PROVE Moves
  <2>1. /\ build[d].at = "none" /\ build'[d].at = "queued" /\ \A e \in Builds : e # d => build'[e] = build[e]
        /\ UNCHANGED <<cancelled, succeeded>>
    BY <1>1 DEF Queue, HostTypes
  <2>. QED BY <2>1 DEF Moves, After
<1>2. ASSUME NEW d \in Builds, CancelDeployment(d) PROVE Moves
  <2>1. /\ build[d].at \in {"queued", "attached"} \cup Rowless /\ build' = build
        /\ cancelled' = cancelled \cup {d} /\ succeeded' = succeeded
    BY <1>2 DEF CancelDeployment
  <2>2. d \notin succeeded
    BY <2>1 DEF SuccessInv, Rowless, Successful, Switching
  <2>. QED BY <2>1, <2>2 DEF Moves, After, Unattached
<1>3. ASSUME NEW d \in Builds, StopAtBoundary(d) PROVE Moves
  BY <1>3, <1>a DEF StopAtBoundary, After, InFlight, Rowless
<1>4. ASSUME NEW d \in Builds, PickHostPort(d) PROVE Moves
  <2>1. /\ build[d].at = "queued" /\ build'[d].at \in {"picked", "failed"} /\ build'[d].service = build[d].service
        /\ \A e \in Builds : e # d => build'[e] = build[e]
        /\ UNCHANGED <<cancelled, succeeded>>
    BY <1>4, GoMoves DEF PickHostPort, HostTypes, BuildType
  <2>. QED BY <2>1 DEF Moves, After
<1>5. ASSUME NEW d \in Builds, Build(d) PROVE Moves
  <2>1. \E to \in {"built", "failed"} : Go(d, to) /\ After(build[d].at, to)
    BY <1>5 DEF Build, After, InFlight, Rowless
  <2>. QED BY <1>5, <2>1, <1>a DEF Build
<1>6. ASSUME NEW d \in Builds, RunContainer(d) PROVE Moves
  <2>1. \E to \in {"started", "failed"} : Go(d, to) /\ After(build[d].at, to)
    BY <1>6 DEF RunContainer, After, InFlight, Rowless
  <2>. QED BY <1>6, <2>1, <1>a DEF RunContainer
<1>7. ASSUME NEW d \in Builds, AttachContainer(d) PROVE Moves
  <2>1. \E to \in {"attached", "failed"} : Go(d, to) /\ After(build[d].at, to)
    BY <1>7 DEF AttachContainer, After, InFlight, Rowless
  <2>. QED BY <1>7, <2>1, <1>a DEF AttachContainer
<1>8. ASSUME NEW d \in Builds, MarkSuccess(d) PROVE Moves
  <2>1. /\ build[d].at = "attached" /\ d \notin cancelled /\ build'[d].at = "promoted"
        /\ build'[d].service = build[d].service /\ \A e \in Builds : e # d => build'[e] = build[e]
        /\ cancelled' = cancelled /\ succeeded' = succeeded \cup {d}
    BY <1>8, GoMoves DEF MarkSuccess
  <2>. QED BY <2>1 DEF Moves, After
<1>9. ASSUME NEW d \in Builds, ActivateServiceDeployment(d) PROVE Moves
  <2>1. \E to \in {"success", "cutover", "undo", "unmarked"} : Go(d, to) /\ After(build[d].at, to)
    BY <1>9 DEF ActivateServiceDeployment, After, Switching
  <2>. QED BY <1>9, <2>1, <1>a DEF ActivateServiceDeployment
<1>10. ASSUME NEW d \in Builds, CleanupCandidate(d) PROVE Moves
  <2>1. \E to \in {"success", "failed"} : Go(d, to) /\ After(build[d].at, to)
    BY <1>10 DEF CleanupCandidate, After, InFlight, Switching
  <2>. QED BY <1>10, <2>1, <1>a DEF CleanupCandidate
<1>11. ASSUME NEW d \in Builds, TeardownPrevious(d) PROVE Moves
  BY <1>11, <1>a DEF TeardownPrevious, After, Switching
<1>12. CASE HostCrash
  <2>1. UNCHANGED <<cancelled, succeeded>>
        /\ \A d \in Builds : /\ build'[d].service = build[d].service
                             /\ build[d].at \in InFlight => build'[d].at = "failed"
                             /\ build[d].at \in Switching /\ build[d].at \notin InFlight => build'[d].at = "success"
                             /\ build[d].at \notin InFlight \cup Switching => build'[d].at = build[d].at
    BY <1>12 DEF HostCrash, HostTypes, BuildType
  <2>2. \A d \in Builds : build'[d].at = "promoted" => build[d].at # "attached"
    BY <2>1 DEF InFlight
  <2>. QED BY <2>1, <2>2 DEF Moves, After
<1>13. CASE \/ \E d \in Builds : SweepOrphanedContainer(d) \/ ContainerExits(d) \/ ContainerReturns(d) \/
                   RemoveImageIfUnused(d)
            \/ \E s \in HostServices, verb \in {"stop", "restart"} : ResolveActiveServiceContainer(s, verb)
            \/ \E r \in lifecycle : CallDocker(r) \/ WriteRow(r)
            \/ ReadRetained \/ ListImages \/ EndSweep \/ UNCHANGED hostState
  <2>1. UNCHANGED <<build, cancelled, succeeded>>
    BY <1>13 DEF SweepOrphanedContainer, ContainerExits, ContainerReturns, RemoveImageIfUnused,
           ResolveActiveServiceContainer, CallDocker, WriteRow, ReadRetained, ListImages, EndSweep, hostState
  <2>. QED BY <2>1, <1>b
<1>. QED
  BY <1>1, <1>2, <1>3, <1>4, <1>5, <1>6, <1>7, <1>8, <1>9, <1>10, <1>11, <1>12, <1>13 DEF HostNext

LEMMA RowsMove == HostTypes /\ ContainerRows /\ [HostNext]_hostState => RowMoves
<1>. SUFFICES ASSUME HostTypes, ContainerRows, [HostNext]_hostState PROVE RowMoves
  OBVIOUS
<1>. USE DEF dockerVars, portHistory, imageVars
<1>p. \A d \in Builds : build[d] = [at |-> build[d].at, service |-> build[d].service, port |-> build[d].port]
  BY DEF HostTypes, BuildType
<1>a. ASSUME NEW d \in Builds, NEW to, Go(d, to), to \notin {"picked", "attached"},
             UNCHANGED <<row, activeOf, lifecycle, rivals, revived>>
      PROVE  RowMoves
  <2>1. build'[d].at = to /\ build'[d].port = build[d].port /\ \A e \in Builds : e # d => build'[e] = build[e]
    BY <1>a, GoMoves
  <2>. QED BY <1>a, <2>1 DEF RowMoves, ContainerRows
<1>b. ASSUME \A e \in Builds : build'[e].at = "picked" => build[e].at = "picked",
             \A e \in Builds : build'[e].at = "attached" => build[e].at = "attached",
             \A e \in Builds : build'[e].port = build[e].port, UNCHANGED <<row, activeOf, lifecycle, rivals, revived>>
      PROVE  RowMoves
  BY <1>b DEF RowMoves, ContainerRows
<1>d. ASSUME NEW e \in Builds, RemoveWithRow(e), build[e].at \notin Unattached,
             \A o \in Builds : build'[o].at \in {build[o].at, "success", "failed"} /\ build'[o].port = build[o].port,
             UNCHANGED <<activeOf, lifecycle, rivals, revived>>
      PROVE  RowMoves
  <2>1. /\ \A o \in Builds : o # e => row'[o] = row[o]
        /\ row'[e] \in {row[e], "REMOVED"}
    BY <1>d DEF RemoveWithRow, HostTypes
  <2>. QED BY <1>d, <2>1 DEF RowMoves, ContainerRows
<1>c. ASSUME NEW d \in Builds, NEW to \in {"success", "failed"}, Go(d, to), RemoveWithRow(d), build[d].at \notin Unattached,
             UNCHANGED <<activeOf, lifecycle, rivals, revived>>
      PROVE  RowMoves
  <2>1. build'[d].at = to /\ build'[d].port = build[d].port /\ \A e \in Builds : e # d => build'[e] = build[e]
    BY <1>c, GoMoves
  <2>. QED BY <1>c, <2>1, <1>d
<1>1. ASSUME NEW d \in Builds, NEW s \in HostServices, Queue(d, s) PROVE RowMoves
  <2>1. /\ \A e \in Builds : build'[e].at = "picked" => build[e].at = "picked"
        /\ \A e \in Builds : build'[e].at = "attached" => build[e].at = "attached"
        /\ \A e \in Builds : build'[e].port = build[e].port /\ UNCHANGED <<row, activeOf, lifecycle, rivals, revived>>
    BY <1>1, <1>p DEF Queue, HostTypes, ContainerRows
  <2>. QED BY <2>1, <1>b
<1>2. ASSUME NEW d \in Builds, StopAtBoundary(d) PROVE RowMoves
  BY <1>2, <1>a DEF StopAtBoundary
<1>3. ASSUME NEW d \in Builds, PickHostPort(d) PROVE RowMoves
  <2>1. CASE Go(d, "failed") /\ UNCHANGED rivals
    BY <1>3, <2>1, <1>a DEF PickHostPort
  <2>2. ASSUME NEW p \in Ports \ (ListAllocatedHostPorts \cup Bound), build' = [build EXCEPT ![d].at = "picked", ![d].port = p],
               rivals' = [rivals EXCEPT ![d] = {e \in Builds : build[e].at \in Rowless /\ build[e].port = p}]
        PROVE  RowMoves
    <3>1. /\ build[d].at = "queued" /\ build'[d].at = "picked" /\ build'[d].port = p
          /\ \A e \in Builds : e # d => build'[e] = build[e]
          /\ UNCHANGED <<row, activeOf, lifecycle, revived>>
      <4>1. build[d] \in BuildType /\ build' = [build EXCEPT ![d] = [build[d] EXCEPT !.at = "picked", !.port = p]]
        BY <2>2 DEF HostTypes, BuildType
      <4>. QED BY <1>3, <4>1 DEF PickHostPort, HostTypes, BuildType
    <3>4. /\ \A e \in Builds : e # d => rivals'[e] = rivals[e]
          /\ \A e \in Builds : build[e].at \in Rowless /\ build[e].port = p => e \in rivals'[d]
      BY <2>2 DEF HostTypes
    <3>2. \A e \in Builds : Owns(e) => build[e].port # p
      BY DEF Owns, ListAllocatedHostPorts
    <3>3. Picks(d)
      BY <3>1, <3>2, <3>4 DEF Picks
    <3>. QED BY <3>1, <3>3 DEF RowMoves, ContainerRows
  <2>. QED BY <1>3, <2>1, <2>2 DEF PickHostPort
<1>4. ASSUME NEW d \in Builds, Build(d) PROVE RowMoves
  BY <1>4, <1>a DEF Build
<1>5. ASSUME NEW d \in Builds, RunContainer(d) PROVE RowMoves
  BY <1>5, <1>a DEF RunContainer
<1>6. ASSUME NEW d \in Builds, AttachContainer(d) PROVE RowMoves
  <2>1. CASE Go(d, "failed") /\ UNCHANGED row
    BY <1>6, <2>1, <1>a DEF AttachContainer
  <2>2. CASE Go(d, "attached") /\ row' = [row EXCEPT ![d] = "RUNNING"]
    <3>1. /\ build[d].at = "started" /\ build'[d].at = "attached" /\ \A e \in Builds : e # d => build'[e] = build[e]
          /\ build'[d].port = build[d].port /\ row'[d] = "RUNNING" /\ \A e \in Builds : e # d => row'[e] = row[e]
          /\ UNCHANGED <<activeOf, lifecycle, rivals, revived>>
      BY <1>6, <2>2, GoMoves DEF AttachContainer, HostTypes
    <3>. QED BY <3>1 DEF RowMoves, ContainerRows
  <2>. QED BY <1>6, <2>1, <2>2 DEF AttachContainer
<1>7. ASSUME NEW d \in Builds, MarkSuccess(d) PROVE RowMoves
  BY <1>7, <1>a DEF MarkSuccess
<1>8. ASSUME NEW d \in Builds, ActivateServiceDeployment(d) PROVE RowMoves
  <2>1. \E to \in {"success", "cutover", "undo", "unmarked"} : Go(d, to)
    BY <1>8 DEF ActivateServiceDeployment
  <2>2. PICK to \in {"success", "cutover", "undo", "unmarked"} : Go(d, to)
    BY <2>1
  <2>3. /\ build'[d].at = to /\ \A e \in Builds : e # d => build'[e] = build[e]
        /\ \A e \in Builds : build'[e].port = build[e].port
    BY <2>2, GoMoves
  <2>4. \A s \in HostServices : activeOf'[s] = activeOf[s] \/ (activeOf'[s] = d /\ build[d].at = "promoted")
    BY <1>8 DEF ActivateServiceDeployment, HostTypes
  <2>5. UNCHANGED <<row, lifecycle, rivals, revived>>
    BY <1>8 DEF ActivateServiceDeployment
  <2>. QED BY <2>2, <2>3, <2>4, <2>5 DEF RowMoves, ContainerRows
<1>9. ASSUME NEW d \in Builds, CleanupCandidate(d) PROVE RowMoves
  <2>1. PICK to \in {"success", "failed"} : Go(d, to)
    BY <1>9 DEF CleanupCandidate
  <2>2. RemoveWithRow(d) /\ build[d].at \notin Unattached /\ UNCHANGED <<activeOf, lifecycle, rivals, revived>>
    BY <1>9 DEF CleanupCandidate, Unattached, Rowless
  <2>. QED BY <2>1, <2>2, <1>c
<1>10. ASSUME NEW d \in Builds, TeardownPrevious(d) PROVE RowMoves
  <2>1. Go(d, "success") /\ UNCHANGED <<activeOf, lifecycle, rivals, revived>>
    BY <1>10 DEF TeardownPrevious
  <2>2. \E e \in Builds : build[e].at = "success" /\ RemoveWithRow(e)
    BY <1>10 DEF TeardownPrevious, Settled
  <2>3. PICK e \in Builds : build[e].at \notin Unattached /\ RemoveWithRow(e)
    BY <2>2 DEF Unattached, Rowless
  <2>4. /\ build'[d].at = "success" /\ \A o \in Builds : o # d => build'[o] = build[o]
        /\ \A o \in Builds : build'[o].port = build[o].port
    BY <2>1, GoMoves
  <2>. QED BY <2>1, <2>3, <2>4, <1>d
<1>11. ASSUME NEW d \in Builds, SweepOrphanedContainer(d) PROVE RowMoves
  <2>1. build[d].at \notin Unattached /\ RemoveWithRow(d) /\ UNCHANGED <<build, activeOf, lifecycle, rivals, revived>>
    BY <1>11 DEF SweepOrphanedContainer, Unattached, Rowless
  <2>. QED BY <2>1, <1>d
<1>12. ASSUME NEW s \in HostServices, NEW verb \in {"stop", "restart"}, ResolveActiveServiceContainer(s, verb)
      PROVE  RowMoves
  <2>1. lifecycle' = lifecycle \cup {[verb |-> verb, build |-> activeOf[s], at |-> "docker"]} /\ row[activeOf[s]] # "none"
    BY <1>12 DEF ResolveActiveServiceContainer, ContainerRows
  <2>2. \A r \in lifecycle' : row[r.build] # "none"
    BY <2>1 DEF ContainerRows
  <2>. QED BY <1>12, <2>2 DEF ResolveActiveServiceContainer, RowMoves
<1>13. ASSUME NEW r \in lifecycle, CallDocker(r) PROVE RowMoves
  <2>1. lifecycle' \subseteq lifecycle \cup {[r EXCEPT !.at = "row"]}
    BY <1>13 DEF CallDocker
  <2>2. \A o \in lifecycle' : row[o.build] # "none"
    BY <2>1 DEF ContainerRows, HostTypes
  <2>. QED BY <1>13, <2>2 DEF CallDocker, RowMoves
<1>14. ASSUME NEW r \in lifecycle, WriteRow(r) PROVE RowMoves
  <2>1. r.build \in Builds /\ row[r.build] # "none" /\ lifecycle' \subseteq lifecycle
    BY <1>14 DEF WriteRow, HostTypes, ContainerRows
  <2>2. \A e \in Builds : row'[e] = row[e] \/ (row'[e] \in {"RUNNING", "STOPPED"} /\ row[e] # "none"
                                                 /\ (row[e] = "REMOVED" => e \in revived'))
    BY <1>14, <2>1 DEF WriteRow, HostTypes
  <2>3. revived \subseteq revived' /\ UNCHANGED <<build, activeOf, rivals>>
    BY <1>14 DEF WriteRow
  <2>. QED BY <2>1, <2>2, <2>3 DEF RowMoves, ContainerRows
<1>15. CASE HostCrash
  <2>1. /\ UNCHANGED <<row, activeOf, rivals, revived>> /\ lifecycle' = {}
        /\ \A d \in Builds : build'[d].port = build[d].port /\ build'[d].at \in {build[d].at, "failed", "success"}
    BY <1>15 DEF HostCrash, HostTypes, BuildType
  <2>. QED BY <2>1 DEF RowMoves
<1>16. CASE \/ \E d \in Builds : CancelDeployment(d) \/ ContainerExits(d) \/ ContainerReturns(d) \/
                   RemoveImageIfUnused(d)
            \/ ReadRetained \/ ListImages \/ EndSweep \/ UNCHANGED hostState
  <2>1. UNCHANGED <<build, row, activeOf, lifecycle, rivals, revived>>
    BY <1>16 DEF CancelDeployment, ContainerExits, ContainerReturns, RemoveImageIfUnused, ReadRetained,
           ListImages, EndSweep, hostState
  <2>. QED BY <2>1, <1>b
<1>. QED
  BY <1>1, <1>2, <1>3, <1>4, <1>5, <1>6, <1>7, <1>8, <1>9, <1>10, <1>11, <1>12, <1>13, <1>14, <1>15, <1>16 DEF
     HostNext

LEMMA ImagesMove == HostTypes /\ [HostNext]_hostState => ImageMoves /\ SweepMoves
<1>. SUFFICES ASSUME HostTypes, [HostNext]_hostState PROVE ImageMoves /\ SweepMoves
  OBVIOUS
<1>. USE DEF dockerVars, portHistory, imageVars
<1>a. ASSUME NEW d \in Builds, NEW to, Go(d, to), to # "built", build[d].at # "none", UNCHANGED <<images, unseen, sweep>>
      PROVE  ImageMoves /\ SweepMoves
  <2>1. build'[d].at = to /\ \A e \in Builds : e # d => build'[e] = build[e]
    BY <1>a, GoMoves
  <2>. QED BY <1>a, <2>1 DEF ImageMoves, SweepMoves
<1>b. ASSUME UNCHANGED <<build, images, unseen, sweep>> PROVE ImageMoves /\ SweepMoves
  BY <1>b DEF ImageMoves, SweepMoves
<1>1. ASSUME NEW d \in Builds, NEW s \in HostServices, Queue(d, s) PROVE ImageMoves /\ SweepMoves
  <2>1. /\ UNCHANGED <<images, sweep>> /\ unseen \subseteq unseen' /\ (sweep.at = "list" => d \in unseen')
        /\ build'[d].at = "queued" /\ \A e \in Builds : e # d => build'[e] = build[e]
    BY <1>1 DEF Queue, HostTypes
  <2>. QED BY <2>1 DEF ImageMoves, SweepMoves
<1>2. ASSUME NEW d \in Builds, StopAtBoundary(d) PROVE ImageMoves /\ SweepMoves
  BY <1>2, <1>a DEF StopAtBoundary
<1>3. ASSUME NEW d \in Builds, PickHostPort(d) PROVE ImageMoves /\ SweepMoves
  <2>1. build'[d].at \in {"picked", "failed"} /\ build[d].at = "queued" /\ UNCHANGED <<images, unseen, sweep>>
        /\ \A e \in Builds : e # d => build'[e] = build[e]
    BY <1>3, GoMoves DEF PickHostPort, HostTypes, BuildType
  <2>. QED BY <2>1 DEF ImageMoves, SweepMoves
<1>4. ASSUME NEW d \in Builds, Build(d) PROVE ImageMoves /\ SweepMoves
  <2>1. /\ \/ images' = images \cup {d} /\ build'[d].at = "built"
           \/ images' = images /\ build'[d].at = "failed"
        /\ build[d].at = "picked" /\ UNCHANGED <<unseen, sweep>> /\ \A e \in Builds : e # d => build'[e] = build[e]
    BY <1>4, GoMoves DEF Build
  <2>. QED BY <2>1 DEF ImageMoves, SweepMoves
<1>5. ASSUME NEW d \in Builds, RunContainer(d) PROVE ImageMoves /\ SweepMoves
  <2>1. \E to \in {"started", "failed"} : Go(d, to)
    BY <1>5 DEF RunContainer
  <2>. QED BY <1>5, <2>1, <1>a DEF RunContainer
<1>6. ASSUME NEW d \in Builds, AttachContainer(d) PROVE ImageMoves /\ SweepMoves
  <2>1. \E to \in {"attached", "failed"} : Go(d, to)
    BY <1>6 DEF AttachContainer
  <2>. QED BY <1>6, <2>1, <1>a DEF AttachContainer
<1>7. ASSUME NEW d \in Builds, MarkSuccess(d) PROVE ImageMoves /\ SweepMoves
  BY <1>7, <1>a DEF MarkSuccess
<1>8. ASSUME NEW d \in Builds, ActivateServiceDeployment(d) PROVE ImageMoves /\ SweepMoves
  <2>1. \E to \in {"success", "cutover", "undo", "unmarked"} : Go(d, to)
    BY <1>8 DEF ActivateServiceDeployment
  <2>. QED BY <1>8, <2>1, <1>a DEF ActivateServiceDeployment
<1>9. ASSUME NEW d \in Builds, CleanupCandidate(d) PROVE ImageMoves /\ SweepMoves
  <2>1. \E to \in {"success", "failed"} : Go(d, to)
    BY <1>9 DEF CleanupCandidate
  <2>. QED BY <1>9, <2>1, <1>a DEF CleanupCandidate
<1>10. ASSUME NEW d \in Builds, TeardownPrevious(d) PROVE ImageMoves /\ SweepMoves
  BY <1>10, <1>a DEF TeardownPrevious
<1>11. ASSUME NEW d \in Builds, RemoveImageIfUnused(d) PROVE ImageMoves /\ SweepMoves
  <2>1. /\ sweep.at = "remove" /\ d \in sweep.left /\ UNCHANGED <<build, unseen>>
        /\ images \ {d} \subseteq images' /\ images' \subseteq images
    BY <1>11 DEF RemoveImageIfUnused
  <2>2. sweep'.at = "remove" /\ sweep'.left \subseteq sweep.left
    BY <1>11 DEF RemoveImageIfUnused, HostTypes, SweepType
  <2>. QED BY <2>1, <2>2 DEF ImageMoves, SweepMoves
<1>12. CASE HostCrash
  <2>1. UNCHANGED <<images, unseen>> /\ sweep'.at = "idle"
        /\ \A d \in Builds : build'[d].at \in {build[d].at, "failed", "success"}
    BY <1>12 DEF HostCrash, HostTypes, BuildType
  <2>. QED BY <2>1 DEF ImageMoves, SweepMoves
<1>13. CASE ReadRetained
  <2>1. UNCHANGED <<build, images, unseen>> /\ sweep'.at = "list" /\ sweep'.keep = ListRetainedImageRefs
    BY <1>13 DEF ReadRetained
  <2>. QED BY <2>1 DEF ImageMoves, SweepMoves
<1>14. CASE ListImages
  <2>1. UNCHANGED <<build, images, unseen>> /\ sweep.at = "list"
    BY <1>14 DEF ListImages
  <2>2. CASE sweep' = [sweep EXCEPT !.at = "remove", !.left = images \ sweep.keep]
    <3>1. sweep'.at = "remove" /\ sweep'.left = images \ sweep.keep
      BY <2>2 DEF HostTypes, SweepType
    <3>. QED BY <2>1, <3>1 DEF ImageMoves, SweepMoves
  <2>3. CASE sweep'.at = "idle"
    BY <2>1, <2>3 DEF ImageMoves, SweepMoves
  <2>. QED BY <1>14, <2>2, <2>3 DEF ListImages
<1>15. CASE EndSweep
  <2>1. UNCHANGED <<build, images, unseen>> /\ sweep'.at = "idle"
    BY <1>15 DEF EndSweep
  <2>. QED BY <2>1 DEF ImageMoves, SweepMoves
<1>16. CASE \/ \E d \in Builds : CancelDeployment(d) \/ SweepOrphanedContainer(d) \/ ContainerExits(d) \/
                   ContainerReturns(d)
            \/ \E s \in HostServices, verb \in {"stop", "restart"} : ResolveActiveServiceContainer(s, verb)
            \/ \E r \in lifecycle : CallDocker(r) \/ WriteRow(r)
            \/ UNCHANGED hostState
  <2>1. UNCHANGED <<build, images, unseen, sweep>>
    BY <1>16 DEF CancelDeployment, SweepOrphanedContainer, ContainerExits, ContainerReturns,
           ResolveActiveServiceContainer, CallDocker, WriteRow, hostState
  <2>. QED BY <2>1, <1>b
<1>. QED
  BY <1>1, <1>2, <1>3, <1>4, <1>5, <1>6, <1>7, <1>8, <1>9, <1>10, <1>11, <1>12, <1>13, <1>14, <1>15, <1>16 DEF
     HostNext

-----------------------------------------------------------------------------
(* What follows from these alone. *)

LEMMA RowsKept ==
  ASSUME HostTypes, HostTypes', ContainerRows, SuccessInv, Moves, RowMoves
  PROVE  ContainerRows'
<1>1. \A d \in Builds : row[d] # "none" => row'[d] # "none"
  BY DEF RowMoves
<1>2. \A d \in Builds : build'[d].at \in Unattached => row'[d] = "none"
  <2>. SUFFICES ASSUME NEW d \in Builds, build'[d].at \in Unattached PROVE row'[d] = "none"
    OBVIOUS
  <2>1. build[d].at \in Unattached
    BY DEF Moves, After, Unattached, Rowless, Switching, InFlight
  <2>2. row[d] = "none"
    BY <2>1 DEF ContainerRows
  <2>. QED BY <2>1, <2>2 DEF RowMoves, Unattached, Rowless
<1>3. \A d \in Builds : build'[d].at \in {"attached", "undo"} \cup Successful => row'[d] # "none"
  <2>. SUFFICES ASSUME NEW d \in Builds, build'[d].at \in {"attached", "undo"} \cup Successful PROVE row'[d] # "none"
    OBVIOUS
  <2>1. build[d].at \in {"attached", "undo"} \cup Successful \/ (build[d].at = "started" /\ build'[d].at = "attached")
    BY DEF Moves, After, Successful, Switching, InFlight
  <2>. QED BY <1>1, <2>1 DEF ContainerRows, RowMoves
<1>4. \A s \in HostServices : activeOf'[s] # None => row'[activeOf'[s]] # "none"
  <2>. SUFFICES ASSUME NEW s \in HostServices, activeOf'[s] # None PROVE row'[activeOf'[s]] # "none"
    OBVIOUS
  <2>1. activeOf'[s] \in Builds
    BY DEF HostTypes
  <2>2. row[activeOf'[s]] # "none"
    BY <2>1 DEF RowMoves, ContainerRows, Successful, Switching
  <2>. QED BY <1>1, <2>1, <2>2
<1>5. \A r \in lifecycle' : row'[r.build] # "none"
  BY <1>1 DEF RowMoves, HostTypes
<1>6. \A d \in Builds : build'[d].at = "none" => build'[d].port = None
  BY DEF Moves, After, RowMoves, Picks, ContainerRows
<1>. QED BY <1>2, <1>3, <1>4, <1>5, <1>6 DEF ContainerRows

\* Nobody comes to hold a port but by picking it, or by a late write of its row.
LEMMA HeldKept ==
  ASSUME HostTypes, ContainerRows, HeldApart, Moves, RowMoves
  PROVE  HeldApart'
<1>1. ASSUME NEW d \in Builds, Held(d)', d \notin revived' PROVE Held(d) \/ Picks(d)
  <2>1. CASE build'[d].at \in Rowless
    <3>1. build[d].at \in Rowless \/ (build[d].at = "queued" /\ build'[d].at = "picked")
      BY <2>1 DEF Moves, After, Rowless, Switching, InFlight
    <3>2. CASE build[d].at = "queued" /\ build'[d].at = "picked"
      <4>1. \E e \in Builds : Picks(e)
        BY <3>2 DEF RowMoves
      <4>. QED BY <3>2, <4>1 DEF Picks
    <3>. QED BY <3>1, <3>2 DEF Held
  <2>2. CASE Owns(d)'
    BY <1>1, <2>2 DEF RowMoves, Owns, Held, Rowless, HostTypes
  <2>. QED BY <1>1, <2>1, <2>2 DEF Held
<1>. SUFFICES ASSUME NEW d \in Builds, NEW e \in Builds, d # e, Held(d)', Held(e)', build'[d].port = build'[e].port,
                     d \notin revived', e \notin revived'
              PROVE  d \in rivals'[e] \/ e \in rivals'[d]
  BY DEF HeldApart
<1>2. d \notin revived /\ e \notin revived
  BY DEF RowMoves
<1>3. ASSUME NEW x \in Builds, NEW y \in Builds, x # y, Picks(x), Held(y), build'[x].port = build'[y].port
      PROVE  y \in rivals'[x]
  <2>1. build[y].port = build'[x].port
    BY <1>3 DEF Picks
  <2>. QED BY <1>3, <2>1 DEF Picks, Held
<1>4. CASE Picks(d)
  <2>1. ~ Picks(e)
    BY <1>4 DEF Picks
  <2>. QED BY <1>1, <1>3, <1>4, <2>1
<1>5. CASE Picks(e)
  <2>1. ~ Picks(d)
    BY <1>5 DEF Picks
  <2>. QED BY <1>1, <1>3, <1>5, <2>1
<1>6. CASE ~ Picks(d) /\ ~ Picks(e)
  <2>1. Held(d) /\ Held(e)
    BY <1>1, <1>6
  <2>2. \A x \in {d, e} : build'[x].port = build[x].port /\ rivals'[x] = rivals[x]
    BY <1>6 DEF RowMoves, Picks
  <2>. QED BY <1>2, <2>1, <2>2 DEF HeldApart
<1>. QED BY <1>4, <1>5, <1>6

LEMMA SuccessKept ==
  ASSUME HostTypes, HostTypes', SuccessInv, Moves
  PROVE  SuccessInv'
<1>1. \A d \in Builds : build'[d].at \in Successful => d \in succeeded'
  <2>. SUFFICES ASSUME NEW d \in Builds, build'[d].at \in Successful PROVE d \in succeeded'
    OBVIOUS
  <2>1. build[d].at \in Successful \/ (build[d].at = "attached" /\ build'[d].at = "promoted")
    BY DEF Moves, After, Successful, Switching, InFlight
  <2>. QED BY <2>1 DEF Moves, SuccessInv
<1>2. ASSUME NEW d \in Builds, d \in succeeded'
      PROVE  build'[d].at \in {"failed", "undo"} \cup Successful /\ d \notin cancelled'
  <2>1. CASE d \in succeeded
    <3>1. build[d].at \in {"failed", "undo"} \cup Successful /\ d \notin cancelled
      BY <2>1 DEF SuccessInv
    <3>2. build'[d].at \in {"failed", "undo"} \cup Successful
      BY <3>1 DEF Moves, After, Successful, Switching, InFlight, Rowless
    <3>. QED BY <1>2, <3>1, <3>2 DEF Moves
  <2>2. CASE d \notin succeeded
    BY <1>2, <2>2 DEF Moves, Successful, Switching
  <2>. QED BY <2>1, <2>2
<1>3. succeeded' \subseteq Builds
  BY DEF HostTypes
<1>. QED BY <1>1, <1>2, <1>3 DEF SuccessInv

\* Among fewer, no fewer are the newest.
LEMMA NewestOfFewer ==
  ASSUME NEW these \in SUBSET Builds, NEW those \in SUBSET Builds, these \subseteq those, NEW d \in Builds, Newest(d, those)
  PROVE  Newest(d, these)
<1>. DEFINE few == {e \in these : build[e].service = build[d].service /\ e > d}
            many == {e \in those : build[e].service = build[d].service /\ e > d}
<1>1. few \subseteq many /\ many \subseteq Builds
  OBVIOUS
<1>2. IsFiniteSet(Builds)
  BY HostAssumption, FS_Interval DEF Builds
<1>3. IsFiniteSet(many)
  BY <1>1, <1>2, FS_Subset
<1>4. Cardinality(few) <= Cardinality(many) /\ Cardinality(few) \in Nat /\ Cardinality(many) \in Nat
  <2>. HIDE DEF few, many
  <2>. QED BY <1>1, <1>3, FS_Subset, FS_CardinalityType
<1>5. Cardinality(many) < Retain
  BY DEF Newest
<1>. HIDE DEF few, many
<1>6. Cardinality(few) < Retain
  BY <1>4, <1>5, HostAssumption
<1>. QED BY <1>6 DEF few, Newest

\* Nobody is among the newest later who is not now.
LEMMA NewestBefore ==
  ASSUME HostTypes, HostTypes', SuccessInv, Moves, NEW d \in succeeded, Newest(d, succeeded)'
  PROVE  Newest(d, succeeded)
<1>1. d \in Builds /\ succeeded \subseteq Builds /\ succeeded' \subseteq Builds /\ succeeded \subseteq succeeded'
  BY DEF HostTypes, Moves
<1>2. \A e \in succeeded : build'[e].service = build[e].service
  BY <1>1 DEF Moves, SuccessInv, Successful, Switching
<1>. DEFINE few == {e \in succeeded : build[e].service = build[d].service /\ e > d}
            many == {e \in succeeded' : build'[e].service = build'[d].service /\ e > d}
<1>4. few \subseteq many /\ many \subseteq Builds
  BY <1>1, <1>2
<1>5. IsFiniteSet(Builds)
  BY HostAssumption, FS_Interval DEF Builds
<1>6. IsFiniteSet(many)
  BY <1>4, <1>5, FS_Subset
<1>7. Cardinality(few) <= Cardinality(many) /\ Cardinality(few) \in Nat /\ Cardinality(many) \in Nat
  <2>. HIDE DEF few, many
  <2>. QED BY <1>4, <1>6, FS_Subset, FS_CardinalityType
<1>8. Cardinality(many) < Retain
  BY DEF Newest
<1>. HIDE DEF few, many
<1>9. Cardinality(few) < Retain
  BY <1>7, <1>8, HostAssumption
<1>. QED BY <1>9 DEF few, Newest

LEMMA OverForGood ==
  ASSUME HostTypes, HostTypes', SuccessInv, Moves, NEW d \in Builds, Over(d)
  PROVE  Over(d)'
<1>1. CASE d \in cancelled
  BY <1>1 DEF Moves, Over
<1>2. CASE build[d].at \in {"failed", "undo"}
  <2>1. build'[d].at \in {"failed", "undo"}
    BY <1>2 DEF Moves, After, Switching, InFlight, Rowless
  <2>. QED BY <2>1 DEF Over
<1>3. CASE d \in succeeded /\ ~ Newest(d, succeeded)
  <2>1. d \in succeeded'
    BY <1>3 DEF Moves
  <2>2. ~ Newest(d, succeeded)'
    BY <1>3, NewestBefore
  <2>. QED BY <2>1, <2>2 DEF Over
<1>. QED BY <1>1, <1>2, <1>3 DEF Over

LEMMA OverIsUnwanted ==
  ASSUME HostTypes, SuccessInv, NEW d \in Builds, Over(d)
  PROVE  ~ Wanted(d)
<1>1. CASE d \in cancelled
  BY <1>1 DEF Wanted, SuccessInv
<1>2. CASE build[d].at \in {"failed", "undo"}
  BY <1>2 DEF Wanted, Successful, Switching
<1>3. CASE d \in succeeded /\ ~ Newest(d, succeeded)
  <2>1. build[d].at \in {"failed", "undo"} \cup Successful
    BY <1>3 DEF SuccessInv
  <2>. QED BY <1>3, <2>1 DEF Wanted, Successful, Switching
<1>. QED BY <1>1, <1>2, <1>3 DEF Over

LEMMA ImageKept ==
  ASSUME HostTypes, HostTypes', SuccessInv, ImageInv, SweepInv, Moves, ImageMoves
  PROVE  ImageInv'
<1>1. ASSUME NEW d \in Builds, Wanted(d)' PROVE Wanted(d) \/ d \in images'
  <2>1. CASE build'[d].at \in {"built", "started", "attached"} /\ d \notin cancelled'
    <3>1. build[d].at \in {"built", "started", "attached"} \/ (build[d].at = "picked" /\ build'[d].at = "built")
      BY <2>1 DEF Moves, After, Switching
    <3>2. d \notin cancelled
      BY <2>1 DEF Moves
    <3>. QED BY <3>1, <3>2 DEF ImageMoves, Wanted
  <2>2. CASE build'[d].at \in Successful /\ Newest(d, succeeded)'
    <3>1. CASE build[d].at \in Successful
      <4>1. d \in succeeded
        BY <3>1 DEF SuccessInv
      <4>. QED BY <2>2, <3>1, <4>1, NewestBefore DEF Wanted
    <3>2. CASE build[d].at = "attached" /\ build'[d].at = "promoted"
      BY <3>2 DEF Moves, Wanted
    <3>3. build[d].at \in Successful \/ (build[d].at = "attached" /\ build'[d].at = "promoted")
      BY <2>2 DEF Moves, After, Successful, Switching, InFlight
    <3>. QED BY <3>1, <3>2, <3>3
  <2>. QED BY <1>1, <2>1, <2>2 DEF Wanted
<1>2. ASSUME NEW d \in Builds, Wanted(d)' PROVE d \in images' \cup unseen'
  <2>1. CASE d \in images'
    BY <2>1
  <2>2. CASE Wanted(d) /\ d \in unseen
    BY <2>2 DEF ImageMoves
  <2>3. CASE Wanted(d) /\ d \in images /\ d \notin images' /\ d \notin unseen
    <3>1. sweep.at = "remove" /\ d \in sweep.left
      BY <2>3 DEF ImageMoves
    <3>2. Over(d)
      BY <2>3, <3>1 DEF SweepInv
    <3>. QED BY <2>3, <3>2, OverIsUnwanted
  <2>. QED BY <1>1, <1>2, <2>1, <2>2, <2>3 DEF ImageInv
<1>3. ASSUME NEW d \in images' PROVE build'[d].at \notin {"none", "queued", "picked"}
  <2>1. d \in Builds
    BY DEF HostTypes
  <2>2. CASE d \in images
    <3>1. build[d].at \notin {"none", "queued", "picked"}
      BY <2>2 DEF ImageInv
    <3>. QED BY <2>1, <3>1 DEF Moves, After
  <2>3. CASE d \notin images
    BY <2>3 DEF ImageMoves
  <2>. QED BY <2>2, <2>3
<1>. QED BY <1>2, <1>3 DEF ImageInv

\* What the refs to keep leave out when they are read is over, or not begun.
LEMMA RetainedMeans ==
  ASSUME HostTypes, SuccessInv, NEW d \in Builds, d \notin ListRetainedImageRefs
  PROVE  build[d].at = "none" \/ Over(d)
<1>1. build[d].at \in BuildPlaces
  BY DEF HostTypes, BuildType
<1>2. CASE build[d].at \in {"queued", "attached"} \cup Rowless
  BY <1>2 DEF ListRetainedImageRefs, Over
<1>3. CASE build[d].at \in Successful
  <2>. DEFINE now == {e \in Builds : build[e].at \in Successful}
  <2>1. d \in now /\ ~ Newest(d, now)
    BY <1>3 DEF ListRetainedImageRefs, Buffer
  <2>2. now \subseteq succeeded /\ succeeded \subseteq Builds /\ now \subseteq Builds
    BY DEF SuccessInv, HostTypes
  <2>. HIDE DEF now
  <2>3. ~ Newest(d, succeeded)
    BY <2>1, <2>2, NewestOfFewer
  <2>. QED BY <2>1, <2>2, <2>3 DEF Over
<1>4. CASE build[d].at \in {"none", "failed", "undo"}
  BY <1>4 DEF Over
<1>. QED BY <1>1, <1>2, <1>3, <1>4 DEF BuildPlaces, InFlight

LEMMA SweepKept ==
  ASSUME HostTypes, HostTypes', SuccessInv, ImageInv, SweepInv, Moves, ImageMoves, SweepMoves
  PROVE  SweepInv'
<1>1. \A d \in Builds : Over(d) => Over(d)'
  BY OverForGood
<1>2. unseen \subseteq unseen' /\ sweep.left \subseteq Builds /\ sweep'.left \subseteq Builds
  BY DEF ImageMoves, HostTypes, SweepType
<1>3. CASE sweep' = sweep /\ \A d \in Builds : build[d].at = "none" /\ build'[d].at # "none" /\ sweep.at = "list" => d \in unseen'
  BY <1>1, <1>2, <1>3 DEF SweepInv
<1>4. CASE sweep'.at = "idle"
  BY <1>4 DEF SweepInv
<1>5. CASE sweep'.at = "list" /\ sweep'.keep = ListRetainedImageRefs /\ build' = build
  BY <1>1, <1>5, RetainedMeans DEF SweepInv
<1>6. CASE sweep.at = "list" /\ sweep'.at = "remove" /\ sweep'.left = images \ sweep.keep /\ build' = build
  <2>1. ASSUME NEW d \in images \ sweep.keep PROVE d \in unseen \/ Over(d)
    BY <1>6 DEF SweepInv, ImageInv, HostTypes
  <2>2. \A d \in sweep'.left : d \in unseen' \/ Over(d)'
    BY <1>1, <1>2, <1>6, <2>1
  <2>. QED BY <1>6, <2>2 DEF SweepInv
<1>7. CASE sweep.at = "remove" /\ sweep'.at = "remove" /\ sweep'.left \subseteq sweep.left
  BY <1>1, <1>2, <1>7 DEF SweepInv
<1>. QED BY <1>3, <1>4, <1>5, <1>6, <1>7 DEF SweepMoves

LEMMA HostKept == HostInv /\ [HostNext]_hostState => HostInv'
<1>. SUFFICES ASSUME HostInv, [HostNext]_hostState PROVE HostInv'
  OBVIOUS
<1>1. HostTypes /\ ContainerRows /\ HeldApart /\ SuccessInv /\ ImageInv /\ SweepInv
  BY DEF HostInv
<1>2. HostTypes'
  BY <1>1, HostTypesKept
<1>3. Moves /\ RowMoves /\ ImageMoves /\ SweepMoves
  BY <1>1, BuildsMove, RowsMove, ImagesMove
<1>4. ContainerRows' /\ HeldApart' /\ SuccessInv'
  BY <1>1, <1>2, <1>3, RowsKept, HeldKept, SuccessKept
<1>5. ImageInv' /\ SweepInv'
  BY <1>1, <1>2, <1>3, ImageKept, SweepKept
<1>. QED BY <1>2, <1>4, <1>5 DEF HostInv

\* The inductive invariant of ports and images.
THEOREM HostInvariant == HostSpec => []HostInv
<1>1. HostInit => HostInv BY HostBegins
<1>2. HostInv /\ [HostNext]_hostVars => HostInv'
  BY HostKept DEF hostVars
<1>. QED BY <1>1, <1>2, PTL DEF HostSpec

\* Two rows that own a port own different ones, unless their deployments
\* picked it at the same time, or a stop or a restart wrote a row again after
\* the cutover had removed it (ports.go:16-54, repository/store.go:63-86,
\* deploy_v2.go:387-421).
THEOREM PortsStayDistinct == HostSpec => []PortsAreDistinct
<1>1. HostInv => PortsAreDistinct
  BY DEF HostInv, HeldApart, Held, Owns, PortsAreDistinct
<1>. QED BY <1>1, HostInvariant, PTL

\* The image sweep takes no image that a deployment has still to start, nor
\* one of the newest successful ones of a service, except the image of a
\* deployment created and built between its reading what to keep and its
\* listing what there is (image_gc.go:56-110).
THEOREM ImagesStayKept == HostSpec => []ImageIsKept
<1>1. HostInv => ImageIsKept
  BY DEF HostInv, ImageInv, Wanted, ImageIsKept
<1>. QED BY <1>1, HostInvariant, PTL

-----------------------------------------------------------------------------
(***************************************************************************)
(* PlatformDomain, for every set of zones, services and operators.  The    *)
(* names of the managed domains and the status of their certificates       *)
(* carry themselves once the shape of the rows is known.  The snippet does *)
(* not: that it agrees with the store when a request ends depends on where *)
(* that request is (SnippetFollows), and that no other change is half way  *)
(* then is what databaseGatewayDomainMu is for (OneChange).                *)
(***************************************************************************)

ChangePlaces == {"store", "snippet", "routes", "undo store", "undo snippet", "undo routes"}

Changes(o) == asked[o].at \in ChangePlaces
Records(o) == asked[o].at = "record"

AskedType ==
  [at : {"idle", "change", "onboard", "record"} \cup ChangePlaces, from : Zones \cup {None}, to : Zones \cup {None}]

RowTypes ==
  /\ platform \in Zones \cup {None}
  /\ share \in [Shares -> Zones \cup {None}] /\ ssl \in [Shares -> Zones \cup {None}]
  /\ ensure \in [Shares -> Zones \cup {None}]
  /\ poll \in [at : {"idle", "observe"}, read : [Shares -> Zones \cup {None}], left : SUBSET Shares]

OneChange == \A o, p \in Operators : Changes(o) /\ Changes(p) => o = p

\* What a request on its way has left in the store and in the snippet.
SnippetFollows(o) ==
  /\ asked[o].at = "store" => snippet = platform
  /\ asked[o].at = "snippet" => platform = asked[o].to /\ snippet = asked[o].from
  /\ asked[o].at = "routes" => platform = asked[o].to /\ snippet = asked[o].to
  /\ asked[o].at = "undo store" => platform = asked[o].to
  /\ asked[o].at = "undo snippet" => platform = asked[o].from
  /\ asked[o].at = "undo routes" => platform = asked[o].from /\ snippet = asked[o].from

\* Whoever changes the domain has read one, so onboarding was complete.
ChangeIsLater ==
  \A o \in Operators : asked[o].at \in ChangePlaces \cup {"change"} =>
    platform # None /\ asked[o].from \in Zones /\ asked[o].to \in Zones

OnboardingNames ==
  \A o \in Operators : asked[o].at \in {"onboard", "record"} => asked[o].to \in Zones

SnippetInv ==
  \/ halfDone
  \/ \E o \in Operators : Records(o)
  \/ /\ \A o \in Operators : SnippetFollows(o)
     /\ (\A o \in Operators : ~Changes(o)) => snippet = platform

AskedInv == asked \in [Operators -> AskedType] /\ OneChange /\ ChangeIsLater /\ OnboardingNames

DomainInv == RowTypes /\ AskedInv /\ ShareFollowsPlatform /\ StatusIsOfTheName /\ SnippetInv

-----------------------------------------------------------------------------
LEMMA DomainBegins == DomainInit => DomainInv
<1>. SUFFICES ASSUME DomainInit PROVE DomainInv
  OBVIOUS
<1>1. AskedInv
  BY DEF DomainInit, NotAsked, AskedInv, AskedType, OneChange, Changes, ChangePlaces,
         ChangeIsLater, OnboardingNames
<1>2. SnippetInv
  BY DEF DomainInit, NotAsked, SnippetInv, SnippetFollows
<1>3. RowTypes
  BY DEF DomainInit, RowTypes, NotPolling
<1>. QED BY <1>1, <1>2, <1>3 DEF DomainInit, DomainInv, ShareFollowsPlatform, StatusIsOfTheName

\* A request goes on to its next step: what is left of AskedInv to show.
LEMMA AskedMoves ==
  ASSUME AskedInv, NEW o \in Operators, NEW to \in {"record"} \cup ChangePlaces, AskedAt(o, to),
         platform # None => platform' # None,
         to \in ChangePlaces => Changes(o) \/ (asked[o].at = "change" /\ Free),
         to = "record" => asked[o].at = "onboard"
  PROVE  /\ AskedInv'
         /\ asked'[o].at = to /\ asked'[o].from = asked[o].from /\ asked'[o].to = asked[o].to
         /\ \A p \in Operators : p # o => asked'[p] = asked[p]
<1>1. /\ asked' \in [Operators -> AskedType]
      /\ asked'[o].at = to /\ asked'[o].from = asked[o].from /\ asked'[o].to = asked[o].to
      /\ \A p \in Operators : p # o => asked'[p] = asked[p]
  BY DEF AskedInv, AskedAt, AskedType, ChangePlaces
<1>2. OneChange'
  BY <1>1 DEF AskedInv, OneChange, Changes, Free, ChangePlaces
<1>3. ChangeIsLater' /\ OnboardingNames'
  BY <1>1 DEF AskedInv, ChangeIsLater, OnboardingNames, Changes, ChangePlaces
<1>. QED BY <1>1, <1>2, <1>3 DEF AskedInv

\* A request is answered.
LEMMA AskedEnds ==
  ASSUME AskedInv, NEW o \in Operators, Answered(o), platform # None => platform' # None
  PROVE  /\ AskedInv'
         /\ asked'[o].at = "idle"
         /\ \A p \in Operators : p # o => asked'[p] = asked[p]
<1>1. /\ asked' \in [Operators -> AskedType] /\ asked'[o].at = "idle"
      /\ \A p \in Operators : p # o => asked'[p] = asked[p]
  BY DEF AskedInv, Answered, NotAsked, AskedType
<1>2. OneChange' /\ ChangeIsLater' /\ OnboardingNames'
  BY <1>1 DEF AskedInv, OneChange, Changes, ChangeIsLater, OnboardingNames, ChangePlaces
<1>. QED BY <1>1, <1>2 DEF AskedInv

LEMMA TypesKept == RowTypes /\ AskedInv /\ [DomainNext]_domainState => RowTypes'
<1>. SUFFICES ASSUME RowTypes /\ AskedInv, [DomainNext]_domainState PROVE RowTypes'
  OBVIOUS
<1>1. CASE RegisterGitHubApp
  BY <1>1 DEF RegisterGitHubApp, RowTypes, certVars
<1>2. CASE DomainCrash
  BY <1>2 DEF DomainCrash, RowTypes, certVars, NotPolling
<1>3. CASE ListAllDomains
  BY <1>3 DEF ListAllDomains, RowTypes, certVars
<1>4. ASSUME NEW s \in Shares, ReadPlatformDomain(s) PROVE RowTypes'
  BY <1>4 DEF ReadPlatformDomain, RowTypes, certVars
<1>5. ASSUME NEW s \in Shares, InsertPlatformDomain(s) PROVE RowTypes'
  BY <1>5 DEF InsertPlatformDomain, RowTypes, certVars
<1>6. ASSUME NEW s \in Shares, Issue(s) PROVE RowTypes'
  BY <1>6 DEF Issue, RowTypes, certVars
<1>7. ASSUME NEW s \in Shares, ObserveCertificate(s) PROVE RowTypes'
  BY <1>7 DEF ObserveCertificate, RowTypes, certVars, NotPolling
<1>8. ASSUME NEW o \in Operators, NEW to \in Zones, BeginOnboarding(o, to) PROVE RowTypes'
  BY <1>8 DEF BeginOnboarding, RowTypes, certVars
<1>9. ASSUME NEW o \in Operators, NEW to \in Zones, BeginDomainChange(o, to) PROVE RowTypes'
  BY <1>9 DEF BeginDomainChange, RowTypes, certVars
<1>10. ASSUME NEW o \in Operators, OnboardSnippet(o) PROVE RowTypes'
  BY <1>10 DEF OnboardSnippet, RowTypes, certVars
<1>11. ASSUME NEW o \in Operators, CompleteOnboarding(o) PROVE RowTypes'
  BY <1>11 DEF CompleteOnboarding, RowTypes, certVars, AskedInv, AskedType, ChangeIsLater, OnboardingNames, ChangePlaces
<1>12. ASSUME NEW o \in Operators, LockDomain(o) PROVE RowTypes'
  BY <1>12 DEF LockDomain, RowTypes, certVars
<1>13. ASSUME NEW o \in Operators, StoreDomain(o) PROVE RowTypes'
  BY <1>13 DEF StoreDomain, RowTypes, certVars, AskedInv, AskedType, ChangeIsLater, OnboardingNames, ChangePlaces, UpdatePlatformDomain, Refused, Movable
<1>14. ASSUME NEW o \in Operators, SwitchSnippet(o) PROVE RowTypes'
  BY <1>14 DEF SwitchSnippet, RowTypes, certVars
<1>15. ASSUME NEW o \in Operators, SyncRoutes(o) PROVE RowTypes'
  BY <1>15 DEF SyncRoutes, RowTypes, certVars
<1>16. ASSUME NEW o \in Operators, UndoStore(o) PROVE RowTypes'
  BY <1>16 DEF UndoStore, RowTypes, certVars, AskedInv, AskedType, ChangeIsLater, OnboardingNames, ChangePlaces, UpdatePlatformDomain, Refused, Movable
<1>17. ASSUME NEW o \in Operators, UndoSnippet(o) PROVE RowTypes'
  BY <1>17 DEF UndoSnippet, RowTypes, certVars
<1>18. ASSUME NEW o \in Operators, UndoRoutes(o) PROVE RowTypes'
  BY <1>18 DEF UndoRoutes, RowTypes, certVars
<1>19. CASE UNCHANGED domainState
  BY <1>19 DEF domainState, RowTypes, certVars
<1>. QED BY <1>1, <1>2, <1>3, <1>4, <1>5, <1>6, <1>7, <1>8, <1>9, <1>10, <1>11, <1>12, <1>13, <1>14, <1>15, <1>16, <1>17, <1>18, <1>19 DEF DomainNext

LEMMA AskedKept == RowTypes /\ AskedInv /\ [DomainNext]_domainState => AskedInv'
<1>. SUFFICES ASSUME RowTypes /\ AskedInv, [DomainNext]_domainState PROVE AskedInv'
  OBVIOUS
<1>1. CASE RegisterGitHubApp
  BY <1>1 DEF RegisterGitHubApp, AskedInv, OneChange, Changes, ChangeIsLater, OnboardingNames, certVars
<1>2. CASE DomainCrash
  BY <1>2 DEF DomainCrash, NotAsked, AskedInv, AskedType, OneChange, Changes, ChangePlaces, ChangeIsLater, OnboardingNames
<1>3. CASE ListAllDomains
  BY <1>3 DEF ListAllDomains, AskedInv, OneChange, Changes, ChangeIsLater, OnboardingNames, certVars
<1>4. ASSUME NEW s \in Shares, ReadPlatformDomain(s) PROVE AskedInv'
  BY <1>4 DEF ReadPlatformDomain, AskedInv, OneChange, Changes, ChangeIsLater, OnboardingNames, certVars
<1>5. ASSUME NEW s \in Shares, InsertPlatformDomain(s) PROVE AskedInv'
  BY <1>5 DEF InsertPlatformDomain, AskedInv, OneChange, Changes, ChangeIsLater, OnboardingNames, certVars
<1>6. ASSUME NEW s \in Shares, Issue(s) PROVE AskedInv'
  BY <1>6 DEF Issue, AskedInv, OneChange, Changes, ChangeIsLater, OnboardingNames, certVars
<1>7. ASSUME NEW s \in Shares, ObserveCertificate(s) PROVE AskedInv'
  BY <1>7 DEF ObserveCertificate, AskedInv, OneChange, Changes, ChangeIsLater, OnboardingNames, certVars
<1>8. ASSUME NEW o \in Operators, NEW to \in Zones, BeginOnboarding(o, to) PROVE AskedInv'
  <2>1. /\ asked' \in [Operators -> AskedType] /\ asked'[o].at = "onboard" /\ asked'[o].to = to
        /\ \A p \in Operators : p # o => asked'[p] = asked[p]
    BY <1>8 DEF BeginOnboarding, AskedInv, AskedType
  <2>. QED BY <1>8, <2>1 DEF BeginOnboarding, AskedInv, OneChange, Changes, ChangeIsLater, OnboardingNames, ChangePlaces
<1>9. ASSUME NEW o \in Operators, NEW to \in Zones, BeginDomainChange(o, to) PROVE AskedInv'
  <2>1. /\ asked' \in [Operators -> AskedType] /\ asked'[o].at = "change" /\ asked'[o].to = to
        /\ asked'[o].from = platform /\ platform \in Zones
        /\ \A p \in Operators : p # o => asked'[p] = asked[p]
    BY <1>9 DEF BeginDomainChange, AskedInv, AskedType, RowTypes
  <2>. QED BY <1>9, <2>1, DomainAssumption
       DEF BeginDomainChange, AskedInv, OneChange, Changes, ChangeIsLater, OnboardingNames, ChangePlaces
<1>10. ASSUME NEW o \in Operators, OnboardSnippet(o) PROVE AskedInv'
  <2>1. CASE AskedAt(o, "record")
    <3>1. asked[o].at = "onboard" /\ platform' = platform /\ "record" \notin ChangePlaces
      BY <1>10 DEF OnboardSnippet, ChangePlaces
    <3>. QED BY <2>1, <3>1, AskedMoves
  <2>2. CASE Answered(o)
    BY <1>10, <2>2, AskedEnds DEF OnboardSnippet
  <2>. QED BY <1>10, <2>1, <2>2 DEF OnboardSnippet
<1>11. ASSUME NEW o \in Operators, CompleteOnboarding(o) PROVE AskedInv'
  <2>1. platform # None => platform' # None
    BY <1>11, DomainAssumption DEF CompleteOnboarding, AskedInv, OnboardingNames
  <2>. QED BY <1>11, <2>1, AskedEnds DEF CompleteOnboarding
<1>12. ASSUME NEW o \in Operators, LockDomain(o) PROVE AskedInv'
  <2>1. CASE AskedAt(o, "store")
    BY <1>12, <2>1, AskedMoves DEF LockDomain, ChangePlaces
  <2>2. CASE Answered(o)
    BY <1>12, <2>2, AskedEnds DEF LockDomain
  <2>. QED BY <1>12, <2>1, <2>2 DEF LockDomain
<1>13. ASSUME NEW o \in Operators, StoreDomain(o) PROVE AskedInv'
  <2>1. platform # None => platform' # None
    BY <1>13, DomainAssumption DEF StoreDomain, UpdatePlatformDomain, Refused, Movable, AskedInv, ChangeIsLater, ChangePlaces
  <2>2. CASE AskedAt(o, "snippet")
    BY <1>13, <2>1, <2>2, AskedMoves DEF StoreDomain, Changes, ChangePlaces
  <2>3. CASE Answered(o)
    BY <1>13, <2>1, <2>3, AskedEnds
  <2>. QED BY <1>13, <2>2, <2>3 DEF StoreDomain
<1>14. ASSUME NEW o \in Operators, SwitchSnippet(o) PROVE AskedInv'
  <2>. DEFINE next == IF snippet' = asked[o].to THEN "routes" ELSE "undo store"
  <2>1. AskedAt(o, next) /\ next \in ChangePlaces /\ Changes(o) /\ platform' = platform
    BY <1>14 DEF SwitchSnippet, Changes, ChangePlaces
  <2>. HIDE DEF next
  <2>. QED BY <2>1, AskedMoves DEF ChangePlaces
<1>15. ASSUME NEW o \in Operators, SyncRoutes(o) PROVE AskedInv'
  <2>1. CASE AskedAt(o, "undo store")
    BY <1>15, <2>1, AskedMoves DEF SyncRoutes, Changes, ChangePlaces
  <2>2. CASE Answered(o)
    BY <1>15, <2>2, AskedEnds DEF SyncRoutes
  <2>. QED BY <1>15, <2>1, <2>2 DEF SyncRoutes
<1>16. ASSUME NEW o \in Operators, UndoStore(o) PROVE AskedInv'
  <2>1. platform # None => platform' # None
    BY <1>16, DomainAssumption DEF UndoStore, UpdatePlatformDomain, Refused, Movable, AskedInv, ChangeIsLater, ChangePlaces
  <2>. QED BY <1>16, <2>1, AskedMoves DEF UndoStore, Changes, ChangePlaces
<1>17. ASSUME NEW o \in Operators, UndoSnippet(o) PROVE AskedInv'
  BY <1>17, AskedMoves DEF UndoSnippet, Changes, ChangePlaces
<1>18. ASSUME NEW o \in Operators, UndoRoutes(o) PROVE AskedInv'
  BY <1>18, AskedEnds DEF UndoRoutes
<1>19. CASE UNCHANGED domainState
  BY <1>19 DEF domainState, AskedInv, OneChange, Changes, ChangeIsLater, OnboardingNames, certVars
<1>. QED BY <1>1, <1>2, <1>3, <1>4, <1>5, <1>6, <1>7, <1>8, <1>9, <1>10, <1>11, <1>12, <1>13, <1>14, <1>15, <1>16, <1>17, <1>18, <1>19 DEF DomainNext

\* A managed domain moves with the platform domain and sheds its status.
LEMMA NamesKept == RowTypes /\ ShareFollowsPlatform /\ StatusIsOfTheName /\ [DomainNext]_domainState => (ShareFollowsPlatform /\ StatusIsOfTheName)'
<1>. SUFFICES ASSUME RowTypes /\ ShareFollowsPlatform /\ StatusIsOfTheName, [DomainNext]_domainState PROVE (ShareFollowsPlatform /\ StatusIsOfTheName)'
  OBVIOUS
<1>1. CASE RegisterGitHubApp
  BY <1>1 DEF RegisterGitHubApp, RowTypes, ShareFollowsPlatform, StatusIsOfTheName, certVars
<1>2. CASE DomainCrash
  BY <1>2 DEF DomainCrash, RowTypes, ShareFollowsPlatform, StatusIsOfTheName, certVars
<1>3. CASE ListAllDomains
  BY <1>3 DEF ListAllDomains, RowTypes, ShareFollowsPlatform, StatusIsOfTheName, certVars
<1>4. ASSUME NEW s \in Shares, ReadPlatformDomain(s) PROVE (ShareFollowsPlatform /\ StatusIsOfTheName)'
  BY <1>4 DEF ReadPlatformDomain, RowTypes, ShareFollowsPlatform, StatusIsOfTheName, certVars
<1>5. ASSUME NEW s \in Shares, InsertPlatformDomain(s) PROVE (ShareFollowsPlatform /\ StatusIsOfTheName)'
  BY <1>5 DEF InsertPlatformDomain, RowTypes, ShareFollowsPlatform, StatusIsOfTheName, certVars
<1>6. ASSUME NEW s \in Shares, Issue(s) PROVE (ShareFollowsPlatform /\ StatusIsOfTheName)'
  BY <1>6 DEF Issue, RowTypes, ShareFollowsPlatform, StatusIsOfTheName, certVars
<1>7. ASSUME NEW s \in Shares, ObserveCertificate(s) PROVE (ShareFollowsPlatform /\ StatusIsOfTheName)'
  BY <1>7 DEF ObserveCertificate, RowTypes, ShareFollowsPlatform, StatusIsOfTheName, certVars
<1>8. ASSUME NEW o \in Operators, NEW to \in Zones, BeginOnboarding(o, to) PROVE (ShareFollowsPlatform /\ StatusIsOfTheName)'
  BY <1>8 DEF BeginOnboarding, RowTypes, ShareFollowsPlatform, StatusIsOfTheName, certVars
<1>9. ASSUME NEW o \in Operators, NEW to \in Zones, BeginDomainChange(o, to) PROVE (ShareFollowsPlatform /\ StatusIsOfTheName)'
  BY <1>9 DEF BeginDomainChange, RowTypes, ShareFollowsPlatform, StatusIsOfTheName, certVars
<1>10. ASSUME NEW o \in Operators, OnboardSnippet(o) PROVE (ShareFollowsPlatform /\ StatusIsOfTheName)'
  BY <1>10 DEF OnboardSnippet, RowTypes, ShareFollowsPlatform, StatusIsOfTheName, certVars
<1>11. ASSUME NEW o \in Operators, CompleteOnboarding(o) PROVE (ShareFollowsPlatform /\ StatusIsOfTheName)'
  BY <1>11 DEF CompleteOnboarding, RowTypes, ShareFollowsPlatform, StatusIsOfTheName, certVars
<1>12. ASSUME NEW o \in Operators, LockDomain(o) PROVE (ShareFollowsPlatform /\ StatusIsOfTheName)'
  BY <1>12 DEF LockDomain, RowTypes, ShareFollowsPlatform, StatusIsOfTheName, certVars
<1>13. ASSUME NEW o \in Operators, StoreDomain(o) PROVE (ShareFollowsPlatform /\ StatusIsOfTheName)'
  BY <1>13 DEF StoreDomain, RowTypes, UpdatePlatformDomain, Refused, Movable, ShareFollowsPlatform, StatusIsOfTheName, certVars
<1>14. ASSUME NEW o \in Operators, SwitchSnippet(o) PROVE (ShareFollowsPlatform /\ StatusIsOfTheName)'
  BY <1>14 DEF SwitchSnippet, RowTypes, ShareFollowsPlatform, StatusIsOfTheName, certVars
<1>15. ASSUME NEW o \in Operators, SyncRoutes(o) PROVE (ShareFollowsPlatform /\ StatusIsOfTheName)'
  BY <1>15 DEF SyncRoutes, RowTypes, ShareFollowsPlatform, StatusIsOfTheName, certVars
<1>16. ASSUME NEW o \in Operators, UndoStore(o) PROVE (ShareFollowsPlatform /\ StatusIsOfTheName)'
  BY <1>16 DEF UndoStore, RowTypes, UpdatePlatformDomain, Refused, Movable, ShareFollowsPlatform, StatusIsOfTheName, certVars
<1>17. ASSUME NEW o \in Operators, UndoSnippet(o) PROVE (ShareFollowsPlatform /\ StatusIsOfTheName)'
  BY <1>17 DEF UndoSnippet, RowTypes, ShareFollowsPlatform, StatusIsOfTheName, certVars
<1>18. ASSUME NEW o \in Operators, UndoRoutes(o) PROVE (ShareFollowsPlatform /\ StatusIsOfTheName)'
  BY <1>18 DEF UndoRoutes, RowTypes, ShareFollowsPlatform, StatusIsOfTheName, certVars
<1>19. CASE UNCHANGED domainState
  BY <1>19 DEF domainState, ShareFollowsPlatform, StatusIsOfTheName, certVars
<1>. QED BY <1>1, <1>2, <1>3, <1>4, <1>5, <1>6, <1>7, <1>8, <1>9, <1>10, <1>11, <1>12, <1>13, <1>14, <1>15, <1>16, <1>17, <1>18, <1>19 DEF DomainNext

\* One step of the only change there is: what is left of SnippetInv to show.
LEMMA SnippetStep ==
  ASSUME SnippetInv, NEW o \in Operators, ~Records(o), halfDone => halfDone',
         \A p \in Operators : p # o => asked'[p] = asked[p] /\ ~Changes(p),
         ~halfDone' /\ SnippetFollows(o) /\ ((\A p \in Operators : ~Changes(p)) => snippet = platform)
           => SnippetFollows(o)' /\ (Changes(o)' \/ snippet' = platform')
  PROVE  SnippetInv'
<1>1. CASE halfDone'
  BY <1>1 DEF SnippetInv
<1>2. CASE ~halfDone' /\ \E p \in Operators : Records(p)
  BY <1>2 DEF SnippetInv, Records
<1>3. CASE ~halfDone' /\ \A p \in Operators : ~Records(p)
  <2>1. SnippetFollows(o)' /\ (Changes(o)' \/ snippet' = platform')
    BY <1>3 DEF SnippetInv
  <2>2. \A p \in Operators : p # o => SnippetFollows(p)' /\ ~Changes(p)'
    BY DEF SnippetFollows, Changes, ChangePlaces
  <2>. QED BY <2>1, <2>2 DEF SnippetInv
<1>. QED BY <1>1, <1>2, <1>3

\* A change follows its own steps in the store and in the snippet.
LEMMA SnippetKept == RowTypes /\ AskedInv /\ SnippetInv /\ [DomainNext]_domainState => SnippetInv'
<1>. SUFFICES ASSUME RowTypes /\ AskedInv /\ SnippetInv, [DomainNext]_domainState PROVE SnippetInv'
  OBVIOUS
<1>1. CASE RegisterGitHubApp
  BY <1>1 DEF RegisterGitHubApp, SnippetInv, SnippetFollows, Records, Changes, certVars
<1>2. CASE DomainCrash
  <2>1. CASE halfDone'
    BY <2>1 DEF SnippetInv
  <2>2. CASE ~halfDone'
    <3>1. ~halfDone /\ \A o \in Operators : asked[o].at \in {"idle", "change", "onboard"}
      BY <1>2, <2>2 DEF DomainCrash
    <3>2. snippet = platform
      BY <3>1 DEF SnippetInv, Records, Changes, ChangePlaces
    <3>. QED BY <1>2, <3>2 DEF DomainCrash, NotAsked, SnippetInv, SnippetFollows
  <2>. QED BY <2>1, <2>2 DEF DomainCrash
<1>3. CASE ListAllDomains
  BY <1>3 DEF ListAllDomains, SnippetInv, SnippetFollows, Records, Changes, certVars
<1>4. ASSUME NEW s \in Shares, ReadPlatformDomain(s) PROVE SnippetInv'
  BY <1>4 DEF ReadPlatformDomain, SnippetInv, SnippetFollows, Records, Changes, certVars
<1>5. ASSUME NEW s \in Shares, InsertPlatformDomain(s) PROVE SnippetInv'
  BY <1>5 DEF InsertPlatformDomain, SnippetInv, SnippetFollows, Records, Changes, certVars
<1>6. ASSUME NEW s \in Shares, Issue(s) PROVE SnippetInv'
  BY <1>6 DEF Issue, SnippetInv, SnippetFollows, Records, Changes, certVars
<1>7. ASSUME NEW s \in Shares, ObserveCertificate(s) PROVE SnippetInv'
  BY <1>7 DEF ObserveCertificate, SnippetInv, SnippetFollows, Records, Changes, certVars
<1>8. ASSUME NEW o \in Operators, NEW to \in Zones, BeginOnboarding(o, to) PROVE SnippetInv'
  <2>1. asked'[o].at = "onboard" /\ \A p \in Operators : p # o => asked'[p] = asked[p]
    BY <1>8 DEF BeginOnboarding, AskedInv
  <2>. QED BY <1>8, <2>1 DEF BeginOnboarding, SnippetInv, SnippetFollows, Records, Changes, ChangePlaces
<1>9. ASSUME NEW o \in Operators, NEW to \in Zones, BeginDomainChange(o, to) PROVE SnippetInv'
  <2>1. asked'[o].at = "change" /\ \A p \in Operators : p # o => asked'[p] = asked[p]
    BY <1>9 DEF BeginDomainChange, AskedInv
  <2>. QED BY <1>9, <2>1 DEF BeginDomainChange, SnippetInv, SnippetFollows, Records, Changes, ChangePlaces
<1>10. ASSUME NEW o \in Operators, OnboardSnippet(o) PROVE SnippetInv'
  <2>1. CASE AskedAt(o, "record")
    <3>1. asked[o].at = "onboard" /\ platform' = platform /\ "record" \notin ChangePlaces
      BY <1>10 DEF OnboardSnippet, ChangePlaces
    <3>2. asked'[o].at = "record"
      BY <2>1, <3>1, AskedMoves
    <3>. QED BY <3>2 DEF SnippetInv, Records
  <2>2. CASE Answered(o) /\ UNCHANGED snippet
    <3>1. asked'[o].at = "idle" /\ \A p \in Operators : p # o => asked'[p] = asked[p]
      BY <1>10, <2>2, AskedEnds DEF OnboardSnippet
    <3>. QED BY <1>10, <2>2, <3>1 DEF OnboardSnippet, SnippetInv, SnippetFollows, Records, Changes, ChangePlaces
  <2>. QED BY <1>10, <2>1, <2>2 DEF OnboardSnippet, ReplaceManagedConfig
<1>11. ASSUME NEW o \in Operators, CompleteOnboarding(o) PROVE SnippetInv'
  <2>1. CASE halfDone'
    BY <2>1 DEF SnippetInv
  <2>2. CASE ~halfDone'
    <3>1. platform = None /\ snippet = asked[o].to /\ platform' = snippet' /\ snippet' = snippet
      BY <1>11, <2>2 DEF CompleteOnboarding
    <3>2. /\ asked'[o].at = "idle"
          /\ \A p \in Operators : p # o => asked'[p] = asked[p]
      BY <1>11, <3>1, AskedEnds DEF CompleteOnboarding
    <3>3. \A p \in Operators : ~Changes(p)
      BY <3>1 DEF AskedInv, ChangeIsLater, Changes
    <3>4. \A p \in Operators : asked'[p].at \notin ChangePlaces
      BY <3>2, <3>3 DEF Changes, ChangePlaces
    <3>. QED BY <3>1, <3>4 DEF SnippetInv, SnippetFollows, ChangePlaces
  <2>. QED BY <1>11, <2>1, <2>2 DEF CompleteOnboarding
<1>12. ASSUME NEW o \in Operators, LockDomain(o) PROVE SnippetInv'
  <2>1. ~Records(o)
    BY <1>12 DEF LockDomain, Records
  <2>2. \A p \in Operators : ~Changes(p)
    BY <1>12 DEF LockDomain, Free, Changes, ChangePlaces
  <2>3. CASE AskedAt(o, "store")
    <3>1. /\ asked'[o].at = "store" /\ asked'[o].from = asked[o].from /\ asked'[o].to = asked[o].to
          /\ \A p \in Operators : p # o => asked'[p] = asked[p]
      BY <1>12, <2>1, <2>3, AskedMoves DEF LockDomain, ChangePlaces
    <3>2. ~halfDone' /\ SnippetFollows(o) /\ ((\A p \in Operators : ~Changes(p)) => snippet = platform)
            => SnippetFollows(o)' /\ (Changes(o)' \/ snippet' = platform')
      BY <1>12, <2>1, <2>2, <2>3, <3>1 DEF LockDomain, SnippetFollows, Changes, ChangePlaces, certVars, UpdatePlatformDomain, Refused, Movable, ReplaceManagedConfig
    <3>3. halfDone => halfDone'
      BY <1>12 DEF LockDomain
    <3>. QED BY <2>1, <2>2, <3>1, <3>2, <3>3, SnippetStep
  <2>4. CASE Answered(o)
    <3>1. asked'[o].at = "idle" /\ \A p \in Operators : p # o => asked'[p] = asked[p]
      BY <1>12, <2>4, AskedEnds DEF LockDomain
    <3>2. ~halfDone' /\ SnippetFollows(o) /\ ((\A p \in Operators : ~Changes(p)) => snippet = platform)
            => SnippetFollows(o)' /\ (Changes(o)' \/ snippet' = platform')
      BY <1>12, <2>1, <2>2, <2>4, <3>1 DEF LockDomain, SnippetFollows, Changes, ChangePlaces, certVars, UpdatePlatformDomain, Refused, Movable, ReplaceManagedConfig
    <3>3. halfDone => halfDone'
      BY <1>12 DEF LockDomain
    <3>. QED BY <2>1, <2>2, <3>1, <3>2, <3>3, SnippetStep
  <2>. QED BY <1>12, <2>3, <2>4 DEF LockDomain, ReplaceManagedConfig
<1>13. ASSUME NEW o \in Operators, StoreDomain(o) PROVE SnippetInv'
  <2>0. platform # None => platform' # None
    BY <1>13, DomainAssumption DEF StoreDomain, UpdatePlatformDomain, Refused, Movable, AskedInv, ChangeIsLater, ChangePlaces
  <2>1. ~Records(o) /\ Changes(o)
    BY <1>13 DEF StoreDomain, Records, Changes, ChangePlaces
  <2>2. \A p \in Operators : p # o => ~Changes(p)
    BY <2>1 DEF AskedInv, OneChange
  <2>3. CASE UpdatePlatformDomain(asked[o].from, asked[o].to) /\ AskedAt(o, "snippet")
    <3>1. /\ asked'[o].at = "snippet" /\ asked'[o].from = asked[o].from /\ asked'[o].to = asked[o].to
          /\ \A p \in Operators : p # o => asked'[p] = asked[p]
      BY <1>13, <2>1, <2>3, AskedMoves, <2>0 DEF StoreDomain, ChangePlaces
    <3>2. ~halfDone' /\ SnippetFollows(o) /\ ((\A p \in Operators : ~Changes(p)) => snippet = platform)
            => SnippetFollows(o)' /\ (Changes(o)' \/ snippet' = platform')
      BY <1>13, <2>1, <2>2, <2>3, <3>1 DEF StoreDomain, SnippetFollows, Changes, ChangePlaces, certVars, UpdatePlatformDomain, Refused, Movable, ReplaceManagedConfig
    <3>3. halfDone => halfDone'
      BY <1>13 DEF StoreDomain
    <3>. QED BY <2>1, <2>2, <3>1, <3>2, <3>3, SnippetStep
  <2>4. CASE Refused(asked[o].from) /\ Answered(o)
    <3>1. asked'[o].at = "idle" /\ \A p \in Operators : p # o => asked'[p] = asked[p]
      BY <1>13, <2>4, AskedEnds, <2>0 DEF StoreDomain
    <3>2. ~halfDone' /\ SnippetFollows(o) /\ ((\A p \in Operators : ~Changes(p)) => snippet = platform)
            => SnippetFollows(o)' /\ (Changes(o)' \/ snippet' = platform')
      BY <1>13, <2>1, <2>2, <2>4, <3>1 DEF StoreDomain, SnippetFollows, Changes, ChangePlaces, certVars, UpdatePlatformDomain, Refused, Movable, ReplaceManagedConfig
    <3>3. halfDone => halfDone'
      BY <1>13 DEF StoreDomain
    <3>. QED BY <2>1, <2>2, <3>1, <3>2, <3>3, SnippetStep
  <2>. QED BY <1>13, <2>3, <2>4 DEF StoreDomain, ReplaceManagedConfig
<1>14. ASSUME NEW o \in Operators, SwitchSnippet(o) PROVE SnippetInv'
  <2>1. ~Records(o) /\ Changes(o)
    BY <1>14 DEF SwitchSnippet, Records, Changes, ChangePlaces
  <2>2. \A p \in Operators : p # o => ~Changes(p)
    BY <2>1 DEF AskedInv, OneChange
  <2>3. CASE snippet' = asked[o].to /\ AskedAt(o, "routes")
    <3>1. /\ asked'[o].at = "routes" /\ asked'[o].from = asked[o].from /\ asked'[o].to = asked[o].to
          /\ \A p \in Operators : p # o => asked'[p] = asked[p]
      BY <1>14, <2>1, <2>3, AskedMoves DEF SwitchSnippet, ChangePlaces
    <3>2. ~halfDone' /\ SnippetFollows(o) /\ ((\A p \in Operators : ~Changes(p)) => snippet = platform)
            => SnippetFollows(o)' /\ (Changes(o)' \/ snippet' = platform')
      BY <1>14, <2>1, <2>2, <2>3, <3>1 DEF SwitchSnippet, SnippetFollows, Changes, ChangePlaces, certVars, UpdatePlatformDomain, Refused, Movable, ReplaceManagedConfig
    <3>3. halfDone => halfDone'
      BY <1>14 DEF SwitchSnippet
    <3>. QED BY <2>1, <2>2, <3>1, <3>2, <3>3, SnippetStep
  <2>4. CASE snippet' # asked[o].to /\ AskedAt(o, "undo store")
    <3>1. /\ asked'[o].at = "undo store" /\ asked'[o].from = asked[o].from /\ asked'[o].to = asked[o].to
          /\ \A p \in Operators : p # o => asked'[p] = asked[p]
      BY <1>14, <2>1, <2>4, AskedMoves DEF SwitchSnippet, ChangePlaces
    <3>2. ~halfDone' /\ SnippetFollows(o) /\ ((\A p \in Operators : ~Changes(p)) => snippet = platform)
            => SnippetFollows(o)' /\ (Changes(o)' \/ snippet' = platform')
      BY <1>14, <2>1, <2>2, <2>4, <3>1 DEF SwitchSnippet, SnippetFollows, Changes, ChangePlaces, certVars, UpdatePlatformDomain, Refused, Movable, ReplaceManagedConfig
    <3>3. halfDone => halfDone'
      BY <1>14 DEF SwitchSnippet
    <3>. QED BY <2>1, <2>2, <3>1, <3>2, <3>3, SnippetStep
  <2>. QED BY <1>14, <2>3, <2>4 DEF SwitchSnippet, ReplaceManagedConfig
<1>15. ASSUME NEW o \in Operators, SyncRoutes(o) PROVE SnippetInv'
  <2>1. ~Records(o) /\ Changes(o)
    BY <1>15 DEF SyncRoutes, Records, Changes, ChangePlaces
  <2>2. \A p \in Operators : p # o => ~Changes(p)
    BY <2>1 DEF AskedInv, OneChange
  <2>3. CASE Answered(o)
    <3>1. asked'[o].at = "idle" /\ \A p \in Operators : p # o => asked'[p] = asked[p]
      BY <1>15, <2>3, AskedEnds DEF SyncRoutes
    <3>2. ~halfDone' /\ SnippetFollows(o) /\ ((\A p \in Operators : ~Changes(p)) => snippet = platform)
            => SnippetFollows(o)' /\ (Changes(o)' \/ snippet' = platform')
      BY <1>15, <2>1, <2>2, <2>3, <3>1 DEF SyncRoutes, SnippetFollows, Changes, ChangePlaces, certVars, UpdatePlatformDomain, Refused, Movable, ReplaceManagedConfig
    <3>3. halfDone => halfDone'
      BY <1>15 DEF SyncRoutes
    <3>. QED BY <2>1, <2>2, <3>1, <3>2, <3>3, SnippetStep
  <2>4. CASE AskedAt(o, "undo store")
    <3>1. /\ asked'[o].at = "undo store" /\ asked'[o].from = asked[o].from /\ asked'[o].to = asked[o].to
          /\ \A p \in Operators : p # o => asked'[p] = asked[p]
      BY <1>15, <2>1, <2>4, AskedMoves DEF SyncRoutes, ChangePlaces
    <3>2. ~halfDone' /\ SnippetFollows(o) /\ ((\A p \in Operators : ~Changes(p)) => snippet = platform)
            => SnippetFollows(o)' /\ (Changes(o)' \/ snippet' = platform')
      BY <1>15, <2>1, <2>2, <2>4, <3>1 DEF SyncRoutes, SnippetFollows, Changes, ChangePlaces, certVars, UpdatePlatformDomain, Refused, Movable, ReplaceManagedConfig
    <3>3. halfDone => halfDone'
      BY <1>15 DEF SyncRoutes
    <3>. QED BY <2>1, <2>2, <3>1, <3>2, <3>3, SnippetStep
  <2>. QED BY <1>15, <2>3, <2>4 DEF SyncRoutes, ReplaceManagedConfig
<1>16. ASSUME NEW o \in Operators, UndoStore(o) PROVE SnippetInv'
  <2>0. platform # None => platform' # None
    BY <1>16, DomainAssumption DEF UndoStore, UpdatePlatformDomain, Refused, Movable, AskedInv, ChangeIsLater, ChangePlaces
  <2>1. ~Records(o) /\ Changes(o)
    BY <1>16 DEF UndoStore, Records, Changes, ChangePlaces
  <2>2. \A p \in Operators : p # o => ~Changes(p)
    BY <2>1 DEF AskedInv, OneChange
  <2>3. CASE AskedAt(o, "undo snippet")
    <3>1. /\ asked'[o].at = "undo snippet" /\ asked'[o].from = asked[o].from /\ asked'[o].to = asked[o].to
          /\ \A p \in Operators : p # o => asked'[p] = asked[p]
      BY <1>16, <2>1, <2>3, AskedMoves, <2>0 DEF UndoStore, ChangePlaces
    <3>2. ~halfDone' /\ SnippetFollows(o) /\ ((\A p \in Operators : ~Changes(p)) => snippet = platform)
            => SnippetFollows(o)' /\ (Changes(o)' \/ snippet' = platform')
      BY <1>16, <2>1, <2>2, <2>3, <3>1 DEF UndoStore, SnippetFollows, Changes, ChangePlaces, certVars, UpdatePlatformDomain, Refused, Movable, ReplaceManagedConfig
    <3>3. halfDone => halfDone'
      BY <1>16 DEF UndoStore
    <3>. QED BY <2>1, <2>2, <3>1, <3>2, <3>3, SnippetStep
  <2>. QED BY <1>16, <2>3 DEF UndoStore, ReplaceManagedConfig
<1>17. ASSUME NEW o \in Operators, UndoSnippet(o) PROVE SnippetInv'
  <2>1. ~Records(o) /\ Changes(o)
    BY <1>17 DEF UndoSnippet, Records, Changes, ChangePlaces
  <2>2. \A p \in Operators : p # o => ~Changes(p)
    BY <2>1 DEF AskedInv, OneChange
  <2>3. CASE AskedAt(o, "undo routes")
    <3>1. /\ asked'[o].at = "undo routes" /\ asked'[o].from = asked[o].from /\ asked'[o].to = asked[o].to
          /\ \A p \in Operators : p # o => asked'[p] = asked[p]
      BY <1>17, <2>1, <2>3, AskedMoves DEF UndoSnippet, ChangePlaces
    <3>2. ~halfDone' /\ SnippetFollows(o) /\ ((\A p \in Operators : ~Changes(p)) => snippet = platform)
            => SnippetFollows(o)' /\ (Changes(o)' \/ snippet' = platform')
      BY <1>17, <2>1, <2>2, <2>3, <3>1 DEF UndoSnippet, SnippetFollows, Changes, ChangePlaces, certVars, UpdatePlatformDomain, Refused, Movable, ReplaceManagedConfig
    <3>3. halfDone => halfDone'
      BY <1>17 DEF UndoSnippet
    <3>. QED BY <2>1, <2>2, <3>1, <3>2, <3>3, SnippetStep
  <2>. QED BY <1>17, <2>3 DEF UndoSnippet, ReplaceManagedConfig
<1>18. ASSUME NEW o \in Operators, UndoRoutes(o) PROVE SnippetInv'
  <2>1. ~Records(o) /\ Changes(o)
    BY <1>18 DEF UndoRoutes, Records, Changes, ChangePlaces
  <2>2. \A p \in Operators : p # o => ~Changes(p)
    BY <2>1 DEF AskedInv, OneChange
  <2>3. CASE Answered(o)
    <3>1. asked'[o].at = "idle" /\ \A p \in Operators : p # o => asked'[p] = asked[p]
      BY <1>18, <2>3, AskedEnds DEF UndoRoutes
    <3>2. ~halfDone' /\ SnippetFollows(o) /\ ((\A p \in Operators : ~Changes(p)) => snippet = platform)
            => SnippetFollows(o)' /\ (Changes(o)' \/ snippet' = platform')
      BY <1>18, <2>1, <2>2, <2>3, <3>1 DEF UndoRoutes, SnippetFollows, Changes, ChangePlaces, certVars, UpdatePlatformDomain, Refused, Movable, ReplaceManagedConfig
    <3>3. halfDone => halfDone'
      BY <1>18 DEF UndoRoutes
    <3>. QED BY <2>1, <2>2, <3>1, <3>2, <3>3, SnippetStep
  <2>. QED BY <1>18, <2>3 DEF UndoRoutes, ReplaceManagedConfig
<1>19. CASE UNCHANGED domainState
  BY <1>19 DEF domainState, SnippetInv, SnippetFollows, Records, Changes, certVars
<1>. QED BY <1>1, <1>2, <1>3, <1>4, <1>5, <1>6, <1>7, <1>8, <1>9, <1>10, <1>11, <1>12, <1>13, <1>14, <1>15, <1>16, <1>17, <1>18, <1>19 DEF DomainNext

LEMMA DomainKept == DomainInv /\ [DomainNext]_domainState => DomainInv'
  BY TypesKept, AskedKept, NamesKept, SnippetKept DEF DomainInv

\* The inductive invariant of the platform domain.
THEOREM DomainInvariant == DomainSpec => []DomainInv
<1>1. DomainInit => DomainInv BY DomainBegins
<1>2. DomainInv /\ [DomainNext]_domainVars => DomainInv'
  BY DomainKept DEF domainVars
<1>. QED BY <1>1, <1>2, PTL DEF DomainSpec

\* Over renames, rollbacks and process ends every managed domain stays under
\* the platform domain, but for one whose zone was read before a rename and
\* after requests that ended half way (domains_v2.go:210-265, onboarding.go:60-124).
THEOREM SharesFollow == DomainSpec => []ShareFollowsPlatform
<1>1. DomainInv => ShareFollowsPlatform BY DEF DomainInv
<1>. QED BY <1>1, DomainInvariant, PTL

\* The status of a certificate is that of the name the row has, until a poll
\* that had read the row before it was renamed (cert_poll.go:66-90).
THEOREM StatusFollows == DomainSpec => []StatusIsOfTheName
<1>1. DomainInv => StatusIsOfTheName BY DEF DomainInv
<1>. QED BY <1>1, DomainInvariant, PTL

\* Once no request is on its way the snippet names the domain of the store,
\* unless one ended half way (api_settings.go:334-377).
THEOREM SnippetFollowsStore == DomainSpec => []SnippetServesPlatform
<1>1. DomainInv => SnippetServesPlatform
  BY DEF DomainInv, SnippetInv, SnippetServesPlatform, Records, Changes, ChangePlaces, AskedInv, AskedType
<1>. QED BY <1>1, DomainInvariant, PTL
-----------------------------------------------------------------------------

\* The names in the snippet and in the certificates.
NamesInv == snippet \in Zones \cup {None} /\ certs \subseteq Shares \X Zones

LEMMA NamesInvStep == RowTypes /\ AskedInv /\ NamesInv /\ [DomainNext]_domainState => NamesInv'
<1> SUFFICES ASSUME RowTypes, AskedInv, NamesInv, [DomainNext]_domainState PROVE NamesInv'
  OBVIOUS
<1>1. \A o \in Operators : asked[o].from \in Zones \cup {None} /\ asked[o].to \in Zones \cup {None}
  BY DEF AskedInv, AskedType
<1>2. ASSUME NEW o \in Operators, UNCHANGED certs,
             \/ ReplaceManagedConfig(asked[o].to) \/ ReplaceManagedConfig(asked[o].from) \/ UNCHANGED snippet
      PROVE  NamesInv'
  BY <1>1, <1>2 DEF NamesInv, ReplaceManagedConfig
<1>3. ASSUME NEW o \in Operators,
             \/ \E to \in Zones : BeginOnboarding(o, to) \/ BeginDomainChange(o, to)
             \/ CompleteOnboarding(o) \/ LockDomain(o) \/ StoreDomain(o) \/ SyncRoutes(o) \/ UndoStore(o) \/ UndoRoutes(o)
      PROVE  NamesInv'
  BY <1>3 DEF NamesInv, BeginOnboarding, BeginDomainChange, CompleteOnboarding, LockDomain, StoreDomain, SyncRoutes,
       UndoStore, UndoRoutes, certVars
<1>4. ASSUME NEW o \in Operators, OnboardSnippet(o) \/ SwitchSnippet(o) \/ UndoSnippet(o)
      PROVE  NamesInv'
  BY <1>2, <1>4 DEF OnboardSnippet, SwitchSnippet, UndoSnippet, certVars
<1>5. ASSUME NEW s \in Shares, Issue(s)
      PROVE  NamesInv'
  BY <1>5 DEF Issue, NamesInv, RowTypes
<1>6. ASSUME NEW s \in Shares, ReadPlatformDomain(s) \/ InsertPlatformDomain(s) \/ ObserveCertificate(s)
      PROVE  NamesInv'
  BY <1>6 DEF ReadPlatformDomain, InsertPlatformDomain, ObserveCertificate, NamesInv, certVars
<1>7. CASE RegisterGitHubApp \/ DomainCrash \/ ListAllDomains \/ UNCHANGED domainState
  BY <1>7 DEF RegisterGitHubApp, DomainCrash, ListAllDomains, NamesInv, certVars, domainState
<1> QED
  BY <1>3, <1>4, <1>5, <1>6, <1>7 DEF DomainNext

LEMMA DomainTyped == RowTypes /\ NamesInv => DomainTypeOK
  BY DEF RowTypes, NamesInv, DomainTypeOK

-----------------------------------------------------------------------------
(***************************************************************************)
(* The models side by side.                                                *)
(***************************************************************************)

PlatformInv ==
  /\ RotationInv /\ PasswordInv /\ ClaimInv /\ PlaneInv /\ CatalogInv /\ LogInv /\ HostInv
  /\ DomainInv /\ NamesInv

LEMMA PlatformBegins == Init => PlatformInv
<1> SUFFICES ASSUME Init PROVE PlatformInv
  OBVIOUS
<1>1. RotationInit /\ PlaneInit /\ CatalogInit /\ LogsInit /\ HostInit /\ DomainInit
  BY DEF Init
<1>2. NamesInv
  BY <1>1 DEF DomainInit, NamesInv
<1> QED
  BY <1>1, <1>2, RotationBegins, ClaimsBegin, PlaneBegins, CatalogBegins, LogsBegin, HostBegins, DomainBegins
     DEF PlatformInv, PlaneInv

LEMMA PlatformKept == PlatformInv /\ [Next]_allVars => PlatformInv'
<1> SUFFICES ASSUME PlatformInv, [Next]_allVars PROVE PlatformInv'
  OBVIOUS
<1>1. [RotationNext]_rotationState
  BY DEF Next, Rotation, Plane, Catalog, Logs, Host, Domain, allVars
<1>2. [PlaneNext]_planeState
  BY DEF Next, Rotation, Plane, Catalog, Logs, Host, Domain, allVars
<1>3. [CatalogNext]_catalogState
  BY DEF Next, Rotation, Plane, Catalog, Logs, Host, Domain, allVars
<1>4. [LogsNext]_logState
  BY DEF Next, Rotation, Plane, Catalog, Logs, Host, Domain, allVars
<1>5. [HostNext]_hostState
  BY DEF Next, Rotation, Plane, Catalog, Logs, Host, Domain, allVars
<1>6. [DomainNext]_domainState
  BY DEF Next, Rotation, Plane, Catalog, Logs, Host, Domain, allVars
<1>7. RotationInv' /\ PasswordInv' /\ ClaimInv'
  BY <1>1, RotationKeepsInv, PasswordInvStep, ClaimInvStep DEF PlatformInv, RotationInv
<1>8. DomainInv' /\ NamesInv'
  BY <1>6, DomainKept, NamesInvStep DEF PlatformInv, DomainInv
<1> QED
  BY <1>2, <1>3, <1>4, <1>5, <1>7, <1>8, PlaneKept, CatalogKept, LogsKept, HostKept DEF PlatformInv

\* The rows of every model keep their shape and their keys, side by side.
THEOREM PlatformTyped == Spec => []PlatformTypeOK
<1>1. PlatformInv => PlatformTypeOK
  <2> SUFFICES ASSUME PlatformInv PROVE PlatformTypeOK
    OBVIOUS
  <2>1. HostTypeOK
    BY DEF PlatformInv, HostInv, HostTypes, HostTypeOK, BuildType, SweepType
  <2>2. DomainTypeOK
    BY DomainTyped DEF PlatformInv, DomainInv
  <2> QED
    BY <2>1, <2>2, RotationTyped, PlaneMeans, CatalogMeans, LogsMean DEF PlatformInv, PlatformTypeOK
<1> QED
  BY <1>1, PlatformBegins, PlatformKept, PTL DEF Spec

\* What every model promises holds side by side: passwords the engine accepts,
\* schemas a server understands, snapshots, deletions, logs, ports, images and
\* names, whatever the others do.
THEOREM PlatformSafe ==
  Spec => [](/\ EngineAcceptsStored /\ ServesWhatItUnderstands /\ SnapshotIsUsable /\ DeletedRunsNothing
             /\ LogIsExact /\ PortsAreDistinct /\ ImageIsKept
             /\ ShareFollowsPlatform /\ StatusIsOfTheName /\ SnippetServesPlatform)
<1>1. RotationInv => EngineAcceptsStored
  BY DEF RotationInv, BothStored, EngineAcceptsStored
<1>2. HostInv => PortsAreDistinct /\ ImageIsKept
  BY DEF HostInv, HeldApart, Held, Owns, PortsAreDistinct, ImageInv, Wanted, ImageIsKept
<1>3. DomainInv => ShareFollowsPlatform /\ StatusIsOfTheName /\ SnippetServesPlatform
  BY DEF DomainInv, SnippetInv, SnippetServesPlatform, Records, Changes, ChangePlaces, AskedInv, AskedType
<1>4. PlatformInv => /\ EngineAcceptsStored /\ ServesWhatItUnderstands /\ SnapshotIsUsable /\ DeletedRunsNothing
                     /\ LogIsExact /\ PortsAreDistinct /\ ImageIsKept
                     /\ ShareFollowsPlatform /\ StatusIsOfTheName /\ SnippetServesPlatform
  BY <1>1, <1>2, <1>3, PlaneMeans, CatalogMeans, LogsMean DEF PlatformInv
<1> QED
  BY <1>4, PlatformBegins, PlatformKept, PTL DEF Spec
=============================================================================
