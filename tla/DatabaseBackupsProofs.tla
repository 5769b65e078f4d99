------------------------ MODULE DatabaseBackupsProofs ------------------------
(***************************************************************************)
(* Theorems about DatabaseBackups, for every set of backups, restores and  *)
(* destinations, every number of workers, attempts, faults and requests.   *)
(*                                                                         *)
(* No property of the backups is inductive alone.  That a success is in    *)
(* place needs what its worker holds from the moment it opened the         *)
(* destination (HoldsWhatItOpened, Uploaded), that nobody else moves the   *)
(* row meanwhile (RowIsMine) and that a deletion past its mark works on no *)
(* success (RemoverInv).  That a half-written database can be put back     *)
(* needs that nobody writes the row of the safety backup while the restore *)
(* overwrites (OneAtATime: both have the same lock key), that after the    *)
(* restore only a safety backup that the line put behind it is run again   *)
(* (SafetyEndsFirst), which then fails and stays failed, and that the rows *)
(* a job names are never deleted (ReferencedKept).                         *)
(***************************************************************************)
EXTENDS DatabaseBackups, FiniteSetTheorems, SequenceTheorems, TLAPS

-----------------------------------------------------------------------------
(***************************************************************************)
(* What a row and a worker may be.                                         *)
(***************************************************************************)
Buckets == 1..2

DestinationRows == [row : {"none", "present", "deleted"}, bucket : Buckets]

Policies == [destination : Destinations \cup {None}, enabled : BOOLEAN]

Contents == {"whole", "mixed"}

BackupRows ==
  [status : BackupStatuses, trigger : {None, "manual", "scheduled", "safety"},
   destination : Destinations \cup {None}, keyed : BOOLEAN, expired : BOOLEAN, content : Contents \cup {None}]

JobStatuses == {"absent", "queued", "running", "success", "failed"}

JobRows ==
  [status : JobStatuses, source : Backups \cup {None}, safety : Backups \cup {None},
   mode : {None, "replace_current", "new_service"}]

Ended == {"success", "failed", "cancelled"}

OperationRows ==
  [status : {"absent", "queued", "running"} \cup Ended, attempt : 0..MaxAttempts, deferred : BOOLEAN,
   verdict : {None, "success", "failed", "refused", "rolled_back", "rollback_failed"}]

BackupPlaces ==
  {"idle", "reserve", "mark", "open", "dump", "verify", "complete", "discard", "abandon", "report", "fail", "end"}

RestorePlaces ==
  {"idle", "reserve", "check", "stop", "load", "loading", "rollback", "rolling", "succeed", "restart",
   "report", "fail", "end"}

RemoverRows ==
  [left : SUBSET Backups, backup : Backups \cup {None}, step : {"idle", "mark", "erase", "forget"}]

RequestRows ==
  [source : Backups \cup {None}, safety : Backups \cup {None}, mode : {None, "replace_current", "new_service"},
   step : {"idle", "check", "insert"}]

RowTypes ==
  /\ destination \in [Destinations -> DestinationRows]
  /\ policy \in Policies /\ (policy.enabled => policy.destination \in Destinations)
  /\ due \in BOOLEAN /\ ticks \in Nat
  /\ backup \in [Backups -> BackupRows] /\ job \in [Restores -> JobRows]
  /\ stored \subseteq Destinations \X Buckets \X Backups /\ unread \subseteq Backups

WorkTypes ==
  /\ line \in Seq(Operations) /\ settled \in 0..Len(line) /\ operation \in [Operations -> OperationRows]
  /\ at \in [Operations -> BackupPlaces \cup RestorePlaces]
  /\ held = [o \in Operations |-> held[o]]

RestTypes ==
  /\ contents \in Contents /\ consumers \in {"running", "stopped"}
  /\ database \in {"healthy", "unhealthy", "deleted"}
  /\ copy \in {"absent", "provisioning", "healthy", "failed"}
  /\ scheduler \in Destinations \cup {"idle", "advance"}
  /\ remover \in [Removers -> RemoverRows]
  /\ dropping \in Destinations \cup {None} /\ restorer \in RequestRows

BackupsTypes == RowTypes /\ WorkTypes /\ RestTypes

(***************************************************************************)
(* The queue: a worker runs what its row says, within its attempts.        *)
(***************************************************************************)
WorkerRuns(o) ==
  /\ (at[o] # "idle") <=> (operation[o].status = "running")
  /\ operation[o].status = "running" => operation[o].attempt >= 1
  /\ operation[o].status = "queued" => operation[o].attempt < MaxAttempts
  /\ o \in Backups => at[o] \in BackupPlaces /\ ~operation[o].deferred
  /\ o \in Restores => at[o] \in RestorePlaces

\* What was never queued has no rows, and what was queued keeps its operation.
RowsFollowLine(o) ==
  IF o \in ToSet(line)
  THEN operation[o].status # "absent" /\ (o \in Restores => job[o] # NoJob)
  ELSE /\ operation[o].status = "absent" /\ operation[o].attempt = 0
       /\ o \in Backups => backup[o] = NoBackup
       /\ o \in Restores => job[o] = NoJob

Behind(s, r) == \E i, j \in DOMAIN line : i < j /\ line[i] = s /\ line[j] = r

QueuedOnce == \A i, j \in DOMAIN line : line[i] = line[j] => i = j

\* A restore job names its source, and its safety backup when it overwrites
\* the database; both were queued before it, the safety backup perhaps in the
\* same second, and then it may stand on either side of it.
JobNames(r) ==
  job[r] # NoJob =>
    /\ job[r].status # "absent"
    /\ job[r].source \in Backups \cap ToSet(line)
    /\ job[r].mode \in {"replace_current", "new_service"}
    /\ (job[r].mode = "replace_current") <=> (job[r].safety # None)
    /\ job[r].safety # None => Behind(job[r].safety, r) \/ Behind(r, job[r].safety)

RequestNames ==
  restorer.step # "idle" =>
    /\ Unused(Restores) # {}
    /\ restorer.source \in Backups \cap ToSet(line)
    /\ restorer.mode \in {"replace_current", "new_service"}
    /\ (restorer.mode = "replace_current") <=> (restorer.safety # None)
    /\ restorer.safety # None => restorer.safety \in ToSet(line)

\* One worker for each lock key.
OneAtATime == \A o, p \in Operations : at[o] # "idle" /\ at[p] # "idle" /\ SameKey(o, p) => o = p

QueueInv ==
  /\ \A o \in Operations : WorkerRuns(o) /\ RowsFollowLine(o)
  /\ QueuedOnce /\ RequestNames /\ OneAtATime
  /\ \A r \in Restores : JobNames(r)

(***************************************************************************)
(* The backups: what the worker of one, the deletions of it and its row    *)
(* know of its object.                                                     *)
(***************************************************************************)
Opened == {"dump", "verify", "complete", "discard", "abandon"}

\* The destination the worker opened: the row may have lost it since, and its
\* bucket may have been changed.
HoldsWhatItOpened(b) ==
  at[b] \in Opened =>
    /\ held[b] \in Destinations \X Buckets
    /\ backup[b].destination \in {held[b][1], None}
    /\ held[b][2] <= destination[held[b][1]].bucket

\* Nobody else moves the row while the worker makes the object; a worker that
\* completed it and could not read it back is about to take the object away.
Given(b) == at[b] = "abandon" /\ b \in unread

RowIsMine(b) == at[b] \in Opened \cup {"open"} => backup[b].status = "running" \/ Given(b)

Uploaded(b) ==
  /\ at[b] \in {"verify", "complete"} => backup[b].content \in Contents
  /\ at[b] = "complete" => Object(b) \in stored

Finished(b) ==
  backup[b].status \in {"success", "deleting"} => backup[b].content \in Contents /\ backup[b].keyed

InPlaceIfSuccess(b) == backup[b].status = "success" /\ ~backup[b].expired => InPlace(b)

BackupInv ==
  \A b \in Backups :
    HoldsWhatItOpened(b) /\ RowIsMine(b) /\ Uploaded(b) /\ Finished(b) /\ InPlaceIfSuccess(b)

Removable == {"success", "deleting", "failed", "cancelled", "absent"}

\* A deletion works on a row no worker will complete, and past the mark on one
\* that is no success, or an expired one.
RemoverInv ==
  \A x \in Removers :
    /\ \A b \in remover[x].left :
         /\ b \in ToSet(line) /\ backup[b].status \in Removable
         /\ backup[b].status = "success" => x = "retention" /\ backup[b].expired
    /\ remover[x].step # "idle" =>
         /\ remover[x].backup \in Backups \cap ToSet(line)
         /\ backup[remover[x].backup].status \in Removable
         /\ x = "retention" \/ remover[x].step = "mark" \/ backup[remover[x].backup].status # "success"
         /\ x = "retention" /\ backup[remover[x].backup].status = "success" => backup[remover[x].backup].expired

(***************************************************************************)
(* The restores.                                                           *)
(***************************************************************************)
\* No worker will touch the row of a safety backup that has ended; one that
\* stands behind the restore may still get a turn.
Overtakes(r) == job[r].safety # None /\ Behind(r, job[r].safety)

SafetyOver(r) == job[r].safety # None => operation[job[r].safety].status \in Ended

SafetyPast(r) == SafetyOver(r) \/ Overtakes(r)

SafetyKept(r) ==
  job[r].safety # None =>
    backup[job[r].safety].status \in {"success", "deleting"} /\ backup[job[r].safety].keyed

Overwriting == {"stop", "load", "loading", "rollback", "rolling"}

RestoreInv ==
  \A r \in Restores :
    /\ at[r] # "idle" => job[r] # NoJob /\ SafetyPast(r)
    /\ at[r] \in Overwriting => SafetyKept(r) /\ backup[job[r].source].content \in Contents
    /\ at[r] \in {"stop", "rollback", "rolling"} => ~OnCopy(r)

MixedInv ==
  contents = "mixed" =>
    \E r \in Restores :
      /\ job[r].safety # None
      /\ \/ SafetyPast(r) /\ SafetyKept(r)
         \/ Overtakes(r) /\ backup[job[r].safety].status = "failed"

BackupsInv == BackupsTypes /\ QueueInv /\ BackupInv /\ RemoverInv /\ RestoreInv /\ MixedInv

-----------------------------------------------------------------------------
(***************************************************************************)
(* The line.                                                               *)
(***************************************************************************)
Enters(o) == \E k \in 1..Len(line) + 1 : line' = InsertAt(line, k, o)

LEMMA InsertedAt ==
  ASSUME NEW S, NEW s \in Seq(S), NEW e \in S, NEW k \in 1..Len(s) + 1
  PROVE /\ InsertAt(s, k, e) \in Seq(S) /\ Len(InsertAt(s, k, e)) = Len(s) + 1
        /\ \A i \in 1..Len(s) + 1 :
             InsertAt(s, k, e)[i] = IF i < k THEN s[i] ELSE IF i = k THEN e ELSE s[i - 1]
<1>. DEFINE low == SubSeq(s, 1, k - 1)
            high == SubSeq(s, k, Len(s))
<1>1. Len(s) \in Nat /\ k \in Int /\ \A i \in 1..Len(s) : s[i] \in S
  OBVIOUS
<1>2. /\ low \in Seq(S) /\ Len(low) = k - 1
      /\ \A i \in 1..k - 1 : low[i] = s[i]
  <2>1. \A i \in 1..k - 1 : s[i] \in S
    BY <1>1
  <2>2. /\ low \in Seq(S) /\ Len(low) = IF 1 <= k - 1 THEN k - 1 - 1 + 1 ELSE 0
        /\ \A i \in 1..k - 1 - 1 + 1 : low[i] = s[1 + i - 1]
    BY <1>1, <2>1, SubSeqProperties
  <2>. QED
    BY <1>1, <2>2
<1>3. /\ high \in Seq(S) /\ Len(high) = Len(s) - k + 1
      /\ \A i \in 1..Len(s) - k + 1 : high[i] = s[k + i - 1]
  <2>1. \A i \in k..Len(s) : s[i] \in S
    BY <1>1
  <2>2. /\ high \in Seq(S) /\ Len(high) = IF k <= Len(s) THEN Len(s) - k + 1 ELSE 0
        /\ \A i \in 1..Len(s) - k + 1 : high[i] = s[k + i - 1]
    BY <1>1, <2>1, SubSeqProperties
  <2>. QED
    BY <1>1, <2>2
<1>. HIDE DEF low, high
<1>4. <<e>> \in Seq(S) /\ Len(<<e>>) = 1 /\ <<e>>[1] = e
  OBVIOUS
<1>5. /\ low \o <<e>> \in Seq(S) /\ Len(low \o <<e>>) = k
      /\ \A i \in 1..k : (low \o <<e>>)[i] = IF i <= k - 1 THEN low[i] ELSE <<e>>[i - (k - 1)]
  BY <1>1, <1>2, <1>4, ConcatProperties
<1>6. /\ (low \o <<e>>) \o high \in Seq(S) /\ Len((low \o <<e>>) \o high) = Len(s) + 1
      /\ \A i \in 1..Len(s) + 1 :
           ((low \o <<e>>) \o high)[i] = IF i <= k THEN (low \o <<e>>)[i] ELSE high[i - k]
  <2>. DEFINE front == low \o <<e>>
  <2>1. front \in Seq(S) /\ Len(front) = k
    BY <1>5
  <2>. HIDE DEF front
  <2>2. /\ front \o high \in Seq(S) /\ Len(front \o high) = Len(front) + Len(high)
        /\ \A i \in 1..Len(front) + Len(high) :
             (front \o high)[i] = IF i <= Len(front) THEN front[i] ELSE high[i - Len(front)]
    BY <1>3, <2>1, ConcatProperties
  <2>3. Len(front) + Len(high) = Len(s) + 1
    BY <1>1, <1>3, <2>1
  <2>4. /\ front \o high \in Seq(S) /\ Len(front \o high) = Len(s) + 1
        /\ \A i \in 1..Len(s) + 1 : (front \o high)[i] = IF i <= k THEN front[i] ELSE high[i - k]
    BY <2>1, <2>2, <2>3
  <2>. QED
    BY <2>4 DEF front
<1>7. InsertAt(s, k, e) = (low \o <<e>>) \o high
  BY DEF InsertAt, low, high
<1>8. ASSUME NEW i \in 1..Len(s) + 1
      PROVE ((low \o <<e>>) \o high)[i] = IF i < k THEN s[i] ELSE IF i = k THEN e ELSE s[i - 1]
  <2>1. CASE i < k
    BY <1>1, <1>2, <1>5, <1>6, <2>1
  <2>2. CASE i = k
    BY <1>1, <1>4, <1>5, <1>6, <2>2
  <2>3. CASE i > k
    <3>1. i - k \in 1..Len(s) - k + 1 /\ k + (i - k) - 1 = i - 1
      BY <1>1, <2>3
    <3>2. high[i - k] = s[i - 1]
      BY <1>3, <3>1
    <3>3. ~(i <= k) /\ ~(i < k) /\ i # k
      BY <1>1, <2>3
    <3>4. ((low \o <<e>>) \o high)[i] = high[i - k]
      BY <1>6, <3>3
    <3>. QED
      BY <3>2, <3>3, <3>4
  <2>4. i < k \/ i = k \/ i > k
    BY <1>1
  <2>. QED
    BY <2>1, <2>2, <2>3, <2>4
<1>. QED
  BY <1>6, <1>7, <1>8

LEMMA Inserted ==
  ASSUME BackupsTypes, NEW o \in Operations, Enters(o)
  PROVE /\ line' \in Seq(Operations) /\ Len(line') = Len(line) + 1 /\ line' # line
        /\ ToSet(line)' = ToSet(line) \cup {o}
        /\ QueuedOnce /\ o \notin ToSet(line) => QueuedOnce'
        /\ \A s, r \in Operations : Behind(s, r) => Behind(s, r)'
        /\ \A s \in ToSet(line) : Behind(s, o)' \/ Behind(o, s)'
<1>1. line \in Seq(Operations) /\ Len(line) \in Nat /\ DOMAIN line = 1..Len(line)
  BY DEF BackupsTypes, WorkTypes
<1>2. PICK k \in 1..Len(line) + 1 : line' = InsertAt(line, k, o)
  BY DEF Enters
<1>3. /\ line' \in Seq(Operations) /\ Len(line') = Len(line) + 1
      /\ \A i \in 1..Len(line) + 1 : line'[i] = IF i < k THEN line[i] ELSE IF i = k THEN o ELSE line[i - 1]
  <2>1. /\ InsertAt(line, k, o) \in Seq(Operations) /\ Len(InsertAt(line, k, o)) = Len(line) + 1
        /\ \A i \in 1..Len(line) + 1 :
             InsertAt(line, k, o)[i] = IF i < k THEN line[i] ELSE IF i = k THEN o ELSE line[i - 1]
    <3>1. line \in Seq(Operations)
      BY <1>1
    <3>. QED
      BY <3>1, InsertedAt
  <2>. QED
    BY <1>2, <2>1
<1>4. DOMAIN line' = 1..Len(line) + 1 /\ line'[k] = o
  BY <1>1, <1>3
<1>. DEFINE Seat(i) == IF i < k THEN i ELSE i + 1
<1>5. \A i \in 1..Len(line) : Seat(i) \in 1..Len(line) + 1 /\ Seat(i) # k /\ line'[Seat(i)] = line[i]
  BY <1>1, <1>3
<1>6. \A i \in 1..Len(line) + 1 : i # k => \E j \in 1..Len(line) : i = Seat(j)
  <2>1. ASSUME NEW i \in 1..Len(line) + 1, i # k PROVE \E j \in 1..Len(line) : i = Seat(j)
    <3>1. CASE i < k
      BY <1>1, <2>1, <3>1
    <3>2. CASE i > k
      <4>1. i - 1 \in 1..Len(line) /\ i = Seat(i - 1)
        BY <1>1, <2>1, <3>2
      <4>. QED
        BY <4>1
    <3>. QED
      BY <1>1, <2>1, <3>1, <3>2
  <2>. QED
    BY <2>1
<1>7. \A i, j \in 1..Len(line) : i < j => Seat(i) < Seat(j)
  BY <1>1
<1>. HIDE DEF Seat
<1>8. ToSet(line)' = ToSet(line) \cup {o}
  BY <1>1, <1>4, <1>5, <1>6, ZenonT(60) DEF ToSet
<1>9. QueuedOnce /\ o \notin ToSet(line) => QueuedOnce'
  <2>1. SUFFICES ASSUME QueuedOnce, o \notin ToSet(line), NEW i \in DOMAIN line', NEW j \in DOMAIN line',
                        line'[i] = line'[j]
                 PROVE i = j
    BY DEF QueuedOnce
  <2>2. \A n \in 1..Len(line) : line[n] # o
    BY <1>1, <2>1 DEF ToSet
  <2>3. CASE i = k \/ j = k
    BY <1>4, <1>5, <1>6, <2>1, <2>2, <2>3
  <2>4. CASE i # k /\ j # k
    <3>1. PICK m \in 1..Len(line) : i = Seat(m)
      BY <1>4, <1>6, <2>1, <2>4
    <3>2. PICK n \in 1..Len(line) : j = Seat(n)
      BY <1>4, <1>6, <2>1, <2>4
    <3>3. line[m] = line[n]
      BY <1>5, <2>1, <3>1, <3>2
    <3>4. m = n
      BY <1>1, <2>1, <3>3 DEF QueuedOnce
    <3>. QED
      BY <3>1, <3>2, <3>4
  <2>. QED
    BY <2>3, <2>4
<1>10. ASSUME NEW s \in Operations, NEW r \in Operations, Behind(s, r) PROVE Behind(s, r)'
  <2>1. PICK i, j \in 1..Len(line) : i < j /\ line[i] = s /\ line[j] = r
    BY <1>1, <1>10 DEF Behind
  <2>2. /\ Seat(i) \in DOMAIN line' /\ Seat(j) \in DOMAIN line' /\ Seat(i) < Seat(j)
        /\ line'[Seat(i)] = s /\ line'[Seat(j)] = r
    BY <1>4, <1>5, <1>7, <2>1
  <2>. QED
    BY <2>2 DEF Behind
<1>11. ASSUME NEW s \in ToSet(line) PROVE Behind(s, o)' \/ Behind(o, s)'
  <2>1. PICK i \in 1..Len(line) : line[i] = s
    BY <1>1 DEF ToSet
  <2>2. Seat(i) \in 1..Len(line) + 1 /\ Seat(i) # k /\ line'[Seat(i)] = s
    BY <1>5, <2>1
  <2>3. Seat(i) < k \/ k < Seat(i)
    BY <1>1, <2>2
  <2>. QED
    BY <1>4, <2>2, <2>3 DEF Behind
<1>12. line' # line
  BY <1>1, <1>3
<1>. QED
  BY <1>3, <1>8, <1>9, <1>10, <1>11, <1>12

\* Only one operation enters.
LEMMA OneEnters ==
  ASSUME BackupsTypes, NEW o \in Operations, NEW p \in Operations \ ToSet(line), Enters(o), Enters(p)
  PROVE o = p
<1>1. ToSet(line)' = ToSet(line) \cup {o} /\ ToSet(line)' = ToSet(line) \cup {p}
  BY Inserted
<1>. QED
  BY <1>1

LEMMA QueuedEnters ==
  ASSUME BackupsTypes, NEW o \in Operations, Queued(o)
  PROVE /\ Enters(o) /\ line' \in Seq(Operations) /\ settled' \in 0..Len(line')
        /\ operation' = [operation EXCEPT ![o].status = "queued"]
<1>1. settled' \in {settled, Len(line)} /\ settled \in 0..Len(line) /\ Len(line) \in Nat
  BY DEF Queued, BackupsTypes, WorkTypes
<1>2. Turns(settled') \subseteq 1..Len(line) + 1
  BY <1>1 DEF Turns
<1>3. Enters(o)
  BY <1>2 DEF Queued, Enters
<1>4. line' \in Seq(Operations) /\ Len(line') = Len(line) + 1
  BY <1>3, Inserted
<1>5. operation' = [operation EXCEPT ![o].status = "queued"]
  BY DEF Queued
<1>. QED
  BY <1>1, <1>3, <1>4, <1>5

-----------------------------------------------------------------------------
(***************************************************************************)
(* The variables keep their types.                                         *)
(***************************************************************************)
LEMMA BackupRowEdits ==
  ASSUME NEW r \in BackupRows
  PROVE /\ \A s \in BackupStatuses : [r EXCEPT !.status = s] \in BackupRows
        /\ \A s \in BackupStatuses, k \in BOOLEAN : [r EXCEPT !.status = s, !.keyed = k] \in BackupRows
        /\ [r EXCEPT !.destination = None] \in BackupRows
        /\ [r EXCEPT !.expired = TRUE] \in BackupRows
        /\ \A c \in Contents : [r EXCEPT !.content = c] \in BackupRows
  BY DEF BackupRows

LEMMA BackupsEdits ==
  ASSUME BackupsTypes, NEW b \in Backups
  PROVE /\ \A s \in BackupStatuses : [backup EXCEPT ![b].status = s] \in [Backups -> BackupRows]
        /\ \A s \in BackupStatuses, k \in BOOLEAN :
             [backup EXCEPT ![b].status = s, ![b].keyed = k] \in [Backups -> BackupRows]
        /\ [backup EXCEPT ![b].expired = TRUE] \in [Backups -> BackupRows]
        /\ \A c \in Contents : [backup EXCEPT ![b].content = c] \in [Backups -> BackupRows]
<1>1. backup \in [Backups -> BackupRows] /\ backup[b] \in BackupRows
  BY DEF BackupsTypes, RowTypes
<1>2. ASSUME NEW s \in BackupStatuses PROVE [backup EXCEPT ![b].status = s] \in [Backups -> BackupRows]
  <2>1. [backup[b] EXCEPT !.status = s] \in BackupRows
    BY <1>1, BackupRowEdits
  <2>. QED
    BY <1>1, <2>1
<1>3. ASSUME NEW s \in BackupStatuses, NEW k \in BOOLEAN
      PROVE [backup EXCEPT ![b].status = s, ![b].keyed = k] \in [Backups -> BackupRows]
  <2>1. [backup[b] EXCEPT !.status = s, !.keyed = k] \in BackupRows
    BY <1>1, BackupRowEdits
  <2>. QED
    BY <1>1, <2>1
<1>4. [backup EXCEPT ![b].expired = TRUE] \in [Backups -> BackupRows]
  <2>1. [backup[b] EXCEPT !.expired = TRUE] \in BackupRows
    BY <1>1, BackupRowEdits
  <2>. QED
    BY <1>1, <2>1
<1>5. ASSUME NEW c \in Contents PROVE [backup EXCEPT ![b].content = c] \in [Backups -> BackupRows]
  <2>1. [backup[b] EXCEPT !.content = c] \in BackupRows
    BY <1>1, BackupRowEdits
  <2>. QED
    BY <1>1, <2>1
<1>. QED
  BY <1>2, <1>3, <1>4, <1>5

LEMMA OperationRowEdits ==
  ASSUME NEW w \in OperationRows
  PROVE /\ \A s \in {"absent", "queued", "running"} \cup Ended : [w EXCEPT !.status = s] \in OperationRows
        /\ \A e \in BOOLEAN : [w EXCEPT !.deferred = e] \in OperationRows
        /\ \A v \in {None, "success", "failed", "refused", "rolled_back", "rollback_failed"} :
             [w EXCEPT !.verdict = v] \in OperationRows
        /\ \A s \in {"running", "queued"}, n \in 0..MaxAttempts :
             [w EXCEPT !.status = s, !.attempt = n] \in OperationRows
  BY DEF OperationRows

LEMMA NewBackupRow ==
  /\ NoBackup \in BackupRows
  /\ \A d \in Destinations, t \in {"manual", "scheduled", "safety"} :
       [NoBackup EXCEPT !.status = "queued", !.trigger = t, !.destination = d] \in BackupRows
  BY DEF NoBackup, BackupRows, BackupStatuses, Contents

LEMMA QueueBackupTypes ==
  ASSUME BackupsTypes, NEW d \in Destinations \cup {None}, NEW t \in {"manual", "scheduled", "safety"},
         QueueDatabaseBackup(d, t)
  PROVE /\ backup' \in [Backups -> BackupRows] /\ line' \in Seq(Operations) /\ settled' \in 0..Len(line')
        /\ operation' \in [Operations -> OperationRows]
<1>. DEFINE b == CHOOSE x \in Unused(Backups) : TRUE
<1>1. b \in Unused(Backups)
  BY DEF QueueDatabaseBackup
<1>2. b \in Backups /\ b \in Operations
  BY <1>1 DEF Unused, Operations
<1>3. d \in Destinations
  BY DEF QueueDatabaseBackup
<1>4. /\ backup' = [backup EXCEPT ![b] = [NoBackup EXCEPT !.status = "queued", !.trigger = t, !.destination = d]]
      /\ Queued(b)
  BY DEF QueueDatabaseBackup
<1>. HIDE DEF b
<1>5. backup' \in [Backups -> BackupRows]
  BY <1>2, <1>3, <1>4, NewBackupRow DEF BackupsTypes, RowTypes
<1>6. /\ line' \in Seq(Operations) /\ settled' \in 0..Len(line')
      /\ operation' = [operation EXCEPT ![b].status = "queued"]
  BY <1>2, <1>4, QueuedEnters
<1>7. operation' \in [Operations -> OperationRows]
  BY <1>2, <1>6, OperationRowEdits DEF BackupsTypes, WorkTypes
<1>. QED
  BY <1>5, <1>6, <1>7

LEMMA RecoveredRows ==
  ASSUME BackupsTypes
  PROVE /\ \A b \in Backups : Recovered(b, backup[b]) \in BackupRows
        /\ \A r \in Restores : Recovered(r, job[r]) \in JobRows
<1>1. ASSUME NEW b \in Backups PROVE Recovered(b, backup[b]) \in BackupRows
  <2>1. backup[b] \in BackupRows
    BY DEF BackupsTypes, RowTypes
  <2>. QED
    BY <2>1, BackupRowEdits DEF Recovered, BackupStatuses
<1>2. ASSUME NEW r \in Restores PROVE Recovered(r, job[r]) \in JobRows
  BY DEF BackupsTypes, RowTypes, Recovered, JobRows, JobStatuses
<1>. QED
  BY <1>1, <1>2

LEMMA RowTypesKept ==
  ASSUME BackupsInv, [BackupsNext]_backupsVars
  PROVE RowTypes'
<1>. USE BackupsAssumption DEF BackupsInv, BackupsTypes, lineVars, completeRest, Completed, CompletedUnread
<1>1. CASE UNCHANGED backupsVars
  BY <1>1 DEF backupsVars, policyVars, rowVars, RowTypes
<1>2. ASSUME NEW d \in Destinations,
             CreateBackupDestination(d) \/ UpdateBackupDestination(d) \/ CountRetained(d)
      PROVE RowTypes'
  BY <1>2 DEF RowTypes, CreateBackupDestination, UpdateBackupDestination, CountRetained, InsertDestination,
     MoveDestination, destinationRest, policyVars, rowVars, DestinationRows, Buckets
<1>3. ASSUME NEW d \in Destinations, NEW e \in BOOLEAN, SaveBackupPolicy(d, e) PROVE RowTypes'
  BY <1>3 DEF RowTypes, SaveBackupPolicy, UpsertDatabaseBackupPolicy, rowVars, Policies
<1>4. CASE ManualBackup
  <2>1. policy.destination \in Destinations \cup {None}
    BY DEF RowTypes, Policies
  <2>2. backup' \in [Backups -> BackupRows]
    BY <1>4, <2>1, QueueBackupTypes DEF ManualBackup
  <2>. QED
    BY <1>4, <2>2 DEF RowTypes, ManualBackup, policyVars
<1>5. ASSUME NEW b \in Backups, QueueSafetyBackup(b) PROVE RowTypes'
  <2>1. policy.destination \in Destinations \cup {None}
    BY DEF RowTypes, Policies
  <2>2. backup' \in [Backups -> BackupRows]
    BY <1>5, <2>1, QueueBackupTypes DEF QueueSafetyBackup
  <2>. QED
    BY <1>5, <2>2 DEF RowTypes, QueueSafetyBackup, restoreRest, policyVars
<1>6. CASE QueueDueDatabaseBackup
  <2>1. backup' \in [Backups -> BackupRows]
    <3>1. CASE QueueDatabaseBackup(scheduler, "scheduled") /\ scheduler \in Destinations
      BY <3>1, QueueBackupTypes
    <3>. QED
      BY <1>6, <3>1 DEF QueueDueDatabaseBackup, RowTypes
  <2>. QED
    BY <1>6, <2>1 DEF RowTypes, QueueDueDatabaseBackup, scheduleRest, policyVars
<1>7. CASE BecomeDue \/ ListDueDatabaseBackupPolicies \/ AdvanceDatabaseBackupPolicySchedule
  <2>1. CASE BecomeDue
    BY <2>1 DEF RowTypes, BecomeDue, rowVars
  <2>2. CASE ListDueDatabaseBackupPolicies
    BY <2>2 DEF RowTypes, ListDueDatabaseBackupPolicies, scheduleRest
  <2>3. CASE AdvanceDatabaseBackupPolicySchedule
    BY <2>3 DEF RowTypes, AdvanceDatabaseBackupPolicySchedule, scheduleRest
  <2>. QED
    BY <1>7, <2>1, <2>2, <2>3
<1>8. ASSUME NEW b \in Backups, Expire(b) PROVE RowTypes'
  <2>1. backup' \in [Backups -> BackupRows]
    BY <1>8, BackupsEdits DEF Expire
  <2>2. ticks' \in Nat
    BY <1>8 DEF Expire, RowTypes
  <2>. QED
    BY <1>8, <2>1, <2>2 DEF RowTypes, Expire
<1>9. CASE DeleteBackupDestination
  <2>1. backup' \in [Backups -> BackupRows]
    <3>1. \A b \in Backups : backup[b] \in BackupRows /\ [backup[b] EXCEPT !.destination = None] \in BackupRows
      BY BackupRowEdits DEF RowTypes
    <3>. QED
      BY <1>9, <3>1 DEF DeleteBackupDestination, RowTypes
  <2>2. destination' \in [Destinations -> DestinationRows]
    BY <1>9 DEF DeleteBackupDestination, RowTypes, RestTypes, DestinationRows
  <2>. QED
    BY <1>9, <2>1, <2>2 DEF DeleteBackupDestination, RowTypes, policyVars
<1>10. ASSUME NEW b \in Backups, PrepareDatabaseBackupDeletion(b) \/ PrepareCopy(b) PROVE RowTypes'
  BY <1>10 DEF RowTypes, PrepareDatabaseBackupDeletion, PrepareCopy, removeRest, restoreRest, policyVars, rowVars
<1>11. CASE DeleteInstance \/ CopyProvisioned \/ DatabaseSickens \/ DatabaseRecovers
  BY <1>11 DEF RowTypes, DeleteInstance, CopyProvisioned, DatabaseSickens, DatabaseRecovers,
     outsideRest, policyVars, rowVars
<1>12. CASE CheckRestorable
  BY <1>12 DEF RowTypes, CheckRestorable, restoreRest, policyVars, rowVars
<1>13. CASE QueueDatabaseRestore
  <2>. DEFINE r == CHOOSE x \in Unused(Restores) : TRUE
              n == [status |-> "queued", source |-> restorer.source, safety |-> restorer.safety, mode |-> restorer.mode]
  <2>1. n \in JobRows
    BY DEF RestTypes, RequestRows, JobRows, JobStatuses
  <2>2. job' = job \/ job' = [job EXCEPT ![r] = n]
    BY <1>13 DEF QueueDatabaseRestore
  <2>. HIDE DEF r, n
  <2>3. job' \in [Restores -> JobRows]
    BY <2>1, <2>2 DEF RowTypes
  <2>. QED
    BY <1>13, <2>3 DEF RowTypes, QueueDatabaseRestore, restoreRest, policyVars
<1>14. ASSUME NEW x \in Removers, RemoverStep(x) PROVE RowTypes'
  <2>1. CASE x = "retention" /\ (ListExpiredDatabaseBackups \/ NextExpired)
    BY <2>1 DEF RowTypes, ListExpiredDatabaseBackups, NextExpired, removeRest, policyVars
  <2>2. CASE MarkDatabaseBackupDeleting(x)
    <3>1. backup' \in [Backups -> BackupRows]
      <4>1. CASE backup' = backup
        BY <4>1 DEF RowTypes
      <4>2. CASE Marked(remover[x].backup)
        <5>. DEFINE b == remover[x].backup
        <5>1. CASE b \in Backups
          <6>1. backup[b].status \in BackupStatuses
            BY <5>1 DEF RowTypes, BackupRows
          <6>2. \E s \in BackupStatuses : backup' = [backup EXCEPT ![b].status = s]
            BY <4>2, <6>1 DEF Marked, BackupStatuses
          <6>3. \A s \in BackupStatuses : [backup EXCEPT ![b].status = s] \in [Backups -> BackupRows]
            BY <5>1, BackupsEdits
          <6>. QED
            BY <6>2, <6>3
        <5>2. CASE b \notin Backups
          BY <4>2, <5>2 DEF Marked, RowTypes
        <5>. QED
          BY <5>1, <5>2
      <4>. QED
        BY <2>2, <4>1, <4>2 DEF MarkDatabaseBackupDeleting
    <3>. QED
      BY <2>2, <3>1 DEF RowTypes, MarkDatabaseBackupDeleting, removeRest, policyVars
  <2>3. CASE EraseObject(x)
    BY <2>3 DEF RowTypes, EraseObject, removeRest, policyVars
  <2>4. CASE DeleteDatabaseBackupRecord(x)
    <3>1. backup' \in [Backups -> BackupRows]
      BY <2>4, NewBackupRow DEF DeleteDatabaseBackupRecord, RowTypes
    <3>. QED
      BY <2>4, <3>1 DEF RowTypes, DeleteDatabaseBackupRecord, removeRest, policyVars
  <2>. QED
    BY <1>14, <2>1, <2>2, <2>3, <2>4 DEF RemoverStep
<1>15. ASSUME NEW o \in Operations, Claim(o) \/ ReadyFails(o) \/ Retry(o) PROVE RowTypes'
  BY <1>15 DEF RowTypes, Claim, ReadyFails, Retry, claimRest, policyVars, rowVars
<1>16. ASSUME NEW o \in Operations, ReserveDisk(o) \/ ReportSuccess(o) \/ EndOperation(o) PROVE RowTypes'
  BY <1>16 DEF RowTypes, ReserveDisk, ReportSuccess, EndOperation, workRest, policyVars, rowVars
<1>17. ASSUME NEW o \in Operations, Cancelled(o) PROVE RowTypes'
  <2>1. backup' \in [Backups -> BackupRows] /\ unread' \subseteq Backups
    <3>1. CASE at[o] = "complete" /\ CompletedUnread(o)
      <4>1. o \in Backups
        BY <3>1 DEF QueueInv, WorkerRuns, Operations, RestorePlaces
      <4>2. [backup EXCEPT ![o].status = "success", ![o].keyed = TRUE] \in [Backups -> BackupRows]
        BY <4>1, BackupsEdits DEF BackupStatuses
      <4>. QED
        BY <3>1, <4>1, <4>2 DEF RowTypes
    <3>2. CASE UNCHANGED <<backup, unread>>
      BY <3>2 DEF RowTypes
    <3>. QED
      BY <1>17, <3>1, <3>2 DEF Cancelled
  <2>2. stored' \subseteq Destinations \X Buckets \X Backups
    BY <1>17 DEF Cancelled, RowTypes
  <2>. QED
    BY <1>17, <2>1, <2>2 DEF RowTypes, Cancelled, policyVars
<1>18. ASSUME NEW o \in Operations, FailCompanion(o) PROVE RowTypes'
  <2>1. CASE o \in Backups
    <3>1. backup' \in [Backups -> BackupRows] /\ job' = job
      <4>1. [backup EXCEPT ![o].status = "failed", ![o].keyed = FALSE] \in [Backups -> BackupRows]
        BY <2>1, BackupsEdits DEF BackupStatuses
      <4>2. backup \in [Backups -> BackupRows]
        BY DEF RowTypes
      <4>. QED
        BY <1>18, <2>1, <4>1, <4>2 DEF FailCompanion, rowVars
    <3>. QED
      BY <1>18, <3>1 DEF RowTypes, FailCompanion, workRest, policyVars
  <2>2. CASE o \notin Backups
    <3>1. o \in Restores
      BY <2>2 DEF Operations
    <3>2. job' \in [Restores -> JobRows] /\ backup' = backup
      BY <1>18, <2>2, <3>1 DEF FailCompanion, RowTypes, rowVars, JobRows, JobStatuses
    <3>. QED
      BY <1>18, <3>2 DEF RowTypes, FailCompanion, workRest, policyVars
  <2>. QED
    BY <2>1, <2>2
<1>19. ASSUME NEW b \in Backups, BackupStep(b) PROVE RowTypes'
  <2>1. CASE MarkDatabaseBackupRunning(b) \/ CompleteDatabaseBackup(b)
    <3>1. backup' \in [Backups -> BackupRows]
      <4>1. /\ [backup EXCEPT ![b].status = "success", ![b].keyed = TRUE] \in [Backups -> BackupRows]
            /\ [backup EXCEPT ![b].status = "running"] \in [Backups -> BackupRows]
        BY BackupsEdits DEF BackupStatuses
      <4>2. backup \in [Backups -> BackupRows]
        BY DEF RowTypes
      <4>. QED
        BY <2>1, <4>1, <4>2 DEF MarkDatabaseBackupRunning, CompleteDatabaseBackup
    <3>. QED
      BY <2>1, <3>1 DEF RowTypes, MarkDatabaseBackupRunning, CompleteDatabaseBackup, workRest, policyVars
  <2>2. CASE OpenDestination(b) \/ VerifyObject(b) \/ DiscardObject(b)
    BY <2>2 DEF RowTypes, OpenDestination, VerifyObject, DiscardObject, workRest, policyVars, rowVars
  <2>3. CASE UploadDump(b)
    <3>1. backup' \in [Backups -> BackupRows]
      <4>1. [backup EXCEPT ![b].content = contents] \in [Backups -> BackupRows]
        BY BackupsEdits DEF RestTypes
      <4>2. backup \in [Backups -> BackupRows]
        BY DEF RowTypes
      <4>. QED
        BY <2>3, <4>1, <4>2 DEF UploadDump
    <3>2. held[b] \in Destinations \X Buckets
      BY <2>3 DEF UploadDump, BackupInv, HoldsWhatItOpened, Opened
    <3>3. stored' \subseteq Destinations \X Buckets \X Backups
      BY <2>3, <3>2 DEF UploadDump, Object, RowTypes
    <3>. QED
      BY <2>3, <3>1, <3>3 DEF RowTypes, UploadDump, workRest, policyVars
  <2>. QED
    BY <1>19, <2>1, <2>2, <2>3 DEF BackupStep
<1>20. ASSUME NEW r \in Restores, RestoreStep(r) PROVE RowTypes'
  <2>1. CASE StopDatabaseConsumers(r) \/ RestoreSucceeded(r)
    <3>1. job' \in [Restores -> JobRows]
      BY <2>1 DEF StopDatabaseConsumers, RestoreSucceeded, RowTypes, JobRows, JobStatuses
    <3>. QED
      BY <2>1, <3>1 DEF RowTypes, StopDatabaseConsumers, RestoreSucceeded, workRest, policyVars
  <2>2. CASE CheckRestore(r) \/ BeginPayload(r) \/ EndPayload(r) \/ RestartDatabaseConsumers(r)
    BY <2>2 DEF RowTypes, CheckRestore, BeginPayload, EndPayload, RestartDatabaseConsumers, workRest, policyVars, rowVars
  <2>. QED
    BY <1>20, <2>1, <2>2 DEF RestoreStep
<1>21. CASE BackupsCrash
  BY <1>21, RecoveredRows DEF RowTypes, BackupsCrash, Interrupted, policyVars
<1>22. CASE BackupsDrain
  BY <1>22 DEF RowTypes, BackupsDrain, Interrupted, policyVars, rowVars
<1>. QED
  BY <1>1, <1>2, <1>3, <1>4, <1>5, <1>6, <1>7, <1>8, <1>9, <1>10, <1>11, <1>12, <1>13, <1>14, <1>15, <1>16, <1>17,
     <1>18, <1>19, <1>20, <1>21, <1>22
     DEF BackupsNext, BackupRequest, OutsideBackups, ScheduleStep, RestorerStep, BackupOperationStep

Verdicts == {None, "success", "failed", "refused", "rolled_back", "rollback_failed"}

LEMMA OperationsEdits ==
  ASSUME BackupsTypes, NEW o \in Operations
  PROVE /\ \A s \in {"absent", "queued", "running"} \cup Ended :
             [operation EXCEPT ![o].status = s] \in [Operations -> OperationRows]
        /\ \A e \in BOOLEAN : [operation EXCEPT ![o].deferred = e] \in [Operations -> OperationRows]
        /\ \A v \in Verdicts : [operation EXCEPT ![o].verdict = v] \in [Operations -> OperationRows]
<1>1. operation \in [Operations -> OperationRows] /\ operation[o] \in OperationRows
  BY DEF BackupsTypes, WorkTypes
<1>2. ASSUME NEW s \in {"absent", "queued", "running"} \cup Ended
      PROVE [operation EXCEPT ![o].status = s] \in [Operations -> OperationRows]
  <2>1. [operation[o] EXCEPT !.status = s] \in OperationRows
    BY <1>1, OperationRowEdits
  <2>. QED
    BY <1>1, <2>1
<1>3. ASSUME NEW e \in BOOLEAN PROVE [operation EXCEPT ![o].deferred = e] \in [Operations -> OperationRows]
  <2>1. [operation[o] EXCEPT !.deferred = e] \in OperationRows
    BY <1>1, OperationRowEdits
  <2>. QED
    BY <1>1, <2>1
<1>4. ASSUME NEW v \in Verdicts PROVE [operation EXCEPT ![o].verdict = v] \in [Operations -> OperationRows]
  <2>1. [operation[o] EXCEPT !.verdict = v] \in OperationRows
    BY <1>1, OperationRowEdits DEF Verdicts
  <2>. QED
    BY <1>1, <2>1
<1>. QED
  BY <1>2, <1>3, <1>4

LEMMA ClaimTypes ==
  ASSUME BackupsTypes, NEW o \in Operations, operation[o].attempt < MaxAttempts
  PROVE [operation EXCEPT ![o].status = "running", ![o].attempt = @ + 1] \in [Operations -> OperationRows]
<1>1. operation[o] \in OperationRows /\ operation \in [Operations -> OperationRows]
  BY DEF BackupsTypes, WorkTypes
<1>2. operation[o].attempt + 1 \in 0..MaxAttempts
  BY <1>1, BackupsAssumption DEF OperationRows
<1>3. [operation[o] EXCEPT !.status = "running", !.attempt = operation[o].attempt + 1] \in OperationRows
  BY <1>1, <1>2, OperationRowEdits
<1>. QED
  BY <1>1, <1>3

\* A step of a worker moves it, and writes the row of its own operation only:
\* its verdict, or how it ended.
LEMMA HandlerFrame ==
  ASSUME BackupsTypes, QueueInv, NEW o \in Operations, BackupOperationStep(o)
  PROVE /\ at[o] # "idle" /\ line' = line /\ settled' = settled
        /\ \E s \in BackupPlaces \cup RestorePlaces :
             /\ at' = [at EXCEPT ![o] = s]
             /\ o \in Backups => s \in BackupPlaces
             /\ o \in Restores => s \in RestorePlaces
             /\ \/ s = "idle" /\ \E e \in Ended : operation' = [operation EXCEPT ![o].status = e]
                \/ s # "idle" /\ operation' = operation
                \/ s # "idle" /\ \E v \in Verdicts : operation' = [operation EXCEPT ![o].verdict = v]
<1>. USE DEF BackupPlaces, RestorePlaces, Verdicts, Step, Decide, workRest, completeRest, lineVars
<1>1. /\ o \in Backups => at[o] \in BackupPlaces
      /\ o \in Restores => at[o] \in RestorePlaces
      /\ o \in Backups <=> o \notin Restores
  BY BackupsAssumption DEF QueueInv, WorkerRuns, Operations
<1>2. CASE ReserveDisk(o)
  BY <1>1, <1>2 DEF ReserveDisk
<1>3. CASE FailCompanion(o)
  <2>1. at[o] = "fail" /\ at' = [at EXCEPT ![o] = IF o \in Backups THEN "end" ELSE "restart"]
        /\ operation' = operation /\ line' = line /\ settled' = settled
    BY <1>3 DEF FailCompanion
  <2>2. CASE o \in Backups
    BY <1>1, <2>1, <2>2
  <2>3. CASE o \in Restores
    <3>1. at' = [at EXCEPT ![o] = "restart"]
      BY <1>1, <2>1, <2>3
    <3>. QED
      BY <1>1, <2>1, <2>3, <3>1
  <2>. QED
    BY <2>2, <2>3 DEF Operations
<1>4. CASE ReportSuccess(o)
  BY <1>1, <1>4 DEF ReportSuccess
<1>5. CASE EndOperation(o) \/ Cancelled(o)
  BY <1>1, <1>5 DEF EndOperation, Cancelled, Ended
<1>6. CASE o \in Backups /\ BackupStep(o)
  <2>1. CASE MarkDatabaseBackupRunning(o) \/ OpenDestination(o)
    BY <1>1, <1>6, <2>1 DEF MarkDatabaseBackupRunning, OpenDestination
  <2>2. CASE UploadDump(o) \/ VerifyObject(o)
    BY <1>1, <1>6, <2>2 DEF UploadDump, VerifyObject
  <2>3. CASE CompleteDatabaseBackup(o) \/ DiscardObject(o)
    BY <1>1, <1>6, <2>3 DEF CompleteDatabaseBackup, DiscardObject
  <2>. QED
    BY <1>6, <2>1, <2>2, <2>3 DEF BackupStep
<1>7. CASE o \in Restores /\ RestoreStep(o)
  <2>1. CASE CheckRestore(o) \/ StopDatabaseConsumers(o)
    BY <1>1, <1>7, <2>1 DEF CheckRestore, StopDatabaseConsumers
  <2>2. CASE BeginPayload(o) \/ EndPayload(o)
    BY <1>1, <1>7, <2>2 DEF BeginPayload, EndPayload, Undo
  <2>3. CASE RestoreSucceeded(o) \/ RestartDatabaseConsumers(o)
    BY <1>1, <1>7, <2>3 DEF RestoreSucceeded, RestartDatabaseConsumers
  <2>. QED
    BY <1>7, <2>1, <2>2, <2>3 DEF RestoreStep
<1>. QED
  BY <1>2, <1>3, <1>4, <1>5, <1>6, <1>7 DEF BackupOperationStep

\* What it holds stays a function, and the line a sequence of operations.
LEMMA WorkTypesKept ==
  ASSUME BackupsInv, [BackupsNext]_backupsVars
  PROVE WorkTypes'
<1>. USE BackupsAssumption DEF BackupsInv, BackupsTypes, lineVars, completeRest, Completed, CompletedUnread
<1>1. CASE UNCHANGED backupsVars
  BY <1>1 DEF backupsVars, workVars, WorkTypes
<1>2. CASE ManualBackup
  <2>1. policy.destination \in Destinations \cup {None}
    BY DEF RowTypes, Policies
  <2>2. line' \in Seq(Operations) /\ settled' \in 0..Len(line') /\ operation' \in [Operations -> OperationRows]
    BY <1>2, <2>1, QueueBackupTypes DEF ManualBackup
  <2>. QED
    BY <1>2, <2>2 DEF WorkTypes, ManualBackup
<1>3. ASSUME NEW b \in Backups, QueueSafetyBackup(b) PROVE WorkTypes'
  <2>1. policy.destination \in Destinations \cup {None}
    BY DEF RowTypes, Policies
  <2>2. line' \in Seq(Operations) /\ settled' \in 0..Len(line') /\ operation' \in [Operations -> OperationRows]
    BY <1>3, <2>1, QueueBackupTypes DEF QueueSafetyBackup
  <2>. QED
    BY <1>3, <2>2 DEF WorkTypes, QueueSafetyBackup, restoreRest
<1>4. CASE QueueDueDatabaseBackup
  <2>1. line' \in Seq(Operations) /\ settled' \in 0..Len(line') /\ operation' \in [Operations -> OperationRows]
    <3>1. CASE QueueDatabaseBackup(scheduler, "scheduled") /\ scheduler \in Destinations
      BY <3>1, QueueBackupTypes
    <3>. QED
      BY <1>4, <3>1 DEF QueueDueDatabaseBackup, WorkTypes
  <2>. QED
    BY <1>4, <2>1 DEF WorkTypes, QueueDueDatabaseBackup, scheduleRest
<1>5. CASE QueueDatabaseRestore
  <2>. DEFINE r == CHOOSE x \in Unused(Restores) : TRUE
  <2>1. Queued(r) \/ (line' = line /\ settled' = settled /\ operation' = operation)
    BY <1>5 DEF QueueDatabaseRestore
  <2>2. r \in Operations
    BY <1>5 DEF QueueDatabaseRestore, QueueInv, RequestNames, Unused, Operations
  <2>. HIDE DEF r
  <2>3. [operation EXCEPT ![r].status = "queued"] \in [Operations -> OperationRows]
    BY <2>2, OperationsEdits
  <2>4. line \in Seq(Operations) /\ settled \in 0..Len(line) /\ operation \in [Operations -> OperationRows]
    BY DEF WorkTypes
  <2>5. line' \in Seq(Operations) /\ settled' \in 0..Len(line') /\ operation' \in [Operations -> OperationRows]
    <3>1. CASE Queued(r)
      BY <2>2, <2>3, <3>1, QueuedEnters
    <3>. QED
      BY <2>1, <2>4, <3>1
  <2>. QED
    BY <1>5, <2>5 DEF WorkTypes, QueueDatabaseRestore, restoreRest
<1>6. ASSUME NEW d \in Destinations,
             \/ CreateBackupDestination(d) \/ UpdateBackupDestination(d) \/ CountRetained(d)
             \/ \E e \in BOOLEAN : SaveBackupPolicy(d, e)
      PROVE WorkTypes'
  BY <1>6 DEF WorkTypes, CreateBackupDestination, UpdateBackupDestination, CountRetained, SaveBackupPolicy,
     destinationRest, workVars
<1>7. CASE BecomeDue \/ ListDueDatabaseBackupPolicies \/ AdvanceDatabaseBackupPolicySchedule \/ DeleteBackupDestination
           \/ CheckRestorable \/ \E b \in Backups : Expire(b)
  BY <1>7 DEF WorkTypes, BecomeDue, ListDueDatabaseBackupPolicies, AdvanceDatabaseBackupPolicySchedule,
     DeleteBackupDestination, CheckRestorable, Expire, scheduleRest, restoreRest, workVars
<1>8. ASSUME NEW b \in Backups, PrepareDatabaseBackupDeletion(b) \/ PrepareCopy(b) PROVE WorkTypes'
  BY <1>8 DEF WorkTypes, PrepareDatabaseBackupDeletion, PrepareCopy, removeRest, restoreRest, workVars
<1>9. CASE DeleteInstance \/ CopyProvisioned \/ DatabaseSickens \/ DatabaseRecovers
  BY <1>9 DEF WorkTypes, DeleteInstance, CopyProvisioned, DatabaseSickens, DatabaseRecovers,
     outsideRest, workVars
<1>10. ASSUME NEW x \in Removers, RemoverStep(x) PROVE WorkTypes'
  BY <1>10 DEF WorkTypes, RemoverStep, ListExpiredDatabaseBackups, NextExpired, MarkDatabaseBackupDeleting, EraseObject,
     DeleteDatabaseBackupRecord, removeRest, workVars
<1>11. ASSUME NEW o \in Operations, Claim(o) \/ ReadyFails(o) \/ Retry(o) PROVE WorkTypes'
  <2>1. line' = line /\ settled' = settled /\ held' = held
    BY <1>11 DEF Claim, ReadyFails, Retry, claimRest
  <2>2. operation' \in [Operations -> OperationRows]
    <3>1. /\ [operation EXCEPT ![o].status = "cancelled"] \in [Operations -> OperationRows]
          /\ [operation EXCEPT ![o].status = "failed"] \in [Operations -> OperationRows]
          /\ [operation EXCEPT ![o].deferred = TRUE] \in [Operations -> OperationRows]
          /\ [operation EXCEPT ![o].deferred = FALSE] \in [Operations -> OperationRows]
      BY OperationsEdits DEF Ended
    <3>2. operation[o].attempt < MaxAttempts =>
            [operation EXCEPT ![o].status = "running", ![o].attempt = @ + 1] \in [Operations -> OperationRows]
      BY ClaimTypes
    <3>. QED
      BY <1>11, <3>1, <3>2 DEF Claim, ReadyFails, Retry, OldestClaimable, Claimable
  <2>3. at' \in [Operations -> BackupPlaces \cup RestorePlaces]
    BY <1>11 DEF Claim, ReadyFails, Retry, WorkTypes, BackupPlaces
  <2>. QED
    BY <2>1, <2>2, <2>3 DEF WorkTypes
<1>12. ASSUME NEW o \in Operations, BackupOperationStep(o) PROVE WorkTypes'
  <2>1. line' = line /\ settled' = settled /\ \E s \in BackupPlaces \cup RestorePlaces : at' = [at EXCEPT ![o] = s]
    BY <1>12, HandlerFrame
  <2>2. \/ operation' = operation
        \/ \E e \in Ended : operation' = [operation EXCEPT ![o].status = e]
        \/ \E v \in Verdicts : operation' = [operation EXCEPT ![o].verdict = v]
    BY <1>12, HandlerFrame
  <2>3. /\ \A e \in Ended : [operation EXCEPT ![o].status = e] \in [Operations -> OperationRows]
        /\ \A v \in Verdicts : [operation EXCEPT ![o].verdict = v] \in [Operations -> OperationRows]
    BY OperationsEdits
  <2>4. operation' \in [Operations -> OperationRows]
    BY <2>2, <2>3 DEF WorkTypes
  <2>5. held' = held \/ \E h : held' = [held EXCEPT ![o] = h]
    BY <1>12 DEF BackupOperationStep, ReserveDisk, FailCompanion, ReportSuccess, EndOperation, Cancelled, BackupStep,
       MarkDatabaseBackupRunning, OpenDestination, UploadDump, VerifyObject, CompleteDatabaseBackup, DiscardObject,
       RestoreStep, CheckRestore, StopDatabaseConsumers, BeginPayload, EndPayload, RestoreSucceeded,
       RestartDatabaseConsumers
  <2>. QED
    BY <2>1, <2>4, <2>5 DEF WorkTypes
<1>13. CASE BackupsCrash
  <2>1. \A o \in Operations : operation'[o] \in OperationRows
    <3>1. ASSUME NEW o \in Operations PROVE operation'[o] \in OperationRows
      <4>1. /\ operation[o] \in OperationRows /\ [operation[o] EXCEPT !.deferred = FALSE] \in OperationRows
            /\ [operation[o] EXCEPT !.status = "failed"] \in OperationRows
            /\ [operation[o] EXCEPT !.status = "queued"] \in OperationRows
        BY OperationRowEdits DEF WorkTypes, Ended
      <4>. QED
        BY <1>13, <4>1 DEF BackupsCrash
    <3>. QED
      BY <3>1
  <2>. QED
    BY <1>13, <2>1 DEF WorkTypes, BackupsCrash, Interrupted, BackupPlaces
<1>14. CASE BackupsDrain
  <2>1. \A o \in Operations : operation'[o] \in OperationRows
    <3>1. ASSUME NEW o \in Operations PROVE operation'[o] \in OperationRows
      <4>1. operation[o] \in OperationRows
        BY DEF WorkTypes
      <4>2. operation[o].status = "running" => operation[o].attempt - 1 \in 0..MaxAttempts
        BY <4>1 DEF QueueInv, WorkerRuns, OperationRows
      <4>3. operation[o].status = "running" =>
              [operation[o] EXCEPT !.status = "queued", !.attempt = operation[o].attempt - 1] \in OperationRows
        BY <4>1, <4>2, OperationRowEdits
      <4>. QED
        BY <1>14, <4>1, <4>3 DEF BackupsDrain
    <3>. QED
      BY <3>1
  <2>. QED
    BY <1>14, <2>1 DEF WorkTypes, BackupsDrain, Interrupted, BackupPlaces
<1>. QED
  BY <1>1, <1>2, <1>3, <1>4, <1>5, <1>6, <1>7, <1>8, <1>9, <1>10, <1>11, <1>12, <1>13, <1>14
     DEF BackupsNext, BackupRequest, OutsideBackups, ScheduleStep, RestorerStep

LEMMA RestTypesKept ==
  ASSUME BackupsInv, [BackupsNext]_backupsVars
  PROVE RestTypes'
<1>. USE BackupsAssumption DEF BackupsInv, BackupsTypes, lineVars, completeRest, Completed, CompletedUnread
<1>1. CASE UNCHANGED backupsVars
  BY <1>1 DEF backupsVars, engineVars, requestVars, RestTypes
<1>2. ASSUME NEW d \in Destinations, CreateBackupDestination(d) \/ UpdateBackupDestination(d) PROVE RestTypes'
  BY <1>2 DEF RestTypes, CreateBackupDestination, UpdateBackupDestination, destinationRest, engineVars, requestVars
<1>3. ASSUME NEW d \in Destinations, CountRetained(d) PROVE RestTypes'
  BY <1>3 DEF RestTypes, CountRetained, engineVars
<1>4. ASSUME NEW d \in Destinations, NEW e \in BOOLEAN, SaveBackupPolicy(d, e) PROVE RestTypes'
  BY <1>4 DEF RestTypes, SaveBackupPolicy, engineVars, requestVars
<1>5. CASE ManualBackup \/ BecomeDue \/ \E b \in Backups : Expire(b)
  BY <1>5 DEF RestTypes, ManualBackup, BecomeDue, Expire, engineVars, requestVars
<1>6. CASE DeleteBackupDestination
  BY <1>6 DEF RestTypes, DeleteBackupDestination, engineVars
<1>7. CASE ListDueDatabaseBackupPolicies
  <2>1. policy.destination \in Destinations \cup {None}
    BY DEF RowTypes, Policies
  <2>2. policy.enabled => policy.destination \in Destinations
    BY DEF RowTypes, Policies
  <2>. QED
    BY <1>7, <2>2 DEF RestTypes, ListDueDatabaseBackupPolicies, scheduleRest, engineVars, requestVars
<1>8. CASE QueueDueDatabaseBackup \/ AdvanceDatabaseBackupPolicySchedule
  BY <1>8 DEF RestTypes, QueueDueDatabaseBackup, AdvanceDatabaseBackupPolicySchedule, scheduleRest, engineVars, requestVars
<1>9. ASSUME NEW b \in Backups, PrepareDatabaseBackupDeletion(b) PROVE RestTypes'
  BY <1>9 DEF RestTypes, PrepareDatabaseBackupDeletion, removeRest, engineVars, requestVars, RemoverRows
<1>10. ASSUME NEW b \in Backups, QueueSafetyBackup(b) PROVE RestTypes'
  <2>. DEFINE s == CHOOSE x \in Unused(Backups) : TRUE
  <2>1. s \in Backups
    BY <1>10 DEF QueueSafetyBackup, QueueDatabaseBackup, Unused
  <2>2. restorer' = [source |-> b, safety |-> s, mode |-> "replace_current", step |-> "check"]
    BY <1>10 DEF QueueSafetyBackup
  <2>. HIDE DEF s
  <2>3. restorer' \in RequestRows
    BY <2>1, <2>2 DEF RequestRows
  <2>. QED
    BY <1>10, <2>3 DEF RestTypes, QueueSafetyBackup, restoreRest
<1>11. ASSUME NEW b \in Backups, PrepareCopy(b) PROVE RestTypes'
  BY <1>11 DEF RestTypes, PrepareCopy, restoreRest, RequestRows
<1>12. CASE CheckRestorable
  <2>1. [restorer EXCEPT !.step = "insert"] \in RequestRows /\ NoRequest \in RequestRows
    BY DEF RestTypes, RequestRows, NoRequest
  <2>. QED
    BY <1>12, <2>1 DEF RestTypes, CheckRestorable, restoreRest
<1>13. CASE QueueDatabaseRestore
  BY <1>13 DEF RestTypes, QueueDatabaseRestore, restoreRest, RequestRows, NoRequest
<1>14. CASE DeleteInstance \/ DatabaseSickens \/ DatabaseRecovers
  BY <1>14 DEF RestTypes, DeleteInstance, DatabaseSickens, DatabaseRecovers, outsideRest, requestVars
<1>15. CASE CopyProvisioned
  BY <1>15 DEF RestTypes, CopyProvisioned, outsideRest, requestVars, Contents
<1>16. ASSUME NEW x \in Removers, RemoverStep(x) PROVE RestTypes'
  <2>1. /\ remover[x] \in RemoverRows /\ AtRest \in RemoverRows
        /\ \A s \in {"idle", "mark", "erase", "forget"} : [remover[x] EXCEPT !.step = s] \in RemoverRows
        /\ [AtRest EXCEPT !.left = remover[x].left] \in RemoverRows
    BY DEF RestTypes, RemoverRows, AtRest
  <2>2. CASE MarkDatabaseBackupDeleting(x)
    BY <2>1, <2>2 DEF RestTypes, MarkDatabaseBackupDeleting, MoveTo, RemoverIdle, removeRest, engineVars, requestVars
  <2>3. CASE EraseObject(x)
    BY <2>1, <2>3 DEF RestTypes, EraseObject, MoveTo, RemoverIdle, removeRest, engineVars, requestVars
  <2>4. CASE DeleteDatabaseBackupRecord(x)
    BY <2>1, <2>4 DEF RestTypes, DeleteDatabaseBackupRecord, RemoverIdle, removeRest, engineVars, requestVars
  <2>5. CASE x = "retention" /\ ListExpiredDatabaseBackups
    <3>1. [remover["retention"] EXCEPT !.left = ExpiredBackups] \in RemoverRows
      BY <2>1, <2>5 DEF RemoverRows, ExpiredBackups
    <3>. QED
      BY <2>5, <3>1 DEF RestTypes, ListExpiredDatabaseBackups, removeRest, engineVars, requestVars
  <2>6. CASE x = "retention" /\ NextExpired
    <3>1. PICK b \in remover["retention"].left :
            remover' = [remover EXCEPT !["retention"] =
              [left |-> @.left \ {b}, backup |-> IF backup[b].destination = None THEN None ELSE b,
               step |-> IF backup[b].destination = None THEN "idle" ELSE "mark"]]
      BY <2>6 DEF NextExpired
    <3>2. b \in Backups /\ remover["retention"].left \ {b} \in SUBSET Backups
      BY <2>1, <2>6 DEF RemoverRows
    <3>3. remover' \in [Removers -> RemoverRows]
      BY <3>1, <3>2 DEF RestTypes, RemoverRows
    <3>. QED
      BY <2>6, <3>3 DEF RestTypes, NextExpired, removeRest, engineVars, requestVars
  <2>. QED
    BY <1>16, <2>2, <2>3, <2>4, <2>5, <2>6 DEF RemoverStep
<1>17. ASSUME NEW o \in Operations, Claim(o) \/ ReadyFails(o) \/ Retry(o) PROVE RestTypes'
  BY <1>17 DEF RestTypes, Claim, ReadyFails, Retry, claimRest, engineVars, requestVars
<1>18. ASSUME NEW o \in Operations, ReserveDisk(o) \/ FailCompanion(o) \/ ReportSuccess(o) \/ EndOperation(o) \/ Cancelled(o)
       PROVE RestTypes'
  BY <1>18 DEF RestTypes, ReserveDisk, FailCompanion, ReportSuccess, EndOperation, Cancelled, workRest, requestVars
<1>19. ASSUME NEW b \in Backups, BackupStep(b) PROVE RestTypes'
  BY <1>19 DEF RestTypes, BackupStep, MarkDatabaseBackupRunning, OpenDestination, UploadDump, VerifyObject,
     CompleteDatabaseBackup, DiscardObject, workRest, requestVars
<1>20. ASSUME NEW r \in Restores, RestoreStep(r) PROVE RestTypes'
  <2>1. CASE EndPayload(r)
    <3>1. contents' \in Contents
      <4>1. CASE OnCopy(r)
        BY <2>1, <4>1 DEF EndPayload, Write, RestTypes
      <4>2. CASE ~OnCopy(r)
        <5>1. job[r] # NoJob /\ SafetyKept(r) /\ backup[job[r].source].content \in Contents
          BY <2>1 DEF EndPayload, RestoreInv, Overwriting
        <5>2. job[r].source \in Backups /\ job[r].safety \in Backups
          BY <4>2, <5>1 DEF QueueInv, JobNames, OnCopy, RowTypes, JobRows
        <5>3. PayloadOf(r) \in Backups /\ backup[PayloadOf(r)].content \in Contents
          BY <2>1, <5>1, <5>2 DEF EndPayload, PayloadOf, SafetyKept, BackupInv, Finished
        <5>4. backup[PayloadOf(r)].content \in Contents
          BY <5>3 DEF RowTypes, BackupRows
        <5>. QED
          BY <2>1, <5>4 DEF EndPayload, Write, RestTypes
      <4>. QED
        BY <4>1, <4>2
    <3>. QED
      BY <2>1, <3>1 DEF RestTypes, EndPayload, workRest, requestVars
  <2>2. CASE StopDatabaseConsumers(r) \/ RestartDatabaseConsumers(r) \/ CheckRestore(r) \/ RestoreSucceeded(r)
    BY <2>2 DEF RestTypes, StopDatabaseConsumers, RestartDatabaseConsumers, CheckRestore, RestoreSucceeded, workRest,
       requestVars
  <2>3. CASE BeginPayload(r)
    BY <2>3 DEF RestTypes, BeginPayload, Write, Contents, workRest, requestVars
  <2>. QED
    BY <1>20, <2>1, <2>2, <2>3 DEF RestoreStep
<1>21. CASE BackupsCrash \/ BackupsDrain
  <2>1. AtRest \in RemoverRows /\ NoRequest \in RequestRows
    BY DEF AtRest, RemoverRows, NoRequest, RequestRows
  <2>2. Interrupted
    BY <1>21 DEF BackupsCrash, BackupsDrain
  <2>3. remover' \in [Removers -> RemoverRows]
    BY <2>1, <2>2 DEF Interrupted
  <2>. QED
    BY <2>1, <2>2, <2>3 DEF RestTypes, Interrupted, engineVars
<1>. QED
  BY <1>1, <1>2, <1>3, <1>4, <1>5, <1>6, <1>7, <1>8, <1>9, <1>10, <1>11, <1>12, <1>13, <1>14, <1>15, <1>16, <1>17,
     <1>18, <1>19, <1>20, <1>21
     DEF BackupsNext, BackupRequest, OutsideBackups, ScheduleStep, RestorerStep, BackupOperationStep

-----------------------------------------------------------------------------
(***************************************************************************)
(* What no step does: the line only grows, a job keeps what it names, an   *)
(* operation that has ended stays ended, a backup that a job refers to     *)
(* keeps its content.                                                      *)
(***************************************************************************)
LEMMA QueuedBackup ==
  ASSUME BackupsInv, NEW d, NEW t, QueueDatabaseBackup(d, t)
  PROVE \E b \in Unused(Backups) :
          /\ b = (CHOOSE x \in Unused(Backups) : TRUE)
          /\ Enters(b) /\ operation' = [operation EXCEPT ![b].status = "queued"]
          /\ backup' = [backup EXCEPT ![b] = [NoBackup EXCEPT !.status = "queued", !.trigger = t, !.destination = d]]
<1>. DEFINE b == CHOOSE x \in Unused(Backups) : TRUE
<1>1. b \in Unused(Backups)
  BY DEF QueueDatabaseBackup
<1>2. b \in Operations /\ Queued(b)
  BY <1>1 DEF QueueDatabaseBackup, Unused, Operations
<1>3. Enters(b) /\ operation' = [operation EXCEPT ![b].status = "queued"]
  BY <1>2, QueuedEnters DEF BackupsInv
<1>. QED
  BY <1>1, <1>3 DEF QueueDatabaseBackup

LEMMA LineGrows ==
  ASSUME BackupsInv, [BackupsNext]_backupsVars
  PROVE \/ line' = line
        \/ /\ at' = at /\ held' = held /\ stored' = stored /\ destination' = destination
           /\ \E o \in Operations \ ToSet(line) :
                Enters(o) /\ operation' = [operation EXCEPT ![o].status = "queued"]
<1>. USE BackupsAssumption DEF lineVars, completeRest, Completed, CompletedUnread
<1>1. CASE UNCHANGED backupsVars
  BY <1>1 DEF backupsVars
<1>2. CASE ManualBackup
  <2>1. PICK b \in Unused(Backups) :
          Enters(b) /\ operation' = [operation EXCEPT ![b].status = "queued"]
    BY <1>2, QueuedBackup DEF ManualBackup
  <2>. QED
    BY <1>2, <2>1 DEF ManualBackup, Unused, Operations
<1>3. ASSUME NEW c \in Backups, QueueSafetyBackup(c)
      PROVE /\ at' = at /\ held' = held /\ stored' = stored /\ destination' = destination
            /\ \E o \in Operations \ ToSet(line) :
                Enters(o) /\ operation' = [operation EXCEPT ![o].status = "queued"]
  <2>1. PICK b \in Unused(Backups) :
          Enters(b) /\ operation' = [operation EXCEPT ![b].status = "queued"]
    BY <1>3, QueuedBackup DEF QueueSafetyBackup
  <2>. QED
    BY <1>3, <2>1 DEF QueueSafetyBackup, restoreRest, Unused, Operations
<1>4. CASE QueueDueDatabaseBackup
  <2>1. CASE QueueDatabaseBackup(scheduler, "scheduled")
    <3>1. PICK b \in Unused(Backups) :
          Enters(b) /\ operation' = [operation EXCEPT ![b].status = "queued"]
      BY <2>1, QueuedBackup
    <3>. QED
      BY <1>4, <3>1 DEF QueueDueDatabaseBackup, scheduleRest, Unused, Operations
  <2>. QED
    BY <1>4, <2>1 DEF QueueDueDatabaseBackup
<1>5. CASE QueueDatabaseRestore
  <2>. DEFINE r == CHOOSE x \in Unused(Restores) : TRUE
  <2>0. Queued(r) \/ (line' = line /\ operation' = operation)
    BY <1>5 DEF QueueDatabaseRestore
  <2>2. r \in Unused(Restores)
    BY <1>5 DEF QueueDatabaseRestore, BackupsInv, QueueInv, RequestNames
  <2>1. (Enters(r) /\ operation' = [operation EXCEPT ![r].status = "queued"])
        \/ (line' = line /\ operation' = operation)
    BY <2>0, <2>2, QueuedEnters DEF BackupsInv, Unused, Operations
  <2>. HIDE DEF r
  <2>. QED
    BY <1>5, <2>1, <2>2 DEF QueueDatabaseRestore, restoreRest, Unused, Operations
<1>6. ASSUME NEW d \in Destinations,
             \/ CreateBackupDestination(d) \/ UpdateBackupDestination(d) \/ CountRetained(d)
             \/ \E e \in BOOLEAN : SaveBackupPolicy(d, e)
      PROVE line' = line
  BY <1>6 DEF CreateBackupDestination, UpdateBackupDestination, CountRetained, SaveBackupPolicy, destinationRest
<1>7. CASE BecomeDue \/ ListDueDatabaseBackupPolicies \/ AdvanceDatabaseBackupPolicySchedule \/ DeleteBackupDestination
           \/ CheckRestorable \/ \E b \in Backups : Expire(b)
  BY <1>7 DEF BecomeDue, ListDueDatabaseBackupPolicies, AdvanceDatabaseBackupPolicySchedule,
     DeleteBackupDestination, CheckRestorable, Expire
<1>8. ASSUME NEW b \in Backups, PrepareDatabaseBackupDeletion(b) \/ PrepareCopy(b) PROVE line' = line
  BY <1>8 DEF PrepareDatabaseBackupDeletion, PrepareCopy, removeRest
<1>9. CASE DeleteInstance \/ CopyProvisioned \/ DatabaseSickens \/ DatabaseRecovers
  BY <1>9 DEF DeleteInstance, CopyProvisioned, DatabaseSickens, DatabaseRecovers, outsideRest
<1>10. ASSUME NEW x \in Removers, RemoverStep(x) PROVE line' = line
  BY <1>10 DEF RemoverStep, ListExpiredDatabaseBackups, NextExpired, MarkDatabaseBackupDeleting, EraseObject,
     DeleteDatabaseBackupRecord, removeRest
<1>11. ASSUME NEW o \in Operations, Claim(o) \/ ReadyFails(o) \/ Retry(o) PROVE line' = line
  BY <1>11 DEF Claim, ReadyFails, Retry, claimRest
<1>12. ASSUME NEW o \in Operations, BackupOperationStep(o) PROVE line' = line
  BY <1>12, HandlerFrame DEF BackupsInv
<1>13. CASE BackupsCrash \/ BackupsDrain
  BY <1>13 DEF BackupsCrash, BackupsDrain, Interrupted
<1>. QED
  BY <1>1, <1>2, <1>3, <1>4, <1>5, <1>6, <1>7, <1>8, <1>9, <1>10, <1>11, <1>12, <1>13
     DEF BackupsNext, BackupRequest, OutsideBackups, ScheduleStep, RestorerStep

\* Behind, and membership, only grow.
LEMMA LineKept ==
  ASSUME BackupsInv, [BackupsNext]_backupsVars
  PROVE /\ ToSet(line) \subseteq ToSet(line)'
        /\ QueuedOnce'
        /\ \A s, r \in Operations : Behind(s, r) => Behind(s, r)'
<1>1. CASE line' = line
  BY <1>1 DEF ToSet, Behind, QueuedOnce, BackupsInv, QueueInv
<1>2. CASE \E o \in Operations \ ToSet(line) : Enters(o)
  BY <1>2, Inserted DEF BackupsInv, QueueInv
<1>. QED
  BY <1>1, <1>2, LineGrows

\* What a step may do to an operation and to its worker.
QueueEnters(o) ==
  /\ o \notin ToSet(line) /\ Enters(o) /\ at'[o] = at[o]
  /\ operation'[o] = [operation[o] EXCEPT !.status = "queued"]

WorkerStarts(o) ==
  /\ OldestClaimable(o)
  /\ operation[o].status = "queued" /\ operation[o].attempt < MaxAttempts /\ at'[o] = "reserve"
  /\ operation'[o] = [operation[o] EXCEPT !.status = "running", !.attempt = operation[o].attempt + 1]

QueuedMoves(o) ==
  /\ operation[o].status = "queued" /\ at'[o] = at[o]
  /\ \/ \E e \in Ended : operation'[o] = [operation[o] EXCEPT !.status = e]
     \/ o \in Restores /\ operation'[o] = [operation[o] EXCEPT !.deferred = TRUE]

DeferralEnds(o) == at'[o] = at[o] /\ operation'[o] = [operation[o] EXCEPT !.deferred = FALSE]

WorkerGoesOn(o) ==
  /\ BackupOperationStep(o) /\ at[o] # "idle" /\ at'[o] # "idle"
  /\ o \in Backups => at'[o] \in BackupPlaces
  /\ o \in Restores => at'[o] \in RestorePlaces
  /\ operation'[o] = operation[o] \/ \E v \in Verdicts : operation'[o] = [operation[o] EXCEPT !.verdict = v]

WorkerEnds(o) ==
  at[o] # "idle" /\ at'[o] = "idle" /\ \E e \in Ended : operation'[o] = [operation[o] EXCEPT !.status = e]

WorkerIsLost(o) ==
  /\ at'[o] = "idle"
  /\ \/ /\ operation[o].status # "running"
        /\ operation'[o] = operation[o] \/ operation'[o] = [operation[o] EXCEPT !.deferred = FALSE]
     \/ /\ operation[o].status = "running"
        /\ \/ operation'[o] = [operation[o] EXCEPT !.status = "failed"]
           \/ operation[o].attempt < MaxAttempts /\ operation'[o] = [operation[o] EXCEPT !.status = "queued"]
           \/ operation'[o] = [operation[o] EXCEPT !.status = "queued", !.attempt = operation[o].attempt - 1]

OperationMoves(o) ==
  \/ operation'[o] = operation[o] /\ at'[o] = at[o]
  \/ QueueEnters(o) \/ WorkerStarts(o) \/ QueuedMoves(o) \/ DeferralEnds(o)
  \/ WorkerGoesOn(o) \/ WorkerEnds(o) \/ WorkerIsLost(o)

LEMMA OperationSteps ==
  ASSUME BackupsInv, [BackupsNext]_backupsVars, NEW o \in Operations
  PROVE OperationMoves(o)
<1>. USE BackupsAssumption DEF lineVars, completeRest, Completed, CompletedUnread
<1>0. /\ operation \in [Operations -> OperationRows] /\ operation[o] \in OperationRows
      /\ at \in [Operations -> BackupPlaces \cup RestorePlaces]
      /\ operation[o].attempt \in Nat
  BY DEF BackupsInv, BackupsTypes, WorkTypes, OperationRows
<1>1. CASE UNCHANGED <<operation, at>>
  BY <1>1 DEF OperationMoves
<1>2. CASE \E p \in Operations \ ToSet(line) :
             Enters(p) /\ operation' = [operation EXCEPT ![p].status = "queued"] /\ at' = at
  BY <1>0, <1>2 DEF OperationMoves, QueueEnters
<1>3. ASSUME line' = line,
        \/ ManualBackup \/ QueueDueDatabaseBackup \/ QueueDatabaseRestore
        \/ \E b \in Backups : QueueSafetyBackup(b)
      PROVE UNCHANGED <<operation, at>>
  <2>1. \A p \in Operations : ~Queued(p)
    BY <1>3, QueuedEnters, Inserted DEF BackupsInv
  <2>2. \A d, t : ~QueueDatabaseBackup(d, t)
    BY <2>1 DEF QueueDatabaseBackup, Unused, Operations
  <2>3. CASE QueueDatabaseRestore
    <3>1. (CHOOSE x \in Unused(Restores) : TRUE) \in Operations
      BY <2>3 DEF QueueDatabaseRestore, BackupsInv, QueueInv, RequestNames, Unused, Operations
    <3>. QED
      BY <2>1, <2>3, <3>1 DEF QueueDatabaseRestore, restoreRest
  <2>. QED
    BY <1>3, <2>2, <2>3 DEF ManualBackup, QueueDueDatabaseBackup, QueueSafetyBackup, scheduleRest, restoreRest
<1>4. ASSUME NEW d \in Destinations,
             \/ CreateBackupDestination(d) \/ UpdateBackupDestination(d) \/ CountRetained(d)
             \/ \E e \in BOOLEAN : SaveBackupPolicy(d, e)
      PROVE UNCHANGED <<operation, at>>
  BY <1>4 DEF CreateBackupDestination, UpdateBackupDestination, CountRetained, SaveBackupPolicy, destinationRest, workVars
<1>5. CASE BecomeDue \/ ListDueDatabaseBackupPolicies \/ AdvanceDatabaseBackupPolicySchedule \/ DeleteBackupDestination
           \/ CheckRestorable \/ \E b \in Backups : Expire(b)
  BY <1>1, <1>5 DEF BecomeDue, ListDueDatabaseBackupPolicies, AdvanceDatabaseBackupPolicySchedule,
     DeleteBackupDestination, CheckRestorable, Expire, scheduleRest, restoreRest, workVars
<1>6. ASSUME NEW b \in Backups, PrepareDatabaseBackupDeletion(b) \/ PrepareCopy(b) PROVE UNCHANGED <<operation, at>>
  BY <1>6 DEF PrepareDatabaseBackupDeletion, PrepareCopy, removeRest, restoreRest, workVars
<1>7. CASE DeleteInstance \/ CopyProvisioned \/ DatabaseSickens \/ DatabaseRecovers
  BY <1>1, <1>7 DEF DeleteInstance, CopyProvisioned, DatabaseSickens, DatabaseRecovers, outsideRest,
     workVars
<1>8. ASSUME NEW x \in Removers, RemoverStep(x) PROVE UNCHANGED <<operation, at>>
  BY <1>8 DEF RemoverStep, ListExpiredDatabaseBackups, NextExpired, MarkDatabaseBackupDeleting, EraseObject,
     DeleteDatabaseBackupRecord, removeRest, workVars
<1>9. ASSUME NEW p \in Operations, Claim(p) \/ ReadyFails(p) \/ Retry(p) PROVE OperationMoves(o)
  <2>1. CASE p # o
    BY <1>0, <1>9, <2>1 DEF Claim, ReadyFails, Retry, OperationMoves
  <2>2. CASE p = o /\ Retry(o)
    BY <1>0, <2>2 DEF Retry, OperationMoves, DeferralEnds
  <2>3. CASE p = o /\ ReadyFails(o)
    BY <1>0, <2>3 DEF ReadyFails, OldestClaimable, Claimable, OperationMoves, QueuedMoves, Ended
  <2>4. CASE p = o /\ Claim(o)
    <3>1. operation[o].status = "queued" /\ operation[o].attempt < MaxAttempts
      BY <2>4 DEF Claim, OldestClaimable, Claimable
    <3>2. CASE Target(o) = "deleted"
      BY <1>0, <2>4, <3>1, <3>2 DEF Claim, OperationMoves, QueuedMoves, Ended
    <3>3. CASE Target(o) # "deleted" /\ ReadyToRun(o)
      BY <1>0, <2>4, <3>1, <3>3 DEF Claim, OperationMoves, WorkerStarts
    <3>4. CASE Target(o) # "deleted" /\ ~ReadyToRun(o)
      BY <1>0, <2>4, <3>1, <3>4 DEF Claim, OperationMoves, QueuedMoves, ReadyToRun
    <3>. QED
      BY <3>2, <3>3, <3>4
  <2>. QED
    BY <1>9, <2>1, <2>2, <2>3, <2>4
<1>10. ASSUME NEW p \in Operations, BackupOperationStep(p) PROVE OperationMoves(o)
  <2>1. /\ at[p] # "idle"
        /\ \E s \in BackupPlaces \cup RestorePlaces :
             /\ at' = [at EXCEPT ![p] = s]
             /\ p \in Backups => s \in BackupPlaces
             /\ p \in Restores => s \in RestorePlaces
             /\ \/ s = "idle" /\ \E e \in Ended : operation' = [operation EXCEPT ![p].status = e]
                \/ s # "idle" /\ operation' = operation
                \/ s # "idle" /\ \E v \in Verdicts : operation' = [operation EXCEPT ![p].verdict = v]
    BY <1>10, HandlerFrame DEF BackupsInv
  <2>2. CASE p # o
    BY <1>0, <2>1, <2>2 DEF OperationMoves
  <2>3. CASE p = o
    BY <1>0, <1>10, <2>1, <2>3 DEF OperationMoves, WorkerGoesOn, WorkerEnds
  <2>. QED
    BY <2>2, <2>3
<1>11. CASE BackupsCrash \/ BackupsDrain
  <2>1. at'[o] = "idle"
    BY <1>11 DEF BackupsCrash, BackupsDrain, Interrupted
  <2>2. CASE BackupsCrash
    <3>1. operation'[o] = IF operation[o].status # "running" THEN [operation[o] EXCEPT !.deferred = FALSE]
            ELSE [operation[o] EXCEPT !.status = IF operation[o].attempt >= MaxAttempts THEN "failed" ELSE "queued"]
      BY <2>2 DEF BackupsCrash
    <3>2. MaxAttempts \in Nat
      OBVIOUS
    <3>. QED
      BY <1>0, <2>1, <3>1, <3>2 DEF OperationMoves, WorkerIsLost
  <2>3. CASE BackupsDrain
    <3>1. operation'[o] = IF operation[o].status # "running" THEN operation[o]
            ELSE [operation[o] EXCEPT !.status = "queued", !.attempt = operation[o].attempt - 1]
      BY <2>3 DEF BackupsDrain
    <3>. QED
      BY <2>1, <3>1 DEF OperationMoves, WorkerIsLost
  <2>. QED
    BY <1>11, <2>2, <2>3
<1>. QED
  BY <1>1, <1>2, <1>3, <1>4, <1>5, <1>6, <1>7, <1>8, <1>9, <1>10, <1>11, LineGrows
     DEF BackupsNext, BackupRequest, OutsideBackups, ScheduleStep, RestorerStep, backupsVars, workVars

\* A worker runs what its row says, within its attempts; what has ended stays so.
LEMMA WorkersRun ==
  ASSUME BackupsInv, [BackupsNext]_backupsVars, NEW o \in Operations
  PROVE /\ WorkerRuns(o)'
        /\ operation[o].status \in Ended => operation'[o].status \in Ended
        /\ operation[o].status # "absent" => operation'[o].status # "absent"
<1>. USE BackupsAssumption DEF Ended
<1>1. OperationMoves(o)
  BY OperationSteps
<1>2. WorkerRuns(o) /\ RowsFollowLine(o) /\ operation[o] \in OperationRows
  BY DEF BackupsInv, QueueInv, BackupsTypes, WorkTypes
<1>3. operation[o].attempt \in Nat /\ MaxAttempts \in Nat /\ (o \in Backups <=> o \notin Restores)
  BY <1>2 DEF OperationRows, Operations
<1>. USE DEF WorkerRuns
<1>4. CASE operation'[o] = operation[o] /\ at'[o] = at[o]
  BY <1>2, <1>4
<1>5. CASE QueueEnters(o)
  BY <1>2, <1>3, <1>5 DEF QueueEnters, RowsFollowLine, OperationRows
<1>6. CASE WorkerStarts(o)
  BY <1>2, <1>3, <1>6 DEF WorkerStarts, OperationRows, BackupPlaces, RestorePlaces
<1>7. CASE QueuedMoves(o) \/ DeferralEnds(o)
  BY <1>2, <1>3, <1>7 DEF QueuedMoves, DeferralEnds, OperationRows
<1>8. CASE WorkerGoesOn(o) \/ WorkerEnds(o)
  BY <1>2, <1>3, <1>8 DEF WorkerGoesOn, WorkerEnds, OperationRows, BackupPlaces, RestorePlaces
<1>9. CASE WorkerIsLost(o)
  <2>1. at'[o] = "idle" /\ at'[o] \in BackupPlaces /\ at'[o] \in RestorePlaces
    BY <1>9 DEF WorkerIsLost, BackupPlaces, RestorePlaces
  <2>2. operation'[o].status # "running" /\ (o \in Backups => ~operation'[o].deferred)
    BY <1>2, <1>9 DEF WorkerIsLost, OperationRows
  <2>3. operation'[o].status = "queued" => operation'[o].attempt < MaxAttempts
    <3>1. CASE operation[o].status # "running"
      BY <1>2, <1>3, <1>9, <3>1 DEF WorkerIsLost, OperationRows
    <3>2. CASE operation[o].status = "running"
      <4>1. operation[o].attempt \in 1..MaxAttempts
        BY <1>2, <1>3, <3>2 DEF OperationRows
      <4>2. \/ operation'[o].status = "failed"
            \/ operation'[o].attempt = operation[o].attempt /\ operation[o].attempt < MaxAttempts
            \/ operation'[o].attempt = operation[o].attempt - 1
        BY <1>2, <1>9, <3>2 DEF WorkerIsLost, OperationRows
      <4>. QED
        BY <1>3, <4>1, <4>2
    <3>. QED
      BY <3>1, <3>2
  <2>4. /\ operation[o].status \in Ended => operation'[o].status \in Ended
        /\ operation[o].status # "absent" => operation'[o].status # "absent"
    BY <1>2, <1>9 DEF WorkerIsLost, OperationRows
  <2>. QED
    BY <2>1, <2>2, <2>3, <2>4
<1>. QED
  BY <1>1, <1>4, <1>5, <1>6, <1>7, <1>8, <1>9 DEF OperationMoves

\* What a step may do to a restore job.
JobEnters(r) ==
  /\ r \notin ToSet(line) /\ Enters(r) /\ restorer.step = "insert"
  /\ job'[r] = [status |-> "queued", source |-> restorer.source, safety |-> restorer.safety, mode |-> restorer.mode]

JobMoves(r) ==
  \/ job'[r] = job[r]
  \/ job[r] # NoJob /\ \E s \in JobStatuses \ {"absent"} : job'[r] = [job[r] EXCEPT !.status = s]
  \/ JobEnters(r)

LEMMA JobSteps ==
  ASSUME BackupsInv, [BackupsNext]_backupsVars, NEW r \in Restores
  PROVE /\ JobMoves(r)
        /\ r \notin ToSet(line) /\ Enters(r) => JobEnters(r)
<1>. USE BackupsAssumption DEF lineVars, completeRest, Completed, CompletedUnread
<1>0. /\ job \in [Restores -> JobRows] /\ r \in Operations
      /\ Enters(r) => line' # line
      /\ \A o \in Operations : r \notin ToSet(line) /\ Enters(r) /\ Enters(o) => o = r
      /\ \A b \in Backups : b \in Operations /\ b # r
  <2>1. r \in Operations /\ job \in [Restores -> JobRows] /\ \A b \in Backups : b \in Operations /\ b # r
    BY DEF BackupsInv, BackupsTypes, RowTypes, Operations
  <2>2. Enters(r) => line' # line
    BY <2>1, Inserted DEF BackupsInv
  <2>3. \A o \in Operations : r \notin ToSet(line) /\ Enters(r) /\ Enters(o) => o = r
    BY <2>1, OneEnters DEF BackupsInv
  <2>. QED
    BY <2>1, <2>2, <2>3
<1>1. CASE job' = job /\ line' = line
  BY <1>0, <1>1 DEF JobMoves
<1>2. CASE job' = job /\ \E b \in Backups : Enters(b)
  BY <1>0, <1>2 DEF JobMoves
<1>3. CASE \/ ManualBackup \/ QueueDueDatabaseBackup \/ \E b \in Backups : QueueSafetyBackup(b)
  <2>1. job' = job
    BY <1>3 DEF ManualBackup, QueueDueDatabaseBackup, QueueSafetyBackup, scheduleRest
  <2>2. \A d, t : QueueDatabaseBackup(d, t) => \E b \in Backups : Enters(b)
    <3>1. ASSUME NEW d, NEW t, QueueDatabaseBackup(d, t) PROVE \E b \in Backups : Enters(b)
      BY <3>1, QueuedBackup DEF Unused
    <3>. QED
      BY <3>1
  <2>3. line' = line \/ \E b \in Backups : Enters(b)
    BY <1>3, <2>2 DEF ManualBackup, QueueDueDatabaseBackup, QueueSafetyBackup
  <2>. QED
    BY <1>1, <1>2, <2>1, <2>3
<1>4. CASE QueueDatabaseRestore
  <2>. DEFINE n == CHOOSE x \in Unused(Restores) : TRUE
              row == [status |-> "queued", source |-> restorer.source, safety |-> restorer.safety, mode |-> restorer.mode]
  <2>1. n \in Unused(Restores) /\ restorer.step = "insert"
    BY <1>4 DEF QueueDatabaseRestore, BackupsInv, QueueInv, RequestNames
  <2>0. (Queued(n) /\ job' = [job EXCEPT ![n] = row]) \/ (line' = line /\ job' = job)
    BY <1>4 DEF QueueDatabaseRestore
  <2>. HIDE DEF n
  <2>3. n \in Restores /\ n \notin ToSet(line) /\ n \in Operations
    BY <2>1 DEF Unused, Operations
  <2>2. (Enters(n) /\ job' = [job EXCEPT ![n] = row]) \/ (line' = line /\ job' = job)
    BY <2>0, <2>3, QueuedEnters DEF BackupsInv
  <2>4. CASE Enters(n) /\ job' = [job EXCEPT ![n] = row]
    <3>1. CASE n = r
      BY <1>0, <2>1, <2>3, <2>4, <3>1 DEF JobMoves, JobEnters
    <3>2. CASE n # r
      BY <1>0, <2>3, <2>4, <3>2 DEF JobMoves
    <3>. QED
      BY <3>1, <3>2
  <2>. QED
    BY <1>1, <2>2, <2>4
<1>5. CASE UNCHANGED backupsVars
  BY <1>1, <1>5 DEF backupsVars, rowVars
<1>6. ASSUME NEW d \in Destinations,
             \/ CreateBackupDestination(d) \/ UpdateBackupDestination(d) \/ CountRetained(d)
             \/ \E e \in BOOLEAN : SaveBackupPolicy(d, e)
      PROVE job' = job /\ line' = line
  BY <1>6 DEF CreateBackupDestination, UpdateBackupDestination, CountRetained, SaveBackupPolicy, destinationRest, rowVars
<1>7. CASE BecomeDue \/ ListDueDatabaseBackupPolicies \/ AdvanceDatabaseBackupPolicySchedule \/ DeleteBackupDestination
           \/ CheckRestorable \/ \E b \in Backups : Expire(b)
  BY <1>1, <1>7 DEF BecomeDue, ListDueDatabaseBackupPolicies, AdvanceDatabaseBackupPolicySchedule,
     DeleteBackupDestination, CheckRestorable, Expire, scheduleRest, restoreRest, rowVars
<1>8. ASSUME NEW b \in Backups, PrepareDatabaseBackupDeletion(b) \/ PrepareCopy(b) PROVE job' = job /\ line' = line
  BY <1>8 DEF PrepareDatabaseBackupDeletion, PrepareCopy, removeRest, restoreRest, rowVars
<1>9. CASE DeleteInstance \/ CopyProvisioned \/ DatabaseSickens \/ DatabaseRecovers
  BY <1>1, <1>9 DEF DeleteInstance, CopyProvisioned, DatabaseSickens, DatabaseRecovers, outsideRest,
     rowVars
<1>10. ASSUME NEW x \in Removers, RemoverStep(x) PROVE job' = job /\ line' = line
  BY <1>10 DEF RemoverStep, ListExpiredDatabaseBackups, NextExpired, MarkDatabaseBackupDeleting, EraseObject,
     DeleteDatabaseBackupRecord, removeRest
<1>11. ASSUME NEW o \in Operations, Claim(o) \/ ReadyFails(o) \/ Retry(o) PROVE job' = job /\ line' = line
  BY <1>11 DEF Claim, ReadyFails, Retry, claimRest, rowVars
<1>12. ASSUME NEW o \in Operations, BackupOperationStep(o)
       PROVE /\ line' = line
             /\ \/ job' = job
                \/ at[o] # "idle" /\ o \in Restores /\ \E s \in JobStatuses \ {"absent"} : job' = [job EXCEPT ![o].status = s]
  <2>1. line' = line /\ at[o] # "idle"
    BY <1>12, HandlerFrame DEF BackupsInv
  <2>2. CASE ReserveDisk(o) \/ ReportSuccess(o) \/ EndOperation(o) \/ Cancelled(o)
    BY <2>1, <2>2 DEF ReserveDisk, ReportSuccess, EndOperation, Cancelled, rowVars
  <2>3. CASE FailCompanion(o)
    BY <2>1, <2>3 DEF FailCompanion, rowVars, JobStatuses, Operations
  <2>4. CASE o \in Backups /\ BackupStep(o)
    BY <2>1, <2>4 DEF BackupStep, MarkDatabaseBackupRunning, OpenDestination, UploadDump, VerifyObject,
       CompleteDatabaseBackup, DiscardObject, rowVars
  <2>5. CASE o \in Restores /\ RestoreStep(o)
    BY <2>1, <2>5 DEF RestoreStep, CheckRestore, StopDatabaseConsumers, BeginPayload, EndPayload, RestoreSucceeded,
       RestartDatabaseConsumers, rowVars, JobStatuses
  <2>. QED
    BY <1>12, <2>2, <2>3, <2>4, <2>5 DEF BackupOperationStep
<1>13. ASSUME NEW o \in Operations, BackupOperationStep(o) PROVE JobMoves(r) /\ line' = line
  <2>1. CASE job' = job
    BY <1>12, <1>13, <2>1 DEF JobMoves
  <2>2. CASE o # r /\ \E s \in JobStatuses \ {"absent"} : job' = [job EXCEPT ![o].status = s]
    BY <1>0, <1>12, <1>13, <2>2 DEF JobMoves
  <2>3. CASE o = r /\ at[o] # "idle" /\ \E s \in JobStatuses \ {"absent"} : job' = [job EXCEPT ![o].status = s]
    <3>1. job[r] # NoJob
      BY <2>3 DEF BackupsInv, RestoreInv
    <3>. QED
      BY <1>0, <1>12, <1>13, <2>3, <3>1 DEF JobMoves
  <2>. QED
    BY <1>12, <1>13, <2>1, <2>2, <2>3
<1>14. CASE BackupsCrash
  <2>1. job'[r] = Recovered(r, job[r]) /\ line' = line
    BY <1>14 DEF BackupsCrash, Interrupted
  <2>2. job'[r] = job[r] \/ (job[r].status \in {"queued", "running"} /\ \E s \in {"queued", "failed"} : job'[r] = [job[r] EXCEPT !.status = s])
    BY <2>1 DEF Recovered
  <2>3. job[r].status \in {"queued", "running"} => job[r] # NoJob
    BY DEF NoJob
  <2>4. JobMoves(r)
    BY <2>2, <2>3 DEF JobMoves, JobStatuses
  <2>. QED
    BY <1>0, <2>1, <2>4
<1>15. CASE BackupsDrain
  BY <1>1, <1>15 DEF BackupsDrain, Interrupted, rowVars
<1>. QED
  BY <1>0, <1>1, <1>3, <1>4, <1>5, <1>6, <1>7, <1>8, <1>9, <1>10, <1>11, <1>13, <1>14, <1>15
     DEF BackupsNext, BackupRequest, OutsideBackups, ScheduleStep, RestorerStep

\* What a step may do to a backup row.
RowEnters(b) ==
  /\ b \notin ToSet(line) /\ Enters(b)
  /\ \E d \in Destinations, t \in {"manual", "scheduled", "safety"} :
       backup'[b] = [NoBackup EXCEPT !.status = "queued", !.trigger = t, !.destination = d]

\* The deletions, the clock and the destinations.
RowIsTaken(b) ==
  \/ backup[b].status \in {"success", "deleting"} /\ backup'[b] = [backup[b] EXCEPT !.expired = TRUE]
  \/ backup[b].destination # None /\ backup'[b] = [backup[b] EXCEPT !.destination = None]
  \/ backup[b].status \in {"success", "deleting"} /\ backup'[b] = [backup[b] EXCEPT !.status = "deleting"]
  \/ backup[b].status \in {"deleting", "failed", "cancelled"} /\ ~Referenced(b) /\ backup'[b] = NoBackup

\* The worker of its operation.
RowIsMade(b) ==
  /\ at[b] # "idle" /\ backup[b].status # "absent"
  /\ \/ /\ at[b] = "mark" /\ at'[b] = "open" /\ backup[b].status = "queued"
        /\ backup'[b] = [backup[b] EXCEPT !.status = "running"]
     \/ UploadDump(b) /\ at[b] = "dump" /\ at'[b] = "verify" /\ backup'[b] = [backup[b] EXCEPT !.content = contents]
     \/ /\ at[b] = "complete" /\ at'[b] \in {"report", "abandon", "idle"}
        /\ (at'[b] = "report" /\ stored' = stored) \/ (at'[b] # "report" /\ b \in unread')
        /\ backup'[b] = [backup[b] EXCEPT !.status = "success", !.keyed = TRUE]
     \/ at[b] = "fail" /\ at'[b] = "end" /\ backup'[b] = [backup[b] EXCEPT !.status = "failed", !.keyed = FALSE]

RowIsRecovered(b) ==
  /\ operation[b].status = "running" /\ at'[b] = "idle" /\ backup[b].status \in {"queued", "running"}
  /\ \E s \in {"queued", "failed"} : backup'[b] = [backup[b] EXCEPT !.status = s]

RowMoves(b) ==
  backup'[b] = backup[b] \/ RowEnters(b) \/ RowIsTaken(b) \/ RowIsMade(b) \/ RowIsRecovered(b)

LEMMA RowSteps ==
  ASSUME BackupsInv, [BackupsNext]_backupsVars, NEW b \in Backups
  PROVE RowMoves(b)
<1>. USE BackupsAssumption DEF lineVars, completeRest, Completed, CompletedUnread
<1>0. backup \in [Backups -> BackupRows] /\ b \in Operations /\ policy.destination \in Destinations \cup {None}
      /\ at \in [Operations -> BackupPlaces \cup RestorePlaces]
  BY DEF BackupsInv, BackupsTypes, RowTypes, WorkTypes, Policies, Operations
<1>1. CASE backup' = backup
  BY <1>1 DEF RowMoves
<1>2. ASSUME NEW d \in Destinations \cup {None}, NEW t \in {"manual", "scheduled", "safety"}, QueueDatabaseBackup(d, t)
      PROVE RowMoves(b)
  <2>1. PICK c \in Unused(Backups) :
          /\ Enters(c)
          /\ backup' = [backup EXCEPT ![c] = [NoBackup EXCEPT !.status = "queued", !.trigger = t, !.destination = d]]
    BY <1>2, QueuedBackup
  <2>2. d \in Destinations
    BY <1>2 DEF QueueDatabaseBackup
  <2>3. CASE c = b
    BY <1>0, <2>1, <2>2, <2>3 DEF RowMoves, RowEnters, Unused
  <2>4. CASE c # b
    BY <1>0, <2>1, <2>4 DEF RowMoves
  <2>. QED
    BY <2>3, <2>4
<1>3. CASE ManualBackup \/ QueueDueDatabaseBackup \/ \E c \in Backups : QueueSafetyBackup(c)
  BY <1>0, <1>1, <1>2, <1>3 DEF ManualBackup, QueueDueDatabaseBackup, QueueSafetyBackup
<1>4. CASE UNCHANGED backupsVars
  BY <1>1, <1>4 DEF backupsVars, rowVars
<1>5. ASSUME NEW d \in Destinations,
             \/ CreateBackupDestination(d) \/ UpdateBackupDestination(d) \/ CountRetained(d)
             \/ \E e \in BOOLEAN : SaveBackupPolicy(d, e)
      PROVE backup' = backup
  BY <1>5 DEF CreateBackupDestination, UpdateBackupDestination, CountRetained, SaveBackupPolicy, destinationRest, rowVars
<1>6. CASE BecomeDue \/ ListDueDatabaseBackupPolicies \/ AdvanceDatabaseBackupPolicySchedule \/ CheckRestorable
           \/ QueueDatabaseRestore
  BY <1>1, <1>6 DEF BecomeDue, ListDueDatabaseBackupPolicies, AdvanceDatabaseBackupPolicySchedule, CheckRestorable,
     QueueDatabaseRestore, scheduleRest, restoreRest, rowVars
<1>7. ASSUME NEW c \in Backups, Expire(c) PROVE RowMoves(b)
  BY <1>0, <1>7 DEF Expire, RowMoves, RowIsTaken
<1>8. CASE DeleteBackupDestination
  BY <1>0, <1>8 DEF DeleteBackupDestination, RowMoves, RowIsTaken
<1>9. ASSUME NEW c \in Backups, PrepareDatabaseBackupDeletion(c) \/ PrepareCopy(c) PROVE backup' = backup
  BY <1>9 DEF PrepareDatabaseBackupDeletion, PrepareCopy, removeRest, restoreRest, rowVars
<1>10. CASE DeleteInstance \/ CopyProvisioned \/ DatabaseSickens \/ DatabaseRecovers
  BY <1>1, <1>10 DEF DeleteInstance, CopyProvisioned, DatabaseSickens, DatabaseRecovers, outsideRest,
     rowVars
<1>11. ASSUME NEW x \in Removers, RemoverStep(x) PROVE RowMoves(b)
  <2>1. CASE MarkDatabaseBackupDeleting(x)
    <3>1. CASE Marked(remover[x].backup)
      <4>1. CASE remover[x].backup = b
        <5>1. [backup[b] EXCEPT !.status = backup[b].status] = backup[b]
          BY <1>0 DEF BackupRows
        <5>2. backup'[b] = [backup[b] EXCEPT !.status =
                IF backup[b].status \in {"success", "deleting"} THEN "deleting" ELSE backup[b].status]
          BY <1>0, <3>1, <4>1 DEF Marked
        <5>. QED
          BY <5>1, <5>2 DEF RowMoves, RowIsTaken
      <4>2. CASE remover[x].backup # b
        BY <1>0, <3>1, <4>2 DEF Marked, RowMoves
      <4>. QED
        BY <4>1, <4>2
    <3>. QED
      BY <1>1, <2>1, <3>1 DEF MarkDatabaseBackupDeleting
  <2>2. CASE DeleteDatabaseBackupRecord(x)
    <3>1. CASE remover[x].backup = b
      BY <1>0, <2>2, <3>1 DEF DeleteDatabaseBackupRecord, RowMoves, RowIsTaken
    <3>2. CASE remover[x].backup # b
      BY <1>0, <2>2, <3>2 DEF DeleteDatabaseBackupRecord, RowMoves
    <3>. QED
      BY <3>1, <3>2
  <2>3. CASE EraseObject(x) \/ ListExpiredDatabaseBackups \/ NextExpired
    BY <1>1, <2>3 DEF EraseObject, ListExpiredDatabaseBackups, NextExpired
  <2>. QED
    BY <1>11, <2>1, <2>2, <2>3 DEF RemoverStep
<1>12. ASSUME NEW o \in Operations, Claim(o) \/ ReadyFails(o) \/ Retry(o) PROVE backup' = backup
  BY <1>12 DEF Claim, ReadyFails, Retry, claimRest, rowVars
<1>13. ASSUME NEW o \in Operations, BackupOperationStep(o) PROVE RowMoves(b)
  <2>0. \A c \in Backups : at[c] \in {"dump", "complete"} => backup[c].status = "running"
    BY DEF BackupsInv, BackupInv, RowIsMine, Given, Opened
  <2>1. CASE ReserveDisk(o) \/ ReportSuccess(o) \/ EndOperation(o)
    BY <1>1, <2>1 DEF ReserveDisk, ReportSuccess, EndOperation, rowVars
  <2>8. CASE Cancelled(o)
    <3>1. CASE backup' = backup
      BY <1>1, <3>1
    <3>2. CASE at[o] = "complete" /\ CompletedUnread(o)
      <4>1. CASE o = b
        BY <1>0, <2>0, <2>8, <3>2, <4>1 DEF Cancelled, RowMoves, RowIsMade
      <4>2. CASE o # b
        BY <1>0, <3>2, <4>2 DEF RowMoves
      <4>. QED
        BY <4>1, <4>2
    <3>. QED
      BY <2>8, <3>1, <3>2 DEF Cancelled
  <2>2. CASE FailCompanion(o)
    BY <1>0, <2>2 DEF FailCompanion, rowVars, RowMoves, RowIsMade, Step
  <2>3. CASE o \in Backups /\ (OpenDestination(o) \/ VerifyObject(o) \/ DiscardObject(o))
    BY <1>1, <2>3 DEF OpenDestination, VerifyObject, DiscardObject, rowVars
  <2>4. CASE o \in Backups /\ MarkDatabaseBackupRunning(o)
    BY <1>0, <2>4 DEF MarkDatabaseBackupRunning, RowMoves, RowIsMade, Step, Decide
  <2>5. CASE o \in Backups /\ UploadDump(o)
    BY <1>0, <2>0, <2>5 DEF UploadDump, RowMoves, RowIsMade, Opened, Step, Decide
  <2>6. CASE o \in Backups /\ CompleteDatabaseBackup(o)
    <3>1. CASE o = b
      BY <1>0, <2>0, <2>6, <3>1 DEF CompleteDatabaseBackup, RowMoves, RowIsMade, Step, Decide
    <3>2. CASE o # b
      BY <1>0, <2>6, <3>2 DEF CompleteDatabaseBackup, RowMoves
    <3>. QED
      BY <3>1, <3>2
  <2>7. CASE o \in Restores /\ RestoreStep(o)
    BY <1>1, <2>7 DEF RestoreStep, CheckRestore, StopDatabaseConsumers, BeginPayload, EndPayload, RestoreSucceeded,
       RestartDatabaseConsumers, rowVars
  <2>. QED
    BY <1>13, <2>1, <2>2, <2>3, <2>4, <2>5, <2>6, <2>7, <2>8 DEF BackupOperationStep, BackupStep
<1>14. CASE BackupsCrash
  BY <1>0, <1>14 DEF BackupsCrash, Interrupted, Recovered, RowMoves, RowIsRecovered
<1>15. CASE BackupsDrain
  BY <1>1, <1>15 DEF BackupsDrain, Interrupted, rowVars
<1>. QED
  BY <1>3, <1>4, <1>5, <1>6, <1>7, <1>8, <1>9, <1>10, <1>11, <1>12, <1>13, <1>14, <1>15, <1>1
     DEF BackupsNext, BackupRequest, OutsideBackups, ScheduleStep, RestorerStep

-----------------------------------------------------------------------------
(***************************************************************************)
(* The queue invariant.                                                    *)
(***************************************************************************)
LEMMA RowsFollow ==
  ASSUME BackupsInv, [BackupsNext]_backupsVars, NEW o \in Operations
  PROVE RowsFollowLine(o)'
<1>. USE BackupsAssumption
<1>0. /\ RowsFollowLine(o) /\ WorkerRuns(o)
      /\ operation[o] \in OperationRows /\ (o \in Backups <=> o \notin Restores)
  BY DEF BackupsInv, BackupsTypes, QueueInv, WorkTypes, Operations
<1>1. OperationMoves(o)
  BY OperationSteps
<1>2. CASE o \in ToSet(line)
  <2>1. o \in ToSet(line)' /\ operation'[o].status # "absent"
    BY <1>0, <1>2, LineKept, WorkersRun DEF RowsFollowLine
  <2>2. o \in Restores => job'[o] # NoJob
    <3>1. ASSUME o \in Restores PROVE job'[o] # NoJob
      <4>1. job[o] # NoJob /\ JobMoves(o) /\ o \notin Backups
        BY <1>0, <1>2, <3>1, JobSteps DEF RowsFollowLine
      <4>2. job[o] \in JobRows
        BY <3>1 DEF BackupsInv, BackupsTypes, RowTypes
      <4>3. \A s \in JobStatuses \ {"absent"} : [job[o] EXCEPT !.status = s].status # "absent"
        BY <4>2 DEF JobRows
      <4>4. NoJob.status = "absent" /\ ~JobEnters(o)
        BY <1>2 DEF NoJob, JobEnters
      <4>. QED
        BY <4>1, <4>3, <4>4 DEF JobMoves
    <3>. QED
      BY <3>1
  <2>. QED
    BY <2>1, <2>2 DEF RowsFollowLine
<1>3. CASE o \notin ToSet(line) /\ Enters(o)
  <2>1. o \in ToSet(line)'
    BY <1>3, Inserted DEF BackupsInv
  <2>2. at[o] = "idle" /\ operation[o].status = "absent"
    BY <1>0, <1>3 DEF RowsFollowLine, WorkerRuns
  <2>3. PICK p \in Operations \ ToSet(line) :
          Enters(p) /\ operation' = [operation EXCEPT ![p].status = "queued"]
    <3>1. line' # line
      BY <1>3, Inserted DEF BackupsInv
    <3>. QED
      BY <1>3, <3>1, LineGrows
  <2>4. p = o
    BY <1>3, <2>3, OneEnters DEF BackupsInv
  <2>5. operation'[o].status = "queued"
    BY <1>0, <2>3, <2>4 DEF BackupsInv, BackupsTypes, WorkTypes, OperationRows
  <2>6. o \in Restores => job'[o] # NoJob
    BY <1>3, JobSteps DEF JobEnters, NoJob
  <2>. QED
    BY <2>1, <2>5, <2>6 DEF RowsFollowLine
<1>4. CASE o \notin ToSet(line) /\ ~Enters(o)
  <2>1. o \notin ToSet(line)'
    <3>1. CASE line' = line
      BY <1>4, <3>1 DEF ToSet
    <3>2. CASE \E p \in Operations \ ToSet(line) : Enters(p)
      BY <1>4, <3>2, Inserted DEF BackupsInv
    <3>. QED
      BY <3>1, <3>2, LineGrows
  <2>2. /\ operation[o].status = "absent" /\ operation[o].attempt = 0 /\ at[o] = "idle"
        /\ o \in Backups => backup[o] = NoBackup
        /\ o \in Restores => job[o] = NoJob
    BY <1>0, <1>4 DEF RowsFollowLine, WorkerRuns
  <2>3. operation'[o].status = "absent" /\ operation'[o].attempt = 0
    BY <1>0, <1>1, <1>4, <2>2 DEF OperationMoves, QueueEnters, WorkerStarts, QueuedMoves, DeferralEnds, WorkerGoesOn,
       WorkerEnds, WorkerIsLost, OperationRows
  <2>4. o \in Restores => job'[o] = NoJob
    BY <1>4, <2>2, JobSteps DEF JobMoves, JobEnters
  <2>5. o \in Backups => backup'[o] = NoBackup
    <3>1. ASSUME o \in Backups PROVE backup'[o] = NoBackup
      <4>1. RowMoves(o) /\ backup[o] = NoBackup
        BY <3>1, <2>2, RowSteps
      <4>2. backup[o].status = "absent" /\ backup[o].destination = None
        BY <4>1 DEF NoBackup
      <4>. QED
        BY <1>4, <2>2, <4>1, <4>2 DEF RowMoves, RowEnters, RowIsTaken, RowIsMade, RowIsRecovered
    <3>. QED
      BY <3>1
  <2>. QED
    BY <2>1, <2>3, <2>4, <2>5 DEF RowsFollowLine
<1>. QED
  BY <1>2, <1>3, <1>4

LEMMA JobKeepsNames ==
  ASSUME BackupsInv, [BackupsNext]_backupsVars, NEW r \in Restores, job[r] # NoJob
  PROVE /\ job'[r] # NoJob /\ job'[r].status # "absent"
        /\ job'[r].source = job[r].source /\ job'[r].safety = job[r].safety /\ job'[r].mode = job[r].mode
<1>1. job[r] \in JobRows /\ job[r].status # "absent" /\ JobMoves(r) /\ r \in Operations
  BY JobSteps DEF BackupsInv, BackupsTypes, RowTypes, QueueInv, JobNames, Operations
<1>2. r \in ToSet(line)
  BY <1>1 DEF BackupsInv, QueueInv, RowsFollowLine
<1>3. NoJob.status = "absent" /\ ~JobEnters(r)
  BY <1>2 DEF NoJob, JobEnters
<1>4. CASE job'[r] = job[r]
  BY <1>1, <1>4
<1>5. CASE \E s \in JobStatuses \ {"absent"} : job'[r] = [job[r] EXCEPT !.status = s]
  <2>1. job'[r].status # "absent"
    BY <1>1, <1>5 DEF JobRows
  <2>. QED
    BY <1>1, <1>3, <1>5, <2>1 DEF JobRows
<1>. QED
  BY <1>1, <1>3, <1>4, <1>5 DEF JobMoves

LEMMA JobNamesKept ==
  ASSUME BackupsInv, [BackupsNext]_backupsVars, NEW r \in Restores
  PROVE JobNames(r)'
<1>. USE BackupsAssumption
<1>1. JobNames(r) /\ r \in Operations /\ job[r] \in JobRows
  BY DEF BackupsInv, QueueInv, BackupsTypes, RowTypes, Operations
<1>2. CASE job[r] # NoJob
  <2>1. job[r].source \in Operations /\ (job[r].safety # None => job[r].safety \in Operations)
    BY <1>1, <1>2 DEF JobNames, JobRows, Operations
  <2>2. ToSet(line) \subseteq ToSet(line)' /\ \A s, q \in Operations : Behind(s, q) => Behind(s, q)'
    BY LineKept
  <2>4. /\ job'[r] # NoJob /\ job'[r].status # "absent"
        /\ job'[r].source = job[r].source /\ job'[r].safety = job[r].safety /\ job'[r].mode = job[r].mode
    BY <1>2, JobKeepsNames
  <2>. QED
    BY <1>1, <1>2, <2>1, <2>2, <2>4 DEF JobNames, Behind
<1>3. CASE job[r] = NoJob /\ job'[r] # NoJob
  <2>1. JobEnters(r)
    BY <1>3, JobSteps DEF JobMoves
  <2>2. ToSet(line) \subseteq ToSet(line)' /\ \A s \in ToSet(line) : Behind(s, r)' \/ Behind(r, s)'
    BY <1>1, <2>1, Inserted DEF JobEnters, BackupsInv
  <2>3. /\ restorer.source \in Backups /\ restorer.source \in ToSet(line)
        /\ restorer.mode \in {"replace_current", "new_service"}
        /\ (restorer.mode = "replace_current") <=> (restorer.safety # None)
        /\ restorer.safety # None => restorer.safety \in ToSet(line)
    BY <2>1 DEF JobEnters, BackupsInv, QueueInv, RequestNames
  <2>. QED
    BY <2>1, <2>2, <2>3 DEF JobEnters, JobNames, Behind
<1>. QED
  BY <1>2, <1>3 DEF JobNames

LEMMA RequestNamesKept ==
  ASSUME BackupsInv, [BackupsNext]_backupsVars
  PROVE RequestNames'
<1>. USE BackupsAssumption DEF lineVars, completeRest, Completed, CompletedUnread
<1>1. ASSUME NEW b \in Unused(Backups), Enters(b)
      PROVE /\ Unused(Restores)' = Unused(Restores) /\ ToSet(line)' = ToSet(line) \cup {b}
  BY <1>1, Inserted DEF Unused, Operations, BackupsInv
<1>2. CASE restorer' = NoRequest
  BY <1>2 DEF RequestNames, NoRequest
<1>3. CASE restorer' = restorer /\ line' = line
  BY <1>3 DEF BackupsInv, QueueInv, RequestNames, Unused, ToSet
<1>4. CASE restorer' = restorer /\ \E b \in Unused(Backups) : Enters(b)
  BY <1>1, <1>4 DEF BackupsInv, QueueInv, RequestNames
<1>5. ASSUME NEW d, NEW t, QueueDatabaseBackup(d, t), restorer' = restorer PROVE RequestNames'
  BY <1>4, <1>5, QueuedBackup
<1>6. CASE ManualBackup
  BY <1>5, <1>6 DEF ManualBackup, requestVars
<1>7. CASE QueueDueDatabaseBackup
  BY <1>3, <1>5, <1>7 DEF QueueDueDatabaseBackup, scheduleRest, requestVars
<1>8. ASSUME NEW b \in Backups, QueueSafetyBackup(b) PROVE RequestNames'
  <2>. DEFINE s == CHOOSE x \in Unused(Backups) : TRUE
  <2>1. s \in Unused(Backups) /\ Enters(s)
    <3>1. PICK c \in Unused(Backups) : c = s /\ Enters(c)
      BY <1>8, QueuedBackup DEF QueueSafetyBackup
    <3>. QED
      BY <3>1
  <2>2. restorer' = [source |-> b, safety |-> s, mode |-> "replace_current", step |-> "check"]
        /\ Unused(Restores) # {} /\ backup[b].status = "success"
    BY <1>8 DEF QueueSafetyBackup
  <2>. HIDE DEF s
  <2>3. b \in ToSet(line)
    BY <2>2 DEF BackupsInv, QueueInv, RowsFollowLine, Operations, NoBackup
  <2>4. s \in Backups /\ s # None
    BY <2>1 DEF Unused
  <2>5. Unused(Restores)' = Unused(Restores) /\ ToSet(line)' = ToSet(line) \cup {s}
    BY <1>1, <2>1
  <2>. QED
    BY <2>2, <2>3, <2>4, <2>5 DEF RequestNames
<1>9. ASSUME NEW b \in Backups, PrepareCopy(b) PROVE RequestNames'
  <2>1. b \in ToSet(line)
    BY <1>9 DEF PrepareCopy, BackupsInv, QueueInv, RowsFollowLine, Operations, NoBackup
  <2>2. Unused(Restores)' = Unused(Restores) /\ ToSet(line)' = ToSet(line) /\ Unused(Restores) # {}
    BY <1>9 DEF PrepareCopy, Unused, ToSet
  <2>. QED
    BY <1>9, <2>1, <2>2 DEF PrepareCopy, RequestNames
<1>10. CASE CheckRestorable
  <2>1. CASE restorer' = [restorer EXCEPT !.step = "insert"] /\ restorer.step = "check" /\ line' = line
    <3>1. restorer \in RequestRows
      BY DEF BackupsInv, BackupsTypes, RestTypes
    <3>2. /\ restorer'.source = restorer.source /\ restorer'.safety = restorer.safety /\ restorer'.mode = restorer.mode
      BY <2>1, <3>1 DEF RequestRows
    <3>. QED
      BY <2>1, <3>2 DEF BackupsInv, QueueInv, RequestNames, Unused, ToSet
  <2>. QED
    BY <1>2, <1>10, <2>1 DEF CheckRestorable
<1>11. CASE QueueDatabaseRestore \/ BackupsCrash \/ BackupsDrain
  BY <1>2, <1>11 DEF QueueDatabaseRestore, BackupsCrash, BackupsDrain, Interrupted
<1>12. CASE UNCHANGED backupsVars
  BY <1>3, <1>12 DEF backupsVars, requestVars
<1>13. ASSUME NEW d \in Destinations,
             \/ CreateBackupDestination(d) \/ UpdateBackupDestination(d) \/ CountRetained(d)
             \/ \E e \in BOOLEAN : SaveBackupPolicy(d, e)
      PROVE restorer' = restorer /\ line' = line
  BY <1>13 DEF CreateBackupDestination, UpdateBackupDestination, CountRetained, SaveBackupPolicy, destinationRest,
     requestVars
<1>14. CASE BecomeDue \/ ListDueDatabaseBackupPolicies \/ AdvanceDatabaseBackupPolicySchedule \/ DeleteBackupDestination
           \/ \E b \in Backups : Expire(b)
  BY <1>3, <1>14 DEF BecomeDue, ListDueDatabaseBackupPolicies, AdvanceDatabaseBackupPolicySchedule,
     DeleteBackupDestination, Expire, scheduleRest, requestVars
<1>15. ASSUME NEW b \in Backups, PrepareDatabaseBackupDeletion(b) PROVE restorer' = restorer /\ line' = line
  BY <1>15 DEF PrepareDatabaseBackupDeletion, removeRest, requestVars
<1>16. CASE DeleteInstance \/ CopyProvisioned \/ DatabaseSickens \/ DatabaseRecovers
  BY <1>3, <1>16 DEF DeleteInstance, CopyProvisioned, DatabaseSickens, DatabaseRecovers, outsideRest,
     requestVars
<1>17. ASSUME NEW x \in Removers, RemoverStep(x) PROVE restorer' = restorer /\ line' = line
  BY <1>17 DEF RemoverStep, ListExpiredDatabaseBackups, NextExpired, MarkDatabaseBackupDeleting, EraseObject,
     DeleteDatabaseBackupRecord, removeRest, requestVars
<1>18. ASSUME NEW o \in Operations, Claim(o) \/ ReadyFails(o) \/ Retry(o) PROVE restorer' = restorer /\ line' = line
  BY <1>18 DEF Claim, ReadyFails, Retry, claimRest, requestVars
<1>19. ASSUME NEW o \in Operations, BackupOperationStep(o) PROVE restorer' = restorer /\ line' = line
  BY <1>19 DEF BackupOperationStep, ReserveDisk, FailCompanion, ReportSuccess, EndOperation, Cancelled, BackupStep,
     MarkDatabaseBackupRunning, OpenDestination, UploadDump, VerifyObject, CompleteDatabaseBackup, DiscardObject,
     RestoreStep, CheckRestore, StopDatabaseConsumers, BeginPayload, EndPayload, RestoreSucceeded,
     RestartDatabaseConsumers, workRest, requestVars
<1>. QED
  BY <1>3, <1>6, <1>7, <1>8, <1>9, <1>10, <1>11, <1>12, <1>13, <1>14, <1>15, <1>16, <1>17, <1>18, <1>19
     DEF BackupsNext, BackupRequest, OutsideBackups, ScheduleStep, RestorerStep

\* A lock key has one worker: it is claimed when nothing that runs has the key,
\* and one operation at a time.
LEMMA OneAtATimeKept ==
  ASSUME BackupsInv, [BackupsNext]_backupsVars
  PROVE OneAtATime'
<1>. USE BackupsAssumption
<1>1. ASSUME NEW o \in Operations, at'[o] # "idle"
      PROVE /\ at[o] # "idle" \/ OldestClaimable(o)
            /\ OnCopy(o)' = OnCopy(o) /\ o \in ToSet(line)
  <2>0. WorkerRuns(o) /\ RowsFollowLine(o) /\ operation[o] \in OperationRows
    BY DEF BackupsInv, QueueInv, BackupsTypes, WorkTypes
  <2>1. at[o] # "idle" \/ OldestClaimable(o)
    BY <1>1, OperationSteps DEF OperationMoves, QueueEnters, WorkerStarts, QueuedMoves, DeferralEnds, WorkerGoesOn,
       WorkerEnds, WorkerIsLost
  <2>2. o \in ToSet(line)
    BY <2>0, <2>1 DEF RowsFollowLine, WorkerRuns, OldestClaimable, Claimable
  <2>3. OnCopy(o)' = OnCopy(o)
    <3>1. ASSUME o \in Restores PROVE job'[o].mode = job[o].mode
      BY <2>0, <2>2, <3>1, JobKeepsNames DEF RowsFollowLine
    <3>. QED
      BY <3>1 DEF OnCopy
  <2>. QED
    BY <2>1, <2>2, <2>3
<1>2. SUFFICES ASSUME NEW o \in Operations, NEW p \in Operations, at'[o] # "idle", at'[p] # "idle", SameKey(o, p)'
               PROVE o = p
  BY DEF OneAtATime
<1>3. SameKey(o, p)
  BY <1>1, <1>2 DEF SameKey
<1>4. \A q \in Operations : at[q] # "idle" => q \in Running
  BY DEF BackupsInv, QueueInv, WorkerRuns, Running
<1>5. CASE at[o] # "idle" /\ at[p] # "idle"
  BY <1>3, <1>5 DEF BackupsInv, QueueInv, OneAtATime
<1>6. CASE (at[o] # "idle" /\ OldestClaimable(p)) \/ (at[p] # "idle" /\ OldestClaimable(o))
  BY <1>3, <1>4, <1>6 DEF OldestClaimable, Claimable, SameKey
<1>7. CASE OldestClaimable(o) /\ OldestClaimable(p)
  <2>1. o \in ToSet(line) /\ p \in ToSet(line)
    BY <1>1, <1>2
  <2>2. /\ Place(o) \in DOMAIN line /\ line[Place(o)] = o
        /\ Place(p) \in DOMAIN line /\ line[Place(p)] = p
    BY <2>1 DEF Place, ToSet
  <2>3. Place(o) <= Place(p) /\ Place(p) <= Place(o)
    BY <1>7 DEF OldestClaimable
  <2>4. DOMAIN line \subseteq Nat
    BY DEF BackupsInv, BackupsTypes, WorkTypes
  <2>5. Place(o) = Place(p)
    BY <2>2, <2>3, <2>4
  <2>. QED
    BY <2>2, <2>5
<1>. QED
  BY <1>1, <1>2, <1>5, <1>6, <1>7

LEMMA QueueInvKept ==
  ASSUME BackupsInv, [BackupsNext]_backupsVars
  PROVE QueueInv'
  BY WorkersRun, RowsFollow, LineKept, OneAtATimeKept, RequestNamesKept, JobNamesKept DEF QueueInv

-----------------------------------------------------------------------------
(***************************************************************************)
(* The deletions and the restores.                                         *)
(***************************************************************************)
LEMMA RemoverInvKept ==
  ASSUME BackupsInv, [BackupsNext]_backupsVars
  PROVE RemoverInv'
<1>. USE BackupsAssumption DEF lineVars, completeRest, Completed, CompletedUnread
<1>1. ASSUME NEW b \in Backups, b \in ToSet(line), backup[b].status \in Removable
      PROVE /\ b \in ToSet(line)' /\ backup'[b].status \in Removable
            /\ backup'[b].status = "success" => backup[b].status = "success"
            /\ backup[b].expired /\ backup'[b].status = "success" => backup'[b].expired
  <2>1. RowMoves(b) /\ backup[b] \in BackupRows /\ b \in ToSet(line)'
    BY <1>1, RowSteps, LineKept DEF BackupsInv, BackupsTypes, RowTypes
  <2>2. at[b] # "complete"
    BY <1>1 DEF BackupsInv, BackupInv, RowIsMine, Given, Opened, Removable
  <2>3. CASE backup'[b] = backup[b]
    BY <1>1, <2>1, <2>3
  <2>4. CASE RowIsTaken(b)
    BY <1>1, <2>1, <2>4 DEF RowIsTaken, BackupRows, Removable, NoBackup
  <2>5. CASE RowIsMade(b)
    BY <1>1, <2>1, <2>2, <2>5 DEF RowIsMade, BackupRows, Removable
  <2>. QED
    BY <1>1, <2>1, <2>3, <2>4, <2>5 DEF RowMoves, RowEnters, RowIsRecovered, Removable
<1>2. remover \in [Removers -> RemoverRows] /\ \A x \in Removers : remover[x] \in RemoverRows
  BY DEF BackupsInv, BackupsTypes, RestTypes
<1>3. ASSUME NEW x \in Removers, remover'[x] = remover[x]
      PROVE /\ \A b \in remover'[x].left :
                 /\ b \in ToSet(line)' /\ backup'[b].status \in Removable
                 /\ backup'[b].status = "success" => x = "retention" /\ backup'[b].expired
            /\ remover'[x].step # "idle" =>
                 /\ remover'[x].backup \in Backups \cap ToSet(line)'
                 /\ backup'[remover'[x].backup].status \in Removable
                 /\ x = "retention" \/ remover'[x].step = "mark" \/ backup'[remover'[x].backup].status # "success"
                 /\ x = "retention" /\ backup'[remover'[x].backup].status = "success" => backup'[remover'[x].backup].expired
  <2>1. /\ \A b \in remover[x].left :
                 /\ b \in Backups /\ b \in ToSet(line) /\ backup[b].status \in Removable
                 /\ backup[b].status = "success" => x = "retention" /\ backup[b].expired
        /\ remover[x].step # "idle" =>
                 /\ remover[x].backup \in Backups \cap ToSet(line)
                 /\ backup[remover[x].backup].status \in Removable
                 /\ x = "retention" \/ remover[x].step = "mark" \/ backup[remover[x].backup].status # "success"
                 /\ x = "retention" /\ backup[remover[x].backup].status = "success" => backup[remover[x].backup].expired
    BY <1>2 DEF BackupsInv, RemoverInv, RemoverRows
  <2>. QED
    BY <1>1, <1>3, <2>1
<1>. DEFINE Fine(x) ==
              /\ \A b \in remover'[x].left :
                   /\ b \in ToSet(line)' /\ backup'[b].status \in Removable
                   /\ backup'[b].status = "success" => x = "retention" /\ backup'[b].expired
              /\ remover'[x].step # "idle" =>
                   /\ remover'[x].backup \in Backups \cap ToSet(line)'
                   /\ backup'[remover'[x].backup].status \in Removable
                   /\ x = "retention" \/ remover'[x].step = "mark" \/ backup'[remover'[x].backup].status # "success"
                   /\ x = "retention" /\ backup'[remover'[x].backup].status = "success" => backup'[remover'[x].backup].expired
<1>4. CASE remover' = remover
  BY <1>3, <1>4 DEF RemoverInv
<1>5. CASE BackupsCrash \/ BackupsDrain
  <2>1. \A x \in Removers : remover'[x] = AtRest
    BY <1>5 DEF BackupsCrash, BackupsDrain, Interrupted
  <2>. QED
    BY <2>1 DEF RemoverInv, AtRest
<1>6. ASSUME NEW b \in Backups, PrepareDatabaseBackupDeletion(b) PROVE RemoverInv'
  <2>1. /\ remover'["operator"] = [left |-> {}, backup |-> b,
             step |-> IF backup[b].status = "success" THEN "mark"
                      ELSE IF backup[b].status = "deleting" THEN "erase" ELSE "forget"]
        /\ remover'["retention"] = remover["retention"] /\ backup' = backup /\ line' = line
        /\ backup[b].status \in {"success", "failed", "cancelled", "deleting"}
    BY <1>2, <1>6 DEF PrepareDatabaseBackupDeletion, removeRest, Removers
  <2>2. b \in ToSet(line)
    BY <2>1 DEF BackupsInv, QueueInv, RowsFollowLine, Operations, NoBackup
  <2>3. ToSet(line)' = ToSet(line)
    BY <2>1 DEF ToSet
  <2>4. Fine("operator")
    BY <2>1, <2>2, <2>3 DEF Removable
  <2>5. Fine("retention")
    BY <1>3, <2>1 DEF Removers
  <2>. HIDE DEF Fine
  <2>6. \A x \in Removers : Fine(x)
    BY <2>4, <2>5 DEF Removers
  <2>. QED
    BY <2>6 DEF RemoverInv, Fine
<1>7. ASSUME NEW x \in Removers, RemoverStep(x) PROVE RemoverInv'
  <2>0. ASSUME NEW y \in Removers, y # x PROVE Fine(y)
    <3>1. remover'[y] = remover[y]
      BY <1>2, <1>7, <2>0 DEF RemoverStep, MarkDatabaseBackupDeleting, EraseObject, DeleteDatabaseBackupRecord,
         ListExpiredDatabaseBackups, NextExpired, MoveTo, RemoverIdle
    <3>. QED
      BY <1>3, <3>1
  <2>1. ASSUME remover'[x].left = remover[x].left, remover'[x].step = "idle" PROVE Fine(x)
    <3>1. \A b \in remover[x].left :
                 /\ b \in Backups /\ b \in ToSet(line) /\ backup[b].status \in Removable
                 /\ backup[b].status = "success" => x = "retention" /\ backup[b].expired
      BY <1>2 DEF BackupsInv, RemoverInv, RemoverRows
    <3>. QED
      BY <1>1, <2>1, <3>1
  <2>2. ASSUME remover'[x].left = remover[x].left, remover'[x].backup = remover[x].backup, remover[x].step # "idle",
               x = "retention" \/ backup'[remover[x].backup].status # "success"
        PROVE Fine(x)
    <3>1. \A b \in remover[x].left :
                 /\ b \in Backups /\ b \in ToSet(line) /\ backup[b].status \in Removable
                 /\ backup[b].status = "success" => x = "retention" /\ backup[b].expired
      BY <1>2 DEF BackupsInv, RemoverInv, RemoverRows
    <3>2. /\ remover[x].backup \in Backups \cap ToSet(line)
          /\ backup[remover[x].backup].status \in Removable
          /\ x = "retention" /\ backup[remover[x].backup].status = "success" => backup[remover[x].backup].expired
      BY <2>2 DEF BackupsInv, RemoverInv
    <3>. QED
      BY <1>1, <2>2, <3>1, <3>2
  <2>3. ASSUME MarkDatabaseBackupDeleting(x) PROVE Fine(x)
    <3>1. CASE Marked(remover[x].backup) /\ MoveTo(x, "erase")
      <4>1. backup'[remover[x].backup].status # "success"
        <5>1. remover[x].backup \in Backups
          BY <2>3 DEF MarkDatabaseBackupDeleting, BackupsInv, RemoverInv
        <5>2. backup[remover[x].backup] \in BackupRows /\ backup \in [Backups -> BackupRows]
          BY <5>1 DEF BackupsInv, BackupsTypes, RowTypes
        <5>. QED
          BY <3>1, <5>1, <5>2 DEF Marked, BackupRows
      <4>2. remover'[x].left = remover[x].left /\ remover'[x].backup = remover[x].backup
        BY <1>2, <3>1 DEF MoveTo, RemoverRows
      <4>3. remover[x].step # "idle"
        BY <2>3 DEF MarkDatabaseBackupDeleting
      <4>. QED
        BY <2>2, <4>1, <4>2, <4>3
    <3>2. CASE x = "retention" /\ MoveTo(x, "erase")
      <4>1. remover'[x].left = remover[x].left /\ remover'[x].backup = remover[x].backup
        BY <1>2, <3>2 DEF MoveTo, RemoverRows
      <4>2. remover[x].step # "idle"
        BY <2>3 DEF MarkDatabaseBackupDeleting
      <4>. QED
        BY <2>2, <3>2, <4>1, <4>2
    <3>3. CASE RemoverIdle(x)
      <4>1. remover'[x].left = remover[x].left /\ remover'[x].step = "idle"
        BY <1>2, <3>3 DEF RemoverIdle, AtRest
      <4>. QED
        BY <2>1, <4>1
    <3>. QED
      BY <2>3, <3>1, <3>2, <3>3 DEF MarkDatabaseBackupDeleting
  <2>4. ASSUME EraseObject(x) \/ DeleteDatabaseBackupRecord(x) PROVE Fine(x)
    <3>1. CASE RemoverIdle(x)
      <4>1. remover'[x].left = remover[x].left /\ remover'[x].step = "idle"
        BY <1>2, <3>1 DEF RemoverIdle, AtRest
      <4>. QED
        BY <2>1, <4>1
    <3>2. CASE MoveTo(x, "forget") /\ remover[x].step = "erase" /\ backup' = backup
      <4>1. remover'[x].left = remover[x].left /\ remover'[x].backup = remover[x].backup
        BY <1>2, <3>2 DEF MoveTo, RemoverRows
      <4>2. x = "retention" \/ backup'[remover[x].backup].status # "success"
        BY <3>2 DEF BackupsInv, RemoverInv
      <4>. QED
        BY <2>2, <3>2, <4>1, <4>2
    <3>. QED
      BY <2>4, <3>1, <3>2 DEF EraseObject, DeleteDatabaseBackupRecord
  <2>5. ASSUME x = "retention" /\ ListExpiredDatabaseBackups PROVE Fine(x)
    <3>1. remover'[x] = [remover[x] EXCEPT !.left = ExpiredBackups] /\ remover[x] = AtRest /\ backup' = backup /\ line' = line
      BY <1>2, <2>5 DEF ListExpiredDatabaseBackups, removeRest
    <3>2. remover'[x].left = ExpiredBackups /\ remover'[x].step = "idle"
      BY <3>1 DEF AtRest
    <3>3. \A b \in ExpiredBackups : b \in Backups /\ backup[b].status \in {"success", "deleting"} /\ backup[b].expired
      BY DEF ExpiredBackups
    <3>4. \A b \in ExpiredBackups : b \in ToSet(line)
      BY <3>3 DEF BackupsInv, QueueInv, RowsFollowLine, Operations, NoBackup
    <3>. QED
      BY <2>5, <3>1, <3>2, <3>3, <3>4 DEF Removable, ToSet
  <2>6. ASSUME x = "retention" /\ NextExpired PROVE Fine(x)
    <3>1. PICK b \in remover[x].left :
            remover'[x] = [left |-> remover[x].left \ {b}, backup |-> IF backup[b].destination = None THEN None ELSE b,
                           step |-> IF backup[b].destination = None THEN "idle" ELSE "mark"]
      BY <1>2, <2>6 DEF NextExpired, Removers
    <3>2. backup' = backup /\ line' = line
      BY <2>6 DEF NextExpired, removeRest
    <3>3. \A c \in remover[x].left :
                 /\ c \in Backups /\ c \in ToSet(line) /\ backup[c].status \in Removable
                 /\ backup[c].status = "success" => x = "retention" /\ backup[c].expired
      BY <1>2 DEF BackupsInv, RemoverInv, RemoverRows
    <3>. QED
      BY <2>6, <3>1, <3>2, <3>3 DEF ToSet
  <2>7. Fine(x)
    BY <1>7, <2>3, <2>4, <2>5, <2>6 DEF RemoverStep
  <2>. HIDE DEF Fine
  <2>8. \A y \in Removers : Fine(y)
    BY <2>0, <2>7
  <2>. QED
    BY <2>8 DEF RemoverInv, Fine
<1>8. CASE UNCHANGED backupsVars
  BY <1>4, <1>8 DEF backupsVars
<1>9. ASSUME NEW d \in Destinations,
             \/ CreateBackupDestination(d) \/ UpdateBackupDestination(d) \/ CountRetained(d)
             \/ \E e \in BOOLEAN : SaveBackupPolicy(d, e)
      PROVE remover' = remover
  BY <1>9 DEF CreateBackupDestination, UpdateBackupDestination, CountRetained, SaveBackupPolicy, destinationRest
<1>10. CASE BecomeDue \/ ListDueDatabaseBackupPolicies \/ AdvanceDatabaseBackupPolicySchedule \/ DeleteBackupDestination
           \/ ManualBackup \/ QueueDueDatabaseBackup \/ CheckRestorable \/ QueueDatabaseRestore
  BY <1>4, <1>10 DEF BecomeDue, ListDueDatabaseBackupPolicies, AdvanceDatabaseBackupPolicySchedule,
     DeleteBackupDestination, ManualBackup, QueueDueDatabaseBackup, CheckRestorable, QueueDatabaseRestore, scheduleRest,
     restoreRest
<1>11. ASSUME NEW b \in Backups, QueueSafetyBackup(b) \/ PrepareCopy(b) \/ Expire(b) PROVE remover' = remover
  BY <1>11 DEF QueueSafetyBackup, PrepareCopy, Expire, restoreRest
<1>12. CASE DeleteInstance \/ CopyProvisioned \/ DatabaseSickens \/ DatabaseRecovers
  BY <1>4, <1>12 DEF DeleteInstance, CopyProvisioned, DatabaseSickens, DatabaseRecovers, outsideRest
<1>13. ASSUME NEW o \in Operations, Claim(o) \/ ReadyFails(o) \/ Retry(o) PROVE remover' = remover
  BY <1>13 DEF Claim, ReadyFails, Retry, claimRest
<1>14. ASSUME NEW o \in Operations, BackupOperationStep(o) PROVE remover' = remover
  BY <1>14 DEF BackupOperationStep, ReserveDisk, FailCompanion, ReportSuccess, EndOperation, Cancelled, BackupStep,
     MarkDatabaseBackupRunning, OpenDestination, UploadDump, VerifyObject, CompleteDatabaseBackup, DiscardObject,
     RestoreStep, CheckRestore, StopDatabaseConsumers, BeginPayload, EndPayload, RestoreSucceeded,
     RestartDatabaseConsumers, workRest
<1>. QED
  BY <1>4, <1>5, <1>6, <1>7, <1>8, <1>9, <1>10, <1>11, <1>12, <1>13, <1>14
     DEF BackupsNext, BackupRequest, OutsideBackups, ScheduleStep, RestorerStep

\* A backup that a job names keeps its content.  A finished one is failed only
\* by a worker of its own operation, and then stays failed: a deletion that was
\* checked before the job referred to it may mark it, and no more.
LEMMA ReferencedKept ==
  ASSUME BackupsInv, [BackupsNext]_backupsVars, NEW b \in Backups, Referenced(b), b \in ToSet(line)
  PROVE /\ backup[b].content \in Contents => backup'[b].content \in Contents
        /\ backup[b].status \in {"success", "deleting"} /\ backup[b].keyed
           => \/ backup'[b].status \in {"success", "deleting"} /\ backup'[b].keyed
              \/ operation[b].status = "running" /\ backup'[b].status = "failed"
        /\ backup[b].status = "failed" => backup'[b].status = "failed"
<1>. USE BackupsAssumption
<1>2. RowMoves(b) /\ backup[b] \in BackupRows
  BY RowSteps DEF BackupsInv, BackupsTypes, RowTypes
<1>3. CASE backup'[b] = backup[b]
  BY <1>3
<1>4. CASE RowIsTaken(b)
  BY <1>2, <1>4 DEF RowIsTaken, BackupRows
<1>5. CASE RowIsMade(b)
  <2>1. operation[b].status = "running"
    BY <1>5 DEF RowIsMade, BackupsInv, QueueInv, WorkerRuns, Operations
  <2>2. at[b] \in {"dump", "complete"} => backup[b].status = "running"
    BY DEF BackupsInv, BackupInv, RowIsMine, Given, Opened
  <2>3. contents \in Contents
    BY DEF BackupsInv, BackupsTypes, RestTypes
  <2>. QED
    BY <1>2, <1>5, <2>1, <2>2, <2>3 DEF RowIsMade, BackupRows
<1>6. CASE RowIsRecovered(b)
  BY <1>2, <1>6 DEF RowIsRecovered, BackupRows
<1>. QED
  BY <1>2, <1>3, <1>4, <1>5, <1>6 DEF RowMoves, RowEnters

\* What was kept of the backups that a job names is kept: the safety backup
\* as long as its operation is over or the restore runs, whose key it has.
LEMMA JobKept ==
  ASSUME BackupsInv, [BackupsNext]_backupsVars, NEW r \in Restores, job[r] # NoJob
  PROVE /\ SafetyPast(r) => SafetyPast(r)'
        /\ Overtakes(r) => Overtakes(r)'
        /\ SafetyKept(r) /\ (SafetyOver(r) \/ at[r] # "idle") => SafetyKept(r)'
        /\ SafetyKept(r) => SafetyKept(r)' \/ backup'[job[r].safety].status = "failed"
        /\ job[r].safety # None /\ backup[job[r].safety].status = "failed"
           => (backup[job[r].safety].status = "failed")'
        /\ backup[job[r].source].content \in Contents => (backup[job[r].source].content \in Contents)'
        /\ OnCopy(r)' = OnCopy(r)
<1>. USE BackupsAssumption
<1>1. /\ job'[r].source = job[r].source /\ job'[r].safety = job[r].safety /\ job'[r].mode = job[r].mode
  BY JobKeepsNames
<1>2. JobNames(r) /\ job[r] \in JobRows /\ r \in Operations
  BY DEF BackupsInv, QueueInv, BackupsTypes, RowTypes, Operations
<1>3. /\ job[r].source \in Backups /\ job[r].source \in ToSet(line) /\ Referenced(job[r].source)
  BY <1>2 DEF JobNames, Referenced
<1>4. job[r].safety # None =>
        /\ job[r].safety \in Backups /\ job[r].safety \in ToSet(line) /\ Referenced(job[r].safety)
        /\ job[r].safety \in Operations /\ job[r].safety # r /\ SameKey(r, job[r].safety)
  BY <1>2 DEF JobNames, Behind, ToSet, Referenced, JobRows, Operations, SameKey, OnCopy
<1>5. backup[job[r].source].content \in Contents => (backup[job[r].source].content \in Contents)'
  BY <1>1, <1>3, ReferencedKept
<1>6. SafetyOver(r) => SafetyOver(r)'
  <2>1. \A b \in Backups : operation[b].status \in Ended => operation'[b].status \in Ended
    BY WorkersRun DEF Operations
  <2>. QED
    BY <1>1, <1>4, <2>1 DEF SafetyOver
<1>7. Overtakes(r) => Overtakes(r)'
  <2>1. \A s, q \in Operations : Behind(s, q) => Behind(s, q)'
    BY LineKept
  <2>. QED
    BY <1>1, <1>2, <1>4, <2>1 DEF Overtakes, Behind
<1>8. job[r].safety # None =>
        /\ backup[job[r].safety].status \in {"success", "deleting"} /\ backup[job[r].safety].keyed
           => \/ backup'[job[r].safety].status \in {"success", "deleting"} /\ backup'[job[r].safety].keyed
              \/ operation[job[r].safety].status = "running" /\ backup'[job[r].safety].status = "failed"
        /\ backup[job[r].safety].status = "failed" => backup'[job[r].safety].status = "failed"
  BY <1>4, ReferencedKept
<1>9. job[r].safety # None /\ (SafetyOver(r) \/ at[r] # "idle") => operation[job[r].safety].status # "running"
  <2>1. \A o \in Operations : operation[o].status = "running" => at[o] # "idle"
    BY DEF BackupsInv, QueueInv, WorkerRuns
  <2>. QED
    BY <1>2, <1>4, <2>1 DEF SafetyOver, Ended, BackupsInv, QueueInv, OneAtATime
<1>10. SafetyKept(r) /\ (SafetyOver(r) \/ at[r] # "idle") => SafetyKept(r)'
  BY <1>1, <1>8, <1>9 DEF SafetyKept
<1>11. SafetyKept(r) => SafetyKept(r)' \/ backup'[job[r].safety].status = "failed"
  BY <1>1, <1>8 DEF SafetyKept
<1>12. job[r].safety # None /\ backup[job[r].safety].status = "failed"
       => (backup[job[r].safety].status = "failed")'
  BY <1>1, <1>8
<1>13. OnCopy(r)' = OnCopy(r)
  BY <1>1 DEF OnCopy
<1>. QED
  BY <1>5, <1>6, <1>7, <1>10, <1>11, <1>12, <1>13 DEF SafetyPast

\* A restore is claimed only after its safety backup has ended, unless it stands
\* before it: that one has the same lock key, and it is never deferred.
LEMMA SafetyEndsFirst ==
  ASSUME BackupsInv, NEW r \in Restores, job[r] # NoJob, OldestClaimable(r)
  PROVE SafetyPast(r)
<1>. USE BackupsAssumption
<1>1. SUFFICES ASSUME job[r].safety # None, operation[job[r].safety].status \notin Ended, ~Overtakes(r) PROVE FALSE
  BY DEF SafetyPast, SafetyOver
<1>. DEFINE s == job[r].safety
<1>2. JobNames(r) /\ job[r] \in JobRows /\ r \in Operations /\ Behind(s, r)
  BY <1>1 DEF BackupsInv, QueueInv, BackupsTypes, RowTypes, Operations, JobNames, Overtakes
<1>3. s \in Backups /\ s \in Operations /\ s \notin Restores /\ job[r].mode = "replace_current"
  BY <1>1, <1>2 DEF JobRows, JobNames, Operations
<1>. HIDE DEF s
<1>4. ~OnCopy(r) /\ ~OnCopy(s)
  BY <1>3 DEF OnCopy
<1>5. \A p : SameKey(r, p) <=> SameKey(s, p)
  BY <1>4 DEF SameKey, OnCopy
<1>6. s \in ToSet(line)
  BY <1>2 DEF Behind, ToSet
<1>7. WorkerRuns(s) /\ RowsFollowLine(s) /\ operation[s] \in OperationRows
  BY <1>3 DEF BackupsInv, QueueInv, BackupsTypes, WorkTypes
<1>8. operation[s].status \in {"queued", "running"}
  BY <1>1, <1>6, <1>7 DEF RowsFollowLine, OperationRows, s
<1>9. CASE operation[s].status = "running"
  BY <1>3, <1>4, <1>9 DEF OldestClaimable, Claimable, Running, SameKey, OnCopy
<1>10. CASE operation[s].status = "queued"
  <2>1. Claimable(s)
    BY <1>3, <1>4, <1>5, <1>7, <1>10 DEF OldestClaimable, Claimable, WorkerRuns
  <2>2. Place(r) <= Place(s)
    BY <1>3, <2>1 DEF OldestClaimable
  <2>3. PICK i, j \in DOMAIN line : i < j /\ line[i] = s /\ line[j] = r
    BY <1>2 DEF Behind
  <2>4. \A k, l \in DOMAIN line : line[k] = line[l] => k = l
    BY DEF BackupsInv, QueueInv, QueuedOnce
  <2>5. Place(s) = i /\ Place(r) = j
    BY <2>3, <2>4 DEF Place
  <2>6. DOMAIN line \subseteq Nat
    BY DEF BackupsInv, BackupsTypes, WorkTypes
  <2>. QED
    BY <2>2, <2>3, <2>5, <2>6
<1>. QED
  BY <1>8, <1>9, <1>10

RestoreKnows(r) ==
  /\ at[r] # "idle" => job[r] # NoJob /\ SafetyPast(r)
  /\ at[r] \in Overwriting => SafetyKept(r) /\ backup[job[r].source].content \in Contents
  /\ at[r] \in {"stop", "rollback", "rolling"} => ~OnCopy(r)

LEMMA RestoreInvKept ==
  ASSUME BackupsInv, [BackupsNext]_backupsVars
  PROVE RestoreInv'
<1>. USE BackupsAssumption
<1>0. /\ \A r \in Restores : RestoreKnows(r)
      /\ at \in [Operations -> BackupPlaces \cup RestorePlaces] /\ Restores \subseteq Operations
  BY DEF BackupsInv, RestoreInv, RestoreKnows, BackupsTypes, WorkTypes, Operations
<1>1. ASSUME NEW r \in Restores, at'[r] = at[r] \/ at'[r] = "idle"
              \/ (at[r] # "idle" /\ at'[r] \notin Overwriting)
      PROVE RestoreKnows(r)'
  <2>1. CASE at'[r] = "idle"
    BY <2>1 DEF RestoreKnows, Overwriting
  <2>2. CASE at[r] # "idle"
    <3>1. job[r] # NoJob /\ SafetyPast(r)
      BY <1>0, <2>2 DEF RestoreKnows
    <3>2. job'[r] # NoJob /\ SafetyPast(r)'
      BY <3>1, JobKept, JobKeepsNames
    <3>3. at'[r] \in Overwriting => at'[r] = at[r]
      BY <1>1 DEF Overwriting
    <3>4. at'[r] \in Overwriting => SafetyKept(r)' /\ (backup[job[r].source].content \in Contents)'
      BY <1>0, <2>2, <3>1, <3>3, JobKept DEF RestoreKnows
    <3>5. at'[r] \in {"stop", "rollback", "rolling"} => ~OnCopy(r)'
      BY <1>0, <3>1, <3>3, JobKept DEF RestoreKnows, Overwriting
    <3>. QED
      BY <3>2, <3>4, <3>5 DEF RestoreKnows
  <2>. QED
    BY <1>1, <2>1, <2>2
<1>2. ASSUME NEW r \in Restores PROVE RestoreKnows(r)'
  <2>1. OperationMoves(r)
    BY <1>0, OperationSteps
  <2>2. CASE WorkerStarts(r)
    <3>1. job[r] # NoJob
      BY <1>0, <2>2 DEF WorkerStarts, BackupsInv, QueueInv, RowsFollowLine
    <3>2. SafetyPast(r)
      BY <2>2, <3>1, SafetyEndsFirst DEF WorkerStarts
    <3>3. job'[r] # NoJob /\ SafetyPast(r)'
      BY <3>1, <3>2, JobKept, JobKeepsNames
    <3>. QED
      BY <2>2, <3>3 DEF WorkerStarts, RestoreKnows, Overwriting
  <2>3. CASE WorkerGoesOn(r)
    <3>1. /\ BackupOperationStep(r) /\ at[r] # "idle" /\ at'[r] # "idle" /\ r \notin Backups
          /\ job[r] # NoJob /\ SafetyPast(r) /\ RestoreKnows(r)
      BY <1>0, <2>3 DEF WorkerGoesOn, RestoreKnows
    <3>2. CASE at'[r] \notin Overwriting
      BY <1>1, <3>1, <3>2
    <3>3. ASSUME SafetyKept(r), backup[job[r].source].content \in Contents,
                 at'[r] \in {"stop", "rollback", "rolling"} => ~OnCopy(r)
          PROVE RestoreKnows(r)'
      <4>1. /\ job'[r] # NoJob /\ SafetyPast(r)' /\ SafetyKept(r)' /\ (backup[job[r].source].content \in Contents)'
            /\ OnCopy(r)' = OnCopy(r)
        BY <3>1, <3>3, JobKept, JobKeepsNames
      <4>. QED
        BY <3>3, <4>1 DEF RestoreKnows
    <3>4. CASE CheckRestore(r)
      <4>1. CASE at'[r] = "fail"
        BY <3>2, <4>1 DEF Overwriting
      <4>2. CASE /\ backup[job[r].source].status = "success"
                 /\ job[r].safety # None => backup[job[r].safety].status = "success"
                 /\ at'[r] = IF OnCopy(r) THEN "load" ELSE "stop"
        <5>1. /\ job[r].source \in Backups /\ (job[r].safety # None => job[r].safety \in Backups)
          BY <3>1 DEF BackupsInv, QueueInv, JobNames, BackupsTypes, RowTypes, JobRows
        <5>2. SafetyKept(r) /\ backup[job[r].source].content \in Contents
          BY <4>2, <5>1 DEF BackupsInv, BackupInv, Finished, SafetyKept
        <5>. QED
          BY <3>3, <4>2, <5>2
      <4>. QED
        BY <1>0, <3>4, <4>1, <4>2 DEF CheckRestore, Step, Decide
    <3>5. ASSUME at[r] \in Overwriting, at'[r] \in {"stop", "rollback", "rolling"} => ~OnCopy(r)
          PROVE RestoreKnows(r)'
      BY <3>1, <3>3, <3>5 DEF RestoreKnows
    <3>6. CASE StopDatabaseConsumers(r)
      <4>1. at[r] = "stop" /\ at'[r] \in {"load", "fail"}
        BY <1>0, <3>6 DEF StopDatabaseConsumers, Step, Decide
      <4>. QED
        BY <3>5, <4>1 DEF Overwriting
    <3>7. CASE BeginPayload(r)
      <4>1. /\ at[r] \in {"load", "rollback"}
            /\ \/ at[r] = "load" /\ at'[r] = "loading"
               \/ at[r] = "rollback" /\ at'[r] = "rolling"
               \/ at'[r] = Undo(r)
        BY <1>0, <3>7 DEF BeginPayload, Step, Decide
      <4>2. Undo(r) = "rollback" => ~OnCopy(r)
        BY DEF Undo
      <4>3. at[r] = "rollback" => ~OnCopy(r)
        BY <3>1 DEF RestoreKnows
      <4>4. Undo(r) \in {"fail", "rollback"}
        BY DEF Undo
      <4>. QED
        BY <3>5, <4>1, <4>2, <4>3, <4>4 DEF Overwriting
    <3>8. CASE EndPayload(r)
      <4>1. /\ at[r] \in {"loading", "rolling"}
            /\ at'[r] \in {"succeed", "fail"} \/ at'[r] = Undo(r)
        BY <1>0, <3>8 DEF EndPayload, Step, Decide
      <4>2. Undo(r) \in {"fail", "rollback"} /\ (Undo(r) = "rollback" => ~OnCopy(r))
        BY DEF Undo
      <4>. QED
        BY <3>5, <4>1, <4>2 DEF Overwriting
    <3>9. CASE \/ ReserveDisk(r) \/ FailCompanion(r) \/ ReportSuccess(r) \/ EndOperation(r) \/ Cancelled(r)
               \/ RestoreSucceeded(r) \/ RestartDatabaseConsumers(r)
      <4>1. at'[r] \notin Overwriting
        BY <1>0, <3>1, <3>9 DEF ReserveDisk, FailCompanion, ReportSuccess, EndOperation, Cancelled, RestoreSucceeded,
           RestartDatabaseConsumers, Step, Decide, Overwriting
      <4>. QED
        BY <3>2, <4>1
    <3>. QED
      BY <3>1, <3>4, <3>6, <3>7, <3>8, <3>9 DEF BackupOperationStep, RestoreStep
  <2>4. CASE at'[r] = at[r] \/ at'[r] = "idle"
    BY <1>1, <2>4
  <2>. QED
    BY <2>1, <2>2, <2>3, <2>4 DEF OperationMoves, QueueEnters, QueuedMoves, DeferralEnds, WorkerEnds, WorkerIsLost
<1>. QED
  BY <1>2 DEF RestoreInv, RestoreKnows

\* A half-written database was written by a restore whose safety backup is
\* kept, or was run again behind it.
LEMMA MixedInvKept ==
  ASSUME BackupsInv, [BackupsNext]_backupsVars
  PROVE MixedInv'
<1>. USE BackupsAssumption DEF lineVars, completeRest, Completed, CompletedUnread
<1>1. ASSUME NEW r \in Restores, job[r].safety # None,
             \/ SafetyPast(r) /\ SafetyKept(r)
             \/ Overtakes(r) /\ backup[job[r].safety].status = "failed"
      PROVE MixedInv'
  <2>1. job[r] # NoJob
    BY <1>1 DEF NoJob
  <2>2. job'[r].safety = job[r].safety
    BY <2>1, JobKeepsNames
  <2>3. CASE SafetyPast(r)' /\ SafetyKept(r)'
    BY <1>1, <2>2, <2>3 DEF MixedInv
  <2>4. CASE Overtakes(r)' /\ backup'[job[r].safety].status = "failed"
    BY <1>1, <2>2, <2>4 DEF MixedInv
  <2>5. CASE SafetyOver(r) /\ SafetyKept(r)
    BY <2>1, <2>3, <2>5, JobKept DEF SafetyPast
  <2>6. CASE Overtakes(r) /\ SafetyKept(r)
    BY <2>1, <2>3, <2>4, <2>6, JobKept DEF SafetyPast
  <2>7. CASE Overtakes(r) /\ backup[job[r].safety].status = "failed"
    BY <1>1, <2>1, <2>2, <2>4, <2>7, JobKept
  <2>. QED
    BY <1>1, <2>5, <2>6, <2>7 DEF SafetyPast
<1>2. CASE contents' = contents
  BY <1>1, <1>2 DEF BackupsInv, MixedInv
<1>4. ASSUME NEW r \in Restores, BeginPayload(r) \/ EndPayload(r) PROVE MixedInv'
  <2>1. CASE OnCopy(r)
    BY <1>2, <1>4, <2>1 DEF BeginPayload, EndPayload, Write
  <2>2. CASE ~OnCopy(r)
    <3>1. job[r] # NoJob /\ SafetyPast(r) /\ SafetyKept(r)
      BY <1>4 DEF BeginPayload, EndPayload, BackupsInv, RestoreInv, Overwriting
    <3>2. job[r].safety # None
      BY <2>2, <3>1 DEF BackupsInv, QueueInv, JobNames, OnCopy
    <3>. QED
      BY <1>1, <3>1, <3>2
  <2>. QED
    BY <2>1, <2>2
<1>5. ASSUME NEW o \in Operations, BackupOperationStep(o) PROVE MixedInv'
  <2>1. CASE o \in Restores /\ (BeginPayload(o) \/ EndPayload(o))
    BY <1>4, <2>1
  <2>2. CASE ~(o \in Restores /\ (BeginPayload(o) \/ EndPayload(o)))
    BY <1>2, <1>5, <2>2 DEF BackupOperationStep, ReserveDisk, FailCompanion, ReportSuccess, EndOperation, Cancelled,
       BackupStep, MarkDatabaseBackupRunning, OpenDestination, UploadDump, VerifyObject, CompleteDatabaseBackup,
       DiscardObject, RestoreStep, CheckRestore, StopDatabaseConsumers, RestoreSucceeded, RestartDatabaseConsumers
  <2>. QED
    BY <2>1, <2>2
<1>6. CASE UNCHANGED backupsVars
  BY <1>2, <1>6 DEF backupsVars, engineVars
<1>7. ASSUME NEW d \in Destinations,
             \/ CreateBackupDestination(d) \/ UpdateBackupDestination(d) \/ CountRetained(d)
             \/ \E e \in BOOLEAN : SaveBackupPolicy(d, e)
      PROVE contents' = contents
  BY <1>7 DEF CreateBackupDestination, UpdateBackupDestination, CountRetained, SaveBackupPolicy, destinationRest, engineVars
<1>8. CASE BecomeDue \/ ListDueDatabaseBackupPolicies \/ AdvanceDatabaseBackupPolicySchedule \/ DeleteBackupDestination
           \/ ManualBackup \/ QueueDueDatabaseBackup \/ CheckRestorable \/ QueueDatabaseRestore
  BY <1>2, <1>8 DEF BecomeDue, ListDueDatabaseBackupPolicies, AdvanceDatabaseBackupPolicySchedule,
     DeleteBackupDestination, ManualBackup, QueueDueDatabaseBackup, CheckRestorable, QueueDatabaseRestore, scheduleRest,
     restoreRest, engineVars
<1>9. ASSUME NEW b \in Backups, QueueSafetyBackup(b) \/ PrepareCopy(b) \/ Expire(b) \/ PrepareDatabaseBackupDeletion(b)
      PROVE contents' = contents
  BY <1>9 DEF QueueSafetyBackup, PrepareCopy, Expire, PrepareDatabaseBackupDeletion, restoreRest, removeRest, engineVars
<1>10. CASE DeleteInstance \/ CopyProvisioned \/ DatabaseSickens \/ DatabaseRecovers
  BY <1>2, <1>10 DEF DeleteInstance, CopyProvisioned, DatabaseSickens, DatabaseRecovers
<1>11. ASSUME NEW x \in Removers, RemoverStep(x) PROVE contents' = contents
  BY <1>11 DEF RemoverStep, ListExpiredDatabaseBackups, NextExpired, MarkDatabaseBackupDeleting, EraseObject,
     DeleteDatabaseBackupRecord, removeRest, engineVars
<1>12. ASSUME NEW o \in Operations, Claim(o) \/ ReadyFails(o) \/ Retry(o) PROVE contents' = contents
  BY <1>12 DEF Claim, ReadyFails, Retry, claimRest, engineVars
<1>13. CASE BackupsCrash \/ BackupsDrain
  BY <1>2, <1>13 DEF BackupsCrash, BackupsDrain, Interrupted, engineVars
<1>. QED
  BY <1>2, <1>5, <1>6, <1>7, <1>8, <1>9, <1>10, <1>11, <1>12, <1>13
     DEF BackupsNext, BackupRequest, OutsideBackups, ScheduleStep, RestorerStep

-----------------------------------------------------------------------------
(***************************************************************************)
(* The backups and their objects.                                          *)
(***************************************************************************)
LEMMA BucketsMove ==
  ASSUME BackupsInv, [BackupsNext]_backupsVars, NEW d \in Destinations
  PROVE destination'[d].bucket = destination[d].bucket \/ destination'[d].bucket = 2
<1>. USE BackupsAssumption DEF lineVars, completeRest, Completed, CompletedUnread
<1>0. destination \in [Destinations -> DestinationRows] /\ destination[d] \in DestinationRows
  BY DEF BackupsInv, BackupsTypes, RowTypes
<1>1. CASE destination' = destination
  BY <1>1
<1>2. ASSUME NEW c \in Destinations, CreateBackupDestination(c) \/ UpdateBackupDestination(c)
      PROVE destination'[d].bucket = destination[d].bucket \/ destination'[d].bucket = 2
  <2>1. CASE c = d
    BY <1>0, <1>2, <2>1 DEF CreateBackupDestination, UpdateBackupDestination, InsertDestination, MoveDestination,
       DestinationRows
  <2>2. CASE c # d
    BY <1>0, <1>2, <2>2 DEF CreateBackupDestination, UpdateBackupDestination, InsertDestination, MoveDestination
  <2>. QED
    BY <2>1, <2>2
<1>3. CASE DeleteBackupDestination
  <2>1. CASE dropping = d /\ destination' = [destination EXCEPT ![dropping].row = "deleted"]
    BY <1>0, <2>1 DEF DestinationRows
  <2>2. CASE dropping # d /\ destination' = [destination EXCEPT ![dropping].row = "deleted"]
    BY <1>0, <2>2
  <2>. QED
    BY <1>1, <1>3, <2>1, <2>2 DEF DeleteBackupDestination
<1>4. ASSUME NEW c \in Destinations, CountRetained(c) \/ \E e \in BOOLEAN : SaveBackupPolicy(c, e)
      PROVE destination' = destination
  BY <1>4 DEF CountRetained, SaveBackupPolicy
<1>5. CASE UNCHANGED backupsVars
  BY <1>1, <1>5 DEF backupsVars
<1>6. CASE BecomeDue \/ ListDueDatabaseBackupPolicies \/ AdvanceDatabaseBackupPolicySchedule
           \/ ManualBackup \/ QueueDueDatabaseBackup \/ CheckRestorable \/ QueueDatabaseRestore
  BY <1>1, <1>6 DEF BecomeDue, ListDueDatabaseBackupPolicies, AdvanceDatabaseBackupPolicySchedule,
     ManualBackup, QueueDueDatabaseBackup, CheckRestorable, QueueDatabaseRestore, scheduleRest, restoreRest
<1>7. ASSUME NEW b \in Backups, QueueSafetyBackup(b) \/ PrepareCopy(b) \/ Expire(b) \/ PrepareDatabaseBackupDeletion(b)
      PROVE destination' = destination
  BY <1>7 DEF QueueSafetyBackup, PrepareCopy, Expire, PrepareDatabaseBackupDeletion, restoreRest, removeRest
<1>8. CASE DeleteInstance \/ CopyProvisioned \/ DatabaseSickens \/ DatabaseRecovers
  BY <1>1, <1>8 DEF DeleteInstance, CopyProvisioned, DatabaseSickens, DatabaseRecovers, outsideRest
<1>9. ASSUME NEW x \in Removers, RemoverStep(x) PROVE destination' = destination
  BY <1>9 DEF RemoverStep, ListExpiredDatabaseBackups, NextExpired, MarkDatabaseBackupDeleting, EraseObject,
     DeleteDatabaseBackupRecord, removeRest
<1>10. ASSUME NEW o \in Operations, Claim(o) \/ ReadyFails(o) \/ Retry(o) PROVE destination' = destination
  BY <1>10 DEF Claim, ReadyFails, Retry, claimRest
<1>11. ASSUME NEW o \in Operations, BackupOperationStep(o) PROVE destination' = destination
  BY <1>11 DEF BackupOperationStep, ReserveDisk, FailCompanion, ReportSuccess, EndOperation, Cancelled, BackupStep,
     MarkDatabaseBackupRunning, OpenDestination, UploadDump, VerifyObject, CompleteDatabaseBackup, DiscardObject,
     RestoreStep, CheckRestore, StopDatabaseConsumers, BeginPayload, EndPayload, RestoreSucceeded,
     RestartDatabaseConsumers, workRest
<1>12. CASE BackupsCrash \/ BackupsDrain
  BY <1>1, <1>12 DEF BackupsCrash, BackupsDrain, Interrupted
<1>. QED
  BY <1>1, <1>2, <1>3, <1>4, <1>5, <1>6, <1>7, <1>8, <1>9, <1>10, <1>11, <1>12
     DEF BackupsNext, BackupRequest, OutsideBackups, ScheduleStep, RestorerStep

\* What was completed and not read back is remembered.
LEMMA UnreadGrows ==
  ASSUME BackupsInv, [BackupsNext]_backupsVars
  PROVE unread \subseteq unread'
<1>. USE BackupsAssumption DEF completeRest, CompletedUnread
<1>1. CASE UNCHANGED backupsVars
  BY <1>1 DEF backupsVars
<1>2. ASSUME NEW d \in Destinations,
             \/ CreateBackupDestination(d) \/ UpdateBackupDestination(d) \/ CountRetained(d)
             \/ \E e \in BOOLEAN : SaveBackupPolicy(d, e)
      PROVE unread' = unread
  BY <1>2 DEF CreateBackupDestination, UpdateBackupDestination, CountRetained, SaveBackupPolicy, destinationRest
<1>3. CASE BecomeDue \/ ListDueDatabaseBackupPolicies \/ AdvanceDatabaseBackupPolicySchedule \/ DeleteBackupDestination
           \/ ManualBackup \/ QueueDueDatabaseBackup \/ CheckRestorable \/ QueueDatabaseRestore
  BY <1>3 DEF BecomeDue, ListDueDatabaseBackupPolicies, AdvanceDatabaseBackupPolicySchedule, DeleteBackupDestination,
     ManualBackup, QueueDueDatabaseBackup, CheckRestorable, QueueDatabaseRestore, scheduleRest, restoreRest
<1>4. ASSUME NEW b \in Backups, QueueSafetyBackup(b) \/ PrepareCopy(b) \/ Expire(b) \/ PrepareDatabaseBackupDeletion(b)
      PROVE unread' = unread
  BY <1>4 DEF QueueSafetyBackup, PrepareCopy, Expire, PrepareDatabaseBackupDeletion, restoreRest, removeRest
<1>5. CASE DeleteInstance \/ CopyProvisioned \/ DatabaseSickens \/ DatabaseRecovers
  BY <1>5 DEF DeleteInstance, CopyProvisioned, DatabaseSickens, DatabaseRecovers, outsideRest
<1>6. ASSUME NEW x \in Removers, RemoverStep(x) PROVE unread' = unread
  BY <1>6 DEF RemoverStep, ListExpiredDatabaseBackups, NextExpired, MarkDatabaseBackupDeleting, EraseObject,
     DeleteDatabaseBackupRecord, removeRest
<1>7. ASSUME NEW o \in Operations, Claim(o) \/ ReadyFails(o) \/ Retry(o) PROVE unread' = unread
  BY <1>7 DEF Claim, ReadyFails, Retry, claimRest
<1>8. ASSUME NEW o \in Operations, BackupOperationStep(o) PROVE unread \subseteq unread'
  BY <1>8 DEF BackupOperationStep, ReserveDisk, FailCompanion, ReportSuccess, EndOperation, Cancelled, BackupStep,
     MarkDatabaseBackupRunning, OpenDestination, UploadDump, VerifyObject, CompleteDatabaseBackup, DiscardObject,
     RestoreStep, CheckRestore, StopDatabaseConsumers, BeginPayload, EndPayload, RestoreSucceeded,
     RestartDatabaseConsumers, workRest
<1>9. CASE BackupsCrash \/ BackupsDrain
  BY <1>9 DEF BackupsCrash, BackupsDrain, Interrupted
<1>. QED
  BY <1>1, <1>2, <1>3, <1>4, <1>5, <1>6, <1>7, <1>8, <1>9
     DEF BackupsNext, BackupRequest, OutsideBackups, ScheduleStep, RestorerStep

\* Only its worker opens a destination for b, and an object of b goes only
\* with its worker, which leaves, or by a deletion of b.
HeldMoves(b) == held'[b] = held[b] \/ at'[b] = "idle" \/ OpenDestination(b)

ObjectsKept(b) == \A d \in Destinations, k \in Buckets : <<d, k, b>> \in stored => <<d, k, b>> \in stored'

WorkerLeaves(b) ==
  /\ at[b] \in Opened /\ at'[b] \notin Opened \cup {"open"}
  /\ backup'[b] = backup[b] \/ b \in unread'

DeletionErases(b) ==
  /\ backup[b].status \in Removable /\ (backup[b].status = "success" => backup[b].expired)
  /\ backup'[b] = backup[b] /\ at' = at

LEMMA ObjectSteps ==
  ASSUME BackupsInv, [BackupsNext]_backupsVars, NEW b \in Backups
  PROVE HeldMoves(b) /\ (ObjectsKept(b) \/ WorkerLeaves(b) \/ DeletionErases(b))
<1>. USE BackupsAssumption DEF lineVars, completeRest, Completed, CompletedUnread
<1>0. /\ b \in Operations /\ held = [o \in Operations |-> held[o]]
      /\ at \in [Operations -> BackupPlaces \cup RestorePlaces]
  BY DEF BackupsInv, BackupsTypes, WorkTypes, Operations
<1>1. ASSUME held' = held /\ stored' = stored PROVE HeldMoves(b) /\ ObjectsKept(b)
  BY <1>1 DEF HeldMoves, ObjectsKept
<1>2. CASE BackupsCrash \/ BackupsDrain
  BY <1>0, <1>2 DEF BackupsCrash, BackupsDrain, Interrupted, HeldMoves, ObjectsKept
<1>3. ASSUME NEW x \in Removers, EraseObject(x) PROVE HeldMoves(b) /\ (ObjectsKept(b) \/ DeletionErases(b))
  <2>1. held' = held /\ at' = at /\ backup' = backup
    BY <1>3 DEF EraseObject, removeRest, workVars
  <2>2. CASE remover[x].backup # b
    BY <1>3, <2>1, <2>2 DEF EraseObject, HeldMoves, ObjectsKept
  <2>3. CASE remover[x].backup = b
    <3>1. /\ backup[b].status \in Removable
          /\ x = "retention" \/ backup[b].status # "success"
          /\ x = "retention" /\ backup[b].status = "success" => backup[b].expired
      BY <1>3, <2>3 DEF EraseObject, BackupsInv, RemoverInv
    <3>. QED
      BY <2>1, <3>1 DEF HeldMoves, DeletionErases
  <2>. QED
    BY <2>2, <2>3
<1>4. ASSUME NEW x \in Removers, RemoverStep(x), ~EraseObject(x) PROVE held' = held /\ stored' = stored
  BY <1>4 DEF RemoverStep, ListExpiredDatabaseBackups, NextExpired, MarkDatabaseBackupDeleting,
     DeleteDatabaseBackupRecord, removeRest, workVars
<1>5. ASSUME NEW o \in Operations, Claim(o) \/ ReadyFails(o) \/ Retry(o) PROVE held' = held /\ stored' = stored
  BY <1>5 DEF Claim, ReadyFails, Retry, claimRest
<1>6. ASSUME NEW o \in Operations, BackupOperationStep(o)
      PROVE HeldMoves(b) /\ (ObjectsKept(b) \/ WorkerLeaves(b))
  <2>0. o \in Backups => at[o] \in BackupPlaces
    BY DEF BackupsInv, QueueInv, WorkerRuns
  <2>1. CASE ReserveDisk(o) \/ FailCompanion(o) \/ ReportSuccess(o)
    BY <1>1, <2>1 DEF ReserveDisk, FailCompanion, ReportSuccess
  <2>2. CASE EndOperation(o)
    BY <1>0, <2>2 DEF EndOperation, HeldMoves, ObjectsKept
  <2>3. CASE Cancelled(o)
    <3>1. HeldMoves(b)
      BY <1>0, <2>3 DEF Cancelled, HeldMoves
    <3>2. CASE o # b
      BY <2>3, <3>1, <3>2 DEF Cancelled, Object, ObjectsKept
    <3>3. CASE o = b /\ at[b] \in Opened
      BY <1>0, <2>3, <3>1, <3>3 DEF Cancelled, WorkerLeaves, Opened
    <3>4. CASE o = b /\ at[b] \notin Opened
      BY <2>3, <3>1, <3>4 DEF Cancelled, ObjectsKept, Opened
    <3>. QED
      BY <3>1, <3>2, <3>3, <3>4
  <2>4. CASE o \in Backups /\ OpenDestination(o)
    <3>1. CASE o = b
      BY <2>4, <3>1 DEF OpenDestination, HeldMoves, ObjectsKept
    <3>2. CASE o # b
      BY <1>0, <2>4, <3>2 DEF OpenDestination, HeldMoves, ObjectsKept
    <3>. QED
      BY <3>1, <3>2
  <2>5. CASE o \in Backups /\ UploadDump(o)
    BY <2>5 DEF UploadDump, HeldMoves, ObjectsKept
  <2>6. CASE o \in Backups /\ DiscardObject(o)
    <3>1. held' = held /\ backup' = backup
      BY <2>6 DEF DiscardObject, rowVars
    <3>2. CASE o # b
      BY <2>6, <3>1, <3>2 DEF DiscardObject, Object, ObjectsKept, HeldMoves
    <3>3. CASE o = b
      BY <1>0, <2>6, <3>1, <3>3 DEF DiscardObject, Step, HeldMoves, WorkerLeaves, Opened
    <3>. QED
      BY <3>2, <3>3
  <2>7. CASE o \in Backups /\ (MarkDatabaseBackupRunning(o) \/ VerifyObject(o) \/ CompleteDatabaseBackup(o))
    BY <1>1, <2>7 DEF MarkDatabaseBackupRunning, VerifyObject, CompleteDatabaseBackup
  <2>8. CASE o \in Restores /\ StopDatabaseConsumers(o)
    BY <1>0, <2>8 DEF StopDatabaseConsumers, HeldMoves, ObjectsKept
  <2>9. CASE o \in Restores /\ RestoreStep(o) /\ ~StopDatabaseConsumers(o)
    BY <1>1, <2>9 DEF RestoreStep, CheckRestore, BeginPayload, EndPayload, RestoreSucceeded, RestartDatabaseConsumers
  <2>. QED
    BY <1>6, <2>1, <2>2, <2>3, <2>4, <2>5, <2>6, <2>7, <2>8, <2>9 DEF BackupOperationStep, BackupStep
<1>7. CASE UNCHANGED backupsVars
  BY <1>1, <1>7 DEF backupsVars, workVars
<1>8. ASSUME NEW d \in Destinations,
             \/ CreateBackupDestination(d) \/ UpdateBackupDestination(d) \/ CountRetained(d)
             \/ \E e \in BOOLEAN : SaveBackupPolicy(d, e)
      PROVE held' = held /\ stored' = stored
  BY <1>8 DEF CreateBackupDestination, UpdateBackupDestination, CountRetained, SaveBackupPolicy, destinationRest, workVars
<1>9. CASE BecomeDue \/ ListDueDatabaseBackupPolicies \/ AdvanceDatabaseBackupPolicySchedule \/ DeleteBackupDestination
           \/ ManualBackup \/ QueueDueDatabaseBackup \/ CheckRestorable \/ QueueDatabaseRestore
  BY <1>1, <1>9 DEF BecomeDue, ListDueDatabaseBackupPolicies, AdvanceDatabaseBackupPolicySchedule,
     DeleteBackupDestination, ManualBackup, QueueDueDatabaseBackup, CheckRestorable, QueueDatabaseRestore, scheduleRest,
     restoreRest, workVars
<1>10. ASSUME NEW c \in Backups, QueueSafetyBackup(c) \/ PrepareCopy(c) \/ Expire(c) \/ PrepareDatabaseBackupDeletion(c)
       PROVE held' = held /\ stored' = stored
  BY <1>10 DEF QueueSafetyBackup, PrepareCopy, Expire, PrepareDatabaseBackupDeletion, restoreRest, removeRest, workVars
<1>11. CASE DeleteInstance \/ CopyProvisioned \/ DatabaseSickens \/ DatabaseRecovers
  BY <1>1, <1>11 DEF DeleteInstance, CopyProvisioned, DatabaseSickens, DatabaseRecovers, outsideRest,
     workVars
<1>. QED
  BY <1>1, <1>2, <1>3, <1>4, <1>5, <1>6, <1>7, <1>8, <1>9, <1>10, <1>11
     DEF BackupsNext, BackupRequest, OutsideBackups, ScheduleStep, RestorerStep

LEMMA WorkerKnowsObject ==
  ASSUME BackupsInv, [BackupsNext]_backupsVars, NEW b \in Backups
  PROVE HoldsWhatItOpened(b)' /\ RowIsMine(b)' /\ Uploaded(b)'
<1>. USE BackupsAssumption DEF lineVars, completeRest, Completed, CompletedUnread
<1>0. /\ HoldsWhatItOpened(b) /\ RowIsMine(b) /\ Uploaded(b)
      /\ backup[b] \in BackupRows /\ b \in Operations /\ b \notin Restores
      /\ at \in [Operations -> BackupPlaces \cup RestorePlaces] /\ held = [o \in Operations |-> held[o]]
      /\ destination \in [Destinations -> DestinationRows] /\ contents \in Contents
      /\ backup \in [Backups -> BackupRows]
  BY DEF BackupsInv, BackupInv, BackupsTypes, RowTypes, WorkTypes, RestTypes, Operations
<1>1. CASE at'[b] \notin Opened \cup {"open"}
  BY <1>1 DEF HoldsWhatItOpened, RowIsMine, Uploaded, Opened
<1>2. CASE at'[b] = at[b] /\ at[b] \in Opened \cup {"open"}
  <2>1. at[b] # "idle" /\ (backup[b].status = "running" \/ Given(b))
    BY <1>0, <1>2 DEF RowIsMine, Opened
  <2>2. held'[b] = held[b]
    <3>1. ~OpenDestination(b)
      BY <1>0, <1>2 DEF OpenDestination, Step, Decide
    <3>. QED
      BY <1>2, <2>1, <3>1, ObjectSteps DEF HeldMoves
  <2>3. /\ backup[b].status = "running" => backup'[b].status = "running" /\ backup'[b].content = backup[b].content
        /\ backup'[b].destination = backup[b].destination \/ backup'[b].destination = None
    <3>1. ~RowEnters(b)
      <4>1. operation[b].status = "running"
        BY <1>0, <2>1 DEF BackupsInv, QueueInv, WorkerRuns
      <4>. QED
        BY <1>0, <4>1 DEF RowEnters, BackupsInv, QueueInv, RowsFollowLine
    <3>2. ~RowIsMade(b) /\ ~RowIsRecovered(b)
      BY <1>2, <2>1 DEF RowIsMade, RowIsRecovered, Opened
    <3>3. backup'[b] = backup[b] \/ RowIsTaken(b)
      BY <3>1, <3>2, RowSteps DEF RowMoves
    <3>4. CASE backup'[b] = backup[b]
      BY <3>4
    <3>5. CASE RowIsTaken(b)
      <4>1. NoBackup.destination = None
        BY DEF NoBackup
      <4>. QED
        BY <1>0, <3>5, <4>1 DEF RowIsTaken, BackupRows
    <3>. QED
      BY <3>3, <3>4, <3>5
  <2>4. backup[b].status = "running" => ObjectsKept(b)
    BY <1>2, ObjectSteps DEF WorkerLeaves, DeletionErases, Removable
  <2>7. Given(b) => Given(b)'
    BY <1>2, UnreadGrows DEF Given
  <2>8. at[b] = "complete" \/ at[b] = "verify" => backup[b].status = "running"
    BY <1>0 DEF RowIsMine, Given, Opened
  <2>5. HoldsWhatItOpened(b)'
    <3>1. ASSUME at[b] \in Opened
          PROVE /\ held[b] \in Destinations \X Buckets /\ held[b][1] \in Destinations /\ held[b][2] \in Buckets
                /\ backup[b].destination \in {held[b][1], None}
                /\ held[b][2] <= destination[held[b][1]].bucket
      BY <1>0, <3>1 DEF HoldsWhatItOpened
    <3>2. at[b] \in Opened => held[b][2] <= destination'[held[b][1]].bucket
      BY <3>1, BucketsMove DEF Buckets
    <3>. QED
      BY <1>2, <2>2, <2>3, <3>1, <3>2 DEF HoldsWhatItOpened
  <2>6. Uploaded(b)'
    <3>1. at[b] = "complete" => held[b] \in Destinations \X Buckets
      BY <1>0 DEF HoldsWhatItOpened, Opened
    <3>. QED
      BY <1>0, <1>2, <2>2, <2>3, <2>4, <2>8, <3>1 DEF Uploaded, Object, ObjectsKept
  <2>9. RowIsMine(b)'
    BY <2>1, <2>3, <2>7 DEF RowIsMine
  <2>. QED
    BY <2>5, <2>6, <2>9
<1>3. CASE WorkerGoesOn(b) /\ at'[b] # at[b]
  <2>1. BackupOperationStep(b) /\ at[b] \in BackupPlaces
    BY <1>0, <1>3 DEF WorkerGoesOn, BackupsInv, QueueInv, WorkerRuns
  <2>2. CASE \/ ReserveDisk(b) \/ FailCompanion(b) \/ ReportSuccess(b) \/ EndOperation(b) \/ Cancelled(b)
             \/ DiscardObject(b)
    <3>1. at'[b] \notin Opened \cup {"open"}
      BY <1>0, <2>2 DEF ReserveDisk, FailCompanion, ReportSuccess, EndOperation, Cancelled, DiscardObject, Step, Decide,
         Opened
    <3>. QED
      BY <1>1, <3>1
  <2>3. CASE MarkDatabaseBackupRunning(b)
    <3>1. CASE at'[b] = "fail"
      BY <1>1, <3>1 DEF Opened
    <3>2. CASE at'[b] = "open" /\ backup'[b].status = "running"
      BY <3>2 DEF HoldsWhatItOpened, RowIsMine, Uploaded, Opened
    <3>. QED
      BY <1>0, <2>3, <3>1, <3>2 DEF MarkDatabaseBackupRunning, Step, Decide, BackupRows
  <2>4. CASE OpenDestination(b)
    <3>. DEFINE d == backup[b].destination
    <3>1. CASE at'[b] = "fail"
      BY <1>1, <3>1 DEF Opened
    <3>2. CASE at'[b] = "dump" /\ d # None /\ held'[b] = <<d, destination[d].bucket>>
      <4>1. d \in Destinations /\ destination[d].bucket \in Buckets /\ destination' = destination /\ backup' = backup
        BY <1>0, <2>4, <3>2 DEF OpenDestination, BackupRows, DestinationRows, workRest, rowVars
      <4>2. backup[b].status = "running"
        BY <1>0, <2>4 DEF OpenDestination, RowIsMine, Given
      <4>. QED
        BY <3>2, <4>1, <4>2 DEF HoldsWhatItOpened, RowIsMine, Uploaded, Opened, Buckets
    <3>. QED
      BY <1>0, <2>4, <3>1, <3>2 DEF OpenDestination, Step, Decide
  <2>5. CASE UploadDump(b) \/ VerifyObject(b) \/ CompleteDatabaseBackup(b)
    <3>1. at[b] \in Opened /\ held' = held /\ destination' = destination /\ backup[b].status = "running"
      BY <1>0, <2>5 DEF UploadDump, VerifyObject, CompleteDatabaseBackup, workRest, Opened, RowIsMine, Given
    <3>2. CASE at'[b] = "report"
      BY <1>1, <3>2 DEF Opened
    <3>3. CASE at'[b] # "report"
      <4>1. /\ backup'[b].status = "running" \/ Given(b)'
            /\ backup'[b].destination = backup[b].destination
        <5>1. CASE CompletedUnread(b) /\ Decide(b, "abandon", "failed")
          BY <1>0, <5>1 DEF Given, Decide, BackupRows
        <5>2. CASE backup' = backup \/ UploadDump(b)
          BY <1>0, <2>5, <3>1, <5>2 DEF UploadDump, BackupRows
        <5>. QED
          BY <1>0, <2>5, <3>3, <5>1, <5>2 DEF VerifyObject, CompleteDatabaseBackup, Step, Decide, rowVars
      <4>2. at'[b] = "verify" => backup'[b].content \in Contents
        BY <1>0, <2>5 DEF UploadDump, VerifyObject, CompleteDatabaseBackup, Step, Decide, BackupRows
      <4>3. at'[b] = "complete" => backup'[b].content \in Contents /\ Object(b) \in stored /\ stored' = stored
        BY <1>0, <2>5 DEF UploadDump, VerifyObject, CompleteDatabaseBackup, Step, Decide, rowVars, Uploaded
      <4>. QED
        BY <1>0, <3>1, <4>1, <4>2, <4>3 DEF HoldsWhatItOpened, RowIsMine, Uploaded, Object
    <3>. QED
      BY <3>2, <3>3
  <2>. QED
    BY <1>0, <2>1, <2>2, <2>3, <2>4, <2>5 DEF BackupOperationStep, BackupStep
<1>4. OperationMoves(b)
  BY <1>0, OperationSteps
<1>5. at'[b] = at[b] \/ at'[b] \in {"reserve", "idle"} \/ WorkerGoesOn(b)
  BY <1>4 DEF OperationMoves, QueueEnters, WorkerStarts, QueuedMoves, DeferralEnds, WorkerEnds, WorkerIsLost
<1>. QED
  BY <1>1, <1>2, <1>3, <1>5 DEF Opened

LEMMA FinishedKept ==
  ASSUME BackupsInv, [BackupsNext]_backupsVars, NEW b \in Backups
  PROVE Finished(b)'
<1>. USE BackupsAssumption
<1>1. RowMoves(b) /\ Finished(b) /\ Uploaded(b) /\ backup[b] \in BackupRows
  BY RowSteps DEF BackupsInv, BackupInv, BackupsTypes, RowTypes
<1>2. CASE backup'[b] = backup[b]
  BY <1>1, <1>2 DEF Finished
<1>3. CASE RowIsTaken(b)
  BY <1>1, <1>3 DEF RowIsTaken, Finished, BackupRows, NoBackup
<1>4. CASE RowIsMade(b)
  <2>1. at[b] \in {"dump", "complete"} => backup[b].status = "running"
    BY DEF BackupsInv, BackupInv, RowIsMine, Given, Opened
  <2>. QED
    BY <1>1, <1>4, <2>1 DEF RowIsMade, Finished, Uploaded, BackupRows
<1>5. CASE RowIsRecovered(b) \/ RowEnters(b)
  BY <1>1, <1>5 DEF RowIsRecovered, RowEnters, Finished, BackupRows, NoBackup
<1>. QED
  BY <1>1, <1>2, <1>3, <1>4, <1>5 DEF RowMoves

LEMMA InPlaceKept ==
  ASSUME BackupsInv, [BackupsNext]_backupsVars, NEW b \in Backups
  PROVE InPlaceIfSuccess(b)'
<1>. USE BackupsAssumption
<1>0. /\ RowMoves(b) /\ InPlaceIfSuccess(b) /\ backup[b] \in BackupRows
      /\ destination \in [Destinations -> DestinationRows]
  BY RowSteps DEF BackupsInv, BackupInv, BackupsTypes, RowTypes
<1>. SUFFICES ASSUME backup'[b].status = "success", ~backup'[b].expired, backup'[b].destination # None,
                     ~Moved(backup[b].destination)', b \notin unread'
              PROVE Reachable(b)'
  BY DEF InPlaceIfSuccess, InPlace, Orphaned
<1>. DEFINE d == backup'[b].destination
<1>1. backup'[b] \in BackupRows /\ d \in Destinations /\ destination'[d].bucket = 1
  <2>1. RowTypes'
    BY RowTypesKept
  <2>. QED
    BY <2>1 DEF RowTypes, BackupRows, Moved
<1>2. destination[d].bucket = 1
  BY <1>1, BucketsMove
<1>. HIDE DEF d
<1>9. b \notin unread
  BY UnreadGrows
<1>3. CASE backup[b].status = "success" /\ ~backup[b].expired /\ backup[b].destination = d
  <2>1. <<d, 1, b>> \in stored
    BY <1>0, <1>1, <1>2, <1>3, <1>9 DEF InPlaceIfSuccess, InPlace, Orphaned, Moved, Reachable, d
  <2>2. ObjectsKept(b)
    <3>1. ~WorkerLeaves(b)
      BY <1>3, <1>9 DEF WorkerLeaves, BackupsInv, BackupInv, RowIsMine, Given
    <3>2. ~DeletionErases(b)
      BY <1>3 DEF DeletionErases
    <3>. QED
      BY <3>1, <3>2, ObjectSteps
  <2>3. <<d, 1, b>> \in stored'
    <3>1. 1 \in Buckets
      BY DEF Buckets
    <3>2. \A k \in Buckets : <<d, k, b>> \in stored => <<d, k, b>> \in stored'
      BY <1>1, <2>2 DEF ObjectsKept, d
    <3>. QED
      BY <2>1, <3>1, <3>2
  <2>. QED
    BY <1>1, <2>3 DEF Reachable, d
<1>4. CASE /\ at[b] = "complete" /\ at'[b] = "report" /\ stored' = stored
           /\ backup'[b] = [backup[b] EXCEPT !.status = "success", !.keyed = TRUE]
  <2>1. /\ held[b] \in Destinations \X Buckets /\ Object(b) \in stored
        /\ backup[b].destination \in {held[b][1], None}
        /\ held[b][2] <= destination[held[b][1]].bucket
    BY <1>4 DEF BackupsInv, BackupInv, HoldsWhatItOpened, Uploaded, Opened
  <2>2. backup[b].destination = d /\ stored' = stored
    BY <1>0, <1>4 DEF BackupRows, d
  <2>3. held[b][1] = d /\ held[b][2] = 1
    BY <1>2, <2>1, <2>2 DEF Buckets, d
  <2>4. <<d, 1, b>> \in stored'
    BY <2>1, <2>2, <2>3 DEF Object
  <2>. QED
    BY <1>1, <2>4 DEF Reachable, d
<1>5. CASE backup'[b] = backup[b]
  BY <1>3, <1>5 DEF d
<1>6. CASE RowIsTaken(b)
  BY <1>0, <1>6 DEF RowIsTaken, BackupRows, NoBackup
<1>7. CASE RowIsMade(b)
  <2>1. UploadDump(b) /\ at[b] = "dump" => backup[b].status = "running"
    BY DEF BackupsInv, BackupInv, RowIsMine, Given, Opened
  <2>. QED
    BY <1>0, <1>4, <1>7, <2>1 DEF RowIsMade, BackupRows
<1>8. CASE RowIsRecovered(b) \/ RowEnters(b)
  BY <1>0, <1>8 DEF RowIsRecovered, RowEnters, BackupRows, NoBackup
<1>. QED
  BY <1>0, <1>5, <1>6, <1>7, <1>8 DEF RowMoves

-----------------------------------------------------------------------------
(***************************************************************************)
(* The theorems.                                                           *)
(***************************************************************************)
LEMMA BackupsBegin == BackupsInit => BackupsInv
<1>. SUFFICES ASSUME BackupsInit PROVE BackupsInv
  OBVIOUS
<1>. USE BackupsAssumption DEF BackupsInit
<1>1. ToSet(line) = {} /\ DOMAIN line = {}
  BY DEF ToSet
<1>2. RowTypes
  <2>1. destination \in [Destinations -> DestinationRows] /\ policy \in Policies /\ policy.enabled = FALSE
    BY DEF DestinationRows, Buckets, Policies
  <2>2. backup \in [Backups -> BackupRows]
    BY NewBackupRow
  <2>3. job \in [Restores -> JobRows]
    BY DEF NoJob, JobRows, JobStatuses
  <2>. QED
    BY <2>1, <2>2, <2>3 DEF RowTypes
<1>3. WorkTypes
  BY DEF WorkTypes, OperationRows, BackupPlaces
<1>4. RestTypes
  BY DEF RestTypes, Contents, AtRest, RemoverRows, NoRequest, RequestRows
<1>5. QueueInv
  BY <1>1 DEF QueueInv, WorkerRuns, RowsFollowLine, QueuedOnce, OneAtATime, RequestNames, JobNames, NoRequest, Operations, Ended,
     BackupPlaces, RestorePlaces
<1>6. BackupInv
  BY DEF BackupInv, HoldsWhatItOpened, RowIsMine, Given, Uploaded, Finished, InPlaceIfSuccess, NoBackup, Opened, Operations
<1>7. RemoverInv
  BY DEF RemoverInv, AtRest
<1>8. RestoreInv
  BY DEF RestoreInv, Overwriting, Operations
<1>9. MixedInv
  BY DEF MixedInv
<1>. QED
  BY <1>2, <1>3, <1>4, <1>5, <1>6, <1>7, <1>8, <1>9 DEF BackupsInv, BackupsTypes

\* Every step of the backups, the restores, the deletions and the worker runtime
\* keeps the invariant: what each actor remembers of rows and objects still holds.
THEOREM BackupsInvariant == BackupsSpec => []BackupsInv
<1>1. BackupsInit => BackupsInv
  BY BackupsBegin
<1>2. BackupsInv /\ [BackupsNext]_backupsVars => BackupsInv'
  <2>. SUFFICES ASSUME BackupsInv, [BackupsNext]_backupsVars PROVE BackupsInv'
    OBVIOUS
  <2>1. BackupsTypes'
    BY RowTypesKept, WorkTypesKept, RestTypesKept DEF BackupsTypes
  <2>2. BackupInv'
    BY WorkerKnowsObject, FinishedKept, InPlaceKept DEF BackupInv
  <2>. QED
    BY <2>1, <2>2, QueueInvKept, RemoverInvKept, RestoreInvKept, MixedInvKept DEF BackupsInv
<1>. QED
  BY <1>1, <1>2, PTL DEF BackupsSpec

\* The rows, the objects and the workers have their types, and an operation is
\* running exactly when a worker has it, through crashes and drains.
THEOREM BackupsTyped == BackupsSpec => []BackupsTypeOK
<1>1. BackupsInv => BackupsTypeOK
  <2>. SUFFICES ASSUME BackupsInv PROVE BackupsTypeOK
    OBVIOUS
  <2>1. \A d \in Destinations : destination[d].bucket \in 1..2
    BY DEF BackupsInv, BackupsTypes, RowTypes, DestinationRows, Buckets
  <2>2. \A b \in Backups : backup[b].status \in BackupStatuses
    BY DEF BackupsInv, BackupsTypes, RowTypes, BackupRows
  <2>3. \A r \in Restores : job[r].status \in {"absent", "queued", "running", "success", "failed"}
    BY DEF BackupsInv, BackupsTypes, RowTypes, JobRows, JobStatuses
  <2>4. \A o \in Operations :
          /\ operation[o].status \in {"absent", "queued", "running", "success", "failed", "cancelled"}
          /\ operation[o].attempt \in 0..MaxAttempts
    BY DEF BackupsInv, BackupsTypes, WorkTypes, OperationRows, Ended
  <2>5. \A o \in Operations : (at[o] # "idle") <=> (operation[o].status = "running")
    BY DEF BackupsInv, QueueInv, WorkerRuns
  <2>6. /\ stored \subseteq Destinations \X (1..2) \X Backups
        /\ contents \in {"whole", "mixed"} /\ settled \in 0..Len(line)
        /\ scheduler \in Destinations \cup {"idle", "advance"}
    BY DEF BackupsInv, BackupsTypes, RowTypes, WorkTypes, RestTypes, Contents, Buckets
  <2>. QED
    BY <2>1, <2>2, <2>3, <2>4, <2>5, <2>6 DEF BackupsTypeOK
<1>. QED
  BY <1>1, BackupsInvariant, PTL

\* What the store calls a successful backup can be fetched, until it expires or
\* an operator changes or deletes its destination, unless the call that
\* completed it could not read it back: processDatabaseBackup verifies before
\* it completes the row, and every deletion marks the row first.
THEOREM SuccessStaysStored == BackupsSpec => []SuccessIsStored
<1>1. BackupsInv => SuccessIsStored
  BY DEF BackupsInv, BackupInv, InPlaceIfSuccess, SuccessIsStored
<1>. QED
  BY <1>1, BackupsInvariant, PTL

\* A database that a restore left half written has a safety backup to go back
\* to: none runs while the restore does, the job refers to it, a referenced row
\* is not deleted, and what is run again afterwards stood behind the restore.
THEOREM MixedStaysSafe == BackupsSpec => []MixedHasSafety
<1>1. BackupsInv => MixedHasSafety
  <2>. SUFFICES ASSUME BackupsInv, contents = "mixed" PROVE MixedHasSafety
    BY DEF MixedHasSafety
  <2>1. PICK r \in Restores :
          /\ job[r].safety # None
          /\ \/ SafetyPast(r) /\ SafetyKept(r)
             \/ Overtakes(r) /\ backup[job[r].safety].status = "failed"
    BY DEF BackupsInv, MixedInv
  <2>2. job[r].safety \in Backups
    BY <2>1 DEF BackupsInv, BackupsTypes, RowTypes, JobRows
  <2>3. InPlaceIfSuccess(job[r].safety)
    BY <2>2 DEF BackupsInv, BackupInv
  <2>4. CASE SafetyKept(r)
    BY <2>1, <2>3, <2>4 DEF SafetyKept, InPlaceIfSuccess, MixedHasSafety
  <2>5. CASE Overtakes(r) /\ backup[job[r].safety].status = "failed"
    <3>1. PICK i, j \in DOMAIN line : i < j /\ line[i] = r /\ line[j] = job[r].safety
      BY <2>5 DEF Overtakes, Behind
    <3>2. Place(r) = i /\ Place(job[r].safety) = j
      BY <3>1 DEF Place, BackupsInv, QueueInv, QueuedOnce
    <3>. QED
      BY <2>1, <2>5, <3>1, <3>2 DEF Overtaken, MixedHasSafety
  <2>. QED
    BY <2>1, <2>4, <2>5
<1>. QED
  BY <1>1, BackupsInvariant, PTL
=============================================================================
