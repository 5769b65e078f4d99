---------------------------- MODULE DeploymentLogs ----------------------------
(***************************************************************************)
(* The live build log of one deployment: the deployment appends to a file, *)
(* the server catches a viewer up and then follows the file (streamBuild-  *)
(* LogJSON in cmd/server/deployment_logs_live.go, FollowFileFromOffset in  *)
(* internal/logs/files.go), and the viewer reconnects with the offset of   *)
(* the last frame it has seen (web/src/use-deployment-log-stream.ts).      *)
(*                                                                         *)
(* The host may truncate the file, or rotate it: move it away and put an   *)
(* empty one in its place; the deployment goes on writing to the file it   *)
(* opened.  A byte is known by its place and by the version of the file it *)
(* was written to: truncating makes another version of the same file.      *)
(* Frames arrive in order or not at all, so a lost connection stands for   *)
(* every frame that was sent and not received.  The text stays below the   *)
(* million characters of which the viewer keeps the last.                  *)
(*                                                                         *)
(* The viewer keeps text and cursor when the page goes on to show another  *)
(* deployment, so it may begin with those of the log it showed before,     *)
(* whose bytes are of version 0.                                           *)
(***************************************************************************)
EXTENDS Environment, Sequences, FiniteSets

CONSTANTS
  Files,    \* numbers of the files that the path may stand for, one after the other
  LogBytes  \* bound: bytes the deployment writes

ASSUME LogsAssumption ==
  /\ LogBytes \in Nat
  /\ IsFiniteSet(Files) /\ Files # {} /\ Files = 1 .. Cardinality(Files) /\ None \notin Files

VARIABLES
  path,    \* the file at logs_path, None while there is none
  disk,    \* version and size of each file
  toWrite, \* bytes the deployment has still to write
  ended,   \* whether the status of the deployment is terminal
  viewer,  \* what it shows, its cursor and its connection
  session, \* where the server is with this viewer
  due,     \* history: size of the log when the status became terminal
  moved,   \* history: the host has truncated or rotated the log
  blind    \* history: the file is not the one the viewer knows, and nothing told the server

logState == <<path, disk, toWrite, ended, viewer, session, due, moved, blind>>
logVars == <<logState, environment>>
writerVars == <<path, disk, toWrite, ended, due, moved>>

Disconnected == [at |-> "none", offset |-> 0, sent |-> 0, until |-> 0, file |-> None, resume |-> "none"]

LogsInit ==
  /\ path = 1 /\ disk = [f \in Files |-> [version |-> f, size |-> 0]]
  /\ toWrite = LogBytes /\ ended = FALSE
  /\ \E n \in 0..LogBytes : viewer = [text |-> [k \in 1..n |-> <<0, k>>], cursor |-> n, state |-> "off"]
  /\ session = Disconnected
  /\ due = 0 /\ moved = FALSE /\ blind = FALSE
  /\ EnvironmentInit

-----------------------------------------------------------------------------
(* The deployment and the host. *)

\* The deployment keeps the file it opened.
WriteLog ==
  /\ toWrite > 0
  /\ toWrite' = toWrite - 1 /\ disk' = [disk EXCEPT ![1].size = @ + 1]
  /\ NoFault
  /\ UNCHANGED <<path, ended, viewer, session, due, moved, blind>>

\* A failure is recorded before its reason is written to the log, and an
\* operator cancels while the build still writes.
EndDeployment ==
  /\ ~ended /\ ended' = TRUE /\ due' = disk[1].size
  /\ NoFault
  /\ UNCHANGED <<path, disk, toWrite, viewer, session, moved, blind>>

TruncateLog ==
  /\ path # None /\ Fault /\ moved' = TRUE
  /\ disk' = [disk EXCEPT ![path] = [version |-> @.version + Len(disk), size |-> 0]]
  /\ UNCHANGED <<path, toWrite, ended, viewer, session, due, blind>>

RemoveLog ==
  /\ path # None /\ Fault /\ moved' = TRUE /\ path' = None
  /\ UNCHANGED <<disk, toWrite, ended, viewer, session, due, blind>>

PutNewLog ==
  /\ path = None /\ \E f \in Files : moved /\ f # 1 /\ disk[f].version = f /\ path' = f
  /\ Request /\ \E n \in 0..LogBytes : disk' = [disk EXCEPT ![path'].size = n]
  /\ UNCHANGED <<toWrite, ended, viewer, session, due, moved, blind>>

-----------------------------------------------------------------------------
(* The viewer. *)

Connect ==
  /\ viewer.state = "off" /\ Request
  /\ viewer' = [viewer EXCEPT !.state = "on"]
  /\ session' = [Disconnected EXCEPT !.at = "stat", !.offset = viewer.cursor]
  /\ UNCHANGED <<writerVars, blind>>

LoseConnection ==
  /\ viewer.state = "on" /\ Fault
  /\ viewer' = [viewer EXCEPT !.state = "off"] /\ session' = Disconnected
  /\ UNCHANGED <<writerVars, blind>>

\* A resync frame: the viewer forgets everything and connects again.
Resync ==
  /\ viewer' = [text |-> <<>>, cursor |-> 0, state |-> "off"]
  /\ session' = Disconnected

\* An end frame that tells of an error: the viewer stops there.  The one of
\* the final catch-up puts the cursor where that began.
GiveUp ==
  /\ viewer' = [viewer EXCEPT !.state = "broken", !.cursor = IF session.resume = "end" THEN session.sent ELSE @]
  /\ session' = Disconnected

-----------------------------------------------------------------------------
(* The server. *)

Size(f) == IF f = None THEN 0 ELSE disk[f].size
LogAt(s) == [session EXCEPT !.at = s]

\* What the viewer has is not the beginning of this file up to the offset.
Stale(f) ==
  /\ session.offset > 0
  /\ f = None \/ Len(viewer.text) # session.offset \/ viewer.text[1][1] # disk[f].version

\* A cursor past the end of the file is answered with a resync.
StatLog ==
  /\ session.at = "stat" /\ NoFault
  /\ IF session.offset > Size(path) THEN Resync /\ UNCHANGED blind
     ELSE /\ session' = [session EXCEPT !.at = "open", !.until = Size(path), !.resume = "follow"]
          /\ blind' = (blind \/ Stale(path)) /\ UNCHANGED viewer
  /\ UNCHANGED writerVars

\* The file is opened to be caught up with; not needed when nothing is missing.
OpenToCatchUp ==
  /\ session.at = "open" /\ NoFault
  /\ IF session.offset >= session.until
     THEN session' = [LogAt(session.resume) EXCEPT !.sent = session.offset, !.file = None] /\ UNCHANGED <<viewer, blind>>
     ELSE IF path = None THEN GiveUp /\ UNCHANGED blind
     ELSE session' = [LogAt("read") EXCEPT !.file = path] /\ blind' = (blind \/ Stale(path)) /\ UNCHANGED viewer
  /\ UNCHANGED writerVars

\* One chunk and its frame, until `until' or the end of the file.  A catch-up
\* that comes to the end of the file early goes on as if it had not; only the
\* follower counts what it has sent.
ReadChunk ==
  /\ session.at \in {"read", "emit"}
  /\ LET f == session.file
         more == session.offset < session.until /\ session.offset < disk[f].size IN
     \/ /\ NoFault /\ more
        /\ \E n \in 1..(session.until - session.offset) :
             /\ session.offset + n <= disk[f].size
             /\ viewer' = [viewer EXCEPT !.cursor = session.offset + n,
                             !.text = @ \o [k \in 1..n |-> <<disk[f].version, session.offset + k>>]]
             /\ session' = [session EXCEPT !.offset = @ + n, !.sent = IF session.at = "emit" THEN session.offset + n ELSE @]
             /\ blind' = (blind \/ Stale(f))
     \/ /\ NoFault /\ ~more /\ UNCHANGED <<viewer, blind>>
        /\ session' = IF session.at = "emit" THEN LogAt("follow")
                      ELSE [LogAt(session.resume) EXCEPT !.offset = session.until, !.sent = session.until, !.file = None]
     \/ Fault /\ GiveUp /\ UNCHANGED blind
  /\ UNCHANGED writerVars

\* openLogAtEnd waits for a file; one that is shorter than the offset has been rotated.
OpenToFollow ==
  /\ session.at = "follow" /\ session.file = None /\ path # None /\ NoFault
  /\ IF session.offset > Size(path) THEN Resync /\ UNCHANGED blind
     ELSE session' = [session EXCEPT !.file = path] /\ blind' = (blind \/ Stale(path)) /\ UNCHANGED viewer
  /\ UNCHANGED writerVars

\* A tick: a file that is missing starts again from nothing, unannounced;
\* another file, or a shorter one, is announced.
PollLog ==
  /\ session.at = "follow" /\ session.file # None /\ NoFault
  /\ \/ /\ path = None
        /\ session' = [session EXCEPT !.file = None, !.offset = 0]
        /\ blind' = (blind \/ session.offset > 0) /\ UNCHANGED viewer
     \/ /\ path # None /\ (path # session.file \/ Size(path) < session.offset)
        /\ Resync /\ UNCHANGED blind
     \/ /\ path = session.file /\ Size(path) > session.offset
        /\ session' = [LogAt("emit") EXCEPT !.until = Size(path)]
        /\ blind' = (blind \/ Stale(path)) /\ UNCHANGED viewer
  /\ UNCHANGED writerVars

\* Mutant of SeeTerminalStatus: the end is sent without the final catch-up.
EndAtOnce ==
  /\ session.at = "follow" /\ ended /\ NoFault
  /\ session' = [LogAt("end") EXCEPT !.until = session.sent]
  /\ UNCHANGED <<writerVars, viewer, blind>>

\* The ticker reads a terminal status: the follower stops between two polls,
\* and what was written since is caught up with.
SeeTerminalStatus ==
  /\ session.at = "follow" /\ ended /\ NoFault
  /\ session' = IF path # None /\ session.sent < Size(path)
                THEN [session EXCEPT !.at = "open", !.offset = session.sent, !.until = Size(path), !.resume = "end"]
                ELSE [LogAt("end") EXCEPT !.until = IF path = None THEN session.sent ELSE Size(path)]
  /\ UNCHANGED <<writerVars, viewer, blind>>

\* The end frame carries the size of the file, and the cursor is set to it.
SendEnd ==
  /\ session.at = "end" /\ NoFault
  /\ viewer' = [viewer EXCEPT !.state = "ended", !.cursor = session.until] /\ session' = Disconnected
  /\ UNCHANGED <<writerVars, blind>>

LogsNext ==
  \/ WriteLog \/ EndDeployment \/ TruncateLog \/ RemoveLog \/ PutNewLog
  \/ Connect \/ LoseConnection
  \/ StatLog \/ OpenToCatchUp \/ ReadChunk \/ OpenToFollow \/ PollLog \/ SeeTerminalStatus \/ SendEnd

LogsSpec == LogsInit /\ [][LogsNext]_logVars

-----------------------------------------------------------------------------
LogsTypeOK ==
  /\ path \in Files \cup {None} /\ toWrite \in 0..LogBytes
  /\ viewer.state = "on" <=> session.at # "none"
  /\ session.file \in Files \cup {None} /\ viewer.cursor \in Nat

\* Over lost connections, catching up, following and rotation, a viewer shows
\* the beginning of one version of one log, every byte once and in order; it
\* will ask for what comes next; and when it is told that the deployment has
\* ended, it has everything written until then, unless the host moved the log.
\* What the server cannot see is the exception: a file that changed under a
\* cursor that still fits it, or that was missing at a tick, and a viewer that
\* brings a cursor of another deployment's log which fits this one.
LogIsExact ==
  \/ blind
  \/ /\ \A k \in 1..Len(viewer.text) : viewer.text[k] = <<viewer.text[1][1], k>>
     /\ viewer.state \in {"off", "on"} => Len(viewer.text) = viewer.cursor
     /\ viewer.state = "ended" /\ ~moved => Len(viewer.text) >= due
=============================================================================
