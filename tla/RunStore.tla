------------------------------- MODULE RunStore -------------------------------
(***************************************************************************)
(* The guarded UPDATE statements of src/server/db/runs.ts, one operator    *)
(* per statement, from the row before to the row after.  A statement whose *)
(* WHERE clause does not match the row, or whose row is gone, changes      *)
(* nothing and reports nothing: better-sqlite3 runs it and the caller      *)
(* never looks at the number of rows it changed.                           *)
(*                                                                         *)
(* A row keeps the columns the lifecycle reads or writes.  `session` and   *)
(* `resumeAt` say whether claude_session_id and next_resume_at are set.    *)
(***************************************************************************)
EXTENDS Naturals

CONSTANTS
  Containers,   \* container ids
  None,         \* SQL NULL, and no container
  MaxAttempts   \* settings.auto_resume_max_attempts

ASSUME NoneIsNoContainer == None \notin Containers
ASSUME MaxAttemptsIsNat == MaxAttempts \in Nat

Live == {"starting", "running", "waiting"}

\* The states the Continue button accepts; "resume_failed" is not one of them.
Continuable == {"failed", "cancelled", "succeeded"}

Terminal == Continuable \cup {"resume_failed"}

RunState == {"queued", "awaiting_resume"} \cup Live \cup Terminal

Row == [state     : RunState \cup {"none"},
        container : Containers \cup {None},
        attempts  : 0 .. MaxAttempts,
        session   : BOOLEAN,
        resumeAt  : BOOLEAN]

\* No row has this id: never inserted, or deleted.
NoRow == [state |-> "none", container |-> None, attempts |-> 0,
          session |-> FALSE, resumeAt |-> FALSE]

QueuedRow == [NoRow EXCEPT !.state = "queued"]

MarkStartingFromQueued(row, c) ==
  IF row.state = "queued"
  THEN [row EXCEPT !.state = "starting", !.container = c]
  ELSE row

MarkStartingForResume(row, c) ==
  IF row.state = "awaiting_resume"
  THEN [row EXCEPT !.state = "starting", !.container = c, !.resumeAt = FALSE]
  ELSE row

\* The first half of a Continue: no container exists yet.
MarkStartingForContinueRequest(row) ==
  IF row.state \in Continuable
  THEN [row EXCEPT !.state = "starting", !.attempts = 0, !.resumeAt = FALSE]
  ELSE row

\* The second half of a Continue: only the container id is recorded.
MarkStartingContainer(row, c) ==
  IF row.state = "starting" THEN [row EXCEPT !.container = c] ELSE row

MarkWaiting(row) ==
  IF row.state \in {"starting", "running"}
  THEN [row EXCEPT !.state = "waiting"] ELSE row

\* Mutant: the statement names no source state.
MarkRunningAnyState(row) ==
  IF row.state # "none" THEN [row EXCEPT !.state = "running"] ELSE row

MarkRunning(row) ==
  IF row.state \in {"starting", "waiting"}
  THEN [row EXCEPT !.state = "running"] ELSE row

\* Mutant: the statement names no source state.
MarkAwaitingAnyState(row) ==
  IF row.state # "none"
  THEN [row EXCEPT !.state = "awaiting_resume", !.container = None,
                   !.resumeAt = TRUE, !.attempts = @ + 1]
  ELSE row

MarkAwaitingResume(row) ==
  IF row.state \in Live
  THEN [row EXCEPT !.state = "awaiting_resume", !.container = None,
                   !.resumeAt = TRUE, !.attempts = @ + 1]
  ELSE row

\* Mutant: the guard forgets the state "waiting", added later.
MarkFinishedUnlessWaiting(row, final) ==
  IF row.state \notin {"none", "waiting"}
  THEN [row EXCEPT !.state = final, !.container = None]
  ELSE row

\* markFinished and markResumeFailed name no source state: they overwrite
\* whatever the row says, and neither clears next_resume_at.
MarkFinished(row, final) ==
  IF row.state # "none"
  THEN [row EXCEPT !.state = final, !.container = None]
  ELSE row

MarkResumeFailed(row) == MarkFinished(row, "resume_failed")

SetSession(row, found) ==
  IF row.state # "none" THEN [row EXCEPT !.session = @ \/ found] ELSE row

===============================================================================
