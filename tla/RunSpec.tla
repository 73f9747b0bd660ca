-------------------------------- MODULE RunSpec --------------------------------
(***************************************************************************)
(* What the run table promises its readers (the web UI, the API, the state *)
(* broadcasters) about ONE run, whatever the orchestrator does behind it:  *)
(* the transitions the guarded statements of src/server/db/runs.ts were    *)
(* written to allow.  The readers see the state and the number of          *)
(* automatic resumes; containers, timers and pending calls are hidden.     *)
(*                                                                         *)
(* RunLifecycle implements it once per run.                                *)
(***************************************************************************)
EXTENDS Naturals

CONSTANT MaxAttempts

VARIABLES state, attempts

run == <<state, attempts>>

Alive == {"starting", "running", "waiting"}
Ended == {"succeeded", "failed", "cancelled", "resume_failed"}

Init == state = "none" /\ attempts = 0

\* POST /api/projects/:id/runs, or a sub-run.
Create == /\ state = "none"
          /\ state' = "queued"
          /\ UNCHANGED attempts

\* A container of the run has started: a first launch or an automatic resume.
Begin == /\ state \in {"queued", "awaiting_resume"}
         /\ state' = "starting"
         /\ UNCHANGED attempts

\* Claude took a prompt, or is waiting for one; never back to "starting".
Converse == /\ state \in Alive
            /\ state' \in Alive \ {"starting"}
            /\ UNCHANGED attempts

\* A rate limit.  Each suspension uses up one attempt.
Suspend == /\ state \in Alive
           /\ attempts < MaxAttempts
           /\ state' = "awaiting_resume"
           /\ attempts' = attempts + 1

\* The outcome of a run may overwrite an earlier outcome, or the state of a
\* run a user has revived meanwhile; it never resets the attempts.
Finish == /\ state # "none"
          /\ state' \in Ended
          /\ UNCHANGED attempts

\* The user presses Continue: fresh attempts.  A failed restore is final.
Continue == /\ state \in Ended \ {"resume_failed"}
            /\ state' = "starting"
            /\ attempts' = 0

Delete == /\ state # "none"
          /\ state' = "none"
          /\ attempts' = 0

Next == Create \/ Begin \/ Converse \/ Suspend \/ Finish \/ Continue \/ Delete

Spec == Init /\ [][Next]_run

================================================================================
