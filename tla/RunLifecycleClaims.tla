--------------------------- MODULE RunLifecycleClaims ---------------------------
(***************************************************************************)
(* Statements that the comments and the design documents make about the    *)
(* lifecycle and that the code does not keep.  The run claim_cancel        *)
(* expects the counterexample; README.md tells the others.                 *)
(***************************************************************************)
EXTENDS RunLifecycle

\* orchestrator/index.ts:984-986: cancel() marks its intent so that the life
\* that observes wait() "classifies state correctly".  Cancelling a run whose
\* container is running therefore ends it as cancelled.
CancelClassifies ==
  \A r \in Runs, c \in Containers :
    /\ stopping[c] = r /\ runs[r].container = c
    /\ containers[c] = "running"
    ~> runs[r].state \in {"cancelled", "resume_failed"}

===============================================================================
