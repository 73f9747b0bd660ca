-------------------------------- MODULE MCWatch --------------------------------
(***************************************************************************)
(* What the server observes of an agent, on small instances: what it does, *)
(* and the transcript its usage is counted from.  The two share no state,  *)
(* so a behaviour shows one of them, and the other rests.                  *)
(***************************************************************************)
EXTENDS Integers, Sequences, FiniteSets

CONSTANTS
  None,
  Kinds, Names, Warmup, Idle, BufLen, TailLen, Minute, FiveMinutes, Day, MaxAttempts,
  MaxLives, MaxCrashes, MaxMoves, Toggles,      \* AgentWatch
  MaxLines, MaxRestarts, MaxRows                \* UsageTailer

VARIABLES
  shown,   \* the component whose steps the behaviour shows
  life, agent, sentinels, named, still, grown, monitor, nudge, limitFired, cancelled,
  watcher, emitted, row, tail, auto, lost, lives, crashes, moves,
  size, counting, tailer, counted, torn, restarts, rows

Agent == INSTANCE AgentWatch
Tailer == INSTANCE UsageTailer WITH life <- counting

ASSUME WatchAssumption ==
  /\ Agent!KindsAssumption /\ Agent!WindowsAssumption /\ Agent!TimesAssumption
  /\ Agent!BoundsAssumption /\ Tailer!TailerAssumption

agentVars == <<life, agent, sentinels, named, still, grown, monitor, nudge, limitFired,
               cancelled, watcher, emitted, row, tail, auto, lost, lives, crashes, moves>>
tailerVars == <<size, counting, tailer, counted, torn, restarts, rows>>
vars == <<shown, agentVars, tailerVars>>

Init == Agent!Init /\ Tailer!Init /\ shown \in {"agent", "tailer"}

Next ==
  \/ shown = "agent" /\ Agent!Next /\ UNCHANGED <<shown, tailerVars>>
  \/ shown = "tailer" /\ Tailer!Next /\ UNCHANGED <<shown, agentVars>>

Spec == Init /\ [][Next]_vars

\* The fairness of the agent's watchers.  In its initial state none of their steps
\* is enabled, so it asks nothing of the behaviours that show the tailer.
FairSpec == Spec /\ Agent!Fairness

-----------------------------------------------------------------------------
\* The row follows the sentinels and the name the agent leaves.
RowFollowsFiles == shown = "agent" => Agent!RowFollowsFiles

\* Nothing interrupts an agent that works.
NeverInterruptsWork == Agent!NeverInterruptsWork

\* A nudged run comes to sleep until a time that is worth waiting for.
NudgedRunSuspends == Agent!NudgedRunSuspends

\* An agent that is stuck at its limit does not stay there.
StuckEnds == Agent!StuckEnds

\* When a life that has a tailer ends, its row counts every line so far.
LifeCounted == Tailer!LifeCounted

===============================================================================
