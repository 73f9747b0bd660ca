------------------------------- MODULE MCOutside -------------------------------
(***************************************************************************)
(* What a run shares with the world outside, on small instances: the git   *)
(* repositories it pushes to, and the account whose limits it uses.  The   *)
(* two share no state, so a behaviour shows one of them, and the other     *)
(* rests.                                                                  *)
(***************************************************************************)
EXTENDS Integers, Sequences, FiniteSets

CONSTANTS
  None,
  OpKinds, MaxCommits, MaxStarts, MaxOps,   \* SafeguardGit
  Polls, NumWindows                         \* UsagePoller

VARIABLES
  shown,   \* the component whose steps the behaviour shows
  commits, origin, safe, taken, box, head, branch, track, pushes, dbBranch, op, starts, ops,
  api, row, state, polls, timer, said, again, disturbed

Git == INSTANCE SafeguardGit
Poller == INSTANCE UsagePoller

ASSUME OutsideAssumption == Git!BoundsAssumption /\ Poller!PollerAssumption

gitVars == <<commits, origin, safe, taken, box, head, branch, track, pushes, dbBranch, op,
             starts, ops>>
pollerVars == <<api, row, state, polls, timer, said, again, disturbed>>
vars == <<shown, gitVars, pollerVars>>

Init ==
  /\ Git!Init /\ Poller!Init /\ shown \in {"git", "poller"}
  /\ shown = "poller" => dbBranch = None

Next ==
  \/ shown = "git" /\ Git!Next /\ UNCHANGED <<shown, pollerVars>>
  \/ shown = "poller" /\ Poller!Next /\ UNCHANGED <<shown, gitVars>>

Spec == Init /\ [][Next]_vars

-----------------------------------------------------------------------------
\* What has reached the safeguard under the run's own name stays, until an operation's
\* own commit replaces it.
SafeguardOnlyGrows == Git!SafeguardOnlyGrows

\* The hook overwrites nobody's work on origin.
ForeignWorkSurvives == Git!ForeignWorkSurvives

\* A threshold is announced once in a window.
ThresholdOnce == shown = "poller" => Poller!ThresholdOnce

===============================================================================
