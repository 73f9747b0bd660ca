------------------------------- MODULE MCBrowser -------------------------------
(***************************************************************************)
(* The pages of the browser, on small instances: the watcher of all runs,  *)
(* the page of one, its ship tab, and the forms of the configuration.      *)
(* Each talks to the server over requests of its own and none reads the    *)
(* others' state, so a behaviour shows one of them, and the others rest.   *)
(***************************************************************************)
EXTENDS Integers, Sequences

CONSTANTS
  None,
  Runs, Polls, MaxMoves, MaxFrames, MaxFaults,   \* RunPage
  Watched, MaxEnds, MaxWire, MaxPending,         \* RunWatcher, and some of the above
  Texts, MaxAttempts, MaxTyped, MaxSaves,        \* ConfigForms
  Gets, Ops, MaxTip                              \* ShipTab, and MaxFaults

VARIABLES
  shown,   \* the component whose steps the behaviour shows
  row, runId, run, error, polling, polls, frames, changes, wip, ports,
  askChanges, askWip, askPorts, reload, rename, moves, faults,
  states, socket, listed, wire, map, enabled, waits, completions, visible, unread,
  waitingRuns, conn, timer, ends, said,
  project, settings, form, formError, typed, saves,
  live, tip, hub, cache, gets, ops, children, payload, busy, frame, failures

Page == INSTANCE RunPage
Watcher == INSTANCE RunWatcher WITH Runs <- Watched, row <- states, runs <- map
Forms == INSTANCE ConfigForms WITH row <- project, error <- formError
Ship == INSTANCE ShipTab WITH shown <- payload, faults <- failures

ASSUME BrowserAssumption ==
  /\ Page!PageAssumption /\ Watcher!WatcherAssumption
  /\ Forms!ConfigFormsAssumption /\ Ship!ShipAssumption

pageVars == <<row, runId, run, error, polling, polls, frames, changes, wip, ports,
              askChanges, askWip, askPorts, reload, rename, moves, faults>>
watcherVars == <<states, socket, listed, wire, map, enabled, waits, completions, visible,
                 unread, waitingRuns, conn, timer, ends, said>>
formVars == <<project, settings, form, formError, typed, saves>>
shipVars == <<live, tip, hub, cache, gets, ops, children, payload, busy, frame, failures>>
vars == <<shown, pageVars, watcherVars, formVars, shipVars>>

\* The components that rest are in one of their initial states.
Init ==
  /\ shown \in {"page", "watcher", "forms", "ship"}
  /\ Page!Init /\ Watcher!Init /\ Forms!Init /\ Ship!Init
  /\ shown # "page" => row = [r \in Runs |-> "running"] /\ runId = CHOOSE r \in Runs : TRUE
  /\ shown # "watcher" => states = [r \in Watched |-> "queued"]
  /\ shown # "forms" => settings = 1
  /\ shown # "ship" => live /\ tip = 1

Next ==
  \/ /\ shown = "page" /\ Page!Next
     /\ UNCHANGED <<shown, watcherVars, formVars, shipVars>>
  \/ /\ shown = "watcher" /\ Watcher!Next
     /\ UNCHANGED <<shown, pageVars, formVars, shipVars>>
  \/ /\ shown = "forms" /\ Forms!Next
     /\ UNCHANGED <<shown, pageVars, watcherVars, shipVars>>
  \/ /\ shown = "ship" /\ Ship!Next
     /\ UNCHANGED <<shown, pageVars, watcherVars, formVars>>

Spec == Init /\ [][Next]_vars

\* The fairness of the page and of its ship tab, each where it is shown: one that
\* rests takes no step that could be owed.  Nothing is claimed to happen in the
\* other two.
FairSpec ==
  /\ Spec
  /\ \A p \in Polls : WF_pageVars(shown = "page" /\ Page!PollGoesOn(p))
  /\ WF_pageVars(shown = "page" /\ Page!ChangesGoOn)
  /\ WF_pageVars(shown = "page" /\ Page!Patches)
  /\ WF_pageVars(shown = "page" /\ Page!ButtonsGoOn)
  /\ \A g \in Gets : WF_shipVars(shown = "ship" /\ Ship!GetGoesOn(g))
  /\ WF_shipVars(shown = "ship" /\ Ship!Expires)
  /\ WF_shipVars(shown = "ship" /\ Ship!Patches)

-----------------------------------------------------------------------------
\* All have states of their type; the watcher's says that no old timer denies the
\* banner of an open socket, and that the title's count covers what waits;
\* the forms' that none saves blank text, or a cap that lets no run resume.
TypeOK ==
  CASE shown = "page" -> Page!TypeOK
    [] shown = "watcher" -> Watcher!TypeOK
    [] shown = "forms" -> Forms!TypeOK /\ Forms!RowsStaySane
    [] shown = "ship" -> Ship!TypeOK

\* A live run shows no work in progress, one that is not shows no ports.
TabsMatchState == Page!TabsMatchState

\* The page turns only to the run of its URL.
ShowsRequested == Page!ShowsRequested

\* The page comes to show its run as it is, unless it once met a deleted run.
PageCatchesUp ==
  <>[](\/ shown # "page" \/ error
       \/ run = [id |-> runId, state |-> row[runId]] /\ changes = runId)

\* A page announces the end of a run once.
OnceAnnounced == Watcher!OnceAnnounced

\* What the ship tab reports of an operation has happened.
ReportIsTrue == Ship!ReportIsTrue

\* The ship tab comes to show the branch as it is.
ShipSettles == <>[](shown # "ship" \/ payload = Ship!Truth)

===============================================================================
