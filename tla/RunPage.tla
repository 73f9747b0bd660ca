-------------------------------- MODULE RunPage --------------------------------
(***************************************************************************)
(* The page of one run: it polls the run of its URL, takes state frames    *)
(* from the run's socket, and fills its tabs (changes, work in progress,   *)
(* listening ports) by requests of their own.                              *)
(*                                                                         *)
(* The effects of a render run with the update that caused it.  A request  *)
(* whose effect is torn down has no effect any more, so it is dropped;     *)
(* those of the buttons have no such guard.                                *)
(***************************************************************************)
EXTENDS Integers, Sequences

CONSTANTS
  None,
  Runs,
  Polls,      \* requests for the run that may overlap
  MaxMoves,   \* bound on changes of rows, navigations and clicks
  MaxFrames,  \* bound on the frames in flight
  MaxFaults   \* bound on failed requests and lost sockets

\* running stands for waiting too, ended for every state that is not live.
States == {"running", "ended"}

\* What the page knows of a run.
Shown == [id : Runs, state : States]

PageAssumption ==
  None \notin Runs \cup Polls \cup Shown /\ {MaxMoves, MaxFrames, MaxFaults} \subseteq Nat

VARIABLES
  row,      \* the state of each run on the server, gone when it is deleted
  runId,    \* the run of the URL
  run,      \* what the page shows: a run and its state
  error, polling,
  polls,    \* each request for the run: none, asked, or the answer
  frames,   \* state frames on the socket of the run shown
  changes, wip, ports,          \* the run each tab shows, or None
  askChanges, askWip, askPorts, \* the run asked about, or None
  reload,   \* the run whose changes a button asked for
  rename,   \* the answer to a renaming on its way
  moves, faults

vars == <<row, runId, run, error, polling, polls, frames, changes, wip, ports,
          askChanges, askWip, askPorts, reload, rename, moves, faults>>

page == <<run, changes, wip, ports, askChanges, askWip, askPorts>>
buttons == <<reload, rename>>
bounds == <<moves, faults>>

Live(r) == r.state = "running"

NoPolls == [p \in Polls |-> "none"]

\* load() is called at once, and then every three seconds.
FirstPoll == [NoPolls EXCEPT ![CHOOSE p \in Polls : TRUE] = "asked"]

Init ==
  /\ row \in [Runs -> States] /\ runId \in Runs
  /\ run = None /\ error = FALSE /\ polling = TRUE
  /\ polls = FirstPoll /\ frames = <<>>
  /\ changes = None /\ wip = None /\ ports = None
  /\ askChanges = None /\ askWip = None /\ askPorts = None
  /\ reload = None /\ rename = None
  /\ moves = 0 /\ faults = 0

Moves == moves < MaxMoves /\ moves' = moves + 1
Fault == faults < MaxFaults /\ faults' = faults + 1

-----------------------------------------------------------------------------
\* setRun(), and the effects that depend on run.id and run.state.

\* Mutant: the answer for a torn-down effect is taken.
KeepsPorts == ports' = None /\ UNCHANGED askPorts

\* A run that is not live has no ports.
DropsPorts == ports' = None /\ askPorts' = None

SetRun(r) ==
  LET new == run = None \/ run.id # r.id
  IN
  /\ run' = r
  /\ askChanges' = IF new THEN r.id ELSE askChanges
  /\ IF run = r THEN UNCHANGED <<wip, ports, askWip, askPorts>>
     ELSE IF Live(r)
       THEN wip' = None /\ askWip' = None /\ askPorts' = r.id /\ UNCHANGED ports
       ELSE askWip' = r.id /\ UNCHANGED wip /\ DropsPorts
  /\ UNCHANGED changes

\* The socket is the one of the run shown: another run has another socket.
Socket(r) == frames' = IF run # None /\ run.id = r THEN frames ELSE <<>>

-----------------------------------------------------------------------------
\* The server.

\* publishState() reaches the page when its socket is up, and is lost otherwise.
Changes ==
  \E r \in Runs, s \in States \cup {"gone"} :
    /\ Moves /\ row[r] \in States \ {s}
    /\ row' = [row EXCEPT ![r] = s]
    /\ \/ UNCHANGED frames
       \/ /\ s # "gone" /\ run # None /\ run.id = r /\ ~error /\ Len(frames) < MaxFrames
          /\ frames' = Append(frames, s)
    /\ UNCHANGED <<runId, error, polling, polls, page, buttons, faults>>

SocketLost ==
  /\ Fault /\ frames # <<>> /\ frames' = <<>>
  /\ UNCHANGED <<row, runId, error, polling, polls, page, buttons, moves>>

\* getRun() is read.
Answers(p) ==
  /\ polls[p] = "asked" /\ polls' = [polls EXCEPT ![p] = row[runId]]
  /\ UNCHANGED <<row, runId, error, polling, frames, page, buttons, bounds>>

-----------------------------------------------------------------------------
\* The page.

\* The clean-up of the effect of runId, and its first load.
Navigates(r) ==
  /\ Moves /\ r # runId /\ runId' = r
  /\ polls' = FirstPoll /\ polling' = TRUE
  /\ UNCHANGED <<row, error, frames, page, buttons, faults>>

\* Mutant: a page that has its run relies on the frames.
UntilShown == polling /\ run = None

\* The interval goes on until the run is not found.
Interval == polling

\* It does not wait for the last request.
Asks(p) ==
  /\ Interval /\ polls[p] = "none" /\ polls' = [polls EXCEPT ![p] = "asked"]
  /\ UNCHANGED <<row, runId, error, polling, frames, page, buttons, bounds>>

Loads(p) ==
  /\ polls[p] \in States
  /\ polls' = [polls EXCEPT ![p] = "none"]
  /\ SetRun([id |-> runId, state |-> polls[p]]) /\ Socket(runId)
  /\ UNCHANGED <<row, runId, error, polling, buttons, bounds>>

\* An answer of 404: the page is an error from here on.
NotFound(p) ==
  /\ polls[p] = "gone"
  /\ polls' = [polls EXCEPT ![p] = "none"]
  /\ error' = TRUE /\ polling' = FALSE /\ frames' = <<>>
  /\ UNCHANGED <<row, runId, page, buttons, bounds>>

\* Any other failure is ignored.
PollFails(p) ==
  /\ Fault /\ polls[p] # "none" /\ polls' = [polls EXCEPT ![p] = "none"]
  /\ UNCHANGED <<row, runId, error, polling, frames, page, buttons, moves>>

\* Mutant: any frame of the run shown is taken.
ForAny == TRUE

\* The subscription is for the run of the URL.
ForUrl == run.id = runId

Patches ==
  /\ frames # <<>> /\ frames' = Tail(frames)
  /\ IF ForUrl THEN SetRun([run EXCEPT !.state = Head(frames)])
                       ELSE UNCHANGED page
  /\ UNCHANGED <<row, runId, error, polling, polls, buttons, bounds>>

\* The intervals of the tabs; a hidden page does not ask for ports.
AsksChanges ==
  /\ run # None /\ askChanges = None /\ askChanges' = run.id
  /\ UNCHANGED <<row, runId, run, error, polling, polls, frames, changes, wip, ports,
                 askWip, askPorts, buttons, bounds>>

AsksWip ==
  /\ run # None /\ ~Live(run) /\ askWip = None /\ askWip' = run.id
  /\ UNCHANGED <<row, runId, run, error, polling, polls, frames, changes, wip, ports,
                 askChanges, askPorts, buttons, bounds>>

AsksPorts ==
  /\ run # None /\ Live(run) /\ askPorts = None /\ askPorts' = run.id
  /\ UNCHANGED <<row, runId, run, error, polling, polls, frames, changes, wip, ports,
                 askChanges, askWip, buttons, bounds>>

\* An answer, or a failure, which leaves what the tab has.
LoadsChanges ==
  /\ askChanges # None /\ askChanges' = None
  /\ \/ changes' = askChanges /\ UNCHANGED faults
     \/ Fault /\ UNCHANGED changes
  /\ UNCHANGED <<row, runId, run, error, polling, polls, frames, wip, ports,
                 askWip, askPorts, buttons, moves>>

LoadsWip ==
  /\ askWip # None /\ askWip' = None
  /\ \/ wip' = askWip /\ UNCHANGED faults
     \/ Fault /\ UNCHANGED wip
  /\ UNCHANGED <<row, runId, run, error, polling, polls, frames, changes, ports,
                 askChanges, askPorts, buttons, moves>>

LoadsPorts ==
  /\ askPorts # None /\ askPorts' = None
  /\ \/ ports' = askPorts /\ UNCHANGED faults
     \/ Fault /\ UNCHANGED ports
  /\ UNCHANGED <<row, runId, run, error, polling, polls, frames, changes, wip,
                 askChanges, askWip, buttons, moves>>

-----------------------------------------------------------------------------
\* The buttons.

\* onCreatePr(), and onReload() after a history operation.
AsksReload ==
  /\ Moves /\ run # None /\ ~error /\ reload = None /\ reload' = run.id
  /\ UNCHANGED <<row, runId, error, polling, polls, frames, page, rename, faults>>

Reloaded ==
  /\ reload # None /\ reload' = None /\ changes' = reload
  /\ UNCHANGED <<row, runId, run, error, polling, polls, frames, wip, ports,
                 askChanges, askWip, askPorts, rename, bounds>>

\* The renaming of the run shown: the answer is the run as it was then.
Renames ==
  /\ Moves /\ run # None /\ ~error /\ rename = None /\ row[run.id] # "gone"
  /\ rename' = [id |-> run.id, state |-> row[run.id]]
  /\ UNCHANGED <<row, runId, error, polling, polls, frames, page, reload, faults>>

Renamed ==
  /\ rename # None /\ rename' = None
  /\ SetRun(rename) /\ Socket(rename.id)
  /\ UNCHANGED <<row, runId, error, polling, polls, reload, bounds>>

Next ==
  \/ Changes \/ SocketLost \/ Patches
  \/ \E r \in Runs : Navigates(r)
  \/ \E p \in Polls : Answers(p) \/ Asks(p) \/ Loads(p) \/ NotFound(p) \/ PollFails(p)
  \/ AsksChanges \/ AsksWip \/ AsksPorts \/ LoadsChanges \/ LoadsWip \/ LoadsPorts
  \/ AsksReload \/ Reloaded \/ Renames \/ Renamed

Spec == Init /\ [][Next]_vars

\* Requests are answered, intervals fire and frames arrive; nobody has to click.
\* Of a request's steps one at a time can be taken.
PollGoesOn(p) == Answers(p) \/ Asks(p) \/ Loads(p) \/ NotFound(p)
ChangesGoOn == AsksChanges \/ LoadsChanges
ButtonsGoOn == Reloaded \/ Renamed

Fairness ==
  /\ \A p \in Polls : WF_vars(PollGoesOn(p))
  /\ WF_vars(ChangesGoOn) /\ WF_vars(Patches) /\ WF_vars(ButtonsGoOn)

FairSpec == Spec /\ Fairness

-----------------------------------------------------------------------------
\* The variables have their types, and only the socket of a run that is shown
\* carries frames.
TypeOK ==
  /\ row \in [Runs -> States \cup {"gone"}] /\ runId \in Runs
  /\ run \in Shown \cup {None}
  /\ error \in BOOLEAN /\ polling \in BOOLEAN
  /\ polls \in [Polls -> States \cup {"none", "asked", "gone"}]
  /\ frames \in Seq(States) /\ (frames # <<>> => run # None /\ ~error)
  /\ {changes, wip, ports, askChanges, askWip, askPorts, reload} \subseteq Runs \cup {None}
  /\ rename \in Shown \cup {None}

\* A run that is live shows no work in progress of its past, and one that is not
\* shows no ports: a request that was out as the state changed is not taken.
TabsMatchState ==
  run # None => IF Live(run) THEN wip = None /\ askWip = None
                             ELSE ports = None /\ askPorts = None

\* But for a renaming that is answered late, the page never turns to another run
\* than its URL's.
ShowsRequested == [][run' # run /\ ~Renamed => run'.id = runId']_vars

\* Whatever was lost, late or out of order, the page comes to show the run of its
\* URL as it is, with its changes, unless it once met a deleted run.
PageCatchesUp ==
  <>[](error \/ (run = [id |-> runId, state |-> row[runId]] /\ changes = runId))

=============================================================================
