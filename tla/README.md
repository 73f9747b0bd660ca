# FBI, modelled and verified

FBI runs the `claude` agent in Docker containers, one container per attempt of
a *run*, and gives each run a page and a terminal in the browser. This
directory holds TLA+ modules of the server and of the browser's stateful parts,
TLC configurations that check them on small instances, and proofs checked by
TLAPS. The TypeScript code, `src/server` and `src/web`, is the reference; paths
below are relative to the repository. `PROJECT.json` maps every definition that
models code to the lines it models, and lists what is hard to test there.

1. The system · 2. Modules · 3. Properties · 4. Runs, bounds, fairness ·
5. Proofs · 6. What the models show the code does · 7. Running ·
8. Not modelled · 9. What is left

## 1. The system

| part | state it keeps | operations | hard behaviour |
|---|---|---|---|
| run table (`db/runs.ts`, SQLite) | one row per run: state, container id, session id, attempts, next resume | guarded UPDATE statements, one per transition | statements that match no row are silent; ids are used again after a delete |
| orchestrator (`orchestrator/index.ts`) | in memory: `active`, `cancelled`, `limitFired`, `lastRateLimit` by run id | `launch`, `resume`, `continueRun`, `awaitAndComplete`, `cancel`, `deleteRun`, `recover`, `reattach` | each is a chain of awaits; several activations of one run overlap; a crash ends them all and keeps rows and containers |
| resume scheduler (`orchestrator/resumeScheduler.ts`) | one timer per run | `schedule`, `cancel`, `fireNow`, `rehydrate`, `fire` | timers are lost in a crash; a firing races a cancel and an older activation |
| run endpoints (`api/runs.ts`, `api/projects.ts`) | none | create, cancel/delete, continue, resume-now, history, changes, delete a project | checks separated by an await from what they guard |
| rate-limit detection (`resumeDetector.ts`, `limitMonitor.ts`, `nudgeClaude.ts`) | log buffer, last activity, fired | classify a log, watch a terminal, interrupt the agent | idle and warm-up windows, clamped reset times |
| state and title watchers (`runtimeStateWatcher.ts`, `titleWatcher.ts`) | last thing seen | poll the agent's files, mark the row | first polls, sentinels of an earlier turn or life |
| run streams (`logs/*`, `api/ws.ts`) | broadcaster, headless screen and log per run | publish, subscribe, snapshot, end, release, rebuild from the log | bytes between snapshot and subscription; a stream that ended and starts again |
| safeguard and history (`supervisor.sh`, `finalizeBranch.sh`, `historyOp.ts`, `safeguard*.ts`) | refs of clone, safeguard and origin | background pushes, restore on resume, merge, sync, squash | pushes out of order; a container that dies with a push in flight; an operation whose commits run the agent's hook |
| uploads (`api/uploads.ts`, `uploads/*`, `housekeeping/*`) | draft and run directories | upload, delete, promote, sweep | quota check then write, `.part` files, sweeper against upload |
| usage (`usageTailer.ts`, `oauthUsagePoller.ts`) | file offsets; bucket rows, last attempt | read the transcript, ask Anthropic | offsets lost in a restart, fetches that overlap |
| images (`image.ts`, `imageGc.ts`) | Docker's images | build, collect | collection against use |
| configuration (`db/projects.ts`, `db/settings.ts`, `db/secrets.ts`, `db/mcpServers.ts`) | rows | edit, delete; read by a life | edits and deletes between the reads of one life |
| migrations (`db/index.ts`) | the schema | ALTER, UPDATE, rebuild at start-up | a crash between two statements |
| browser (`web/lib/*`, `web/pages/RunDetail.tsx`, `web/features/runs`, `web/components`) | sockets, terminal controllers, polls, forms, lists | acquire, release, pause, scroll back, poll, patch, save | answers out of order, reconnection, stale closures |
| GitHub client, proxy, tunnel, desktop, mock agent, Elixir port | byte pipes; a second implementation | | see section 8 |

How they interact. The endpoints change rows and call the orchestrator in the
same JavaScript turn or after an await. The orchestrator drives Docker, writes
rows and publishes bytes and states to the streams; the watchers it starts
write rows from timers; the scheduler calls `resume()`. The shell socket
subscribes to the streams and calls `resize` and `writeStdin`. The supervisor
script talks to the server only through files and the container's exit. The
pages talk to the server by polls, and by frames that patch what the polls
loaded.

What makes each part correct, in a sentence:

- *lifecycle*: every row that claims to be alive has something that will end
  it; every suspended run has a wakeup; outcomes are final except for Continue;
  the attempts never pass the cap; memory never points at a container nobody
  tends.
- *streams*: a terminal shows each byte once and in order after its snapshot,
  sees the end of the stream when the run's attempt ends, and has the modes
  the program asked for.
- *detection*: a reset time is ahead and within the clamp; a monitor never
  interrupts an agent that works; the row says what the agent's files say.
- *safeguard*: what has reached the safeguard stays; nothing of FBI's own
  accord overwrites what others pushed.
- *uploads*: no file takes another's name; a launched run has its files.
- *usage*: every line of a life is counted; a threshold is announced once.
- *images, configuration, migrations*: a launch has its image and what was
  saved before it began; a server that serves has its schema whole.
- *browser*: the socket is held while a terminal shows it, the history has no
  hole, a page comes to show its run, and what it reports has happened.

## 2. Modules

| module | what it is |
|---|---|
| `RunStore` | the UPDATE statements of `db/runs.ts`: operators from the row before to the row after |
| `RunSpec` | the abstract machine of one run, as readers of the table see it |
| `RunLifecycle` | the orchestrator, the scheduler, the endpoints and Docker around the rows |
| `ShellStream` | log, byte channel and screen of one run, the shell socket, and the orchestrator's calls on them |
| `ScreenModes` | the mode scanner of the server's screen, and the modes a snapshot gives a terminal |
| `ShellClient` | registry, socket and controller of the browser's terminals |
| `AgentWatch` | limit monitor, nudge, runtime-state and title watchers, and the verdict on a life's log |
| `UsageTailer` | how the lines of a transcript are counted |
| `SafeguardGit` | refs of clone, safeguard and origin under commits, pushes, resumes and history operations |
| `UsagePoller` | polls of the account's limits and their thresholds |
| `Uploads` | draft and run directories, promotion, sweeper |
| `Images` | two-stage builds of images, and the sweep that removes them |
| `ProjectConfig` | the configuration's rows, edited while lives read them |
| `ConfigLists` | the browser's lists of MCP servers and of secrets |
| `ConfigForms` | the browser's forms: new project, project, settings |
| `Migrations` | `openDb()` over any earlier database, crashing anywhere |
| `RunPage` | the page of one run: polls, frames, tabs, buttons |
| `RunWatcher` | the watcher of all runs: notifications, badge, banner |
| `ShipTab` | the ship tab: changes, history operations, pull requests |
| `RunLifecycleClaims` | a statement of the code's comments that the code does not keep |
| `MCRunLifecycle`, `MCShellStream` | instances for TLC, with symmetry (and a view) |
| `MCTerminal` | `ShellStream` and `ScreenModes` |
| `MCWatch` | `AgentWatch` and `UsageTailer` |
| `MCOutside` | `SafeguardGit` and `UsagePoller` |
| `MCStore` | `Uploads`, `Images`, `ProjectConfig`, `ConfigLists` and `Migrations` |
| `MCBrowser` | `RunPage`, `RunWatcher`, `ConfigForms` and `ShipTab` |
| `RunLifecycleProofs`, `TerminalProofs`, `ModesProofs`, `ShellClientProofs`, `WatchProofs`, `OutsideProofs`, `StoreProofs`, `BrowserProofs` | theorems, checked by TLAPS |

The modules `MCTerminal`, `MCWatch`, `MCOutside`, `MCStore` and `MCBrowser`
compose components that share no state. Their interleaving would multiply the
state spaces and show nothing new, so a variable `shown` picks, in the initial
state, the component a behaviour shows; the others rest. What `RunLifecycle`,
`ShellStream`, `AgentWatch` and `UsageTailer` share in the code, the lives of a
run, each models as far as it matters to it.

### RunLifecycle

The server is one Node.js thread. Code between two awaits is one atomic step;
at each await anything else may happen. An activation of `launch`, `resume`,
`continueRun` or `reattach` is a *life*: a record whose `pc` names the await it
is suspended at. The locals that survive an await and matter later are in the
record: the container, whether the cancel flag was consumed, whether this
life's limit monitor has fired.

| state | in the code |
|---|---|
| `runs` | table `runs` |
| `containers` | what Docker knows: created, running, exited, or none |
| `lives` | the promises in flight |
| `active`, `cancelled`, `limitFired` | the maps of that name |
| `timers` | `ResumeScheduler.timers` |
| `fires` | a `fire()` that `fireNow()` started and that has not called `onFire` yet |
| `stopping` | `cancel()` awaiting `container.stop()` |
| `server`, `toRecover` | down, working through `recover()`, or listening; the rest of its list |

| actions | in the code |
|---|---|
| `CreateRun`, `CreateRunFromDraft`, `CreateRunUnlaunched`, `DraftPromoted`, `DraftPromotionFails` | `POST /api/projects/:id/runs`, `spawnSubRun` |
| `ContainerCreated`, `DockerStart`, `StartReturns`, `BootFails` | `createContainerForRun`, `container.start()` and the statements after it, the catch blocks |
| `RuntimeStateSeen`, `LimitDetected` | callbacks of the two watchers |
| `WaitReturns`, `ResultIsRateLimit`, `ResultIsFinal`, `ResultIsRestoreFailure`, `ResultOfDeletedRun`, `ContainerRemoved`, `WatchersStopped`, `WaitFails`, `FailureRecorded` | `awaitAndComplete`, the second half of `reattach`, and the finally and catch blocks around them |
| `CancelAwaiting`, `CancelRunning`, `StopReturns`, `DeleteRun`, `DeleteProject`, `ContinueRun`, `ResumeNow` | the endpoints and what they call |
| `TimerFires`, `NowFires` | `ResumeScheduler.fire` and `onFire` |
| `Crash`, `Restart`, `RecoverLost`, `RecoverReattached`, `Rehydrate`, `StdinAttached`, `LogsFollowed`, `ReattachFails` | the process dying, `recover()`, `rehydrateSchedules()`, `reattach()` |

Abstractions. Whether a call of Docker or the file system fails is a choice
(`Faults`; starting a container may fail in every run). The verdict of
`classify()` is a choice (`AgentWatch` computes it), as is what a watcher
reports and when the agent exits. A reset time is not a number: an armed timer
may fire at once. Two awaits are one `pc` when nothing in between writes shared
state: for example the file injections before `container.start()`, or
`inspect()` after `wait()`.

The abstract specification `RunSpec` says which transitions a reader of the
table may ever see and how the attempts move with them. `RunLifecycle`
implements it once per run (`Seen(r)` is the instance with the refinement
mapping, `ImplementsRunSpec` the conjunction over the runs). It is not a copy
of the guards: `RunStore` has statements without a source state, lives mark
rows that other lives own, and ids are used again.

### ShellStream and ScreenModes

One run, seen from its streams. A life of `RunLifecycle` is reduced to a
*writer*: booting, attaching, streaming, closing or suspending. `run` keeps of
the row what the calls that start a life look at. A chunk of bytes is its
position in the log, since `makeOnBytes` appends to the log, publishes and
queues to the screen in one call.

| state | in the code |
|---|---|
| `log` | the log file (`LogStore`) |
| `channel`, `screen` | `RunStreamRegistry.bytes` and `.screens` for the run |
| `ended`, `drawn` | the broadcaster and screen objects themselves, also those the registry let go of |
| `rebuild` | `rebuilds`, and where `doRebuild()` is |
| `sockets` | one record per terminal: the await its handler is at, the objects it holds, `buffered`, and what the client has drawn |
| `writers` | the lives |
| `unread` | what Docker's log holds and the run's log does not |

| actions | in the code |
|---|---|
| `OpenStream`, `ContainerStarted`, `LogsFollowed`, `BytesArrive` | `launch`, `resume`, `continueRun`, `reattach` up to the running container |
| `RunFinishes`, `RunSuspends`, `StreamReleased`, `StreamSuspended`, `LifeFails`, `ReattachFails`, `CancelAwaiting` | the ends of a life, and `cancel()` of a suspended run |
| `Connect`, `Hello`, `HelloAgain`, `Resized`, `SnapshotSent`, `Disconnect` | `registerWsRoute` between its awaits |
| `RebuildSized`, `RebuildReads`, `RebuildDone`, `RebuildFails` | `doRebuild()` between its awaits |
| `ContainerWritesUnread`, `Crash`, `Recovered` | the restart |

A screen is the sequence of chunks queued to its parser; where the parser is
when a snapshot is made is a choice between what `drain()` asked for and
everything queued. Sizes, the 50 MB tail of a rebuild and the JSON channels are
left out. A screen that was disposed of still takes writes, as xterm's does.
Objects that nothing refers to are recycled.

`ScreenModes` looks at the same bytes as tokens of escape sequences: `scan` is
`ModeScanner`'s state and modes, `term` the browser's terminal, which reads the
bytes after a snapshot itself; `Hello`, `Snapshot`, `Resized`, `Leaves` are the
socket's steps, `cut` says that a snapshot fell into a sequence. `Numbers` are
the tokens that number a row, `Sequences` what the program may write: any of
`Whole`, a grammar of the kinds the scanner tells apart (one or two modes set or
reset, margins in order or none, and sequences that are not private, not CSI,
have an intermediate byte or are broken off). The loops over bytes and over
parameters are recursive functions. The cursor move and the clearing that
`emit()` puts between two sequences set no mode and are left out.

### ShellClient

One entry of `shellRegistry`, its `ReconnectingSocket`, and one
`TerminalController` per mounted view. A byte of the transcript is its
position; a snapshot is the token `Snap`. `views[v]` has the controller's
fields (`paused`, `loaded`, `start`, `pendingChunk`, `seeding`, `resuming`) and
its tasks by the await they are at: the seed, the resume, one record per older
chunk in `Fetches`. `Mount`, `Unmount`, `SetInteractive`, `Pause`, `Resume`,
`LoadOlder`, `ChunkStep`, `ControllerStep` are its methods between awaits,
`TtlFires` the registry's close timer, `SocketOpens`, `SocketDrops`,
`Reconnects` the socket, `BytesArrive`, `SnapshotArrives` its frames,
`UploadSent` an input from outside the terminal. `due` is the server's debt of
snapshots: one per hello.

### AgentWatch and UsageTailer

`AgentWatch` has one life of a run after another (`life`), the agent in its
container (`agent`, the files `sentinels` and `named`, `still` and `grown` for
its transcripts), and what the server observes: `monitor` is `LimitMonitor`,
`nudge` the timers of `nudgeClaudeToExit`, `watcher` and `emitted` the two file
watchers, `row` and `tail` the row and the end of the log. There is no clock:
ages grow by `Tick` to the window they are compared with, a reset time is its
distance from now, a chunk of output is which of the patterns match it
(`Kinds`). `Prints`, `HitsLimit`, `UserPromptSubmit`, `Stop`, `TranscriptGrows`,
`NamesSession`, `Exits` are the agent's; `Check`, `SecondCtrlC`, `KillFires`,
`PollSentinels`, `PollTitle` the server's timers; `Complete` is
`awaitAndComplete` from the result to the row with `classify()` and the clamp,
`WatchersStop` the rest of it.

`UsageTailer` has the transcript in chunks, two to a line; `Reads` is a tick,
`Finishes` the final read of `stop()`, `Reattaches` a restart that counts from
the start of the file, `Resumes` a life without a tailer, `Reused` an id whose
directory is still there.

### SafeguardGit and UsagePoller

In `SafeguardGit` a commit has its ancestors and the work it contains, a set of
names, so that a rebase makes new commits with old work. `Start` is
`supervisor.sh` to the checkout, `Commit` the commit and the hook's two pushes,
which then see a ref, read HEAD and land or fail one by one (`PushReads`,
`SafeguardPushLands`, `OriginPushLands`, `PushFails`). `Exit` and `Killed` end
the container and the pushes in it. `OthersPush` is everybody else.

`fbi-history-op.sh`, for the three strategies of merge, for sync and for
squash-local, is `OpStarts` (the fetch), `OpPicks` and `OpAborts` (a rebase that
has repeated a part of the branch, and one that is taken back), `OpBuilds` (what
the branch or the default branch is to become), `OpForcesBranch` and
`OpPushesDefault` (its pushes) and `OpFails`. On a live run it works in a
worktree of `/workspace`, which shares `.git/hooks`: what `git rebase` and `git
commit` make there runs the post-commit hook, which forces the HEAD of that
worktree over `claude/run-N` of the safeguard, in the background (`Hooked`;
`git merge` does not run that hook). `docker exec` does not pass on
`HAS_ORIGIN`, a variable of the supervisor's shell, so that the hook pushes to
the safeguard only. A transient container has no hook. `taken` says that the
last push to land in the safeguard was such a one.

`UsagePoller` has calls of `pollOnce()` between their awaits (`TimerFires`,
`Nudge`, `Answers`, `PollFails`, `PollEnds`), one bucket's row, and the account
at Anthropic (`AccountUsed`, `WindowResets`). `FiveMinutes` ages what the gate
compares. `said`, `again` and `disturbed` are history variables for its property.

### Uploads, Images, ProjectConfig, ConfigLists, Migrations

`Uploads`: directories as functions from names to inodes, `parts` for the
`.part` files, upload requests in `ups` between the awaits of their handler
(`Handler`, `Breaks`), the promotion of `POST /runs` (`Promotion`), the sweeper
(`Judges`, `SweepsDraft`) and the start-up sweep of `.part` files.

`Images`: a hash is the configuration it is of. A launch resolves a tag, builds
a base and a second stage, and creates a container; a sweep lists containers,
then images, and removes one after the other, with every launch in between.

`ProjectConfig`: the rows a life reads, in the order it reads them
(`LifeBegins`, `ContainerRequested`, `PromptsInjected`, `ContainerFilled`),
under edits and deletes. `since` keeps what the rows have been from a life's
beginning to its container's, so that its property compares what the life got
with what there was.

`ConfigLists`: the server's rows of MCP servers or the names of secrets, the
list a page shows, and requests with what their closures remember. A request
may fail at any step (`RequestFailed`): not sent, refused, or handled with its
answer lost; the page's catch does not tell them apart and keeps its list.
`missed` and `since` are history variables for its property: the keys whose
change the list may not show. `ConfigForms`: a form is filled once and saves every
field; loading and saving convert NULL to text and back.

`Migrations`: one action per statement of `openDb()` that commits on its own.

### RunPage, RunWatcher, ShipTab

`RunPage` is `RunDetail.tsx`: the poll every 3 s and its requests (which may
overlap), the state frames, the tabs' requests, the buttons. An effect that was
torn down drops its request's answer; a button's request has no such guard.

`RunWatcher` is `useRunWatcher` with `notifications.ts` and the part of
`connectionState.ts` that drives the banner: list, connect, open, frames,
reconnects, and the tab's being hidden.

`ShipTab` is the tab, the endpoint's cache of ten seconds, GitHub's branch
(`hub`), the history operations (`Clicks` to `Reports`) with the script's own
life apart from the call that started it, the child run of a conflict, and the
creation of a pull request. Counts stand for commits.

## 3. Properties

A property in `code` is checked by the run of section 4 that names it, and each
has a mutant: a plausible bug of the code that breaks it.

Lifecycle.
- `TypeOK`, which includes that the attempts stay within the cap: the check in
  `awaitAndComplete` and the increment in `markAwaitingResume` are apart, and
  nothing locks the row.
- `LiveRowHasDriver`: a row that says starting, running or waiting is not a
  ghost. `AwaitingHasWakeup`: a suspended run has a timer, a pending `fireNow`
  or a `resume()` under way. `ActiveIsTended`: an entry of `active` belongs to a
  container that some life of that run tends; lives overwrite and delete the
  entry by run id.
- `OnlyContinueRevives`, which `continue-run-design.md:80` promises, and
  `ImplementsRunSpec`.
- `AwaitingIsServed`, `ExitIsRecorded`, `CancelEndsRun`: liveness. A cancel ends
  its run unless the server dies or `StopRejected`: `cancel()` swallows the
  rejection of `stop()`.

Streams.
- `HeardIsShown`, the promise of `api/ws.ts:44-46`: no byte is missed over any
  number of snapshots. A second snapshot replaces what the client has drawn, so
  it must hold everything the socket has been handed: this rests on `drain()`,
  and on the registry's screen being the one the writer feeds. False with
  `Faults` (a failed rebuild deletes a screen in use) and with `Overlap` (an
  old life's `release()` drops the objects of the next).
- `ListensToRun`: across `release()` and `getOrCreate()`, no terminal is left
  on a channel that neither speaks nor ends. False with `Overlap`.
- `TerminalsAreServed`: a socket gets its opening snapshot or is closed, and
  the end of the stream closes it. A second hello whose rebuild fails is the
  named exception: nothing sets `live` again.
- `ModesReachClient`: a terminal that was not given a snapshot cut out of the
  middle of a sequence has the modes the scanner knows and, between two
  sequences, those of the last sequence of each kind that the program wrote.

Browser's terminal.
- `ViewIsWired`: a mounted view holds the entry, and an interactive one sends
  input. `NoHole`: what is loaded of the history is one piece up to what is
  shown, unless two chunks nobody had aborted were under way at once
  (`doubled`; section 6). `PausedViewHolds`: nothing is drawn on a paused view
  but by its own rebuild. `BannerClears`: a lost connection's banner goes.

What is observed.
- `NeverInterruptsWork`, `NudgedRunSuspends`, `StuckEnds`: the monitor, the
  comments at `limitMonitor.ts:24-35` and `orchestrator/index.ts:516-540`.
- `RowFollowsFiles`: the row's state and title are the files'; the exception,
  `lost`, is a launch whose agent is quicker than `start()`.
- `LifeCounted`: when a life with a tailer ends, its row has every line.

Outside.
- `SafeguardOnlyGrows`: the hook's "core durability guarantee"
  (`supervisor.sh:134`), as long as the branch has the run's own name, for every
  push but that of a commit an operation made in the run's container, and the
  agent's that follows it (`taken`); section 6 says what these may take away.
  `ForeignWorkSurvives`: the lease (`supervisor.sh:135-136`).
- `ThresholdOnce`: once per bucket and window, the rule that
  `oauthUsagePoller.test.ts:186` tests without overlap.

Store.
- `UploadsLand` (no name goes from one file to another; only overlapping
  uploads pass a draft's quota), `LaunchedIsComplete` (a run has every file its
  page showed, but for those removed or lost in a named way).
- `OnlyMissedRowsAreWrong`: however requests overlap and fail, a list is wrong
  only about a row whose change is under way, came from another page, lost its
  answer, or was undone by the answer to an older request. Every other row is
  as the server has it.
- `LaunchHasImage`, `EditsReach`, `Upgraded`: one each for images,
  configuration, migrations. `TypeOK` is the types of all.

Pages.
- `TabsMatchState` (no work in progress for a live run, no ports for an ended
  one), `ShowsRequested` (the page turns to no run but the URL's, except by the
  late answer to a rename), `PageCatchesUp` (it comes to show its run).
- `OnceAnnounced`: one announcement per end. `ReportIsTrue`: what the ship tab
  reports has happened. `ShipSettles`: it comes to show what GitHub has.

## 4. Runs, bounds, fairness

| run | instance | distinct states |
|---|---|---|
| `lifecycle_reuse` | 1 run, 2 lives, 2 containers, 1 automatic resume; deletions and Continue, no crash, no faults; symmetry | 1 019 973 |
| `lifecycle_served` | 1 run, 2 lives, 1 container, 1 crash, faults; fairness | 85 247 |
| `shell_views` | 2 terminals, 1 life at a time, 2 chunks, 3 screens, 1 restart; 2 sequences of 12, heights 1 and 3; symmetry and view | about 550 000 |
| `shell_served` | 1 terminal, 1 chunk, 3 screens, 1 restart, faults; fairness | 296 966 |
| `shell_client` | 1 view that is mounted again, 2 chunks in flight, 2 bytes of log, 1 of them old, 1 drop, 5 clicks; fairness | 757 759 |
| `watch` | 4 kinds of output, windows of 2 ticks, 2 lives, 1 crash, 2 clicks; 2 lines, 2 restarts; fairness | 501 823 |
| `outside` | 4 commits before an operation and 2 of its own, 2 containers, 1 operation (merge, rebase or squash-local); 2 overlapping polls, 2 windows | 2 022 124 |
| `store` | 2 uploads, 2 drafts, 2 runs; 2 launches, 1 sweep; 2 lives, 2 edits; lists of 2 ids, 3 names, 2 requests, 2 clicks; 3 crashes of a migration | 1 295 932 |
| `browser` | 2 runs, 2 overlapping polls, 2 navigations; 2 ends, 2 frames on the wire; 1 operation; fairness | 413 201 |
| `claim_cancel`, `claim_resume`, `claim_sync` | the smallest instances that show the counterexample | |

Why the bounds are enough. One run in the lifecycle: lives of different runs
share nothing but `listByState`'s limit and the greatest id. Two lives: the
races are between an activation and its successor; a third is like the second,
since neither knows of the other. One automatic resume reaches the suspension,
the resume and the cap. One crash hits every step of every activation, also
those a recovery started. Two terminals meet only in a rebuild, which a third
would join the same way. Two chunks, sequences, lines, polls, uploads,
requests: two are needed to tell order, repetition and overlap. Three screens:
one in the registry, one in a rebuild that lost its place, one new. Four
commits are a base, somebody else's, and two of the agent's; those of an
operation come on top (`Full` does not stop a rebase half way). Merge, rebase
and squash-local are between them the three ways to build (merge, rebase, one
new commit), both targets and both halves of a rebase's push; sync and squash
are in `claim_resume` and in the proof. A window of two ticks is the least with an inside. Two containers, three values
of time (now, in a while, a day) and two thresholds are the least that show
each branch. The proofs of section 5 drop these bounds for safety.

`Scans = {TRUE}`: a run whose session is found can do everything one without
can, and be continued. `CHECK_DEADLOCK` is off where a resting system is legal:
a failed restore cannot be continued, a queued row that nobody launches rests,
a page that is closed stays so. Symmetry permutes lives, containers, objects
and sockets, never run ids (SQLite orders them), and is not used in the
liveness runs. `Canonical` leaves out what an object nothing refers to held
before it is taken again; no action and no property reads it before.

Three switches are set to what makes a property true. `Overlap = FALSE` and,
in `shell_views`, `Faults = FALSE`; `NarrowCheck = FALSE` in `store`: no
database whose `mirror_status` lacks `local_only`; `OneSubmit = TRUE`: nobody
submits a form twice. Section 6 says what happens with the others.

### Fairness

Lifecycle: every await of a life settles, except `container.wait()` while the
agent runs: nothing obliges an agent to exit. The event loop runs due timers.
`docker stop` with `t: 10` kills the agent after its grace period.
`systemd/fbi.service` has `Restart=on-failure`, so a crashed server starts
again, and `main()` awaits `recover()` and `rehydrateSchedules()`.

`ShellStream`: the 1500 ms timer of the opening hello fires, reads of the log
and `resize` settle, xterm calls back, `container.remove()` returns.
`ShellClient`: the terminal's writes and the browser's frames come, the
resume's timeout fires. `AgentWatch`: the polls and timers of the server. The
pages: polls, timers and patches of the page and of the ship tab. Users,
agents, watchers, other people, faults and the reset of a window owe nothing.

### What the claims show

Each `claim_*` run checks one statement of a comment or a design document and
finds the counterexample; `PROJECT.json` quotes the line.

- `claim_cancel`: `cancel()` awaits `stop()` and then notes its intent; the
  life that observes the exit may come first and records `failed` or
  `succeeded`. The note stays and labels the run's next life.
- `claim_resume`: the hook mirrors every commit to `claude/run-N`, and a resume
  asks the safeguard for the name of the row. With any other name, commits
  whose push to origin failed are not in the resumed container.
- `claim_sync`: a sync that conflicts is handed to an agent who is told to
  merge the branch into main and to push main.

## 5. Proofs

The theorems hold for every value of the constants: any number of runs, lives,
terminals, requests, commits, crashes. The components share no state, so a
component's part of a proof begins with its *frame*: a step of the composition
is a step of the component or leaves it alone. Assumptions are the named
`ASSUME`s of the modules (numbers are numbers, `None` is no container, the tokens
of a terminal are told apart), which TLC evaluates in the runs, and these, where
the code needs them:

| theorem | hypothesis | why |
|---|---|---|
| `LiveRowsAreDriven` | `ListLimit >= NumRuns` | `recover()` calls `listByState` with its default limit, 100 per state; a row beyond it is left to nobody |
| `HandlesAreTended` | `~Faults` | a step of `reattach()` that rejects leaves its entry in `active` |
| `TerminalsListen`, `WhatIsHeardIsShown` | `~Overlap` | an old life's `release()` drops the objects of the next |
| `WhatIsHeardIsShown` | `~Faults` | a failed rebuild deletes a screen in use |
| `ServesUpgraded` | `NarrowCheck = FALSE` | the rebuild of such a table is broken |
| `LaunchesAreComplete` | `OneSubmit` | two submissions of one form promote one draft twice |

The property by itself is seldom inductive. What each proof adds:

**`RunLifecycleProofs`.** `TypeCorrect`: `TypeOK` is inductive; one lemma per
statement of the store keeps rows well formed (`MarkAwaitingKeepsRows` is where
the cap check is needed), then one lemma per group of actions.
`LiveRowsAreDriven`: `DriverInv` adds that only live rows record a container,
hence a Continue starts from a row without one, and that a life has none before
`createContainer` resolves.

In the same module, `RowsObeyRunSpec` (the refinement) and `OutcomesAreFinal`:
`Moves` says what a step may do to a row's state and attempts; every step but
Continue moves every row so, and each move is an action of `RunSpec` or a
stutter. That a row in state "none" is blank, on which the second row of a
reused id depends, is an invariant of its own. `SuspendedRunsWake`: by
`StaysWoken`, the shape of most steps, and one lemma for each step that uses a
wakeup up. `HandlesAreTended`: `HandlesTended` adds which lives at their last
await have still to delete their entry: those of `reattach()`.

**`TerminalProofs`.** `StreamsAreTyped`: with `Held`, that a life, a rebuild or
a snapshot under way holds an object of its kind. `TerminalsListen`: a life
that is there is alone and holds the registered channel, and a socket listens
to that one or to one that has ended. `WhatIsHeardIsShown`: besides, the life
draws on the registered screen, and what a socket has been handed is on that
screen (`Sound`, by the await the socket is at: while a snapshot drains, it is
among the chunks the drain waits for or buffered behind it).

**`ModesProofs`.** `ModesReachTerminals`, `TerminalsAreTyped`: for every
alphabet of row numbers and every set of sequences of the grammar, any number of
them. `ModesInv` has four parts besides the types. `Ends`: at the end of the
sequence that is being written the scanner stands between two, or has stood there
since a restart. `Agreed`: the modes it will know then are those the last
sequence of each kind asked for (`Agrees`). `Buffered`: the bytes behind a
snapshot, read after any modes whatever, leave a terminal as it was given, or at
the scanner's place with each mode as given or as the scanner's (`Follows`): a
snapshot that fell into a sequence must be covered as well as one that did not,
and what it will say is not known before it is made. `Shows`: a live terminal that
was not cut stands where the scanner does and shows the same (`Like`). The lemmas
under them: two parsers at one place stay together, with whatever relation every
change made to both keeps (`ScannedInStep`); what the scanner makes of each
sequence of the grammar (`WholeIsRead`) and of a snapshot (`EmitIsRead`); what one
more sequence changes in what was asked for (`WordsGrow`). The library's
induction theorems cannot be used, so induction over the bytes is a lemma on sets
of numbers, by the least element not in the set (`InductionOnNat`), from which
the recursive functions are shown to run and to be what their rounds say
(`LoopRuns`, `ScannedAllRuns`).

**`ShellClientProofs`.** `ViewsAreWired`: the registry counts the mounted views.
`HistoryIsWhole`: a chunk under way that nobody aborted ends where the text
begins, is alone unless `doubled`, and the text it will leave is whole; the
seed, which replaces the text, is over before the first chunk.
`PausedViewsHold` from the same: who may write while paused is a rebuild.

**`WatchProofs`.** `WorkIsNotInterrupted`: the monitor's window is never longer
than the time since a transcript grew, unless one has grown that the monitor has
not looked at yet. `NudgedSuspends`: every verdict is none or a time within the
clamp, and the flag of the nudge outlives a tail that says nothing.
`RowsFollowFiles`: an agent that has spoken in this life has left its sentinel
(`FollowInv`), and the title recorded is the last one emitted or the one
`result.json` repeated. `EndsCounted`, `CountsAreBounded`: the lines before the
tailer's offset are counted once for the life and once per restart.

**`OutsideProofs`.** `SafeguardGrows`: while the branch has its first name, HEAD
descends from what is in the safeguard, unless an operation has put it there; a
push that has read HEAD took an ancestor of what HEAD is now, and all the work
of what it saw, if HEAD descends from that too (`MirrorInv`). After an
operation's push and the agent's next one the first part holds again, and a push
that saw the operation's commit can no longer land, unless that commit was the
agent's own. That an ancestor's work is in its descendant (`GraphInv`) needs to
know what a rebase has repeated when it stops half way. Any kind of operation,
in any number, is covered (`OpStep`, `GraphStep`).
`ForeignWorkIsKept`: a push to origin
that can still land saw what the clone had fetched (`LeaseInv`).
`ThresholdsAnnouncedOnce`: the bucket's row remembers the highest announcement
of its window, and no later window has one (`BucketInv`).

**`StoreProofs`.** `ServesUpgraded`: what each statement of `migrate()` counts
on (`MigrationsInv`). `ListsMissOnlyLostRows`: the rows that an
answer under way will leave are the server's, but for those in `missed` or in
its `since`, and those another request has changed that is not over (`Brings`).
`LaunchesHaveImages`: what a launch and a sweep have read, and that the one
cannot miss the other's container. `EditsAreReached`: when a life read what it
has. `UploadsAreKept`, `LaunchesAreComplete`: whose every file and every
reserved unit of room is, and where the files of a page are (`Accounted`), which
needs the collision rule to find a free name. `StoreIsTyped`: all of these.

**`BrowserProofs`.** `TabsAlwaysMatch`: inductive as it stands, since every
change of state goes through `SetRun`. `PageShowsRequested`: frames are out only
for a run that is shown. `ReportsAreTrue`: `OpKnows` follows a script from its
push over its last line, the parser, the timeout and the container's end.
`EndsAnnouncedOnce`: announcements never outnumber the ends, for the map, for a
list that has come and for the frames on the wire, whose states number the
announcements they can still cause (`EndsInv`). `BrowserIsTyped`: with the invariants of
banner, title, forms and ship tab that the types rest on.

Only model-checked:
- liveness (`AwaitingIsServed`, `ExitIsRecorded`, `CancelEndsRun`,
  `TerminalsAreServed`, `BannerClears`, `StuckEnds`, `PageCatchesUp`,
  `ShipSettles`): fairness brings `ENABLED`, which the prover cannot reason
  about;
- the claims, which are false.

Every safety invariant and action property of the passing runs has a theorem that
names it.

## 6. What the models show the code does

Behaviours that the models admit, and that no document rules out or that are
the reason for an exception in a property.

Lifecycle. Queued rows are in no list of `recover()`. A container's id is
stored only after its start, so a crash in between leaves a container no row
knows. Cancelling a run while `resume()` creates its container and pressing
Continue gives two boots and two containers. After a restart, `reattach()`
does not look at the monitor's flag and has no branch for a rate limit; the
flag stays for the run's next life. `wait()` rejecting leaves the container. A
`stop()` that Docker rejects is swallowed (`index.ts:983`): the intent is noted,
the user is told nothing, and an agent that does not exit works on.

Streams. Bytes that arrive during a hello are in the snapshot and sent again.
A run that suspends and resumes gets its ended channel back and publishes into
it, so a terminal that stayed sees nothing. `reattach()` writes its status line
before it asks Docker for the output since the log's last write, so what was
written in between is lost. A second hello whose rebuild fails leaves its
socket without bytes.

Modes. A snapshot cut out of a sequence loses that mode. The scanner does not
track DECSTR and RIS. After a restart a live run's screen has default modes. Margins that `emit()`
clamps to one row are sent as such; the model's terminal takes them, while
xterm, which asks for two rows, keeps its own.

Browser's terminal. The `finally` of a stale chunk clears the `pendingChunk` of
another, so two can be in flight (`2026-04-24-lazy-scrollback-design.md:304`
says at most one), and a late one leaves a hole. `dispose()` sets `disposed`
first, so its `setInteractive(false)` does nothing. Bytes during a rebuild or a
resume are dropped without moving `liveOffset`; bytes between the seed's start
and its meta come twice. After a resume that timed out, the sink swallows the
next snapshot.

Detection. A quoted limit phrase nudges an agent that waits for its user. With
auto-resume off at detection the monitor has fired for good. After a crash the
message is not replayed to the new monitor. The line of an earlier life in the
last 8 KB suspends again. An hour of today that has passed is clamped to a
minute, not moved to tomorrow. A launch quicker than its watcher loses the first
sentinel.

Usage. A restart counts the file again (`2026-04-22-claude-usage-design.md:282`);
`resume()` and `continueRun()` start no tailer; a reused id counts the old
transcript. A nudge during a poll starts another, and the timer's own is not
gated (`oauthUsagePoller.ts:42-45`); the older answer moves `observed_at` back.
A late answer, or one without the bucket, announces a threshold again.

Git. A history operation on a live run commits in a worktree that shares the
agent's post-commit hook (`supervisor.sh:146-150`), which forces that HEAD over
`claude/run-N` in the safeguard. What the agent committed after the operation's
fetch leaves the safeguard until its next commit, and for good if the container
dies before; so does the tail of a rebase that a conflict stops, and, where the
row names another branch, all that only `claude/run-N` had. The same hook run
sets `mirror-status` to `local_only`, for it knows no origin (not modelled).
Pushes die with the container. The fetch of a history operation moves the
ref the hook's lease is held against, so the next push overwrites. The commit
after a "sync" of a live run reverts it. What others pushed before the clone is
lost by a resume. Merging a renamed branch ignores commits that only the
safeguard has. A rebase may land by half.

Ship tab. Frames of `SafeguardWatcher` carry no `branch_base` and the page
patches it in, so ahead and behind vanish until the next poll (compare the
comment at `RunDetail.tsx:117-121`). The cache is not invalidated by a merge or
a pull request, and a slow older answer is cached again. `dockerExec` gives up
after 60 s and its script goes on; a transient container killed after 120 s may
have pushed though the report says "git-error". Two conflicts spawn two
children. A merged pull request keeps a new one from being opened.

Pages. Frames between the list and the socket's opening are lost. A failed seed
and a row published again announce an old end after a reload. The late answer of
a rename turns the page to another run until its next poll. `error` sticks after
one 404. The ports of the previous run are shown until the first tick.

Uploads. Two uploads of one name share the inode of the `.part`
(`2026-04-23-agent-run-file-uploads-design.md:441-446`). The first two parallel
uploads get two tokens. A file that lands between the promotion's listing and
its removal of the draft is deleted though acknowledged. A failed promotion
loses what it had moved (`:434`). Mod+Enter submits twice. A draft older than a
day is swept while its page is open. The directories of a deleted run stay and
its id is used again (`:388-392`).

Images. A clone that fails builds the fallback image without a word. The sweep
hashes configurations without the devcontainer's files, so those images are
always unreachable, and one may go between its resolution and the container.
Two launches build the same tag twice. "Not used in 30 days"
(`2026-04-21-p2-improvements-design.md:142`) is "created" in the code.

Configuration. Deleting a project whose run boots lets the launch go on without
its secrets and its row. A server saved between the two reads of a launch may
start with an empty secret. POST drops a new project's merge strategy. The later
of two pages wins every field. An impatient user of the server list sees deleted
rows, for the closure computes from what it saw; one whose answer is lost sees an
error and the old list, though the change was made.

Migrations. A crash between the ALTER and the backfill of `state_entered_at`
leaves zeros for ever. The rebuild for a narrow CHECK (`db/index.ts:163-205`)
drops the old table, its INSERT fails on the number of columns, the catch
swallows the error, and the server serves an empty table in an open transaction;
`Upgraded` is false with `NarrowCheck = TRUE`.

## 7. Running

    tlc -workers 2 -config lifecycle_reuse.cfg MCRunLifecycle
    tlc -workers 2 -config shell_views.cfg MCTerminal
    tlc -workers 2 -config store.cfg MCStore
    tlapm TerminalProofs.tla
    tlapm ModesProofs.tla

`PROJECT.json` has the module of each run. Operators under a comment `Mutant:`
are not part of any specification. Each is a plausible bug; with it in place of
the definition after it, the run named in `PROJECT.json` finds the property
violated.

## 8. Not modelled

The container proxy and the tunnel carry bytes. The desktop shell is packaging,
the mock agent a script player. The Elixir server is a second implementation
with the same table; its `run_server.ex` could be shown to implement `RunSpec`.
Of modelled parts: pacing, the plan, the credentials file and the usage page;
`MirrorStatusPoller`, mirror-rebase and push-submodule;
lists of runs with their filters; wip snapshots; endpoints that only read; cell
contents of screens; the text of prompts, of GitHub's answers and of
validations; themes and layout. The notes of `PROJECT.json` say so per part.

## 9. What is left

- Proofs: lives of `RunLifecycle` as the writers of `ShellStream`, so that
  `Overlap` is no switch but what the lifecycle allows; the browser's socket of
  `ShellClient` against the server's of `ShellStream`.
- Model: the Elixir `run_server.ex` under `RunSpec`; `MirrorStatusPoller`.
