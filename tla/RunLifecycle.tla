----------------------------- MODULE RunLifecycle -----------------------------
(***************************************************************************)
(* The life of the runs: the orchestrator (src/server/orchestrator/        *)
(* index.ts), the resume scheduler, the run table and the endpoints of     *)
(* src/server/api/runs.ts that drive them, over the Docker engine.         *)
(*                                                                         *)
(* The server is one Node.js thread, so the code between two awaits is one *)
(* step.  An activation of launch(), resume(), continueRun() or reattach() *)
(* is a "life" of a run, and its `pc` names the await it is suspended at:  *)
(*                                                                         *)
(*   promoting    the POST handler moving the draft's uploads, pre-launch  *)
(*   creating     createContainerForRun: git fetch, image, create          *)
(*   starting     inject files, attach, container.start()                  *)
(*   attaching, backfilling    reattach: attach, then logs                 *)
(*   waiting      container.wait() and inspect()                           *)
(*   reading      reading /tmp/result.json                                 *)
(*   removing     container.remove(), its outcome already recorded         *)
(*   teardown     the finally block, stopping the watchers                 *)
(*   failing      the same finally block, entered by an exception that the *)
(*                outer catch still has to record                          *)
(*                                                                         *)
(* Several lives of one run may exist at once, and one often outlives the  *)
(* state it was started for; nothing in the code forbids it.  A crash ends *)
(* every life and empties the server's memory, and keeps the table and the *)
(* containers.                                                             *)
(***************************************************************************)
EXTENDS RunStore, FiniteSets

CONSTANTS
  NumRuns,      \* bound: highest run id
  Lives,        \* bound: activations at one time
  MaxCrashes,   \* bound: crashes of the server
  AutoResume,   \* settings.auto_resume_enabled
  ListLimit,    \* RunsRepo.listByState's default limit, 100
  Scans,        \* what scanSessionId may report of a run's mount: BOOLEAN, or
                \* {TRUE}, which only adds runs that can be continued
  Faults,       \* whether Docker and file-system calls may fail
  Deletions     \* bound: whether users delete runs and projects

ASSUME NumRunsIsNat == NumRuns \in Nat
ASSUME MaxCrashesIsNat == MaxCrashes \in Nat
ASSUME ListLimitIsNat == ListLimit \in Nat
ASSUME ScansAreBoolean == Scans \subseteq BOOLEAN
ASSUME SwitchesAreBoolean == {AutoResume, Faults, Deletions} \subseteq BOOLEAN

Runs == 1 .. NumRuns

VARIABLES
  runs,        \* the table
  containers,  \* Docker's view of each container
  lives,       \* the activations
  active,      \* run -> the container that stdin, resize and cancel act on
  cancelled,   \* runs whose cancel() has returned and no life has consumed
  limitFired,  \* runs whose limit monitor fired
  timers,      \* runs with an armed resume timer
  fires,       \* runs with a pending fireNow(); bound: one per run
  stopping,    \* container -> run whose cancel() is stopping it, or 0;
               \* bound: one stop call in flight per container
  server,      \* "up", "down" or "recovering"
  toRecover,   \* rows recover() listed and has not handled
  crashes

memory == <<active, cancelled, limitFired, timers, fires, stopping>>
process == <<server, toRecover, crashes>>
vars == <<runs, containers, lives, memory, process>>

FreeLife == [pc |-> "free", kind |-> "none", run |-> 0, ctr |-> None,
             wasCancelled |-> FALSE, detected |-> FALSE]

PC == {"free", "promoting", "creating", "starting", "attaching",
       "backfilling", "waiting", "reading", "removing", "teardown", "failing"}

Life == [pc : PC, kind : {"none", "launch", "resume", "continue", "reattach"},
         run : Runs \cup {0}, ctr : Containers \cup {None},
         wasCancelled : BOOLEAN, detected : BOOLEAN]

\* A life that has yet to record how its run ended.
Undecided == {"creating", "starting", "attaching", "backfilling", "waiting",
              "reading", "failing"}

\* The awaits during which a life's watchers poll.
Watching == {"waiting", "reading", "removing", "teardown", "failing"}

-------------------------------------------------------------------------------
Init ==
  /\ runs = [r \in Runs |-> NoRow]
  /\ containers = [c \in Containers |-> "none"]
  /\ lives = [l \in Lives |-> FreeLife]
  /\ active = [r \in Runs |-> None]
  /\ cancelled = {} /\ limitFired = {} /\ timers = {} /\ fires = {}
  /\ stopping = [c \in Containers |-> 0]
  /\ server = "up" /\ toRecover = {} /\ crashes = 0

Begin(l, r, k, p) ==
  /\ lives[l].pc = "free"
  /\ lives' = [lives EXCEPT ![l] =
                 [FreeLife EXCEPT !.pc = p, !.kind = k, !.run = r]]

Goto(l, p) == lives' = [lives EXCEPT ![l].pc = p]
\* The outcome is recorded, and the locals it came from are dead.
Decided(l) == lives' = [lives EXCEPT ![l].pc = "removing",
                                     ![l].wasCancelled = FALSE]
End(l) == lives' = [lives EXCEPT ![l] = FreeLife]

Store(r, row) == runs' = [runs EXCEPT ![r] = row]
\* Mutant: the catch and finally blocks forget active.delete(runId).
KeepActive(r) == UNCHANGED active

Deactivate(r) == active' = [active EXCEPT ![r] = None]

-------------------------------------------------------------------------------
\* Creating runs.

\* runs.id is an INTEGER PRIMARY KEY without AUTOINCREMENT: the next id is one
\* more than the greatest in use, so the newest run's id is used again.
NextId(r) == /\ \A s \in Runs : s >= r => runs[s].state = "none"
             /\ r > 1 => runs[r - 1].state # "none"

\* POST /api/projects/:id/runs without a draft, or spawnSubRun: the handler
\* calls launch() before it returns.
CreateRun(l, r) ==
  /\ server = "up" /\ NextId(r)
  /\ Store(r, QueuedRow)
  /\ Begin(l, r, "launch", "creating")
  /\ UNCHANGED <<containers, memory, process>>

\* POST with a draft token: the handler awaits promoteDraft() first.
CreateRunFromDraft(l, r) ==
  /\ server = "up" /\ NextId(r)
  /\ Store(r, QueuedRow)
  /\ Begin(l, r, "launch", "promoting")
  /\ UNCHANGED <<containers, memory, process>>

\* initSafeguard() throws after the INSERT: the row stays, nobody launches it.
CreateRunUnlaunched(r) ==
  /\ Faults /\ server = "up" /\ NextId(r)
  /\ Store(r, QueuedRow)
  /\ UNCHANGED <<containers, lives, memory, process>>

DraftPromoted(l) ==
  /\ lives[l].pc = "promoting"
  /\ IF runs[lives[l].run].state = "queued"
     THEN Goto(l, "creating")
     ELSE End(l)
  /\ UNCHANGED <<runs, containers, memory, process>>

DraftPromotionFails(l) ==
  /\ lives[l].pc = "promoting"
  /\ Store(lives[l].run, NoRow)
  /\ End(l)
  /\ UNCHANGED <<containers, memory, process>>

-------------------------------------------------------------------------------
\* The boot shared by launch(), resume() and continueRun().

\* Docker ids are never used twice; the model may recycle a container that
\* nothing refers to any more.
Unused(c) == /\ containers[c] = "none"
             /\ stopping[c] = 0
             /\ \A l \in Lives : lives[l].ctr # c
             /\ \A r \in Runs : runs[r].container # c /\ active[r] # c

ContainerCreated(l, c) ==
  /\ lives[l].pc = "creating" /\ Unused(c)
  /\ containers' = [containers EXCEPT ![c] = "created"]
  /\ lives' = [lives EXCEPT ![l].pc = "starting", ![l].ctr = c]
  /\ UNCHANGED <<runs, memory, process>>

\* Docker starts the container some time before start() resolves.
DockerStart(l) ==
  /\ lives[l].pc = "starting"
  /\ containers[lives[l].ctr] = "created"
  /\ containers' = [containers EXCEPT ![lives[l].ctr] = "running"]
  /\ UNCHANGED <<runs, lives, memory, process>>

MarkStarted(row, life) ==
  CASE life.kind = "launch"   -> MarkStartingFromQueued(row, life.ctr)
    [] life.kind = "resume"   -> MarkStartingForResume(row, life.ctr)
    [] life.kind = "continue" -> MarkStartingContainer(row, life.ctr)
    [] OTHER                  -> row

StartReturns(l) ==
  LET r == lives[l].run IN
  /\ lives[l].pc = "starting"
  /\ containers[lives[l].ctr] \in {"running", "exited"}
  /\ active' = [active EXCEPT ![r] = lives[l].ctr]
  /\ Store(r, MarkStarted(runs[r], lives[l]))
  /\ Goto(l, "waiting")
  /\ UNCHANGED <<containers, cancelled, limitFired, timers, fires, stopping,
                 process>>

\* Any of the awaited calls rejects.  The catch block records the failure and
\* leaves the container, if there is one, where it is.
BootFails(l) ==
  LET r == lives[l].run IN
  /\ \/ lives[l].pc = "creating"
     \/ /\ lives[l].pc = "starting"
        /\ Faults \/ containers[lives[l].ctr] = "created"
  /\ Store(r, MarkFinished(runs[r], "failed"))
  /\ Deactivate(r)
  /\ End(l)
  /\ UNCHANGED <<containers, cancelled, limitFired, timers, fires, stopping,
                 process>>

-------------------------------------------------------------------------------
\* While the container runs.

\* The agent exits, or is killed: by itself, out of memory, by a stop call, or
\* by the limit monitor's nudge.
ContainerExit(c) ==
  /\ containers[c] = "running"
  /\ containers' = [containers EXCEPT ![c] = "exited"]
  /\ UNCHANGED <<runs, lives, memory, process>>

\* The runtime watcher saw another sentinel: Claude took a prompt or awaits one.
RuntimeStateSeen(l) ==
  LET r == lives[l].run IN
  /\ lives[l].pc \in Watching
  /\ \/ Store(r, MarkRunning(runs[r]))
     \/ Store(r, MarkWaiting(runs[r]))
  /\ UNCHANGED <<containers, lives, memory, process>>

\* The limit monitor fires, once per life, and nudges Claude to exit.
LimitDetected(l) ==
  /\ lives[l].pc \in Watching
  /\ ~lives[l].detected /\ AutoResume
  /\ lives' = [lives EXCEPT ![l].detected = TRUE]
  /\ limitFired' = limitFired \cup {lives[l].run}
  /\ UNCHANGED <<runs, containers, active, cancelled, timers, fires, stopping,
                 process>>

-------------------------------------------------------------------------------
\* awaitAndComplete() and the second half of reattach().

\* wait() and inspect() have returned; the cancel flag is consumed here.
WaitReturns(l) ==
  LET r == lives[l].run IN
  /\ lives[l].pc = "waiting"
  /\ containers[lives[l].ctr] = "exited"
  /\ lives' = [lives EXCEPT ![l].pc = "reading",
                            ![l].wasCancelled = r \in cancelled]
  /\ cancelled' = cancelled \ {r}
  /\ UNCHANGED <<runs, containers, active, limitFired, timers, fires, stopping,
                 process>>

\* An exception leaves awaitAndComplete() or the body of reattach().  launch()
\* records it before it stops the watchers, the others after.
Throw(l) ==
  LET r == lives[l].run IN
  /\ limitFired' = IF lives[l].kind = "reattach" THEN limitFired
                   ELSE limitFired \ {r}
  /\ IF lives[l].kind = "launch"
     THEN /\ Store(r, MarkFinished(runs[r], "failed"))
          /\ Deactivate(r)
          /\ Goto(l, "teardown")
     ELSE /\ Goto(l, "failing")
          /\ UNCHANGED <<runs, active>>

WaitFails(l) ==
  /\ Faults /\ lives[l].pc = "waiting"
  /\ Throw(l)
  /\ UNCHANGED <<containers, cancelled, timers, fires, stopping, process>>

FailureRecorded(l) ==
  LET r == lives[l].run IN
  /\ lives[l].pc = "failing"
  /\ Store(r, MarkFinished(runs[r], "failed"))
  /\ Deactivate(r)
  /\ End(l)
  /\ UNCHANGED <<containers, cancelled, limitFired, timers, fires, stopping,
                 process>>

\* Exit status 0 and a parsed result whose push succeeded, or anything else.
Outcome == {"good", "bad"}

TerminalState(l, outcome) ==
  IF lives[l].wasCancelled THEN "cancelled"
  ELSE IF outcome = "good" THEN "succeeded" ELSE "failed"

\* Whether the completion enters the rate-limit branch, which reattach() lacks.
MayResume(l, outcome) ==
  /\ lives[l].kind # "reattach"
  /\ outcome = "bad" \/ lives[l].run \in limitFired
  /\ ~lives[l].wasCancelled /\ AutoResume

\* `limited` is classify()'s verdict on the log; the monitor's flag forces it.
Suspended(l, outcome, limited) ==
  MayResume(l, outcome) /\ (limited \/ lives[l].run \in limitFired)

\* Mutant: the attempt about to be used is not counted.
OverCapOffByOne(row) == row.attempts > MaxAttempts

OverCap(row) == row.attempts + 1 > MaxAttempts

\* Rate limited: await the reset and arm the timer, or give up at the cap.
ResultIsRateLimit(l, outcome, limited, found) ==
  LET r == lives[l].run
      row == SetSession(runs[r], found) IN
  /\ lives[l].pc = "reading"
  /\ row.state # "none"
  /\ Suspended(l, outcome, limited)
  /\ IF OverCap(row)
     THEN Store(r, MarkFinished(row, "failed")) /\ UNCHANGED timers
     ELSE Store(r, MarkAwaitingResume(row)) /\ timers' = timers \cup {r}
  /\ Decided(l)
  /\ UNCHANGED <<containers, active, cancelled, limitFired, fires, stopping,
                 process>>

ResultIsFinal(l, outcome, limited, found) ==
  LET r == lives[l].run IN
  /\ lives[l].pc = "reading"
  /\ runs[r].state # "none" \/ lives[l].kind = "reattach"
  /\ ~Suspended(l, outcome, limited)
  /\ Store(r, MarkFinished(SetSession(runs[r], found),
                           TerminalState(l, outcome)))
  /\ Decided(l)
  /\ UNCHANGED <<containers, memory, process>>

\* supervisor.sh could not restore the safeguard branch.
ResultIsRestoreFailure(l, found) ==
  LET r == lives[l].run IN
  /\ lives[l].pc = "reading"
  /\ Store(r, MarkResumeFailed(SetSession(runs[r], found)))
  /\ Decided(l)
  /\ UNCHANGED <<containers, memory, process>>

\* runs.get(runId)! is undefined: the row was deleted under the life.
ResultOfDeletedRun(l) ==
  /\ lives[l].pc = "reading"
  /\ lives[l].kind # "reattach"
  /\ runs[lives[l].run].state = "none"
  /\ Throw(l)
  /\ UNCHANGED <<containers, cancelled, timers, fires, stopping, process>>

ContainerRemoved(l) ==
  LET r == lives[l].run IN
  /\ lives[l].pc = "removing"
  /\ \/ containers' = [containers EXCEPT ![lives[l].ctr] = "none"]
     \/ Faults /\ UNCHANGED containers   \* remove().catch(() => {})
  /\ IF lives[l].kind = "reattach"
     THEN UNCHANGED <<active, limitFired>>
     ELSE Deactivate(r) /\ limitFired' = limitFired \ {r}
  /\ Goto(l, "teardown")
  /\ UNCHANGED <<runs, cancelled, timers, fires, stopping, process>>

WatchersStopped(l) ==
  /\ lives[l].pc = "teardown"
  /\ IF lives[l].kind = "reattach"
     THEN Deactivate(lives[l].run)
     ELSE UNCHANGED active
  /\ End(l)
  /\ UNCHANGED <<runs, containers, cancelled, limitFired, timers, fires,
                 stopping, process>>

-------------------------------------------------------------------------------
\* Users.

\* DELETE /api/runs/:id cancels a running or awaiting run...
CancelAwaiting(r) ==
  /\ server = "up"
  /\ runs[r].state = "awaiting_resume"
  /\ timers' = timers \ {r}
  /\ Store(r, MarkFinished(runs[r], "cancelled"))
  /\ UNCHANGED <<containers, lives, active, cancelled, limitFired, fires,
                 stopping, process>>

\* ...the running one through its container; without one, cancel() returns.
CancelRunning(r) ==
  /\ server = "up"
  /\ runs[r].state = "running"
  /\ active[r] # None
  /\ stopping[active[r]] = 0
  /\ stopping' = [stopping EXCEPT ![active[r]] = r]
  /\ UNCHANGED <<runs, containers, lives, active, cancelled, limitFired, timers,
                 fires, process>>

\* stop() resolves once the container is down, or it is rejected, whatever the
\* container does, and the catch is empty.  Only then is the intent recorded.
StopReturns(c) ==
  /\ stopping[c] # 0
  /\ Faults \/ containers[c] \in {"exited", "none"}
  /\ cancelled' = cancelled \cup {stopping[c]}
  /\ stopping' = [stopping EXCEPT ![c] = 0]
  /\ UNCHANGED <<runs, containers, lives, active, limitFired, timers, fires,
                 process>>

\* ...and deletes the row of a run in any other state.
DeleteRun(r) ==
  /\ Deletions /\ server = "up"
  /\ runs[r].state \notin {"none", "running", "awaiting_resume"}
  /\ Store(r, NoRow)
  /\ UNCHANGED <<containers, lives, memory, process>>

\* DELETE /api/projects/:id cascades to the project's runs, in any state.
DeleteProject ==
  /\ Deletions /\ server = "up"
  /\ \E r \in Runs : runs[r].state # "none"
  /\ runs' = [r \in Runs |-> NoRow]
  /\ UNCHANGED <<containers, lives, memory, process>>

ContinueRun(l, r) ==
  /\ server = "up"
  /\ runs[r].state \in Continuable /\ runs[r].session
  /\ Store(r, MarkStartingForContinueRequest(runs[r]))
  /\ Begin(l, r, "continue", "creating")
  /\ UNCHANGED <<containers, memory, process>>

\* POST /api/runs/:id/resume-now: fireNow() disarms the timer.
ResumeNow(r) ==
  /\ server = "up"
  /\ runs[r].state = "awaiting_resume"
  /\ timers' = timers \ {r}
  /\ fires' = fires \cup {r}
  /\ UNCHANGED <<runs, containers, lives, active, cancelled, limitFired,
                 stopping, process>>

-------------------------------------------------------------------------------
\* Mutant: a run with an active container is not resumed.
OnFireUnlessActive(r) ==
  IF runs[r].state = "awaiting_resume" /\ active[r] = None
  THEN \E l \in Lives : Begin(l, r, "resume", "creating")
  ELSE UNCHANGED lives

\* The scheduler's onFire, up to the first await of resume().
OnFire(r) ==
  IF runs[r].state = "awaiting_resume"
  THEN \E l \in Lives : Begin(l, r, "resume", "creating")
  ELSE UNCHANGED lives

TimerFires(r) ==
  /\ r \in timers
  /\ timers' = timers \ {r}
  /\ OnFire(r)
  /\ UNCHANGED <<runs, containers, active, cancelled, limitFired, fires,
                 stopping, process>>

NowFires(r) ==
  /\ r \in fires
  /\ fires' = fires \ {r}
  /\ OnFire(r)
  /\ UNCHANGED <<runs, containers, active, cancelled, limitFired, timers,
                 stopping, process>>

-------------------------------------------------------------------------------
\* Crash and recovery.

Crash ==
  /\ server # "down" /\ crashes < MaxCrashes
  /\ server' = "down" /\ crashes' = crashes + 1
  /\ toRecover' = {}
  /\ lives' = [l \in Lives |-> FreeLife]
  /\ active' = [r \in Runs |-> None]
  /\ cancelled' = {} /\ limitFired' = {} /\ timers' = {} /\ fires' = {}
  /\ stopping' = [c \in Containers |-> 0]
  /\ UNCHANGED <<runs, containers>>

\* listByState: the newest ListLimit rows in a state.
Listed(state) ==
  {r \in Runs : /\ runs[r].state = state
                /\ Cardinality({s \in Runs : s > r /\ runs[s].state = state})
                     < ListLimit}

\* Mutant: recover() lists the running rows only.
RestartRunningOnly ==
  /\ server = "down"
  /\ server' = "recovering"
  /\ toRecover' = Listed("running")
  /\ UNCHANGED <<runs, containers, lives, memory, crashes>>

Restart ==
  /\ server = "down"
  /\ server' = "recovering"
  /\ toRecover' = UNION {Listed(s) : s \in Live}
  /\ UNCHANGED <<runs, containers, lives, memory, crashes>>

\* No container was recorded, or inspect() says that it is gone.
RecoverLost(r) ==
  /\ r \in toRecover
  /\ \/ runs[r].container = None
     \/ runs[r].container # None
        /\ (Faults \/ containers[runs[r].container] = "none")
  /\ Store(r, MarkFinished(runs[r], "failed"))
  /\ toRecover' = toRecover \ {r}
  /\ UNCHANGED <<containers, lives, memory, server, crashes>>

RecoverReattached(l, r) ==
  /\ r \in toRecover
  /\ runs[r].container # None
  /\ containers[runs[r].container] # "none"
  /\ lives[l].pc = "free"
  /\ lives' = [lives EXCEPT ![l] =
                 [FreeLife EXCEPT !.pc = "attaching", !.kind = "reattach",
                                  !.run = r, !.ctr = runs[r].container]]
  /\ toRecover' = toRecover \ {r}
  /\ UNCHANGED <<runs, containers, memory, server, crashes>>

\* Mutant: startup does not call rehydrateSchedules().
RehydrateNothing ==
  /\ server = "recovering" /\ toRecover = {}
  /\ server' = "up"
  /\ UNCHANGED <<runs, containers, lives, memory, toRecover, crashes>>

\* recover() is done: rehydrateSchedules(), then listen().
Rehydrate ==
  /\ server = "recovering" /\ toRecover = {}
  /\ server' = "up"
  /\ timers' = {r \in Runs : runs[r].state = "awaiting_resume"}
  /\ UNCHANGED <<runs, containers, lives, active, cancelled, limitFired, fires,
                 stopping, toRecover, crashes>>

StdinAttached(l) ==
  /\ lives[l].pc = "attaching"
  /\ active' = [active EXCEPT ![lives[l].run] = lives[l].ctr]
  /\ Goto(l, "backfilling")
  /\ UNCHANGED <<runs, containers, cancelled, limitFired, timers, fires,
                 stopping, process>>

LogsFollowed(l) ==
  /\ lives[l].pc = "backfilling"
  /\ Goto(l, "waiting")
  /\ UNCHANGED <<runs, containers, memory, process>>

\* recover()'s catch: the entry of active, if already there, stays.
ReattachFails(l) ==
  LET r == lives[l].run IN
  /\ Faults /\ lives[l].pc \in {"attaching", "backfilling"}
  /\ Store(r, MarkFinished(runs[r], "failed"))
  /\ End(l)
  /\ UNCHANGED <<containers, memory, process>>

-------------------------------------------------------------------------------
LifeNext(l) ==
  \/ DraftPromoted(l) \/ DraftPromotionFails(l)
  \/ \E c \in Containers : ContainerCreated(l, c)
  \/ DockerStart(l) \/ StartReturns(l) \/ BootFails(l)
  \/ RuntimeStateSeen(l) \/ LimitDetected(l)
  \/ WaitReturns(l) \/ WaitFails(l) \/ FailureRecorded(l)
  \/ \E outcome \in Outcome, limited \in BOOLEAN, found \in Scans :
        \/ ResultIsRateLimit(l, outcome, limited, found)
        \/ ResultIsFinal(l, outcome, limited, found)
        \/ ResultIsRestoreFailure(l, found)
  \/ ResultOfDeletedRun(l) \/ ContainerRemoved(l) \/ WatchersStopped(l)
  \/ StdinAttached(l) \/ LogsFollowed(l) \/ ReattachFails(l)

UserNext(r) ==
  \/ \E l \in Lives : CreateRun(l, r) \/ CreateRunFromDraft(l, r)
                        \/ ContinueRun(l, r)
  \/ CreateRunUnlaunched(r)
  \/ CancelAwaiting(r) \/ CancelRunning(r) \/ DeleteRun(r) \/ ResumeNow(r)

RecoveryNext(r) ==
  \/ RecoverLost(r)
  \/ \E l \in Lives : RecoverReattached(l, r)

Next ==
  \/ \E l \in Lives : LifeNext(l)
  \/ \E r \in Runs : UserNext(r) \/ TimerFires(r) \/ NowFires(r)
                       \/ RecoveryNext(r)
  \/ \E c \in Containers : ContainerExit(c) \/ StopReturns(c)
  \/ DeleteProject \/ Crash \/ Restart \/ Rehydrate

Spec == Init /\ [][Next]_vars

-------------------------------------------------------------------------------
(***************************************************************************)
(* Fairness.  Every await of a life settles, except container.wait() while *)
(* the agent runs: nothing obliges an agent to exit.  setTimeout callbacks *)
(* run, docker stop kills after its grace period, and the service manager  *)
(* restarts the server.  Users and watchers owe nothing.                   *)
(***************************************************************************)
Settles(l) ==
  \/ DraftPromoted(l) \/ DraftPromotionFails(l)
  \/ \E c \in Containers : ContainerCreated(l, c)
  \/ DockerStart(l) \/ StartReturns(l) \/ BootFails(l)
  \/ WaitReturns(l) \/ FailureRecorded(l)
  \/ \E outcome \in Outcome, limited \in BOOLEAN, found \in Scans :
        \/ ResultIsRateLimit(l, outcome, limited, found)
        \/ ResultIsFinal(l, outcome, limited, found)
  \/ ResultOfDeletedRun(l) \/ ContainerRemoved(l) \/ WatchersStopped(l)
  \/ StdinAttached(l) \/ LogsFollowed(l) \/ ReattachFails(l)

Fairness ==
  /\ \A l \in Lives : WF_vars(Settles(l))
  /\ \A r \in Runs : WF_vars(TimerFires(r)) /\ WF_vars(NowFires(r))
  /\ \A c \in Containers :
       /\ WF_vars(stopping[c] # 0 /\ ContainerExit(c))
       /\ WF_vars(StopReturns(c))
  /\ WF_vars(Restart) /\ WF_vars(Rehydrate)
  /\ WF_vars(\E r \in Runs : RecoveryNext(r))

FairSpec == Spec /\ Fairness

-------------------------------------------------------------------------------
\* The variables have their types.
TypeOK ==
  /\ runs \in [Runs -> Row]
  /\ containers \in [Containers -> {"none", "created", "running", "exited"}]
  /\ lives \in [Lives -> Life]
  /\ \A l \in Lives : lives[l].pc # "free" => lives[l].run \in Runs
  /\ active \in [Runs -> Containers \cup {None}]
  /\ cancelled \subseteq Runs /\ limitFired \subseteq Runs
  /\ timers \subseteq Runs /\ fires \subseteq Runs
  /\ stopping \in [Containers -> Runs \cup {0}]
  /\ server \in {"up", "down", "recovering"}
  /\ toRecover \subseteq Runs
  /\ crashes \in 0 .. MaxCrashes

\* A life that will yet decide how run r ends, on the container its row records.
Drives(l, r) ==
  /\ lives[l].run = r
  /\ lives[l].pc \in Undecided
  /\ runs[r].container \in {None, lives[l].ctr}

\* A row that says starting, running or waiting is not a ghost: some life is
\* going to overwrite it, on the recorded container, or recover() still has it
\* on its list.  Holds with several lives marking the same row, through id
\* reuse, failed boots and crashes, as long as listByState lists every row.
LiveRowHasDriver ==
  \A r \in Runs :
    server # "down" /\ runs[r].state \in Live
      => r \in toRecover \/ \E l \in Lives : Drives(l, r)

\* A resume() that has not yet marked the row.
Resuming(l, r) == /\ lives[l].run = r /\ lives[l].kind = "resume"
                  /\ lives[l].pc \in {"creating", "starting"}

\* No run sleeps for ever: something in the server's memory is going to resume
\* a run that awaits its rate-limit reset, whoever disarmed its timer.
AwaitingHasWakeup ==
  \A r \in Runs :
    server = "up" /\ runs[r].state = "awaiting_resume"
      => r \in timers \cup fires \/ \E l \in Lives : Resuming(l, r)

\* getLiveContainer() and the terminal never act on a container that no life
\* tends, although lives of the same run overwrite and delete one entry.
ActiveIsTended ==
  \A r \in Runs :
    active[r] # None
      => \E l \in Lives :
           /\ lives[l].run = r /\ lives[l].ctr = active[r]
           /\ lives[l].pc \in Watching \cup {"backfilling"}

\* Only a Continue revives a run whose outcome is recorded, however late the
\* marks of an older life arrive.
OnlyContinueRevives ==
  [][\A r \in Runs :
       /\ runs[r].state \in Terminal
       /\ runs[r]'.state \in Live \cup {"awaiting_resume", "queued"}
       => \E l \in Lives :
            /\ lives[l].pc = "free"
            /\ lives[l]'.kind = "continue" /\ lives[l]'.run = r]_vars

\* Each row, as its readers see it, obeys the transitions of RunSpec: the
\* conjunction of Seen(r)!Spec over the runs.
Seen(r) == INSTANCE RunSpec WITH state <- runs[r].state,
                                 attempts <- runs[r].attempts
ImplementsRunSpec ==
  /\ \A r \in Runs : Seen(r)!Init
  /\ [][\A r \in Runs : [Seen(r)!Next]_(Seen(r)!run)]_vars

\* A run that awaits its reset is resumed, fails or is cancelled in the end,
\* also when the server crashes between any two steps.
AwaitingIsServed ==
  \A r \in Runs :
    runs[r].state = "awaiting_resume" ~> runs[r].state # "awaiting_resume"

\* Once the recorded container has exited the row lets go of it, also when the
\* server dies between the exit and the outcome.
ExitIsRecorded ==
  \A r \in Runs, c \in Containers :
    runs[r].container = c /\ containers[c] = "exited"
      ~> runs[r].container # c

\* stop() was rejected: cancel() has returned, and the agent works on.
StopRejected(r, c) ==
  stopping[c] = 0 /\ r \in cancelled /\ containers[c] = "running"

\* A cancel of a running run ends it, whether or not the agent would ever have
\* exited, unless the server dies first or Docker refuses to stop the container:
\* then the intent is on record and nothing else has happened.
CancelEndsRun ==
  \A r \in Runs, c \in Containers :
    stopping[c] = r /\ runs[r].container = c
      ~> runs[r].container # c \/ server = "down" \/ StopRejected(r, c)

===============================================================================
