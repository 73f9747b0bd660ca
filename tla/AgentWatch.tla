------------------------------- MODULE AgentWatch -------------------------------
(***************************************************************************)
(* What the orchestrator knows of an agent it cannot ask: the limit        *)
(* monitor, the watchers of the state directory, and the verdict on the    *)
(* log when the container has stopped.                                     *)
(*                                                                         *)
(* One run, one life after the other (RunLifecycle has the overlaps).      *)
(* There is no clock: `up`, `quiet` and `still` are ages that Tick lets    *)
(* grow to the window they are compared with, and a reset time is the      *)
(* distance from now.  A chunk of terminal output is what the patterns     *)
(* make of it.                                                             *)
(***************************************************************************)
EXTENDS Integers, Sequences, FiniteSets, SequencesExt

CONSTANTS
  None,
  Kinds,        \* of terminal output, a subset of LimitPhrases and two more
  Names,        \* what the agent may call its session
  Warmup, Idle, \* windows of the monitor, in ticks
  BufLen,       \* chunks in the monitor's buffer (16 KB)
  TailLen,      \* chunks in the tail classify() reads (8 KB)
  Minute, FiveMinutes, Day,
  MaxAttempts,  \* auto_resume_max_attempts
  MaxLives, MaxCrashes, MaxMoves,  \* bounds of the model
  Toggles       \* may auto_resume_enabled be changed?

\* What containsLimitSignal() accepts: the pattern with an epoch, and the two
\* with a time for people.  "lenient" only matches RE_LENIENT.
LimitPhrases == {"epoch", "human"}

KindsAssumption == Kinds \subseteq LimitPhrases \cup {"lenient", "plain"}
WindowsAssumption ==
  /\ Warmup \in Nat \ {0} /\ Idle \in Nat \ {0}
  /\ BufLen \in Nat \ {0} /\ TailLen \in Nat \ {0} /\ TailLen <= BufLen
TimesAssumption ==
  /\ Minute \in Nat \ {0} /\ FiveMinutes \in Nat /\ Day \in Nat
  /\ Minute <= FiveMinutes /\ FiveMinutes <= Day /\ None \notin 0..Day
BoundsAssumption ==
  /\ MaxAttempts \in Nat /\ MaxLives \in Nat /\ MaxCrashes \in Nat /\ MaxMoves \in Nat
  /\ Toggles \in BOOLEAN /\ None \notin Names \cup {"starting", "running", "waiting"}

VARIABLES
  life,        \* kind, and the await its activation is at
  agent,       \* what the process in the container does
  sentinels,   \* files of the state directory: "waiting", "prompted"
  named,       \* content of session-name
  still,       \* age of the last growth of a transcript
  grown,       \* did a transcript grow since the monitor looked?
  monitor,     \* LimitMonitor of the life
  nudge,       \* timers of nudgeClaudeToExit, and the Ctrl-C the agent has had
  limitFired, cancelled,           \* the maps, for this run
  watcher,     \* RuntimeStateWatcher: last, and whether it runs
  emitted,     \* TitleWatcher.lastEmitted
  row,         \* state, wake, attempts, title, title_locked
  tail,        \* end of the run's log
  auto,        \* settings.auto_resume_enabled
  lost,        \* did a sentinel come before the first poll of a launch?
  lives, crashes, moves            \* counters of the bounds

vars == <<life, agent, sentinels, named, still, grown, monitor, nudge,
          limitFired, cancelled, watcher, emitted, row, tail, auto, lost,
          lives, crashes, moves>>

lifeVars == <<life, lives, crashes>>
fileVars == <<sentinels, named>>
watchVars == <<watcher, emitted, lost>>
flagVars == <<limitFired, cancelled>>

NoMonitor == [on |-> FALSE, fired |-> FALSE, up |-> 0, quiet |-> 0, buf |-> <<>>]
NoNudge == [second |-> FALSE, kill |-> FALSE, ctrlC |-> 0]
NoWatcher == [on |-> FALSE, last |-> None]

Init ==
  /\ life = [kind |-> None, pc |-> "none"]
  /\ agent = "none" /\ sentinels = {} /\ named = None
  /\ still = 0 /\ grown = FALSE
  /\ monitor = NoMonitor /\ nudge = NoNudge
  /\ limitFired = FALSE /\ cancelled = FALSE
  /\ watcher = NoWatcher /\ emitted = None
  /\ row = [state |-> "queued", wake |-> None, attempts |-> 0,
            title |-> None, title_locked |-> FALSE]
  /\ tail = <<>> /\ auto = TRUE /\ lost = FALSE
  /\ lives = 0 /\ crashes = 0 /\ moves = 0

-----------------------------------------------------------------------------
\* classify() and what the patterns see

Newest(s, n) == SubSeq(s, IF Len(s) > n THEN Len(s) - n + 1 ELSE 1, Len(s))

containsLimitSignal(buf) == ToSet(buf) \cap LimitPhrases # {}

\* A verdict is the time to wait, or None for "other".
sanityClamp(ms) ==
  CASE ms > Day  -> None
    [] ms <= 0   -> Minute
    [] OTHER     -> ms

\* The snapshot of the usage tailer: None, or what remains and until when.
classifyFromState(snap) ==
  IF snap # None /\ snap.zero /\ snap.reset \in 1..Day THEN snap.reset ELSE None

\* Today at that hour, as a distance from now: `clock` is the time in the zone of the
\* message, or the host's where the zone is an abbreviation.
resolveLocalTimeToUtc(clock, hour) == hour - clock

\* All that a text may come to, None when its form is another.
parseHumanResetTime ==
  {None} \cup {resolveLocalTimeToUtc(clock, hour) : clock, hour \in 0..Day - 1}

\* The reset time in the text.  An epoch may be long past, or days ahead.
Told(kinds) ==
  IF "epoch" \in kinds THEN {0, 1, Day + 1}
  ELSE IF "human" \in kinds THEN parseHumanResetTime
  ELSE {None}

classify(kinds, ms, snap) ==
  IF ms # None THEN sanityClamp(ms)
  ELSE IF classifyFromState(snap) # None THEN classifyFromState(snap)
  ELSE IF kinds \cap {"human", "lenient"} # {} THEN FiveMinutes
  ELSE None

\* Mutant: only the log is believed.
LogOnly(verdict) == verdict

\* limitFired is believed even when the phrase has left the tail.
Believed(verdict) == IF limitFired /\ verdict = None THEN FiveMinutes ELSE verdict

Snaps == {None} \cup [zero : BOOLEAN, reset : {0, 1, Day + 1}]

\* Only launch() and reattach() start a usage tailer: a resumed or continued
\* life has no snapshot.
SnapsOf(kind) == IF kind = "launch" THEN Snaps ELSE {None}

-----------------------------------------------------------------------------
\* The row

Live == {"starting", "running", "waiting"}
Final == {"succeeded", "failed", "cancelled"}

Marked(st) == [row EXCEPT !.state = st]
markRunning == IF row.state \in {"starting", "waiting"} THEN Marked("running") ELSE row
markWaiting == IF row.state \in {"starting", "running"} THEN Marked("waiting") ELSE row

\* What the sentinels say, waiting before prompted.
Derived(files) ==
  IF "waiting" \in files THEN "waiting"
  ELSE IF "prompted" \in files THEN "running" ELSE "starting"

OnChange(seen) ==
  CASE seen = "running" -> markRunning
    [] seen = "waiting" -> markWaiting
    [] OTHER -> row

\* readOnce(): silent unless what it derives has changed.
Polled(last, files) == IF Derived(files) = last THEN row ELSE OnChange(Derived(files))

\* updateTitle with respectLock.
Titled(r, t) == IF t = None \/ r.title_locked THEN r ELSE [r EXCEPT !.title = t]

-----------------------------------------------------------------------------
\* Lives: launch, resume, continueRun, reattach

Watched == life.pc = "watched"

\* The life has attached to its container and awaits container.start(); the
\* monitor already hears.
Boot(kind) ==
  /\ life.pc = "none" /\ lives < MaxLives
  /\ CASE kind = "launch"   -> row.state = "queued" /\ UNCHANGED row
       [] kind = "resume"   -> row.state = "awaiting_resume" /\ UNCHANGED row
       [] kind = "continue" -> /\ row.state \in {"succeeded", "failed", "cancelled"}
                               /\ row' = [row EXCEPT !.state = "starting", !.attempts = 0, !.wake = None]
  /\ life' = [kind |-> kind, pc |-> "starting"]
  /\ agent' = "booting"
  /\ monitor' = NoMonitor /\ nudge' = NoNudge
  /\ watcher' = NoWatcher /\ emitted' = None /\ lost' = FALSE
  /\ lives' = lives + 1
  /\ UNCHANGED <<fileVars, still, grown, flagVars, tail, auto, crashes, moves>>

\* Mutant: resume() and continueRun() keep the sentinels of the last life.
ClearedNever(kind) == sentinels

\* clearRuntimeSentinels: not in launch(), whose directory is new.
Cleared(kind) == IF kind = "launch" THEN sentinels ELSE {}

\* start() has resolved: the monitor starts, the watcher's first poll comes
\* before the row is marked starting.
Started ==
  /\ life.pc = "starting"
  /\ life' = [life EXCEPT !.pc = "watched"]
  /\ monitor' = [monitor EXCEPT !.on = TRUE, !.up = 0, !.quiet = 0]
  /\ grown' = FALSE
  /\ sentinels' = Cleared(life.kind)
  /\ watcher' = [on |-> TRUE, last |-> Derived(sentinels')]
  /\ lost' = (life.kind = "launch" /\ Derived(sentinels') # "starting")
  /\ row' = LET polled == Polled(None, sentinels')
            IN  [polled EXCEPT !.state = "starting", !.wake = None]
  /\ UNCHANGED <<agent, named, still, nudge, flagVars, emitted, tail, auto, lives, crashes,
                 moves>>

\* A crash takes the timers, the monitor and the flags; the container goes on.
Crash ==
  /\ Watched /\ crashes < MaxCrashes
  /\ life' = [life EXCEPT !.pc = "down"] /\ crashes' = crashes + 1
  /\ monitor' = NoMonitor /\ nudge' = [NoNudge EXCEPT !.ctrlC = nudge.ctrlC]
  /\ limitFired' = FALSE /\ cancelled' = FALSE
  /\ watcher' = NoWatcher /\ emitted' = None
  /\ UNCHANGED <<agent, fileVars, still, grown, row, tail, auto, lost, lives, moves>>

\* reattach(): a new monitor that has heard nothing, and a first poll that
\* finds the row as the old life left it.
Reattached ==
  /\ life.pc = "down"
  /\ life' = [kind |-> "reattach", pc |-> "watched"]
  /\ monitor' = [NoMonitor EXCEPT !.on = TRUE] /\ grown' = FALSE
  /\ watcher' = [on |-> TRUE, last |-> Derived(sentinels)]
  /\ row' = Polled(None, sentinels) /\ lost' = FALSE
  /\ UNCHANGED <<agent, fileVars, still, nudge, flagVars, emitted, tail, auto, lives,
                 crashes, moves>>

-----------------------------------------------------------------------------
\* The agent, from the supervisor's start of claude to its exit

Moves == moves < MaxMoves /\ moves' = moves + 1
Alive == agent \in {"working", "waiting", "stuck"}
AgentOnly == UNCHANGED <<lifeVars, monitor, flagVars, watchVars, auto, row>>

\* A fresh life is prompted by the supervisor, a resumed one waits.
ClaudeStarts ==
  /\ agent = "booting"
  /\ IF life.kind = "launch"
     THEN agent' = "working" /\ sentinels' = sentinels \cup {"prompted"}
     ELSE agent' = "waiting" /\ sentinels' = sentinels \cup {"waiting"}
  /\ UNCHANGED <<named, still, grown, nudge, tail, moves>> /\ AgentOnly

\* The hooks of buildClaudeSettingsJson.
UserPromptSubmit ==
  /\ agent \in {"waiting", "stuck"} /\ Moves
  /\ agent' = "working"
  /\ sentinels' = (sentinels \ {"waiting"}) \cup {"prompted"}
  /\ UNCHANGED <<named, still, grown, nudge, tail>> /\ AgentOnly

Stop ==
  /\ agent = "working"
  /\ agent' = "waiting" /\ sentinels' = sentinels \cup {"waiting"}
  /\ UNCHANGED <<named, still, grown, nudge, tail, moves>> /\ AgentOnly

\* A message of the session is written to a transcript.
TranscriptGrows ==
  /\ agent = "working" /\ still' = 0 /\ grown' = TRUE
  /\ ~(still = 0 /\ grown)
  /\ UNCHANGED <<agent, fileVars, nudge, tail, moves>> /\ AgentOnly

\* Terminal output goes to the monitor, unless it has fired, and to the log;
\* while the server is down, nobody reads it.
Heard(k) ==
  IF life.pc = "down" THEN UNCHANGED <<tail, monitor>>
  ELSE /\ tail' = Newest(Append(tail, k), TailLen)
       /\ monitor' = IF monitor.fired THEN monitor
                     ELSE [monitor EXCEPT !.buf = Newest(Append(@, k), BufLen)]

Prints(k) ==
  /\ Alive /\ Moves /\ Heard(k)
  /\ UNCHANGED <<agent, fileVars, still, grown, nudge, lifeVars, flagVars, watchVars, auto,
                 row>>

\* The limit is reached: the TUI says so and waits.
HitsLimit(k) ==
  /\ agent = "working" /\ k \in LimitPhrases
  /\ agent' = "stuck" /\ Heard(k)
  /\ UNCHANGED <<fileVars, still, grown, nudge, lifeVars, flagVars, watchVars, auto, row,
                 moves>>

NamesSession(n) ==
  /\ agent = "working" /\ n # named /\ Moves
  /\ named' = n
  /\ UNCHANGED <<agent, sentinels, still, grown, nudge, tail>> /\ AgentOnly

\* On its own, or because it was told to twice.
Exits ==
  /\ Alive \/ agent = "booting"
  /\ agent' = "gone"
  /\ UNCHANGED <<fileVars, still, grown, nudge, tail, moves>> /\ AgentOnly

-----------------------------------------------------------------------------
\* Timers

Tick ==
  /\ still' = IF still < Idle THEN still + 1 ELSE still
  /\ monitor' = IF monitor.on
                THEN [monitor EXCEPT !.up = IF @ < Warmup THEN @ + 1 ELSE @,
                                     !.quiet = IF @ < Idle THEN @ + 1 ELSE @]
                ELSE monitor
  /\ <<still', monitor'>> # <<still, monitor>>
  /\ UNCHANGED <<agent, fileVars, grown, nudge, lifeVars, flagVars, watchVars, row, tail,
                 auto, moves>>

\* Mutant: the size of the transcripts is not looked at.
NotedNever(m) == m

\* lastActivityAt after the look at the transcripts.
Noted(m) == IF grown THEN [m EXCEPT !.quiet = 0] ELSE m

Convinced(m) == m.up = Warmup /\ m.quiet = Idle /\ containsLimitSignal(m.buf)

\* LimitMonitor.check, onDetect and nudgeClaudeToExit: with auto-resume off,
\* the monitor has fired and nothing else happens.
Check ==
  /\ monitor.on /\ ~monitor.fired
  /\ grown' = FALSE
  /\ LET m == Noted(monitor) IN
       IF Convinced(m)
       THEN /\ monitor' = [m EXCEPT !.fired = TRUE, !.on = FALSE]
            /\ IF auto
               THEN /\ limitFired' = TRUE
                    /\ nudge' = [second |-> TRUE, kill |-> TRUE, ctrlC |-> 1]
               ELSE UNCHANGED <<limitFired, nudge>>
       ELSE monitor' = m /\ UNCHANGED <<limitFired, nudge>>
  /\ UNCHANGED <<agent, fileVars, still, lifeVars, cancelled, watchVars, row, tail, auto,
                 moves>>

SecondCtrlC ==
  /\ nudge.second
  /\ nudge' = [nudge EXCEPT !.second = FALSE, !.ctrlC = 2]
  /\ UNCHANGED <<agent, fileVars, still, grown, monitor, lifeVars, flagVars, watchVars, row,
                 tail, auto, moves>>

\* Mutant: there is no last resort.
NotKilled(a) == a

\* Whatever the two Ctrl-C did, the container is killed 30 s later.
Killed(a) == IF a = "none" THEN a ELSE "gone"

KillFires ==
  /\ nudge.kill /\ ~nudge.second
  /\ nudge' = [nudge EXCEPT !.kill = FALSE]
  /\ agent' = Killed(agent)
  /\ UNCHANGED <<fileVars, still, grown, monitor, lifeVars, flagVars, watchVars, row, tail,
                 auto, moves>>

PollSentinels ==
  /\ watcher.on /\ watcher.last # Derived(sentinels)
  /\ row' = Polled(watcher.last, sentinels)
  /\ watcher' = [watcher EXCEPT !.last = Derived(sentinels)]
  /\ lost' = FALSE
  /\ UNCHANGED <<agent, fileVars, still, grown, monitor, nudge, lifeVars, flagVars, emitted,
                 tail, auto, moves>>

PollTitle ==
  /\ life.pc \in {"watched", "removing"} /\ named \notin {None, emitted}
  /\ emitted' = named /\ row' = Titled(row, named)
  /\ UNCHANGED <<agent, fileVars, still, grown, monitor, nudge, lifeVars, flagVars, watcher,
                 lost, tail, auto, moves>>

-----------------------------------------------------------------------------
\* The end of a life

\* awaitAndComplete() from wait() to the row, the branch of the rate limit.
\* `clean` is the result file's verdict; reattach() has no such branch.
MayResume(clean) == (~clean \/ limitFired) /\ ~cancelled /\ auto /\ life.kind # "reattach"

TerminalState(clean) ==
  IF cancelled THEN "cancelled" ELSE IF clean THEN "succeeded" ELSE "failed"

\* result.json repeats the session name.
Complete(clean, ms, snap) ==
  /\ Watched /\ agent = "gone"
  /\ LET verdict == Believed(classify(ToSet(tail), ms, snap))
         suspends == MayResume(clean) /\ verdict # None
     IN  row' = IF suspends /\ row.attempts < MaxAttempts
                THEN [row EXCEPT !.state = "awaiting_resume", !.wake = verdict, !.attempts = @ + 1]
                ELSE [Titled(row, named) EXCEPT
                        !.state = IF suspends THEN "failed" ELSE TerminalState(clean),
                        !.wake = None]
  /\ cancelled' = FALSE
  /\ life' = [life EXCEPT !.pc = "removing"]
  /\ UNCHANGED <<agent, fileVars, still, grown, monitor, nudge, limitFired, watchVars, tail,
                 auto, lives, crashes, moves>>

\* stop() of the title and branch watchers reads once more.
FinalRead(r) == IF named # emitted THEN Titled(r, named) ELSE r

\* remove() has returned.  awaitAndComplete() forgets the flag, reattach()
\* keeps it; a nudge that is still pending meets a container that is gone.
WatchersStop ==
  /\ life.pc = "removing"
  /\ life' = [kind |-> None, pc |-> "none"]
  /\ agent' = "none" /\ nudge' = NoNudge
  /\ limitFired' = (limitFired /\ life.kind = "reattach")
  /\ row' = FinalRead(row)
  /\ monitor' = NoMonitor /\ watcher' = NoWatcher /\ emitted' = None
  /\ UNCHANGED <<fileVars, still, grown, cancelled, lost, tail, auto, lives, crashes, moves>>

-----------------------------------------------------------------------------
\* The user

\* cancel() records the intent whether or not Docker has stopped the container.
Cancel ==
  /\ Watched /\ Alive /\ Moves
  /\ cancelled' = TRUE /\ agent' \in {"gone", agent}
  /\ UNCHANGED <<lifeVars, fileVars, still, grown, monitor, nudge, limitFired, watchVars,
                 row, tail, auto>>

Rename ==
  /\ Moves /\ ~row.title_locked
  /\ row' = [row EXCEPT !.title = "theirs", !.title_locked = TRUE]
  /\ UNCHANGED <<lifeVars, agent, fileVars, still, grown, monitor, nudge, flagVars,
                 watchVars, tail, auto>>

SetAuto ==
  /\ Toggles /\ Moves /\ auto' = ~auto
  /\ UNCHANGED <<lifeVars, agent, fileVars, still, grown, monitor, nudge, flagVars,
                 watchVars, row, tail>>

-----------------------------------------------------------------------------
Next ==
  \/ \E kind \in {"launch", "resume", "continue"} : Boot(kind)
  \/ Started \/ Crash \/ Reattached
  \/ ClaudeStarts \/ UserPromptSubmit \/ Stop \/ TranscriptGrows \/ Exits
  \/ \E k \in Kinds : Prints(k) \/ HitsLimit(k)
  \/ \E n \in Names : NamesSession(n)
  \/ Tick \/ Check \/ SecondCtrlC \/ KillFires \/ PollSentinels \/ PollTitle
  \/ \E clean \in BOOLEAN, ms \in Told(ToSet(tail)), snap \in SnapsOf(life.kind) :
       Complete(clean, ms, snap)
  \/ WatchersStop \/ Cancel \/ Rename \/ SetAuto

Spec == Init /\ [][Next]_vars

\* The timers of the server fire and its awaits return; the agent and the user
\* owe nothing.
Fairness ==
  /\ WF_vars(Tick) /\ WF_vars(Check) /\ WF_vars(SecondCtrlC) /\ WF_vars(KillFires)
  /\ WF_vars(PollSentinels) /\ WF_vars(PollTitle)

FairSpec == Spec /\ Fairness

-----------------------------------------------------------------------------
TypeOK ==
  /\ life \in [kind : {None, "launch", "resume", "continue", "reattach"},
               pc : {"none", "starting", "watched", "removing", "down"}]
  /\ agent \in {"none", "booting", "working", "waiting", "stuck", "gone"}
  /\ sentinels \subseteq {"waiting", "prompted"} /\ named \in Names \cup {None}
  /\ still \in 0..Idle /\ grown \in BOOLEAN
  /\ monitor.up \in 0..Warmup /\ monitor.quiet \in 0..Idle
  /\ monitor.buf \in BoundedSeq(Kinds, BufLen) /\ tail \in BoundedSeq(Kinds, TailLen)
  /\ nudge \in [second : BOOLEAN, kill : BOOLEAN, ctrlC : 0..2]
  /\ limitFired \in BOOLEAN /\ cancelled \in BOOLEAN
  /\ watcher \in [on : BOOLEAN, last : {None, "starting", "running", "waiting"}]
  /\ emitted \in Names \cup {None}
  /\ row \in [state : Live \cup Final \cup {"queued", "awaiting_resume"}, wake : 1..Day \cup {None},
              attempts : 0..MaxAttempts, title : Names \cup {None, "theirs"}, title_locked : BOOLEAN]

\* limitMonitor.ts:24-35, "clearly stuck": the agent is interrupted only when
\* no transcript has grown for the whole idle window, whatever the order of
\* growth, ticks, checks, restarts and crashes.
NeverInterruptsWork ==
  [][nudge'.ctrlC = 1 /\ nudge.ctrlC # 1 => still = Idle /\ ~(agent = "working" /\ grown)]_vars

\* orchestrator/index.ts:516-540: a run the monitor has nudged is suspended
\* with a reset time ahead, even when the phrase has left the log's tail or
\* carries a time of the past; or it has used up its attempts.  Lives that
\* reattach() tends are the exception README.md tells of.
NudgedRunSuspends ==
  [][/\ life.pc = "watched" /\ life'.pc = "removing"
     /\ monitor.fired /\ limitFired /\ auto /\ ~cancelled /\ life.kind # "reattach"
     => \/ row'.state = "awaiting_resume" /\ row'.wake \in 1..Day
        \/ row.attempts = MaxAttempts /\ row'.state = "failed"]_vars

\* A life that says waiting or running says what the sentinels last said: no
\* sentinel of an earlier life or turn is taken for news, and none is missed.
\* `lost` is the one exception: a launch whose agent is quicker than start().
RowFollowsSentinels ==
  watcher.on /\ row.state \in Live /\ ~lost => row.state = watcher.last

\* An agent whose limit message the monitor has heard does not stay stuck: it
\* is nudged, and killed if that does not help, unless the server is down,
\* auto-resume is off, or the message has scrolled away.
StuckEnds ==
  (Watched /\ agent = "stuck" /\ ~monitor.fired /\ containsLimitSignal(monitor.buf))
    ~> (agent # "stuck" \/ ~auto \/ life.pc = "down" \/ ~containsLimitSignal(monitor.buf))

\* The name the agent gave its session last is the title when its life is over,
\* also one it wrote between the last poll and its exit, unless the user has
\* chosen a title.
NameIsKept ==
  life.pc = "none" /\ lives > 0 /\ named # None /\ ~row.title_locked => row.title = named

\* The row says what the agent's files say: its state while the run is watched,
\* its title once the life is over.
RowFollowsFiles == RowFollowsSentinels /\ NameIsKept

===============================================================================
