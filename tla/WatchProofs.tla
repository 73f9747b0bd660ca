------------------------------ MODULE WatchProofs ------------------------------
(***************************************************************************)
(* What the server observes of an agent, for any windows, buffers and      *)
(* times, any names and chunks of output, any number of lives, lines and   *)
(* crashes.                                                                *)
(*                                                                         *)
(* NeverInterruptsWork needs QuietIsStill: the monitor's window is never   *)
(* longer than the time since a transcript grew, unless one has grown that *)
(* the monitor has not looked at yet.  NudgedRunSuspends needs that every  *)
(* verdict is a time that is worth waiting for, or none, and that the flag *)
(* of the nudge outlives a tail that says nothing.  RowFollowsFiles needs  *)
(* that an agent which has spoken in this life has left its sentinel, and  *)
(* that the title recorded is the last one emitted, or the one result.json *)
(* repeated.  LifeCounted needs that the lines before the tailer's offset  *)
(* are counted, and that its carried half is the half line before the      *)
(* offset.                                                                 *)
(***************************************************************************)
EXTENDS MCWatch, SequenceTheorems, TLAPS

\* The agent moves by its own steps, or not at all.
LEMMA AgentFrame == [Next]_vars => [Agent!Next]_(Agent!vars)
BY DEF Next, vars, agentVars, Agent!vars, Agent!lifeVars

\* So does the tailer.
LEMMA TailerFrame == [Next]_vars => [Tailer!Next]_(Tailer!vars)
BY DEF Next, vars, tailerVars, Tailer!vars

-----------------------------------------------------------------------------
Monitor ==
  [on : BOOLEAN, fired : BOOLEAN, up : 0..Warmup, quiet : 0..Idle, buf : Seq(Kinds)]

Nudge == [second : BOOLEAN, kill : BOOLEAN, ctrlC : {0, 1, 2}]

Titles == Names \cup {None, "theirs"}

RowType ==
  [state : Agent!Live \cup Agent!Final \cup {"queued", "awaiting_resume"},
   wake : 1..Day \cup {None},
   attempts : 0..MaxAttempts, title : Titles, title_locked : BOOLEAN]

\* The shapes of what the two properties read.
Shapes ==
  /\ still \in 0..Idle /\ grown \in BOOLEAN
  /\ monitor \in Monitor /\ nudge \in Nudge
  /\ named \in Names \cup {None} /\ row \in RowType

QuietIsStill == grown \/ monitor.quiet <= still

WatchInv == Shapes /\ QuietIsStill

AgentAssumption ==
  /\ Agent!KindsAssumption /\ Agent!WindowsAssumption
  /\ Agent!TimesAssumption /\ Agent!BoundsAssumption

-----------------------------------------------------------------------------
\* A buffer keeps the newest of its chunks.
LEMMA NewestIsSeq ==
  ASSUME NEW s \in Seq(Kinds), NEW k \in Kinds, NEW n \in Nat
  PROVE  Agent!Newest(Append(s, k), n) \in Seq(Kinds)
<1> DEFINE t == Append(s, k)
<1>1. t \in Seq(Kinds)
  OBVIOUS
<1> HIDE DEF t
<1>2. Len(t) \in Nat /\ \A i \in 1..Len(t) : t[i] \in Kinds
  BY <1>1, ElementOfSeq, LenProperties
<1> DEFINE m == IF Len(t) > n THEN Len(t) - n + 1 ELSE 1
<1>3. m \in Int /\ m >= 1
  BY <1>2
<1> HIDE DEF m
<1>4. \A i \in m..Len(t) : t[i] \in Kinds
  BY <1>2, <1>3
<1>5. SubSeq(t, m, Len(t)) \in Seq(Kinds)
  BY <1>2, <1>3, <1>4, SubSeqProperties
<1> QED BY <1>5 DEF Agent!Newest, t, m

\* The monitor hears a chunk.
LEMMA HeardMonitor ==
  ASSUME Agent!WindowsAssumption, monitor \in Monitor, NEW k \in Kinds, Agent!Heard(k)
  PROVE  monitor' \in Monitor /\ monitor'.quiet = monitor.quiet
<1>1. CASE life.pc = "down" \/ monitor.fired
  BY <1>1 DEF Agent!Heard, Monitor
<1>2. CASE life.pc # "down" /\ ~monitor.fired
  <2> DEFINE new == Agent!Newest(Append(monitor.buf, k), BufLen)
  <2>1. new \in Seq(Kinds)
    BY NewestIsSeq DEF Agent!WindowsAssumption, Monitor
  <2>2. monitor' = [monitor EXCEPT !.buf = new]
    BY <1>2 DEF Agent!Heard
  <2> HIDE DEF new
  <2> QED BY <2>1, <2>2 DEF Monitor
<1> QED BY <1>1, <1>2

\* The marks and the titles keep a row a row.
LEMMA RowMarks ==
  ASSUME row \in RowType
  PROVE  /\ \A files : Agent!Polled(None, files) \in RowType
         /\ \A last, files : Agent!Polled(last, files) \in RowType
         /\ \A r \in RowType, t \in Names \cup {None} : Agent!Titled(r, t) \in RowType
<1>1. Agent!markRunning \in RowType /\ Agent!markWaiting \in RowType
  BY DEF Agent!markRunning, Agent!markWaiting, Agent!Marked, RowType, Agent!Live
<1>2. \A seen : Agent!OnChange(seen) \in RowType
  BY <1>1 DEF Agent!OnChange
<1>3. \A r \in RowType, t \in Names \cup {None} : Agent!Titled(r, t) \in RowType
  BY DEF Agent!Titled, RowType, Titles
<1> QED BY <1>2, <1>3 DEF Agent!Polled

-----------------------------------------------------------------------------
\* What a text tells is a time or none.
LEMMA ToldIsTime ==
  ASSUME NEW kinds, NEW ms \in Agent!Told(kinds), Agent!TimesAssumption
  PROVE  ms \in Int \/ ms = None
<1>1. \A x \in Agent!parseHumanResetTime : x \in Int \/ x = None
  <2>1. \A clock, hour \in 0..Day - 1 : hour - clock \in Int
    BY DEF Agent!TimesAssumption
  <2> QED BY <2>1 DEF Agent!parseHumanResetTime, Agent!resolveLocalTimeToUtc
<1>2. Day + 1 \in Int
  BY DEF Agent!TimesAssumption
<1> QED BY <1>1, <1>2 DEF Agent!Told

\* A verdict is a time between a minute and a day, or none.
LEMMA VerdictIsAhead ==
  ASSUME Agent!TimesAssumption, NEW kinds, NEW ms, ms \in Int \/ ms = None, NEW snap
  PROVE  Agent!classify(kinds, ms, snap) \in 1..Day \cup {None}
<1>1. FiveMinutes \in 1..Day /\ Minute \in 1..Day /\ Day \in Nat
  BY DEF Agent!TimesAssumption
<1>2. CASE ms # None
  <2>1. Agent!sanityClamp(ms) \in 1..Day \cup {None}
    BY <1>1, <1>2 DEF Agent!sanityClamp
  <2> QED BY <1>2, <2>1 DEF Agent!classify
<1>3. CASE ms = None
  <2>1. Agent!classifyFromState(snap) \in 1..Day \cup {None}
    BY DEF Agent!classifyFromState
  <2> QED BY <1>1, <1>3, <2>1 DEF Agent!classify
<1> QED BY <1>2, <1>3

\* The nudge is believed where the text says nothing.
LEMMA BelievedIsAhead ==
  ASSUME Agent!TimesAssumption, NEW verdict \in 1..Day \cup {None}
  PROVE  /\ Agent!Believed(verdict) \in 1..Day \cup {None}
         /\ limitFired => Agent!Believed(verdict) \in 1..Day
BY DEF Agent!Believed, Agent!TimesAssumption

-----------------------------------------------------------------------------
LEMMA WatchInit ==
  ASSUME AgentAssumption, Agent!Init
  PROVE  WatchInv
<1>1. Agent!NoMonitor \in Monitor
  BY DEF AgentAssumption, Agent!WindowsAssumption, Agent!NoMonitor, Monitor
<1>2. Agent!NoNudge \in Nudge
  BY DEF Agent!NoNudge, Nudge
<1>3. row \in RowType
  BY DEF AgentAssumption, Agent!BoundsAssumption, Agent!Init, RowType, Titles
<1>4. still \in 0..Idle /\ monitor.quiet = 0 /\ still = 0
  BY DEF AgentAssumption, Agent!WindowsAssumption, Agent!Init, Agent!NoMonitor
<1>5. /\ grown \in BOOLEAN /\ named \in Names \cup {None}
      /\ monitor \in Monitor /\ nudge \in Nudge
  BY <1>1, <1>2 DEF Agent!Init
<1>6. monitor.quiet <= still
  BY <1>4
<1> QED BY <1>3, <1>4, <1>5, <1>6 DEF WatchInv, Shapes, QuietIsStill

\* What leaves the windows, the row and the names as they are.
LEMMA OthersLeaveWatch ==
  ASSUME WatchInv, still' = still, grown' = grown, named' = named, row' = row,
         nudge' \in Nudge, monitor' \in Monitor, monitor'.quiet = monitor.quiet
  PROVE  WatchInv'
BY DEF WatchInv, Shapes, QuietIsStill

\* What touches the row only.
LEMMA RowOnly ==
  ASSUME WatchInv, UNCHANGED <<still, grown, named, nudge, monitor>>, row' \in RowType
  PROVE  WatchInv'
BY DEF WatchInv, Shapes, QuietIsStill

\* A monitor that has heard nothing yet.
LEMMA FreshMonitor ==
  ASSUME AgentAssumption
  PROVE  Agent!NoMonitor \in Monitor /\ Agent!NoMonitor.quiet = 0 /\ Agent!NoNudge \in Nudge
BY DEF AgentAssumption, Agent!WindowsAssumption, Agent!NoMonitor, Monitor, Agent!NoNudge,
   Nudge

\* A life that begins or ends, and a crash, set the window back.
LEMMA LifeStep ==
  ASSUME AgentAssumption, WatchInv, NEW kind \in {"launch", "resume", "continue"},
         \/ Agent!Boot(kind) \/ Agent!Started \/ Agent!Crash
         \/ Agent!Reattached \/ Agent!WatchersStop
  PROVE  WatchInv'
<1>0. /\ Agent!NoMonitor \in Monitor /\ Agent!NoMonitor.quiet = 0 /\ Agent!NoNudge \in Nudge
      /\ still \in 0..Idle /\ monitor \in Monitor /\ nudge \in Nudge /\ row \in RowType
      /\ named \in Names \cup {None} /\ grown \in BOOLEAN
      /\ 0 \in 0..Idle /\ 0 \in 0..Warmup /\ 0 \in 0..MaxAttempts /\ 0 <= still
  BY FreshMonitor DEF AgentAssumption, Agent!WindowsAssumption, Agent!BoundsAssumption,
     WatchInv, Shapes
<1>1. CASE Agent!Boot(kind)
  <2>1. row' = row \/ row' = [row EXCEPT !.state = "starting", !.attempts = 0, !.wake = None]
    BY <1>1 DEF Agent!Boot
  <2>2. row' \in RowType
    <3>1. CASE row' = row
      BY <1>0, <3>1
    <3>2. CASE row' = [row EXCEPT !.state = "starting", !.attempts = 0, !.wake = None]
      BY <1>0, <3>2 DEF RowType, Agent!Live
    <3> QED BY <2>1, <3>1, <3>2
  <2>3. monitor' = Agent!NoMonitor /\ nudge' = Agent!NoNudge /\ UNCHANGED <<named, still,
                                                                            grown>>
    BY <1>1 DEF Agent!Boot, Agent!fileVars
  <2> QED BY <1>0, <2>2, <2>3 DEF WatchInv, Shapes, QuietIsStill
<1>2. CASE Agent!Started
  <2> DEFINE polled == Agent!Polled(None, sentinels')
  <2>1. row' = [polled EXCEPT !.state = "starting", !.wake = None] /\ polled \in RowType
    BY <1>0, <1>2, RowMarks DEF Agent!Started
  <2> HIDE DEF polled
  <2>2. row' \in RowType
    BY <2>1 DEF RowType, Agent!Live
  <2>3. /\ monitor' = [monitor EXCEPT !.on = TRUE, !.up = 0, !.quiet = 0]
        /\ grown' = FALSE /\ UNCHANGED <<named, still, nudge>>
    BY <1>2 DEF Agent!Started
  <2>4. monitor' \in Monitor /\ monitor'.quiet = 0
    BY <1>0, <2>3 DEF Monitor
  <2>5. Shapes'
    BY <1>0, <2>2, <2>3, <2>4 DEF Shapes
  <2>6. QuietIsStill'
    BY <1>0, <2>3, <2>4 DEF QuietIsStill
  <2> QED BY <2>5, <2>6 DEF WatchInv
<1>3. CASE Agent!Crash
  <2>1. /\ monitor' = Agent!NoMonitor /\ nudge' = [Agent!NoNudge EXCEPT !.ctrlC = nudge.ctrlC]
        /\ UNCHANGED <<named, still, grown, row>>
    BY <1>3 DEF Agent!Crash, Agent!fileVars
  <2>2. nudge' \in Nudge
    BY <1>0, <2>1 DEF Agent!NoNudge, Nudge
  <2> QED BY <1>0, <2>1, <2>2 DEF WatchInv, Shapes, QuietIsStill
<1>4. CASE Agent!Reattached
  <2>1. /\ monitor' = [Agent!NoMonitor EXCEPT !.on = TRUE] /\ grown' = FALSE
        /\ row' = Agent!Polled(None, sentinels) /\ UNCHANGED <<named, still, nudge>>
    BY <1>4 DEF Agent!Reattached, Agent!fileVars
  <2>2. monitor' \in Monitor /\ monitor'.quiet = 0
    BY <1>0, <2>1 DEF Monitor
  <2>3. row' \in RowType
    BY <1>0, <2>1, RowMarks
  <2>4. Shapes'
    BY <1>0, <2>1, <2>2, <2>3 DEF Shapes
  <2>5. QuietIsStill'
    BY <1>0, <2>1, <2>2 DEF QuietIsStill
  <2> QED BY <2>4, <2>5 DEF WatchInv
<1>5. CASE Agent!WatchersStop
  <2>1. /\ monitor' = Agent!NoMonitor /\ nudge' = Agent!NoNudge /\ row' = Agent!FinalRead(row)
        /\ UNCHANGED <<named, still, grown>>
    BY <1>5 DEF Agent!WatchersStop, Agent!fileVars
  <2>2. row' \in RowType
    BY <1>0, <2>1, RowMarks DEF Agent!FinalRead
  <2> QED BY <1>0, <2>1, <2>2 DEF WatchInv, Shapes, QuietIsStill
<1> QED BY <1>1, <1>2, <1>3, <1>4, <1>5

\* The agent's own steps let nothing pass for quiet that is not.
LEMMA AgentStep ==
  ASSUME AgentAssumption, WatchInv,
         \/ Agent!ClaudeStarts \/ Agent!UserPromptSubmit \/ Agent!Stop
         \/ Agent!TranscriptGrows \/ Agent!Exits
         \/ \E k \in Kinds : Agent!Prints(k) \/ Agent!HitsLimit(k)
         \/ \E n \in Names : Agent!NamesSession(n)
  PROVE  WatchInv'
<1>0. /\ monitor \in Monitor /\ nudge \in Nudge /\ Agent!WindowsAssumption
      /\ 0 \in 0..Idle
  BY DEF AgentAssumption, Agent!WindowsAssumption, WatchInv, Shapes
<1>1. CASE Agent!ClaudeStarts \/ Agent!UserPromptSubmit \/ Agent!Stop \/ Agent!Exits
  BY <1>0, <1>1, OthersLeaveWatch DEF Agent!ClaudeStarts, Agent!UserPromptSubmit,
     Agent!Stop, Agent!Exits, Agent!AgentOnly, Agent!fileVars
<1>2. CASE Agent!TranscriptGrows
  BY <1>0, <1>2 DEF Agent!TranscriptGrows, Agent!AgentOnly, Agent!fileVars, WatchInv,
     Shapes, QuietIsStill
<1>3. ASSUME NEW k \in Kinds, Agent!Prints(k) \/ Agent!HitsLimit(k)
      PROVE  WatchInv'
  <2>1. Agent!Heard(k) /\ UNCHANGED <<named, still, grown, nudge, row>>
    BY <1>3 DEF Agent!Prints, Agent!HitsLimit, Agent!fileVars
  <2>2. monitor' \in Monitor /\ monitor'.quiet = monitor.quiet
    BY <1>0, <2>1, HeardMonitor
  <2> QED BY <1>0, <2>1, <2>2, OthersLeaveWatch
<1>4. ASSUME NEW n \in Names, Agent!NamesSession(n)
      PROVE  WatchInv'
  BY <1>4 DEF Agent!NamesSession, Agent!AgentOnly, WatchInv, Shapes, QuietIsStill
<1> QED BY <1>1, <1>2, <1>3, <1>4

\* The timers: both windows grow together, and a look resets the one that is not
\* quiet after all.
LEMMA TimerStep ==
  ASSUME AgentAssumption, WatchInv,
         \/ Agent!Tick \/ Agent!Check \/ Agent!SecondCtrlC \/ Agent!KillFires
         \/ Agent!PollSentinels \/ Agent!PollTitle
  PROVE  WatchInv'
<1>0. /\ still \in 0..Idle /\ monitor \in Monitor /\ nudge \in Nudge /\ row \in RowType
      /\ named \in Names \cup {None} /\ grown \in BOOLEAN
      /\ Idle \in Nat /\ Warmup \in Nat
  BY DEF AgentAssumption, Agent!WindowsAssumption, WatchInv, Shapes
<1>1. CASE Agent!Tick
  <2>1. /\ still' = IF still < Idle THEN still + 1 ELSE still
        /\ UNCHANGED <<named, grown, nudge, row>>
    BY <1>1 DEF Agent!Tick, Agent!fileVars
  <2>2. CASE monitor.on
    <3> DEFINE up == IF monitor.up < Warmup THEN monitor.up + 1 ELSE monitor.up
               quiet == IF monitor.quiet < Idle THEN monitor.quiet + 1 ELSE monitor.quiet
    <3>1. monitor' = [monitor EXCEPT !.up = up, !.quiet = quiet]
      BY <1>1, <2>2 DEF Agent!Tick
    <3>2. up \in 0..Warmup /\ quiet \in 0..Idle
      BY <1>0 DEF Monitor
    <3>3. monitor.quiet <= still => quiet <= still'
      BY <1>0, <2>1 DEF Monitor
    <3> HIDE DEF up, quiet
    <3>4. monitor' \in Monitor /\ monitor'.quiet = quiet
      BY <1>0, <3>1, <3>2 DEF Monitor
    <3> QED BY <1>0, <2>1, <3>3, <3>4 DEF WatchInv, Shapes, QuietIsStill
  <2>3. CASE ~monitor.on
    <3>1. monitor' = monitor
      BY <1>1, <2>3 DEF Agent!Tick
    <3>2. monitor.quiet \in Nat
      BY <1>0 DEF Monitor
    <3> QED BY <1>0, <2>1, <3>1, <3>2 DEF WatchInv, Shapes, QuietIsStill
  <2> QED BY <2>2, <2>3
<1>2. CASE Agent!Check
  <2> DEFINE m == Agent!Noted(monitor)
  <2>1. m \in Monitor /\ m.quiet <= still
    BY <1>0 DEF Agent!Noted, Monitor, WatchInv, QuietIsStill
  <2>2. /\ monitor' \in {[m EXCEPT !.fired = TRUE, !.on = FALSE], m} /\ grown' = FALSE
        /\ nudge' \in {[second |-> TRUE, kill |-> TRUE, ctrlC |-> 1], nudge}
        /\ UNCHANGED <<named, still, row>>
    BY <1>2 DEF Agent!Check, Agent!fileVars
  <2> HIDE DEF m
  <2>3. monitor' \in Monitor /\ monitor'.quiet = m.quiet
    BY <2>1, <2>2 DEF Monitor
  <2>4. nudge' \in Nudge
    <3>1. [second |-> TRUE, kill |-> TRUE, ctrlC |-> 1] \in Nudge
      BY DEF Nudge
    <3> QED BY <1>0, <2>2, <3>1
  <2> QED BY <1>0, <2>1, <2>2, <2>3, <2>4 DEF WatchInv, Shapes, QuietIsStill
<1>3. CASE Agent!SecondCtrlC \/ Agent!KillFires
  <2>1. nudge' \in {[nudge EXCEPT !.second = FALSE, !.ctrlC = 2], [nudge EXCEPT !.kill = FALSE]}
    BY <1>3 DEF Agent!SecondCtrlC, Agent!KillFires
  <2>2. nudge' \in Nudge
    BY <1>0, <2>1 DEF Nudge
  <2>3. UNCHANGED <<named, still, grown, monitor, row>>
    BY <1>3 DEF Agent!SecondCtrlC, Agent!KillFires, Agent!fileVars
  <2> QED BY <1>0, <2>2, <2>3, OthersLeaveWatch
<1>4. CASE Agent!PollSentinels
  <2>1. row' \in RowType
    BY <1>0, <1>4, RowMarks DEF Agent!PollSentinels
  <2> QED BY <1>4, <2>1, RowOnly DEF Agent!PollSentinels, Agent!fileVars
<1>5. CASE Agent!PollTitle
  <2>1. row' \in RowType
    BY <1>0, <1>5, RowMarks DEF Agent!PollTitle
  <2> QED BY <1>5, <2>1, RowOnly DEF Agent!PollTitle, Agent!fileVars
<1> QED BY <1>1, <1>2, <1>3, <1>4, <1>5

\* The end of a life.
LEMMA CompleteStep ==
  ASSUME AgentAssumption, WatchInv, NEW clean \in BOOLEAN, NEW kinds, kinds = Agent!ToSet(tail),
         NEW ms \in Agent!Told(kinds), NEW snap, Agent!Complete(clean, ms, snap)
  PROVE  /\ WatchInv'
         /\ monitor.fired /\ limitFired /\ auto /\ ~cancelled /\ life.kind # "reattach"
              => \/ row'.state = "awaiting_resume" /\ row'.wake \in 1..Day
                 \/ row.attempts = MaxAttempts /\ row'.state = "failed"
<1> DEFINE verdict == Agent!Believed(Agent!classify(kinds, ms, snap))
           suspends == Agent!MayResume(clean) /\ verdict # None
           after == Agent!Titled(row, named)
<1>0. /\ row \in RowType /\ named \in Names \cup {None} /\ MaxAttempts \in Nat
      /\ Agent!TimesAssumption /\ None \notin 1..Day
  BY DEF WatchInv, Shapes, AgentAssumption, Agent!BoundsAssumption, Agent!TimesAssumption
<1>1. verdict \in 1..Day \cup {None} /\ (limitFired => verdict \in 1..Day)
  BY <1>0, ToldIsTime, VerdictIsAhead, BelievedIsAhead
<1>2. after \in RowType
  BY <1>0, RowMarks
<1>3. row' = IF suspends /\ row.attempts < MaxAttempts
             THEN [row EXCEPT !.state = "awaiting_resume", !.wake = verdict, !.attempts = @ + 1]
             ELSE [after EXCEPT !.state = IF suspends THEN "failed" ELSE Agent!TerminalState(clean),
                                !.wake = None]
  BY DEF Agent!Complete
<1>4. UNCHANGED <<still, grown, named, nudge, monitor>>
  BY DEF Agent!Complete, Agent!fileVars
<1>5. Agent!TerminalState(clean) \in Agent!Final
  BY DEF Agent!TerminalState, Agent!Final
<1> HIDE DEF verdict, after
<1>6. CASE suspends /\ row.attempts < MaxAttempts
  <2>1. row' = [row EXCEPT !.state = "awaiting_resume", !.wake = verdict,
                           !.attempts = row.attempts + 1]
    BY <1>3, <1>6
  <2>2. verdict \in 1..Day /\ row.attempts + 1 \in 0..MaxAttempts
    BY <1>0, <1>1, <1>6 DEF RowType
  <2>3. row' \in RowType /\ row'.state = "awaiting_resume" /\ row'.wake = verdict
    BY <1>0, <2>1, <2>2 DEF RowType
  <2> QED BY <1>4, <2>2, <2>3, RowOnly
<1>7. CASE ~(suspends /\ row.attempts < MaxAttempts)
  <2> DEFINE end == IF suspends THEN "failed" ELSE Agent!TerminalState(clean)
  <2>1. row' = [after EXCEPT !.state = end, !.wake = None]
    BY <1>3, <1>7
  <2>2. end \in Agent!Final
    BY <1>5 DEF Agent!Final
  <2>3. suspends => end = "failed" /\ row.attempts = MaxAttempts
    BY <1>0, <1>7 DEF RowType
  <2> HIDE DEF end
  <2>4. row' \in RowType /\ row'.state = end
    BY <1>2, <2>1, <2>2 DEF RowType
  <2>5. limitFired /\ auto /\ ~cancelled /\ life.kind # "reattach" => suspends
    BY <1>0, <1>1 DEF Agent!MayResume
  <2> QED BY <1>4, <2>3, <2>4, <2>5, RowOnly
<1> QED BY <1>6, <1>7

\* The user's steps.
LEMMA UserStep ==
  ASSUME AgentAssumption, WatchInv, Agent!Cancel \/ Agent!Rename \/ Agent!SetAuto
  PROVE  WatchInv'
<1>0. monitor \in Monitor /\ nudge \in Nudge /\ row \in RowType
  BY DEF WatchInv, Shapes
<1>1. CASE Agent!Cancel \/ Agent!SetAuto
  BY <1>0, <1>1, OthersLeaveWatch DEF Agent!Cancel, Agent!SetAuto, Agent!fileVars
<1>2. CASE Agent!Rename
  <2>1. row' = [row EXCEPT !.title = "theirs", !.title_locked = TRUE]
    BY <1>2 DEF Agent!Rename
  <2>2. row' \in RowType
    BY <1>0, <2>1 DEF RowType, Titles
  <2> QED BY <1>2, <2>2, RowOnly DEF Agent!Rename, Agent!fileVars
<1> QED BY <1>1, <1>2

LEMMA WatchStep ==
  ASSUME AgentAssumption, WatchInv, [Agent!Next]_(Agent!vars)
  PROVE  WatchInv'
<1>1. CASE \/ \E kind \in {"launch", "resume", "continue"} : Agent!Boot(kind)
           \/ Agent!Started \/ Agent!Crash \/ Agent!Reattached \/ Agent!WatchersStop
  BY <1>1, LifeStep
<1>2. CASE \/ Agent!ClaudeStarts \/ Agent!UserPromptSubmit \/ Agent!Stop
           \/ Agent!TranscriptGrows \/ Agent!Exits
           \/ \E k \in Kinds : Agent!Prints(k) \/ Agent!HitsLimit(k)
           \/ \E n \in Names : Agent!NamesSession(n)
  BY <1>2, AgentStep
<1>3. CASE \/ Agent!Tick \/ Agent!Check \/ Agent!SecondCtrlC \/ Agent!KillFires
           \/ Agent!PollSentinels \/ Agent!PollTitle
  BY <1>3, TimerStep
<1>4. CASE \E clean \in BOOLEAN, ms \in Agent!Told(Agent!ToSet(tail)),
              snap \in Agent!SnapsOf(life.kind) :
             Agent!Complete(clean, ms, snap)
  BY <1>4, CompleteStep
<1>5. CASE Agent!Cancel \/ Agent!Rename \/ Agent!SetAuto
  BY <1>5, UserStep
<1>6. CASE UNCHANGED Agent!vars
  BY <1>6 DEF Agent!vars, WatchInv, Shapes, QuietIsStill
<1> QED BY <1>1, <1>2, <1>3, <1>4, <1>5, <1>6 DEF Agent!Next

\* The constants are as the instances of the components are checked with.
LEMMA Assumed == AgentAssumption /\ Tailer!TailerAssumption
BY WatchAssumption DEF AgentAssumption

LEMMA WatchInvariant == Spec => []WatchInv
<1>1. Init => WatchInv
  BY WatchInit, Assumed DEF Init
<1>2. WatchInv /\ [Next]_vars => WatchInv'
  BY WatchStep, Assumed, AgentFrame
<1> QED BY <1>1, <1>2, PTL DEF Spec

-----------------------------------------------------------------------------
\* Who sends the first Ctrl-C, and when.
InterruptsOnlyStuck ==
  nudge'.ctrlC = 1 /\ nudge.ctrlC # 1 => still = Idle /\ ~(agent = "working" /\ grown)

\* Only a monitor that is convinced does.
LEMMA OnlyCheckInterrupts ==
  ASSUME AgentAssumption, WatchInv, [Agent!Next]_(Agent!vars), ~Agent!Check
  PROVE  ~(nudge'.ctrlC = 1 /\ nudge.ctrlC # 1)
<1>0. nudge \in Nudge
  BY DEF WatchInv, Shapes
<1>1. \/ nudge' = nudge
      \/ nudge' = Agent!NoNudge
      \/ nudge' = [Agent!NoNudge EXCEPT !.ctrlC = nudge.ctrlC]
      \/ nudge' = [nudge EXCEPT !.second = FALSE, !.ctrlC = 2]
      \/ nudge' = [nudge EXCEPT !.kill = FALSE]
  BY DEF Agent!Next, Agent!vars, Agent!Boot, Agent!Started, Agent!Crash,
     Agent!Reattached, Agent!ClaudeStarts, Agent!UserPromptSubmit, Agent!Stop,
     Agent!TranscriptGrows, Agent!Exits, Agent!Prints, Agent!HitsLimit,
     Agent!NamesSession, Agent!AgentOnly, Agent!Tick, Agent!SecondCtrlC, Agent!KillFires,
     Agent!PollSentinels, Agent!PollTitle, Agent!Complete, Agent!WatchersStop,
     Agent!Cancel, Agent!Rename, Agent!SetAuto
<1>2. CASE nudge' \in {nudge, Agent!NoNudge}
  BY <1>0, <1>2 DEF Agent!NoNudge
<1>3. CASE nudge' = [Agent!NoNudge EXCEPT !.ctrlC = nudge.ctrlC]
  BY <1>3 DEF Agent!NoNudge
<1>4. CASE nudge' = [nudge EXCEPT !.second = FALSE, !.ctrlC = 2]
  BY <1>0, <1>4 DEF Nudge
<1>5. CASE nudge' = [nudge EXCEPT !.kill = FALSE]
  BY <1>0, <1>5 DEF Nudge
<1> QED BY <1>1, <1>2, <1>3, <1>4, <1>5

\* No transcript has grown for the whole window when an agent is interrupted, and
\* none since the monitor's look (limitMonitor.ts:24-35, and its check()).
THEOREM WorkIsNotInterrupted == Spec => NeverInterruptsWork
<1>1. WatchInv /\ [Next]_vars => [InterruptsOnlyStuck]_(Agent!vars)
  <2> SUFFICES ASSUME WatchInv, [Agent!Next]_(Agent!vars), nudge'.ctrlC = 1, nudge.ctrlC # 1
               PROVE  still = Idle /\ ~(agent = "working" /\ grown)
    BY AgentFrame DEF InterruptsOnlyStuck
  <2>1. Agent!Check
    BY OnlyCheckInterrupts, Assumed
  <2>2. Agent!Convinced(Agent!Noted(monitor))
    BY <2>1 DEF Agent!Check
  <2>3. still \in 0..Idle /\ monitor \in Monitor /\ Idle \in Nat \ {0}
    BY Assumed DEF WatchInv, Shapes, AgentAssumption, Agent!WindowsAssumption
  <2>4. CASE grown
    <3>1. Agent!Noted(monitor).quiet = 0
      BY <2>3, <2>4 DEF Agent!Noted, Monitor
    <3> QED BY <2>2, <2>3, <3>1 DEF Agent!Convinced
  <2>5. CASE ~grown
    <3>1. monitor.quiet = Idle /\ monitor.quiet <= still
      BY <2>2, <2>5 DEF Agent!Noted, Agent!Convinced, WatchInv, QuietIsStill
    <3> QED BY <2>3, <2>5, <3>1
  <2> QED BY <2>4, <2>5
<1>2. [InterruptsOnlyStuck]_(Agent!vars)
        => [nudge'.ctrlC = 1 /\ nudge.ctrlC # 1
              => still = Idle /\ ~(agent = "working" /\ grown)]_(Agent!vars)
  BY DEF InterruptsOnlyStuck
<1> QED BY <1>1, <1>2, WatchInvariant, PTL
  DEF Spec, NeverInterruptsWork, Agent!NeverInterruptsWork

-----------------------------------------------------------------------------
\* What the end of a nudged life does to its row.
SuspendsNudged ==
  /\ life.pc = "watched" /\ life'.pc = "removing"
  /\ monitor.fired /\ limitFired /\ auto /\ ~cancelled /\ life.kind # "reattach"
  => \/ row'.state = "awaiting_resume" /\ row'.wake \in 1..Day
     \/ row.attempts = MaxAttempts /\ row'.state = "failed"

\* A life ends in one way.
LEMMA OnlyCompleteEnds ==
  ASSUME [Agent!Next]_(Agent!vars), life.pc = "watched", life'.pc = "removing"
  PROVE  \E clean \in BOOLEAN, ms \in Agent!Told(Agent!ToSet(tail)),
            snap \in Agent!SnapsOf(life.kind) :
           Agent!Complete(clean, ms, snap)
<1>1. life' # life
  BY Zenon
<1>2. ~(\/ Agent!ClaudeStarts \/ Agent!UserPromptSubmit \/ Agent!Stop
        \/ Agent!TranscriptGrows \/ Agent!Exits)
  BY <1>1 DEF Agent!ClaudeStarts, Agent!UserPromptSubmit, Agent!Stop,
     Agent!TranscriptGrows, Agent!Exits, Agent!AgentOnly, Agent!lifeVars
<1>3. /\ \A k \in Kinds : ~(Agent!Prints(k) \/ Agent!HitsLimit(k))
      /\ \A n \in Names : ~Agent!NamesSession(n)
  BY <1>1 DEF Agent!Prints, Agent!HitsLimit, Agent!NamesSession, Agent!AgentOnly,
     Agent!lifeVars
<1>4. ~(\/ Agent!Tick \/ Agent!Check \/ Agent!SecondCtrlC \/ Agent!KillFires
        \/ Agent!PollSentinels \/ Agent!PollTitle)
  BY <1>1 DEF Agent!Tick, Agent!Check, Agent!SecondCtrlC, Agent!KillFires,
     Agent!PollSentinels, Agent!PollTitle, Agent!lifeVars
<1>5. ~(Agent!Cancel \/ Agent!Rename \/ Agent!SetAuto) /\ ~UNCHANGED Agent!vars
  BY <1>1 DEF Agent!Cancel, Agent!Rename, Agent!SetAuto, Agent!lifeVars, Agent!vars
<1>6. /\ \A kind : ~Agent!Boot(kind)
      /\ ~(Agent!Started \/ Agent!Reattached \/ Agent!WatchersStop)
  BY DEF Agent!Boot, Agent!Started, Agent!Reattached, Agent!WatchersStop, Agent!Watched
<1>7. ~Agent!Crash
  <2> SUFFICES ASSUME Agent!Crash PROVE FALSE
    OBVIOUS
  <2>1. life' = [life EXCEPT !.pc = "down"]
    BY DEF Agent!Crash
  <2>2. life'.pc \in {"down", life.pc}
    BY <2>1
  <2> QED BY <2>2
<1> QED BY <1>2, <1>3, <1>4, <1>5, <1>6, <1>7 DEF Agent!Next

\* A run the monitor has nudged sleeps until a time that is worth waiting for, or
\* has used up its attempts (orchestrator/index.ts:516-540).
THEOREM NudgedSuspends == Spec => NudgedRunSuspends
<1>1. WatchInv /\ [Next]_vars => [SuspendsNudged]_(Agent!vars)
  <2> SUFFICES ASSUME WatchInv, [Agent!Next]_(Agent!vars),
                      life.pc = "watched", life'.pc = "removing"
               PROVE  SuspendsNudged
    BY AgentFrame DEF SuspendsNudged
  <2>1. PICK clean \in BOOLEAN, ms \in Agent!Told(Agent!ToSet(tail)),
             snap \in Agent!SnapsOf(life.kind) :
          Agent!Complete(clean, ms, snap)
    BY OnlyCompleteEnds
  <2> QED BY <2>1, CompleteStep, Assumed DEF SuspendsNudged
<1>2. [SuspendsNudged]_(Agent!vars)
        => [/\ life.pc = "watched" /\ life'.pc = "removing"
            /\ monitor.fired /\ limitFired /\ auto /\ ~cancelled /\ life.kind # "reattach"
            => \/ row'.state = "awaiting_resume" /\ row'.wake \in 1..Day
               \/ row.attempts = MaxAttempts /\ row'.state = "failed"]_(Agent!vars)
  BY DEF SuspendsNudged
<1> QED BY <1>1, <1>2, WatchInvariant, PTL
  DEF Spec, NudgedRunSuspends, Agent!NudgedRunSuspends

-----------------------------------------------------------------------------
\* What the row owes to the files of the state directory.

LifeType ==
  [kind : {None, "launch", "resume", "continue", "reattach"},
   pc : {"none", "starting", "watched", "removing", "down"}]

WatcherType == [on : BOOLEAN, last : {None, "starting", "running", "waiting"}]

FollowTypes ==
  /\ life \in LifeType /\ watcher \in WatcherType
  /\ emitted \in Names \cup {None} /\ named \in Names \cup {None} /\ row \in RowType

\* An agent that has said something has left a sentinel.
Spoken == Agent!Derived(sentinels) # "starting"

\* The title is the last one emitted, or the one that result.json repeated.
TitleEmitted ==
  emitted # None /\ ~row.title_locked =>
    row.title = emitted \/ (life.pc = "removing" /\ row.title = named)

\* Where an agent can no longer speak, and where the row is the life's.
PlaceInv ==
  /\ watcher.on => life.pc \in {"watched", "removing"}
  /\ life.pc = "removing" => agent = "gone" /\ row.state \notin Agent!Live
  /\ life.pc = "none" => agent = "none"
  /\ life.pc \in {"watched", "down"} /\ row.state \in {"running", "waiting"} => Spoken

FollowInv ==
  FollowTypes /\ PlaceInv /\ TitleEmitted /\ Agent!RowFollowsFiles

LEMMA FollowInit ==
  ASSUME AgentAssumption, Agent!Init
  PROVE  FollowInv
<1>1. row \in RowType
  BY DEF AgentAssumption, Agent!BoundsAssumption, Agent!Init, RowType, Titles
<1>2. FollowTypes
  BY <1>1 DEF Agent!Init, FollowTypes, LifeType, WatcherType, Agent!NoWatcher
<1>3. PlaceInv /\ TitleEmitted
  BY DEF Agent!Init, PlaceInv, TitleEmitted, Agent!NoWatcher
<1>4. Agent!RowFollowsFiles
  BY DEF Agent!Init, Agent!RowFollowsFiles, Agent!RowFollowsSentinels, Agent!NameIsKept,
     Agent!NoWatcher
<1> QED BY <1>2, <1>3, <1>4 DEF FollowInv

\* An agent that is gone says nothing; one that speaks leaves a sentinel.
LEMMA AgentFollows ==
  ASSUME FollowInv, UNCHANGED <<life, watcher, emitted, row, lost, lives>>,
         named' \in Names \cup {None},
         UNCHANGED sentinels \/ Agent!Derived(sentinels') # "starting",
         agent \in {"none", "gone"} => UNCHANGED <<agent, named>>
  PROVE  FollowInv'
BY DEF FollowInv, FollowTypes, PlaceInv, Spoken, TitleEmitted, Agent!RowFollowsFiles,
   Agent!RowFollowsSentinels, Agent!NameIsKept

\* What the marks make of a row.
LEMMA MarksFollow ==
  ASSUME row \in RowType, NEW last, NEW files
  PROVE  LET r == Agent!Polled(last, files) IN
           /\ r.title = row.title /\ r.title_locked = row.title_locked
           /\ row.state \notin Agent!Live => r = row
           /\ last # Agent!Derived(files) /\ row.state \in Agent!Live =>
                \/ r.state = Agent!Derived(files)
                \/ Agent!Derived(files) = "starting" /\ r = row
<1>1. \A st : /\ Agent!Marked(st) = [row EXCEPT !.state = st]
              /\ Agent!Marked(st).state = st /\ Agent!Marked(st).title = row.title
              /\ Agent!Marked(st).title_locked = row.title_locked
  BY DEF Agent!Marked, RowType
<1>2. Agent!Derived(files) \in {"starting", "running", "waiting"}
  BY DEF Agent!Derived
<1>3. CASE Agent!Derived(files) = "running"
  BY <1>1, <1>3 DEF Agent!Polled, Agent!OnChange, Agent!markRunning, Agent!Live
<1>4. CASE Agent!Derived(files) = "waiting"
  BY <1>1, <1>4 DEF Agent!Polled, Agent!OnChange, Agent!markWaiting, Agent!Live
<1>5. CASE Agent!Derived(files) = "starting"
  BY <1>5 DEF Agent!Polled, Agent!OnChange
<1> QED BY <1>2, <1>3, <1>4, <1>5

\* A name is given unless the user has given one.
LEMMA TitledFollows ==
  ASSUME NEW r \in RowType, NEW t \in Names \cup {None}
  PROVE  /\ Agent!Titled(r, t).title_locked = r.title_locked
         /\ Agent!Titled(r, t).state = r.state
         /\ Agent!Titled(r, t).title = IF t = None \/ r.title_locked THEN r.title ELSE t
BY DEF Agent!Titled, RowType

LEMMA FollowStep ==
  ASSUME AgentAssumption, WatchInv, WatchInv', FollowInv, [Agent!Next]_(Agent!vars)
  PROVE  FollowInv'
<1> USE DEF Agent!fileVars, Agent!lifeVars, Agent!watchVars, Agent!flagVars
<1>0. /\ life \in LifeType /\ watcher \in WatcherType /\ row \in RowType
      /\ row' \in RowType /\ named' \in Names \cup {None}
      /\ emitted \in Names \cup {None} /\ named \in Names \cup {None}
  BY DEF FollowInv, FollowTypes, WatchInv, Shapes
<1>1. ASSUME NEW kind \in {"launch", "resume", "continue"}, Agent!Boot(kind)
      PROVE  FollowInv'
  <2>1. /\ life' = [kind |-> kind, pc |-> "starting"] /\ watcher' = Agent!NoWatcher
        /\ emitted' = None
    BY <1>1 DEF Agent!Boot
  <2> QED
    BY <1>0, <2>1 DEF FollowInv, FollowTypes, PlaceInv, TitleEmitted, LifeType, WatcherType,
       Agent!NoWatcher, Agent!RowFollowsFiles, Agent!RowFollowsSentinels, Agent!NameIsKept
<1>2. CASE Agent!Started
  <2>1. /\ life' = [life EXCEPT !.pc = "watched"]
        /\ watcher' = [on |-> TRUE, last |-> Agent!Derived(sentinels')]
        /\ sentinels' = Agent!Cleared(life.kind)
        /\ lost' = (life.kind = "launch" /\ Agent!Derived(sentinels') # "starting")
        /\ emitted' = emitted /\ named' = named
    BY <1>2 DEF Agent!Started
  <2>2. row'.state = "starting" /\ row'.title = row.title /\ row'.title_locked = row.title_locked
    <3> DEFINE polled == Agent!Polled(None, sentinels')
    <3>1. row' = [polled EXCEPT !.state = "starting", !.wake = None]
      BY <1>2 DEF Agent!Started
    <3>2. polled \in RowType /\ polled.title = row.title /\ polled.title_locked = row.title_locked
      BY <1>0, RowMarks, MarksFollow
    <3> HIDE DEF polled
    <3> QED BY <3>1, <3>2 DEF RowType
  <2>3. Agent!Derived(sentinels') \in {"starting", "running", "waiting"}
    BY DEF Agent!Derived
  <2>4. life' \in LifeType /\ life'.pc = "watched" /\ watcher' \in WatcherType
    BY <1>0, <2>1, <2>3 DEF LifeType, WatcherType
  <2>5. ~lost' => Agent!Derived(sentinels') = "starting"
    BY <2>1 DEF Agent!Cleared, Agent!Derived
  <2>6. life.pc # "removing"
    BY <1>2 DEF Agent!Started
  <2>7. TitleEmitted'
    BY <2>1, <2>2, <2>6 DEF FollowInv, TitleEmitted
  <2>8. Agent!RowFollowsFiles'
    BY <2>1, <2>2, <2>4, <2>5 DEF Agent!RowFollowsFiles, Agent!RowFollowsSentinels,
       Agent!NameIsKept
  <2> QED
    BY <1>0, <2>1, <2>2, <2>4, <2>7, <2>8 DEF FollowInv, FollowTypes, PlaceInv
<1>3. CASE Agent!Crash
  <2>1. /\ life' = [life EXCEPT !.pc = "down"] /\ watcher' = Agent!NoWatcher
        /\ emitted' = None /\ life.pc = "watched" /\ UNCHANGED <<agent, sentinels, row>>
    BY <1>3 DEF Agent!Crash, Agent!Watched
  <2>2. life' \in LifeType /\ life'.pc = "down" /\ watcher' \in WatcherType /\ ~watcher'.on
    BY <1>0, <2>1 DEF LifeType, WatcherType, Agent!NoWatcher
  <2> QED
    BY <1>0, <2>1, <2>2 DEF FollowInv, FollowTypes, PlaceInv, Spoken, TitleEmitted,
       Agent!RowFollowsFiles, Agent!RowFollowsSentinels, Agent!NameIsKept
<1>4. CASE Agent!Reattached
  <2>1. /\ life' = [kind |-> "reattach", pc |-> "watched"] /\ life.pc = "down"
        /\ watcher' = [on |-> TRUE, last |-> Agent!Derived(sentinels)]
        /\ row' = Agent!Polled(None, sentinels)
        /\ UNCHANGED <<agent, sentinels, named, emitted>>
    BY <1>4 DEF Agent!Reattached
  <2>2. Agent!Derived(sentinels) \in {"starting", "running", "waiting"}
    BY DEF Agent!Derived
  <2>3. None # Agent!Derived(sentinels)
    BY <2>2 DEF AgentAssumption, Agent!BoundsAssumption
  <2>4. /\ row'.title = row.title /\ row'.title_locked = row.title_locked
        /\ row.state \notin Agent!Live => row' = row
        /\ row.state \in Agent!Live =>
             \/ row'.state = Agent!Derived(sentinels)
             \/ Agent!Derived(sentinels) = "starting" /\ row' = row
    BY <1>0, <2>1, <2>3, MarksFollow
  <2>5. Agent!Derived(sentinels) = "starting" => row.state \notin {"running", "waiting"}
    BY <2>1 DEF FollowInv, PlaceInv, Spoken
  <2>6. life' \in LifeType /\ watcher' \in WatcherType
    BY <2>1, <2>2 DEF LifeType, WatcherType
  <2>7. PlaceInv'
    BY <2>1, <2>2, <2>4, <2>5 DEF PlaceInv, Spoken, Agent!Live
  <2>8. Agent!RowFollowsFiles'
    BY <2>1, <2>4, <2>5 DEF Agent!RowFollowsFiles, Agent!RowFollowsSentinels,
       Agent!NameIsKept, Agent!Live
  <2>9. TitleEmitted'
    BY <2>1, <2>4 DEF FollowInv, TitleEmitted
  <2> QED BY <1>0, <2>1, <2>6, <2>7, <2>8, <2>9 DEF FollowInv, FollowTypes
<1>5. CASE \/ Agent!ClaudeStarts \/ Agent!UserPromptSubmit \/ Agent!Stop
           \/ Agent!TranscriptGrows \/ Agent!Exits
           \/ \E k \in Kinds : Agent!Prints(k) \/ Agent!HitsLimit(k)
           \/ \E n \in Names : Agent!NamesSession(n)
  <2>1. UNCHANGED <<life, watcher, emitted, row, lost, lives>> /\ agent \notin {"none", "gone"}
    BY <1>5 DEF Agent!ClaudeStarts, Agent!UserPromptSubmit, Agent!Stop, Agent!TranscriptGrows,
       Agent!Exits, Agent!Prints, Agent!HitsLimit, Agent!NamesSession, Agent!AgentOnly,
       Agent!Alive
  <2>2. \/ UNCHANGED sentinels
        \/ sentinels' \in {sentinels \cup {"prompted"}, sentinels \cup {"waiting"},
                           (sentinels \ {"waiting"}) \cup {"prompted"}}
    BY <1>5 DEF Agent!ClaudeStarts, Agent!UserPromptSubmit, Agent!Stop, Agent!TranscriptGrows,
       Agent!Exits, Agent!Prints, Agent!HitsLimit, Agent!NamesSession
  <2>3. UNCHANGED sentinels \/ Agent!Derived(sentinels') # "starting"
    BY <2>2 DEF Agent!Derived
  <2> QED BY <1>0, <2>1, <2>3, AgentFollows
<1>6. CASE Agent!Tick \/ Agent!Check \/ Agent!SecondCtrlC \/ Agent!KillFires
           \/ Agent!Cancel \/ Agent!SetAuto
  <2>1. /\ UNCHANGED <<life, watcher, emitted, row, lost, lives, sentinels, named>>
        /\ agent \in {"none", "gone"} => UNCHANGED agent
    BY <1>6 DEF Agent!Tick, Agent!Check, Agent!SecondCtrlC, Agent!KillFires, Agent!Killed,
       Agent!Cancel, Agent!SetAuto, Agent!Alive
  <2> QED BY <1>0, <2>1, AgentFollows
<1>7. CASE Agent!PollSentinels
  <2>1. /\ row' = Agent!Polled(watcher.last, sentinels) /\ watcher.on
        /\ watcher' = [watcher EXCEPT !.last = Agent!Derived(sentinels)]
        /\ watcher.last # Agent!Derived(sentinels)
        /\ UNCHANGED <<agent, life, sentinels, named, emitted>>
    BY <1>7 DEF Agent!PollSentinels
  <2>2. Agent!Derived(sentinels) \in {"starting", "running", "waiting"}
    BY DEF Agent!Derived
  <2>3. /\ watcher' \in WatcherType /\ watcher'.on = watcher.on
        /\ watcher'.last = Agent!Derived(sentinels)
    BY <1>0, <2>1, <2>2 DEF WatcherType
  <2>4. /\ row'.title = row.title /\ row'.title_locked = row.title_locked
        /\ row.state \notin Agent!Live => row' = row
        /\ row.state \in Agent!Live =>
             \/ row'.state = Agent!Derived(sentinels)
             \/ Agent!Derived(sentinels) = "starting" /\ row' = row
    BY <1>0, <2>1, MarksFollow
  <2>5. /\ life.pc \in {"watched", "removing"}
        /\ life.pc = "watched" /\ Agent!Derived(sentinels) = "starting"
             => row.state \notin {"running", "waiting"}
        /\ life.pc = "removing" => agent = "gone" /\ row.state \notin Agent!Live
    BY <2>1 DEF FollowInv, PlaceInv, Spoken
  <2>6. PlaceInv'
    BY <2>1, <2>2, <2>3, <2>4, <2>5 DEF PlaceInv, Spoken, Agent!Live
  <2>7. Agent!RowFollowsFiles'
    BY <2>1, <2>3, <2>4, <2>5 DEF Agent!RowFollowsFiles, Agent!RowFollowsSentinels,
       Agent!NameIsKept, Agent!Live
  <2>8. TitleEmitted'
    BY <2>1, <2>4 DEF FollowInv, TitleEmitted
  <2> QED BY <1>0, <2>1, <2>3, <2>6, <2>7, <2>8 DEF FollowInv, FollowTypes
<1>8. CASE Agent!PollTitle
  <2>1. /\ emitted' = named /\ row' = Agent!Titled(row, named) /\ named # None
        /\ life.pc \in {"watched", "removing"}
        /\ UNCHANGED <<agent, life, sentinels, named, watcher, lost, lives>>
    BY <1>8 DEF Agent!PollTitle
  <2>2. /\ row'.title_locked = row.title_locked /\ row'.state = row.state
        /\ row'.title = IF row.title_locked THEN row.title ELSE named
    BY <1>0, <2>1, TitledFollows
  <2> QED
    BY <1>0, <2>1, <2>2 DEF FollowInv, FollowTypes, PlaceInv, Spoken, TitleEmitted,
       Agent!RowFollowsFiles, Agent!RowFollowsSentinels, Agent!NameIsKept
<1>9. ASSUME NEW clean \in BOOLEAN, NEW ms, NEW snap, Agent!Complete(clean, ms, snap)
      PROVE  FollowInv'
  <2> DEFINE verdict == Agent!Believed(Agent!classify(Agent!ToSet(tail), ms, snap))
             suspends == Agent!MayResume(clean) /\ verdict # None
             after == Agent!Titled(row, named)
             end == IF suspends THEN "failed" ELSE Agent!TerminalState(clean)
  <2>1. /\ life' = [life EXCEPT !.pc = "removing"] /\ life.pc = "watched" /\ agent = "gone"
        /\ UNCHANGED <<agent, named, emitted, watcher, sentinels, lost>>
    BY <1>9 DEF Agent!Complete, Agent!Watched
  <2>2. \/ row' = [row EXCEPT !.state = "awaiting_resume", !.wake = verdict,
                             !.attempts = row.attempts + 1]
        \/ row' = [after EXCEPT !.state = end, !.wake = None]
    BY <1>9 DEF Agent!Complete
  <2>3. end \in Agent!Final
    BY DEF Agent!TerminalState, Agent!Final
  <2>4. /\ after \in RowType /\ after.title_locked = row.title_locked
        /\ after.title = IF named = None \/ row.title_locked THEN row.title ELSE named
    BY <1>0, RowMarks, TitledFollows
  <2> HIDE DEF verdict, suspends, after, end
  <2>5. /\ row'.state \in Agent!Final \cup {"awaiting_resume"}
        /\ row'.title_locked = row.title_locked
        /\ row'.title \in {row.title, after.title}
    BY <1>0, <2>2, <2>3, <2>4 DEF RowType
  <2>6. row'.state \notin Agent!Live
    BY <2>5 DEF Agent!Final, Agent!Live
  <2>7. life' \in LifeType /\ life'.pc = "removing"
    BY <1>0, <2>1 DEF LifeType
  <2>8. TitleEmitted'
    BY <2>1, <2>4, <2>5, <2>7 DEF FollowInv, TitleEmitted
  <2>9. PlaceInv'
    BY <2>1, <2>6, <2>7 DEF FollowInv, PlaceInv, Agent!Live
  <2>10. Agent!RowFollowsFiles'
    BY <2>1, <2>4, <2>5, <2>6, <2>7
       DEF FollowInv, TitleEmitted, Agent!RowFollowsFiles, Agent!RowFollowsSentinels,
           Agent!NameIsKept, Agent!Live
  <2> QED BY <1>0, <2>1, <2>7, <2>8, <2>9, <2>10 DEF FollowInv, FollowTypes
<1>10. CASE Agent!WatchersStop
  <2>1. /\ life' = [kind |-> None, pc |-> "none"] /\ agent' = "none" /\ life.pc = "removing"
        /\ row' = Agent!FinalRead(row) /\ watcher' = Agent!NoWatcher /\ emitted' = None
        /\ UNCHANGED <<named, lives>>
    BY <1>10 DEF Agent!WatchersStop
  <2>2. /\ named # None /\ ~row'.title_locked => row'.title = named
    BY <1>0, <2>1, TitledFollows DEF Agent!FinalRead, FollowInv, TitleEmitted
  <2> QED
    BY <1>0, <2>1, <2>2 DEF FollowInv, FollowTypes, PlaceInv, TitleEmitted, LifeType,
       WatcherType, Agent!NoWatcher, Agent!RowFollowsFiles, Agent!RowFollowsSentinels,
       Agent!NameIsKept
<1>11. CASE Agent!Rename
  <2>1. /\ row' = [row EXCEPT !.title = "theirs", !.title_locked = TRUE]
        /\ UNCHANGED <<agent, life, sentinels, named, watcher, emitted, lost, lives>>
    BY <1>11 DEF Agent!Rename
  <2>2. row'.title_locked /\ row'.state = row.state
    BY <1>0, <2>1 DEF RowType
  <2> QED
    BY <1>0, <2>1, <2>2 DEF FollowInv, FollowTypes, PlaceInv, Spoken, TitleEmitted,
       Agent!RowFollowsFiles, Agent!RowFollowsSentinels, Agent!NameIsKept
<1>12. CASE UNCHANGED Agent!vars
  <2>1. UNCHANGED <<life, watcher, emitted, row, lost, lives, sentinels, named, agent>>
    BY <1>12 DEF Agent!vars
  <2> QED BY <1>0, <2>1, AgentFollows
<1> QED
  BY <1>1, <1>2, <1>3, <1>4, <1>5, <1>6, <1>7, <1>8, <1>9, <1>10, <1>11, <1>12
     DEF Agent!Next

\* The state and the title of the row are what the files say: no sentinel of an earlier
\* life or turn is taken for news and none is missed, except by a launch whose agent is
\* quicker than start(), and the last name the agent wrote is kept unless the user has
\* chosen one (runtimeStateWatcher.ts, titleWatcher.ts).
THEOREM RowsFollowFiles == Spec => []RowFollowsFiles
<1>1. Init => FollowInv
  BY FollowInit, Assumed DEF Init
<1>2. WatchInv /\ WatchInv' /\ FollowInv /\ [Next]_vars => FollowInv'
  BY FollowStep, Assumed, AgentFrame
<1>3. FollowInv => RowFollowsFiles
  BY DEF FollowInv, RowFollowsFiles
<1> QED BY <1>1, <1>2, <1>3, WatchInvariant, PTL DEF Spec

-----------------------------------------------------------------------------
TailerState == [on : BOOLEAN, offset : Nat, pending : BOOLEAN]

\* The shapes, without the bounds.
TailerShapes ==
  /\ size \in Nat /\ restarts \in Nat /\ rows \in Nat
  /\ counting \in {"queued", "live", "exited", "rest"}
  /\ tailer \in TailerState /\ tailer.offset <= size
  /\ counted \in [Tailer!Lines -> Nat] /\ torn = {}

\* A tailer belongs to a life that has a container, or just lost it.
TailerTends == tailer.on => counting \in {"live", "exited"}

\* It holds half a line exactly when it stopped within one.
HoldsHalf == tailer.on => (tailer.pending <=> tailer.offset % 2 = 1)

\* It has counted what it has read.
ReadIsCounted == tailer.on => \A l \in Tailer!Complete(tailer.offset) : counted[l] > 0

\* A line is counted once for the life that wrote it and once for each restart,
\* and what is ahead of the tailer not yet for this one.
CountBound ==
  \A l \in Tailer!Lines :
    /\ counted[l] <= 1 + restarts
    /\ tailer.on /\ l \notin Tailer!Complete(tailer.offset) => counted[l] <= restarts
    /\ counting = "queued" => counted[l] = 0

TailerInv ==
  TailerShapes /\ size <= 2 * MaxLines /\ TailerTends /\ HoldsHalf /\ ReadIsCounted /\ CountBound

-----------------------------------------------------------------------------
\* A line that is new and had begun is the one half of which is held.
LEMMA NewLinesAreWhole ==
  ASSUME Tailer!TailerAssumption, TailerShapes, HoldsHalf, tailer.on
  PROVE  Tailer!Whole = Tailer!NewLines
<1> SUFFICES ASSUME NEW l \in Tailer!NewLines, Tailer!Begun(l)
             PROVE  tailer.pending
  BY DEF Tailer!Whole
<1>1. l \in Nat /\ tailer.offset \in Nat
  BY DEF Tailer!NewLines, Tailer!Complete, Tailer!Lines, TailerShapes, TailerState,
     Tailer!TailerAssumption
<1>2. 2 * l - 1 <= tailer.offset /\ ~(2 * l <= tailer.offset)
  BY <1>1 DEF Tailer!NewLines, Tailer!Complete, Tailer!Begun
<1>3. tailer.offset = 2 * l - 1
  BY <1>1, <1>2
<1>4. tailer.offset % 2 = 1
  BY <1>1, <1>3
<1> QED BY <1>4 DEF HoldsHalf

\* A pass of the tailer counts what is new, and tears nothing.
LEMMA PassCounts ==
  ASSUME Tailer!TailerAssumption, TailerInv, tailer.on, Tailer!Counts
  PROVE  /\ counted' \in [Tailer!Lines -> Nat] /\ torn' = {}
         /\ \A l \in Tailer!Lines :
              counted'[l] = IF l \in Tailer!NewLines THEN counted[l] + 1 ELSE counted[l]
         /\ \A l \in Tailer!Complete(size) : counted'[l] > 0
         /\ \A l \in Tailer!Lines : counted'[l] <= 1 + restarts
         /\ \A l \in Tailer!Lines : l \notin Tailer!Complete(size) => counted'[l] <= restarts
<1>1. Tailer!Whole = Tailer!NewLines
  BY NewLinesAreWhole DEF TailerInv
<1>2. torn' = {}
  BY <1>1 DEF Tailer!Counts, TailerInv, TailerShapes
<1>3. counted' = [l \in Tailer!Lines |->
                    IF l \in Tailer!NewLines THEN counted[l] + 1 ELSE counted[l]]
  BY <1>1 DEF Tailer!Counts
<1>4. counted' \in [Tailer!Lines -> Nat]
  BY <1>3 DEF TailerInv, TailerShapes
<1>5. ASSUME NEW l \in Tailer!Lines
      PROVE  /\ counted[l] \in Nat /\ restarts \in Nat
             /\ counted[l] <= 1 + restarts
             /\ l \notin Tailer!Complete(tailer.offset) => counted[l] <= restarts
             /\ l \in Tailer!Complete(tailer.offset) => counted[l] > 0
             /\ l \in Tailer!Complete(tailer.offset) => l \in Tailer!Complete(size)
  <2>1. tailer.offset \in Nat /\ size \in Nat /\ tailer.offset <= size /\ l \in Nat
    BY DEF TailerInv, TailerShapes, TailerState, Tailer!Lines, Tailer!TailerAssumption
  <2> QED BY <2>1 DEF TailerInv, TailerShapes, ReadIsCounted, CountBound, Tailer!Complete
<1>6. ASSUME NEW l \in Tailer!Lines
      PROVE  /\ l \in Tailer!Complete(size) => counted'[l] > 0
             /\ counted'[l] <= 1 + restarts
             /\ l \notin Tailer!Complete(size) => counted'[l] <= restarts
  BY <1>3, <1>5 DEF Tailer!NewLines
<1> QED BY <1>2, <1>3, <1>4, <1>6 DEF Tailer!Complete

-----------------------------------------------------------------------------
LEMMA TailerInit ==
  ASSUME Tailer!TailerAssumption, Tailer!Init
  PROVE  TailerInv
BY DEF Tailer!TailerAssumption, Tailer!Init, TailerInv, TailerShapes, TailerState,
   Tailer!NoTailer, Tailer!Lines, Tailer!Complete, TailerTends, HoldsHalf, ReadIsCounted,
   CountBound

\* Every step keeps what the tailer knows.
LEMMA TailerStep ==
  ASSUME Tailer!TailerAssumption, TailerInv, [Tailer!Next]_(Tailer!vars)
  PROVE  TailerInv'
<1> USE DEF TailerTends, HoldsHalf, ReadIsCounted, CountBound
<1>1. CASE Tailer!Reads
  <2>1. /\ counted' \in [Tailer!Lines -> Nat] /\ torn' = {}
        /\ \A l \in Tailer!Complete(size) : counted'[l] > 0
        /\ \A l \in Tailer!Lines : counted'[l] <= 1 + restarts
        /\ \A l \in Tailer!Lines : l \notin Tailer!Complete(size) => counted'[l] <= restarts
    BY <1>1, PassCounts DEF Tailer!Reads
  <2>2. /\ tailer' = [on |-> TRUE, offset |-> size, pending |-> size % 2 = 1]
        /\ size \in Nat
    BY <1>1 DEF Tailer!Reads, Tailer!Partial, TailerInv, TailerShapes, TailerState
  <2>3. TailerShapes'
    <3> DEFINE half == size % 2 = 1
    <3>1. half \in BOOLEAN
      OBVIOUS
    <3>2. tailer' = [on |-> TRUE, offset |-> size, pending |-> half]
      BY <2>2
    <3> HIDE DEF half
    <3>3. tailer' \in TailerState /\ tailer'.offset = size
      BY <2>2, <3>1, <3>2 DEF TailerState
    <3> QED BY <1>1, <2>1, <2>2, <3>3 DEF Tailer!Reads, TailerInv, TailerShapes
  <2>4. counting' \in {"live", "exited"} /\ size' <= 2 * MaxLines
    BY <1>1 DEF Tailer!Reads, TailerInv
  <2>5. HoldsHalf'
    <3>1. tailer'.offset = size /\ tailer'.pending = (size % 2 = 1)
      BY <2>2, Zenon
    <3> QED BY <3>1, Zenon
  <2>6. ReadIsCounted' /\ CountBound'
    BY <1>1, <2>1, <2>2, <2>4 DEF Tailer!Reads, Tailer!Complete
  <2> QED BY <2>3, <2>4, <2>5, <2>6 DEF TailerInv
<1>2. CASE Tailer!Writes
  <2>1. TailerShapes' /\ size' <= 2 * MaxLines
    BY <1>2 DEF Tailer!Writes, TailerInv, TailerShapes, TailerState,
       Tailer!TailerAssumption
  <2>2. tailer' = tailer /\ counted' = counted /\ counting' = counting /\ restarts' = restarts
    BY <1>2 DEF Tailer!Writes
  <2>3. HoldsHalf' /\ TailerTends'
    BY <2>2 DEF TailerInv
  <2>4. ReadIsCounted' /\ CountBound'
    BY <2>2 DEF TailerInv, Tailer!Complete
  <2> QED BY <2>1, <2>3, <2>4 DEF TailerInv
<1>3. CASE Tailer!Launches
  <2>1. tailer' = [on |-> TRUE, offset |-> 0, pending |-> FALSE]
    BY <1>3 DEF Tailer!Launches, Tailer!NewTailer, Tailer!NoTailer
  <2>2. TailerShapes'
    BY <1>3, <2>1 DEF Tailer!Launches, TailerInv, TailerShapes, TailerState
  <2>3. \A l \in Tailer!Lines : l \notin Tailer!Complete(0)
    BY DEF Tailer!Complete, Tailer!Lines, Tailer!TailerAssumption
  <2>4. \A l \in Tailer!Lines : counted[l] = 0
    BY <1>3 DEF Tailer!Launches, TailerInv
  <2>5. restarts \in Nat
    BY DEF TailerInv, TailerShapes
  <2> QED
    BY <1>3, <2>1, <2>2, <2>3, <2>4, <2>5 DEF Tailer!Launches, TailerInv, Tailer!Complete
<1>4. CASE Tailer!Resumes
  BY <1>4 DEF Tailer!Resumes, TailerInv, TailerShapes, Tailer!Complete
<1>5. CASE Tailer!Exits
  BY <1>5 DEF Tailer!Exits, TailerInv, TailerShapes, Tailer!Complete
<1>6. CASE Tailer!Finishes
  <2>1. CASE tailer.on
    <3>1. Tailer!Counts /\ tailer' = [on |-> FALSE, offset |-> 0, pending |-> FALSE]
      BY <1>6, <2>1 DEF Tailer!Finishes, Tailer!Stopped, Tailer!NoTailer
    <3>2. /\ counted' \in [Tailer!Lines -> Nat] /\ torn' = {}
          /\ \A l \in Tailer!Lines : counted'[l] <= 1 + restarts
      BY <2>1, <3>1, PassCounts
    <3>3. TailerShapes'
      BY <1>6, <3>1, <3>2 DEF Tailer!Finishes, TailerInv, TailerShapes, TailerState
    <3> QED BY <1>6, <3>1, <3>2, <3>3 DEF Tailer!Finishes, TailerInv
  <2>2. CASE ~tailer.on
    BY <1>6, <2>2 DEF Tailer!Finishes, TailerInv, TailerShapes, Tailer!Complete
  <2> QED BY <2>1, <2>2
<1>7. CASE Tailer!Reattaches
  <2>1. tailer' = [on |-> TRUE, offset |-> 0, pending |-> FALSE]
    BY <1>7 DEF Tailer!Reattaches, Tailer!NewTailer, Tailer!NoTailer
  <2>2. TailerShapes'
    BY <1>7, <2>1 DEF Tailer!Reattaches, TailerInv, TailerShapes, TailerState
  <2>3. \A l \in Tailer!Lines : l \notin Tailer!Complete(0)
    BY DEF Tailer!Complete, Tailer!Lines, Tailer!TailerAssumption
  <2>4. \A l \in Tailer!Lines : counted[l] \in Nat /\ counted[l] <= 1 + restarts
    BY DEF TailerInv, TailerShapes
  <2>5. restarts \in Nat
    BY DEF TailerInv, TailerShapes
  <2> QED
    BY <1>7, <2>1, <2>2, <2>3, <2>4, <2>5 DEF Tailer!Reattaches, TailerInv,
       Tailer!Complete
<1>8. CASE Tailer!Reused
  <2>1. TailerShapes' /\ ~tailer.on
    BY <1>8 DEF Tailer!Reused, TailerInv, TailerShapes
  <2>2. \A l \in Tailer!Lines : counted'[l] = 0
    BY <1>8 DEF Tailer!Reused
  <2>3. restarts \in Nat
    BY DEF TailerInv, TailerShapes
  <2> QED BY <1>8, <2>1, <2>2, <2>3 DEF Tailer!Reused, TailerInv, Tailer!Complete
<1>9. CASE UNCHANGED Tailer!vars
  BY <1>9 DEF Tailer!vars, TailerInv, TailerShapes, Tailer!Complete
<1> QED BY <1>1, <1>2, <1>3, <1>4, <1>5, <1>6, <1>7, <1>8, <1>9 DEF Tailer!Next

LEMMA TailerInvariant == Spec => []TailerInv
<1>1. Init => TailerInv
  BY TailerInit, Assumed DEF Init
<1>2. TailerInv /\ [Next]_vars => TailerInv'
  BY TailerStep, Assumed, TailerFrame
<1> QED BY <1>1, <1>2, PTL DEF Spec

-----------------------------------------------------------------------------
\* A row counts a line once for the life that wrote it, and once more for each
\* restart; a line read in two pieces is not torn (usageTailer.ts, readNewLines).
THEOREM CountsAreBounded == Spec => []Tailer!TypeOK
<1>1. TailerInv => Tailer!TypeOK
  <2> SUFFICES ASSUME TailerInv PROVE Tailer!TypeOK
    OBVIOUS
  <2>1. size \in 0..2 * MaxLines
    BY Assumed DEF TailerInv, TailerShapes, Tailer!TailerAssumption
  <2>2. tailer \in [on : BOOLEAN, offset : 0..size, pending : BOOLEAN]
    BY DEF TailerInv, TailerShapes, TailerState
  <2>3. counted \in [Tailer!Lines -> 0..1 + restarts]
    <3>1. \A l \in Tailer!Lines : counted[l] \in 0..1 + restarts
      BY DEF TailerInv, TailerShapes, CountBound
    <3> QED BY <3>1 DEF TailerInv, TailerShapes
  <2> QED BY <2>1, <2>2, <2>3 DEF Tailer!TypeOK, TailerInv, TailerShapes
<1> QED BY <1>1, TailerInvariant, PTL

\* When a life that has a tailer ends, every line written so far is in its row:
\* the last pass of stop() in usageTailer.ts, after whatever was read before.
THEOREM EndsCounted == Spec => LifeCounted
<1>1. TailerInv /\ [Next]_vars
        => [Tailer!Finishes /\ tailer.on
              => \A l \in Tailer!Complete(size) : counted'[l] > 0]_(Tailer!vars)
  <2> SUFFICES ASSUME TailerInv, Tailer!Finishes, tailer.on
               PROVE  \A l \in Tailer!Complete(size) : counted'[l] > 0
    OBVIOUS
  <2>1. Tailer!Counts
    BY DEF Tailer!Finishes, Tailer!Stopped
  <2> QED BY <2>1, PassCounts, Assumed
<1> QED BY <1>1, TailerInvariant, PTL DEF Spec, LifeCounted, Tailer!LifeCounted

===============================================================================
