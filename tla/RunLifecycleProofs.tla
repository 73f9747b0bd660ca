--------------------------- MODULE RunLifecycleProofs ---------------------------
(***************************************************************************)
(* Theorems about RunLifecycle, for any number of runs, lives, containers, *)
(* attempts and crashes.                                                   *)
(***************************************************************************)
EXTENDS RunLifecycle, FiniteSetTheorems, TLAPS

(***************************************************************************)
(* The statements of the store keep rows well formed.                      *)
(***************************************************************************)
LEMMA ZeroAttempts == 0 \in 0 .. MaxAttempts
BY MaxAttemptsIsNat

LEMMA NewRows == NoRow \in Row /\ QueuedRow \in Row
<1>1. NoRow \in Row
  BY ZeroAttempts DEF NoRow, Row, RunState
<1>2. QueuedRow \in Row
  BY ZeroAttempts DEF NoRow, QueuedRow, Row, RunState
<1> QED BY <1>1, <1>2

LEMMA MarksKeepRows ==
  ASSUME NEW row \in Row, NEW c \in Containers \cup {None}
  PROVE  /\ MarkStartingFromQueued(row, c) \in Row
         /\ MarkStartingForResume(row, c) \in Row
         /\ MarkStartingForContinueRequest(row) \in Row
         /\ MarkStartingContainer(row, c) \in Row
         /\ MarkRunning(row) \in Row
         /\ MarkWaiting(row) \in Row
<1>1. MarkStartingFromQueued(row, c) \in Row
  BY DEF MarkStartingFromQueued, Row, RunState, Live
<1>2. MarkStartingForResume(row, c) \in Row
  BY DEF MarkStartingForResume, Row, RunState, Live
<1>3. MarkStartingForContinueRequest(row) \in Row
  BY ZeroAttempts DEF MarkStartingForContinueRequest, Row, RunState, Live
<1>4. MarkStartingContainer(row, c) \in Row
  BY DEF MarkStartingContainer, Row
<1>5. MarkRunning(row) \in Row
  BY DEF MarkRunning, Row, RunState, Live
<1>6. MarkWaiting(row) \in Row
  BY DEF MarkWaiting, Row, RunState, Live
<1> QED BY <1>1, <1>2, <1>3, <1>4, <1>5, <1>6

LEMMA MarkStartedKeepsRows ==
  ASSUME NEW row \in Row, NEW life \in Life
  PROVE  MarkStarted(row, life) \in Row
<1>1. life.ctr \in Containers \cup {None}
  BY DEF Life
<1> QED BY <1>1, MarksKeepRows DEF MarkStarted

LEMMA MarkFinishedKeepsRows ==
  ASSUME NEW row \in Row, NEW final \in Terminal
  PROVE  MarkFinished(row, final) \in Row
BY DEF MarkFinished, Row, RunState, Terminal

LEMMA SetSessionKeepsRows ==
  ASSUME NEW row \in Row, NEW found \in BOOLEAN
  PROVE  SetSession(row, found) \in Row
<1>1. row.session \/ found \in BOOLEAN
  OBVIOUS
<1> QED BY <1>1 DEF SetSession, Row

LEMMA MarkAwaitingKeepsRows ==
  ASSUME NEW row \in Row, ~OverCap(row)
  PROVE  MarkAwaitingResume(row) \in Row
<1>1. row.attempts + 1 \in 0 .. MaxAttempts
  BY MaxAttemptsIsNat DEF OverCap, Row
<1> QED BY <1>1 DEF MarkAwaitingResume, Row, RunState, Live

(***************************************************************************)
(* Type correctness.                                                       *)
(***************************************************************************)
LEMMA FreeLifeIsLife == FreeLife \in Life
BY DEF FreeLife, Life, PC

LEMMA LivesKeepType ==
  ASSUME TypeOK, NEW l \in Lives,
         NEW life \in Life, life.pc # "free" => life.run \in Runs,
         lives' = [lives EXCEPT ![l] = life]
  PROVE  /\ lives' \in [Lives -> Life]
         /\ \A m \in Lives : lives'[m].pc # "free" => lives'[m].run \in Runs
BY DEF TypeOK

LEMMA GotoKeepsType ==
  ASSUME TypeOK, NEW l \in Lives, lives[l].pc # "free",
         NEW p \in PC, Goto(l, p)
  PROVE  /\ lives' \in [Lives -> Life]
         /\ \A m \in Lives : lives'[m].pc # "free" => lives'[m].run \in Runs
BY DEF TypeOK, Goto, Life

LEMMA EndKeepsType ==
  ASSUME TypeOK, NEW l \in Lives, End(l)
  PROVE  /\ lives' \in [Lives -> Life]
         /\ \A m \in Lives : lives'[m].pc # "free" => lives'[m].run \in Runs
BY FreeLifeIsLife DEF TypeOK, End, FreeLife

LEMMA BeginKeepsType ==
  ASSUME TypeOK, NEW l \in Lives, NEW r \in Runs,
         NEW k \in {"launch", "resume", "continue"},
         NEW p \in {"creating", "promoting"}, Begin(l, r, k, p)
  PROVE  /\ lives' \in [Lives -> Life]
         /\ \A m \in Lives : lives'[m].pc # "free" => lives'[m].run \in Runs
<1>1. [FreeLife EXCEPT !.pc = p, !.kind = k, !.run = r] \in Life
  BY DEF FreeLife, Life, PC
<1> QED BY <1>1 DEF TypeOK, Begin, FreeLife

LEMMA StoreKeepsType ==
  ASSUME TypeOK, NEW r, NEW row \in Row, Store(r, row)
  PROVE  runs' \in [Runs -> Row]
BY DEF TypeOK, Store

LEMMA StartedRow ==
  ASSUME TypeOK, NEW l \in Lives, lives[l].pc # "free"
  PROVE  /\ lives[l].run \in Runs
         /\ lives[l].ctr \in Containers \cup {None}
         /\ runs[lives[l].run] \in Row
         /\ MarkStarted(runs[lives[l].run], lives[l]) \in Row
         /\ \A final \in Terminal :
              MarkFinished(runs[lives[l].run], final) \in Row
         /\ MarkRunning(runs[lives[l].run]) \in Row
         /\ MarkWaiting(runs[lives[l].run]) \in Row
<1>1. lives[l] \in Life /\ lives[l].run \in Runs /\ runs[lives[l].run] \in Row
  BY DEF TypeOK
<1>2. lives[l].ctr \in Containers \cup {None}
  BY <1>1 DEF Life
<1> QED BY <1>1, <1>2, MarkStartedKeepsRows, MarksKeepRows,
           MarkFinishedKeepsRows

LEMMA ThrowKeepsType ==
  ASSUME TypeOK, NEW l \in Lives, lives[l].pc # "free", Throw(l)
  PROVE  /\ runs' \in [Runs -> Row]
         /\ lives' \in [Lives -> Life]
         /\ \A m \in Lives : lives'[m].pc # "free" => lives'[m].run \in Runs
         /\ active' \in [Runs -> Containers \cup {None}]
         /\ limitFired' \subseteq Runs
<1>1. limitFired' \subseteq Runs
  BY DEF TypeOK, Throw
<1>2. CASE lives[l].kind = "launch"
  <2>1. runs' \in [Runs -> Row]
    BY <1>2, StartedRow, StoreKeepsType DEF Throw, Terminal, Continuable
  <2>2. active' \in [Runs -> Containers \cup {None}]
    BY <1>2 DEF Throw, TypeOK, Deactivate
  <2>3. Goto(l, "teardown")
    BY <1>2 DEF Throw
  <2> QED BY <1>1, <2>1, <2>2, <2>3, GotoKeepsType DEF PC
<1>3. CASE lives[l].kind # "launch"
  <2>1. Goto(l, "failing") /\ UNCHANGED <<runs, active>>
    BY <1>3 DEF Throw
  <2> QED BY <1>1, <2>1, GotoKeepsType DEF PC, TypeOK
<1> QED BY <1>2, <1>3

LEMMA DecidedKeepsType ==
  ASSUME TypeOK, NEW l \in Lives, lives[l].pc # "free", Decided(l)
  PROVE  /\ lives' \in [Lives -> Life]
         /\ \A m \in Lives : lives'[m].pc # "free" => lives'[m].run \in Runs
<1>1. [lives[l] EXCEPT !.pc = "removing", !.wasCancelled = FALSE] \in Life
  BY DEF TypeOK, Life, PC
<1> QED BY <1>1 DEF TypeOK, Decided

LEMMA LifeKeepsType ==
  ASSUME TypeOK, NEW l \in Lives, LifeNext(l)
  PROVE  TypeOK'
<1> USE DEF memory, process
<1>1. CASE DraftPromoted(l)
  BY <1>1, GotoKeepsType, EndKeepsType DEF DraftPromoted, TypeOK, PC
<1>2. CASE DraftPromotionFails(l)
  BY <1>2, EndKeepsType, StoreKeepsType, NewRows
  DEF DraftPromotionFails, TypeOK
<1>3. ASSUME NEW c \in Containers, ContainerCreated(l, c)
      PROVE  TypeOK'
  <2>1. [lives[l] EXCEPT !.pc = "starting", !.ctr = c] \in Life
    BY DEF TypeOK, Life, PC
  <2> QED BY <1>3, <2>1 DEF ContainerCreated, TypeOK
<1>4. CASE DockerStart(l)
  BY <1>4 DEF DockerStart, TypeOK
<1>5. CASE StartReturns(l)
  <2>1. lives[l].pc # "free"
    BY <1>5 DEF StartReturns
  <2>2. runs' \in [Runs -> Row]
    BY <1>5, <2>1, StartedRow, StoreKeepsType DEF StartReturns
  <2>3. active' \in [Runs -> Containers \cup {None}]
    BY <1>5, <2>1, StartedRow DEF StartReturns, TypeOK
  <2> QED BY <1>5, <2>1, <2>2, <2>3, GotoKeepsType DEF StartReturns, TypeOK, PC
<1>6. CASE BootFails(l)
  <2>1. lives[l].pc # "free"
    BY <1>6 DEF BootFails
  <2>2. runs' \in [Runs -> Row]
    BY <1>6, <2>1, StartedRow, StoreKeepsType
    DEF BootFails, Terminal, Continuable
  <2> QED BY <1>6, <2>1, <2>2, EndKeepsType DEF BootFails, TypeOK, Deactivate
<1>7. CASE RuntimeStateSeen(l)
  <2>1. lives[l].pc # "free"
    BY <1>7 DEF RuntimeStateSeen, Watching
  <2>2. runs' \in [Runs -> Row]
    BY <1>7, <2>1, StartedRow, StoreKeepsType DEF RuntimeStateSeen
  <2> QED BY <1>7, <2>2 DEF RuntimeStateSeen, TypeOK
<1>8. CASE LimitDetected(l)
  <2>1. lives[l].run \in Runs
    BY <1>8 DEF LimitDetected, Watching, TypeOK
  <2>2. [lives[l] EXCEPT !.detected = TRUE] \in Life
    BY DEF TypeOK, Life
  <2> QED BY <1>8, <2>1, <2>2 DEF LimitDetected, TypeOK
<1>9. CASE WaitReturns(l)
  <2>1. ASSUME NEW b \in BOOLEAN
        PROVE  [lives[l] EXCEPT !.pc = "reading", !.wasCancelled = b] \in Life
    BY DEF TypeOK, Life, PC
  <2>2. (lives[l].run \in cancelled) \in BOOLEAN
    OBVIOUS
  <2>3. [lives[l] EXCEPT !.pc = "reading",
                         !.wasCancelled = lives[l].run \in cancelled] \in Life
    BY <2>1, <2>2, Zenon
  <2> QED BY <1>9, <2>3 DEF WaitReturns, TypeOK
<1>10. CASE WaitFails(l)
  BY <1>10, ThrowKeepsType DEF WaitFails, TypeOK
<1>11. CASE FailureRecorded(l)
  <2>1. lives[l].pc # "free"
    BY <1>11 DEF FailureRecorded
  <2>2. runs' \in [Runs -> Row]
    BY <1>11, <2>1, StartedRow, StoreKeepsType
    DEF FailureRecorded, Terminal, Continuable
  <2> QED BY <1>11, <2>1, <2>2, EndKeepsType
          DEF FailureRecorded, TypeOK, Deactivate
<1>12. ASSUME NEW outcome \in Outcome, NEW limited \in BOOLEAN, NEW found \in Scans,
              ResultIsRateLimit(l, outcome, limited, found)
       PROVE  TypeOK'
  <2> DEFINE r == lives[l].run
             row == SetSession(runs[r], found)
  <2>1. lives[l].pc # "free" /\ r \in Runs /\ found \in BOOLEAN
    BY <1>12, ScansAreBoolean DEF ResultIsRateLimit, TypeOK
  <2>2. row \in Row
    BY <2>1, StartedRow, SetSessionKeepsRows
  <2>3. runs' \in [Runs -> Row] /\ timers' \subseteq Runs
    <3>1. CASE OverCap(row)
      BY <1>12, <2>2, <3>1, MarkFinishedKeepsRows, StoreKeepsType
      DEF ResultIsRateLimit, Terminal, Continuable, TypeOK
    <3>2. CASE ~OverCap(row)
      BY <1>12, <2>1, <2>2, <3>2, MarkAwaitingKeepsRows, StoreKeepsType
      DEF ResultIsRateLimit, TypeOK
    <3> QED BY <3>1, <3>2
  <2> QED BY <1>12, <2>1, <2>3, DecidedKeepsType DEF ResultIsRateLimit, TypeOK
<1>13. ASSUME NEW outcome \in Outcome, NEW limited \in BOOLEAN, NEW found \in Scans,
              ResultIsFinal(l, outcome, limited, found)
       PROVE  TypeOK'
  <2>1. lives[l].pc # "free" /\ found \in BOOLEAN
    BY <1>13, ScansAreBoolean DEF ResultIsFinal
  <2>2. SetSession(runs[lives[l].run], found) \in Row
    BY <2>1, StartedRow, SetSessionKeepsRows
  <2>3. TerminalState(l, outcome) \in Terminal
    BY DEF TerminalState, Terminal, Continuable
  <2>4. runs' \in [Runs -> Row]
    BY <1>13, <2>2, <2>3, MarkFinishedKeepsRows, StoreKeepsType
    DEF ResultIsFinal
  <2> QED BY <1>13, <2>1, <2>4, DecidedKeepsType DEF ResultIsFinal, TypeOK
<1>14. ASSUME NEW found \in Scans, ResultIsRestoreFailure(l, found)
       PROVE  TypeOK'
  <2>1. lives[l].pc # "free" /\ found \in BOOLEAN
    BY <1>14, ScansAreBoolean DEF ResultIsRestoreFailure
  <2>2. SetSession(runs[lives[l].run], found) \in Row
    BY <2>1, StartedRow, SetSessionKeepsRows
  <2>3. runs' \in [Runs -> Row]
    BY <1>14, <2>2, MarkFinishedKeepsRows, StoreKeepsType
    DEF ResultIsRestoreFailure, MarkResumeFailed, Terminal
  <2> QED BY <1>14, <2>1, <2>3, DecidedKeepsType
          DEF ResultIsRestoreFailure, TypeOK
<1>15. CASE ResultOfDeletedRun(l)
  BY <1>15, ThrowKeepsType DEF ResultOfDeletedRun, TypeOK
<1>16. CASE ContainerRemoved(l)
  <2>1. lives[l].pc # "free" /\ Goto(l, "teardown")
    BY <1>16 DEF ContainerRemoved
  <2>2. active' \in [Runs -> Containers \cup {None}] /\ limitFired' \subseteq Runs
    BY <1>16 DEF ContainerRemoved, Deactivate, TypeOK
  <2> QED BY <1>16, <2>1, <2>2, GotoKeepsType DEF ContainerRemoved, TypeOK, PC
<1>17. CASE WatchersStopped(l)
  BY <1>17, EndKeepsType DEF WatchersStopped, Deactivate, TypeOK
<1>18. CASE StdinAttached(l)
  <2>1. lives[l].pc # "free" /\ Goto(l, "backfilling")
    BY <1>18 DEF StdinAttached
  <2>2. active' \in [Runs -> Containers \cup {None}]
    BY <1>18, <2>1, StartedRow DEF StdinAttached, TypeOK
  <2> QED BY <1>18, <2>1, <2>2, GotoKeepsType DEF StdinAttached, TypeOK, PC
<1>19. CASE LogsFollowed(l)
  BY <1>19, GotoKeepsType DEF LogsFollowed, TypeOK, PC
<1>20. CASE ReattachFails(l)
  <2>1. lives[l].pc # "free"
    BY <1>20 DEF ReattachFails
  <2>2. runs' \in [Runs -> Row]
    BY <1>20, <2>1, StartedRow, StoreKeepsType
    DEF ReattachFails, Terminal, Continuable
  <2> QED BY <1>20, <2>2, EndKeepsType DEF ReattachFails, TypeOK
<1> QED
  BY <1>1, <1>2, <1>3, <1>4, <1>5, <1>6, <1>7, <1>8, <1>9, <1>10, <1>11,
     <1>12, <1>13, <1>14, <1>15, <1>16, <1>17, <1>18, <1>19, <1>20
  DEF LifeNext

LEMMA UserKeepsType ==
  ASSUME TypeOK, NEW r \in Runs, UserNext(r)
  PROVE  TypeOK'
<1> USE DEF memory, process
<1>0. runs[r] \in Row
  BY DEF TypeOK
<1>1. ASSUME NEW l \in Lives, CreateRun(l, r) PROVE TypeOK'
  BY <1>1, BeginKeepsType, StoreKeepsType, NewRows DEF CreateRun, TypeOK
<1>2. ASSUME NEW l \in Lives, CreateRunFromDraft(l, r) PROVE TypeOK'
  BY <1>2, BeginKeepsType, StoreKeepsType, NewRows
  DEF CreateRunFromDraft, TypeOK
<1>3. ASSUME NEW l \in Lives, ContinueRun(l, r) PROVE TypeOK'
  <2>1. runs' \in [Runs -> Row]
    BY <1>0, <1>3, MarksKeepRows, StoreKeepsType DEF ContinueRun
  <2> QED BY <1>3, <2>1, BeginKeepsType DEF ContinueRun, TypeOK
<1>4. CASE CreateRunUnlaunched(r)
  BY <1>4, StoreKeepsType, NewRows DEF CreateRunUnlaunched, TypeOK
<1>5. CASE CancelAwaiting(r)
  <2>1. runs' \in [Runs -> Row]
    BY <1>0, <1>5, MarkFinishedKeepsRows, StoreKeepsType
    DEF CancelAwaiting, Terminal, Continuable
  <2> QED BY <1>5, <2>1 DEF CancelAwaiting, TypeOK
<1>6. CASE CancelRunning(r)
  BY <1>6 DEF CancelRunning, TypeOK
<1>7. CASE DeleteRun(r)
  BY <1>7, StoreKeepsType, NewRows DEF DeleteRun, TypeOK
<1>8. CASE ResumeNow(r)
  BY <1>8 DEF ResumeNow, TypeOK
<1> QED BY <1>1, <1>2, <1>3, <1>4, <1>5, <1>6, <1>7, <1>8 DEF UserNext

LEMMA OnFireKeepsType ==
  ASSUME TypeOK, NEW r \in Runs, OnFire(r)
  PROVE  /\ lives' \in [Lives -> Life]
         /\ \A m \in Lives : lives'[m].pc # "free" => lives'[m].run \in Runs
BY BeginKeepsType DEF OnFire, TypeOK

LEMMA ServerKeepsType ==
  ASSUME TypeOK,
         \/ \E r \in Runs : TimerFires(r) \/ NowFires(r) \/ RecoveryNext(r)
         \/ \E c \in Containers : ContainerExit(c) \/ StopReturns(c)
         \/ DeleteProject \/ Crash \/ Restart \/ Rehydrate
  PROVE  TypeOK'
<1> USE DEF memory, process
<1>1. ASSUME NEW r \in Runs, TimerFires(r) PROVE TypeOK'
  BY <1>1, OnFireKeepsType DEF TimerFires, TypeOK
<1>2. ASSUME NEW r \in Runs, NowFires(r) PROVE TypeOK'
  BY <1>2, OnFireKeepsType DEF NowFires, TypeOK
<1>3. ASSUME NEW r \in Runs, RecoverLost(r) PROVE TypeOK'
  <2>1. runs[r] \in Row
    BY DEF TypeOK
  <2>2. runs' \in [Runs -> Row]
    BY <1>3, <2>1, MarkFinishedKeepsRows, StoreKeepsType
    DEF RecoverLost, Terminal, Continuable
  <2> QED BY <1>3, <2>2 DEF RecoverLost, TypeOK
<1>4. ASSUME NEW r \in Runs, NEW l \in Lives, RecoverReattached(l, r)
      PROVE  TypeOK'
  <2>1. runs[r].container \in Containers \cup {None}
    BY DEF TypeOK, Row
  <2>2. [FreeLife EXCEPT !.pc = "attaching", !.kind = "reattach",
                         !.run = r, !.ctr = runs[r].container] \in Life
    BY <2>1 DEF FreeLife, Life, PC
  <2> QED BY <1>4, <2>2 DEF RecoverReattached, TypeOK, FreeLife
<1>5. ASSUME NEW c \in Containers, ContainerExit(c) PROVE TypeOK'
  BY <1>5 DEF ContainerExit, TypeOK
<1>6. ASSUME NEW c \in Containers, StopReturns(c) PROVE TypeOK'
  BY <1>6 DEF StopReturns, TypeOK
<1>7. CASE DeleteProject
  BY <1>7, NewRows DEF DeleteProject, TypeOK
<1>8. CASE Crash
  <2>1. crashes' \in 0 .. MaxCrashes
    BY <1>8, MaxCrashesIsNat DEF Crash, TypeOK
  <2>2. /\ lives' \in [Lives -> Life]
        /\ \A m \in Lives : lives'[m].pc = "free"
    BY <1>8, FreeLifeIsLife DEF Crash, FreeLife
  <2> QED BY <1>8, <2>1, <2>2 DEF Crash, TypeOK
<1>9. CASE Restart
  BY <1>9 DEF Restart, Listed, TypeOK
<1>10. CASE Rehydrate
  BY <1>10 DEF Rehydrate, TypeOK
<1> QED
  BY <1>1, <1>2, <1>3, <1>4, <1>5, <1>6, <1>7, <1>8, <1>9, <1>10
  DEF RecoveryNext

LEMMA InitIsTyped == Init => TypeOK
BY NewRows, FreeLifeIsLife, MaxCrashesIsNat DEF Init, TypeOK, FreeLife

LEMMA StepKeepsType == TypeOK /\ [Next]_vars => TypeOK'
<1> SUFFICES ASSUME TypeOK, [Next]_vars PROVE TypeOK'
  OBVIOUS
<1>1. CASE Next
  BY <1>1, LifeKeepsType, UserKeepsType, ServerKeepsType DEF Next
<1>2. CASE UNCHANGED vars
  BY <1>2 DEF vars, memory, process, TypeOK
<1> QED BY <1>1, <1>2

\* The variables keep their types: in particular a run never uses more
\* automatic resumes than the settings allow, whatever lives overlap.
THEOREM TypeCorrect == Spec => []TypeOK
BY InitIsTyped, StepKeepsType, PTL DEF Spec

(***************************************************************************)
(* Every live row has a driver.  Drives(l, r) compares the container of    *)
(* the row with the container of the life, so the invariant needs to know  *)
(* that only live rows record a container (a Continue starts from none),   *)
(* and that a life has none before createContainer resolves.               *)
(***************************************************************************)
ContainerOnlyWhileLive ==
  \A r \in Runs : runs[r].container # None => runs[r].state \in Live

BootingHoldsNothing ==
  \A l \in Lives : lives[l].pc \in {"free", "promoting", "creating"}
                     => lives[l].ctr = None

DriverInv ==
  TypeOK /\ ContainerOnlyWhileLive /\ BootingHoldsNothing /\ LiveRowHasDriver

LEMMA DriversKept ==
  ASSUME LiveRowHasDriver, server' = server, toRecover' = toRecover,
         \A r \in Runs :
           runs'[r].state \in Live =>
             \/ \E m \in Lives : Drives(m, r)'
             \/ /\ runs[r].state \in Live
                /\ \A m \in Lives : Drives(m, r) => Drives(m, r)'
  PROVE  LiveRowHasDriver'
BY DEF LiveRowHasDriver

\* Once the outcome of a run is recorded, its row is not live any more.
LEMMA FinishedRow ==
  ASSUME NEW row, NEW final \in Terminal,
         row.container # None => row.state \in Live
  PROVE  /\ MarkFinished(row, final).state \notin Live \cup {"awaiting_resume"}
         /\ MarkFinished(row, final).container = None
BY DEF MarkFinished, Terminal, Continuable, Live

Supported ==
  ContainerOnlyWhileLive /\ BootingHoldsNothing /\ LiveRowHasDriver

\* A life records an outcome, or deletes its row: the row is not live any more.
LEMMA DecidingLife ==
  ASSUME DriverInv, NEW l \in Lives, NEW row,
         Store(lives[l].run, row), row.state \notin Live, row.container = None,
         lives[l].run \in Runs,
         lives' \in [Lives -> Life],
         \A m \in Lives \ {l} : lives'[m] = lives[m],
         lives'[l].pc \in {"free", "promoting", "creating"}
           => lives'[l].ctr = None,
         server' = server, toRecover' = toRecover
  PROVE  Supported'
<1>1. \A r \in Runs : runs'[r] = IF r = lives[l].run THEN row ELSE runs[r]
  BY DEF Store, DriverInv, TypeOK
<1>2. ContainerOnlyWhileLive'
  BY <1>1 DEF ContainerOnlyWhileLive, DriverInv
<1>3. BootingHoldsNothing'
  BY DEF BootingHoldsNothing, DriverInv
<1>4. LiveRowHasDriver'
  <2>1. ASSUME NEW r \in Runs, runs'[r].state \in Live
        PROVE  /\ runs[r].state \in Live
               /\ \A m \in Lives : Drives(m, r) => Drives(m, r)'
    BY <1>1, <2>1 DEF Drives
  <2> QED BY <2>1, DriversKept DEF DriverInv
<1> QED BY <1>2, <1>3, <1>4 DEF Supported

\* A life moves on without touching its row: it was no driver, or still is one.
LEMMA PassiveLife ==
  ASSUME DriverInv, NEW l \in Lives, runs' = runs,
         \A m \in Lives \ {l} : lives'[m] = lives[m],
         \/ lives[l].pc \notin Undecided
         \/ /\ lives'[l].pc \in Undecided
            /\ lives'[l].run = lives[l].run
            /\ lives[l].ctr \in {None, lives'[l].ctr},
         lives'[l].pc \in {"free", "promoting", "creating"}
           => lives'[l].ctr = None,
         server' = server, toRecover' = toRecover
  PROVE  Supported'
<1>1. ContainerOnlyWhileLive'
  BY DEF ContainerOnlyWhileLive, DriverInv
<1>2. BootingHoldsNothing'
  BY DEF BootingHoldsNothing, DriverInv
<1>3. LiveRowHasDriver'
  <2>1. \A r \in Runs, m \in Lives : Drives(m, r) => Drives(m, r)'
    BY DEF Drives
  <2> QED BY <2>1, DriversKept DEF DriverInv
<1> QED BY <1>1, <1>2, <1>3 DEF Supported

LEMMA LifeUpdate ==
  ASSUME TypeOK, NEW l \in Lives
  PROVE  /\ End(l) => /\ lives'[l] = FreeLife
                      /\ \A m \in Lives \ {l} : lives'[m] = lives[m]
         /\ \A p : Goto(l, p) =>
              /\ lives'[l] = [lives[l] EXCEPT !.pc = p]
              /\ lives'[l].pc = p
              /\ lives'[l].run = lives[l].run /\ lives'[l].ctr = lives[l].ctr
              /\ lives'[l].kind = lives[l].kind
              /\ \A m \in Lives \ {l} : lives'[m] = lives[m]
         /\ Decided(l) =>
              /\ lives'[l].pc = "removing"
              /\ lives'[l].run = lives[l].run /\ lives'[l].ctr = lives[l].ctr
              /\ \A m \in Lives \ {l} : lives'[m] = lives[m]
<1>1. lives[l] \in Life
  BY DEF TypeOK
<1> QED BY <1>1 DEF TypeOK, End, Goto, Decided, Life

LEMMA ThrowKeepsDrivers ==
  ASSUME DriverInv, NEW l \in Lives, lives[l].pc \in Undecided, Throw(l),
         lives[l].run \in Runs, lives' \in [Lives -> Life],
         server' = server, toRecover' = toRecover
  PROVE  Supported'
<1>0. TypeOK
  BY DEF DriverInv
<1>1. CASE lives[l].kind = "launch"
  <2> DEFINE row == MarkFinished(runs[lives[l].run], "failed")
  <2>1. row.state \notin Live /\ row.container = None
    BY FinishedRow DEF DriverInv, ContainerOnlyWhileLive, Terminal, Continuable
  <2>2. Store(lives[l].run, row) /\ Goto(l, "teardown")
    BY <1>1 DEF Throw
  <2> HIDE DEF row
  <2> QED BY <1>0, <2>1, <2>2, LifeUpdate, DecidingLife
<1>2. CASE lives[l].kind # "launch"
  <2>1. runs' = runs /\ Goto(l, "failing")
    BY <1>2 DEF Throw
  <2> QED BY <1>0, <2>1, LifeUpdate, PassiveLife DEF Undecided
<1> QED BY <1>1, <1>2

LEMMA LifeKeepsDrivers ==
  ASSUME DriverInv, TypeOK', NEW l \in Lives, LifeNext(l)
  PROVE  Supported'
<1> DEFINE r == lives[l].run
<1>0. /\ TypeOK /\ lives' \in [Lives -> Life]
      /\ lives[l].pc # "free" => r \in Runs
      /\ FreeLife.ctr = None
  BY DEF DriverInv, TypeOK, FreeLife
<1>a. \A final \in Terminal :
        /\ r \in Runs => MarkFinished(runs[r], final).state \notin Live
        /\ r \in Runs => MarkFinished(runs[r], final).container = None
  BY FinishedRow DEF DriverInv, ContainerOnlyWhileLive
<1>b. "failed" \in Terminal /\ "resume_failed" \in Terminal
  BY DEF Terminal, Continuable
<1> USE DEF memory, process
<1>1. CASE DraftPromoted(l)
  <2>1. /\ runs' = runs /\ server' = server /\ toRecover' = toRecover
        /\ Goto(l, "creating") \/ End(l)
        /\ lives[l].pc = "promoting"
    BY <1>1 DEF DraftPromoted
  <2>2. lives[l].ctr = None
    BY <2>1 DEF DriverInv, BootingHoldsNothing
  <2> QED BY <1>0, <2>1, <2>2, LifeUpdate, PassiveLife DEF Undecided
<1>2. CASE DraftPromotionFails(l)
  <2>1. NoRow.state \notin Live /\ NoRow.container = None
    BY DEF NoRow, Live
  <2> QED BY <1>0, <1>2, <2>1, LifeUpdate, DecidingLife DEF DraftPromotionFails
<1>3. ASSUME NEW c \in Containers, ContainerCreated(l, c)
      PROVE  Supported'
  <2>1. /\ runs' = runs /\ server' = server /\ toRecover' = toRecover
        /\ \A m \in Lives \ {l} : lives'[m] = lives[m]
        /\ lives'[l].pc = "starting" /\ lives'[l].run = lives[l].run
    BY <1>0, <1>3 DEF ContainerCreated, TypeOK, Life
  <2>2. lives[l].ctr = None
    BY <1>3 DEF ContainerCreated, DriverInv, BootingHoldsNothing
  <2> QED BY <2>1, <2>2, PassiveLife DEF Undecided
<1>4. CASE DockerStart(l)
  <2>1. /\ runs' = runs /\ lives' = lives
        /\ server' = server /\ toRecover' = toRecover
        /\ lives[l].pc = "starting"
    BY <1>4 DEF DockerStart
  <2> QED BY <2>1, PassiveLife DEF Undecided
<1>5. CASE StartReturns(l)
  <2> DEFINE row == MarkStarted(runs[r], lives[l])
  <2>1. /\ lives[l].pc = "starting" /\ r \in Runs
        /\ Store(r, row) /\ Goto(l, "waiting")
        /\ server' = server /\ toRecover' = toRecover
    BY <1>0, <1>5 DEF StartReturns
  <2>2. \A s \in Runs : runs'[s] = IF s = r THEN row ELSE runs[s]
    BY <1>0, <2>1 DEF Store, TypeOK
  <2>3. /\ lives'[l].pc = "waiting" /\ lives'[l].run = r
        /\ lives'[l].ctr = lives[l].ctr
        /\ \A m \in Lives \ {l} : lives'[m] = lives[m]
    BY <1>0, <2>1, LifeUpdate
  <2>4. \/ row = runs[r]
        \/ row.state \in Live /\ row.container = lives[l].ctr
    <3>1. runs[r] \in Row
      BY <1>0, <2>1 DEF TypeOK
    <3> QED BY <3>1 DEF MarkStarted, MarkStartingFromQueued, Live, Row,
                        MarkStartingForResume, MarkStartingContainer
  <2> HIDE DEF row
  <2>5. ContainerOnlyWhileLive'
    BY <2>2, <2>4 DEF ContainerOnlyWhileLive, DriverInv
  <2>6. BootingHoldsNothing'
    BY <2>3 DEF BootingHoldsNothing, DriverInv
  <2>7. ASSUME NEW s \in Runs, runs'[s].state \in Live
        PROVE  \/ \E m \in Lives : Drives(m, s)'
               \/ /\ runs[s].state \in Live
                  /\ \A m \in Lives : Drives(m, s) => Drives(m, s)'
    <3>1. CASE s # r
      BY <2>2, <2>3, <2>7, <3>1 DEF Drives
    <3>2. CASE s = r /\ row = runs[r]
      BY <2>2, <2>3, <2>7, <3>2 DEF Drives, Undecided
    <3>3. CASE s = r /\ row.container = lives[l].ctr
      <4>1. Drives(l, s)'
        BY <2>1, <2>2, <2>3, <3>3 DEF Drives, Undecided
      <4> QED BY <4>1
    <3> QED BY <2>4, <3>1, <3>2, <3>3
  <2>8. LiveRowHasDriver'
    BY <2>1, <2>7, DriversKept DEF DriverInv
  <2> QED BY <2>5, <2>6, <2>8 DEF Supported
<1>6. CASE BootFails(l)
  BY <1>0, <1>6, <1>a, <1>b, LifeUpdate, DecidingLife DEF BootFails
<1>7. CASE RuntimeStateSeen(l)
  <2>1. /\ r \in Runs /\ lives' = lives
        /\ server' = server /\ toRecover' = toRecover
    BY <1>0, <1>7 DEF RuntimeStateSeen, Watching
  <2>2. PICK row : /\ Store(r, row)
                   /\ row = MarkRunning(runs[r]) \/ row = MarkWaiting(runs[r])
    BY <1>7 DEF RuntimeStateSeen
  <2>3. /\ runs[r].state \in Live <=> row.state \in Live
        /\ row.container = runs[r].container
    <3>1. runs[r] \in Row
      BY <1>0, <2>1 DEF TypeOK
    <3> QED BY <2>2, <3>1 DEF MarkRunning, MarkWaiting, Live, Row
  <2>4. \A s \in Runs : runs'[s] = IF s = r THEN row ELSE runs[s]
    BY <1>0, <2>1, <2>2 DEF Store, TypeOK
  <2>5. ContainerOnlyWhileLive'
    BY <2>3, <2>4 DEF ContainerOnlyWhileLive, DriverInv
  <2>6. BootingHoldsNothing'
    BY <2>1 DEF BootingHoldsNothing, DriverInv
  <2>7. \A s \in Runs : runs'[s].state \in Live =>
          /\ runs[s].state \in Live
          /\ \A m \in Lives : Drives(m, s) => Drives(m, s)'
    BY <2>1, <2>3, <2>4 DEF Drives
  <2>8. LiveRowHasDriver'
    BY <2>1, <2>7, DriversKept DEF DriverInv
  <2> QED BY <2>5, <2>6, <2>8 DEF Supported
<1>8. CASE LimitDetected(l)
  <2>1. /\ runs' = runs /\ server' = server /\ toRecover' = toRecover
        /\ \A m \in Lives \ {l} : lives'[m] = lives[m]
        /\ lives'[l].pc = lives[l].pc /\ lives'[l].run = lives[l].run
        /\ lives'[l].ctr = lives[l].ctr
        /\ lives[l].pc \in Watching
    BY <1>0, <1>8 DEF LimitDetected, TypeOK, Life
  <2> QED BY <2>1, PassiveLife DEF Watching, Undecided
<1>9. CASE WaitReturns(l)
  <2>1. /\ runs' = runs /\ server' = server /\ toRecover' = toRecover
        /\ \A m \in Lives \ {l} : lives'[m] = lives[m]
        /\ lives'[l].pc = "reading" /\ lives'[l].run = lives[l].run
        /\ lives'[l].ctr = lives[l].ctr
    BY <1>0, <1>9 DEF WaitReturns, TypeOK, Life
  <2> QED BY <2>1, PassiveLife DEF Undecided
<1>10. CASE WaitFails(l)
  BY <1>0, <1>10, ThrowKeepsDrivers DEF WaitFails, Undecided
<1>11. CASE FailureRecorded(l)
  BY <1>0, <1>11, <1>a, <1>b, LifeUpdate, DecidingLife DEF FailureRecorded
<1>12. ASSUME NEW outcome \in Outcome, NEW limited \in BOOLEAN, NEW found \in Scans,
              ResultIsRateLimit(l, outcome, limited, found)
       PROVE  Supported'
  <2> DEFINE seen == SetSession(runs[r], found)
  <2>1. /\ lives[l].pc = "reading" /\ r \in Runs /\ Decided(l)
        /\ server' = server /\ toRecover' = toRecover
        /\ \/ Store(r, MarkFinished(seen, "failed"))
           \/ Store(r, MarkAwaitingResume(seen))
    BY <1>0, <1>12 DEF ResultIsRateLimit
  <2>2. seen.state = runs[r].state /\ seen.container = runs[r].container
    <3>1. runs[r] \in Row
      BY <1>0, <2>1 DEF TypeOK
    <3> QED BY <3>1 DEF SetSession, Row
  <2>3. seen.container # None => seen.state \in Live
    BY <2>1, <2>2 DEF DriverInv, ContainerOnlyWhileLive
  <2>4. /\ MarkFinished(seen, "failed").state \notin Live
        /\ MarkFinished(seen, "failed").container = None
        /\ MarkAwaitingResume(seen).state \notin Live
        /\ MarkAwaitingResume(seen).container = None
    BY <1>b, <2>3, FinishedRow DEF MarkAwaitingResume, Live
  <2> HIDE DEF seen
  <2> QED BY <1>0, <2>1, <2>4, LifeUpdate, DecidingLife
<1>13. ASSUME NEW outcome \in Outcome, NEW limited \in BOOLEAN, NEW found \in Scans,
              ResultIsFinal(l, outcome, limited, found)
       PROVE  Supported'
  <2> DEFINE seen == SetSession(runs[r], found)
             final == TerminalState(l, outcome)
  <2>1. /\ lives[l].pc = "reading" /\ r \in Runs /\ Decided(l)
        /\ server' = server /\ toRecover' = toRecover
        /\ Store(r, MarkFinished(seen, final))
    BY <1>0, <1>13 DEF ResultIsFinal
  <2>2. seen.container # None => seen.state \in Live
    <3>1. runs[r] \in Row
      BY <1>0, <2>1 DEF TypeOK
    <3> QED BY <2>1, <3>1
            DEF SetSession, Row, DriverInv, ContainerOnlyWhileLive
  <2>3. final \in Terminal
    BY DEF TerminalState, Terminal, Continuable
  <2>4. /\ MarkFinished(seen, final).state \notin Live
        /\ MarkFinished(seen, final).container = None
    BY <2>2, <2>3, FinishedRow
  <2> HIDE DEF seen, final
  <2> QED BY <1>0, <2>1, <2>4, LifeUpdate, DecidingLife
<1>14. ASSUME NEW found \in Scans, ResultIsRestoreFailure(l, found)
       PROVE  Supported'
  <2> DEFINE seen == SetSession(runs[r], found)
  <2>1. /\ lives[l].pc = "reading" /\ r \in Runs /\ Decided(l)
        /\ server' = server /\ toRecover' = toRecover
        /\ Store(r, MarkFinished(seen, "resume_failed"))
    BY <1>0, <1>14 DEF ResultIsRestoreFailure, MarkResumeFailed
  <2>2. seen.container # None => seen.state \in Live
    <3>1. runs[r] \in Row
      BY <1>0, <2>1 DEF TypeOK
    <3> QED BY <2>1, <3>1
            DEF SetSession, Row, DriverInv, ContainerOnlyWhileLive
  <2>4. /\ MarkFinished(seen, "resume_failed").state \notin Live
        /\ MarkFinished(seen, "resume_failed").container = None
    BY <1>b, <2>2, FinishedRow
  <2> HIDE DEF seen
  <2> QED BY <1>0, <2>1, <2>4, LifeUpdate, DecidingLife
<1>15. CASE ResultOfDeletedRun(l)
  BY <1>0, <1>15, ThrowKeepsDrivers DEF ResultOfDeletedRun, Undecided
<1>16. CASE ContainerRemoved(l)
  <2>1. /\ runs' = runs /\ server' = server /\ toRecover' = toRecover
        /\ lives[l].pc = "removing" /\ Goto(l, "teardown")
    BY <1>16 DEF ContainerRemoved
  <2> QED BY <1>0, <2>1, LifeUpdate, PassiveLife DEF Undecided
<1>17. CASE WatchersStopped(l)
  <2>1. /\ runs' = runs /\ server' = server /\ toRecover' = toRecover
        /\ lives[l].pc = "teardown" /\ End(l)
    BY <1>17 DEF WatchersStopped
  <2> QED BY <1>0, <2>1, LifeUpdate, PassiveLife DEF Undecided
<1>18. CASE StdinAttached(l)
  <2>1. /\ runs' = runs /\ server' = server /\ toRecover' = toRecover
        /\ lives[l].pc = "attaching" /\ Goto(l, "backfilling")
    BY <1>18 DEF StdinAttached
  <2> QED BY <1>0, <2>1, LifeUpdate, PassiveLife DEF Undecided
<1>19. CASE LogsFollowed(l)
  <2>1. /\ runs' = runs /\ server' = server /\ toRecover' = toRecover
        /\ lives[l].pc = "backfilling" /\ Goto(l, "waiting")
    BY <1>19 DEF LogsFollowed
  <2> QED BY <1>0, <2>1, LifeUpdate, PassiveLife DEF Undecided
<1>20. CASE ReattachFails(l)
  BY <1>0, <1>20, <1>a, <1>b, LifeUpdate, DecidingLife DEF ReattachFails
<1> QED
  BY <1>1, <1>2, <1>3, <1>4, <1>5, <1>6, <1>7, <1>8, <1>9, <1>10, <1>11,
     <1>12, <1>13, <1>14, <1>15, <1>16, <1>17, <1>18, <1>19, <1>20
  DEF LifeNext


\* A step outside the lives changes no driver: it leaves a row alone, or takes
\* it out of the live states, and starts lives at most where none was.
LEMMA OtherStep ==
  ASSUME DriverInv, server = "down" => server' = "down",
         \A s \in Runs :
           \/ runs'[s] = runs[s] /\ (s \in toRecover => s \in toRecover')
           \/ runs'[s].state \notin Live /\ runs'[s].container = None,
         \A m \in Lives : \/ lives'[m] = lives[m]
                          \/ lives[m].pc = "free" /\ lives'[m].ctr = None
  PROVE  Supported'
<1>1. ContainerOnlyWhileLive'
  BY DEF ContainerOnlyWhileLive, DriverInv
<1>2. BootingHoldsNothing'
  BY DEF BootingHoldsNothing, DriverInv
<1>3. LiveRowHasDriver'
  <2>1. ASSUME NEW s \in Runs, runs'[s].state \in Live, server' # "down"
        PROVE  \/ s \in toRecover'
               \/ \E m \in Lives : Drives(m, s)'
    <3>1. runs'[s] = runs[s] /\ (s \in toRecover => s \in toRecover')
      BY <2>1
    <3>2. CASE s \in toRecover
      BY <3>1, <3>2
    <3>3. ASSUME NEW m \in Lives, Drives(m, s)
          PROVE  Drives(m, s)'
      <4>1. lives'[m] = lives[m]
        BY <3>3 DEF Drives, Undecided
      <4> QED BY <3>1, <3>3, <4>1 DEF Drives
    <3> QED BY <2>1, <3>1, <3>2, <3>3 DEF DriverInv, LiveRowHasDriver
  <2> QED BY <2>1 DEF LiveRowHasDriver
<1> QED BY <1>1, <1>2, <1>3 DEF Supported

LEMMA BegunLife ==
  ASSUME TypeOK, NEW l \in Lives, NEW r, NEW k, NEW p, Begin(l, r, k, p)
  PROVE  /\ lives[l].pc = "free"
         /\ lives'[l].pc = p /\ lives'[l].run = r /\ lives'[l].kind = k
         /\ lives'[l].ctr = None
         /\ \A m \in Lives \ {l} : lives'[m] = lives[m]
BY DEF Begin, TypeOK, FreeLife

LEMMA OnFireBegins ==
  ASSUME TypeOK, NEW r, OnFire(r)
  PROVE  \A m \in Lives : \/ lives'[m] = lives[m]
                          \/ lives[m].pc = "free" /\ lives'[m].ctr = None
<1>1. ASSUME NEW l \in Lives, Begin(l, r, "resume", "creating")
      PROVE  \A m \in Lives : \/ lives'[m] = lives[m]
                              \/ lives[m].pc = "free" /\ lives'[m].ctr = None
  BY <1>1, BegunLife
<1> QED BY <1>1 DEF OnFire

LEMMA StoredRow ==
  ASSUME TypeOK, NEW r \in Runs, NEW row, Store(r, row)
  PROVE  \A s \in Runs : runs'[s] = IF s = r THEN row ELSE runs[s]
BY DEF TypeOK, Store

\* A life that starts with the row's container, or before there is one, drives.
LEMMA NewDriver ==
  ASSUME DriverInv, NEW r \in Runs, NEW l \in Lives,
         lives[l].pc = "free", lives'[l].pc \in {"creating", "attaching"},
         lives'[l].pc = "creating" => lives'[l].ctr = None,
         lives'[l].run = r, runs'[r].container \in {None, lives'[l].ctr},
         runs'[r].container # None => runs'[r].state \in Live,
         \A m \in Lives \ {l} : lives'[m] = lives[m],
         \A s \in Runs \ {r} : runs'[s] = runs[s],
         server = "down" => server' = "down",
         \A s \in toRecover : s = r \/ s \in toRecover'
  PROVE  Supported'
<1>1. ContainerOnlyWhileLive'
  BY DEF ContainerOnlyWhileLive, DriverInv
<1>2. BootingHoldsNothing'
  BY DEF BootingHoldsNothing, DriverInv
<1>3. Drives(l, r)'
  BY DEF Drives, Undecided
<1>4. ASSUME NEW s \in Runs \ {r}, runs'[s].state \in Live, server' # "down"
      PROVE  s \in toRecover' \/ \E m \in Lives : Drives(m, s)'
  <2>1. ASSUME NEW m \in Lives, Drives(m, s)
        PROVE  Drives(m, s)'
    <3>1. m # l
      BY <2>1 DEF Drives, Undecided
    <3> QED BY <2>1, <3>1 DEF Drives
  <2> QED BY <1>4, <2>1 DEF DriverInv, LiveRowHasDriver
<1>5. LiveRowHasDriver'
  BY <1>3, <1>4 DEF LiveRowHasDriver
<1> QED BY <1>1, <1>2, <1>5 DEF Supported

LEMMA UserKeepsDrivers ==
  ASSUME DriverInv, NEW r \in Runs, UserNext(r)
  PROVE  Supported'
<1>0. TypeOK
  BY DEF DriverInv
<1>a. /\ NoRow.state \notin Live /\ NoRow.container = None
      /\ QueuedRow.state \notin Live /\ QueuedRow.container = None
  BY DEF NoRow, QueuedRow, Live
<1>b. \A l \in Lives : \A k, p : Begin(l, r, k, p) =>
        \A m \in Lives : \/ lives'[m] = lives[m]
                         \/ lives[m].pc = "free" /\ lives'[m].ctr = None
  BY <1>0, BegunLife
<1> USE DEF memory, process
<1>1. ASSUME NEW l \in Lives, CreateRun(l, r) PROVE Supported'
  BY <1>0, <1>1, <1>a, <1>b, StoredRow, OtherStep DEF CreateRun
<1>2. ASSUME NEW l \in Lives, CreateRunFromDraft(l, r) PROVE Supported'
  BY <1>0, <1>2, <1>a, <1>b, StoredRow, OtherStep DEF CreateRunFromDraft
<1>3. ASSUME NEW l \in Lives, ContinueRun(l, r) PROVE Supported'
  <2>1. /\ Begin(l, r, "continue", "creating")
        /\ runs[r].state \in Continuable
        /\ Store(r, MarkStartingForContinueRequest(runs[r]))
        /\ server' = server /\ toRecover' = toRecover
    BY <1>3 DEF ContinueRun
  <2>2. runs[r] \in Row /\ runs[r].container = None
    BY <1>0, <2>1 DEF TypeOK, DriverInv, ContainerOnlyWhileLive, Continuable,
                      Live
  <2>3. MarkStartingForContinueRequest(runs[r]).container = None
    BY <2>2 DEF MarkStartingForContinueRequest, Row
  <2> QED BY <1>0, <2>1, <2>3, BegunLife, StoredRow, NewDriver
<1>4. CASE CreateRunUnlaunched(r)
  BY <1>0, <1>4, <1>a, StoredRow, OtherStep DEF CreateRunUnlaunched
<1>5. CASE CancelAwaiting(r)
  <2>1. /\ MarkFinished(runs[r], "cancelled").state \notin Live
        /\ MarkFinished(runs[r], "cancelled").container = None
    BY FinishedRow DEF Terminal, Continuable, DriverInv, ContainerOnlyWhileLive
  <2> QED BY <1>0, <1>5, <2>1, StoredRow, OtherStep DEF CancelAwaiting
<1>6. CASE CancelRunning(r)
  BY <1>6, OtherStep DEF CancelRunning
<1>7. CASE DeleteRun(r)
  BY <1>0, <1>7, <1>a, StoredRow, OtherStep DEF DeleteRun
<1>8. CASE ResumeNow(r)
  BY <1>8, OtherStep DEF ResumeNow
<1> QED BY <1>1, <1>2, <1>3, <1>4, <1>5, <1>6, <1>7, <1>8 DEF UserNext

\* recover() sees every live row when the query's limit is no limit.
LEMMA EveryRowListed ==
  ASSUME TypeOK, ListLimit >= NumRuns, NEW r \in Runs, NEW state,
         runs[r].state = state
  PROVE  r \in Listed(state)
<1> DEFINE newer == {s \in Runs : s > r /\ runs[s].state = state}
<1>1. NumRuns \in Nat /\ ListLimit \in Nat /\ r \in Nat /\ r >= 1
  BY NumRunsIsNat, ListLimitIsNat DEF Runs
<1>2. newer \subseteq (r + 1) .. NumRuns
  BY <1>1 DEF Runs
<1>3. /\ IsFiniteSet((r + 1) .. NumRuns)
      /\ Cardinality((r + 1) .. NumRuns) < NumRuns
  <2>1. r + 1 \in Int /\ NumRuns \in Int /\ r <= NumRuns
    BY <1>1 DEF Runs
  <2>2. /\ IsFiniteSet((r + 1) .. NumRuns)
        /\ Cardinality((r + 1) .. NumRuns)
             = IF r + 1 > NumRuns THEN 0 ELSE NumRuns - (r + 1) + 1
    BY <2>1, FS_Interval
  <2> QED BY <1>1, <2>1, <2>2
<1>4. /\ Cardinality(newer) <= Cardinality((r + 1) .. NumRuns)
      /\ Cardinality(newer) \in Nat
      /\ Cardinality((r + 1) .. NumRuns) \in Nat
  BY <1>2, <1>3, FS_Subset, FS_CardinalityType
<1>5. Cardinality(newer) < ListLimit
  <2> HIDE DEF newer
  <2> QED BY <1>1, <1>3, <1>4
<1> QED BY <1>5 DEF Listed

LEMMA ServerKeepsDrivers ==
  ASSUME DriverInv, ListLimit >= NumRuns,
         \/ \E r \in Runs : TimerFires(r) \/ NowFires(r) \/ RecoveryNext(r)
         \/ \E c \in Containers : ContainerExit(c) \/ StopReturns(c)
         \/ DeleteProject \/ Crash \/ Restart \/ Rehydrate
  PROVE  Supported'
<1>0. TypeOK
  BY DEF DriverInv
<1> USE DEF memory, process
<1>1. ASSUME NEW r \in Runs, TimerFires(r) PROVE Supported'
  BY <1>0, <1>1, OnFireBegins, OtherStep DEF TimerFires
<1>2. ASSUME NEW r \in Runs, NowFires(r) PROVE Supported'
  BY <1>0, <1>2, OnFireBegins, OtherStep DEF NowFires
<1>3. ASSUME NEW r \in Runs, RecoverLost(r) PROVE Supported'
  <2>1. /\ MarkFinished(runs[r], "failed").state \notin Live
        /\ MarkFinished(runs[r], "failed").container = None
    BY FinishedRow DEF Terminal, Continuable, DriverInv, ContainerOnlyWhileLive
  <2>2. /\ Store(r, MarkFinished(runs[r], "failed"))
        /\ toRecover' = toRecover \ {r} /\ server' = server /\ lives' = lives
    BY <1>3 DEF RecoverLost
  <2> QED BY <1>0, <2>1, <2>2, StoredRow, OtherStep
<1>4. ASSUME NEW r \in Runs, NEW l \in Lives, RecoverReattached(l, r)
      PROVE  Supported'
  <2>1. /\ lives[l].pc = "free" /\ runs' = runs
        /\ server' = server /\ toRecover' = toRecover \ {r}
    BY <1>4 DEF RecoverReattached
  <2>2. /\ lives'[l].pc = "attaching" /\ lives'[l].run = r
        /\ lives'[l].ctr = runs[r].container
        /\ \A m \in Lives \ {l} : lives'[m] = lives[m]
    BY <1>0, <1>4 DEF RecoverReattached, TypeOK, FreeLife
  <2>3. runs[r].container # None => runs[r].state \in Live
    BY DEF DriverInv, ContainerOnlyWhileLive
  <2> QED BY <2>1, <2>2, <2>3, NewDriver
<1>5. ASSUME NEW c \in Containers, ContainerExit(c) PROVE Supported'
  BY <1>5, OtherStep DEF ContainerExit
<1>6. ASSUME NEW c \in Containers, StopReturns(c) PROVE Supported'
  BY <1>6, OtherStep DEF StopReturns
<1>7. CASE DeleteProject
  <2>1. NoRow.state \notin Live /\ NoRow.container = None
    BY DEF NoRow, Live
  <2> QED BY <1>7, <2>1, OtherStep DEF DeleteProject
<1>8. CASE Crash
  <2>1. runs' = runs /\ server' = "down" /\ \A l \in Lives : lives'[l].ctr = None
    BY <1>8 DEF Crash, FreeLife
  <2> QED BY <2>1 DEF Supported, DriverInv, ContainerOnlyWhileLive,
                      BootingHoldsNothing, LiveRowHasDriver
<1>9. CASE Restart
  <2>1. runs' = runs /\ lives' = lives
        /\ toRecover' = UNION {Listed(s) : s \in Live}
    BY <1>9 DEF Restart
  <2>2. ASSUME NEW r \in Runs, runs[r].state \in Live
        PROVE  r \in toRecover'
    BY <1>0, <2>1, <2>2, EveryRowListed
  <2> QED BY <2>1, <2>2 DEF Supported, DriverInv, ContainerOnlyWhileLive,
                            BootingHoldsNothing, LiveRowHasDriver
<1>10. CASE Rehydrate
  BY <1>10, OtherStep DEF Rehydrate
<1> QED
  BY <1>1, <1>2, <1>3, <1>4, <1>5, <1>6, <1>7, <1>8, <1>9, <1>10
  DEF RecoveryNext

\* No live row is ever a ghost: some activation of the orchestrator, or the list
\* recover() works through, still owes it an outcome.  The hypothesis is what
\* the code relies on without saying so: listByState's limit lists every row.
THEOREM LiveRowsAreDriven ==
  ASSUME ListLimit >= NumRuns
  PROVE  Spec => []LiveRowHasDriver
<1>1. Init => DriverInv
  <2> SUFFICES ASSUME Init PROVE DriverInv
    OBVIOUS
  <2>1. /\ \A r \in Runs : runs[r].state \notin Live /\ runs[r].container = None
        /\ \A l \in Lives : lives[l].ctr = None
    BY DEF Init, NoRow, FreeLife, Live
  <2> QED BY <2>1, InitIsTyped DEF DriverInv, ContainerOnlyWhileLive,
                                   BootingHoldsNothing, LiveRowHasDriver
<1>2. DriverInv /\ [Next]_vars => DriverInv'
  <2> SUFFICES ASSUME DriverInv, [Next]_vars PROVE DriverInv'
    OBVIOUS
  <2>1. TypeOK'
    BY StepKeepsType DEF DriverInv
  <2>2. CASE Next
    <3>1. Supported'
      BY <2>1, <2>2, LifeKeepsDrivers, UserKeepsDrivers, ServerKeepsDrivers
      DEF Next
    <3> QED BY <2>1, <3>1 DEF DriverInv, Supported
  <2>3. CASE UNCHANGED vars
    BY <2>1, <2>3 DEF vars, memory, process, DriverInv, ContainerOnlyWhileLive,
                      BootingHoldsNothing, LiveRowHasDriver, Drives
  <2> QED BY <2>2, <2>3
<1>3. DriverInv => LiveRowHasDriver
  BY DEF DriverInv
<1> QED BY <1>1, <1>2, <1>3, PTL DEF Spec

-----------------------------------------------------------------------------
(***************************************************************************)
(* What a step may do to a row: that the rows implement RunSpec, that only *)
(* Continue revives a run, that no suspended run is forgotten and no       *)
(* container handle is left behind.                                        *)
(***************************************************************************)

(***************************************************************************)
(* What a step other than Continue does to the columns a reader sees.      *)
(***************************************************************************)
Moves(old, new) ==
  \/ new.state = old.state /\ new.attempts = old.attempts
  \/ /\ new.attempts = old.attempts
     /\ \/ old.state = "none" /\ new.state = "queued"
        \/ old.state \in {"queued", "awaiting_resume"} /\ new.state = "starting"
        \/ old.state \in Live /\ new.state \in {"running", "waiting"}
        \/ old.state # "none" /\ new.state \in Terminal
  \/ /\ old.state \in Live /\ new.state = "awaiting_resume"
     /\ old.attempts < MaxAttempts /\ new.attempts = old.attempts + 1
  \/ new.state = "none" /\ new.attempts = 0

LEMMA MarksMove ==
  ASSUME NEW row \in Row, NEW c \in Containers \cup {None}
  PROVE  /\ Moves(row, MarkStartingFromQueued(row, c))
         /\ Moves(row, MarkStartingForResume(row, c))
         /\ Moves(row, MarkStartingContainer(row, c))
         /\ Moves(row, MarkRunning(row))
         /\ Moves(row, MarkWaiting(row))
         /\ Moves(row, NoRow)
<1>1. Moves(row, MarkStartingFromQueued(row, c))
  BY DEF Moves, MarkStartingFromQueued, Row
<1>2. Moves(row, MarkStartingForResume(row, c))
  BY DEF Moves, MarkStartingForResume, Row
<1>3. Moves(row, MarkStartingContainer(row, c))
  BY DEF Moves, MarkStartingContainer, Row
<1>4. Moves(row, MarkRunning(row))
  BY DEF Moves, MarkRunning, Row, Live
<1>5. Moves(row, MarkWaiting(row))
  BY DEF Moves, MarkWaiting, Row, Live
<1>6. Moves(row, NoRow)
  BY DEF Moves, NoRow
<1> QED BY <1>1, <1>2, <1>3, <1>4, <1>5, <1>6

LEMMA MarkStartedMoves ==
  ASSUME NEW row \in Row, NEW life \in Life
  PROVE  Moves(row, MarkStarted(row, life))
<1>1. life.ctr \in Containers \cup {None}
  BY DEF Life
<1>2. Moves(row, row)
  BY DEF Moves
<1> QED BY <1>1, <1>2, MarksMove DEF MarkStarted

\* The verdicts of a completion come after the session id was recorded.
LEMMA OutcomesMove ==
  ASSUME NEW row \in Row, NEW found \in BOOLEAN, NEW final \in Terminal
  PROVE  /\ Moves(row, MarkFinished(row, final))
         /\ Moves(row, MarkFinished(SetSession(row, found), final))
         /\ ~OverCap(SetSession(row, found))
              => Moves(row, MarkAwaitingResume(SetSession(row, found)))
<1> DEFINE seen == SetSession(row, found)
<1>1. seen \in Row
  BY SetSessionKeepsRows
<1>2. seen.state = row.state /\ seen.attempts = row.attempts
  BY DEF SetSession, Row
<1>3. \A any \in Row : any.state = row.state /\ any.attempts = row.attempts
        => Moves(row, MarkFinished(any, final))
  BY DEF Moves, MarkFinished, Row
<1>4. ASSUME ~OverCap(seen) PROVE Moves(row, MarkAwaitingResume(seen))
  <2>1. row.attempts \in Nat /\ row.attempts < MaxAttempts
    BY <1>2, <1>4, MaxAttemptsIsNat DEF OverCap, Row
  <2> HIDE DEF seen
  <2> QED BY <1>1, <1>2, <2>1 DEF Moves, MarkAwaitingResume, Row
<1> QED BY <1>1, <1>2, <1>3, <1>4

LEMMA StoreMoves ==
  ASSUME TypeOK, NEW r \in Runs, NEW row, Store(r, row), Moves(runs[r], row)
  PROVE  \A s \in Runs : Moves(runs[s], runs'[s])
<1>1. \A s \in Runs : Moves(runs[s], runs[s])
  BY DEF Moves
<1> QED BY <1>1, StoredRow

LEMMA QuietMoves ==
  ASSUME runs' = runs
  PROVE  \A s \in Runs : Moves(runs[s], runs'[s])
BY DEF Moves

LEMMA ThrowMoves ==
  ASSUME TypeOK, NEW l \in Lives, lives[l].pc # "free", Throw(l)
  PROVE  \A s \in Runs : Moves(runs[s], runs'[s])
<1>0. lives[l].run \in Runs /\ runs[lives[l].run] \in Row
  BY DEF TypeOK
<1>1. CASE lives[l].kind = "launch"
  BY <1>0, <1>1, OutcomesMove, StoreMoves DEF Throw, Terminal, Continuable
<1>2. CASE lives[l].kind # "launch"
  BY <1>2, QuietMoves DEF Throw
<1> QED BY <1>1, <1>2

LEMMA LifeMovesRows ==
  ASSUME TypeOK, NEW l \in Lives, LifeNext(l)
  PROVE  \A s \in Runs : Moves(runs[s], runs'[s])
<1> DEFINE r == lives[l].run
<1>0. lives[l].pc # "free" =>
        lives[l] \in Life /\ r \in Runs /\ runs[r] \in Row
  BY DEF TypeOK
<1>a. "failed" \in Terminal /\ "resume_failed" \in Terminal /\ TRUE \in BOOLEAN
  BY DEF Terminal, Continuable
<1>1. CASE DraftPromoted(l)
  BY <1>1, QuietMoves DEF DraftPromoted
<1>2. CASE DraftPromotionFails(l)
  BY <1>0, <1>2, MarksMove, StoreMoves DEF DraftPromotionFails
<1>3. ASSUME NEW c \in Containers, ContainerCreated(l, c)
      PROVE  \A s \in Runs : Moves(runs[s], runs'[s])
  BY <1>3, QuietMoves DEF ContainerCreated
<1>4. CASE DockerStart(l)
  BY <1>4, QuietMoves DEF DockerStart
<1>5. CASE StartReturns(l)
  BY <1>0, <1>5, MarkStartedMoves, StoreMoves DEF StartReturns
<1>6. CASE BootFails(l)
  BY <1>0, <1>6, <1>a, OutcomesMove, StoreMoves DEF BootFails
<1>7. CASE RuntimeStateSeen(l)
  BY <1>0, <1>7, MarksMove, StoreMoves DEF RuntimeStateSeen, Watching
<1>8. CASE LimitDetected(l)
  BY <1>8, QuietMoves DEF LimitDetected
<1>9. CASE WaitReturns(l)
  BY <1>9, QuietMoves DEF WaitReturns
<1>10. CASE WaitFails(l)
  BY <1>10, ThrowMoves DEF WaitFails
<1>11. CASE FailureRecorded(l)
  BY <1>0, <1>11, <1>a, OutcomesMove, StoreMoves DEF FailureRecorded
<1>12. ASSUME NEW outcome \in Outcome, NEW limited \in BOOLEAN, NEW found \in Scans,
              ResultIsRateLimit(l, outcome, limited, found)
       PROVE  \A s \in Runs : Moves(runs[s], runs'[s])
  <2> DEFINE seen == SetSession(runs[r], found)
  <2>1. r \in Runs /\ runs[r] \in Row /\ found \in BOOLEAN
    BY <1>0, <1>12, ScansAreBoolean DEF ResultIsRateLimit
  <2>2. CASE OverCap(seen)
    BY <1>12, <1>a, <2>1, <2>2, OutcomesMove, StoreMoves DEF ResultIsRateLimit
  <2>3. CASE ~OverCap(seen)
    BY <1>12, <1>a, <2>1, <2>3, OutcomesMove, StoreMoves DEF ResultIsRateLimit
  <2> QED BY <2>2, <2>3
<1>13. ASSUME NEW outcome \in Outcome, NEW limited \in BOOLEAN, NEW found \in Scans,
              ResultIsFinal(l, outcome, limited, found)
       PROVE  \A s \in Runs : Moves(runs[s], runs'[s])
  <2>1. r \in Runs /\ runs[r] \in Row /\ found \in BOOLEAN
    BY <1>0, <1>13, ScansAreBoolean DEF ResultIsFinal
  <2>2. TerminalState(l, outcome) \in Terminal
    BY DEF TerminalState, Terminal, Continuable
  <2> QED BY <1>13, <2>1, <2>2, OutcomesMove, StoreMoves DEF ResultIsFinal
<1>14. ASSUME NEW found \in Scans, ResultIsRestoreFailure(l, found)
       PROVE  \A s \in Runs : Moves(runs[s], runs'[s])
  <2>1. r \in Runs /\ runs[r] \in Row /\ found \in BOOLEAN
    BY <1>0, <1>14, ScansAreBoolean DEF ResultIsRestoreFailure
  <2> QED BY <1>14, <1>a, <2>1, OutcomesMove, StoreMoves
          DEF ResultIsRestoreFailure, MarkResumeFailed
<1>15. CASE ResultOfDeletedRun(l)
  BY <1>15, ThrowMoves DEF ResultOfDeletedRun
<1>16. CASE ContainerRemoved(l)
  BY <1>16, QuietMoves DEF ContainerRemoved
<1>17. CASE WatchersStopped(l)
  BY <1>17, QuietMoves DEF WatchersStopped
<1>18. CASE StdinAttached(l)
  BY <1>18, QuietMoves DEF StdinAttached
<1>19. CASE LogsFollowed(l)
  BY <1>19, QuietMoves DEF LogsFollowed
<1>20. CASE ReattachFails(l)
  BY <1>0, <1>20, <1>a, OutcomesMove, StoreMoves DEF ReattachFails
<1> QED
  BY <1>1, <1>2, <1>3, <1>4, <1>5, <1>6, <1>7, <1>8, <1>9, <1>10, <1>11,
     <1>12, <1>13, <1>14, <1>15, <1>16, <1>17, <1>18, <1>19, <1>20
  DEF LifeNext

\* An id without a row has no attempts left over from an earlier run.
NoRowIsBlank == \A r \in Runs : runs[r].state = "none" => runs[r].attempts = 0

RowInv == TypeOK /\ NoRowIsBlank

LEMMA UserMovesRows ==
  ASSUME RowInv, NEW r \in Runs, UserNext(r)
  PROVE  \A s \in Runs : \/ Moves(runs[s], runs'[s])
                         \/ \E l \in Lives : ContinueRun(l, s)
<1>0. TypeOK /\ runs[r] \in Row
  BY DEF RowInv, TypeOK
<1>a. NextId(r) => Moves(runs[r], QueuedRow)
  <2> SUFFICES ASSUME NextId(r) PROVE Moves(runs[r], QueuedRow)
    OBVIOUS
  <2>1. r \in Nat
    BY NumRunsIsNat DEF Runs
  <2>2. runs[r].state = "none" /\ runs[r].attempts = 0
    BY <2>1 DEF NextId, RowInv, NoRowIsBlank
  <2> QED BY <2>2 DEF Moves, QueuedRow, NoRow
<1>b. Moves(runs[r], NoRow) /\ Moves(runs[r], MarkFinished(runs[r], "cancelled"))
  <2>1. "cancelled" \in Terminal /\ TRUE \in BOOLEAN
    BY DEF Terminal, Continuable
  <2> QED BY <1>0, <2>1, MarksMove, OutcomesMove
<1>1. ASSUME NEW l \in Lives, CreateRun(l, r)
      PROVE  \A s \in Runs : Moves(runs[s], runs'[s])
  BY <1>0, <1>1, <1>a, StoreMoves DEF CreateRun
<1>2. ASSUME NEW l \in Lives, CreateRunFromDraft(l, r)
      PROVE  \A s \in Runs : Moves(runs[s], runs'[s])
  BY <1>0, <1>2, <1>a, StoreMoves DEF CreateRunFromDraft
<1>3. ASSUME NEW l \in Lives, ContinueRun(l, r)
      PROVE  \A s \in Runs \ {r} : Moves(runs[s], runs'[s])
  <2>1. \A s \in Runs \ {r} : runs'[s] = runs[s]
    BY <1>0, <1>3, StoredRow DEF ContinueRun
  <2> QED BY <2>1 DEF Moves
<1>4. CASE CreateRunUnlaunched(r)
  BY <1>0, <1>4, <1>a, StoreMoves DEF CreateRunUnlaunched
<1>5. CASE CancelAwaiting(r)
  BY <1>0, <1>5, <1>b, StoreMoves DEF CancelAwaiting
<1>6. CASE CancelRunning(r)
  BY <1>6, QuietMoves DEF CancelRunning
<1>7. CASE DeleteRun(r)
  BY <1>0, <1>7, <1>b, StoreMoves DEF DeleteRun
<1>8. CASE ResumeNow(r)
  BY <1>8, QuietMoves DEF ResumeNow
<1> QED BY <1>1, <1>2, <1>3, <1>4, <1>5, <1>6, <1>7, <1>8 DEF UserNext

LEMMA ServerMovesRows ==
  ASSUME TypeOK,
         \/ \E r \in Runs : TimerFires(r) \/ NowFires(r) \/ RecoveryNext(r)
         \/ \E c \in Containers : ContainerExit(c) \/ StopReturns(c)
         \/ DeleteProject \/ Crash \/ Restart \/ Rehydrate
  PROVE  \A s \in Runs : Moves(runs[s], runs'[s])
<1>1. ASSUME NEW r \in Runs, RecoverLost(r)
      PROVE  \A s \in Runs : Moves(runs[s], runs'[s])
  <2>1. runs[r] \in Row /\ "failed" \in Terminal /\ TRUE \in BOOLEAN
    BY DEF TypeOK, Terminal, Continuable
  <2> QED BY <1>1, <2>1, OutcomesMove, StoreMoves DEF RecoverLost
<1>2. CASE DeleteProject
  <2>1. \A s \in Runs : runs[s] \in Row /\ runs'[s] = NoRow /\ None \in {None}
    BY <1>2 DEF DeleteProject, TypeOK
  <2> QED BY <2>1, MarksMove
<1>3. CASE \E r \in Runs : TimerFires(r) \/ NowFires(r)
  BY <1>3, QuietMoves DEF TimerFires, NowFires
<1>4. ASSUME NEW r \in Runs, NEW l \in Lives, RecoverReattached(l, r)
      PROVE  \A s \in Runs : Moves(runs[s], runs'[s])
  BY <1>4, QuietMoves DEF RecoverReattached
<1>5. CASE \E c \in Containers : ContainerExit(c) \/ StopReturns(c)
  BY <1>5, QuietMoves DEF ContainerExit, StopReturns
<1>6. CASE Crash \/ Restart \/ Rehydrate
  BY <1>6, QuietMoves DEF Crash, Restart, Rehydrate
<1> QED BY <1>1, <1>2, <1>3, <1>4, <1>5, <1>6 DEF RecoveryNext

LEMMA StepMovesRows ==
  ASSUME RowInv, [Next]_vars
  PROVE  \A s \in Runs : \/ Moves(runs[s], runs'[s])
                         \/ \E l \in Lives : ContinueRun(l, s)
<1>1. TypeOK
  BY DEF RowInv
<1>2. CASE UNCHANGED vars
  BY <1>2, QuietMoves DEF vars
<1>3. CASE Next
  BY <1>1, <1>3, LifeMovesRows, UserMovesRows, ServerMovesRows DEF Next
<1> QED BY <1>2, <1>3

LEMMA ContinuedRow ==
  ASSUME TypeOK, NEW r \in Runs, NEW l \in Lives, ContinueRun(l, r)
  PROVE  /\ runs[r].state \in Continuable
         /\ runs'[r].state = "starting" /\ runs'[r].attempts = 0
         /\ lives[l].pc = "free"
         /\ lives'[l].kind = "continue" /\ lives'[l].run = r
<1>1. runs[r] \in Row
  BY DEF TypeOK
<1>2. runs'[r] = MarkStartingForContinueRequest(runs[r])
  BY StoredRow DEF ContinueRun
<1> QED
  BY <1>1, <1>2, BegunLife DEF ContinueRun, MarkStartingForContinueRequest, Row

LEMMA RowsStayBlank == Spec => []RowInv
<1>1. Init => RowInv
  BY InitIsTyped DEF Init, RowInv, NoRowIsBlank, NoRow
<1>2. RowInv /\ [Next]_vars => RowInv'
  <2> SUFFICES ASSUME RowInv, [Next]_vars PROVE RowInv'
    OBVIOUS
  <2>1. TypeOK /\ TypeOK'
    BY StepKeepsType DEF RowInv
  <2>2. ASSUME NEW r \in Runs, runs'[r].state = "none"
        PROVE  runs'[r].attempts = 0
    <3>1. CASE Moves(runs[r], runs'[r])
      BY <2>2, <3>1 DEF Moves, RowInv, NoRowIsBlank, Terminal, Continuable
    <3>2. ASSUME NEW l \in Lives, ContinueRun(l, r) PROVE FALSE
      BY <2>1, <2>2, <3>2, ContinuedRow
    <3> QED BY <3>1, <3>2, StepMovesRows
  <2> QED BY <2>1, <2>2 DEF RowInv, NoRowIsBlank
<1> QED BY <1>1, <1>2, PTL DEF Spec

(***************************************************************************)
(* The table keeps its promise to its readers: every step maps to a step   *)
(* of RunSpec, or to none, for each run.                                   *)
(***************************************************************************)
LEMMA MovesRefine ==
  ASSUME NEW r \in Runs, Moves(runs[r], runs'[r]), NoRowIsBlank
  PROVE  [Seen(r)!Next]_(Seen(r)!run)
BY DEF Moves, NoRowIsBlank, Live, Terminal, Continuable, Seen!Next, Seen!run,
       Seen!Create, Seen!Begin, Seen!Converse, Seen!Suspend, Seen!Finish,
       Seen!Delete, Seen!Alive, Seen!Ended

LEMMA ContinueRefines ==
  ASSUME NEW r \in Runs, runs[r].state \in Continuable,
         runs'[r].state = "starting", runs'[r].attempts = 0
  PROVE  Seen(r)!Next
BY DEF Continuable, Seen!Next, Seen!Continue, Seen!Ended

\* RunLifecycle implements RunSpec once per run, whatever the lives, crashes,
\* deletions and faults do.
THEOREM RowsObeyRunSpec == Spec => ImplementsRunSpec
<1>1. Init => \A r \in Runs : Seen(r)!Init
  BY DEF Init, NoRow, Seen!Init
<1>2. RowInv /\ [Next]_vars => [\A r \in Runs : [Seen(r)!Next]_(Seen(r)!run)]_vars
  <2> SUFFICES ASSUME RowInv, [Next]_vars, NEW r \in Runs
               PROVE  [Seen(r)!Next]_(Seen(r)!run)
    OBVIOUS
  <2>1. CASE Moves(runs[r], runs'[r])
    BY <2>1, MovesRefine DEF RowInv
  <2>2. ASSUME NEW l \in Lives, ContinueRun(l, r)
        PROVE  [Seen(r)!Next]_(Seen(r)!run)
    BY <2>2, ContinuedRow, ContinueRefines DEF RowInv
  <2> QED BY <2>1, <2>2, StepMovesRows
<1> QED BY <1>1, <1>2, RowsStayBlank, PTL DEF Spec, ImplementsRunSpec

\* The outcome of a run is final for everyone but the user who continues it:
\* no late mark of another life, no timer and no recovery revives it.
THEOREM OutcomesAreFinal == Spec => OnlyContinueRevives
<1>1. RowInv /\ [Next]_vars
        => [\A r \in Runs :
              /\ runs[r].state \in Terminal
              /\ runs[r]'.state \in Live \cup {"awaiting_resume", "queued"}
              => \E l \in Lives :
                   /\ lives[l].pc = "free"
                   /\ lives[l]'.kind = "continue" /\ lives[l]'.run = r]_vars
  <2> SUFFICES ASSUME RowInv, [Next]_vars, NEW r \in Runs,
                      runs[r].state \in Terminal,
                      runs'[r].state \in Live \cup {"awaiting_resume", "queued"}
               PROVE  \E l \in Lives : /\ lives[l].pc = "free"
                                       /\ lives'[l].kind = "continue"
                                       /\ lives'[l].run = r
    OBVIOUS
  <2>1. ~Moves(runs[r], runs'[r])
    BY DEF Moves, Terminal, Continuable, Live
  <2> QED BY <2>1, StepMovesRows, ContinuedRow DEF RowInv
<1> QED BY <1>1, RowsStayBlank, PTL DEF Spec, OnlyContinueRevives

(***************************************************************************)
(* No suspended run is forgotten.  AwaitingHasWakeup is inductive: a       *)
(* firing uses up a timer and begins a resume(), and a resume() that ends  *)
(* has taken the row out of awaiting_resume.                               *)
(***************************************************************************)
Woken(r) == r \in timers \cup fires \/ \E l \in Lives : Resuming(l, r)

LEMMA StaysWoken ==
  ASSUME AwaitingHasWakeup, server' = "up" => server = "up",
         \A s \in Runs : runs'[s].state = "awaiting_resume" =>
           \/ Woken(s)'
           \/ /\ runs[s].state = "awaiting_resume"
              /\ s \in timers \cup fires => s \in timers' \cup fires'
              /\ \A m \in Lives : Resuming(m, s) => Resuming(m, s)'
  PROVE  AwaitingHasWakeup'
BY DEF AwaitingHasWakeup, Woken

\* No statement but markAwaitingResume suspends a run.
LEMMA OnlyOneSuspends ==
  ASSUME NEW row \in Row, NEW c \in Containers \cup {None}, NEW any,
         NEW final \in Terminal
  PROVE  /\ \A new \in {MarkStartingFromQueued(row, c),
                        MarkStartingContainer(row, c), MarkRunning(row),
                        MarkWaiting(row)} :
              new.state = "awaiting_resume" => row.state = "awaiting_resume"
         /\ MarkStartingForResume(row, c).state # "awaiting_resume"
         /\ MarkFinished(any, final).state # "awaiting_resume"
         /\ NoRow.state # "awaiting_resume"
         /\ QueuedRow.state # "awaiting_resume"
<1>1. /\ MarkStartingFromQueued(row, c).state = "awaiting_resume"
           => row.state = "awaiting_resume"
      /\ MarkStartingContainer(row, c).state = "awaiting_resume"
           => row.state = "awaiting_resume"
  BY DEF MarkStartingFromQueued, MarkStartingContainer, Row
<1>2. /\ MarkRunning(row).state = "awaiting_resume"
           => row.state = "awaiting_resume"
      /\ MarkWaiting(row).state = "awaiting_resume"
           => row.state = "awaiting_resume"
  BY DEF MarkRunning, MarkWaiting, Row
<1>3. MarkStartingForResume(row, c).state # "awaiting_resume"
  BY DEF MarkStartingForResume, Row
<1>4. MarkFinished(any, final).state # "awaiting_resume"
  BY DEF MarkFinished, Terminal, Continuable
<1>5. NoRow.state # "awaiting_resume" /\ QueuedRow.state # "awaiting_resume"
  BY DEF NoRow, QueuedRow
<1> QED BY <1>1, <1>2, <1>3, <1>4, <1>5

\* A life takes its row to a state that needs no wakeup, or marks it as a
\* watcher does, while it is not resuming the run.
LEMMA LifeLeavesAwake ==
  ASSUME TypeOK, AwaitingHasWakeup, NEW l \in Lives, lives[l].pc # "free",
         \A m \in Lives \ {l} : lives'[m] = lives[m],
         NEW row, Store(lives[l].run, row),
         \/ row.state # "awaiting_resume"
         \/ /\ runs[lives[l].run].state = "awaiting_resume"
            /\ \A s \in Runs : Resuming(l, s) => Resuming(l, s)',
         timers' = timers, fires' = fires, server' = server
  PROVE  AwaitingHasWakeup'
<1>1. /\ lives[l].run \in Runs
      /\ \A s \in Runs : runs'[s] = IF s = lives[l].run THEN row ELSE runs[s]
  BY StoredRow DEF TypeOK
<1>2. ASSUME NEW s \in Runs, runs'[s].state = "awaiting_resume"
      PROVE  /\ runs[s].state = "awaiting_resume"
             /\ \A m \in Lives : Resuming(m, s) => Resuming(m, s)'
  BY <1>1, <1>2 DEF Resuming
<1> QED BY <1>2, StaysWoken

\* A life moves on, and was not resuming its run or still is.
LEMMA LifePasses ==
  ASSUME AwaitingHasWakeup, NEW l \in Lives, runs' = runs,
         \A m \in Lives \ {l} : lives'[m] = lives[m],
         \A s \in Runs : Resuming(l, s) => Resuming(l, s)',
         timers' = timers, fires' = fires, server' = server
  PROVE  AwaitingHasWakeup'
<1>1. \A s \in Runs, m \in Lives : Resuming(m, s) => Resuming(m, s)'
  BY DEF Resuming
<1> QED BY <1>1, StaysWoken

LEMMA ThrowLeavesAwake ==
  ASSUME TypeOK, AwaitingHasWakeup, NEW l \in Lives,
         lives[l].pc \in {"waiting", "reading"}, Throw(l),
         timers' = timers, fires' = fires, server' = server
  PROVE  AwaitingHasWakeup'
<1>1. \A s \in Runs : ~Resuming(l, s)
  BY DEF Resuming
<1>2. CASE lives[l].kind = "launch"
  <2>1. MarkFinished(runs[lives[l].run], "failed").state # "awaiting_resume"
    BY DEF MarkFinished
  <2> QED BY <1>1, <1>2, <2>1, LifeUpdate, LifeLeavesAwake DEF Throw
<1>3. CASE lives[l].kind # "launch"
  BY <1>1, <1>3, LifeUpdate, LifePasses DEF Throw
<1> QED BY <1>2, <1>3

LEMMA LifeKeepsAwake ==
  ASSUME TypeOK, AwaitingHasWakeup, NEW l \in Lives, LifeNext(l)
  PROVE  AwaitingHasWakeup'
<1> DEFINE r == lives[l].run
<1>0. /\ lives[l] \in Life
      /\ lives[l].pc # "free" => r \in Runs /\ runs[r] \in Row
      /\ \A any : MarkFinished(any, "failed").state # "awaiting_resume"
      /\ NoRow.state # "awaiting_resume"
  BY DEF TypeOK, MarkFinished, NoRow
<1>a. lives[l].pc \notin {"creating", "starting"} =>
        \A s \in Runs : ~Resuming(l, s)
  BY DEF Resuming
<1> USE DEF memory, process
<1>1. CASE DraftPromoted(l)
  BY <1>1, <1>a, LifeUpdate, LifePasses DEF DraftPromoted
<1>2. CASE DraftPromotionFails(l)
  BY <1>0, <1>2, LifeUpdate, LifeLeavesAwake DEF DraftPromotionFails
<1>3. ASSUME NEW c \in Containers, ContainerCreated(l, c)
      PROVE  AwaitingHasWakeup'
  <2>1. /\ \A m \in Lives \ {l} : lives'[m] = lives[m]
        /\ lives'[l].pc = "starting" /\ lives'[l].run = r
        /\ lives'[l].kind = lives[l].kind
    BY <1>0, <1>3 DEF ContainerCreated, TypeOK, Life
  <2> QED BY <1>3, <2>1, LifePasses DEF ContainerCreated, Resuming
<1>4. CASE DockerStart(l)
  BY <1>4, LifePasses DEF DockerStart, Resuming
<1>5. CASE StartReturns(l)
  <2> DEFINE row == MarkStarted(runs[r], lives[l])
  <2>1. /\ lives[l].pc = "starting" /\ Store(r, row) /\ Goto(l, "waiting")
        /\ timers' = timers /\ fires' = fires /\ server' = server
    BY <1>5 DEF StartReturns
  <2>2. /\ lives[l].ctr \in Containers \cup {None}
        /\ r \in Runs /\ runs[r] \in Row /\ "failed" \in Terminal
    BY <1>0, <2>1 DEF Life, Terminal, Continuable
  <2>3. CASE lives[l].kind = "resume"
    <3>1. row.state # "awaiting_resume"
      BY <2>2, <2>3, OnlyOneSuspends DEF MarkStarted
    <3> HIDE DEF row
    <3> QED BY <2>1, <3>1, LifeUpdate, LifeLeavesAwake
  <2>4. CASE lives[l].kind # "resume"
    <3>1. row.state = "awaiting_resume" => runs[r].state = "awaiting_resume"
      BY <2>2, <2>4, OnlyOneSuspends DEF MarkStarted
    <3>2. \A s \in Runs : ~Resuming(l, s)
      BY <2>4 DEF Resuming
    <3> HIDE DEF row
    <3> QED BY <2>1, <3>1, <3>2, LifeUpdate, LifeLeavesAwake
  <2> QED BY <2>3, <2>4
<1>6. CASE BootFails(l)
  BY <1>0, <1>6, LifeUpdate, LifeLeavesAwake DEF BootFails
<1>7. CASE RuntimeStateSeen(l)
  <2>1. PICK row : /\ row \in {MarkRunning(runs[r]), MarkWaiting(runs[r])}
                   /\ Store(r, row)
    BY <1>7 DEF RuntimeStateSeen
  <2>2. row.state = "awaiting_resume" => runs[r].state = "awaiting_resume"
    <3>1. runs[r] \in Row /\ None \in Containers \cup {None}
      BY <1>0, <1>7 DEF RuntimeStateSeen, Watching
    <3>2. "failed" \in Terminal
      BY DEF Terminal, Continuable
    <3> QED BY <2>1, <3>1, <3>2, OnlyOneSuspends
  <2>3. \A s \in Runs : ~Resuming(l, s)
    BY <1>7 DEF RuntimeStateSeen, Watching, Resuming
  <2> QED BY <1>7, <2>1, <2>2, <2>3, LifeLeavesAwake
          DEF RuntimeStateSeen, Watching
<1>8. CASE LimitDetected(l)
  <2>1. /\ \A m \in Lives \ {l} : lives'[m] = lives[m]
        /\ \A s \in Runs : ~Resuming(l, s)
    BY <1>8 DEF LimitDetected, TypeOK, Watching, Resuming
  <2> QED BY <1>8, <2>1, LifePasses DEF LimitDetected
<1>9. CASE WaitReturns(l)
  <2>1. \A m \in Lives \ {l} : lives'[m] = lives[m]
    BY <1>9 DEF WaitReturns, TypeOK
  <2> QED BY <1>9, <1>a, <2>1, LifePasses DEF WaitReturns
<1>10. CASE WaitFails(l)
  BY <1>10, ThrowLeavesAwake DEF WaitFails
<1>11. CASE FailureRecorded(l)
  BY <1>0, <1>11, LifeUpdate, LifeLeavesAwake DEF FailureRecorded
<1>12. ASSUME NEW outcome \in Outcome, NEW limited \in BOOLEAN, NEW found \in Scans,
              ResultIsRateLimit(l, outcome, limited, found)
       PROVE  AwaitingHasWakeup'
  <2> DEFINE seen == SetSession(runs[r], found)
  <2>1. /\ lives[l].pc = "reading" /\ r \in Runs /\ Decided(l)
        /\ fires' = fires /\ server' = server
    BY <1>0, <1>12 DEF ResultIsRateLimit
  <2>2. CASE OverCap(seen)
    BY <1>0, <1>12, <2>1, <2>2, LifeUpdate, LifeLeavesAwake
    DEF ResultIsRateLimit
  <2>3. CASE ~OverCap(seen)
    <3>1. /\ Store(r, MarkAwaitingResume(seen)) /\ timers' = timers \cup {r}
      BY <1>12, <2>3 DEF ResultIsRateLimit
    <3>2. \A s \in Runs \ {r} : runs'[s] = runs[s]
      BY <2>1, <3>1, StoredRow
    <3>3. \A s \in Runs, m \in Lives : Resuming(m, s) => Resuming(m, s)'
      BY <1>a, <2>1, LifeUpdate DEF Resuming
    <3> QED BY <2>1, <3>1, <3>2, <3>3, StaysWoken DEF Woken
  <2> QED BY <2>2, <2>3
<1>13. ASSUME NEW outcome \in Outcome, NEW limited \in BOOLEAN, NEW found \in Scans,
              ResultIsFinal(l, outcome, limited, found)
       PROVE  AwaitingHasWakeup'
  <2>1. MarkFinished(SetSession(runs[r], found), TerminalState(l, outcome)).state
          # "awaiting_resume"
    BY <1>0, <1>13 DEF ResultIsFinal, MarkFinished, TerminalState
  <2> QED BY <1>13, <2>1, LifeUpdate, LifeLeavesAwake DEF ResultIsFinal
<1>14. ASSUME NEW found \in Scans, ResultIsRestoreFailure(l, found)
       PROVE  AwaitingHasWakeup'
  <2>1. MarkResumeFailed(SetSession(runs[r], found)).state # "awaiting_resume"
    BY DEF MarkResumeFailed, MarkFinished
  <2> QED BY <1>14, <2>1, LifeUpdate, LifeLeavesAwake DEF ResultIsRestoreFailure
<1>15. CASE ResultOfDeletedRun(l)
  BY <1>15, ThrowLeavesAwake DEF ResultOfDeletedRun
<1>16. CASE ContainerRemoved(l)
  BY <1>16, <1>a, LifeUpdate, LifePasses DEF ContainerRemoved
<1>17. CASE WatchersStopped(l)
  BY <1>17, <1>a, LifeUpdate, LifePasses DEF WatchersStopped
<1>18. CASE StdinAttached(l)
  BY <1>18, <1>a, LifeUpdate, LifePasses DEF StdinAttached
<1>19. CASE LogsFollowed(l)
  BY <1>19, <1>a, LifeUpdate, LifePasses DEF LogsFollowed
<1>20. CASE ReattachFails(l)
  BY <1>0, <1>20, LifeUpdate, LifeLeavesAwake DEF ReattachFails
<1> QED
  BY <1>1, <1>2, <1>3, <1>4, <1>5, <1>6, <1>7, <1>8, <1>9, <1>10, <1>11,
     <1>12, <1>13, <1>14, <1>15, <1>16, <1>17, <1>18, <1>19, <1>20
  DEF LifeNext

LEMMA OnFireWakes ==
  ASSUME TypeOK, AwaitingHasWakeup, NEW r \in Runs, OnFire(r), runs' = runs,
         server' = server,
         \A s \in Runs \ {r} : s \in timers \cup fires => s \in timers' \cup fires'
  PROVE  AwaitingHasWakeup'
<1>1. \A s \in Runs, m \in Lives : Resuming(m, s) => Resuming(m, s)'
  <2>1. \A m \in Lives : lives'[m] = lives[m] \/ lives[m].pc = "free"
    BY OnFireBegins
  <2> QED BY <2>1 DEF Resuming
<1>2. runs[r].state = "awaiting_resume" => Woken(r)'
  <2>1. ASSUME NEW l \in Lives, Begin(l, r, "resume", "creating")
        PROVE  Resuming(l, r)'
    BY <2>1, BegunLife DEF Resuming
  <2> QED BY <2>1 DEF OnFire, Woken
<1> QED BY <1>1, <1>2, StaysWoken

\* A user's step keeps every resume() going, since it begins lives at most.
LEMMA UserKeepsAwake ==
  ASSUME TypeOK, AwaitingHasWakeup, NEW r \in Runs, UserNext(r)
  PROVE  AwaitingHasWakeup'
<1>a. /\ NoRow.state # "awaiting_resume" /\ QueuedRow.state # "awaiting_resume"
      /\ MarkFinished(runs[r], "cancelled").state # "awaiting_resume"
  BY DEF NoRow, QueuedRow, MarkFinished
<1>b. ASSUME NEW row, Store(r, row), row.state # "awaiting_resume",
             fires' = fires, server' = server,
             \A s \in Runs \ {r} : s \in timers => s \in timers',
             \A m \in Lives : lives'[m] = lives[m] \/ lives[m].pc = "free"
      PROVE  AwaitingHasWakeup'
  <2>1. \A s \in Runs : runs'[s] = IF s = r THEN row ELSE runs[s]
    BY <1>b, StoredRow
  <2>2. \A s \in Runs, m \in Lives : Resuming(m, s) => Resuming(m, s)'
    BY <1>b DEF Resuming
  <2> QED BY <1>b, <2>1, <2>2, StaysWoken
<1> USE DEF memory, process
<1>1. ASSUME NEW l \in Lives, CreateRun(l, r) PROVE AwaitingHasWakeup'
  BY <1>1, <1>a, <1>b, BegunLife DEF CreateRun
<1>2. ASSUME NEW l \in Lives, CreateRunFromDraft(l, r) PROVE AwaitingHasWakeup'
  BY <1>2, <1>a, <1>b, BegunLife DEF CreateRunFromDraft
<1>3. ASSUME NEW l \in Lives, ContinueRun(l, r) PROVE AwaitingHasWakeup'
  <2>1. MarkStartingForContinueRequest(runs[r]).state # "awaiting_resume"
    <3>1. runs[r].state \in Continuable /\ runs[r] \in Row
      BY <1>3 DEF ContinueRun, TypeOK
    <3> QED BY <3>1 DEF MarkStartingForContinueRequest, Row
  <2> QED BY <1>3, <1>b, <2>1, BegunLife DEF ContinueRun
<1>4. CASE CreateRunUnlaunched(r)
  BY <1>4, <1>a, <1>b DEF CreateRunUnlaunched
<1>5. CASE CancelAwaiting(r)
  BY <1>5, <1>a, <1>b DEF CancelAwaiting
<1>6. CASE CancelRunning(r)
  BY <1>6, StaysWoken DEF CancelRunning, Resuming
<1>7. CASE DeleteRun(r)
  BY <1>7, <1>a, <1>b DEF DeleteRun
<1>8. CASE ResumeNow(r)
  BY <1>8, StaysWoken DEF ResumeNow, Resuming
<1> QED BY <1>1, <1>2, <1>3, <1>4, <1>5, <1>6, <1>7, <1>8 DEF UserNext

LEMMA ServerKeepsAwake ==
  ASSUME TypeOK, AwaitingHasWakeup,
         \/ \E r \in Runs : TimerFires(r) \/ NowFires(r) \/ RecoveryNext(r)
         \/ \E c \in Containers : ContainerExit(c) \/ StopReturns(c)
         \/ DeleteProject \/ Crash \/ Restart \/ Rehydrate
  PROVE  AwaitingHasWakeup'
<1> USE DEF memory, process
<1>1. ASSUME NEW r \in Runs, TimerFires(r) PROVE AwaitingHasWakeup'
  BY <1>1, OnFireWakes DEF TimerFires
<1>2. ASSUME NEW r \in Runs, NowFires(r) PROVE AwaitingHasWakeup'
  BY <1>2, OnFireWakes DEF NowFires
<1>3. ASSUME NEW r \in Runs, RecoverLost(r) PROVE AwaitingHasWakeup'
  <2>1. \A s \in Runs : runs'[s].state = "awaiting_resume" => runs'[s] = runs[s]
    <3>1. MarkFinished(runs[r], "failed").state # "awaiting_resume"
      BY DEF MarkFinished
    <3> QED BY <1>3, <3>1, StoredRow DEF RecoverLost
  <2> QED BY <1>3, <2>1, StaysWoken DEF RecoverLost, Resuming
<1>4. ASSUME NEW r \in Runs, NEW l \in Lives, RecoverReattached(l, r)
      PROVE  AwaitingHasWakeup'
  <2>1. /\ \A m \in Lives \ {l} : lives'[m] = lives[m]
        /\ \A s \in Runs : ~Resuming(l, s)
    BY <1>4 DEF RecoverReattached, TypeOK, Resuming
  <2> QED BY <1>4, <2>1, LifePasses DEF RecoverReattached
<1>5. ASSUME NEW c \in Containers, ContainerExit(c) \/ StopReturns(c)
      PROVE  AwaitingHasWakeup'
  BY <1>5, StaysWoken DEF ContainerExit, StopReturns, Resuming
<1>6. CASE DeleteProject
  <2>1. \A s \in Runs : runs'[s].state # "awaiting_resume"
    BY <1>6 DEF DeleteProject, NoRow
  <2> QED BY <2>1 DEF AwaitingHasWakeup
<1>7. CASE Crash \/ Restart
  <2>1. server' # "up"
    BY <1>7 DEF Crash, Restart
  <2> QED BY <2>1 DEF AwaitingHasWakeup
<1>8. CASE Rehydrate
  BY <1>8 DEF Rehydrate, AwaitingHasWakeup
<1> QED BY <1>1, <1>2, <1>3, <1>4, <1>5, <1>6, <1>7, <1>8 DEF RecoveryNext

\* While the server is up, every run that awaits its reset has a timer, a
\* pending firing or a resume() under way, through crashes and faults.
THEOREM SuspendedRunsWake == Spec => []AwaitingHasWakeup
<1> DEFINE Inv == TypeOK /\ AwaitingHasWakeup
<1>1. Init => Inv
  BY InitIsTyped DEF Init, AwaitingHasWakeup, NoRow
<1>2. Inv /\ [Next]_vars => Inv'
  <2> SUFFICES ASSUME TypeOK, AwaitingHasWakeup, [Next]_vars PROVE Inv'
    OBVIOUS
  <2>1. CASE Next
    BY <2>1, LifeKeepsAwake, UserKeepsAwake, ServerKeepsAwake, StepKeepsType
    DEF Next
  <2>2. CASE UNCHANGED vars
    BY <2>2, StepKeepsType DEF vars, memory, process, AwaitingHasWakeup, Resuming
  <2> QED BY <2>1, <2>2
<1>3. Inv => AwaitingHasWakeup
  OBVIOUS
<1> HIDE DEF Inv
<1> QED BY <1>1, <1>2, <1>3, PTL DEF Spec

(***************************************************************************)
(* No container handle is left behind.  A life at its last await either    *)
(* deleted its entry before it removed the container or, in reattach(),    *)
(* has yet to; which of the two is what ActiveIsTended does not say.       *)
(***************************************************************************)
Tends(l, r) ==
  /\ lives[l].run = r /\ lives[l].ctr = active[r]
  /\ \/ lives[l].pc \in {"backfilling", "waiting", "reading", "removing", "failing"}
     \/ lives[l].pc = "teardown" /\ lives[l].kind = "reattach"

HandlesTended == \A r \in Runs : active[r] # None => \E l \in Lives : Tends(l, r)

TendedInv == TypeOK /\ HandlesTended

LEMMA StaysTended ==
  ASSUME HandlesTended,
         \A s \in Runs : active'[s] # None =>
           \/ \E m \in Lives : Tends(m, s)'
           \/ active'[s] = active[s] /\ \A m \in Lives : Tends(m, s) => Tends(m, s)'
  PROVE  HandlesTended'
BY DEF HandlesTended

\* A step of one life that leaves the entries alone, and tends what it tended.
LEMMA PassiveTends ==
  ASSUME HandlesTended, NEW l \in Lives, active' = active,
         \A m \in Lives \ {l} : lives'[m] = lives[m],
         \A s \in Runs : Tends(l, s) => Tends(l, s)'
  PROVE  HandlesTended'
<1>1. \A m \in Lives, s \in Runs : Tends(m, s) => Tends(m, s)'
  BY DEF Tends
<1> QED BY <1>1, StaysTended

\* A life deletes the entry of its run, whoever set it.
LEMMA DeactivatingLife ==
  ASSUME TypeOK, HandlesTended, NEW l \in Lives, Deactivate(lives[l].run),
         \A m \in Lives \ {l} : lives'[m] = lives[m]
  PROVE  HandlesTended'
<1>1. \A s \in Runs : active'[s] = IF s = lives[l].run THEN None ELSE active[s]
  BY DEF Deactivate, TypeOK
<1>2. ASSUME NEW s \in Runs, active'[s] # None
      PROVE  active'[s] = active[s] /\ \A m \in Lives : Tends(m, s) => Tends(m, s)'
  BY <1>1, <1>2 DEF Tends
<1> QED BY <1>2, StaysTended

\* A life makes the entry of its run point at its own container.
LEMMA ActivatingLife ==
  ASSUME TypeOK, HandlesTended, NEW l \in Lives,
         active' = [active EXCEPT ![lives[l].run] = lives[l].ctr],
         NEW p \in {"waiting", "backfilling"}, Goto(l, p)
  PROVE  HandlesTended'
<1>1. \A s \in Runs :
        active'[s] = IF s = lives[l].run THEN lives[l].ctr ELSE active[s]
  BY DEF TypeOK
<1>2. /\ \A m \in Lives \ {l} : lives'[m] = lives[m]
      /\ lives'[l].run = lives[l].run /\ lives'[l].ctr = lives[l].ctr
      /\ lives'[l].pc = p
  BY LifeUpdate
<1>3. ASSUME NEW s \in Runs, s # lives[l].run
      PROVE  /\ active'[s] = active[s]
             /\ \A m \in Lives : Tends(m, s) => Tends(m, s)'
  <2>1. ASSUME NEW m \in Lives, Tends(m, s)
        PROVE  m # l /\ Tends(m, s)'
    BY <1>1, <1>2, <1>3, <2>1 DEF Tends
  <2> QED BY <1>1, <1>3, <2>1
<1>4. ASSUME NEW s \in Runs, s = lives[l].run PROVE Tends(l, s)'
  BY <1>1, <1>2, <1>4 DEF Tends
<1> QED BY <1>3, <1>4, StaysTended

\* A life that goes to p, and tends its entry there too.
LEMMA TendingLife ==
  ASSUME TypeOK, HandlesTended, NEW l \in Lives, active' = active,
         NEW p \in {"waiting", "failing", "teardown"}, Goto(l, p),
         p = "teardown" => lives[l].kind = "reattach"
  PROVE  HandlesTended'
<1>1. /\ \A m \in Lives \ {l} : lives'[m] = lives[m]
      /\ lives'[l].run = lives[l].run /\ lives'[l].ctr = lives[l].ctr
      /\ lives'[l].pc = p /\ lives'[l].kind = lives[l].kind
  BY LifeUpdate
<1>2. \A s \in Runs : Tends(l, s) => Tends(l, s)'
  BY <1>1 DEF Tends
<1> QED BY <1>1, <1>2, PassiveTends

LEMMA LifeKeepsTended ==
  ASSUME TypeOK, HandlesTended, ~Faults, NEW l \in Lives, LifeNext(l)
  PROVE  HandlesTended'
<1>0. lives[l] \in Life
  BY DEF TypeOK
<1> USE DEF memory, process
<1>a. lives[l].pc \in {"free", "promoting", "creating", "starting", "attaching"}
        => \A s \in Runs : ~Tends(l, s)
  BY DEF Tends
<1>1. CASE DraftPromoted(l) \/ DraftPromotionFails(l)
  BY <1>1, <1>a, LifeUpdate, PassiveTends DEF DraftPromoted, DraftPromotionFails
<1>2. ASSUME NEW c \in Containers, ContainerCreated(l, c)
      PROVE  HandlesTended'
  <2>1. \A m \in Lives \ {l} : lives'[m] = lives[m]
    BY <1>2 DEF ContainerCreated, TypeOK
  <2> QED BY <1>2, <1>a, <2>1, PassiveTends DEF ContainerCreated
<1>3. CASE DockerStart(l) \/ RuntimeStateSeen(l)
  <2>1. lives' = lives /\ active' = active
    BY <1>3 DEF DockerStart, RuntimeStateSeen
  <2> QED BY <2>1, PassiveTends DEF Tends
<1>4. CASE StartReturns(l)
  BY <1>4, ActivatingLife DEF StartReturns
<1>5. CASE BootFails(l) \/ FailureRecorded(l)
  BY <1>5, LifeUpdate, DeactivatingLife DEF BootFails, FailureRecorded
<1>6. CASE LimitDetected(l)
  <2>1. /\ \A m \in Lives \ {l} : lives'[m] = lives[m]
        /\ lives'[l].pc = lives[l].pc /\ lives'[l].kind = lives[l].kind
        /\ lives'[l].run = lives[l].run /\ lives'[l].ctr = lives[l].ctr
    BY <1>0, <1>6 DEF LimitDetected, TypeOK, Life
  <2> QED BY <1>6, <2>1, PassiveTends DEF LimitDetected, Tends
<1>7. CASE WaitReturns(l)
  <2>1. /\ \A m \in Lives \ {l} : lives'[m] = lives[m]
        /\ lives'[l].pc = "reading"
        /\ lives'[l].run = lives[l].run /\ lives'[l].ctr = lives[l].ctr
    BY <1>0, <1>7 DEF WaitReturns, TypeOK, Life
  <2> QED BY <1>7, <2>1, PassiveTends DEF WaitReturns, Tends
<1>8. ASSUME NEW outcome \in Outcome, NEW limited \in BOOLEAN, NEW found \in Scans,
             \/ ResultIsRateLimit(l, outcome, limited, found)
             \/ ResultIsFinal(l, outcome, limited, found)
             \/ ResultIsRestoreFailure(l, found)
      PROVE  HandlesTended'
  <2>1. Decided(l) /\ active' = active
    BY <1>8 DEF ResultIsRateLimit, ResultIsFinal, ResultIsRestoreFailure
  <2> QED BY <2>1, LifeUpdate, PassiveTends DEF Tends
<1>9. CASE ResultOfDeletedRun(l)
  <2>1. CASE lives[l].kind = "launch"
    BY <1>9, <2>1, LifeUpdate, DeactivatingLife DEF ResultOfDeletedRun, Throw
  <2>2. CASE lives[l].kind # "launch"
    BY <1>9, <2>2, TendingLife DEF ResultOfDeletedRun, Throw
  <2> QED BY <2>1, <2>2
<1>10. CASE ContainerRemoved(l)
  <2>1. CASE lives[l].kind = "reattach"
    BY <1>10, <2>1, TendingLife DEF ContainerRemoved
  <2>2. CASE lives[l].kind # "reattach"
    BY <1>10, <2>2, LifeUpdate, DeactivatingLife DEF ContainerRemoved
  <2> QED BY <2>1, <2>2
<1>11. CASE WatchersStopped(l)
  <2>1. CASE lives[l].kind = "reattach"
    BY <1>11, <2>1, LifeUpdate, DeactivatingLife DEF WatchersStopped
  <2>2. CASE lives[l].kind # "reattach"
    BY <1>11, <2>2, LifeUpdate, PassiveTends DEF WatchersStopped, Tends
  <2> QED BY <2>1, <2>2
<1>12. CASE StdinAttached(l)
  BY <1>12, ActivatingLife DEF StdinAttached
<1>13. CASE LogsFollowed(l)
  BY <1>13, TendingLife DEF LogsFollowed
<1>14. ~WaitFails(l) /\ ~ReattachFails(l)
  BY DEF WaitFails, ReattachFails
<1> QED
  BY <1>1, <1>2, <1>3, <1>4, <1>5, <1>6, <1>7, <1>8, <1>9, <1>10, <1>11,
     <1>12, <1>13, <1>14
  DEF LifeNext

\* Steps outside the lives begin lives, or end all of them with all entries.
LEMMA OthersKeepTended ==
  ASSUME TypeOK, HandlesTended, Next, \A l \in Lives : ~LifeNext(l)
  PROVE  HandlesTended'
<1>1. CASE Crash
  <2>1. \A r \in Runs : active'[r] = None
    BY <1>1 DEF Crash
  <2> QED BY <2>1 DEF HandlesTended
<1>2. CASE ~Crash
  <2>1. /\ active' = active
        /\ \A m \in Lives : lives'[m] = lives[m] \/ lives[m].pc = "free"
    <3> USE DEF memory, process
    <3>1. ASSUME NEW r \in Runs, NEW l \in Lives,
                 \/ CreateRun(l, r) \/ CreateRunFromDraft(l, r)
                 \/ ContinueRun(l, r)
          PROVE  /\ active' = active
                 /\ \A m \in Lives : lives'[m] = lives[m] \/ lives[m].pc = "free"
      BY <3>1, BegunLife DEF CreateRun, CreateRunFromDraft, ContinueRun
    <3>2. ASSUME NEW r \in Runs,
                 \/ CreateRunUnlaunched(r) \/ CancelAwaiting(r)
                 \/ CancelRunning(r) \/ DeleteRun(r) \/ ResumeNow(r)
                 \/ RecoverLost(r)
          PROVE  active' = active /\ lives' = lives
      BY <3>2 DEF CreateRunUnlaunched, CancelAwaiting, CancelRunning, DeleteRun,
                  ResumeNow, RecoverLost
    <3>3. ASSUME NEW r \in Runs, TimerFires(r) \/ NowFires(r)
          PROVE  /\ active' = active
                 /\ \A m \in Lives : lives'[m] = lives[m] \/ lives[m].pc = "free"
      BY <3>3, OnFireBegins DEF TimerFires, NowFires
    <3>4. ASSUME NEW r \in Runs, NEW l \in Lives, RecoverReattached(l, r)
          PROVE  /\ active' = active
                 /\ \A m \in Lives : lives'[m] = lives[m] \/ lives[m].pc = "free"
      BY <3>4 DEF RecoverReattached, TypeOK
    <3>5. ASSUME \/ \E c \in Containers : ContainerExit(c) \/ StopReturns(c)
                 \/ DeleteProject \/ Restart \/ Rehydrate
          PROVE  active' = active /\ lives' = lives
      BY <3>5 DEF ContainerExit, StopReturns, DeleteProject, Restart, Rehydrate
    <3> QED BY <1>2, <3>1, <3>2, <3>3, <3>4, <3>5
            DEF Next, UserNext, RecoveryNext
  <2>2. \A m \in Lives, s \in Runs : Tends(m, s) => Tends(m, s)'
    BY <2>1 DEF Tends
  <2> QED BY <2>1, <2>2, StaysTended
<1> QED BY <1>1, <1>2

\* When Docker and the file system do not fail, stdin, resize, cancel and the
\* proxy never act on a container that no activation of its run tends.
THEOREM HandlesAreTended ==
  ASSUME ~Faults
  PROVE  Spec => []ActiveIsTended
<1>1. Init => TendedInv
  BY InitIsTyped DEF Init, TendedInv, HandlesTended
<1>2. TendedInv /\ [Next]_vars => TendedInv'
  <2> SUFFICES ASSUME TendedInv, [Next]_vars PROVE TendedInv'
    OBVIOUS
  <2>0. TypeOK /\ HandlesTended
    BY DEF TendedInv
  <2>1. CASE Next
    <3>1. HandlesTended'
      BY <2>0, <2>1, LifeKeepsTended, OthersKeepTended
    <3> QED BY <2>0, <3>1, StepKeepsType DEF TendedInv
  <2>2. CASE UNCHANGED vars
    BY <2>0, <2>2, StepKeepsType DEF vars, memory, process, TendedInv,
                                     HandlesTended, Tends
  <2> QED BY <2>1, <2>2
<1>3. TendedInv => ActiveIsTended
  BY DEF TendedInv, HandlesTended, Tends, ActiveIsTended, Watching
<1> QED BY <1>1, <1>2, <1>3, PTL DEF Spec
=================================================================================
