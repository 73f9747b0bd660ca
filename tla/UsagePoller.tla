------------------------------ MODULE UsagePoller ------------------------------
(***************************************************************************)
(* The server's view of the account's rate limits: a poller that asks      *)
(* Anthropic every five minutes, or sooner when a run or a change of the   *)
(* credentials nudges it, keeps the answer in the database and announces   *)
(* each threshold that is crossed.  Fetches overlap; the server restarts.  *)
(*                                                                         *)
(* One bucket stands for all, a window of it for its reset time, and time  *)
(* for whether the five minutes since something have passed.               *)
(***************************************************************************)
EXTENDS Integers, FiniteSets

CONSTANTS
  None,
  Polls,        \* as many polls may be under way at once
  NumWindows    \* bound on the windows of the bucket

PollerAssumption ==
  /\ NumWindows \in Nat \ {0} /\ IsFiniteSet(Polls)
  /\ None \notin 1..NumWindows
  /\ None \notin [window : 1..NumWindows, level : {0, 75, 90}]
  /\ None \notin [window : 1..NumWindows, level : {0, 75, 90}, told : {0, 75, 90},
                  toldIn : 1..NumWindows \cup {None}]

VARIABLES
  api,        \* what Anthropic would answer: the window, the level of use
  row,        \* the bucket's row, or None
  state,      \* rate_limit_state: when the last success, the last error were
  polls,      \* the calls of pollOnce() under way
  timer,      \* armed, due, or off while its poll is under way
  said,       \* the highest threshold announced in each window
  again,      \* whether one was announced that was not higher
  disturbed   \* whether an answer was late, or without the bucket

ghosts == <<said, again, disturbed>>
vars == <<api, row, state, polls, timer, ghosts>>

Windows == 1..NumWindows
Levels == {0, 75, 90}
Bucket == [window : Windows, level : Levels]

\* When something happened: in the last five minutes, or before, or never.
Times == {"fresh", "old"}

Idle == [pc |-> "idle", at |-> "old", timed |-> FALSE, answer |-> None]
UnderWay == {p \in Polls : polls[p].pc # "idle"}

Init ==
  /\ api = [window |-> 1, level |-> 0]
  /\ row = None /\ state = [observed |-> "old", error |-> "old"]
  /\ polls = [p \in Polls |-> Idle] /\ timer = "due"
  /\ said = [w \in Windows |-> 0] /\ again = FALSE /\ disturbed = FALSE

-----------------------------------------------------------------------------
\* The table of buckets

\* replaceAll(): the row is updated, inserted, or deleted with the bucket gone.
Replaced(answer) ==
  IF answer = None THEN None
  ELSE [window |-> answer.window, level |-> answer.level,
        told |-> IF row = None THEN 0 ELSE row.told,
        toldIn |-> IF row = None THEN None ELSE row.toldIn]

\* Mutant: what was announced is forgotten with every poll.
ForgetsAlways(r) == r.toldIn # None

\* clearNotifiedIfReset()
Forgets(r) == r.toldIn # None /\ r.toldIn # r.window

Cleared(r) ==
  IF r # None /\ Forgets(r) THEN [r EXCEPT !.told = 0, !.toldIn = None] ELSE r

\* The threshold that is crossed, if one is.
Crossed(r) ==
  IF r = None THEN 0
  ELSE IF r.level >= 90 /\ r.told < 90 THEN 90
  ELSE IF r.level >= 75 /\ r.told < 75 THEN 75 ELSE 0

-----------------------------------------------------------------------------
\* pollOnce

\* lastAttemptAt() is the later of the two.
LastAttempt == {state.observed, state.error}

Rearmed(p) == timer' = IF polls[p].timed THEN "armed" ELSE timer

\* markError()
Failed(at) == state' = [state EXCEPT !.error = at]

\* The call up to its first await; if the credentials hold no token it ends there.
Started(p, token, timed) ==
  /\ polls[p] = Idle
  /\ IF token
     THEN /\ polls' = [polls EXCEPT ![p] = [Idle EXCEPT !.pc = "asked", !.at = "fresh", !.timed = timed]]
          /\ timer' = IF timed THEN "off" ELSE timer
          /\ UNCHANGED state
     ELSE /\ Failed("fresh")
          /\ timer' = IF timed THEN "armed" ELSE timer
          /\ UNCHANGED polls
  /\ UNCHANGED <<api, row, ghosts>>

TimerFires(p, token) == timer = "due" /\ Started(p, token, TRUE)

\* A run has started or ended, or the credentials have changed.
Nudge(p, token) == "fresh" \notin LastAttempt /\ Started(p, token, FALSE)

\* Anthropic answers; the body is still to arrive.  The bucket may be missing.
Answers(p, answer) ==
  /\ polls[p].pc = "asked" /\ answer \in {api, None}
  /\ polls' = [polls EXCEPT ![p].pc = "answered", ![p].answer = answer]
  /\ UNCHANGED <<api, row, state, timer, ghosts>>

\* 401, 429, another status, or no connection.
PollFails(p) ==
  /\ polls[p].pc # "idle"
  /\ Failed(polls[p].at) /\ Rearmed(p)
  /\ polls' = [polls EXCEPT ![p] = Idle]
  /\ UNCHANGED <<api, row, ghosts>>

\* The rest of the call runs in one go.  setObserved() also clears the error,
\* with the time at which the call began.
PollEnds(p) ==
  LET answer == polls[p].answer
      r == Cleared(Replaced(answer))
      t == Crossed(r)
  IN
    /\ polls[p].pc = "answered"
    /\ IF t = 0
       THEN row' = r /\ UNCHANGED <<said, again>>
       ELSE /\ row' = [r EXCEPT !.told = t, !.toldIn = r.window]
            /\ said' = [said EXCEPT ![r.window] = IF t > @ THEN t ELSE @]
            /\ again' = (again \/ t <= said[r.window])
    /\ disturbed' = (disturbed \/ (row # None /\ (answer = None \/ answer.window < row.window)))
    /\ state' = [observed |-> polls[p].at, error |-> "old"] /\ Rearmed(p)
    /\ polls' = [polls EXCEPT ![p] = Idle]
    /\ UNCHANGED api

-----------------------------------------------------------------------------
\* Around the poller

AccountUsed(level) ==
  /\ api' = [api EXCEPT !.level = level]
  /\ UNCHANGED <<row, state, polls, timer, ghosts>>

WindowResets ==
  /\ api.window < NumWindows
  /\ api' = [window |-> api.window + 1, level |-> 0]
  /\ UNCHANGED <<row, state, polls, timer, ghosts>>

Later(t) == IF t = "fresh" THEN "old" ELSE t

FiveMinutes ==
  /\ state' = [observed |-> Later(state.observed), error |-> Later(state.error)]
  /\ polls' = [p \in Polls |-> [polls[p] EXCEPT !.at = Later(@)]]
  /\ timer' = IF timer = "armed" THEN "due" ELSE timer
  /\ UNCHANGED <<api, row, ghosts>>

\* The first poll of start() waits until five minutes after the last attempt.
Restart ==
  /\ polls' = [p \in Polls |-> Idle]
  /\ timer' = IF "fresh" \in LastAttempt THEN "armed" ELSE "due"
  /\ UNCHANGED <<api, row, state, ghosts>>

Next ==
  \/ \E p \in Polls, token \in BOOLEAN : TimerFires(p, token) \/ Nudge(p, token)
  \/ \E p \in Polls : PollFails(p) \/ PollEnds(p)
  \/ \E p \in Polls, answer \in {api, None} : Answers(p, answer)
  \/ \E level \in Levels : AccountUsed(level)
  \/ WindowResets \/ FiveMinutes \/ Restart

Spec == Init /\ [][Next]_vars

-----------------------------------------------------------------------------
\* The shape of the state; there is a timer, or a poll of its own that arms it.
TypeOK ==
  /\ api \in Bucket
  /\ row = None \/ row \in [window : Windows, level : Levels, told : Levels,
                            toldIn : Windows \cup {None}]
  /\ state \in [observed : Times, error : Times]
  /\ timer \in {"armed", "due", "off"}
  /\ (timer = "off") = (\E p \in Polls : polls[p].timed)

\* "emits once per bucket per window" (oauthUsagePoller.test.ts:186): over
\* overlapping polls, failures and restarts, whatever way the use goes, a
\* threshold is not announced again in its window, nor a lower one after it,
\* unless an answer about an earlier window comes in late or one lacks the bucket.
ThresholdOnce == again => disturbed

===============================================================================
