----------------------------- MODULE BrowserProofs -----------------------------
(***************************************************************************)
(* The pages of the browser, for any runs, any overlapping requests and    *)
(* operations, any number of frames and faults.                            *)
(*                                                                         *)
(* TabsMatchState needs no more than itself: whatever makes the page show  *)
(* another state goes through SetRun, which empties the tab that the state *)
(* does not have and drops its request.  ShowsRequested needs the types,   *)
(* and that frames are out only for a run that is shown.                   *)
(*                                                                         *)
(* ReportIsTrue needs OpKnows.  Between the push and the report lie the    *)
(* script's last line, the parser, a timeout and the end of the container. *)
(* OpKnows follows a script through them: which of its states go with a    *)
(* push that landed, and that a script whose result was parsed is over.    *)
(* One that timed out in the run's container is not, and may push yet:     *)
(* nothing is said of it.                                                  *)
(*                                                                         *)
(* OnceAnnounced counts what the watcher said against what the runs did.   *)
(* EndsInv counts the frames on the wire too: with all of them read, a run *)
(* has been announced no more often than it ended, and the socket that the *)
(* frames are on has said nothing that the seed of it had heard already.   *)
(*                                                                         *)
(* TypeOK needs of the ship tab that GitHub has no commit that the         *)
(* safeguard lacks (HubInv), or the counts of the payload would not be     *)
(* numbers, and of the forms that nobody saves blank text.                 *)
(***************************************************************************)
EXTENDS MCBrowser, FiniteSetTheorems, TLAPS

\* The page of a run moves by its own steps, or not at all.
LEMMA PageFrame == [Next]_vars => [Page!Next]_(Page!vars)
BY DEF Next, vars, pageVars, Page!vars

\* So does its ship tab.
LEMMA ShipFrame == [Next]_vars => [Ship!Next]_(Ship!vars)
BY DEF Next, vars, shipVars, Ship!vars, Ship!world, Ship!server, Ship!page

-----------------------------------------------------------------------------
\* Whatever the page comes to show, its tabs are cleared for it.
LEMMA SetRunMatches ==
  ASSUME NEW r, Page!SetRun(r), Page!TabsMatchState
  PROVE  Page!TabsMatchState'
<1>1. CASE run = r
  BY <1>1 DEF Page!SetRun, Page!TabsMatchState, Page!Live
<1>2. CASE run # r /\ Page!Live(r)
  BY <1>2 DEF Page!SetRun, Page!TabsMatchState, Page!Live
<1>3. CASE run # r /\ ~Page!Live(r)
  BY <1>3 DEF Page!SetRun, Page!TabsMatchState, Page!Live, Page!DropsPorts
<1> QED BY <1>1, <1>2, <1>3

\* Every step keeps the tabs to the state that is shown.
LEMMA TabsMatchStep ==
  ASSUME Page!TabsMatchState, [Page!Next]_(Page!vars)
  PROVE  Page!TabsMatchState'
<1> USE DEF Page!TabsMatchState, Page!Live, Page!page, Page!buttons, Page!bounds
<1>1. CASE Page!Changes \/ Page!SocketLost
  BY <1>1 DEF Page!Changes, Page!SocketLost
<1>2. CASE Page!Patches
  <2>1. CASE Page!ForUrl
    BY <1>2, <2>1, SetRunMatches DEF Page!Patches
  <2>2. CASE ~Page!ForUrl
    BY <1>2, <2>2 DEF Page!Patches
  <2> QED BY <2>1, <2>2
<1>3. CASE \E r \in Runs : Page!Navigates(r)
  BY <1>3 DEF Page!Navigates
<1>4. ASSUME NEW p \in Polls,
             Page!Answers(p) \/ Page!Asks(p) \/ Page!NotFound(p) \/ Page!PollFails(p)
      PROVE  Page!TabsMatchState'
  BY <1>4 DEF Page!Answers, Page!Asks, Page!NotFound, Page!PollFails
<1>5. ASSUME NEW p \in Polls, Page!Loads(p)
      PROVE  Page!TabsMatchState'
  BY <1>5, SetRunMatches DEF Page!Loads
<1>6. CASE Page!AsksChanges \/ Page!AsksWip \/ Page!AsksPorts
  BY <1>6 DEF Page!AsksChanges, Page!AsksWip, Page!AsksPorts
<1>7. CASE Page!LoadsChanges \/ Page!LoadsWip \/ Page!LoadsPorts
  BY <1>7 DEF Page!LoadsChanges, Page!LoadsWip, Page!LoadsPorts
<1>8. CASE Page!AsksReload \/ Page!Reloaded \/ Page!Renames
  BY <1>8 DEF Page!AsksReload, Page!Reloaded, Page!Renames
<1>9. CASE Page!Renamed
  BY <1>9, SetRunMatches DEF Page!Renamed
<1>10. CASE UNCHANGED Page!vars
  BY <1>10 DEF Page!vars
<1> QED BY <1>1, <1>2, <1>3, <1>4, <1>5, <1>6, <1>7, <1>8, <1>9, <1>10 DEF Page!Next

\* A run that is live shows no work in progress of its past, and one that is not
\* shows no ports (the guards of the tabs' effects in RunDetail.tsx).
THEOREM TabsAlwaysMatch == Spec => []TabsMatchState
<1>1. Init => Page!TabsMatchState
  BY DEF Init, Page!Init, Page!TabsMatchState
<1>2. Page!TabsMatchState /\ [Next]_vars => Page!TabsMatchState'
  BY TabsMatchStep, PageFrame
<1> QED BY <1>1, <1>2, PTL DEF Spec, TabsMatchState

-----------------------------------------------------------------------------
\* The first poll is of a request's type.
LEMMA FirstPollType ==
  Page!FirstPoll \in [Polls -> Page!States \cup {"none", "asked", "gone"}]
<1>1. Page!NoPolls \in [Polls -> Page!States \cup {"none", "asked", "gone"}]
  BY DEF Page!NoPolls
<1> QED BY <1>1 DEF Page!FirstPoll

\* The initial states have the types.
LEMMA TypeInit ==
  ASSUME Page!PageAssumption, Page!Init
  PROVE  Page!TypeOK
<1>1. polls \in [Polls -> Page!States \cup {"none", "asked", "gone"}]
  BY FirstPollType DEF Page!Init
<1>2. frames \in Seq(Page!States) /\ (frames # <<>> => run # None /\ ~error)
  BY DEF Page!Init
<1> QED BY <1>1, <1>2 DEF Page!Init, Page!TypeOK, Page!States

\* Setting the run keeps the types of what it sets.
LEMMA SetRunTypes ==
  ASSUME Page!PageAssumption, Page!TypeOK, NEW r \in Page!Shown, Page!SetRun(r)
  PROVE  /\ run' \in Page!Shown
         /\ {changes, wip, ports, askChanges, askWip, askPorts}' \subseteq Runs \cup {None}
<1>1. r.id \in Runs
  BY DEF Page!Shown
<1>2. askChanges' \in Runs \cup {None} /\ changes' \in Runs \cup {None}
  BY <1>1 DEF Page!SetRun, Page!TypeOK
<1>3. {wip, ports, askWip, askPorts}' \subseteq Runs \cup {None}
  BY <1>1 DEF Page!SetRun, Page!TypeOK, Page!DropsPorts
<1> QED BY <1>2, <1>3 DEF Page!SetRun

\* Every step keeps the types, and frames to a run that is shown.
LEMMA TypeStep ==
  ASSUME Page!PageAssumption, Page!TypeOK, [Page!Next]_(Page!vars)
  PROVE  Page!TypeOK'
<1> USE DEF Page!page, Page!buttons, Page!bounds
<1>1. CASE Page!Changes
  <2> PICK r \in Runs, s \in Page!States \cup {"gone"} :
        /\ row' = [row EXCEPT ![r] = s]
        /\ \/ UNCHANGED frames
           \/ s # "gone" /\ run # None /\ ~error /\ frames' = Append(frames, s)
        /\ UNCHANGED <<runId, error, polling, polls, Page!page, Page!buttons>>
    BY <1>1 DEF Page!Changes
  <2>1. row' \in [Runs -> Page!States \cup {"gone"}]
    BY DEF Page!TypeOK
  <2>2. frames' \in Seq(Page!States) /\ (frames' # <<>> => run # None /\ ~error)
    BY DEF Page!TypeOK
  <2> QED BY <2>1, <2>2 DEF Page!TypeOK
<1>2. CASE Page!SocketLost
  BY <1>2 DEF Page!SocketLost, Page!TypeOK
<1>3. CASE Page!Patches
  <2>1. run \in Page!Shown /\ Head(frames) \in Page!States /\ frames' \in Seq(Page!States) /\ ~error
    BY <1>3 DEF Page!Patches, Page!TypeOK
  <2>2. [run EXCEPT !.state = Head(frames)] \in Page!Shown
    BY <2>1 DEF Page!Shown
  <2>3. None \notin Page!Shown
    BY DEF Page!PageAssumption
  <2>4. CASE Page!ForUrl
    <3>1. Page!SetRun([run EXCEPT !.state = Head(frames)])
      BY <1>3, <2>4 DEF Page!Patches
    <3>2. /\ run' \in Page!Shown
          /\ {changes, wip, ports, askChanges, askWip, askPorts}' \subseteq Runs \cup {None}
      BY <2>2, <3>1, SetRunTypes
    <3> QED BY <1>3, <2>1, <2>3, <3>2 DEF Page!Patches, Page!TypeOK
  <2>5. CASE ~Page!ForUrl
    BY <1>3, <2>1, <2>3, <2>5 DEF Page!Patches, Page!TypeOK
  <2> QED BY <2>4, <2>5
<1>4. CASE \E r \in Runs : Page!Navigates(r)
  BY <1>4, FirstPollType DEF Page!Navigates, Page!TypeOK
<1>5. ASSUME NEW p \in Polls, Page!Answers(p) \/ Page!Asks(p) \/ Page!PollFails(p)
      PROVE  Page!TypeOK'
  BY <1>5 DEF Page!Answers, Page!Asks, Page!PollFails, Page!TypeOK
<1>6. ASSUME NEW p \in Polls, Page!NotFound(p)
      PROVE  Page!TypeOK'
  <2>1. frames' \in Seq(Page!States) /\ frames' = <<>>
    BY <1>6 DEF Page!NotFound
  <2>2. polls' \in [Polls -> Page!States \cup {"none", "asked", "gone"}]
    BY <1>6 DEF Page!NotFound, Page!TypeOK
  <2> QED BY <1>6, <2>1, <2>2 DEF Page!NotFound, Page!TypeOK
<1>7. ASSUME NEW p \in Polls, Page!Loads(p)
      PROVE  Page!TypeOK'
  <2>1. [id |-> runId, state |-> polls[p]] \in Page!Shown
    BY <1>7 DEF Page!Loads, Page!TypeOK, Page!Shown
  <2>2. Page!SetRun([id |-> runId, state |-> polls[p]])
    BY <1>7 DEF Page!Loads
  <2>3. /\ run' \in Page!Shown
        /\ {changes, wip, ports, askChanges, askWip, askPorts}' \subseteq Runs \cup {None}
    BY <2>1, <2>2, SetRunTypes
  <2>4. frames' \in Seq(Page!States) /\ (frames' # <<>> => run' # None /\ ~error')
    BY <1>7, <2>3 DEF Page!Loads, Page!Socket, Page!TypeOK, Page!PageAssumption
  <2>5. polls' \in [Polls -> Page!States \cup {"none", "asked", "gone"}]
    BY <1>7 DEF Page!Loads, Page!TypeOK
  <2> QED BY <1>7, <2>3, <2>4, <2>5 DEF Page!Loads, Page!TypeOK
<1>8. CASE Page!AsksChanges \/ Page!AsksWip \/ Page!AsksPorts
  BY <1>8 DEF Page!AsksChanges, Page!AsksWip, Page!AsksPorts, Page!TypeOK, Page!Shown
<1>9. CASE Page!LoadsChanges \/ Page!LoadsWip \/ Page!LoadsPorts
  BY <1>9 DEF Page!LoadsChanges, Page!LoadsWip, Page!LoadsPorts, Page!TypeOK
<1>10. CASE Page!AsksReload \/ Page!Reloaded
  BY <1>10 DEF Page!AsksReload, Page!Reloaded, Page!TypeOK, Page!Shown
<1>11. CASE Page!Renames
  <2>1. run.id \in Runs /\ row[run.id] \in Page!States
    BY <1>11 DEF Page!Renames, Page!TypeOK, Page!Shown
  <2> QED BY <1>11, <2>1 DEF Page!Renames, Page!TypeOK, Page!Shown
<1>12. CASE Page!Renamed
  <2>1. rename \in Page!Shown /\ Page!SetRun(rename)
    BY <1>12 DEF Page!Renamed, Page!TypeOK
  <2>2. /\ run' \in Page!Shown
        /\ {changes, wip, ports, askChanges, askWip, askPorts}' \subseteq Runs \cup {None}
    BY <2>1, SetRunTypes
  <2>3. frames' \in Seq(Page!States) /\ (frames' # <<>> => run' # None /\ ~error')
    BY <1>12, <2>2 DEF Page!Renamed, Page!Socket, Page!TypeOK, Page!PageAssumption
  <2> QED BY <1>12, <2>2, <2>3 DEF Page!Renamed, Page!TypeOK
<1>13. CASE UNCHANGED Page!vars
  BY <1>13 DEF Page!vars, Page!TypeOK
<1> QED
  BY <1>1, <1>2, <1>3, <1>4, <1>5, <1>6, <1>7, <1>8, <1>9, <1>10, <1>11, <1>12, <1>13
  DEF Page!Next

\* Types, and frames only while a run is shown.
LEMMA PageTypes == Spec => []Page!TypeOK
<1>1. Init => Page!TypeOK
  BY TypeInit, BrowserAssumption DEF Init
<1>2. Page!TypeOK /\ [Next]_vars => Page!TypeOK'
  BY TypeStep, BrowserAssumption, PageFrame
<1> QED BY <1>1, <1>2, PTL DEF Spec

-----------------------------------------------------------------------------
\* What one step may do to the run that is shown.
TurnsToUrl == run' # run /\ ~Page!Renamed => run'.id = runId'

\* An answer is of the run of the URL, since a navigation drops the earlier ones; a
\* frame changes the state of the run shown, and only if that is the URL's.
LEMMA TurnsStep ==
  ASSUME Page!PageAssumption, Page!TypeOK, [Page!Next]_(Page!vars)
  PROVE  TurnsToUrl
<1> USE DEF TurnsToUrl, Page!page, Page!buttons, Page!bounds
<1>1. CASE Page!Patches
  <2>1. run \in Page!Shown
    BY <1>1 DEF Page!Patches, Page!TypeOK
  <2>2. CASE Page!ForUrl
    <3>1. run' = [run EXCEPT !.state = Head(frames)]
      BY <1>1, <2>2 DEF Page!Patches, Page!SetRun
    <3>2. run'.id = run.id
      BY <2>1, <3>1 DEF Page!Shown
    <3> QED BY <1>1, <2>2, <3>2 DEF Page!Patches, Page!ForUrl
  <2>3. CASE ~Page!ForUrl
    BY <1>1, <2>3 DEF Page!Patches
  <2> QED BY <2>2, <2>3
<1>2. ASSUME NEW p \in Polls, Page!Loads(p)
      PROVE  TurnsToUrl
  BY <1>2 DEF Page!Loads, Page!SetRun
<1>3. CASE Page!Changes \/ Page!SocketLost \/ \E r \in Runs : Page!Navigates(r)
  BY <1>3 DEF Page!Changes, Page!SocketLost, Page!Navigates
<1>4. ASSUME NEW p \in Polls,
             Page!Answers(p) \/ Page!Asks(p) \/ Page!NotFound(p) \/ Page!PollFails(p)
      PROVE  TurnsToUrl
  BY <1>4 DEF Page!Answers, Page!Asks, Page!NotFound, Page!PollFails
<1>5. CASE \/ Page!AsksChanges \/ Page!AsksWip \/ Page!AsksPorts
           \/ Page!LoadsChanges \/ Page!LoadsWip \/ Page!LoadsPorts
  BY <1>5 DEF Page!AsksChanges, Page!AsksWip, Page!AsksPorts, Page!LoadsChanges,
     Page!LoadsWip, Page!LoadsPorts
<1>6. CASE Page!AsksReload \/ Page!Reloaded \/ Page!Renames
  BY <1>6 DEF Page!AsksReload, Page!Reloaded, Page!Renames
<1>7. CASE Page!Renamed
  BY <1>7
<1>8. CASE UNCHANGED Page!vars
  BY <1>8 DEF Page!vars
<1> QED BY <1>1, <1>2, <1>3, <1>4, <1>5, <1>6, <1>7, <1>8 DEF Page!Next

\* But for a renaming that is answered late, the page never turns to another run
\* than its URL's (the `cancelled` flags of the effects in RunDetail.tsx).
THEOREM PageShowsRequested == Spec => ShowsRequested
<1>1. Page!TypeOK /\ [Next]_vars => [TurnsToUrl]_(Page!vars)
  BY TurnsStep, BrowserAssumption, PageFrame
<1>2. [TurnsToUrl]_(Page!vars) => [run' # run /\ ~Page!Renamed => run'.id = runId']_(Page!vars)
  BY DEF TurnsToUrl
<1> QED BY <1>1, <1>2, PageTypes, PTL DEF Spec, ShowsRequested, Page!ShowsRequested

-----------------------------------------------------------------------------

Scripts == {"none", "running", "pushed", "ok", "conflict", "error", "killed"}

Op == [pc : {"none", "sent", "waiting", "replied", "done"}, kind : Ship!Kinds \cup {None},
       script : Scripts, boxed : BOOLEAN, landed : BOOLEAN,
       res : {"complete", "conflict", "git-error", "git-unavailable", "agent", None}]

Children ==
  [of : Ops, asked : Ship!Kinds \cup {None}, told : {"merge", "polish"}, done : BOOLEAN]

Answers(op) == op.pc \in {"replied", "done"}

Handed(kids, o) == \E c \in kids : c.of = o

\* What an operation, its script and its answer have in common.
OpKnows(op) ==
  /\ op.pc \in {"none", "sent"} => op.script = "none" /\ ~op.landed
  /\ op.pc = "sent" => op.kind \in Ship!Kinds
  /\ op.script = "running" => op.kind \in Ship!Kinds \ {"polish"}
  /\ op.script \in {"running", "conflict"} => ~op.landed
  /\ op.script \in {"pushed", "ok"} => op.landed
  /\ Answers(op) /\ op.res = "complete" => op.landed
  /\ Answers(op) /\ op.res = "conflict" => ~op.landed /\ op.script = "none"

OpsInv ==
  /\ live \in BOOLEAN /\ ops \in [Ops -> Op] /\ children \subseteq Children
  /\ \A o \in Ops : OpKnows(ops[o])
  /\ \A o \in Ops : Answers(ops[o]) /\ ops[o].res \in {"conflict", "agent"} => Handed(children, o)

-----------------------------------------------------------------------------
\* A step of one operation that may hand it to an agent keeps the invariant, if the
\* operation's new state does.
LEMMA OneOp ==
  ASSUME OpsInv, NEW o \in Ops, NEW op \in Op, OpKnows(op), UNCHANGED live,
         ops' = [ops EXCEPT ![o] = op],
         children \subseteq children', children' \subseteq Children,
         Answers(op) /\ op.res \in {"conflict", "agent"} => Handed(children', o)
  PROVE  OpsInv'
<1>1. ops' \in [Ops -> Op]
  BY DEF OpsInv
<1>2. ASSUME NEW p \in Ops
      PROVE  OpKnows(ops'[p])
  BY DEF OpsInv
<1>3. ASSUME NEW p \in Ops, Answers(ops'[p]), ops'[p].res \in {"conflict", "agent"}
      PROVE  Handed(children', p)
  <2>1. CASE p = o
    BY <1>3, <2>1 DEF OpsInv
  <2>2. CASE p # o
    BY <1>3, <2>2 DEF OpsInv, Handed
  <2> QED BY <2>1, <2>2
<1> QED BY <1>1, <1>2, <1>3 DEF OpsInv

-----------------------------------------------------------------------------
LEMMA OpsInit ==
  ASSUME Ship!Init
  PROVE  OpsInv
<1>1. Ship!NoOp \in Op /\ OpKnows(Ship!NoOp) /\ ~Answers(Ship!NoOp)
  BY DEF Ship!NoOp, Op, Scripts, OpKnows, Answers
<1> QED BY <1>1 DEF Ship!Init, OpsInv

\* The page, the caches and the agents do nothing to the operations.
LEMMA OthersLeaveOps ==
  ASSUME OpsInv, live' \in BOOLEAN, UNCHANGED <<ops, children>>
  PROVE  OpsInv'
BY DEF OpsInv, Handed

LEMMA OpsStep ==
  ASSUME OpsInv, [Ship!Next]_(Ship!vars)
  PROVE  OpsInv'
<1> USE DEF Ship!world, Ship!server, Ship!page
<1>1. CASE Ship!Commits \/ Ship!MainClashes \/ Ship!Expires \/ Ship!Patches \/ Ship!OpensPr
  BY <1>1, OthersLeaveOps DEF Ship!Commits, Ship!MainClashes, Ship!Expires, Ship!Patches,
     Ship!OpensPr, OpsInv
<1>2. ASSUME NEW g \in Gets, Ship!Asks(g) \/ Ship!Reads(g) \/ Ship!Loads(g)
      PROVE  OpsInv'
  BY <1>2, OthersLeaveOps DEF Ship!Asks, Ship!Reads, Ship!Loads, OpsInv
<1>3. CASE Ship!Ends
  <2>1. \A o \in Ops :
          ops'[o] = IF ops[o].boxed /\ ops[o].script \in {"running", "pushed"}
                    THEN [ops[o] EXCEPT !.script = "killed"] ELSE ops[o]
    BY <1>3 DEF Ship!Ends
  <2>2. \A o \in Ops : ops[o] \in Op /\ OpKnows(ops[o])
    BY DEF OpsInv
  <2>3. ASSUME NEW o \in Ops
        PROVE  /\ ops'[o] \in Op /\ OpKnows(ops'[o])
               /\ ops'[o].pc = ops[o].pc /\ ops'[o].res = ops[o].res
    <3>1. CASE ops[o].boxed /\ ops[o].script \in {"running", "pushed"}
      <4> DEFINE op == [ops[o] EXCEPT !.script = "killed"]
      <4>1. op \in Op /\ OpKnows(op) /\ op.pc = ops[o].pc /\ op.res = ops[o].res
        BY <2>2, <3>1 DEF Op, Scripts, OpKnows, Answers
      <4>2. ops'[o] = op
        BY <2>1, <3>1
      <4> HIDE DEF op
      <4> QED BY <4>1, <4>2
    <3>2. CASE ~(ops[o].boxed /\ ops[o].script \in {"running", "pushed"})
      BY <2>1, <2>2, <3>2
    <3> QED BY <3>1, <3>2
  <2>4. ops' \in [Ops -> Op]
    BY <1>3, <2>3 DEF Ship!Ends
  <2> QED BY <1>3, <2>3, <2>4 DEF Ship!Ends, OpsInv, Handed, Answers
<1>4. ASSUME NEW o \in Ops, NEW kind \in Ship!Kinds, Ship!Clicks(o, kind)
      PROVE  OpsInv'
  <2> DEFINE op == [Ship!NoOp EXCEPT !.pc = "sent", !.kind = kind]
  <2>1. op \in Op /\ OpKnows(op) /\ ~Answers(op)
    BY DEF Ship!NoOp, Op, Scripts, OpKnows, Answers
  <2>2. ops' = [ops EXCEPT ![o] = op] /\ children' = children /\ live' = live
    BY <1>4 DEF Ship!Clicks
  <2> HIDE DEF op
  <2> QED BY <2>1, <2>2, OneOp DEF OpsInv
<1>5. ASSUME NEW o \in Ops, Ship!Delegates(o)
      PROVE  OpsInv'
  <2> DEFINE op == Ship!Answered("agent")
  <2>1. /\ op \in Op /\ OpKnows(op)
    BY DEF Ship!Answered, Ship!NoOp, Op, Scripts, OpKnows, Answers
  <2>2. /\ ops' = [ops EXCEPT ![o] = op] /\ children' = children \cup {Ship!Child(o, "polish")}
        /\ live' = live
    BY <1>5 DEF Ship!Delegates
  <2>3. Ship!Child(o, "polish") \in Children /\ Ship!Child(o, "polish").of = o
    BY DEF Ship!Child, Children, OpsInv, Op
  <2>4. children' \subseteq Children /\ children \subseteq children' /\ Handed(children', o)
    BY <2>2, <2>3 DEF OpsInv, Handed
  <2> HIDE DEF op
  <2> QED BY <2>1, <2>2, <2>4, OneOp
<1>6. ASSUME NEW o \in Ops, Ship!Dispatches(o)
      PROVE  OpsInv'
  <2>1. /\ ops[o] \in Op /\ OpKnows(ops[o]) /\ ops[o].pc = "sent"
        /\ ops[o].kind # "polish"
    BY <1>6 DEF OpsInv, Ship!Dispatches
  <2>2. CASE ops' = [ops EXCEPT ![o] = Ship!Answered("git-unavailable")]
    <3> DEFINE op == Ship!Answered("git-unavailable")
    <3>1. op \in Op /\ OpKnows(op) /\ op.res = "git-unavailable"
      BY DEF Ship!Answered, Ship!NoOp, Op, Scripts, OpKnows, Answers
    <3>2. ops' = [ops EXCEPT ![o] = op] /\ children' = children /\ live' = live
      BY <1>6, <2>2 DEF Ship!Dispatches
    <3> HIDE DEF op
    <3> QED BY <3>1, <3>2, OneOp DEF OpsInv
  <2>3. CASE ops' = [ops EXCEPT ![o].pc = "waiting", ![o].script = "running", ![o].boxed = live]
    <3> DEFINE op == [ops[o] EXCEPT !.pc = "waiting", !.script = "running", !.boxed = live]
    <3>1. op \in Op /\ OpKnows(op) /\ ~Answers(op)
      BY <2>1 DEF Op, Scripts, OpKnows, Answers, OpsInv
    <3>2. ops' = [ops EXCEPT ![o] = op] /\ children' = children /\ live' = live
      BY <1>6, <2>3 DEF Ship!Dispatches
    <3> HIDE DEF op
    <3> QED BY <3>1, <3>2, OneOp DEF OpsInv
  <2> QED BY <1>6, <2>2, <2>3 DEF Ship!Dispatches
<1>7. ASSUME NEW o \in Ops, Ship!Pushes(o)
      PROVE  OpsInv'
  <2>1. ops[o] \in Op /\ OpKnows(ops[o]) /\ ops[o].script = "running"
    BY <1>7 DEF OpsInv, Ship!Pushes
  <2> DEFINE op == [ops[o] EXCEPT !.script = "pushed", !.landed = TRUE]
  <2>2. op \in Op /\ OpKnows(op) /\ op.pc = ops[o].pc /\ op.res = ops[o].res
    BY <2>1 DEF Op, Scripts, OpKnows, Answers
  <2>3. ops' = [ops EXCEPT ![o] = op] /\ children' = children /\ live' = live
    BY <1>7 DEF Ship!Pushes
  <2> HIDE DEF op
  <2> QED BY <2>2, <2>3, OneOp DEF OpsInv, Answers
<1>8. ASSUME NEW o \in Ops, Ship!Prints(o)
      PROVE  OpsInv'
  <2>1. ops[o] \in Op /\ OpKnows(ops[o]) /\ children' = children /\ live' = live
    BY <1>8 DEF OpsInv, Ship!Prints
  <2>2. PICK script \in {"ok", "conflict", "error"} :
          /\ ops' = [ops EXCEPT ![o].script = script]
          /\ IF script = "ok" THEN ops[o].script = "pushed" ELSE ops[o].script = "running"
    BY <1>8 DEF Ship!Prints
  <2> DEFINE op == [ops[o] EXCEPT !.script = script]
  <2>3. op \in Op /\ OpKnows(op) /\ op.pc = ops[o].pc /\ op.res = ops[o].res
    BY <2>1, <2>2 DEF Op, Scripts, OpKnows, Answers
  <2>4. ops' = [ops EXCEPT ![o] = op]
    BY <2>2
  <2> HIDE DEF op
  <2> QED BY <2>1, <2>3, <2>4, OneOp DEF OpsInv, Answers
<1>9. ASSUME NEW o \in Ops, Ship!Replies(o)
      PROVE  OpsInv'
  <2> DEFINE res == Ship!Parsed(ops[o].script)
             op == [Ship!Answered(res) EXCEPT !.landed = ops[o].landed]
  <2>1. ops[o] \in Op /\ OpKnows(ops[o]) /\ ops[o].landed \in BOOLEAN /\ live' = live
    BY <1>9 DEF OpsInv, Op, Ship!Replies
  <2>2. /\ res \in {"complete", "conflict", "git-error"}
        /\ res = "complete" => ops[o].landed
        /\ res = "conflict" => ~ops[o].landed
    <3>1. CASE ops[o].script = "ok"
      BY <2>1, <3>1 DEF Ship!Parsed, OpKnows
    <3>2. CASE ops[o].script = "conflict"
      BY <2>1, <3>2 DEF Ship!Parsed, OpKnows
    <3>3. CASE ops[o].script \notin {"ok", "conflict"}
      BY <3>3 DEF Ship!Parsed
    <3> QED BY <3>1, <3>2, <3>3
  <2>3. /\ ops' = [ops EXCEPT ![o] = op]
        /\ children' = IF res = "conflict"
                       THEN children \cup {Ship!Child(o, Ship!ConflictPrompt(ops[o].kind))}
                        ELSE children
    BY <1>9 DEF Ship!Replies
  <2> HIDE DEF res
  <2>3a. op = [Ship!Answered(res) EXCEPT !.landed = ops[o].landed]
    OBVIOUS
  <2> HIDE DEF op
  <2>4. /\ op \in Op /\ op.pc = "replied" /\ op.script = "none"
        /\ op.landed = ops[o].landed /\ op.res = res
    <3>1. op = [pc |-> "replied", kind |-> None, script |-> "none", boxed |-> FALSE,
                landed |-> ops[o].landed, res |-> res]
      BY <2>3a DEF Ship!Answered, Ship!NoOp
    <3>2. op \in Op
      BY <2>1, <2>2, <3>1 DEF Op, Scripts
    <3>3. op.landed = ops[o].landed
      BY <3>1, Zenon
    <3> QED BY <3>1, <3>2, <3>3
  <2>5. OpKnows(op)
    BY <2>2, <2>4 DEF OpKnows
  <2>6. LET child == Ship!Child(o, Ship!ConflictPrompt(ops[o].kind))
        IN  child \in Children /\ child.of = o
    BY <2>1 DEF Ship!Child, Ship!ConflictPrompt, Children, Op
  <2>7. /\ children' \subseteq Children /\ children \subseteq children'
        /\ res = "conflict" => Handed(children', o)
    BY <2>3, <2>6 DEF OpsInv, Handed
  <2> QED BY <2>1, <2>2, <2>3, <2>4, <2>5, <2>7, OneOp
<1>10. ASSUME NEW o \in Ops, Ship!TimesOut(o)
       PROVE  OpsInv'
  <2>1. /\ ops[o] \in Op /\ OpKnows(ops[o]) /\ children' = children /\ live' = live
        /\ ops[o].pc = "waiting" /\ ops[o].script \in {"running", "pushed"}
    BY <1>10 DEF OpsInv, Ship!TimesOut
  <2>2. CASE ops[o].boxed
    <3> DEFINE op == [ops[o] EXCEPT !.pc = "replied", !.res = "git-unavailable"]
    <3>1. op \in Op /\ OpKnows(op) /\ op.res = "git-unavailable"
      BY <2>1 DEF Op, Scripts, OpKnows, Answers
    <3>2. ops' = [ops EXCEPT ![o] = op]
      BY <1>10, <2>2 DEF Ship!TimesOut
    <3> HIDE DEF op
    <3> QED BY <2>1, <3>1, <3>2, OneOp DEF OpsInv
  <2>3. CASE ~ops[o].boxed
    <3> DEFINE op == [ops[o] EXCEPT !.script = "killed"]
    <3>1. op \in Op /\ OpKnows(op) /\ ~Answers(op)
      BY <2>1 DEF Op, Scripts, OpKnows, Answers
    <3>2. ops' = [ops EXCEPT ![o] = op]
      BY <1>10, <2>3 DEF Ship!TimesOut
    <3> HIDE DEF op
    <3> QED BY <2>1, <3>1, <3>2, OneOp DEF OpsInv
  <2> QED BY <2>2, <2>3
<1>11. ASSUME NEW o \in Ops, Ship!Reports(o)
       PROVE  OpsInv'
  <2>1. /\ ops[o] \in Op /\ OpKnows(ops[o]) /\ children' = children /\ live' = live
        /\ ops[o].pc = "replied"
    BY <1>11 DEF OpsInv, Ship!Reports
  <2> DEFINE op == [ops[o] EXCEPT !.pc = "done"]
  <2>2. op \in Op /\ OpKnows(op) /\ op.res = ops[o].res
    BY <2>1 DEF Op, OpKnows, Answers
  <2>3. ops' = [ops EXCEPT ![o] = op]
    BY <1>11 DEF Ship!Reports
  <2> HIDE DEF op
  <2> QED BY <2>1, <2>2, <2>3, OneOp DEF OpsInv, Answers
<1>12. ASSUME NEW c \in children, Ship!ChildWorks(c)
       PROVE  OpsInv'
  <2> DEFINE done == [c EXCEPT !.done = TRUE]
  <2>1. ops' = ops /\ live' = live /\ children' = (children \ {c}) \cup {done}
    BY <1>12 DEF Ship!ChildWorks
  <2>2. done \in Children /\ done.of = c.of
    BY DEF OpsInv, Children
  <2> HIDE DEF done
  <2>3. \A o \in Ops : Handed(children, o) => Handed(children', o)
    BY <2>1, <2>2 DEF Handed
  <2> QED BY <2>1, <2>2, <2>3 DEF OpsInv
<1>13. CASE UNCHANGED Ship!vars
  BY <1>13, OthersLeaveOps DEF Ship!vars, OpsInv
<1> QED
  BY <1>1, <1>2, <1>3, <1>4, <1>5, <1>6, <1>7, <1>8, <1>9, <1>10, <1>11, <1>12, <1>13
  DEF Ship!Next

-----------------------------------------------------------------------------
\* What the page reports of a history operation is what happened
\* (orchestrator/historyOp.ts, parseHistoryOpResult; api/runs.ts, POST history).
THEOREM ReportsAreTrue == Spec => []ReportIsTrue
<1>1. Init => OpsInv
  BY OpsInit DEF Init
<1>2. OpsInv /\ [Next]_vars => OpsInv'
  BY OpsStep, ShipFrame
<1>3. OpsInv => Ship!ReportIsTrue
  BY DEF OpsInv, OpKnows, Answers, Handed, Ship!ReportIsTrue
<1> QED BY <1>1, <1>2, <1>3, PTL DEF Spec, ReportIsTrue

-----------------------------------------------------------------------------
\* The watcher of all runs moves by its own steps, or not at all.
LEMMA WatcherFrame == [Next]_vars => [Watcher!Next]_(Watcher!vars)
BY DEF Next, vars, watcherVars, Watcher!vars

Frame == [run : Watched, state : Watcher!States]

WatcherTypes ==
  /\ states \in [Watched -> Watcher!States]
  /\ socket \in {"seeding", "listed", "connecting", "open", "closed"}
  /\ listed \in [Watched -> Watcher!States] \cup {None}
  /\ socket = "listed" => listed \in [Watched -> Watcher!States]
  /\ wire \in Seq(Frame) /\ (socket # "open" => wire = <<>>)
  /\ map \in [Watched -> Watcher!States \cup {None}]
  /\ waits \in [Watched -> Nat] /\ completions \in [Watched -> Nat]
  /\ said \in [Watched -> Nat] /\ ends \in [Watched -> Nat]

\* The rest of the types: the banner, and the tab with its title.
BannerInv ==
  /\ conn \in {"connecting", "connected", "disconnected"} /\ timer \in BOOLEAN
  /\ socket = "open" => conn = "connected" /\ ~timer

TitleInv ==
  /\ enabled \in BOOLEAN /\ visible \in BOOLEAN
  /\ waitingRuns \subseteq Watched /\ unread \in Nat /\ unread >= Cardinality(waitingRuns)

LEMMA WatcherInit ==
  ASSUME Watcher!WatcherAssumption, Watcher!Init
  PROVE  WatcherTypes /\ BannerInv /\ TitleInv
<1>1. WatcherTypes
  BY DEF Watcher!Init, WatcherTypes, Watcher!States, Watcher!Unknown, Watcher!Quiet
<1>2. BannerInv
  BY DEF Watcher!Init, BannerInv
<1>3. Cardinality({}) = 0
  BY FS_EmptySet
<1>4. enabled = FALSE /\ visible = TRUE /\ unread = 0 /\ waitingRuns = {}
  BY DEF Watcher!Init
<1>5. unread \in Nat /\ unread >= Cardinality(waitingRuns)
  BY <1>3, <1>4
<1>6. TitleInv
  BY <1>4, <1>5, Zenon DEF TitleInv
<1> QED BY <1>1, <1>2, <1>6

LEMMA FollowsStates ==
  \A s \in Watcher!States : Watcher!Follows(s) \subseteq Watcher!States
BY DEF Watcher!Follows, Watcher!States

LEMMA WatcherTypesStep ==
  ASSUME WatcherTypes, [Watcher!Next]_(Watcher!vars)
  PROVE  WatcherTypes'
<1> USE DEF Watcher!link, Watcher!banner, Watcher!tab, Watcher!server
<1>1. CASE Watcher!Publishes
  <2>1. PICK r \in Watched, s \in Watcher!States :
          /\ s \in Watcher!Follows(states[r])
          /\ states' = [states EXCEPT ![r] = s]
          /\ ends' = IF s = "ended" THEN [ends EXCEPT ![r] = @ + 1] ELSE ends
          /\ wire' = IF socket = "open" THEN Append(wire, [run |-> r, state |-> s]) ELSE wire
          /\ UNCHANGED <<socket, listed, map, waits, completions, said>>
    BY <1>1, FollowsStates DEF Watcher!Publishes, Watcher!Sends, WatcherTypes
  <2>3. wire' \in Seq(Frame) /\ (socket' # "open" => wire' = <<>>)
    <3>1. [run |-> r, state |-> s] \in Frame
      BY DEF Frame
    <3> QED BY <2>1, <3>1 DEF WatcherTypes
  <2> QED BY <2>1, <2>3 DEF WatcherTypes
<1>2. CASE Watcher!Republishes
  <2>1. PICK r \in Watched :
          /\ wire' = IF socket = "open" THEN Append(wire, [run |-> r, state |-> states[r]])
                     ELSE wire
          /\ UNCHANGED <<states, ends, socket, listed, map, waits, completions, said>>
    BY <1>2 DEF Watcher!Republishes, Watcher!Sends
  <2>2. wire' \in Seq(Frame) /\ (socket' # "open" => wire' = <<>>)
    <3>1. [run |-> r, state |-> states[r]] \in Frame
      BY DEF Frame, WatcherTypes
    <3> QED BY <2>1, <3>1 DEF WatcherTypes
  <2> QED BY <2>1, <2>2 DEF WatcherTypes
<1>3. CASE Watcher!TimerFires \/ Watcher!Hides \/ Watcher!Shows
  BY <1>3 DEF Watcher!TimerFires, Watcher!Hides, Watcher!Shows, WatcherTypes
<1>4. CASE Watcher!Lists \/ Watcher!Connects \/ Watcher!Opens \/ Watcher!Reseeds
  BY <1>4 DEF Watcher!Lists, Watcher!Connects, Watcher!Opens, Watcher!Reseeds, WatcherTypes
<1>5. CASE Watcher!Reloads \/ Watcher!Enables \/ Watcher!Closes
  <2>1. /\ wire' = <<>> /\ socket' \in {"seeding", "closed"} /\ listed' \in {listed, None}
        /\ map' = map \/ map' = Watcher!Unknown
        /\ UNCHANGED <<states, ends>>
        /\ \/ UNCHANGED <<waits, completions, said>>
           \/ /\ waits' = Watcher!Quiet /\ completions' = Watcher!Quiet
              /\ said' = Watcher!Quiet
    BY <1>5 DEF Watcher!Reloads, Watcher!Enables, Watcher!Closes
  <2>2. /\ Watcher!Quiet \in [Watched -> Nat] /\ <<>> \in Seq(Frame)
        /\ Watcher!Unknown \in [Watched -> Watcher!States \cup {None}]
    BY DEF Watcher!Unknown, Watcher!Quiet
  <2> QED BY <2>1, <2>2 DEF WatcherTypes
<1>6. CASE Watcher!Receives
  <2>1. /\ Head(wire) \in Frame /\ wire' \in Seq(Frame) /\ wire' = Tail(wire)
        /\ socket = "open" /\ UNCHANGED <<states, ends, socket, listed, said>>
    BY <1>6 DEF Watcher!Receives, WatcherTypes
  <2>2. PICK r \in {Head(wire).run}, s \in {Head(wire).state} :
          /\ map' = [map EXCEPT ![r] = s]
          /\ waits' = waits \/ waits' = [waits EXCEPT ![r] = @ + 1]
          /\ completions' = completions \/ completions' = [completions EXCEPT ![r] = @ + 1]
    BY <1>6 DEF Watcher!Receives
  <2>3. r \in Watched /\ s \in Watcher!States
    BY <2>1, <2>2 DEF Frame
  <2>4. map' \in [Watched -> Watcher!States \cup {None}]
    BY <2>2, <2>3 DEF WatcherTypes
  <2>5. waits' \in [Watched -> Nat]
    BY <2>2, <2>3 DEF WatcherTypes
  <2>6. completions' \in [Watched -> Nat]
    <3>1. completions \in [Watched -> Nat]
      BY DEF WatcherTypes
    <3> QED BY <2>2, <2>3, <3>1
  <2> QED BY <2>1, <2>4, <2>5, <2>6 DEF WatcherTypes
<1>7. CASE Watcher!TellsWaiting
  BY <1>7 DEF Watcher!TellsWaiting, WatcherTypes
<1>8. CASE Watcher!TellsComplete
  BY <1>8 DEF Watcher!TellsComplete, WatcherTypes
<1>9. CASE UNCHANGED Watcher!vars
  BY <1>9 DEF Watcher!vars, WatcherTypes
<1> QED BY <1>1, <1>2, <1>3, <1>4, <1>5, <1>6, <1>7, <1>8, <1>9 DEF Watcher!Next

LEMMA BannerStep ==
  ASSUME WatcherTypes, BannerInv, [Watcher!Next]_(Watcher!vars)
  PROVE  BannerInv'
<1> USE DEF Watcher!link, Watcher!banner, Watcher!tab, Watcher!server
<1>1. CASE Watcher!Opens \/ Watcher!Reloads \/ Watcher!Connects \/ Watcher!TimerFires
  BY <1>1 DEF Watcher!Opens, Watcher!Reloads, Watcher!Connects, Watcher!TimerFires,
     Watcher!SetConnected, Watcher!SetConnecting, BannerInv
<1>2. CASE Watcher!Closes \/ Watcher!Enables
  <2>1. socket' # "open" /\ conn' = conn /\ timer' \in {timer, timer \/ conn # "disconnected"}
    BY <1>2 DEF Watcher!Closes, Watcher!Enables, Watcher!SetDisconnected
  <2> QED BY <2>1 DEF BannerInv
<1>3. CASE Watcher!Lists \/ Watcher!Reseeds
  BY <1>3 DEF Watcher!Lists, Watcher!Reseeds, BannerInv
<1>4. CASE Watcher!Publishes \/ Watcher!Republishes \/ Watcher!Receives
  BY <1>4 DEF Watcher!Publishes, Watcher!Republishes, Watcher!Receives, BannerInv
<1>5. CASE Watcher!TellsWaiting \/ Watcher!TellsComplete \/ Watcher!Hides \/ Watcher!Shows
  BY <1>5 DEF Watcher!TellsWaiting, Watcher!TellsComplete, Watcher!Hides, Watcher!Shows,
     BannerInv
<1>6. CASE UNCHANGED Watcher!vars
  BY <1>6 DEF Watcher!vars, BannerInv
<1> QED BY <1>1, <1>2, <1>3, <1>4, <1>5, <1>6 DEF Watcher!Next

\* The title counts at least the runs that wait.
LEMMA TitleStep ==
  ASSUME Watcher!WatcherAssumption, WatcherTypes, TitleInv, [Watcher!Next]_(Watcher!vars)
  PROVE  TitleInv'
<1> USE DEF Watcher!link, Watcher!banner, Watcher!tab, Watcher!server
<1>0. /\ IsFiniteSet(waitingRuns) /\ Cardinality(waitingRuns) \in Nat
      /\ Cardinality({}) = 0
  <2>1. IsFiniteSet(Watched)
    BY DEF Watcher!WatcherAssumption, Watcher!IsFiniteSet, IsFiniteSet
  <2>2. IsFiniteSet(waitingRuns)
    BY <2>1, FS_Subset DEF TitleInv
  <2> QED BY <2>2, FS_EmptySet, FS_CardinalityType
<1>1. CASE Watcher!Receives
  <2>1. PICK r \in {Head(wire).run} : Watcher!Unbadges(r) \/ UNCHANGED Watcher!tab
    BY <1>1 DEF Watcher!Receives
  <2>2. enabled' = enabled
    BY <1>1 DEF Watcher!Receives
  <2>3. CASE UNCHANGED Watcher!tab
    BY <2>2, <2>3 DEF TitleInv
  <2>4. CASE Watcher!Unbadges(r) /\ r \in waitingRuns
    <3>1. Cardinality(waitingRuns \ {r}) = Cardinality(waitingRuns) - 1
          /\ Cardinality(waitingRuns \ {r}) \in Nat
      BY <1>0, <2>4, FS_RemoveElement, FS_CardinalityType
    <3>2. unread' = unread - 1 /\ waitingRuns' = waitingRuns \ {r} /\ visible' = visible
      BY <2>4 DEF Watcher!Unbadges
    <3> QED BY <1>0, <2>2, <3>1, <3>2 DEF TitleInv
  <2>5. CASE Watcher!Unbadges(r) /\ r \notin waitingRuns
    <3>1. waitingRuns' = waitingRuns /\ unread' = unread /\ visible' = visible
      BY <2>5 DEF Watcher!Unbadges
    <3> QED BY <2>2, <3>1 DEF TitleInv
  <2> QED BY <2>1, <2>3, <2>4, <2>5
<1>2. CASE Watcher!TellsWaiting
  <2>1. PICK r \in Watched :
          IF visible \/ r \in waitingRuns THEN UNCHANGED Watcher!tab
          ELSE waitingRuns' = waitingRuns \cup {r} /\ unread' = unread + 1 /\ UNCHANGED visible
    BY <1>2 DEF Watcher!TellsWaiting
  <2>2. enabled' = enabled
    BY <1>2 DEF Watcher!TellsWaiting
  <2>3. CASE UNCHANGED Watcher!tab
    BY <2>2, <2>3 DEF TitleInv
  <2>4. CASE r \notin waitingRuns /\ waitingRuns' = waitingRuns \cup {r} /\ unread' = unread + 1
             /\ UNCHANGED visible
    <3>1. Cardinality(waitingRuns \cup {r}) = Cardinality(waitingRuns) + 1
      BY <1>0, <2>4, FS_AddElement
    <3> QED BY <1>0, <2>2, <2>4, <3>1 DEF TitleInv
  <2> QED BY <2>1, <2>3, <2>4
<1>3. CASE Watcher!TellsComplete
  BY <1>0, <1>3 DEF Watcher!TellsComplete, TitleInv
<1>4. CASE Watcher!Hides
  BY <1>4 DEF Watcher!Hides, TitleInv
<1>5. CASE Watcher!Shows \/ Watcher!Reloads
  <2>1. /\ visible' \in {visible, TRUE} /\ enabled' \in {enabled, FALSE}
        /\ \/ unread' = 0 /\ waitingRuns' = {}
           \/ UNCHANGED <<unread, waitingRuns>>
    BY <1>5 DEF Watcher!Shows, Watcher!Reloads
  <2>2. /\ waitingRuns' \subseteq Watched /\ unread' \in Nat
        /\ unread' >= Cardinality(waitingRuns')
    BY <1>0, <2>1 DEF TitleInv
  <2> QED BY <2>1, <2>2 DEF TitleInv
<1>6. CASE \/ Watcher!Publishes \/ Watcher!Republishes \/ Watcher!TimerFires
           \/ Watcher!Lists \/ Watcher!Connects \/ Watcher!Opens \/ Watcher!Closes
           \/ Watcher!Reseeds \/ Watcher!Enables
  <2>1. UNCHANGED Watcher!tab /\ enabled' \in {enabled, TRUE}
    BY <1>6 DEF Watcher!Publishes, Watcher!Republishes, Watcher!TimerFires, Watcher!Lists,
       Watcher!Connects, Watcher!Opens, Watcher!Closes, Watcher!Reseeds, Watcher!Enables
  <2> QED BY <2>1 DEF TitleInv
<1>7. CASE UNCHANGED Watcher!vars
  BY <1>7 DEF Watcher!vars, TitleInv
<1> QED BY <1>1, <1>2, <1>3, <1>4, <1>5, <1>6, <1>7 DEF Watcher!Next
-----------------------------------------------------------------------------
\* What the page has announced of a run's ends, or is about to.
Told(r) == said[r] + completions[r]

\* One that knows n ends and a run in state s may come to t when there were m: an end
\* that it sees is one more.
Leads(s, n, t, m) == n <= m /\ (s # "ended" /\ t = "ended" => n < m)

\* at numbers the frames with the ends there were when each was sent.
Numbers(at) ==
  /\ \A i \in 1..Len(wire) : LET r == wire[i].run IN
       /\ Leads(map[r], Told(r), wire[i].state, at[i])
       /\ Leads(wire[i].state, at[i], states[r], ends[r])
  /\ \A i, j \in 1..Len(wire) : i < j /\ wire[i].run = wire[j].run =>
       Leads(wire[i].state, at[i], wire[j].state, at[j])

EndsInv ==
  /\ \A r \in Watched :
       /\ Leads(map[r], Told(r), states[r], ends[r])
       /\ socket = "listed" => Leads(listed[r], Told(r), states[r], ends[r])
       /\ states[r] = "ended" => ends[r] > 0
       /\ ~enabled => said[r] = 0 /\ completions[r] = 0
  /\ \E at \in [1..Len(wire) -> Nat] : Numbers(at)

\* An empty wire has nothing to number.
LEMMA NothingToNumber ==
  /\ wire = <<>> => \E at \in [1..Len(wire) -> Nat] : Numbers(at)
  /\ wire' = <<>> => \E at \in [1..Len(wire') -> Nat] : Numbers(at)'
<1>1. ASSUME wire = <<>>
      PROVE  \E at \in [1..Len(wire) -> Nat] : Numbers(at)
  <2>1. 1..Len(wire) = {}
    BY <1>1
  <2> WITNESS [i \in 1..Len(wire) |-> 0] \in [1..Len(wire) -> Nat]
  <2> QED BY <2>1 DEF Numbers
<1>2. ASSUME wire' = <<>>
      PROVE  \E at \in [1..Len(wire') -> Nat] : Numbers(at)'
  <2>1. 1..Len(wire') = {}
    BY <1>2
  <2>2. PICK at \in {[i \in 1..Len(wire') |-> 0]} : TRUE
    OBVIOUS
  <2>3. at \in [1..Len(wire') -> Nat]
    BY <2>2
  <2>4. Numbers(at)'
    BY <2>1 DEF Numbers
  <2> QED BY <2>3, <2>4
<1> QED BY <1>1, <1>2

LEMMA EndsInit ==
  ASSUME Watcher!Init
  PROVE  EndsInv
<1>1. wire = <<>>
  BY DEF Watcher!Init
<1>2. ASSUME NEW r \in Watched
      PROVE  /\ said[r] = 0 /\ completions[r] = 0 /\ ends[r] \in {0, 1}
             /\ states[r] = "ended" => ends[r] = 1
  BY DEF Watcher!Init, Watcher!Quiet
<1>3. socket # "listed"
  BY DEF Watcher!Init
<1> QED BY <1>1, <1>2, <1>3, NothingToNumber DEF EndsInv, Leads, Told

LEMMA FramesAreTyped ==
  ASSUME WatcherTypes
  PROVE  /\ Len(wire) \in Nat /\ wire \in [1..Len(wire) -> Frame]
         /\ \A i \in 1..Len(wire) : wire[i].run \in Watched
<1>1. wire \in [1..Len(wire) -> Frame] /\ Len(wire) \in Nat
  BY DEF WatcherTypes
<1> QED BY <1>1 DEF Frame

\* Frames on their way keep their numbers while the rows go on and nothing is read.
LEMMA NumbersKeep ==
  ASSUME WatcherTypes, NEW at \in [1..Len(wire) -> Nat], Numbers(at),
         UNCHANGED <<wire, map>>, \A r \in Watched : Told(r)' = Told(r),
         \A r \in Watched, n \in Nat : \A s :
           Leads(s, n, states[r], ends[r]) => Leads(s, n, states'[r], ends'[r])
  PROVE  Numbers(at)'
<1>1. \A i \in 1..Len(wire) : wire[i].run \in Watched /\ at[i] \in Nat
  BY FramesAreTyped
<1> QED BY <1>1 DEF Numbers

\* A frame is sent with its run's row as it is now.
LEMMA NumbersSent ==
  ASSUME WatcherTypes, WatcherTypes', NEW at \in [1..Len(wire) -> Nat], Numbers(at),
         NEW r0 \in Watched, wire' = Append(wire, [run |-> r0, state |-> states'[r0]]),
         UNCHANGED map, \A r \in Watched : Told(r)' = Told(r),
         \A r \in Watched : Leads(map[r], Told(r), states'[r], ends'[r]),
         \A r \in Watched, n \in Nat : \A s :
           Leads(s, n, states[r], ends[r]) => Leads(s, n, states'[r], ends'[r])
  PROVE  \E b \in [1..Len(wire') -> Nat] : Numbers(b)'
<1> DEFINE k == Len(wire) + 1
<1>1. /\ Len(wire) \in Nat /\ Len(wire') = k /\ wire'[k] = [run |-> r0, state |-> states'[r0]]
      /\ \A i \in 1..Len(wire) : wire'[i] = wire[i] /\ wire[i].run \in Watched /\ at[i] \in Nat
  <2>1. wire \in Seq(Frame) /\ [run |-> r0, state |-> states'[r0]] \in Frame
    BY DEF WatcherTypes, Frame
  <2>2. /\ Len(wire) \in Nat /\ Len(wire') = k /\ wire'[k] = [run |-> r0, state |-> states'[r0]]
        /\ \A i \in 1..Len(wire) : wire'[i] = wire[i]
    BY <2>1
  <2> QED BY <2>2, FramesAreTyped
<1>2. ends'[r0] \in Nat
  BY DEF WatcherTypes
<1>3. PICK b \in {[i \in 1..k |-> IF i = k THEN ends'[r0] ELSE at[i]]} : TRUE
  OBVIOUS
<1> HIDE DEF k
<1>4. /\ b \in [1..k -> Nat] /\ b[k] = ends'[r0]
      /\ \A i \in 1..Len(wire) : b[i] = at[i]
  BY <1>1, <1>2, <1>3 DEF k
<1>5. \A i \in 1..k : i = k \/ i \in 1..Len(wire)
  BY <1>1 DEF k
<1>6. wire'[k].run = r0 /\ wire'[k].state = states'[r0]
  BY <1>1
<1>7. ASSUME NEW i \in 1..k, NEW r, r = wire'[i].run
      PROVE  /\ Leads(map'[r], Told(r)', wire'[i].state, b[i])
             /\ Leads(wire'[i].state, b[i], states'[r], ends'[r])
  <2>1. CASE i = k
    <3>1. r = r0 /\ wire'[i].state = states'[r] /\ b[i] = ends'[r] /\ ends'[r] \in Nat
      BY <1>2, <1>4, <1>6, <1>7, <2>1
    <3>2. Leads(map'[r], Told(r)', states'[r], ends'[r])
      BY <3>1
    <3>3. Leads(states'[r], ends'[r], states'[r], ends'[r])
      BY <3>1 DEF Leads
    <3> QED BY <3>1, <3>2, <3>3
  <2>2. CASE i \in 1..Len(wire)
    <3>1. /\ r = wire[i].run /\ wire'[i] = wire[i] /\ b[i] = at[i] /\ at[i] \in Nat
          /\ r \in Watched
      BY <1>1, <1>4, <1>7, <2>2
    <3>2. Leads(map[r], Told(r), wire[i].state, at[i])
          /\ Leads(wire[i].state, at[i], states[r], ends[r])
      BY <2>2, <3>1 DEF Numbers
    <3> QED BY <3>1, <3>2
  <2> QED BY <1>5, <2>1, <2>2
<1>8. ASSUME NEW i \in 1..k, NEW j \in 1..k, i < j, wire'[i].run = wire'[j].run
      PROVE  Leads(wire'[i].state, b[i], wire'[j].state, b[j])
  <2>1. i \in 1..Len(wire)
    BY <1>1, <1>8 DEF k
  <2>2. CASE j = k
    BY <1>4, <1>6, <1>7, <1>8, <2>2
  <2>3. CASE j \in 1..Len(wire)
    BY <1>1, <1>4, <1>8, <2>1, <2>3 DEF Numbers
  <2> QED BY <1>5, <2>2, <2>3
<1>9. Numbers(b)'
  BY <1>1, <1>7, <1>8 DEF Numbers, Told
<1> QED BY <1>1, <1>4, <1>9

\* A frame is read: what is announced of its run is no more than its number.
LEMMA NumbersRead ==
  ASSUME WatcherTypes, WatcherTypes', NEW at \in [1..Len(wire) -> Nat], Numbers(at),
         wire # <<>>, wire' = Tail(wire), UNCHANGED <<states, ends>>,
         NEW r0 \in Watched, NEW s0, wire[1].run = r0, wire[1].state = s0,
         map' = [map EXCEPT ![r0] = s0],
         \A r \in Watched : r # r0 => Told(r)' = Told(r), Told(r0)' <= at[1]
  PROVE  /\ \E b \in [1..Len(wire') -> Nat] : Numbers(b)'
         /\ Leads(map'[r0], Told(r0)', states'[r0], ends'[r0])
<1>1. /\ Len(wire) \in Nat \ {0} /\ Len(wire') = Len(wire) - 1
      /\ \A i \in 1..Len(wire') : wire'[i] = wire[i + 1]
      /\ \A i \in 1..Len(wire) : wire[i].run \in Watched /\ at[i] \in Nat
  <2>1. wire \in Seq(Frame)
    BY DEF WatcherTypes
  <2>2. /\ Len(wire) \in Nat \ {0} /\ Len(wire') = Len(wire) - 1
        /\ \A i \in 1..Len(wire') : wire'[i] = wire[i + 1]
    BY <2>1
  <2> QED BY <2>2, FramesAreTyped
<1>2. PICK b \in {[i \in 1..Len(wire') |-> at[i + 1]]} : TRUE
  OBVIOUS
<1>3. b \in [1..Len(wire') -> Nat] /\ \A i \in 1..Len(wire') : b[i] = at[i + 1]
  BY <1>1, <1>2
<1>4. Told(r0)' \in Nat /\ map'[r0] = s0 /\ \A r \in Watched : r # r0 => map'[r] = map[r]
  BY DEF WatcherTypes, Told
<1>5. ASSUME NEW i \in 1..Len(wire'), NEW r, r = wire'[i].run
      PROVE  /\ Leads(map'[r], Told(r)', wire'[i].state, b[i])
             /\ Leads(wire'[i].state, b[i], states'[r], ends'[r])
  <2>1. /\ i + 1 \in 1..Len(wire) /\ 1 \in 1..Len(wire) /\ 1 < i + 1
        /\ wire'[i] = wire[i + 1] /\ b[i] = at[i + 1] /\ r = wire[i + 1].run /\ r \in Watched
    BY <1>1, <1>3, <1>5
  <2>2. Leads(wire'[i].state, b[i], states'[r], ends'[r])
    BY <2>1 DEF Numbers
  <2>3. CASE r = r0
    <3>1. Leads(s0, at[1], wire'[i].state, b[i])
      BY <2>1, <2>3 DEF Numbers
    <3>2. at[1] \in Nat /\ b[i] \in Nat
      BY <1>1, <2>1
    <3> QED BY <1>4, <2>2, <2>3, <3>1, <3>2 DEF Leads
  <2>4. CASE r # r0
    <3>1. Leads(map[r], Told(r), wire'[i].state, b[i])
      BY <2>1 DEF Numbers
    <3> QED BY <1>4, <2>1, <2>2, <2>4, <3>1
  <2> QED BY <2>3, <2>4
<1>6. ASSUME NEW i \in 1..Len(wire'), NEW j \in 1..Len(wire'), i < j,
             wire'[i].run = wire'[j].run
      PROVE  Leads(wire'[i].state, b[i], wire'[j].state, b[j])
  <2>1. /\ i + 1 \in 1..Len(wire) /\ j + 1 \in 1..Len(wire) /\ i + 1 < j + 1
        /\ wire'[i] = wire[i + 1] /\ wire'[j] = wire[j + 1]
        /\ b[i] = at[i + 1] /\ b[j] = at[j + 1]
    BY <1>1, <1>3, <1>6
  <2> QED BY <1>6, <2>1 DEF Numbers
<1>7. Numbers(b)'
  BY <1>5, <1>6 DEF Numbers, Told
<1>8. Leads(s0, Told(r0)', states[r0], ends[r0])
  <2>1. 1 \in 1..Len(wire) /\ at[1] \in Nat /\ ends[r0] \in Nat
    BY <1>1 DEF WatcherTypes
  <2>2. Leads(s0, at[1], states[r0], ends[r0])
    BY <2>1 DEF Numbers
  <2> QED BY <1>4, <2>1, <2>2 DEF Leads
<1> QED BY <1>3, <1>4, <1>7, <1>8

LEMMA EndsStep ==
  ASSUME WatcherTypes, WatcherTypes', EndsInv, [Watcher!Next]_(Watcher!vars)
  PROVE  EndsInv'
<1> USE DEF Watcher!link, Watcher!banner, Watcher!tab, Watcher!server
<1>0. PICK at \in [1..Len(wire) -> Nat] : Numbers(at)
  BY DEF EndsInv
<1>1. ASSUME NEW r \in Watched
      PROVE  /\ Leads(map[r], Told(r), states[r], ends[r])
             /\ socket = "listed" => Leads(listed[r], Told(r), states[r], ends[r])
             /\ states[r] = "ended" => ends[r] > 0
             /\ ~enabled => said[r] = 0 /\ completions[r] = 0
             /\ Told(r) \in Nat /\ ends[r] \in Nat
  BY DEF EndsInv, WatcherTypes, Told
\* A row that goes on, or is sent again.
<1>2. ASSUME UNCHANGED <<socket, listed, map, enabled, completions, said>>,
             \A r \in Watched : /\ ends'[r] >= ends[r] /\ (states'[r] = "ended" => ends'[r] > 0)
                                /\ states'[r] = "ended" => states[r] = "ended" \/ ends'[r] > ends[r],
             \/ UNCHANGED wire
             \/ \E r \in Watched : wire' = Append(wire, [run |-> r, state |-> states'[r]])
      PROVE  EndsInv'
  <2>1. ASSUME NEW r \in Watched, NEW n \in Nat, NEW s, Leads(s, n, states[r], ends[r])
        PROVE  Leads(s, n, states'[r], ends'[r])
    <3>1. ends[r] \in Nat /\ ends'[r] \in Nat
      BY DEF WatcherTypes
    <3> QED BY <1>2, <2>1, <3>1 DEF Leads
  <2>2. \A r \in Watched : Told(r)' = Told(r)
    BY <1>2 DEF Told
  <2>3. \A r \in Watched : Leads(map[r], Told(r), states'[r], ends'[r])
    BY <1>1, <2>1
  <2>4. \E b \in [1..Len(wire') -> Nat] : Numbers(b)'
    <3>1. CASE UNCHANGED wire
      BY <1>0, <1>2, <2>1, <2>2, <3>1, NumbersKeep
    <3>2. CASE \E r \in Watched : wire' = Append(wire, [run |-> r, state |-> states'[r]])
      BY <1>0, <1>2, <2>1, <2>2, <2>3, <3>2, NumbersSent
    <3> QED BY <1>2, <3>1, <3>2
  <2>5. ASSUME NEW r \in Watched
        PROVE  (/\ Leads(map[r], Told(r), states[r], ends[r])
                /\ socket = "listed" => Leads(listed[r], Told(r), states[r], ends[r])
                /\ states[r] = "ended" => ends[r] > 0
                /\ ~enabled => said[r] = 0 /\ completions[r] = 0)'
    BY <1>1, <1>2, <2>1, <2>2
  <2> QED BY <2>4, <2>5 DEF EndsInv
\* Announcing, and what concerns neither rows nor announcements.
<1>3. ASSUME UNCHANGED <<states, ends, listed, map, enabled>>,
             wire' = wire \/ wire' = <<>>, socket' = "listed" => socket = "listed",
             \A r \in Watched : /\ Told(r)' = Told(r)
                                /\ ~enabled => said'[r] = 0 /\ completions'[r] = 0
      PROVE  EndsInv'
  <2>1. \E b \in [1..Len(wire') -> Nat] : Numbers(b)'
    <3>1. CASE wire' = wire
      BY <1>0, <1>3, <3>1, NumbersKeep
    <3>2. CASE wire' = <<>>
      BY <3>2, NothingToNumber
    <3> QED BY <1>3, <3>1, <3>2
  <2>2. ASSUME NEW r \in Watched
        PROVE  (/\ Leads(map[r], Told(r), states[r], ends[r])
                /\ socket = "listed" => Leads(listed[r], Told(r), states[r], ends[r])
                /\ states[r] = "ended" => ends[r] > 0
                /\ ~enabled => said[r] = 0 /\ completions[r] = 0)'
    BY <1>1, <1>3
  <2> QED BY <2>1, <2>2 DEF EndsInv
\* A map that is new, or comes from a list.
<1>4. ASSUME UNCHANGED <<states, ends>>, wire' = <<>>, socket' # "listed",
             \A r \in Watched : /\ Leads(map'[r], Told(r)', states[r], ends[r])
                                /\ ~enabled' => said'[r] = 0 /\ completions'[r] = 0
      PROVE  EndsInv'
  <2>1. \E b \in [1..Len(wire') -> Nat] : Numbers(b)'
    BY <1>4, NothingToNumber
  <2>2. ASSUME NEW r \in Watched
        PROVE  (/\ Leads(map[r], Told(r), states[r], ends[r])
                /\ socket = "listed" => Leads(listed[r], Told(r), states[r], ends[r])
                /\ states[r] = "ended" => ends[r] > 0
                /\ ~enabled => said[r] = 0 /\ completions[r] = 0)'
    BY <1>1, <1>4
  <2> QED BY <2>1, <2>2 DEF EndsInv
<1>5. CASE Watcher!Publishes
  <2>1. PICK r \in Watched, s \in Watcher!States :
          /\ states' = [states EXCEPT ![r] = s]
          /\ s = "ended" => states[r] # "ended"
          /\ ends' = IF s = "ended" THEN [ends EXCEPT ![r] = @ + 1] ELSE ends
          /\ wire' = IF socket = "open" THEN Append(wire, [run |-> r, state |-> s]) ELSE wire
          /\ UNCHANGED <<socket, listed, map, enabled, completions, said>>
    <3>1. \A s \in Watcher!States : "ended" \in Watcher!Follows(s) => s # "ended"
      BY DEF Watcher!Follows, Watcher!States
    <3>2. PICK r \in Watched : \E s \in Watcher!Follows(states[r]) :
            /\ states' = [states EXCEPT ![r] = s]
            /\ ends' = IF s = "ended" THEN [ends EXCEPT ![r] = @ + 1] ELSE ends
            /\ wire' = IF socket = "open" THEN Append(wire, [run |-> r, state |-> s]) ELSE wire
            /\ UNCHANGED <<socket, listed, map, enabled, completions, said>>
      BY <1>5 DEF Watcher!Publishes, Watcher!Sends
    <3>3. states[r] \in Watcher!States
      BY DEF WatcherTypes
    <3> QED BY <3>1, <3>2, <3>3, FollowsStates
  <2>2. states'[r] = s /\ \A q \in Watched : q # r => states'[q] = states[q]
    BY <2>1 DEF WatcherTypes
  <2>3. /\ s = "ended" => ends'[r] = ends[r] + 1
        /\ \A q \in Watched : q # r \/ s # "ended" => ends'[q] = ends[q]
    BY <2>1 DEF WatcherTypes
  <2> QED BY <1>1, <1>2, <2>1, <2>2, <2>3
<1>6. CASE Watcher!Republishes
  <2>1. PICK r \in Watched : wire' = Append(wire, [run |-> r, state |-> states[r]])
    BY <1>6 DEF Watcher!Republishes, Watcher!Sends
  <2>2. UNCHANGED <<states, ends, socket, listed, map, enabled, completions, said>>
    BY <1>6 DEF Watcher!Republishes
  <2> QED BY <1>1, <1>2, <2>1, <2>2
<1>7. CASE \/ Watcher!TimerFires \/ Watcher!Opens \/ Watcher!Closes \/ Watcher!Reseeds
           \/ Watcher!TellsWaiting \/ Watcher!Hides \/ Watcher!Shows
  <2>1. /\ UNCHANGED <<states, ends, listed, map, enabled, said, completions>>
        /\ wire' = wire \/ wire' = <<>>
        /\ socket' = "listed" => socket = "listed"
    BY <1>7 DEF Watcher!TimerFires, Watcher!Opens, Watcher!Closes, Watcher!Reseeds,
       Watcher!TellsWaiting, Watcher!Hides, Watcher!Shows
  <2> QED BY <1>1, <1>3, <2>1 DEF Told
<1>8. CASE Watcher!TellsComplete
  <2>1. PICK r \in Watched :
          /\ completions[r] > 0 /\ completions' = [completions EXCEPT ![r] = @ - 1]
          /\ said' = [said EXCEPT ![r] = @ + 1]
    BY <1>8 DEF Watcher!TellsComplete
  <2>2. /\ completions'[r] = completions[r] - 1 /\ said'[r] = said[r] + 1
        /\ \A q \in Watched : q # r =>
             completions'[q] = completions[q] /\ said'[q] = said[q]
        /\ completions[r] \in Nat /\ said[r] \in Nat
    BY <2>1 DEF WatcherTypes
  <2>3. enabled
    BY <1>1, <2>1
  <2>4. \A q \in Watched : Told(q)' = Told(q)
    <3>1. Told(r)' = Told(r)
      BY <2>2 DEF Told
    <3> QED BY <2>2, <3>1 DEF Told
  <2>5. UNCHANGED <<states, ends, listed, map, enabled, wire, socket>>
    BY <1>8 DEF Watcher!TellsComplete
  <2> QED BY <1>3, <2>3, <2>4, <2>5
<1>9. CASE Watcher!Lists
  <2>1. /\ listed' = states /\ socket = "seeding"
        /\ UNCHANGED <<states, ends, map, enabled, wire, said, completions>>
    BY <1>9 DEF Watcher!Lists
  <2>2. \A r \in Watched : Told(r)' = Told(r)
    BY <2>1 DEF Told
  <2>3. \E b \in [1..Len(wire') -> Nat] : Numbers(b)'
    BY <1>0, <2>1, <2>2, NumbersKeep
  <2>4. ASSUME NEW r \in Watched
        PROVE  (/\ Leads(map[r], Told(r), states[r], ends[r])
                /\ socket = "listed" => Leads(listed[r], Told(r), states[r], ends[r])
                /\ states[r] = "ended" => ends[r] > 0
                /\ ~enabled => said[r] = 0 /\ completions[r] = 0)'
    <3>1. Leads(states[r], Told(r), states[r], ends[r])
      BY <1>1 DEF Leads
    <3> QED BY <1>1, <2>1, <2>2, <3>1
  <2> QED BY <2>3, <2>4 DEF EndsInv
<1>10. CASE Watcher!Connects
  <2>1. /\ socket # "open" /\ socket' = "connecting"
        /\ map' = map \/ (socket = "listed" /\ map' = listed)
        /\ UNCHANGED <<states, ends, enabled, wire, said, completions>>
    BY <1>10 DEF Watcher!Connects
  <2>2. wire' = <<>> /\ \A r \in Watched : Told(r)' = Told(r)
    BY <2>1 DEF WatcherTypes, Told
  <2>3. \A r \in Watched : Leads(map'[r], Told(r), states[r], ends[r])
    BY <1>1, <2>1
  <2> QED BY <1>1, <1>4, <2>1, <2>2, <2>3
<1>11. CASE Watcher!Reloads \/ Watcher!Enables
  <2>1. /\ UNCHANGED <<states, ends>> /\ wire' = <<>> /\ socket' # "listed"
    BY <1>11 DEF Watcher!Reloads, Watcher!Enables
  <2>2. \A r \in Watched : said'[r] = 0 /\ completions'[r] = 0
    <3>1. CASE Watcher!Reloads
      BY <3>1 DEF Watcher!Reloads, Watcher!Quiet
    <3>2. CASE Watcher!Enables
      BY <1>1, <3>2 DEF Watcher!Enables
    <3> QED BY <1>11, <3>1, <3>2
  <2>3. \A r \in Watched : Told(r)' = 0
    BY <2>2 DEF Told
  <2>4. ASSUME NEW r \in Watched
        PROVE  Leads(map'[r], Told(r)', states[r], ends[r])
    BY <1>1, <2>3 DEF Leads
  <2> QED BY <1>4, <2>1, <2>2, <2>4
<1>12. CASE Watcher!Receives
  <2>1. /\ wire # <<>> /\ wire' = Tail(wire) /\ socket = "open"
        /\ UNCHANGED <<states, ends, socket, listed, enabled, said>>
    BY <1>12 DEF Watcher!Receives, WatcherTypes
  <2>2. PICK r0 \in {Head(wire).run}, s0 \in {Head(wire).state} :
          /\ map' = [map EXCEPT ![r0] = s0]
          /\ \/ completions' = completions
             \/ /\ enabled /\ map[r0] # "ended" /\ s0 = "ended"
                /\ completions' = [completions EXCEPT ![r0] = @ + 1]
    BY <1>12 DEF Watcher!Receives, Watcher!IsEnd
  <2>3. wire[1].run = r0 /\ wire[1].state = s0 /\ 1 \in 1..Len(wire)
    <3>1. wire \in Seq(Frame) /\ wire # <<>>
      BY <2>1 DEF WatcherTypes
    <3>2. Head(wire) = wire[1] /\ 1 \in 1..Len(wire)
      BY <3>1
    <3> QED BY <2>2, <3>2
  <2>4. r0 \in Watched
    BY <2>3, FramesAreTyped
  <2>5. /\ Leads(map[r0], Told(r0), s0, at[1]) /\ at[1] \in Nat
    BY <1>0, <2>3 DEF Numbers
  <2>6. Told(r0)' <= at[1] /\ \A r \in Watched : r # r0 => Told(r)' = Told(r)
    <3>1. CASE completions' = completions
      <4>1. \A r \in Watched : Told(r)' = Told(r)
        BY <2>1, <3>1 DEF Told
      <4> QED BY <1>1, <2>4, <2>5, <4>1 DEF Leads
    <3>2. CASE /\ enabled /\ map[r0] # "ended" /\ s0 = "ended"
               /\ completions' = [completions EXCEPT ![r0] = @ + 1]
      <4>1. /\ completions'[r0] = completions[r0] + 1 /\ said'[r0] = said[r0]
            /\ completions[r0] \in Nat /\ said[r0] \in Nat
            /\ \A r \in Watched : r # r0 => completions'[r] = completions[r]
        BY <2>1, <2>4, <3>2 DEF WatcherTypes
      <4>2. Told(r0)' = Told(r0) + 1
        BY <4>1 DEF Told
      <4>3. Told(r0) < at[1]
        BY <2>5, <3>2 DEF Leads
      <4>4. \A r \in Watched : r # r0 => Told(r)' = Told(r)
        BY <2>1, <4>1 DEF Told
      <4> QED BY <1>1, <2>4, <2>5, <4>2, <4>3, <4>4
    <3> QED BY <2>2, <3>1, <3>2
  <2>7. /\ \E b \in [1..Len(wire') -> Nat] : Numbers(b)'
        /\ Leads(map'[r0], Told(r0)', states'[r0], ends'[r0])
    BY <1>0, <2>1, <2>2, <2>3, <2>4, <2>6, NumbersRead
  <2>8. ASSUME NEW r \in Watched
        PROVE  (/\ Leads(map[r], Told(r), states[r], ends[r])
                /\ socket = "listed" => Leads(listed[r], Told(r), states[r], ends[r])
                /\ states[r] = "ended" => ends[r] > 0
                /\ ~enabled => said[r] = 0 /\ completions[r] = 0)'
    <3>1. Leads(map'[r], Told(r)', states'[r], ends'[r])
      <4>1. CASE r = r0
        BY <2>7, <4>1
      <4>2. CASE r # r0
        <5>1. map'[r] = map[r]
          BY <2>2, <2>4, <4>2 DEF WatcherTypes
        <5> QED BY <1>1, <2>1, <2>6, <4>2, <5>1
      <4> QED BY <4>1, <4>2
    <3>2. ~enabled => said'[r] = 0 /\ completions'[r] = 0
      BY <1>1, <2>1, <2>2
    <3> QED BY <1>1, <2>1, <3>1, <3>2
  <2> QED BY <2>7, <2>8 DEF EndsInv
<1>13. CASE UNCHANGED Watcher!vars
  BY <1>1, <1>3, <1>13 DEF Watcher!vars, Told
<1> QED
  BY <1>5, <1>6, <1>7, <1>8, <1>9, <1>10, <1>11, <1>12, <1>13 DEF Watcher!Next

\* A page announces the end of a run once, whatever frames are lost, doubled or late:
\* an end is one of the ends the row has had, and each is announced by the first frame
\* after it alone (runWatcher.ts, onmessage).
THEOREM EndsAnnouncedOnce == Spec => []OnceAnnounced
<1> DEFINE Inv == WatcherTypes /\ EndsInv
<1>1. Init => Inv
  BY WatcherInit, EndsInit, BrowserAssumption DEF Init, BrowserAssumption
<1>2. Inv /\ [Next]_vars => Inv'
  BY WatcherTypesStep, EndsStep, WatcherFrame
<1>3. Inv => OnceAnnounced
  BY DEF EndsInv, Leads, Told, OnceAnnounced, Watcher!OnceAnnounced
<1> QED BY <1>1, <1>2, <1>3, PTL DEF Spec

-----------------------------------------------------------------------------
\* The forms move by their own steps, or not at all.
LEMMA FormsFrame == [Next]_vars => [Forms!Next]_(Forms!vars)
BY DEF Next, vars, formVars, Forms!vars

ProjectRow == [text : Forms!Field, strategy : Forms!Strategies]

\* A form that is loading has a row to load.
FormsInv ==
  /\ Forms!TypeOK /\ Forms!RowsStaySane
  /\ form.kind = "edit" => project \in ProjectRow

\* What is saved is text of a user's, or NULL.
LEMMA SavedText ==
  ASSUME Forms!ConfigFormsAssumption, NEW d \in Forms!Draft \cup Forms!Field
  PROVE  Forms!FromDraft(d) \in Forms!Field \ {""}
BY DEF Forms!FromDraft, Forms!Draft, Forms!Field, Forms!ConfigFormsAssumption

FormType ==
  [kind : {"none", "new", "edit", "settings"}, pc : {"closed", "loading", "open", "saving"},
   text : Forms!Draft \cup Forms!Field, strategy : Forms!Strategies,
   attempts : 0..MaxAttempts]

LEMMA FormsInit ==
  ASSUME Forms!ConfigFormsAssumption, Forms!Init
  PROVE  FormsInv
<1>1. Forms!NoForm \in FormType
  <2>1. MaxAttempts \in Nat \ {0}
    BY DEF Forms!ConfigFormsAssumption
  <2>2. 1 \in 0..MaxAttempts
    BY <2>1
  <2> QED BY <2>2 DEF Forms!NoForm, FormType, Forms!Draft, Forms!Strategies
<1>2. Forms!NoForm.kind = "none"
  BY DEF Forms!NoForm
<1>3. settings \in 0..MaxAttempts /\ settings >= 1 /\ 0 \in 0..MaxTyped /\ 0 \in 0..MaxSaves
  <2>1. settings \in 1..MaxAttempts
    BY DEF Forms!Init
  <2>2. MaxAttempts \in Nat /\ MaxTyped \in Nat /\ MaxSaves \in Nat
    BY DEF Forms!ConfigFormsAssumption
  <2> QED BY <2>1, <2>2
<1>4. formError \in BOOLEAN
  BY DEF Forms!Init
<1>5. Forms!TypeOK
  BY <1>1, <1>3, <1>4 DEF Forms!Init, Forms!TypeOK, FormType
<1> QED BY <1>2, <1>3, <1>5 DEF Forms!Init, FormsInv, Forms!RowsStaySane

LEMMA FormsStep ==
  ASSUME Forms!ConfigFormsAssumption, FormsInv, [Forms!Next]_(Forms!vars)
  PROVE  FormsInv'
<1>0. /\ project \in ProjectRow \cup {None} /\ settings \in 0..MaxAttempts
      /\ form \in FormType /\ formError \in BOOLEAN
      /\ typed \in 0..MaxTyped /\ saves \in 0..MaxSaves
      /\ MaxAttempts \in Nat \ {0} /\ MaxTyped \in Nat /\ MaxSaves \in Nat
      /\ settings >= 1 /\ (project # None => project.text # "")
  BY DEF FormsInv, Forms!TypeOK, Forms!RowsStaySane, FormType, ProjectRow,
     Forms!ConfigFormsAssumption
<1>n. /\ MaxAttempts \in Nat \ {0} /\ MaxTyped \in Nat /\ MaxSaves \in Nat
      /\ typed \in 0..MaxTyped /\ saves \in 0..MaxSaves
  BY <1>0
<1>1. ASSUME project' \in ProjectRow \cup {None}, project' # None => project'.text # "",
             settings' \in 0..MaxAttempts, settings' >= 1, form' \in FormType,
             form'.kind = "edit" => project' \in ProjectRow, formError' \in BOOLEAN,
             typed' \in 0..MaxTyped, saves' \in 0..MaxSaves
      PROVE  FormsInv'
  BY <1>1 DEF FormsInv, Forms!TypeOK, Forms!RowsStaySane, FormType, ProjectRow
<1>2. Forms!NoForm \in FormType /\ Forms!NoForm.kind = "none"
  <2>1. 1 \in 0..MaxAttempts
    BY <1>n
  <2> QED BY <2>1 DEF Forms!NoForm, FormType, Forms!Draft, Forms!Strategies
<1>3. CASE Forms!OpenNew \/ Forms!OpenEdit \/ Forms!OpenSettings
  <2>1. PICK kind \in {"new", "edit", "settings"}, step \in {"loading", "open"} :
          /\ form' = [Forms!NoForm EXCEPT !.kind = kind, !.pc = step]
          /\ kind = "edit" => project # None
          /\ formError' = FALSE /\ UNCHANGED <<project, settings, typed, saves>>
    BY <1>3 DEF Forms!OpenNew, Forms!OpenEdit, Forms!OpenSettings
  <2>2. form' \in FormType /\ form'.kind = kind
    BY <1>2, <2>1 DEF FormType
  <2>3. form'.kind = "edit" => project \in ProjectRow
    BY <1>0, <2>1, <2>2
  <2>4. formError' \in BOOLEAN
    BY <2>1
  <2> QED BY <1>0, <1>1, <2>1, <2>2, <2>3, <2>4
<1>4. CASE Forms!Filled
  <2>1. UNCHANGED <<project, settings, formError, typed, saves>>
    BY <1>4 DEF Forms!Filled
  <2>2. form' \in FormType /\ form'.kind = form.kind
    <3>1. CASE form.kind = "edit"
      <4>1. project \in ProjectRow
        BY <3>1 DEF FormsInv
      <4>2. /\ Forms!ToDraft(project.text) \in Forms!Draft \cup Forms!Field
            /\ project.strategy \in Forms!Strategies
        BY <4>1 DEF Forms!ToDraft, ProjectRow, Forms!Draft
      <4>3. form' = [form EXCEPT !.pc = "open", !.text = Forms!ToDraft(project.text),
                                 !.strategy = project.strategy]
        BY <1>4, <3>1 DEF Forms!Filled
      <4> QED BY <1>0, <4>2, <4>3 DEF FormType
    <3>2. CASE form.kind # "edit"
      <4>1. form' = [form EXCEPT !.pc = "open", !.attempts = settings]
        BY <1>4, <3>2 DEF Forms!Filled
      <4> QED BY <1>0, <4>1 DEF FormType
    <3> QED BY <3>1, <3>2
  <2>3. form.kind = "edit" => project \in ProjectRow
    BY DEF FormsInv
  <2> QED BY <1>0, <1>1, <2>1, <2>2, <2>3
<1>5. CASE Forms!Type
  <2>1. form' \in FormType /\ form'.kind = form.kind
    BY <1>0, <1>5 DEF Forms!Type, FormType
  <2>2. typed' \in 0..MaxTyped
    <3>1. typed < MaxTyped /\ typed' = typed + 1
      BY <1>5 DEF Forms!Type
    <3> QED BY <1>n, <3>1
  <2>3. form.kind = "edit" => project \in ProjectRow
    BY DEF FormsInv
  <2> QED BY <1>0, <1>1, <1>5, <2>1, <2>2, <2>3 DEF Forms!Type
<1>6. CASE Forms!Submit \/ Forms!SaveFails
  <2>1. PICK step \in {"open", "saving"} : form' = [form EXCEPT !.pc = step]
    BY <1>6 DEF Forms!Submit, Forms!SaveFails
  <2>2. form' \in FormType /\ form'.kind = form.kind
    BY <1>0, <2>1 DEF FormType
  <2>3. form.kind = "edit" => project \in ProjectRow
    BY DEF FormsInv
  <2>4. formError' \in BOOLEAN /\ UNCHANGED <<project, settings, typed, saves>>
    BY <1>6 DEF Forms!Submit, Forms!SaveFails
  <2> QED BY <1>0, <1>1, <2>2, <2>3, <2>4
<1>7. CASE Forms!Created \/ Forms!Patched
  <2>1. PICK s \in Forms!Strategies :
          /\ project' = [text |-> Forms!FromDraft(form.text), strategy |-> s]
          /\ form' = Forms!NoForm /\ UNCHANGED <<settings, formError, typed, saves>>
    BY <1>0, <1>7 DEF Forms!Created, Forms!Patched, FormType, Forms!Strategies
  <2>2. Forms!FromDraft(form.text) \in Forms!Field \ {""}
    BY <1>0, SavedText DEF FormType
  <2>3. project' \in ProjectRow /\ project'.text # ""
    BY <2>1, <2>2 DEF ProjectRow
  <2> QED BY <1>0, <1>1, <1>2, <2>1, <2>3
<1>8. CASE Forms!SettingsSaved
  <2>1. form' = [form EXCEPT !.pc = "open"] /\ UNCHANGED <<project, typed, saves>>
    BY <1>8 DEF Forms!SettingsSaved
  <2>2. form' \in FormType /\ form'.kind = form.kind
    BY <1>0, <2>1 DEF FormType
  <2>3. form.kind = "edit" => project \in ProjectRow
    BY DEF FormsInv
  <2>4. settings' \in 0..MaxAttempts /\ settings' >= 1
    BY <1>0, <1>8 DEF Forms!SettingsSaved, Forms!ValidAttempts, FormType
  <2>5. formError' \in BOOLEAN
    BY <1>8 DEF Forms!SettingsSaved
  <2> QED BY <1>0, <1>1, <2>1, <2>2, <2>3, <2>4, <2>5
<1>9. CASE Forms!Close
  <2>1. formError' \in BOOLEAN
    BY <1>9 DEF Forms!Close
  <2> QED BY <1>0, <1>1, <1>2, <1>9, <2>1 DEF Forms!Close
<1>10. CASE Forms!SavedElsewhere
  <2>1. saves' \in 0..MaxSaves /\ UNCHANGED <<form, formError, typed>>
    <3>1. saves < MaxSaves /\ saves' = saves + 1
      BY <1>10 DEF Forms!SavedElsewhere
    <3>2. saves' \in 0..MaxSaves
      BY <1>n, <3>1
    <3> QED BY <1>10, <3>2 DEF Forms!SavedElsewhere
  <2>2. form.kind = "edit" => project \in ProjectRow
    BY DEF FormsInv
  <2>3. CASE /\ project' \in [text : {Forms!FromDraft(d) : d \in Forms!Draft},
                             strategy : Forms!Strategies]
             /\ UNCHANGED settings
    <3>1. project' \in ProjectRow /\ project'.text # ""
      BY <2>3, SavedText DEF ProjectRow
    <3> QED BY <1>0, <1>1, <2>1, <2>3, <3>1
  <2>4. CASE settings' \in 1..MaxAttempts /\ UNCHANGED project
    <3>1. settings' \in 0..MaxAttempts /\ settings' >= 1
      BY <1>n, <2>4
    <3> QED BY <1>0, <1>1, <2>1, <2>2, <2>4, <3>1
  <2> QED BY <1>10, <2>3, <2>4 DEF Forms!SavedElsewhere
<1>11. CASE UNCHANGED Forms!vars
  BY <1>11 DEF Forms!vars, FormsInv, Forms!TypeOK, Forms!RowsStaySane
<1> QED
  BY <1>3, <1>4, <1>5, <1>6, <1>7, <1>8, <1>9, <1>10, <1>11 DEF Forms!Next

-----------------------------------------------------------------------------
\* The branch on GitHub has no commits that the safeguard lacks, and what of it main
\* lacks is no more than that.
HubInv ==
  /\ hub \in [commits : Nat, ahead : Nat, clash : BOOLEAN, pr : BOOLEAN]
  /\ tip \in 1..MaxTip /\ hub.commits <= tip /\ hub.ahead <= tip
  /\ hub.commits # 0 => hub.ahead <= hub.commits

PayloadsInv ==
  /\ cache \in Ship!Payloads \cup {None} /\ payload \in Ship!Payloads \cup {None}
  /\ gets \in [Gets -> [pc : {"none", "reading", "answered"},
                        val : Ship!Payloads \cup {None}]]

ShipInv == OpsInv /\ HubInv /\ PayloadsInv

\* What the server answers is a payload, right or not.
LEMMA AnswersArePayloads ==
  ASSUME Ship!ShipAssumption, HubInv
  PROVE  {Ship!Truth} \cup Ship!Failed \subseteq Ship!Payloads
<1>0. /\ MaxTip \in Nat /\ tip \in 1..MaxTip /\ hub.ahead \in Nat /\ hub.commits \in Nat
      /\ hub.ahead <= tip /\ hub.commits <= tip
  BY DEF HubInv, Ship!ShipAssumption
<1>1. /\ hub.ahead \in 0..MaxTip /\ 0 \in 0..MaxTip
      /\ hub.ahead + tip - hub.commits \in Nat
  BY <1>0
<1>2. Ship!Count(hub.ahead + tip - hub.commits) \in 0..2 /\ 2 \in 0..2
  BY <1>1 DEF Ship!Count, Ship!Several
<1>3. \A a \in 0..MaxTip, n \in 0..2, offer \in BOOLEAN :
        [ahead |-> a, commits |-> n, offer |-> offer] \in Ship!Payloads
  BY DEF Ship!Payloads, Ship!Several
<1> DEFINE n == Ship!Count(hub.ahead + tip - hub.commits)
           offered == ~hub.pr
<1>4. /\ Ship!Truth = [ahead |-> hub.ahead, commits |-> n, offer |-> offered]
      /\ n \in 0..2 /\ offered \in BOOLEAN
  BY <1>2 DEF Ship!Truth
<1> HIDE DEF n, offered
<1>5. Ship!Uncompared = [ahead |-> 0, commits |-> 2, offer |-> offered]
  <2>1. Ship!Uncompared = [Ship!Truth EXCEPT !.ahead = 0, !.commits = 2]
    BY DEF Ship!Uncompared, Ship!NoBase, Ship!Several
  <2> QED BY <1>4, <2>1
<1>6. Ship!Failed = {[ahead |-> 0, commits |-> 2, offer |-> offered],
                     [ahead |-> hub.ahead, commits |-> n, offer |-> TRUE],
                     [ahead |-> 0, commits |-> 2, offer |-> FALSE]}
  BY <1>4, <1>5 DEF Ship!Failed
<1> QED BY <1>1, <1>2, <1>3, <1>4, <1>6

LEMMA ShipInit ==
  ASSUME Ship!ShipAssumption, Ship!Init
  PROVE  ShipInv
<1>1. HubInv
  BY DEF Ship!Init, HubInv, Ship!ShipAssumption
<1>2. PayloadsInv
  BY DEF Ship!Init, PayloadsInv, Ship!NoGet
<1> QED BY <1>1, <1>2, OpsInit DEF ShipInv

\* Every step that reaches GitHub.
LEMMA HubStep ==
  ASSUME Ship!ShipAssumption, OpsInv, HubInv, [Ship!Next]_(Ship!vars)
  PROVE  HubInv'
<1> USE DEF Ship!world, Ship!server, Ship!page
<1>0. /\ hub \in [commits : Nat, ahead : Nat, clash : BOOLEAN, pr : BOOLEAN]
      /\ tip \in Nat /\ tip >= 1 /\ tip <= MaxTip /\ MaxTip \in Nat
      /\ hub.commits \in Nat /\ hub.ahead \in Nat /\ hub.commits <= tip /\ hub.ahead <= tip
      /\ hub.commits # 0 => hub.ahead <= hub.commits
  BY DEF HubInv, Ship!ShipAssumption
\* It is enough to look at the two numbers.
<1>1. ASSUME NEW c \in Nat, NEW a \in Nat, tip' \in 1..MaxTip, c <= tip', a <= tip',
             c # 0 => a <= c,
             hub' \in [commits : {c}, ahead : {a}, clash : BOOLEAN, pr : BOOLEAN]
      PROVE  HubInv'
  BY <1>1 DEF HubInv
<1>2. CASE UNCHANGED <<tip, hub>>
  BY <1>2 DEF HubInv
<1>3. CASE Ship!Commits
  <2>1. tip' = tip + 1 /\ tip' \in 1..MaxTip
    BY <1>0, <1>3 DEF Ship!Commits
  <2>2. CASE hub' = [hub EXCEPT !.commits = tip',
                     !.ahead = IF hub.commits = 0 THEN tip' ELSE @ + tip' - hub.commits]
    <3> DEFINE a == IF hub.commits = 0 THEN tip' ELSE hub.ahead + tip' - hub.commits
    <3>1. a \in Nat /\ a <= tip' /\ tip' \in Nat
      BY <1>0, <2>1
    <3>2. hub' = [hub EXCEPT !.commits = tip', !.ahead = a]
      BY <2>2
    <3> HIDE DEF a
    <3>3. hub' \in [commits : {tip'}, ahead : {a}, clash : BOOLEAN, pr : BOOLEAN]
      BY <1>0, <3>2
    <3> QED BY <1>1, <2>1, <3>1, <3>3
  <2>3. CASE UNCHANGED hub
    BY <1>0, <2>1, <2>3 DEF HubInv
  <2> QED BY <1>3, <2>2, <2>3 DEF Ship!Commits
<1>4. CASE Ship!MainClashes \/ Ship!OpensPr
  <2>1. tip' = tip
    BY <1>4 DEF Ship!MainClashes, Ship!OpensPr
  <2>2. hub' \in [commits : {hub.commits}, ahead : {hub.ahead}, clash : BOOLEAN, pr : BOOLEAN]
    BY <1>0, <1>4 DEF Ship!MainClashes, Ship!OpensPr
  <2> QED BY <1>0, <1>1, <2>1, <2>2
<1>5. ASSUME NEW o \in Ops, Ship!Pushes(o)
      PROVE  HubInv'
  <2>1. /\ ops[o].kind \in {"merge", "squash", "sync", "squash-local"}
        /\ hub' \in Ship!Landed(ops[o].kind) /\ tip' = tip
    BY <1>5 DEF Ship!Pushes, OpsInv, OpKnows, Ship!Kinds, Ship!Merges
  <2>2. \/ hub' = [hub EXCEPT !.ahead = 0] \/ hub' = hub
        \/ \E n \in {0, tip} : hub' = [hub EXCEPT !.ahead = tip, !.commits = n]
        \/ hub' = [hub EXCEPT !.ahead = 1, !.commits = 0]
    BY <2>1 DEF Ship!Landed
  <2>3. PICK c \in Nat, a \in Nat :
          /\ hub' \in [commits : {c}, ahead : {a}, clash : BOOLEAN, pr : BOOLEAN]
          /\ c <= tip /\ a <= tip /\ (c # 0 => a <= c)
    <3>1. CASE hub' = [hub EXCEPT !.ahead = 0]
      <4>1. hub' \in [commits : {hub.commits}, ahead : {0}, clash : BOOLEAN, pr : BOOLEAN]
        BY <1>0, <3>1
      <4> QED BY <1>0, <4>1
    <3>2. CASE hub' = hub
      <4>1. hub' \in [commits : {hub.commits}, ahead : {hub.ahead}, clash : BOOLEAN,
                      pr : BOOLEAN]
        BY <1>0, <3>2
      <4> QED BY <1>0, <4>1
    <3>3. ASSUME NEW n \in {0, tip}, hub' = [hub EXCEPT !.ahead = tip, !.commits = n]
          PROVE  \E c \in Nat, a \in Nat :
                   /\ hub' \in [commits : {c}, ahead : {a}, clash : BOOLEAN, pr : BOOLEAN]
                   /\ c <= tip /\ a <= tip /\ (c # 0 => a <= c)
      <4>1. hub' \in [commits : {n}, ahead : {tip}, clash : BOOLEAN, pr : BOOLEAN]
        BY <1>0, <3>3
      <4> QED BY <1>0, <3>3, <4>1
    <3>4. CASE hub' = [hub EXCEPT !.ahead = 1, !.commits = 0]
      <4>1. hub' \in [commits : {0}, ahead : {1}, clash : BOOLEAN, pr : BOOLEAN]
        BY <1>0, <3>4
      <4> QED BY <1>0, <4>1
    <3> QED BY <2>2, <3>1, <3>2, <3>3, <3>4
  <2> QED BY <1>0, <1>1, <2>1, <2>3
<1>6. ASSUME NEW c \in children, Ship!ChildWorks(c)
      PROVE  HubInv'
  <2>1. tip' = tip
    BY <1>6 DEF Ship!ChildWorks
  <2>2. CASE hub' = [hub EXCEPT !.ahead = 0, !.clash = FALSE]
    <3>1. hub' \in [commits : {hub.commits}, ahead : {0}, clash : BOOLEAN, pr : BOOLEAN]
      BY <1>0, <2>2
    <3> QED BY <1>0, <1>1, <2>1, <3>1
  <2>3. CASE UNCHANGED hub
    BY <1>2, <2>1, <2>3
  <2>4. ASSUME NEW n \in 1..hub.ahead, hub' = [hub EXCEPT !.commits = 0, !.ahead = n]
        PROVE  HubInv'
    <3>1. hub.ahead \in Nat /\ hub.ahead <= tip /\ tip \in Nat
      BY <1>0
    <3>2. n \in Nat /\ n <= tip
      BY <3>1
    <3>3. hub' = [hub EXCEPT !.commits = 0, !.ahead = n]
      BY <2>4
    <3>4. hub' \in [commits : {0}, ahead : {n}, clash : BOOLEAN, pr : BOOLEAN]
      BY <1>0, <3>3
    <3> QED BY <1>0, <1>1, <2>1, <3>2, <3>4
  <2> QED BY <1>6, <2>2, <2>3, <2>4 DEF Ship!ChildWorks
<1>7. CASE Ship!Ends \/ Ship!Expires \/ Ship!Patches
  BY <1>2, <1>7 DEF Ship!Ends, Ship!Expires, Ship!Patches
<1>8. ASSUME NEW g \in Gets, Ship!Asks(g) \/ Ship!Reads(g) \/ Ship!Loads(g)
      PROVE  HubInv'
  BY <1>2, <1>8 DEF Ship!Asks, Ship!Reads, Ship!Loads
<1>9. ASSUME NEW o \in Ops,
             \/ \E kind \in Ship!Kinds : Ship!Clicks(o, kind)
             \/ Ship!Delegates(o) \/ Ship!Dispatches(o) \/ Ship!Prints(o) \/ Ship!Replies(o)
             \/ Ship!TimesOut(o) \/ Ship!Reports(o)
      PROVE  HubInv'
  BY <1>2, <1>9 DEF Ship!Clicks, Ship!Delegates, Ship!Dispatches, Ship!Prints, Ship!Replies,
     Ship!TimesOut, Ship!Reports
<1>10. CASE UNCHANGED Ship!vars
  BY <1>2, <1>10 DEF Ship!vars
<1> QED
  BY <1>3, <1>4, <1>5, <1>6, <1>7, <1>8, <1>9, <1>10 DEF Ship!Next

LEMMA PayloadsStep ==
  ASSUME Ship!ShipAssumption, HubInv, PayloadsInv, [Ship!Next]_(Ship!vars)
  PROVE  PayloadsInv'
<1> USE DEF Ship!world, Ship!server, Ship!page
<1>1. CASE UNCHANGED <<cache, payload, gets>>
  BY <1>1 DEF PayloadsInv
<1>2. ASSUME NEW g \in Gets, Ship!Asks(g)
      PROVE  PayloadsInv'
  <2>1. PICK step \in {"reading", "answered"}, v \in {cache, None} :
          gets' = [gets EXCEPT ![g] = [pc |-> step, val |-> v]]
    BY <1>2 DEF Ship!Asks
  <2> QED BY <1>2, <2>1 DEF Ship!Asks, PayloadsInv
<1>3. ASSUME NEW g \in Gets, Ship!Reads(g)
      PROVE  PayloadsInv'
  BY <1>3, AnswersArePayloads DEF Ship!Reads, PayloadsInv
<1>4. ASSUME NEW g \in Gets, Ship!Loads(g)
      PROVE  PayloadsInv'
  BY <1>4 DEF Ship!Loads, Ship!NoGet, PayloadsInv
<1>5. CASE Ship!Expires
  BY <1>5 DEF Ship!Expires, PayloadsInv
<1>6. CASE Ship!Patches
  <2>1. UNCHANGED <<cache, gets>>
    BY <1>6 DEF Ship!Patches
  <2>2. payload' \in Ship!Payloads \cup {None}
    <3>1. CASE payload = None
      BY <1>6, <3>1 DEF Ship!Patches
    <3>2. CASE payload # None
      <4>1. payload' = [payload EXCEPT !.ahead = 0] /\ payload \in Ship!Payloads
        BY <1>6, <3>2 DEF Ship!Patches, Ship!NoBase, PayloadsInv
      <4>2. 0 \in 0..MaxTip
        BY DEF Ship!ShipAssumption
      <4> QED BY <4>1, <4>2 DEF Ship!Payloads
    <3> QED BY <3>1, <3>2
  <2> QED BY <2>1, <2>2 DEF PayloadsInv
<1>7. CASE Ship!Commits \/ Ship!MainClashes \/ Ship!Ends \/ Ship!OpensPr
  BY <1>1, <1>7 DEF Ship!Commits, Ship!MainClashes, Ship!Ends, Ship!OpensPr
<1>8. ASSUME NEW o \in Ops,
             \/ \E kind \in Ship!Kinds : Ship!Clicks(o, kind)
             \/ Ship!Delegates(o) \/ Ship!Dispatches(o) \/ Ship!Pushes(o) \/ Ship!Prints(o)
             \/ Ship!Replies(o) \/ Ship!TimesOut(o) \/ Ship!Reports(o)
      PROVE  PayloadsInv'
  BY <1>1, <1>8 DEF Ship!Clicks, Ship!Delegates, Ship!Dispatches, Ship!Pushes, Ship!Prints,
     Ship!Replies, Ship!TimesOut, Ship!Reports
<1>9. ASSUME NEW c \in children, Ship!ChildWorks(c)
      PROVE  PayloadsInv'
  BY <1>1, <1>9 DEF Ship!ChildWorks
<1>10. CASE UNCHANGED Ship!vars
  BY <1>1, <1>10 DEF Ship!vars
<1> QED
  BY <1>2, <1>3, <1>4, <1>5, <1>6, <1>7, <1>8, <1>9, <1>10 DEF Ship!Next

\* Every state of the pages is of its type.  That says that no timer of an earlier
\* loss denies an open socket (connectionState.ts:31), that the title counts the runs
\* that wait in a hidden tab, and that no form saves blank text or a cap of no attempts.
THEOREM BrowserIsTyped == Spec => []TypeOK
<1> DEFINE Shows == shown \in {"page", "watcher", "forms", "ship"}
           WatcherInv == WatcherTypes /\ BannerInv /\ TitleInv
           Inv == Shows /\ Page!TypeOK /\ WatcherInv /\ FormsInv /\ ShipInv
<1>0. /\ Page!PageAssumption /\ Watcher!WatcherAssumption
      /\ Forms!ConfigFormsAssumption /\ Ship!ShipAssumption
  BY BrowserAssumption DEF BrowserAssumption
<1>1. Init => Inv
  BY <1>0, TypeInit, WatcherInit, FormsInit, ShipInit DEF Init
<1>2. Inv /\ [Next]_vars => Inv'
  <2> SUFFICES ASSUME Inv, [Next]_vars
               PROVE  Inv'
    OBVIOUS
  <2>1. Shows'
    BY DEF Next, vars
  <2>2. Page!TypeOK' /\ WatcherInv' /\ FormsInv'
    BY <1>0, TypeStep, PageFrame, WatcherTypesStep, BannerStep, TitleStep, WatcherFrame,
       FormsStep, FormsFrame
  <2>3. ShipInv'
    BY <1>0, OpsStep, HubStep, PayloadsStep, ShipFrame DEF ShipInv
  <2> QED BY <2>1, <2>2, <2>3
<1>3. Inv => TypeOK
  <2> SUFFICES ASSUME Inv
               PROVE  TypeOK
    OBVIOUS
  <2>1. Watcher!TypeOK
    <3>1. \A S : Watcher!Cardinality(S) = Cardinality(S)
      BY DEF Watcher!Cardinality, Cardinality, Watcher!IsFiniteSet, IsFiniteSet
    <3> QED BY <3>1 DEF WatcherTypes, BannerInv, TitleInv, Frame, Watcher!TypeOK
  <2>2. Forms!TypeOK /\ Forms!RowsStaySane
    BY DEF FormsInv
  <2>3. Ship!TypeOK
    BY <1>0 DEF ShipInv, OpsInv, HubInv, PayloadsInv, Ship!TypeOK, Ship!ShipAssumption
  <2> QED BY <2>1, <2>2, <2>3 DEF TypeOK
<1> HIDE DEF Inv
<1> QED BY <1>1, <1>2, <1>3, PTL DEF Spec

===============================================================================
