-------------------------------- MODULE ShipTab --------------------------------
(***************************************************************************)
(* The ship tab of one run with a branch on GitHub: the page asks for the  *)
(* branch's changes, which the server caches, frames of the run's socket   *)
(* patch what it shows, and its buttons start history operations and open  *)
(* a pull request.  An operation is a script, in the run's container or in *)
(* a transient one; a conflict is handed to an agent, in a run of its own. *)
(*                                                                         *)
(* SafeguardGit has what the scripts do to the commits; here it matters    *)
(* what becomes of their outcome, and counts stand for the commits.        *)
(***************************************************************************)
EXTENDS Integers

CONSTANTS
  None,
  Gets,       \* requests for the changes that may overlap
  Ops,        \* bound: the history operations, by name
  MaxTip,     \* bound on the agent's commits
  MaxFaults   \* bound on calls of git and GitHub that fail

ShipAssumption ==
  None \notin Gets \cup Ops /\ {MaxTip, MaxFaults} \subseteq Nat

VARIABLES
  live,      \* has the run a container?
  tip,       \* commits in the safeguard
  hub,       \* GitHub: how many of the safeguard's commits its branch has, how many
             \* of the branch's main lacks, whether main's clash with them, and
             \* whether there is a pull request
  cache,     \* changesCache: a payload, until it expires
  gets,      \* GET changes
  ops,       \* POST history, and its script
  children,  \* the runs an operation was handed to: of which, what was asked, and told
  shown, busy,  \* the page: the payload it shows, an operation it waits for
  frame,     \* is a frame of the safeguard's watcher on its way?
  faults

world == <<live, tip, hub>>
server == <<cache, gets, ops, children>>
page == <<shown, busy, frame>>
vars == <<world, server, page, faults>>

-----------------------------------------------------------------------------
\* What the changes endpoint answers

\* A page tells no commit, one and several apart.
Several == 2
Count(n) == IF n < Several THEN n ELSE Several

\* The branch compared to main on GitHub, then the safeguard's commits that are not
\* among those, and whether the page may offer to open a pull request.
Truth == [ahead |-> hub.ahead, commits |-> Count(hub.ahead + tip - hub.commits),
          offer |-> ~hub.pr]

\* A comparison that fails looks like a branch with nothing on it, and lets the
\* safeguard's commits begin with the history of main.  A list of pull requests
\* that fails looks like none, and without gh there is only the safeguard.
NoBase == 0
Uncompared == [Truth EXCEPT !.ahead = NoBase, !.commits = Several]
Failed == {Uncompared, [Truth EXCEPT !.offer = TRUE], [Uncompared EXCEPT !.offer = FALSE]}

NoGet == [pc |-> "none", val |-> None]
NoOp == [pc |-> "none", kind |-> None, script |-> "none", boxed |-> FALSE, landed |-> FALSE,
         res |-> None]

Init ==
  /\ live \in BOOLEAN /\ tip \in 1..MaxTip
  /\ hub = [commits |-> tip, ahead |-> tip, clash |-> FALSE, pr |-> FALSE]
  /\ cache = None /\ gets = [g \in Gets |-> NoGet] /\ ops = [o \in Ops |-> NoOp]
  /\ children = {}
  /\ shown = None /\ busy = FALSE /\ frame = FALSE /\ faults = 0

Fault == faults < MaxFaults /\ faults' = faults + 1

-----------------------------------------------------------------------------
\* The agent, and other people

\* Its hook pushes to GitHub too, over a branch that was rewritten there, or fails
\* to.  The watcher of the safeguard sees the ref or not: it does not look into the
\* directory claude/.
Commits ==
  /\ live /\ tip < MaxTip /\ tip' = tip + 1
  /\ \/ hub' = [hub EXCEPT !.commits = tip',
                           !.ahead = IF hub.commits = 0 THEN tip' ELSE @ + tip' - hub.commits]
        /\ UNCHANGED faults
     \/ Fault /\ UNCHANGED hub
  /\ frame' \in {frame, TRUE}
  /\ UNCHANGED <<live, server, shown, busy>>

MainClashes ==
  /\ ~hub.clash /\ hub' = [hub EXCEPT !.clash = TRUE]
  /\ UNCHANGED <<live, tip, server, page, faults>>

\* The container goes, and with it the scripts that run in it.
Ends ==
  /\ live /\ live' = FALSE
  /\ ops' = [o \in Ops |-> IF ops[o].boxed /\ ops[o].script \in {"running", "pushed"}
                           THEN [ops[o] EXCEPT !.script = "killed"] ELSE ops[o]]
  /\ UNCHANGED <<tip, hub, cache, gets, children, page, faults>>

-----------------------------------------------------------------------------
\* GET /api/runs/:id/changes

\* The interval, and the reload after a button's answer.
Asks(g) ==
  /\ gets[g].pc = "none"
  /\ gets' = [gets EXCEPT ![g] = IF cache # None THEN [pc |-> "answered", val |-> cache]
                                 ELSE [pc |-> "reading", val |-> None]]
  /\ UNCHANGED <<world, cache, ops, children, page, faults>>

\* gh has answered, or some of its calls have failed.  The payload is cached,
\* whoever was faster.
Reads(g) ==
  /\ gets[g].pc = "reading"
  /\ \E payload \in {Truth} \cup Failed :
       /\ IF payload = Truth THEN UNCHANGED faults ELSE Fault
       /\ cache' = payload
       /\ gets' = [gets EXCEPT ![g] = [pc |-> "answered", val |-> payload]]
  /\ UNCHANGED <<world, ops, children, page>>

\* Mutant: a payload that is served is cached for another ten seconds.
NeverStale == FALSE

\* Ten seconds after it was cached.
Stale == cache # None

Expires ==
  /\ Stale /\ cache' = None
  /\ UNCHANGED <<world, gets, ops, children, page, faults>>

Loads(g) ==
  /\ gets[g].pc = "answered"
  /\ gets' = [gets EXCEPT ![g] = NoGet]
  /\ shown' = gets[g].val
  /\ UNCHANGED <<world, cache, ops, children, busy, frame, faults>>

\* The frame has no base and no commits; the page takes its base.
Patches ==
  /\ frame /\ frame' = FALSE
  /\ shown' = IF shown = None THEN None ELSE [shown EXCEPT !.ahead = NoBase]
  /\ UNCHANGED <<world, server, busy, faults>>

-----------------------------------------------------------------------------
\* POST /api/runs/:id/history

Merges == {"merge", "squash"}
Kinds == Merges \cup {"sync", "squash-local", "polish"}

\* The buttons.  The banner of a branch that failed to reach origin offers a sync
\* without looking at `busy`.
Offered(kind) ==
  /\ shown # None
  /\ CASE kind \in Merges       -> ~busy /\ shown.ahead > 0
       [] kind = "sync"         -> ~busy \/ hub.commits < tip
       [] kind = "squash-local" -> ~busy /\ shown.commits = Several
       [] kind = "polish"       -> ~busy /\ shown.commits > 0

Clicks(o, kind) ==
  /\ ops[o].pc = "none" /\ Offered(kind)
  /\ ops' = [ops EXCEPT ![o] = [NoOp EXCEPT !.pc = "sent", !.kind = kind]]
  /\ busy' = TRUE
  /\ UNCHANGED <<world, cache, gets, children, shown, frame, faults>>

Child(o, told) == [of |-> o, asked |-> ops[o].kind, told |-> told, done |-> FALSE]

\* What the agent is told to do about a conflict: the prompt has no words for a
\* sync, and asks for the merge.
ConflictPrompt(kind) == "merge"

Answered(res) == [NoOp EXCEPT !.pc = "replied", !.res = res]

\* A polish goes to an agent at once.
Delegates(o) ==
  /\ ops[o].pc = "sent" /\ ops[o].kind = "polish"
  /\ children' = children \cup {Child(o, "polish")}
  /\ ops' = [ops EXCEPT ![o] = Answered("agent")]
  /\ UNCHANGED <<world, cache, gets, page, faults>>

\* Any other goes to the run's container or to a new one, or Docker fails.
Dispatches(o) ==
  /\ ops[o].pc = "sent" /\ ops[o].kind # "polish"
  /\ \/ /\ ops' = [ops EXCEPT ![o].pc = "waiting", ![o].script = "running", ![o].boxed = live]
        /\ UNCHANGED faults
     \/ Fault /\ ops' = [ops EXCEPT ![o] = Answered("git-unavailable")]
  /\ UNCHANGED <<world, cache, gets, children, page>>

\* What a script that lands has done to GitHub.  It took the branch from the
\* safeguard; where main has moved, a sync makes new commits of the old.  The
\* strategy rebase, a sync and a merge, is left out.
Landed(kind) ==
  CASE kind = "merge"        -> {[hub EXCEPT !.ahead = 0]}
    [] kind = "squash"       -> {hub}
    [] kind = "sync"         -> {[hub EXCEPT !.ahead = tip, !.commits = n] : n \in {0, tip}}
    [] kind = "squash-local" -> {[hub EXCEPT !.ahead = 1, !.commits = 0]}

\* The script pushes.
Pushes(o) ==
  /\ ops[o].script = "running" /\ (hub.clash => ops[o].kind = "squash-local")
  /\ hub' \in Landed(ops[o].kind)
  /\ ops' = [ops EXCEPT ![o].script = "pushed", ![o].landed = TRUE]
  /\ UNCHANGED <<live, tip, cache, gets, children, page, faults>>

\* The line of JSON it prints last.
Prints(o) ==
  /\ \/ ops[o].script = "pushed" /\ ops' = [ops EXCEPT ![o].script = "ok"] /\ UNCHANGED faults
     \/ /\ ops[o].script = "running" /\ hub.clash /\ ops[o].kind # "squash-local"
        /\ ops' = [ops EXCEPT ![o].script = "conflict"] /\ UNCHANGED faults
     \/ Fault /\ ops[o].script = "running" /\ ops' = [ops EXCEPT ![o].script = "error"]
  /\ UNCHANGED <<world, cache, gets, children, page>>

\* Mutant: no output is taken for a script that had nothing to say.
SilenceIsSuccess(script) == IF script \in {"ok", "killed"} THEN "complete" ELSE
                            IF script = "conflict" THEN "conflict" ELSE "git-error"

\* parseHistoryOpResult(): a script that was killed has printed nothing.
Parsed(script) == CASE script = "ok"       -> "complete"
                    [] script = "conflict" -> "conflict"
                    [] OTHER               -> "git-error"

Replies(o) ==
  /\ ops[o].pc = "waiting" /\ ops[o].script \in {"ok", "conflict", "error", "killed"}
  /\ LET res == Parsed(ops[o].script) IN
       /\ ops' = [ops EXCEPT ![o] = [Answered(res) EXCEPT !.landed = ops[o].landed]]
       /\ children' = IF res = "conflict"
                      THEN children \cup {Child(o, ConflictPrompt(ops[o].kind))} ELSE children
  /\ UNCHANGED <<world, cache, gets, page, faults>>

\* A minute in the run's container, where the script goes on; two in a transient
\* one, which is killed.
TimesOut(o) ==
  /\ Fault /\ ops[o].pc = "waiting" /\ ops[o].script \in {"running", "pushed"}
  /\ ops' = IF ops[o].boxed
            THEN [ops EXCEPT ![o].pc = "replied", ![o].res = "git-unavailable"]
            ELSE [ops EXCEPT ![o].script = "killed"]
  /\ UNCHANGED <<world, cache, gets, children, page>>

\* The page reports the result; any answer ends `busy`, whose ever it is.  It
\* reloads after one that is complete: see Asks.
Reports(o) ==
  /\ ops[o].pc = "replied" /\ ops' = [ops EXCEPT ![o].pc = "done"]
  /\ busy' = FALSE
  /\ UNCHANGED <<world, cache, gets, children, shown, frame, faults>>

\* The agent of a child does as it is told.  To polish is to rewrite the branch's
\* commits, some into one, and to push them by force.
ChildWorks(c) ==
  /\ c \in children /\ ~c.done /\ children' = (children \ {c}) \cup {[c EXCEPT !.done = TRUE]}
  /\ IF c.told = "merge"
     THEN hub' = [hub EXCEPT !.ahead = 0, !.clash = FALSE]
     ELSE \/ UNCHANGED hub
          \/ \E n \in 1..hub.ahead : hub' = [hub EXCEPT !.commits = 0, !.ahead = n]
  /\ UNCHANGED <<live, tip, cache, gets, ops, page, faults>>

-----------------------------------------------------------------------------
\* POST /api/runs/:id/github/pr

\* There is none on GitHub, open or merged, as the page says; gh opens it, or fails.
\* The page asks for the changes then: its interval stands for that request.
OpensPr ==
  /\ shown # None /\ shown.offer /\ ~hub.pr
  /\ \/ hub' = [hub EXCEPT !.pr = TRUE] /\ UNCHANGED faults
     \/ Fault /\ UNCHANGED hub
  /\ UNCHANGED <<live, tip, server, page>>

-----------------------------------------------------------------------------
Next ==
  \/ Commits \/ MainClashes \/ Ends
  \/ \E g \in Gets : Asks(g) \/ Reads(g) \/ Loads(g)
  \/ Expires \/ Patches
  \/ \E o \in Ops :
       \/ \E kind \in Kinds : Clicks(o, kind)
       \/ Delegates(o) \/ Dispatches(o) \/ Pushes(o) \/ Prints(o) \/ Replies(o) \/ TimesOut(o)
       \/ Reports(o)
  \/ \E c \in children : ChildWorks(c)
  \/ OpensPr

Spec == Init /\ [][Next]_vars

\* The page polls, requests are answered, the clock runs; scripts need not end.
GetGoesOn(g) == Asks(g) \/ Reads(g) \/ Loads(g)

Fairness ==
  /\ \A g \in Gets : WF_vars(GetGoesOn(g))
  /\ WF_vars(Expires) /\ WF_vars(Patches)

FairSpec == Spec /\ Fairness

-----------------------------------------------------------------------------
Payloads == [ahead : 0..MaxTip, commits : 0..Several, offer : BOOLEAN]

TypeOK ==
  /\ live \in BOOLEAN /\ tip \in 1..MaxTip
  /\ hub \in [commits : 0..MaxTip, ahead : 0..MaxTip, clash : BOOLEAN, pr : BOOLEAN]
  /\ cache \in Payloads \cup {None} /\ shown \in Payloads \cup {None}
  /\ gets \in [Gets -> [pc : {"none", "reading", "answered"}, val : Payloads \cup {None}]]

\* What the page reports is what happened: "Done" was pushed, and a conflict has
\* left GitHub as it was and is in the hands of an agent.  An error, or git that is
\* unavailable, says nothing: the script may have pushed, or push yet.
ReportIsTrue ==
  \A o \in Ops : ops[o].pc = "done" =>
    /\ ops[o].res = "complete" => ops[o].landed
    /\ ops[o].res = "conflict" => ~ops[o].landed
    /\ ops[o].res \in {"conflict", "agent"} => \E c \in children : c.of = o

\* The page comes to show the branch as it is, over cached payloads, calls of gh
\* that fail, and frames that take its base away.
ShipSettles == <>[](shown = Truth)

\* HistorySection.tsx:26, "Rebase this branch onto main and force-push": an agent has
\* merged into main only what the user asked to merge.
MergedOnlyIfAsked == \A c \in children : c.done /\ c.told = "merge" => c.asked \in Merges

===============================================================================
