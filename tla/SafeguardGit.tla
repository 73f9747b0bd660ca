------------------------------ MODULE SafeguardGit ------------------------------
(***************************************************************************)
(* Where the commits of one run are: the clone in its container, the       *)
(* safeguard repository on the host, and origin, to which other people     *)
(* push as well.  The supervisor checks a branch out, the post-commit hook *)
(* pushes in the background, history operations rewrite branches on the    *)
(* user's behalf, and a container may die with pushes under way.  An       *)
(* operation works in a worktree of its own.  In the run's container that  *)
(* is one of the run's clone and shares its hooks: what it commits is      *)
(* pushed to the safeguard too.                                            *)
(*                                                                         *)
(* A commit knows its ancestors and the work it contains, a set of names   *)
(* of the commits in which somebody first did it: a rebased commit is a    *)
(* new one with old work.  git itself is an external program: a push sees  *)
(* the remote's ref, then HEAD, and lands only on the ref it has seen; one *)
(* that meets another is refused, whatever it forces.                      *)
(***************************************************************************)
EXTENDS Integers, Sequences, FiniteSets

CONSTANTS
  None,
  OpKinds,                       \* the history operations users ask for
  MaxCommits, MaxStarts, MaxOps  \* bounds of the model

Kinds == {"merge", "rebase", "squash", "sync", "squash-local"}

BoundsAssumption ==
  /\ MaxCommits \in Nat \ {0} /\ MaxStarts \in Nat /\ MaxOps \in Nat /\ None \notin Nat
  /\ OpKinds \subseteq Kinds

\* The default branch, claude/run-N, and the name the agent may choose.
Refs == {"main", "auto", "named"}

VARIABLES
  commits,     \* every commit made anywhere, by name 1, 2, ...
  origin,      \* refs of origin
  safe,        \* refs of the safeguard
  taken,       \* ghost: the safeguard's branch is what an operation committed
  box,         \* is there a container?
  head, branch, track,  \* its clone: HEAD, the branch, refs/remotes/origin
  pushes,      \* background pushes of the hook
  dbBranch,    \* runs.branch_name
  op,          \* the history operation under way
  starts, ops  \* counters of the bounds

gitVars == <<commits, origin, safe, taken>>
boxVars == <<box, head, branch, track, pushes, starts>>
opVars == <<op, ops>>
vars == <<gitVars, boxVars, opVars, dbBranch>>

Names == DOMAIN commits
NoOp == [pc |-> "none", kind |-> None, live |-> FALSE, ref |-> None, main |-> None,
         br |-> None, new |-> None]

Init ==
  /\ commits = <<[anc |-> {1}, work |-> {}, by |-> "other"]>>
  /\ origin = [r \in Refs |-> IF r = "main" THEN 1 ELSE None]
  /\ safe = [r \in Refs |-> None] /\ taken = FALSE
  /\ box = "none" /\ head = None /\ branch = "auto"
  /\ track = [r \in Refs |-> None]
  /\ pushes = {} /\ dbBranch \in {None, "named"}
  /\ op = NoOp /\ starts = 0 /\ ops = 0

-----------------------------------------------------------------------------
\* Commits

Anc(c) == IF c = None THEN {} ELSE commits[c].anc
Work(c) == IF c = None THEN {} ELSE commits[c].work
Full == Len(commits) >= MaxCommits
New == Len(commits) + 1

\* Somebody's own work on top of `on`.
Made(on, who) ==
  Append(commits, [anc |-> Anc(on) \cup {New}, work |-> Work(on) \cup {New}, by |-> who])

\* A commit that repeats work, with the ancestors given.
Rewritten(anc, work) ==
  Append(commits, [anc |-> anc \cup {New}, work |-> work, by |-> "op"])

-----------------------------------------------------------------------------
\* The container: supervisor.sh and the agent

Primary == IF dbBranch = None THEN "auto" ELSE dbBranch

\* Mutant: the fallback, origin, is all there is.
NeverRestored(primary, resume) == None

\* A resumed run takes its branch from the safeguard, if it is there.
Restored(primary, resume) ==
  IF resume /\ safe[primary] # None THEN safe[primary] ELSE None

\* Clone, fetch, check out.  A branch of the user's that is nowhere is created
\* and pushed at once.  Only a run that has never had an agent is not resumed.
Start(resume) ==
  /\ box = "none" /\ starts < MaxStarts
  /\ resume \/ \A c \in Names : commits[c].by # "agent"
  /\ LET from == Restored(Primary, resume)
         found == IF from # None THEN from ELSE origin[Primary]
     IN  /\ head' = IF found # None THEN found ELSE origin["main"]
         /\ origin' = IF found = None /\ Primary = "named"
                      THEN [origin EXCEPT !["named"] = origin["main"]] ELSE origin
         /\ track' = origin'
  /\ box' = "running" /\ branch' = Primary /\ starts' = starts + 1
  /\ pushes' = {}
  /\ UNCHANGED <<commits, safe, taken, dbBranch, opVars>>

\* The ref of the safeguard: always claude/run-N, whatever the branch is called.
MirrorRef(b) == "auto"

Push(by, to, ref) == [by |-> by, to |-> to, ref |-> ref, sha |-> None, seen |-> None]

\* git commit, and the post-commit hook that starts two pushes.
Commit ==
  /\ box = "running" /\ ~Full
  /\ commits' = Made(head, "agent") /\ head' = New
  /\ pushes' = pushes \cup {Push("agent", "safeguard", MirrorRef(branch)),
                             Push("agent", "origin", branch)}
  /\ UNCHANGED <<origin, safe, taken, box, branch, track, starts, dbBranch, opVars>>

Rename ==
  /\ box = "running" /\ branch = "auto"
  /\ branch' = "named"
  /\ UNCHANGED <<gitVars, box, head, track, pushes, starts, dbBranch, opVars>>

\* BranchNameWatcher: the agent has written the name, the row follows.
BranchSeen ==
  /\ box = "running" /\ dbBranch # branch
  /\ dbBranch' = branch
  /\ UNCHANGED <<gitVars, boxVars, opVars>>

-----------------------------------------------------------------------------
\* The background pushes

\* Mutant: --force.
NoLease(ref) == TRUE

\* --force-with-lease without a value: the remote is where we last saw it.
LeaseHolds(ref) == origin[ref] = track[ref]

\* HEAD of an operation's worktree, as a push may find it: a rebase that stops
\* is taken back, and the second half of "rebase" fast-forwards the default branch.
OpHeads ==
  CASE op.pc \in {"picking", "built"} -> {op.new}
    [] op.pc = "aborted" -> {op.br}
    [] op.pc = "forced" -> {op.main, op.new}
    [] OTHER -> {}

Heads(p) == IF p.by = "op" THEN OpHeads ELSE {head}

\* HEAD is read when the push runs, not when the hook ran; a push without its
\* lease ends here.
PushReads(p) ==
  /\ p \in pushes /\ p.sha = None
  /\ \E h \in Heads(p) :
       LET at == IF p.to = "origin" THEN origin[p.ref] ELSE safe[p.ref]
           refused == p.to = "origin" /\ ~LeaseHolds(p.ref)
       IN  pushes' = (pushes \ {p}) \cup
                     IF refused THEN {} ELSE {[p EXCEPT !.sha = h, !.seen = at]}
  /\ UNCHANGED <<gitVars, box, head, branch, track, starts, dbBranch, opVars>>

SafeguardPushLands(p) ==
  /\ p \in pushes /\ p.to = "safeguard" /\ p.sha # None /\ safe[p.ref] = p.seen
  /\ pushes' = pushes \ {p}
  /\ safe' = [safe EXCEPT ![p.ref] = p.sha]
  /\ taken' = (p.by = "op")
  /\ UNCHANGED <<commits, origin, box, head, branch, track, starts, dbBranch, opVars>>

OriginPushLands(p) ==
  /\ p \in pushes /\ p.to = "origin" /\ p.sha # None /\ origin[p.ref] = p.seen
  /\ pushes' = pushes \ {p}
  /\ origin' = [origin EXCEPT ![p.ref] = p.sha]
  /\ track' = [track EXCEPT ![p.ref] = p.sha]
  /\ UNCHANGED <<commits, safe, taken, box, head, branch, starts, dbBranch, opVars>>

\* Offline, no credentials, a full disk, or another push was faster.
PushFails(p) ==
  /\ p \in pushes /\ p.sha # None
  /\ pushes' = pushes \ {p}
  /\ UNCHANGED <<gitVars, box, head, branch, track, starts, dbBranch, opVars>>

\* The clone goes with the container; pushes that are not done die, and so does
\* a history operation that was running inside.
Gone ==
  /\ box' = "none" /\ head' = None /\ pushes' = {}
  /\ branch' = "auto" /\ track' = [r \in Refs |-> None]
  /\ op' = IF op.live THEN NoOp ELSE op

\* finalizeBranch.sh reports the branch, and the supervisor exits at once.
Exit ==
  /\ box = "running"
  /\ Gone /\ dbBranch' = branch
  /\ UNCHANGED <<gitVars, starts, ops>>

\* No result: OOM, docker stop, a host that went down.
Killed ==
  /\ box = "running"
  /\ Gone
  /\ UNCHANGED <<gitVars, starts, ops, dbBranch>>

-----------------------------------------------------------------------------
\* Other people

OthersPush(ref) ==
  /\ origin[ref] # None /\ ~Full
  /\ commits' = Made(origin[ref], "other")
  /\ origin' = [origin EXCEPT ![ref] = New]
  /\ UNCHANGED <<safe, taken, boxVars, dbBranch, opVars>>

-----------------------------------------------------------------------------
\* History operations: fbi-history-op.sh in the run's container, or in a
\* transient one when there is none

\* What the operation fetches: the safeguard's view of the branch is preferred.
FetchedView(ref) ==
  IF safe[ref] # None THEN [origin EXCEPT ![ref] = safe[ref]] ELSE origin

\* In the run's container if there is one: there the fetch moves the refs the
\* hook's lease is held against.
OpStarts(kind) ==
  /\ dbBranch # None /\ op.pc = "none" /\ ops < MaxOps
  /\ ops' = ops + 1
  /\ LET view == FetchedView(dbBranch)
         live == box = "running"
     IN  /\ track' = IF live THEN view ELSE track
         /\ op' = [pc |-> "fetched", kind |-> kind, live |-> live, ref |-> dbBranch,
                   main |-> view["main"], br |-> view[dbBranch], new |-> None]
  /\ UNCHANGED <<gitVars, box, head, branch, pushes, starts, dbBranch>>

\* The rebase of `br` on `main`: as it is, gone into main, or a new commit.
Rebased ==
  IF op.main \in Anc(op.br) THEN [commits |-> commits, new |-> op.br]
  ELSE IF Work(op.br) \subseteq Work(op.main) THEN [commits |-> commits, new |-> op.main]
  ELSE [commits |-> Rewritten(Anc(op.main) \cup Anc(op.new), Work(op.main) \cup Work(op.br)),
        new |-> New]

\* What the operation builds in its worktree.
Built ==
  CASE op.kind = "merge" ->
         IF op.br \in Anc(op.main) THEN [commits |-> commits, new |-> op.main]
         ELSE [commits |-> Rewritten(Anc(op.main) \cup Anc(op.br), Work(op.main) \cup Work(op.br)),
               new |-> New]
    [] op.kind = "squash" ->
         [commits |-> Rewritten(Anc(op.main), Work(op.main) \cup Work(op.br)), new |-> New]
    [] op.kind = "squash-local" ->
         [commits |-> Rewritten(Anc(op.br) \cap Anc(op.main), Work(op.br)), new |-> New]
    [] OTHER -> Rebased

\* git commit has nothing to commit, or the branch does not exist.
CannotBuild ==
  \/ op.br = None
  \/ op.kind = "squash" /\ Work(op.br) \subseteq Work(op.main)
  \/ op.kind = "squash-local" /\ op.br \in Anc(op.main)

\* git commit and git rebase run the post-commit hook, git merge does not.  The
\* transient container has none, and docker exec does not know HAS_ORIGIN: only
\* the safeguard is pushed to.
Hooked ==
  IF op.live /\ op.kind # "merge" THEN {Push("op", "safeguard", MirrorRef(branch))} ELSE {}

\* A rebase in the run's container has repeated a part of the branch.
OpPicks ==
  /\ op.pc = "fetched" /\ op.kind \in {"rebase", "sync"} /\ op.live
  /\ op.br # None /\ op.main \notin Anc(op.br)
  /\ \E c \in Names :
       /\ c \in Anc(op.br)
       /\ ~(Work(c) \subseteq Work(op.main)) /\ ~(Work(op.br) \subseteq Work(op.main) \cup Work(c))
       /\ commits' = Rewritten(Anc(op.main), Work(op.main) \cup Work(c))
  /\ op' = [op EXCEPT !.pc = "picking", !.new = New]
  /\ pushes' = pushes \cup Hooked
  /\ UNCHANGED <<origin, safe, taken, box, head, branch, track, starts, ops, dbBranch>>

\* The next commit is in conflict: git rebase --abort.
OpAborts ==
  /\ op.pc = "picking"
  /\ op' = [op EXCEPT !.pc = "aborted"]
  /\ UNCHANGED <<gitVars, boxVars, ops, dbBranch>>

\* What the branch becomes, or the default branch.
OpBuilds ==
  /\ op.pc = "picking" \/ (op.pc = "fetched" /\ ~Full)
  /\ ~CannotBuild
  /\ commits' = Built.commits
  /\ op' = [op EXCEPT !.pc = "built", !.new = Built.new]
  /\ pushes' = pushes \cup IF commits' = commits THEN {} ELSE Hooked
  /\ UNCHANGED <<origin, safe, taken, box, head, branch, track, starts, ops, dbBranch>>

\* The worktree goes, and pushes that have not read its HEAD find none.
OpEnds ==
  /\ op' = NoOp
  /\ pushes' = {p \in pushes : p.by = "op" => p.sha # None}

\* A push to the default branch is never forced.
MayPushDefault == origin["main"] \in Anc(op.new)

\* In the run's clone a push that lands moves the tracking ref too.
Land(ref) ==
  /\ origin' = [origin EXCEPT ![ref] = op.new]
  /\ track' = IF op.live THEN [track EXCEPT ![ref] = op.new] ELSE track

OpFails ==
  /\ op.pc \notin {"none", "picking"}
  /\ OpEnds
  /\ UNCHANGED <<gitVars, box, head, branch, track, starts, dbBranch, ops>>

\* sync, squash-local and the first half of rebase force the run's branch.
OpForcesBranch ==
  /\ op.pc = "built" /\ op.kind \in {"rebase", "sync", "squash-local"}
  /\ Land(op.ref)
  /\ IF op.kind = "rebase" THEN op' = [op EXCEPT !.pc = "forced"] /\ UNCHANGED pushes
     ELSE OpEnds
  /\ UNCHANGED <<commits, safe, taken, box, head, branch, starts, dbBranch, ops>>

\* merge and squash, and the second half of rebase.
OpPushesDefault ==
  /\ op.pc = "forced" \/ (op.pc = "built" /\ op.kind \in {"merge", "squash"})
  /\ MayPushDefault /\ Land("main") /\ OpEnds
  /\ UNCHANGED <<commits, safe, taken, box, head, branch, starts, dbBranch, ops>>

-----------------------------------------------------------------------------
Next ==
  \/ \E resume \in BOOLEAN : Start(resume)
  \/ Commit \/ Rename \/ BranchSeen \/ Exit \/ Killed
  \/ \E p \in pushes : PushReads(p) \/ SafeguardPushLands(p) \/ OriginPushLands(p) \/ PushFails(p)
  \/ \E r \in Refs : OthersPush(r)
  \/ \E k \in OpKinds : OpStarts(k)
  \/ OpPicks \/ OpAborts \/ OpBuilds \/ OpFails \/ OpForcesBranch \/ OpPushesDefault

Spec == Init /\ [][Next]_vars

-----------------------------------------------------------------------------
CommitIds == 1..(MaxCommits + 2 * MaxOps)
Ref == CommitIds \cup {None}

TypeOK ==
  /\ commits \in Seq([anc : SUBSET CommitIds, work : SUBSET CommitIds, by : {"agent", "other", "op"}])
  /\ Len(commits) <= MaxCommits + 2 * MaxOps
  /\ origin \in [Refs -> Ref] /\ safe \in [Refs -> Ref] /\ track \in [Refs -> Ref]
  /\ \A b \in Refs \ {"auto"} : safe[b] = None  \* one ref, whatever the branch is called
  /\ head \in Ref /\ branch \in Refs \ {"main"} /\ box \in {"none", "running"}
  /\ pushes \subseteq [by : {"agent", "op"}, to : {"safeguard", "origin"}, ref : Refs, sha : Ref, seen : Ref]
  /\ dbBranch \in {None, "auto", "named"} /\ taken \in BOOLEAN

\* supervisor.sh:134, "the hook's core durability guarantee": as long as the
\* branch keeps the name claude/run-N, what has reached the safeguard stays
\* there, over pushes that overlap or fail, deaths, resumes and history
\* operations, but for the push of an operation's own commit and the agent's
\* that follows it.  What these may take away README.md tells.
SafeguardOnlyGrows ==
  [][branch' = "auto" /\ ~taken /\ ~taken' => Work(safe["auto"]) \subseteq (Work(safe["auto"]))']_vars

\* supervisor.sh:135-136, the lease: as long as no history operation has
\* fetched, what others push to the run's branch while its container runs is
\* never overwritten, however the background pushes of several commits
\* interleave with theirs.  What they pushed before the clone is not protected:
\* README.md tells how a resume loses it.
ForeignWorkSurvives ==
  [][ops' = 0 => \A r \in Refs :
       {w \in Work(origin[r]) \ Work(track[r]) : commits[w].by = "other"}
         \subseteq (Work(origin[r]))']_vars

\* docs/superpowers/specs/2026-04-24-safeguard-store-design.md:71-72, 206: a
\* run whose pushes to origin fail can be resumed, from its last commit "bit for
\* bit".  A container that starts therefore has all the safeguard has.
ResumeRestores ==
  [][box = "none" /\ box' = "running" => Work(safe["auto"]) \subseteq (Work(head))']_vars

===============================================================================
