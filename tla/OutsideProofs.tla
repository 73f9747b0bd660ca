----------------------------- MODULE OutsideProofs -----------------------------
(***************************************************************************)
(* The repositories and the account of a run, for any number of commits,   *)
(* starts, history operations, overlapping polls and windows.              *)
(*                                                                         *)
(* SafeguardOnlyGrows needs to know where a push comes from.  While the    *)
(* branch has its first name, HEAD contains what is in the safeguard, for  *)
(* the container was started from it, unless it is a commit of a history   *)
(* operation; and a push that has read HEAD brings all the ref it saw had, *)
(* if that was the agent's (MirrorInv).  An ancestor's work is in its      *)
(* descendant (GraphInv), which for a rebase that stops half way needs     *)
(* what the operation has repeated so far.  ForeignWorkSurvives            *)
(* needs that a push to origin that can still land saw what the clone had  *)
(* fetched (LeaseInv).  ThresholdOnce needs that the row of the bucket     *)
(* remembers the highest announcement of its window, and that no later     *)
(* window has one (BucketInv).                                             *)
(***************************************************************************)
EXTENDS MCOutside, TLAPS

\* The repositories move by their own steps, or not at all.
LEMMA GitFrame == [Next]_vars => [Git!Next]_(Git!vars)
BY DEF Next, vars, gitVars, Git!vars, Git!gitVars, Git!boxVars, Git!opVars

\* So does the poller, and only in the behaviours that show it.
LEMMA PollerFrame == [Next]_vars => [Poller!Next]_(Poller!vars) /\ UNCHANGED shown
BY DEF Next, vars, pollerVars, Poller!vars, Poller!ghosts

-----------------------------------------------------------------------------
\* The repositories

CommitType == [anc : SUBSET Nat, work : SUBSET Nat, by : {"agent", "other", "op"}]

\* A name of a commit, or None.
Known == DOMAIN commits \cup {None}

PushType(p) ==
  /\ p \in [by : {"agent", "op"}, to : {"safeguard", "origin"}, ref : {"auto", "named"},
             sha : Known, seen : Known]
  /\ p.to = "safeguard" => p.ref = "auto"

GitTypes ==
  /\ commits \in Seq(CommitType)
  /\ origin \in [Git!Refs -> Known] /\ safe \in [Git!Refs -> Known]
  /\ track \in [Git!Refs -> Known] /\ head \in Known
  /\ branch \in {"auto", "named"} /\ dbBranch \in {None, "auto", "named"}
  /\ \A p \in pushes : PushType(p)
  /\ ops \in Nat /\ taken \in BOOLEAN
  /\ op.pc # "none" => /\ ops > 0 /\ op.ref \in Git!Refs
                       /\ op.main \in Known /\ op.br \in Known /\ op.new \in Known

\* A container that is gone has no clone, no pushes, and no operation in it.
BoxInv ==
  /\ box # "running" => pushes = {}
  /\ op.pc # "none" /\ op.live => box = "running"

\* The pushes the agent's commits have started.
Own == {p \in pushes : p.by = "agent"}

\* A commit is among its ancestors, and has the work of all of them.  What a rebase has
\* repeated is the branch's.
Graph ==
  \A d \in DOMAIN commits :
    /\ d \in commits[d].anc /\ commits[d].anc \subseteq DOMAIN commits
    /\ \A c \in commits[d].anc : commits[c].work \subseteq commits[d].work

Picked ==
  /\ op.pc = "fetched" => op.new = None
  /\ op.pc = "picking" => Git!Work(op.new) \subseteq Git!Work(op.main) \cup Git!Work(op.br)

GraphInv == Graph /\ Picked

\* What a push of the agent's saw and took, when the branch has the name of the ref: it
\* took what HEAD has, and all the work of what it saw, if HEAD descends from that.
Between(p) ==
  /\ p.sha \in Git!Anc(head)
  /\ p.seen \in Git!Anc(head) => Git!Work(p.seen) \subseteq Git!Work(p.sha)

\* What the safeguard has, unless an operation has put it there, HEAD descends from.
MirrorInv ==
  /\ (safe["auto"] # None /\ ~taken) \/ Own # {} =>
       \E c \in DOMAIN commits : commits[c].by = "agent"
  /\ box = "running" /\ branch = "auto" =>
       /\ ~taken => safe["auto"] \in Git!Anc(head) \cup {None}
       /\ \A p \in Own : p.to = "safeguard" /\ p.sha # None => Between(p)

\* A push to origin that can still land saw what the clone had fetched.
LeaseInv ==
  ops = 0 => \A p \in pushes :
    p.to = "origin" /\ p.sha # None /\ origin[p.ref] = p.seen => track[p.ref] = p.seen

GitInv == GitTypes /\ BoxInv /\ GraphInv /\ MirrorInv /\ LeaseInv

LEMMA GitInit ==
  ASSUME Git!BoundsAssumption, Git!Init
  PROVE  GitInv
<1>1. commits \in Seq(CommitType) /\ 1 \in DOMAIN commits
  BY DEF Git!Init, CommitType
<1>2. GitTypes
  BY <1>1 DEF Git!Init, GitTypes, Known, Git!Refs, Git!NoOp
<1>3. BoxInv /\ MirrorInv /\ LeaseInv
  BY DEF Git!Init, Git!NoOp, BoxInv, MirrorInv, Own, LeaseInv, Git!Refs
<1>4. GraphInv
  <2>1. DOMAIN commits = {1} /\ commits[1].anc = {1} /\ commits[1].work = {}
    BY DEF Git!Init
  <2> QED BY <2>1 DEF Git!Init, Git!NoOp, GraphInv, Graph, Picked
<1> QED BY <1>2, <1>3, <1>4 DEF GitInv

\* A commit once made stays as it is.
Keeps ==
  /\ commits' \in Seq(CommitType) /\ DOMAIN commits \subseteq DOMAIN commits'
  /\ \A c \in DOMAIN commits : commits'[c] = commits[c]

LEMMA KeepsAll ==
  ASSUME Keeps
  PROVE  /\ Known \subseteq Known'
         /\ \A c \in Known : Git!Work(c)' = Git!Work(c) /\ Git!Anc(c)' = Git!Anc(c)
         /\ (\E c \in DOMAIN commits : commits[c].by = "agent")
              => \E c \in DOMAIN commits' : commits'[c].by = "agent"
BY DEF Keeps, Known, Git!Work, Git!Anc

\* A new commit has a new name.
LEMMA AppendKeeps ==
  ASSUME Git!BoundsAssumption, commits \in Seq(CommitType), NEW e \in CommitType,
         commits' = Append(commits, e)
  PROVE  /\ Keeps /\ Git!New \in DOMAIN commits' /\ Git!New \notin Known
         /\ commits'[Git!New] = e
         /\ \A n \in {Git!New} : Git!Work(n)' = e.work /\ Git!Anc(n)' = e.anc
<1>1. /\ Len(commits) \in Nat /\ DOMAIN commits = 1..Len(commits)
      /\ commits' \in Seq(CommitType) /\ DOMAIN commits' = 1..(Len(commits) + 1)
      /\ \A c \in 1..Len(commits) : commits'[c] = commits[c]
      /\ commits'[Len(commits) + 1] = e
  OBVIOUS
<1>2. Git!New = Len(commits) + 1 /\ Git!New # None
  BY <1>1 DEF Git!New, Git!BoundsAssumption
<1>3. Git!New \in DOMAIN commits' /\ Git!New \notin DOMAIN commits
  BY <1>1, <1>2
<1>4. \A n \in {Git!New} : Git!Work(n)' = e.work /\ Git!Anc(n)' = e.anc
  BY <1>1, <1>2 DEF Git!Work, Git!Anc
<1> QED BY <1>1, <1>2, <1>3, <1>4 DEF Keeps, Known

\* Somebody's own work, or work repeated, on top of what is known.
LEMMA CommitsAreTyped ==
  ASSUME GitTypes
  PROVE  /\ \A c \in Known : Git!Anc(c) \in SUBSET Nat /\ Git!Work(c) \in SUBSET Nat
         /\ Git!New \in Nat
<1>1. commits \in Seq(CommitType) /\ Len(commits) \in Nat
  BY DEF GitTypes
<1>2. \A c \in DOMAIN commits : commits[c] \in CommitType
  BY <1>1
<1> QED BY <1>1, <1>2 DEF Git!New, Git!Anc, Git!Work, Known, CommitType

LEMMA MadeKeeps ==
  ASSUME Git!BoundsAssumption, GitTypes, NEW on \in Known, NEW who \in {"agent", "other"},
         commits' = Git!Made(on, who)
  PROVE  /\ Keeps /\ Git!New \in DOMAIN commits' /\ Git!New \notin Known
         /\ commits'[Git!New].by = who
         /\ \A n \in {Git!New} : /\ Git!Work(n)' = Git!Work(on) \cup {n}
                                 /\ Git!Anc(n)' = Git!Anc(on) \cup {n}
<1> DEFINE e == [anc |-> Git!Anc(on) \cup {Git!New}, work |-> Git!Work(on) \cup {Git!New},
                 by |-> who]
<1>1. e \in CommitType
  BY CommitsAreTyped DEF CommitType
<1>2. commits' = Append(commits, e) /\ commits \in Seq(CommitType)
  BY DEF Git!Made, GitTypes
<1>3. e.work = Git!Work(on) \cup {Git!New} /\ e.anc = Git!Anc(on) \cup {Git!New} /\ e.by = who
  OBVIOUS
<1> HIDE DEF e
<1> QED BY <1>1, <1>2, <1>3, AppendKeeps

LEMMA RewrittenKeeps ==
  ASSUME Git!BoundsAssumption, GitTypes, NEW anc \in SUBSET Nat, NEW work \in SUBSET Nat,
         commits' = Git!Rewritten(anc, work)
  PROVE  /\ Keeps /\ Git!New \in DOMAIN commits'
         /\ \A n \in {Git!New} : Git!Work(n)' = work
<1>1. [anc |-> anc \cup {Git!New}, work |-> work, by |-> "op"] \in CommitType
  BY CommitsAreTyped DEF CommitType
<1> QED BY <1>1, AppendKeeps DEF Git!Rewritten, GitTypes

\* Whatever an operation builds, it keeps what there was.
LEMMA BuiltKeeps ==
  ASSUME Git!BoundsAssumption, GitTypes, op.pc # "none", commits' = Git!Built.commits
  PROVE  Keeps /\ Git!Built.new \in Known'
<1>1. op.main \in Known /\ op.br \in Known /\ op.new \in Known
  BY DEF GitTypes
<1>2. /\ Git!Anc(op.main) \in SUBSET Nat /\ Git!Anc(op.br) \in SUBSET Nat
      /\ Git!Anc(op.main) \cup Git!Anc(op.new) \in SUBSET Nat
      /\ Git!Work(op.main) \in SUBSET Nat /\ Git!Work(op.br) \in SUBSET Nat
  BY <1>1, CommitsAreTyped
<1>3. PICK anc \in SUBSET Nat, work \in SUBSET Nat, old \in {op.main, op.br} :
        \/ Git!Built = [commits |-> commits, new |-> old]
        \/ Git!Built = [commits |-> Git!Rewritten(anc, work), new |-> Git!New]
  <2>1. Git!Anc(op.main) \cup Git!Anc(op.br) \in SUBSET Nat
    BY <1>2
  <2>2. Git!Anc(op.br) \cap Git!Anc(op.main) \in SUBSET Nat
    BY <1>2
  <2>3. Git!Work(op.main) \cup Git!Work(op.br) \in SUBSET Nat
    BY <1>2
  <2>4. CASE op.kind = "merge"
    BY <2>1, <2>3, <2>4 DEF Git!Built
  <2>5. CASE op.kind = "squash"
    BY <1>2, <2>3, <2>5 DEF Git!Built
  <2>6. CASE op.kind = "squash-local"
    BY <1>2, <2>2, <2>6 DEF Git!Built
  <2>7. CASE op.kind \notin {"merge", "squash", "squash-local"}
    <3>1. Git!Built = Git!Rebased
      BY <2>7 DEF Git!Built
    <3> QED BY <1>2, <2>3, <3>1 DEF Git!Rebased
  <2> QED BY <2>4, <2>5, <2>6, <2>7
<1>4. CASE Git!Built = [commits |-> commits, new |-> old]
  <2>1. Keeps /\ old \in Known
    BY <1>1, <1>4 DEF Keeps, GitTypes
  <2> QED BY <1>4, <2>1, KeepsAll
<1>5. CASE Git!Built = [commits |-> Git!Rewritten(anc, work), new |-> Git!New]
  <2>1. Keeps /\ Git!New \in DOMAIN commits'
    BY <1>5, RewrittenKeeps
  <2> QED BY <1>5, <2>1 DEF Known
<1> QED BY <1>3, <1>4, <1>5

-----------------------------------------------------------------------------
\* The steps

\* Types that are kept with the commits, when what else changes is known.
LEMMA TypesKept ==
  ASSUME GitTypes, Keeps
  PROVE  /\ \A f \in [Git!Refs -> Known] : f \in [Git!Refs -> Known']
         /\ \A c \in Known : c \in Known'
         /\ \A p \in pushes : PushType(p)'
BY KeepsAll DEF GitTypes, PushType

\* A history operation adds commits, and pushes of its own that have not begun.
LEMMA OpStep ==
  ASSUME Git!BoundsAssumption, GitTypes,
         \/ Git!OpPicks \/ Git!OpAborts \/ Git!OpBuilds \/ Git!OpFails
         \/ Git!OpForcesBranch \/ Git!OpPushesDefault
  PROVE  /\ Keeps /\ GitTypes'
         /\ ops > 0 /\ UNCHANGED <<safe, taken, box, head, branch, starts, dbBranch, ops>>
         /\ \A p \in pushes' : p \in pushes \/ p = Git!Push("op", "safeguard", "auto")
<1> USE DEF Git!gitVars, Git!boxVars
<1> DEFINE OpTyped == op'.pc # "none" => /\ op'.ref \in Git!Refs /\ op'.main \in Known'
                                         /\ op'.br \in Known' /\ op'.new \in Known'
           Adds == \A p \in pushes' : p \in pushes \/ p = Git!Push("op", "safeguard", "auto")
           Lands == UNCHANGED <<origin, track>> \/ \E ref \in Git!Refs : Git!Land(ref)
<1>1. /\ op.pc # "none"
      /\ UNCHANGED <<safe, taken, box, head, branch, starts, dbBranch, ops>>
  BY DEF Git!OpPicks, Git!OpAborts, Git!OpBuilds, Git!OpFails, Git!OpForcesBranch,
     Git!OpPushesDefault
<1>2. /\ ops > 0 /\ op.ref \in Git!Refs
      /\ op.main \in Known /\ op.br \in Known /\ op.new \in Known
  BY <1>1 DEF GitTypes
<1>3. Keeps => /\ op.main \in Known' /\ op.br \in Known' /\ op.new \in Known'
  BY <1>2, TypesKept
<1>4. /\ UNCHANGED commits => Keeps
      /\ Git!OpEnds => OpTyped /\ Adds
      /\ \A p \in Git!Hooked : p = Git!Push("op", "safeguard", "auto")
  BY DEF Keeps, GitTypes, Git!OpEnds, Git!NoOp, Git!Hooked, Git!MirrorRef
\* The repositories, by the action.
<1>5. ASSUME Git!OpPicks
      PROVE  Keeps /\ OpTyped /\ Adds /\ Lands
  <2>1. PICK c \in DOMAIN commits :
          commits' = Git!Rewritten(Git!Anc(op.main), Git!Work(op.main) \cup Git!Work(c))
    BY <1>5 DEF Git!OpPicks, Git!Names
  <2>2. Git!Anc(op.main) \in SUBSET Nat /\ Git!Work(op.main) \cup Git!Work(c) \in SUBSET Nat
    BY <1>2, CommitsAreTyped DEF Known
  <2>3. Keeps /\ Git!New \in Known'
    BY <2>1, <2>2, RewrittenKeeps DEF Known
  <2>4. OpTyped
    BY <1>2, <1>3, <1>5, <2>3 DEF Git!OpPicks
  <2> QED BY <1>4, <1>5, <2>3, <2>4 DEF Git!OpPicks
<1>6. ASSUME Git!OpAborts
      PROVE  Keeps /\ OpTyped /\ Adds /\ Lands
  BY <1>2, <1>3, <1>4, <1>6 DEF Git!OpAborts
<1>7. ASSUME Git!OpBuilds
      PROVE  Keeps /\ OpTyped /\ Adds /\ Lands
  <2>1. Keeps /\ Git!Built.new \in Known'
    BY <1>1, <1>7, BuiltKeeps DEF Git!OpBuilds
  <2>2. OpTyped
    BY <1>2, <1>3, <1>7, <2>1 DEF Git!OpBuilds
  <2> QED BY <1>4, <1>7, <2>1, <2>2 DEF Git!OpBuilds
<1>8. ASSUME Git!OpFails
      PROVE  Keeps /\ OpTyped /\ Adds /\ Lands
  BY <1>4, <1>8 DEF Git!OpFails
<1>9. ASSUME Git!OpForcesBranch
      PROVE  Keeps /\ OpTyped /\ Adds /\ Lands
  <2>1. Keeps /\ Git!Land(op.ref)
    BY <1>4, <1>9 DEF Git!OpForcesBranch
  <2>2. CASE Git!OpEnds
    BY <1>2, <1>4, <2>1, <2>2
  <2>3. CASE ~Git!OpEnds
    <3>1. op' = [op EXCEPT !.pc = "forced"] /\ UNCHANGED pushes
      BY <1>9, <2>3 DEF Git!OpForcesBranch
    <3> QED BY <1>2, <1>3, <2>1, <3>1
  <2> QED BY <2>2, <2>3
<1>10. ASSUME Git!OpPushesDefault
       PROVE  Keeps /\ OpTyped /\ Adds /\ Lands
  <2>1. Keeps /\ Git!Land("main") /\ "main" \in Git!Refs /\ Git!OpEnds
    BY <1>4, <1>10 DEF Git!OpPushesDefault, Git!Refs
  <2> QED BY <1>4, <2>1
<1>11. Keeps /\ OpTyped /\ Adds /\ Lands
  BY <1>5, <1>6, <1>7, <1>8, <1>9, <1>10
<1>12. origin' \in [Git!Refs -> Known'] /\ track' \in [Git!Refs -> Known']
  <2>1. origin \in [Git!Refs -> Known'] /\ track \in [Git!Refs -> Known'] /\ op.new \in Known'
    BY <1>3, <1>11, TypesKept DEF GitTypes
  <2>2. CASE UNCHANGED <<origin, track>>
    BY <2>1, <2>2
  <2>3. ASSUME NEW ref \in Git!Refs, Git!Land(ref)
        PROVE  origin' \in [Git!Refs -> Known'] /\ track' \in [Git!Refs -> Known']
    BY <2>1, <2>3 DEF Git!Land
  <2> QED BY <1>11, <2>2, <2>3
<1>13. \A p \in pushes' : PushType(p)'
  <2>1. PushType(Git!Push("op", "safeguard", "auto"))'
    BY DEF PushType, Git!Push, Known
  <2> QED BY <1>11, <2>1, TypesKept
<1>14. GitTypes'
  BY <1>1, <1>2, <1>11, <1>12, <1>13, TypesKept DEF GitTypes, Keeps
<1> QED BY <1>1, <1>2, <1>11, <1>14

\* Every other step of git's.
LEMMA GitTypesStep ==
  ASSUME Git!BoundsAssumption, GitTypes, [Git!Next]_(Git!vars)
  PROVE  GitTypes' /\ Keeps
<1> USE DEF Git!gitVars, Git!boxVars, Git!opVars
<1>0. /\ {"main", "auto", "named"} = Git!Refs /\ None \in Known
      /\ \A r \in Git!Refs : origin[r] \in Known /\ safe[r] \in Known
  BY DEF Git!Refs, Known, GitTypes
<1>1. UNCHANGED commits => Keeps /\ Known' = Known
  BY DEF Keeps, Known, GitTypes
\* What has to be looked at in a step that makes no commit and is no operation's.
<1>2. ASSUME UNCHANGED commits,
             origin' \in [Git!Refs -> Known], safe' \in [Git!Refs -> Known],
             track' \in [Git!Refs -> Known], head' \in Known,
             branch' \in {"auto", "named"}, dbBranch' \in {None, "auto", "named"},
             \A p \in pushes' : PushType(p), taken' \in BOOLEAN, ops' = ops, op' = op \/ op' = Git!NoOp
      PROVE  GitTypes' /\ Keeps
  BY <1>1, <1>2 DEF GitTypes, PushType, Git!NoOp, Known
<1>3. ASSUME NEW resume \in BOOLEAN, Git!Start(resume)
      PROVE  GitTypes' /\ Keeps
  <2>1. Git!Primary \in {"auto", "named"} /\ Git!Primary \in Git!Refs
    BY <1>0 DEF Git!Primary, GitTypes
  <2>2. Git!Restored(Git!Primary, resume) \in Known
    BY <1>0, <2>1 DEF Git!Restored
  <2>3. head' \in Known
    BY <1>0, <1>3, <2>1, <2>2 DEF Git!Start
  <2>4. origin' \in [Git!Refs -> Known] /\ track' = origin'
    BY <1>0, <1>3 DEF Git!Start, GitTypes
  <2>5. /\ branch' = Git!Primary /\ pushes' = {}
        /\ UNCHANGED <<commits, safe, taken, dbBranch, op, ops>>
    BY <1>3 DEF Git!Start
  <2> QED BY <1>2, <2>1, <2>3, <2>4, <2>5 DEF GitTypes
<1>4. CASE Git!Commit
  <2>1. Keeps /\ head' \in DOMAIN commits'
    BY <1>4, MadeKeeps DEF Git!Commit, GitTypes
  <2>2. \A p \in pushes' : p \in pushes \/ p \in {Git!Push("agent", "safeguard", "auto"),
                                                Git!Push("agent", "origin", branch)}
    BY <1>4 DEF Git!Commit, Git!MirrorRef
  <2>3. \A p \in pushes' : PushType(p)'
    BY <2>1, <2>2, TypesKept DEF Git!Push, PushType, Known, GitTypes
  <2> QED
    BY <1>4, <2>1, <2>3, TypesKept DEF Git!Commit, GitTypes, Keeps, Known
<1>5. CASE Git!Rename \/ Git!BranchSeen
  BY <1>2, <1>5 DEF Git!Rename, Git!BranchSeen, GitTypes
<1>6. ASSUME NEW p \in pushes, Git!PushReads(p)
      PROVE  GitTypes' /\ Keeps
  <2>0. PICK h \in Git!Heads(p) :
          pushes' = (pushes \ {p}) \cup
                    IF p.to = "origin" /\ ~Git!LeaseHolds(p.ref) THEN {}
                    ELSE {[p EXCEPT !.sha = h, !.seen = IF p.to = "origin" THEN origin[p.ref]
                                                        ELSE safe[p.ref]]}
    BY <1>6 DEF Git!PushReads
  <2>1. PICK e \in {[p EXCEPT !.sha = h, !.seen = IF p.to = "origin" THEN origin[p.ref]
                                                  ELSE safe[p.ref]]} : TRUE
    OBVIOUS
  <2>2. \A q \in pushes' : q \in pushes \/ q = e
    BY <2>0, <2>1
  <2>3. PushType(p) /\ h \in Known
    BY DEF GitTypes, Git!Heads, Git!OpHeads
  <2>4. PushType(e)
    BY <1>0, <2>1, <2>3 DEF PushType
  <2> QED BY <1>2, <1>6, <2>2, <2>4 DEF Git!PushReads, GitTypes
<1>7. ASSUME NEW p \in pushes, Git!SafeguardPushLands(p) \/ Git!OriginPushLands(p)
                               \/ Git!PushFails(p)
      PROVE  GitTypes' /\ Keeps
  <2>1. p.sha \in Known
    BY DEF GitTypes, PushType
  <2> QED
    BY <1>2, <1>7, <2>1 DEF Git!SafeguardPushLands, Git!OriginPushLands, Git!PushFails, GitTypes
<1>8. CASE Git!Exit \/ Git!Killed
  BY <1>0, <1>2, <1>8 DEF Git!Exit, Git!Killed, Git!Gone, GitTypes
<1>9. ASSUME NEW ref \in Git!Refs, Git!OthersPush(ref)
      PROVE  GitTypes' /\ Keeps
  <2>1. Keeps /\ Git!New \in DOMAIN commits'
    BY <1>0, <1>9, MadeKeeps DEF Git!OthersPush
  <2>2. origin' \in [Git!Refs -> Known']
    BY <1>9, <2>1, TypesKept DEF Git!OthersPush, GitTypes, Known
  <2> QED
    BY <1>9, <2>1, <2>2, TypesKept DEF Git!OthersPush, GitTypes, Keeps
<1>10. ASSUME NEW kind \in OpKinds, Git!OpStarts(kind)
       PROVE  GitTypes' /\ Keeps
  <2>1. PICK view \in {Git!FetchedView(dbBranch)} : TRUE
    OBVIOUS
  <2>2. view \in [Git!Refs -> Known] /\ dbBranch \in Git!Refs
    BY <1>0, <1>10, <2>1 DEF Git!FetchedView, Git!OpStarts, GitTypes
  <2>3. /\ op' = [pc |-> "fetched", kind |-> kind, live |-> box = "running", ref |-> dbBranch,
                  main |-> view["main"], br |-> view[dbBranch], new |-> None]
        /\ track' = track \/ track' = view
        /\ ops' = ops + 1
        /\ UNCHANGED <<commits, origin, safe, taken, box, head, branch, pushes, starts, dbBranch>>
    BY <1>10, <2>1 DEF Git!OpStarts
  <2>4. ops' \in Nat /\ ops' > 0
    BY <2>3 DEF GitTypes
  <2>5. /\ op'.ref \in Git!Refs /\ op'.main \in Known /\ op'.br \in Known
        /\ op'.new \in Known
    BY <1>0, <2>2, <2>3
  <2> QED BY <1>1, <2>2, <2>3, <2>4, <2>5 DEF GitTypes, PushType
<1>12. CASE \/ Git!OpPicks \/ Git!OpAborts \/ Git!OpBuilds \/ Git!OpFails
            \/ Git!OpForcesBranch \/ Git!OpPushesDefault
  BY <1>12, OpStep
<1>13. CASE UNCHANGED Git!vars
  BY <1>2, <1>13 DEF Git!vars, GitTypes
<1> QED
  BY <1>3, <1>4, <1>5, <1>6, <1>7, <1>8, <1>9, <1>10, <1>12, <1>13 DEF Git!Next

\* Pushes run where the clone is.
LEMMA BoxStep ==
  ASSUME BoxInv, [Git!Next]_(Git!vars)
  PROVE  BoxInv'
<1> USE DEF Git!gitVars, Git!boxVars, Git!opVars
<1>1. UNCHANGED <<box, pushes, op>> => BoxInv'
  BY DEF BoxInv
<1>2. ASSUME NEW resume \in BOOLEAN, Git!Start(resume)
      PROVE  BoxInv'
  BY <1>2 DEF Git!Start, BoxInv
<1>3. CASE Git!Commit
  BY <1>3 DEF Git!Commit, BoxInv
<1>4. CASE Git!Exit \/ Git!Killed
  BY <1>4 DEF Git!Exit, Git!Killed, Git!Gone, Git!NoOp, BoxInv
<1>5. ASSUME NEW p \in pushes, Git!PushReads(p) \/ Git!SafeguardPushLands(p)
                               \/ Git!OriginPushLands(p) \/ Git!PushFails(p)
      PROVE  BoxInv'
  BY <1>5 DEF Git!PushReads, Git!SafeguardPushLands, Git!OriginPushLands, Git!PushFails, BoxInv
<1>6. CASE Git!Rename \/ Git!BranchSeen \/ \E r \in Git!Refs : Git!OthersPush(r)
  BY <1>1, <1>6 DEF Git!Rename, Git!BranchSeen, Git!OthersPush
<1>7. ASSUME NEW kind \in OpKinds, Git!OpStarts(kind)
      PROVE  BoxInv'
  BY <1>7 DEF Git!OpStarts, BoxInv
<1>8. CASE Git!OpPicks \/ Git!OpAborts \/ Git!OpBuilds
  <2>1. op.pc # "none" /\ UNCHANGED box
    BY <1>8 DEF Git!OpPicks, Git!OpAborts, Git!OpBuilds
  <2>2. pushes' \subseteq pushes \cup Git!Hooked
    BY <1>8 DEF Git!OpPicks, Git!OpAborts, Git!OpBuilds
  <2>3. op'.live = op.live
    <3>1. CASE Git!OpPicks
      <4>1. op' = [op EXCEPT !.pc = "picking", !.new = Git!New]
        BY <3>1 DEF Git!OpPicks
      <4> QED BY <4>1
    <3>2. CASE Git!OpAborts
      BY <3>2 DEF Git!OpAborts
    <3>3. CASE Git!OpBuilds
      BY <3>3 DEF Git!OpBuilds
    <3> QED BY <1>8, <3>1, <3>2, <3>3
  <2> QED BY <2>1, <2>2, <2>3 DEF BoxInv, Git!Hooked
<1>9. ASSUME Git!OpEnds, UNCHANGED box
      PROVE  BoxInv'
  BY <1>9 DEF Git!OpEnds, Git!NoOp, BoxInv
<1>10. CASE Git!OpFails \/ Git!OpForcesBranch \/ Git!OpPushesDefault
  <2>1. UNCHANGED box
    BY <1>10 DEF Git!OpFails, Git!OpForcesBranch, Git!OpPushesDefault
  <2>2. CASE ~Git!OpEnds
    <3>1. op.pc = "built" /\ op' = [op EXCEPT !.pc = "forced"] /\ UNCHANGED pushes
      BY <1>10, <2>2 DEF Git!OpFails, Git!OpForcesBranch, Git!OpPushesDefault
    <3> QED BY <2>1, <3>1 DEF BoxInv
  <2> QED BY <1>9, <2>1, <2>2
<1>11. CASE UNCHANGED Git!vars
  BY <1>1, <1>11 DEF Git!vars
<1> QED
  BY <1>2, <1>3, <1>4, <1>5, <1>6, <1>7, <1>8, <1>10, <1>11 DEF Git!Next

\* A new commit that has the work of the ancestors it is given.
LEMMA AppendGraph ==
  ASSUME Git!BoundsAssumption, GitTypes, Graph, NEW anc \in SUBSET DOMAIN commits,
         NEW work \in SUBSET Nat, NEW who,
         \A c \in anc : commits[c].work \subseteq work,
         commits' = Append(commits, [anc |-> anc \cup {Git!New}, work |-> work, by |-> who])
  PROVE  Graph'
<1> DEFINE e == [anc |-> anc \cup {Git!New}, work |-> work, by |-> who]
<1>1. /\ commits \in Seq(CommitType) /\ Len(commits) \in Nat /\ Git!New = Len(commits) + 1
      /\ DOMAIN commits = 1..Len(commits)
  BY DEF GitTypes, Git!New
<1>2. /\ DOMAIN commits' = DOMAIN commits \cup {Git!New} /\ Git!New \notin DOMAIN commits
      /\ \A c \in DOMAIN commits : commits'[c] = commits[c]
      /\ commits'[Git!New] = e
  BY <1>1
<1>3. e.anc = anc \cup {Git!New} /\ e.work = work
  OBVIOUS
<1> HIDE DEF e
<1>4. ASSUME NEW d \in DOMAIN commits
      PROVE  /\ d \in commits'[d].anc /\ commits'[d].anc \subseteq DOMAIN commits'
             /\ \A c \in commits'[d].anc : commits'[c].work \subseteq commits'[d].work
  BY <1>2 DEF Graph
<1>5. /\ Git!New \in e.anc /\ e.anc \subseteq DOMAIN commits'
      /\ \A c \in e.anc : commits'[c].work \subseteq e.work
  BY <1>2, <1>3
<1> QED BY <1>2, <1>4, <1>5 DEF Graph

\* The ancestors of what is known.
LEMMA AncestorsOf ==
  ASSUME GitTypes, Graph, NEW d \in Known
  PROVE  /\ Git!Anc(d) \in SUBSET DOMAIN commits /\ Git!Work(d) \in SUBSET Nat
         /\ d # None => d \in Git!Anc(d)
         /\ \A c \in Git!Anc(d) : commits[c].work \subseteq Git!Work(d)
BY CommitsAreTyped DEF Graph, Known, Git!Anc, Git!Work

LEMMA MadeGraph ==
  ASSUME Git!BoundsAssumption, GitTypes, Graph, NEW on \in Known, NEW who,
         commits' = Git!Made(on, who)
  PROVE  Graph'
<1>1. /\ Git!Anc(on) \in SUBSET DOMAIN commits /\ Git!Work(on) \cup {Git!New} \in SUBSET Nat
      /\ \A c \in Git!Anc(on) : commits[c].work \subseteq Git!Work(on) \cup {Git!New}
  BY AncestorsOf, CommitsAreTyped
<1> QED BY <1>1, AppendGraph DEF Git!Made

\* The ancestors of what an operation builds have no other work.
LEMMA BuiltGraph ==
  ASSUME Git!BoundsAssumption, GitTypes, GraphInv, op.pc \in {"fetched", "picking"},
         commits' = Git!Built.commits
  PROVE  Graph'
<1> DEFINE both == Git!Work(op.main) \cup Git!Work(op.br)
<1>1. op.main \in Known /\ op.br \in Known /\ op.new \in Known /\ None \notin DOMAIN commits
  <2>1. \A c \in DOMAIN commits : c \in Nat
    BY DEF GitTypes
  <2> QED BY <2>1 DEF GitTypes, Git!BoundsAssumption
<1>2. both \in SUBSET Nat
  BY <1>1, AncestorsOf DEF GraphInv
<1>3. /\ Git!Anc(op.main) \in SUBSET DOMAIN commits
      /\ \A c \in Git!Anc(op.main) : commits[c].work \subseteq both
  BY <1>1, AncestorsOf DEF GraphInv
<1>4. /\ Git!Anc(op.br) \in SUBSET DOMAIN commits
      /\ \A c \in Git!Anc(op.br) : commits[c].work \subseteq Git!Work(op.br)
  BY <1>1, AncestorsOf DEF GraphInv
<1>5. /\ Git!Anc(op.new) \in SUBSET DOMAIN commits
      /\ \A c \in Git!Anc(op.new) : commits[c].work \subseteq both
  <2>1. CASE op.pc = "fetched"
    BY <2>1 DEF GraphInv, Picked, Git!Anc
  <2>2. CASE op.pc = "picking"
    BY <1>1, <2>2, AncestorsOf DEF GraphInv, Picked
  <2> QED BY <2>1, <2>2
<1> HIDE DEF both
<1>6. CASE op.kind = "merge"
  <2>1. \/ UNCHANGED commits
        \/ commits' = Git!Rewritten(Git!Anc(op.main) \cup Git!Anc(op.br), both)
    BY <1>6 DEF Git!Built, both
  <2>2. \A c \in Git!Anc(op.main) \cup Git!Anc(op.br) : commits[c].work \subseteq both
    BY <1>3, <1>4 DEF both
  <2>3. Git!Anc(op.main) \cup Git!Anc(op.br) \in SUBSET DOMAIN commits
    BY <1>3, <1>4
  <2> QED BY <1>2, <2>1, <2>2, <2>3, AppendGraph DEF Git!Rewritten, GraphInv, Graph
<1>7. CASE op.kind = "squash"
  <2>1. commits' = Git!Rewritten(Git!Anc(op.main), both)
    BY <1>7 DEF Git!Built, both
  <2> QED BY <1>2, <1>3, <2>1, AppendGraph DEF Git!Rewritten, GraphInv
<1>8. CASE op.kind = "squash-local"
  <2>1. commits' = Git!Rewritten(Git!Anc(op.br) \cap Git!Anc(op.main), Git!Work(op.br))
    BY <1>8 DEF Git!Built
  <2>2. Git!Anc(op.br) \cap Git!Anc(op.main) \in SUBSET DOMAIN commits
    BY <1>3
  <2>3. Git!Work(op.br) \in SUBSET Nat
    BY <1>1, AncestorsOf DEF GraphInv
  <2> QED BY <1>4, <2>1, <2>2, <2>3, AppendGraph DEF Git!Rewritten, GraphInv
<1>9. CASE op.kind \notin {"merge", "squash", "squash-local"}
  <2>1. \/ UNCHANGED commits
        \/ commits' = Git!Rewritten(Git!Anc(op.main) \cup Git!Anc(op.new), both)
    BY <1>9 DEF Git!Built, Git!Rebased, both
  <2>2. \A c \in Git!Anc(op.main) \cup Git!Anc(op.new) : commits[c].work \subseteq both
    BY <1>3, <1>5
  <2>3. Git!Anc(op.main) \cup Git!Anc(op.new) \in SUBSET DOMAIN commits
    BY <1>3, <1>5
  <2> QED BY <1>2, <2>1, <2>2, <2>3, AppendGraph DEF Git!Rewritten, GraphInv, Graph
<1> QED BY <1>6, <1>7, <1>8, <1>9

\* A commit's ancestors bring no work that it has not.
LEMMA GraphStep ==
  ASSUME Git!BoundsAssumption, GitTypes, GraphInv, Keeps, [Git!Next]_(Git!vars)
  PROVE  GraphInv'
<1> USE DEF Git!gitVars, Git!boxVars, Git!opVars
<1>0. /\ head \in Known /\ \A r \in Git!Refs : origin[r] \in Known
      /\ UNCHANGED commits => Graph'
  BY DEF GitTypes, GraphInv, Graph
\* What the operation knows stays as it is, whoever makes a commit.
<1>1. UNCHANGED op => Picked'
  <2>1. op.pc = "picking" => op.main \in Known /\ op.br \in Known /\ op.new \in Known
    BY DEF GitTypes
  <2>2. CASE op.pc = "picking" /\ UNCHANGED op
    <3>1. \A c \in {op.new, op.main, op.br} : Git!Work(c)' = Git!Work(c)
      BY <2>1, <2>2, KeepsAll
    <3> QED BY <2>2, <3>1 DEF GraphInv, Picked
  <2> QED BY <2>2 DEF GraphInv, Picked
<1>2. op' = Git!NoOp \/ op'.pc \in {"aborted", "built", "forced"} => Picked'
  BY DEF Picked, Git!NoOp
<1>3. CASE UNCHANGED commits /\ (op' = op \/ op' = Git!NoOp)
  BY <1>0, <1>1, <1>2, <1>3 DEF GraphInv
<1>4. CASE Git!Commit
  <2>1. commits' = Git!Made(head, "agent") /\ UNCHANGED op
    BY <1>4 DEF Git!Commit
  <2> QED BY <1>0, <1>1, <2>1, MadeGraph DEF GraphInv
<1>5. ASSUME NEW ref \in Git!Refs, Git!OthersPush(ref)
      PROVE  GraphInv'
  <2>1. commits' = Git!Made(origin[ref], "other") /\ UNCHANGED op
    BY <1>5 DEF Git!OthersPush
  <2> QED BY <1>0, <1>1, <2>1, MadeGraph DEF GraphInv
<1>6. ASSUME NEW kind \in OpKinds, Git!OpStarts(kind)
      PROVE  GraphInv'
  <2>1. UNCHANGED commits /\ op'.pc = "fetched" /\ op'.new = None
    BY <1>6 DEF Git!OpStarts
  <2> QED BY <1>0, <2>1 DEF GraphInv, Picked
<1>7. CASE Git!OpPicks
  <2>1. PICK c \in DOMAIN commits :
          /\ c \in Git!Anc(op.br)
          /\ commits' = Git!Rewritten(Git!Anc(op.main), Git!Work(op.main) \cup Git!Work(c))
    BY <1>7 DEF Git!OpPicks, Git!Names
  <2>2. /\ op.main \in Known /\ op.br \in Known /\ c \in Known /\ None \notin DOMAIN commits
        /\ op' = [op EXCEPT !.pc = "picking", !.new = Git!New]
    <3>1. \A d \in DOMAIN commits : d \in Nat
      BY DEF GitTypes
    <3> QED BY <1>7, <3>1 DEF Git!OpPicks, GitTypes, Known, Git!BoundsAssumption
  <2>3. Git!Work(c) \subseteq Git!Work(op.br)
    BY <2>1, <2>2, AncestorsOf DEF GraphInv, Git!Work
  <2>4. /\ Git!Anc(op.main) \in SUBSET DOMAIN commits
        /\ Git!Work(op.main) \cup Git!Work(c) \in SUBSET Nat
        /\ \A d \in Git!Anc(op.main) : commits[d].work \subseteq Git!Work(op.main) \cup Git!Work(c)
    BY <2>2, AncestorsOf DEF GraphInv
  <2>5. Graph'
    BY <2>1, <2>4, AppendGraph DEF Git!Rewritten, GraphInv
  <2>6. \A n \in {Git!New} : Git!Work(n)' = Git!Work(op.main) \cup Git!Work(c)
    <3>1. Git!Anc(op.main) \in SUBSET Nat
      BY <2>2, CommitsAreTyped
    <3> QED BY <2>1, <2>4, <3>1, RewrittenKeeps
  <2>7. op'.main = op.main /\ op'.br = op.br /\ op'.pc = "picking" /\ op'.new = Git!New
    BY <2>2 DEF GitTypes
  <2>8. \A m \in {op.main, op.br} : Git!Work(m)' = Git!Work(m)
    BY <2>2, KeepsAll
  <2> QED BY <2>3, <2>5, <2>6, <2>7, <2>8 DEF GraphInv, Picked
<1>8. CASE Git!OpBuilds
  <2>1. commits' = Git!Built.commits /\ op.pc \in {"fetched", "picking"}
    BY <1>8 DEF Git!OpBuilds
  <2>2. op'.pc = "built"
    BY <1>8 DEF Git!OpBuilds
  <2> QED BY <1>2, <2>1, <2>2, BuiltGraph DEF GraphInv
<1>9. CASE Git!OpAborts
  BY <1>0, <1>2, <1>9 DEF Git!OpAborts, GraphInv
<1>10. CASE Git!OpFails \/ Git!OpForcesBranch \/ Git!OpPushesDefault
  <2>1. UNCHANGED commits
    BY <1>10 DEF Git!OpFails, Git!OpForcesBranch, Git!OpPushesDefault
  <2>2. Picked'
    <3>1. CASE Git!OpEnds
      BY <1>2, <3>1 DEF Git!OpEnds
    <3>2. CASE ~Git!OpEnds
      <4>1. op' = [op EXCEPT !.pc = "forced"] /\ op.pc = "built"
        BY <1>10, <3>2 DEF Git!OpFails, Git!OpForcesBranch, Git!OpPushesDefault
      <4> QED BY <1>2, <4>1
    <3> QED BY <3>1, <3>2
  <2> QED BY <1>0, <2>1, <2>2 DEF GraphInv
<1>11. ASSUME NEW resume \in BOOLEAN, Git!Start(resume)
       PROVE  GraphInv'
  BY <1>3, <1>11 DEF Git!Start
<1>12. ASSUME NEW p \in pushes, \/ Git!PushReads(p) \/ Git!SafeguardPushLands(p)
                                \/ Git!OriginPushLands(p) \/ Git!PushFails(p)
       PROVE  GraphInv'
  BY <1>3, <1>12 DEF Git!PushReads, Git!SafeguardPushLands, Git!OriginPushLands, Git!PushFails
<1>13. CASE Git!Rename \/ Git!BranchSeen \/ Git!Exit \/ Git!Killed
  BY <1>3, <1>13 DEF Git!Rename, Git!BranchSeen, Git!Exit, Git!Killed, Git!Gone
<1>14. CASE UNCHANGED Git!vars
  BY <1>3, <1>14 DEF Git!vars
<1> QED
  BY <1>4, <1>5, <1>6, <1>7, <1>8, <1>9, <1>10, <1>11, <1>12, <1>13, <1>14 DEF Git!Next

\* HEAD contains the safeguard's ref, and what the agent's commits have brought to the
\* ref is in what reaches it now, as long as no operation's commit has come between.
LEMMA MirrorStep ==
  ASSUME Git!BoundsAssumption, GitTypes, BoxInv, GraphInv, MirrorInv, Keeps,
         [Git!Next]_(Git!vars)
  PROVE  /\ MirrorInv'
         /\ branch' = "auto" /\ ~taken /\ ~taken'
              => Git!Work(safe["auto"]) \subseteq (Git!Work(safe["auto"]))'
<1> USE DEF Git!gitVars, Git!boxVars, Git!opVars
<1> DEFINE Agent == \E c \in DOMAIN commits : commits[c].by = "agent"
           Grows == Git!Work(safe["auto"]) \subseteq (Git!Work(safe["auto"]))'
<1>0. /\ safe["auto"] \in Known /\ head \in Known /\ None \in Known /\ None \notin DOMAIN commits
      /\ \A p \in pushes :
           p.sha \in Known /\ p.seen \in Known /\ (p.to = "safeguard" => p.ref = "auto")
      /\ Own \subseteq pushes /\ (pushes' = {} => Own' = {})
  <2>1. \A c \in DOMAIN commits : c \in Nat
    BY DEF GitTypes
  <2> QED BY <2>1 DEF Own, GitTypes, PushType, Git!Refs, Known, Git!BoundsAssumption
<1>1. /\ \A c \in Known : Git!Work(c)' = Git!Work(c) /\ Git!Anc(c)' = Git!Anc(c)
      /\ Agent => Agent'
  BY KeepsAll
<1>1a. /\ \A c \in Known : Git!Anc(c) \subseteq DOMAIN commits
       /\ \A d \in Known : (d # None => d \in Git!Anc(d))
                           /\ \A c \in Git!Anc(d) : Git!Work(c) \subseteq Git!Work(d)
  BY <1>0, AncestorsOf DEF GraphInv, Git!Work
<1> HIDE DEF Agent
<1>2. UNCHANGED safe => Grows
  BY <1>0, <1>1
\* A push that lay between what it saw and HEAD, and HEAD where it was.
<1>2a. ASSUME NEW p \in Own, UNCHANGED head, Between(p)
       PROVE  Between(p)'
  BY <1>0, <1>1, <1>2a DEF Between
\* Nothing that MirrorInv speaks of moves, or pushes only end.
<1>3. CASE UNCHANGED <<safe, taken, box, head, branch>> /\ Own' \subseteq Own
  BY <1>0, <1>1, <1>2, <1>2a, <1>3 DEF MirrorInv, Agent
<1>4. ASSUME NEW resume \in BOOLEAN, Git!Start(resume)
      PROVE  MirrorInv' /\ Grows
  <2>1. /\ pushes' = {} /\ branch' = Git!Primary
        /\ UNCHANGED <<commits, safe, taken>> /\ (resume \/ ~Agent)
        /\ resume /\ safe[Git!Primary] # None => head' = safe[Git!Primary]
    BY <1>4 DEF Git!Start, Git!Restored, Git!Names, Agent
  <2>2. ~Agent /\ ~taken => safe["auto"] = None
    BY DEF MirrorInv, Agent
  <2>3. branch' = "auto" /\ ~taken => safe["auto"] \in Git!Anc(head)' \cup {None}
    BY <1>0, <1>1, <1>1a, <2>1, <2>2
  <2> QED BY <1>0, <1>1, <1>2, <2>1, <2>3 DEF MirrorInv, Agent
<1>5. CASE Git!Commit
  <2>1. /\ head' = Git!New /\ UNCHANGED <<safe, taken, box, branch>>
        /\ commits' = Git!Made(head, "agent")
        /\ \A p \in pushes' : p \in pushes \/ p.sha = None
    BY <1>5 DEF Git!Commit, Git!Push
  <2>2. /\ Git!New \in DOMAIN commits' /\ commits'[Git!New].by = "agent" /\ Git!New \notin Known
        /\ \A n \in {Git!New} : Git!Anc(n)' = Git!Anc(head) \cup {n}
    BY <1>0, <2>1, MadeKeeps
  <2>3. Agent' /\ Git!Anc(head)' = Git!Anc(head) \cup {Git!New}
    BY <2>1, <2>2 DEF Agent
  <2>4. \A p \in Own' : p \in Own \/ p.sha = None
    BY <2>1 DEF Own
  <2>5. ASSUME NEW p \in Own, Between(p)
        PROVE  Between(p)'
    BY <1>0, <1>1, <2>2, <2>3, <2>5 DEF Between
  <2> QED BY <1>0, <1>1, <1>2, <2>1, <2>3, <2>4, <2>5 DEF MirrorInv, Agent
<1>6. CASE Git!Rename
  BY <1>0, <1>1, <1>2, <1>6 DEF Git!Rename, MirrorInv, Own, Agent
<1>7. ASSUME NEW p \in pushes, Git!PushReads(p)
      PROVE  MirrorInv' /\ Grows
  <2>1. UNCHANGED <<commits, safe, taken, box, head, branch>> /\ p \in pushes
    BY <1>7 DEF Git!PushReads
  <2>2. PICK h \in Git!Heads(p) : \A q \in pushes' :
          q \in pushes \/ q = [p EXCEPT !.sha = h, !.seen = IF p.to = "origin"
                                                           THEN origin[p.ref] ELSE safe[p.ref]]
    BY <1>7 DEF Git!PushReads
  <2>3. p.by = "agent" => h = head
    BY <2>2 DEF Git!Heads
  <2>4. PushType(p) /\ (p.to = "safeguard" => p.ref = "auto")
    BY <1>0, <2>1 DEF GitTypes
  <2>5. \A q \in Own' : \/ q \in Own
                        \/ /\ p \in Own /\ q.sha = head
                           /\ q.to = "safeguard" => q.seen = safe["auto"]
    BY <2>1, <2>2, <2>3, <2>4 DEF PushType, Own
  <2>6. ASSUME NEW q \in Own', q.to = "safeguard" /\ q.sha # None, box = "running" /\ branch = "auto"
        PROVE  Between(q)'
    <3>1. CASE q \in Own
      BY <1>2a, <2>1, <2>6, <3>1 DEF MirrorInv
    <3>2. CASE q.sha = head /\ q.seen = safe["auto"]
      BY <1>0, <1>1, <1>1a, <2>1, <2>6, <3>2 DEF Between
    <3> QED BY <2>5, <2>6, <3>1, <3>2
  <2> QED BY <1>0, <1>1, <1>2, <2>1, <2>5, <2>6 DEF MirrorInv, Agent
<1>8. ASSUME NEW p \in pushes, Git!SafeguardPushLands(p)
      PROVE  MirrorInv' /\ (branch' = "auto" /\ ~taken /\ ~taken' => Grows)
  <2>1. /\ UNCHANGED <<commits, box, head, branch>> /\ Own' \subseteq Own
        /\ safe' = [safe EXCEPT !["auto"] = p.sha] /\ safe["auto"] = p.seen
        /\ p.to = "safeguard" /\ p.sha # None /\ taken' = (p.by = "op")
    BY <1>0, <1>8 DEF Git!SafeguardPushLands, Own
  <2>2. safe'["auto"] = p.sha /\ (~taken' => p \in Own)
    BY <1>0, <2>1 DEF GitTypes, PushType, Git!Refs, Own
  <2>3. box = "running"
    BY DEF BoxInv
  <2>4. Own # {} => Agent
    BY DEF MirrorInv, Agent
  <2>5. branch = "auto" /\ ~taken' => Between(p)
    BY <2>1, <2>2, <2>3 DEF MirrorInv
  <2>6. MirrorInv'
    BY <1>0, <1>1, <1>2a, <2>1, <2>2, <2>3, <2>4, <2>5 DEF MirrorInv, Agent, Between
  <2>7. branch' = "auto" /\ ~taken /\ ~taken' => Grows
    <3>1. branch = "auto" /\ ~taken => p.seen \in Git!Anc(head) \cup {None}
      BY <2>1, <2>3 DEF MirrorInv
    <3>2. \A c \in {None} : Git!Work(c) = {}
      BY DEF Git!Work
    <3> QED BY <1>0, <1>1, <2>1, <2>2, <2>5, <3>1, <3>2 DEF Between
  <2> QED BY <2>6, <2>7
<1>9. ASSUME NEW p \in pushes, Git!OriginPushLands(p) \/ Git!PushFails(p)
      PROVE  MirrorInv' /\ Grows
  BY <1>2, <1>3, <1>9 DEF Git!OriginPushLands, Git!PushFails, Own
<1>10. CASE Git!Exit \/ Git!Killed
  BY <1>0, <1>1, <1>2, <1>10 DEF Git!Exit, Git!Killed, Git!Gone, MirrorInv, Own, Agent
<1>11. CASE \/ Git!BranchSeen \/ \E r \in Git!Refs : Git!OthersPush(r)
            \/ \E kind \in OpKinds : Git!OpStarts(kind)
  BY <1>2, <1>3, <1>11 DEF Git!BranchSeen, Git!OthersPush, Git!OpStarts, Own
<1>13. CASE \/ Git!OpPicks \/ Git!OpAborts \/ Git!OpBuilds \/ Git!OpFails
            \/ Git!OpForcesBranch \/ Git!OpPushesDefault
  <2>1. /\ UNCHANGED <<safe, taken, box, head, branch>>
        /\ \A p \in pushes' : p \in pushes \/ p = Git!Push("op", "safeguard", "auto")
    BY <1>13, OpStep
  <2>2. Git!Push("op", "safeguard", "auto").by # "agent"
    BY DEF Git!Push
  <2>3. Own' \subseteq Own
    BY <2>1, <2>2 DEF Own
  <2> QED BY <1>2, <1>3, <2>1, <2>3
<1>12. CASE UNCHANGED Git!vars
  BY <1>2, <1>3, <1>12 DEF Git!vars, Own
<1> QED
  BY <1>4, <1>5, <1>6, <1>7, <1>8, <1>9, <1>10, <1>11, <1>12, <1>13 DEF Git!Next

\* What others have in origin and the clone has not fetched.
Foreign(r) == {w \in Git!Work(origin[r]) \ Git!Work(track[r]) : commits[w].by = "other"}

LEMMA LeaseStep ==
  ASSUME Git!BoundsAssumption, GitTypes, LeaseInv, Keeps, [Git!Next]_(Git!vars), ops' = 0
  PROVE  LeaseInv' /\ \A r \in Git!Refs : Foreign(r) \subseteq Git!Work(origin[r])'
<1> USE DEF Git!gitVars, Git!boxVars, Git!opVars
<1> DEFINE Stays == \A r \in Git!Refs : Foreign(r) \subseteq Git!Work(origin[r])'
<1>0. /\ \A r \in Git!Refs : origin[r] \in Known
      /\ \A p \in pushes : p.ref \in Git!Refs /\ p.sha \in Known /\ p.seen \in Known
      /\ \A c \in Known : Git!Work(c)' = Git!Work(c)
  BY KeepsAll DEF GitTypes, PushType, Git!Refs
<1>1. UNCHANGED origin => Stays
  BY <1>0 DEF Foreign
<1>2. CASE UNCHANGED <<origin, track>> /\ ops = 0 /\ pushes' \subseteq pushes
  BY <1>1, <1>2 DEF LeaseInv
<1>3. ASSUME NEW resume \in BOOLEAN, Git!Start(resume)
      PROVE  LeaseInv' /\ Stays
  <2>1. pushes' = {} /\ \A r \in Git!Refs : origin'[r] = origin[r] \/ origin[r] = None
    BY <1>3 DEF Git!Start, GitTypes
  <2> QED BY <1>0, <2>1 DEF LeaseInv, Foreign, Git!Work
<1>4. CASE Git!Commit
  <2>1. UNCHANGED <<origin, track, ops>> /\ \A p \in pushes' : p \in pushes \/ p.sha = None
    BY <1>4 DEF Git!Commit, Git!Push
  <2> QED BY <1>1, <2>1 DEF LeaseInv
<1>5. ASSUME NEW p \in pushes, Git!PushReads(p)
      PROVE  LeaseInv' /\ Stays
  <2>1. /\ UNCHANGED <<origin, track, ops>>
        /\ \A q \in pushes' : q \in pushes \/ (q.to = "origin" => origin[q.ref] = track[q.ref])
    BY <1>5 DEF Git!PushReads, Git!LeaseHolds, GitTypes, PushType
  <2> QED BY <1>1, <2>1 DEF LeaseInv
<1>6. ASSUME NEW p \in pushes, Git!OriginPushLands(p)
      PROVE  LeaseInv' /\ Stays
  <2>1. /\ p.to = "origin" /\ p.sha # None /\ origin[p.ref] = p.seen /\ ops = 0
        /\ pushes' \subseteq pushes /\ p.ref \in Git!Refs
        /\ origin' = [origin EXCEPT ![p.ref] = p.sha]
        /\ track' = [track EXCEPT ![p.ref] = p.sha]
    BY <1>0, <1>6 DEF Git!OriginPushLands
  <2>2. track[p.ref] = origin[p.ref]
    BY <2>1 DEF LeaseInv
  <2>3. /\ origin'[p.ref] = p.sha /\ track'[p.ref] = p.sha
        /\ \A r \in Git!Refs \ {p.ref} : origin'[r] = origin[r] /\ track'[r] = track[r]
    BY <2>1 DEF GitTypes
  <2>4. LeaseInv'
    BY <1>0, <2>1, <2>3 DEF LeaseInv
  <2>5. Stays
    BY <1>0, <2>2, <2>3 DEF Foreign
  <2> QED BY <2>4, <2>5
<1>7. ASSUME NEW ref \in Git!Refs, Git!OthersPush(ref)
      PROVE  LeaseInv' /\ Stays
  <2>1. /\ commits' = Git!Made(origin[ref], "other") /\ UNCHANGED <<track, ops, pushes>>
        /\ origin' = [origin EXCEPT ![ref] = Git!New]
    BY <1>7 DEF Git!OthersPush
  <2>2. /\ Git!New \notin Known
        /\ \A n \in {Git!New} : Git!Work(n)' = Git!Work(origin[ref]) \cup {n}
    BY <1>0, <2>1, MadeKeeps
  <2>3. /\ origin'[ref] = Git!New
        /\ \A r \in Git!Refs \ {ref} : origin'[r] = origin[r]
    BY <2>1 DEF GitTypes
  <2>4. LeaseInv'
    BY <1>0, <2>1, <2>2, <2>3 DEF LeaseInv
  <2>5. Git!Work(origin[ref]) \subseteq Git!Work(origin[ref])'
    BY <2>2, <2>3
  <2>6. Stays
    BY <1>0, <2>3, <2>5 DEF Foreign
  <2> QED BY <2>4, <2>6
<1>8. ASSUME NEW kind \in OpKinds
      PROVE  ~Git!OpStarts(kind)
  BY DEF Git!OpStarts, GitTypes
<1>9. /\ ~Git!OpPicks /\ ~Git!OpAborts /\ ~Git!OpBuilds /\ ~Git!OpFails
      /\ ~Git!OpForcesBranch /\ ~Git!OpPushesDefault
  BY DEF Git!OpPicks, Git!OpAborts, Git!OpBuilds, Git!OpFails, Git!OpForcesBranch,
     Git!OpPushesDefault, GitTypes
<1>10. CASE \/ Git!Rename \/ Git!BranchSeen
            \/ \E p \in pushes : Git!SafeguardPushLands(p) \/ Git!PushFails(p)
  BY <1>2, <1>10 DEF Git!Rename, Git!BranchSeen, Git!SafeguardPushLands, Git!PushFails
<1>11. CASE Git!Exit \/ Git!Killed
  BY <1>1, <1>11 DEF Git!Exit, Git!Killed, Git!Gone, LeaseInv
<1>12. CASE UNCHANGED Git!vars
  BY <1>2, <1>12 DEF Git!vars
<1> QED
  BY <1>3, <1>4, <1>5, <1>6, <1>7, <1>8, <1>9, <1>10, <1>11, <1>12 DEF Git!Next

LEMMA GitInvariant == Spec => []GitInv
<1>1. Init => GitInv
  BY OutsideAssumption, GitInit DEF Init, OutsideAssumption
<1>2. GitInv /\ [Next]_vars => GitInv'
  <2> SUFFICES ASSUME GitInv, [Next]_vars
               PROVE  GitInv'
    OBVIOUS
  <2>1. Git!BoundsAssumption /\ [Git!Next]_(Git!vars)
    BY OutsideAssumption, GitFrame DEF OutsideAssumption
  <2>2. GitTypes' /\ Keeps /\ BoxInv'
    BY <2>1, GitTypesStep, BoxStep DEF GitInv
  <2>3. GraphInv' /\ MirrorInv'
    BY <2>1, <2>2, GraphStep, MirrorStep DEF GitInv
  <2>4. LeaseInv'
    <3>1. CASE ops' = 0
      BY <2>1, <2>2, <3>1, LeaseStep DEF GitInv
    <3>2. CASE ops' # 0
      BY <3>2 DEF LeaseInv
    <3> QED BY <3>1, <3>2
  <2> QED BY <2>2, <2>3, <2>4 DEF GitInv
<1> QED BY <1>1, <1>2, PTL DEF Spec

\* supervisor.sh:134, "the hook's core durability guarantee": as long as the branch
\* has the run's own name, what has reached the safeguard stays there, over pushes that
\* overlap or fail, deaths of the container, resumes and history operations, but for the
\* push of what an operation has committed in the container, and the agent's after it.
THEOREM SafeguardGrows == Spec => SafeguardOnlyGrows
<1>1. GitInv /\ [Next]_vars =>
        [branch' = "auto" /\ ~taken /\ ~taken'
           => Git!Work(safe["auto"]) \subseteq (Git!Work(safe["auto"]))']_(Git!vars)
  <2> SUFFICES ASSUME GitInv, [Next]_vars, branch' = "auto", ~taken, ~taken'
               PROVE  Git!Work(safe["auto"]) \subseteq (Git!Work(safe["auto"]))'
    OBVIOUS
  <2>1. Git!BoundsAssumption /\ [Git!Next]_(Git!vars)
    BY OutsideAssumption, GitFrame DEF OutsideAssumption
  <2> QED BY <2>1, GitTypesStep, MirrorStep DEF GitInv
<1> QED BY <1>1, GitInvariant, PTL DEF Spec, SafeguardOnlyGrows, Git!SafeguardOnlyGrows

\* supervisor.sh:135-136, --force-with-lease: until a history operation fetches, what
\* others push to origin while the container runs is never overwritten by a background
\* push of the hook, however many are under way.
THEOREM ForeignWorkIsKept == Spec => ForeignWorkSurvives
<1>1. GitInv /\ [Next]_vars =>
        [ops' = 0 => \A r \in Git!Refs :
           {w \in Git!Work(origin[r]) \ Git!Work(track[r]) : commits[w].by = "other"}
             \subseteq (Git!Work(origin[r]))']_(Git!vars)
  <2> SUFFICES ASSUME GitInv, [Next]_vars, ops' = 0
               PROVE  \A r \in Git!Refs : Foreign(r) \subseteq Git!Work(origin[r])'
    BY DEF Foreign
  <2>1. Git!BoundsAssumption /\ [Git!Next]_(Git!vars)
    BY OutsideAssumption, GitFrame DEF OutsideAssumption
  <2> QED BY <2>1, GitTypesStep, LeaseStep DEF GitInv
<1> QED BY <1>1, GitInvariant, PTL DEF Spec, ForeignWorkSurvives, Git!ForeignWorkSurvives

-----------------------------------------------------------------------------
\* The account

Row == [window : Poller!Windows, level : {0, 75, 90}, told : {0, 75, 90},
        toldIn : Poller!Windows \cup {None}]

Poll == [pc : {"idle", "asked", "answered"}, at : {"fresh", "old"}, timed : BOOLEAN,
         answer : Poller!Bucket \cup {None}]

PollerTypes ==
  /\ api \in Poller!Bucket /\ row \in Row \cup {None}
  /\ polls \in [Polls -> Poll]
  /\ said \in [Poller!Windows -> {0, 75, 90}]

\* Nothing has been announced without a row, or beyond what the row remembers.
BucketInv ==
  ~disturbed =>
    /\ ~again
    /\ row = None => \A w \in Poller!Windows : said[w] = 0
    /\ row # None =>
         /\ row.toldIn \in {row.window, None} /\ (row.toldIn = None => row.told = 0)
         /\ said[row.window] <= row.told
         /\ \A w \in Poller!Windows : w > row.window => said[w] = 0

LEMMA PollerInit ==
  ASSUME Poller!PollerAssumption, Poller!Init
  PROVE  PollerTypes /\ BucketInv
<1>1. 1 \in Poller!Windows
  BY DEF Poller!PollerAssumption, Poller!Windows
<1>2. PollerTypes
  BY <1>1 DEF Poller!Init, PollerTypes, Poll, Poller!Bucket, Poller!Levels, Poller!Idle
<1>3. BucketInv
  BY DEF Poller!Init, BucketInv
<1> QED BY <1>2, <1>3

\* What replaceAll() and clearNotifiedIfReset() leave of the row.
LEMMA RowAfter ==
  ASSUME Poller!PollerAssumption, row \in Row \cup {None}, NEW answer \in Poller!Bucket
  PROVE  LET r == Poller!Cleared(Poller!Replaced(answer)) IN
           /\ r \in Row /\ r.window = answer.window
           /\ \/ /\ r.told = 0 /\ r.toldIn = None
                 /\ row # None => row.toldIn = None \/ row.toldIn # answer.window
              \/ /\ row # None /\ r.told = row.told /\ r.toldIn = row.toldIn
                 /\ r.toldIn = None \/ r.toldIn = answer.window
<1>1. answer # None /\ None \notin Row
  BY DEF Poller!PollerAssumption, Poller!Bucket, Poller!Windows, Poller!Levels, Row
<1>2. PICK told \in {0, 75, 90}, toldIn \in Poller!Windows \cup {None} :
        /\ Poller!Replaced(answer) = [window |-> answer.window, level |-> answer.level,
                                      told |-> told, toldIn |-> toldIn]
        /\ \/ row = None /\ told = 0 /\ toldIn = None
           \/ row # None /\ told = row.told /\ toldIn = row.toldIn
  <2>1. CASE row = None
    <3>1. Poller!Replaced(answer) = [window |-> answer.window, level |-> answer.level,
                                     told |-> 0, toldIn |-> None]
      BY <1>1, <2>1 DEF Poller!Replaced
    <3> QED BY <2>1, <3>1
  <2>2. CASE row # None
    BY <1>1, <2>2 DEF Poller!Replaced, Row
  <2> QED BY <2>1, <2>2
<1>3. PICK q \in {Poller!Replaced(answer)} : TRUE
  OBVIOUS
<1>4. q \in Row /\ q.window = answer.window /\ q.told = told /\ q.toldIn = toldIn
  BY <1>2, <1>3 DEF Row, Poller!Bucket, Poller!Levels
<1>5. CASE toldIn # None /\ toldIn # answer.window
  <2>1. Poller!Cleared(q) = [q EXCEPT !.told = 0, !.toldIn = None]
    BY <1>1, <1>4, <1>5 DEF Poller!Cleared, Poller!Forgets
  <2>2. PICK z \in {Poller!Cleared(q)} : TRUE
    OBVIOUS
  <2>3. z = [q EXCEPT !.told = 0, !.toldIn = None]
    BY <2>1, <2>2
  <2>4. z.window = answer.window /\ z.told = 0 /\ z.toldIn = None
    BY <1>4, <2>3 DEF Row
  <2>5. z \in Row
    BY <1>4, <2>3 DEF Row
  <2>6. row # None => row.toldIn # answer.window
    BY <1>2, <1>5
  <2> QED BY <1>3, <2>2, <2>4, <2>5, <2>6
<1>6. CASE ~(toldIn # None /\ toldIn # answer.window)
  BY <1>1, <1>2, <1>3, <1>4, <1>6 DEF Poller!Cleared, Poller!Forgets
<1> QED BY <1>5, <1>6

\* A threshold that is crossed is higher than the one remembered.
LEMMA CrossedIsHigher ==
  ASSUME NEW r \in Row, r # None
  PROVE  /\ Poller!Crossed(r) \in {0, 75, 90}
         /\ Poller!Crossed(r) # 0 => Poller!Crossed(r) > r.told
BY DEF Poller!Crossed, Row

\* A call under way may be told its answer, or get old.
LEMMA PollsKeepType ==
  ASSUME NEW e \in Poll
  PROVE  /\ \A a \in Poller!Bucket \cup {None} :
              [e EXCEPT !.pc = "answered", !.answer = a] \in Poll
         /\ [e EXCEPT !.at = Poller!Later(@)] \in Poll
<1>1. Poller!Later(e.at) \in {"fresh", "old"}
  BY DEF Poll, Poller!Later
<1>2. \A at \in {"fresh", "old"} : [e EXCEPT !.at = at] \in Poll
  BY DEF Poll
<1>3. \A a \in Poller!Bucket \cup {None} :
        [e EXCEPT !.pc = "answered", !.answer = a] \in Poll
  BY DEF Poll
<1> QED BY <1>1, <1>2, <1>3

LEMMA PollerStep ==
  ASSUME Poller!PollerAssumption, PollerTypes, BucketInv, [Poller!Next]_(Poller!vars)
  PROVE  PollerTypes' /\ BucketInv'
<1> USE DEF Poller!ghosts
<1>1. CASE UNCHANGED <<row, said, again, disturbed>> /\ PollerTypes'
  BY <1>1 DEF BucketInv, Poller!Windows
<1>2. ASSUME NEW p \in Polls, NEW token \in BOOLEAN, NEW timed \in BOOLEAN,
             Poller!Started(p, token, timed)
      PROVE  PollerTypes'
  <2>1. CASE token
    <3>1. polls' = [polls EXCEPT ![p] = [pc |-> "asked", at |-> "fresh", timed |-> timed,
                                         answer |-> None]]
      BY <1>2, <2>1 DEF Poller!Started, Poller!Idle
    <3>2. UNCHANGED <<api, row, said>>
      BY <1>2 DEF Poller!Started
    <3> QED BY <3>1, <3>2 DEF PollerTypes, Poll
  <2>2. CASE ~token
    BY <1>2, <2>2 DEF Poller!Started, PollerTypes
  <2> QED BY <2>1, <2>2
<1>3. ASSUME NEW p \in Polls, NEW token \in BOOLEAN,
             Poller!TimerFires(p, token) \/ Poller!Nudge(p, token)
      PROVE  PollerTypes' /\ BucketInv'
  BY <1>1, <1>2, <1>3 DEF Poller!TimerFires, Poller!Nudge, Poller!Started
<1>4. ASSUME NEW p \in Polls, Poller!PollFails(p)
      PROVE  PollerTypes' /\ BucketInv'
  BY <1>1, <1>4 DEF Poller!PollFails, PollerTypes, Poll, Poller!Idle
<1>5. ASSUME NEW p \in Polls, NEW answer \in {api, None}, Poller!Answers(p, answer)
      PROVE  PollerTypes' /\ BucketInv'
  <2>1. answer \in Poller!Bucket \cup {None}
    BY DEF PollerTypes
  <2>2. PollerTypes'
    <3>1. polls' = [polls EXCEPT ![p] = [polls[p] EXCEPT !.pc = "answered", !.answer = answer]]
      BY <1>5 DEF Poller!Answers, PollerTypes
    <3>2. UNCHANGED <<api, row, said>>
      BY <1>5 DEF Poller!Answers
    <3>3. polls \in [Polls -> Poll] /\ polls[p] \in Poll
      BY DEF PollerTypes
    <3>4. polls' \in [Polls -> Poll]
      BY <2>1, <3>1, <3>3, PollsKeepType
    <3> QED BY <3>2, <3>4 DEF PollerTypes
  <2> QED BY <1>1, <1>5, <2>2 DEF Poller!Answers
<1>6. ASSUME NEW p \in Polls, Poller!PollEnds(p)
      PROVE  PollerTypes' /\ BucketInv'
  <2>1. PICK answer \in {polls[p].answer} : TRUE
    OBVIOUS
  <2>2. answer \in Poller!Bucket \cup {None}
    BY <2>1 DEF PollerTypes, Poll
  <2>3. PICK r \in {Poller!Cleared(Poller!Replaced(answer))} : TRUE
    OBVIOUS
  <2>4. /\ IF Poller!Crossed(r) = 0
           THEN row' = r /\ UNCHANGED <<said, again>>
           ELSE LET t == Poller!Crossed(r) IN
                  /\ row' = [r EXCEPT !.told = t, !.toldIn = r.window]
                  /\ said' = [said EXCEPT ![r.window] = IF t > @ THEN t ELSE @]
                  /\ again' = (again \/ t <= said[r.window])
        /\ disturbed' = (disturbed \/ (row # None /\ (answer = None
                                                      \/ answer.window < row.window)))
        /\ polls' = [polls EXCEPT ![p] = Poller!Idle] /\ UNCHANGED api
    BY <1>6, <2>1, <2>3 DEF Poller!PollEnds
  <2>5. polls' \in [Polls -> Poll]
    BY <2>4 DEF PollerTypes, Poll, Poller!Idle
  <2>6. row \in Row \cup {None} /\ said \in [Poller!Windows -> {0, 75, 90}]
    BY DEF PollerTypes
  <2>7. CASE answer = None
    <3>1. r = None /\ Poller!Crossed(r) = 0
      BY <2>3, <2>7 DEF Poller!Cleared, Poller!Replaced, Poller!Crossed
    <3>2. row' = None /\ UNCHANGED <<said, again>>
      BY <2>4, <3>1
    <3>3. disturbed' = (disturbed \/ row # None)
      BY <2>4, <2>7
    <3>4. PollerTypes'
      BY <2>4, <2>5, <3>2 DEF PollerTypes
    <3>5. BucketInv'
      BY <3>2, <3>3 DEF BucketInv
    <3> QED BY <3>4, <3>5
  <2>8. CASE answer # None
    <3>1. /\ answer \in Poller!Bucket /\ r \in Row /\ r.window = answer.window
          /\ \/ /\ r.told = 0 /\ r.toldIn = None
                /\ row # None => row.toldIn = None \/ row.toldIn # answer.window
             \/ /\ row # None /\ r.told = row.told /\ r.toldIn = row.toldIn
                /\ r.toldIn = None \/ r.toldIn = answer.window
      BY <2>2, <2>3, <2>6, <2>8, RowAfter
    <3>2. /\ r # None /\ None \notin Row
          /\ Poller!Windows \subseteq Nat /\ None \notin Poller!Windows
      BY <3>1 DEF Poller!PollerAssumption, Row, Poller!Windows
    <3>3. PICK t \in {Poller!Crossed(r)} : TRUE
      OBVIOUS
    <3>4. t \in {0, 75, 90} /\ (t # 0 => t > r.told)
      BY <3>1, <3>2, <3>3, CrossedIsHigher
    <3>5. /\ IF t = 0
             THEN row' = r /\ UNCHANGED <<said, again>>
             ELSE /\ row' = [r EXCEPT !.told = t, !.toldIn = r.window]
                  /\ said' = [said EXCEPT ![r.window] = IF t > @ THEN t ELSE @]
                  /\ again' = (again \/ t <= said[r.window])
      BY <2>4, <3>3
    <3>6. /\ row' \in Row /\ row' # None /\ row'.window = r.window
          /\ t = 0 => row' = r
          /\ t # 0 => row'.told = t /\ row'.toldIn = r.window
      <4>1. CASE t = 0
        BY <3>1, <3>2, <3>5, <4>1
      <4>2. CASE t # 0
        <5>1. row' = [r EXCEPT !.told = t, !.toldIn = r.window]
          BY <3>5, <4>2
        <5>2. row' \in Row
          BY <3>1, <3>4, <5>1 DEF Row
        <5> QED BY <3>1, <3>2, <4>2, <5>1, <5>2 DEF Row
      <4> QED BY <4>1, <4>2
    <3>n. r.window \in Poller!Windows /\ said[r.window] \in {0, 75, 90} /\ r.told \in {0, 75, 90}
      BY <2>6, <3>1 DEF Row
    <3>s. said' \in [Poller!Windows -> {0, 75, 90}]
      BY <2>6, <3>4, <3>5
    <3>7. PollerTypes'
      BY <2>4, <2>5, <3>6, <3>s DEF PollerTypes
    <3>8. CASE disturbed'
      BY <3>7, <3>8 DEF BucketInv
    <3>9. CASE ~disturbed'
      <4>1. ~disturbed /\ ~again /\ (row # None => answer.window >= row.window)
        <5>1. ~disturbed /\ ~(row # None /\ answer.window < row.window)
          BY <2>4, <3>9
        <5>2. row # None => row.window \in Nat
          BY <2>6, <3>2 DEF Row
        <5>3. answer.window \in Nat
          BY <3>1, <3>2, <3>n
        <5> QED BY <5>1, <5>2, <5>3 DEF BucketInv
      <4>2. /\ said[r.window] <= r.told
            /\ \A w \in Poller!Windows : w > r.window => said[w] = 0
            /\ r.toldIn \in {r.window, None} /\ (r.toldIn = None => r.told = 0)
        <5>1. CASE row = None
          BY <3>1, <3>n, <4>1, <5>1 DEF BucketInv
        <5>2. CASE row # None
          <6>1. /\ row.toldIn \in {row.window, None} /\ (row.toldIn = None => row.told = 0)
                /\ said[row.window] <= row.told
                /\ \A w \in Poller!Windows : w > row.window => said[w] = 0
                /\ row.window \in Nat /\ r.window \in Nat /\ r.window >= row.window
            BY <2>6, <3>1, <3>2, <3>n, <4>1, <5>2 DEF BucketInv, Row
          <6>2. r.window > row.window => said[r.window] = 0
            BY <3>n, <6>1
          <6>3. ASSUME NEW w \in Poller!Windows, w > r.window
                PROVE  said[w] = 0
            <7>1. w \in Nat
              BY <3>2
            <7>2. w > row.window
              BY <6>1, <6>3, <7>1
            <7> QED BY <6>1, <7>2
          <6>4. r.window = row.window => said[r.window] <= r.told
            BY <3>1, <5>2, <6>1
          <6>5. r.toldIn \in {r.window, None} /\ (r.toldIn = None => r.told = 0)
            BY <3>1, <6>1
          <6> QED BY <3>n, <6>1, <6>2, <6>3, <6>4, <6>5
        <5> QED BY <5>1, <5>2
      <4>3. CASE t = 0
        <5>1. row' = r /\ UNCHANGED <<said, again>>
          BY <3>5, <4>3
        <5> QED BY <3>2, <3>7, <4>1, <4>2, <5>1 DEF BucketInv
      <4>4. CASE t # 0
        <5>1. t > said[r.window]
          BY <3>4, <3>n, <4>2, <4>4
        <5>2. ~again' /\ said' = [said EXCEPT ![r.window] = t]
          <6>1. ~(t <= said[r.window])
            BY <3>4, <3>n, <5>1
          <6> QED BY <3>5, <4>1, <4>4, <5>1, <6>1
        <5>3. said'[r.window] = t /\ t <= t
          BY <2>6, <3>4, <3>n, <5>2
        <5>4. \A w \in Poller!Windows : w > r.window => said'[w] = 0
          BY <2>6, <3>2, <3>n, <4>2, <5>2
        <5>5. row'.toldIn = row'.window /\ row'.toldIn # None /\ row'.told = t
          BY <3>2, <3>6, <3>n, <4>4
        <5> QED BY <3>6, <3>7, <5>2, <5>3, <5>4, <5>5 DEF BucketInv
      <4> QED BY <4>3, <4>4
    <3> QED BY <3>7, <3>8, <3>9
  <2> QED BY <2>7, <2>8
<1>7. CASE \E level \in Poller!Levels : Poller!AccountUsed(level)
  <2>1. PollerTypes'
    BY <1>7 DEF Poller!AccountUsed, PollerTypes, Poller!Bucket, Poller!Levels
  <2> QED BY <1>1, <1>7, <2>1 DEF Poller!AccountUsed
<1>8. CASE Poller!WindowResets
  <2>1. api'.window \in Poller!Windows
    BY <1>8 DEF Poller!WindowResets, PollerTypes, Poller!Bucket, Poller!Windows,
                Poller!PollerAssumption
  <2>2. PollerTypes'
    BY <1>8, <2>1 DEF Poller!WindowResets, PollerTypes, Poller!Bucket, Poller!Levels
  <2> QED BY <1>1, <1>8, <2>2 DEF Poller!WindowResets
<1>9. CASE Poller!FiveMinutes \/ Poller!Restart
  <2>1. UNCHANGED <<api, row, said>>
    BY <1>9 DEF Poller!FiveMinutes, Poller!Restart
  <2>2. polls' \in [Polls -> Poll]
    <3>1. CASE Poller!FiveMinutes
      <4>1. \A p \in Polls : [polls[p] EXCEPT !.at = Poller!Later(@)] \in Poll
        BY PollsKeepType DEF PollerTypes
      <4> QED BY <3>1, <4>1 DEF Poller!FiveMinutes
    <3>2. CASE Poller!Restart
      BY <3>2 DEF Poller!Restart, Poller!Idle, Poll
    <3> QED BY <1>9, <3>1, <3>2
  <2>3. PollerTypes'
    BY <2>1, <2>2 DEF PollerTypes
  <2> QED BY <1>1, <1>9, <2>3 DEF Poller!FiveMinutes, Poller!Restart
<1>10. CASE UNCHANGED Poller!vars
  <2>1. PollerTypes'
    BY <1>10 DEF Poller!vars, PollerTypes
  <2> QED BY <1>1, <1>10, <2>1 DEF Poller!vars
<1> QED
  BY <1>3, <1>4, <1>5, <1>6, <1>7, <1>8, <1>9, <1>10 DEF Poller!Next

\* A threshold is announced once in a window, and none after a higher one, over
\* overlapping polls, failures and restarts (oauthUsagePoller.ts:82-117), unless an
\* answer came late or without the bucket.
THEOREM ThresholdsAnnouncedOnce == Spec => []ThresholdOnce
<1> DEFINE Inv == PollerTypes /\ BucketInv
<1>1. Init => Inv
  BY OutsideAssumption, PollerInit DEF Init
<1>2. Inv /\ [Next]_vars => Inv'
  BY OutsideAssumption, PollerStep, PollerFrame
<1>3. Inv => ThresholdOnce
  BY DEF BucketInv, ThresholdOnce, Poller!ThresholdOnce
<1> QED BY <1>1, <1>2, <1>3, PTL DEF Spec

===============================================================================
