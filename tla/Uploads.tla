-------------------------------- MODULE Uploads --------------------------------
(***************************************************************************)
(* Files that a user attaches to a run: uploads into a draft directory of  *)
(* the New-run page, their promotion into the uploads directory of the run *)
(* that is created, uploads into a live run, and the sweeper.  Handlers    *)
(* interleave at their awaits; the server may restart at any step.         *)
(*                                                                         *)
(* Every file offered has the same name and the same size, one unit; its   *)
(* bytes are an inode, named after the upload that created it.  Name 0 is  *)
(* the name offered, 1, 2, ... are the names the collision rule makes.     *)
(***************************************************************************)
EXTENDS Integers, FiniteSets

CONSTANTS
  None,
  NumTokens, NumRuns, MaxUploads,  \* instance
  Quota,                           \* PER_RUN_BYTES, in files
  MaxEvents,                       \* bound on days, restarts and deletions
  OneSubmit                        \* no form is submitted twice at once

UploadsAssumption ==
  /\ {NumTokens, NumRuns, MaxUploads, Quota} \subseteq Nat \ {0}
  /\ MaxEvents \in Nat /\ OneSubmit \in BOOLEAN /\ None \notin Int

\* Run ids are positive, draft tokens negative numbers.
Runs == 1..NumRuns
Tokens == -NumTokens..-1
Dirs == Tokens \cup Runs
Uploads == 1..MaxUploads
Names == 0..MaxUploads

VARIABLES
  names,     \* [Dirs -> [Names -> inode or None]], the finished files
  parts,     \* the same for <name>.part
  exists,    \* the directories there are
  ups,       \* the upload requests
  runs,      \* the rows: none, queued, live
  prom,      \* the promotion that POST /runs has under way
  page,      \* the New-run page: its token, the files it shows
  tokens,    \* how many tokens the server has given out
  sweeping,  \* directories the sweep of the start-up has not been through yet
  aged, judged,  \* drafts that are a day old; those the sweeper has seen to be
  gone,      \* files the user or the sweeper removed, or a failed promotion lost
  events     \* days, restarts and deletions so far

dirVars == <<names, parts, exists>>
sweepVars == <<sweeping, judged>>
vars == <<dirVars, ups, runs, prom, page, tokens, sweepVars, aged, gone, events>>

Empty == [n \in Names |-> None]
NoUpload == [pc |-> "none", dir |-> None, final |-> 0, name |-> 0, tries |-> 0, visit |-> 0,
             alone |-> TRUE]
Answered == [NoUpload EXCEPT !.pc = "over"]
NoPromotion == [token |-> None, read |-> FALSE, left |-> {}, files |-> {}]
NewPage(visit) == [visit |-> visit, token |-> None, files |-> {}]

Init ==
  /\ names = [d \in Dirs |-> Empty] /\ parts = [d \in Dirs |-> Empty] /\ exists = {}
  /\ ups = [u \in Uploads |-> NoUpload]
  /\ runs = [r \in Runs |-> "none"] /\ prom = [r \in Runs |-> NoPromotion]
  /\ page = NewPage(1) /\ tokens = 0
  /\ sweeping = {} /\ aged = {} /\ judged = {} /\ gone = {}
  /\ events = 0

-----------------------------------------------------------------------------
\* Files

Files(d) == {names[d][n] : n \in Names} \ {None}
Taken(d) == {n \in Names : names[d][n] # None}

\* directoryBytes(): one unit for each finished file.
Bytes(d) == Cardinality(Taken(d))

\* The collision rule: the name itself, or the first suffix that is free.
Resolve(d, n) ==
  IF n \notin Taken(d) THEN n
  ELSE CHOOSE k \in Names \ Taken(d) : k > n /\ \A j \in Names \ Taken(d) : j > n => k <= j

\* MaxUploads bounds the suffixes, too: the collision rule finds one.
NameLeft(d, n) == Resolve(d, n) \in Names \ Taken(d)

Named(f, d, n, i) == [f EXCEPT ![d][n] = i]

\* A directory whose entries change has a new mtime.
Touched(d) == aged' = aged \ {d}

\* An upload that is not over, and one whose bytes may still arrive.
Active(u) == ups[u].pc \in {"arrived", "open", "retry", "linked", "relinked"}

Step(u, pc) == ups' = [ups EXCEPT ![u].pc = pc]
Over(u) == ups' = [ups EXCEPT ![u] = Answered]

\* A new request.  `alone` says that no other upload into that directory was
\* under way while this one was.
Arrives(u, d, visit) ==
  LET others == {v \in Uploads : Active(v) /\ ups[v].dir = d} IN
    ups' = [v \in Uploads |->
              IF v = u THEN [NoUpload EXCEPT !.pc = "arrived", !.dir = d, !.visit = visit,
                                             !.alone = others = {}]
              ELSE IF v \in others THEN [ups[v] EXCEPT !.alone = FALSE]
              ELSE ups[v]]

-----------------------------------------------------------------------------
\* The page

\* The upload's request carries the token the page has at that moment; without
\* one the server makes one up.  mkdir leaves a directory alone that exists.
PageUploads(u, t) ==
  /\ ups[u].pc = "none" /\ \A v \in 1..(u - 1) : ups[v].pc # "none"
  /\ t = IF page.token = None THEN -(tokens + 1) ELSE page.token
  /\ Arrives(u, t, page.visit)
  /\ tokens' = IF page.token = None THEN tokens + 1 ELSE tokens
  /\ exists' = exists \cup {t}
  /\ aged' = IF t \in exists THEN aged ELSE aged \ {t}
  /\ UNCHANGED <<names, parts, runs, prom, page, sweepVars, gone, events>>

\* The row exists before the promotion; an id is used again after a deletion.
Submit(r) ==
  /\ runs[r] = "none" /\ \A q \in Runs : (q < r) = (runs[q] # "none")
  /\ page.visit <= NumRuns
  /\ OneSubmit => \A q \in Runs : prom[q] = NoPromotion
  /\ IF page.token = None
     THEN runs' = [runs EXCEPT ![r] = "live"] /\ page' = NewPage(page.visit + 1) /\ UNCHANGED prom
     ELSE /\ runs' = [runs EXCEPT ![r] = "queued"]
          /\ prom' = [prom EXCEPT ![r] = [token |-> page.token, read |-> FALSE, left |-> {},
                        files |-> {f.inode : f \in {g \in page.files : g.dir = page.token}}]]
          /\ UNCHANGED page
  /\ exists' = exists \cup {r}
  /\ UNCHANGED <<names, parts, ups, tokens, sweepVars, aged, gone, events>>

\* The tray shows what the server has confirmed, under the name it answered.
Shown(u) ==
  IF ups[u].visit = page.visit
  THEN [page EXCEPT !.token = ups[u].dir,
                    !.files = @ \cup {[dir |-> ups[u].dir, inode |-> names[ups[u].dir][ups[u].name]]}]
  ELSE page

-----------------------------------------------------------------------------
\* consumeOneFile

\* Into the directory of a run that has a container.
RunUploads(u, r) ==
  /\ ups[u].pc = "none" /\ \A v \in 1..(u - 1) : ups[v].pc # "none"
  /\ runs[r] = "live"
  /\ Arrives(u, r, 0)
  /\ exists' = exists \cup {r}
  /\ UNCHANGED <<names, parts, runs, prom, page, tokens, sweepVars, aged, gone, events>>

\* Mutant: an off-by-one.
HasRoomOffByOne(d) == Bytes(d) <= Quota

HasRoom(d) == Bytes(d) < Quota

\* The quota is compared with what the directory holds now, a free name chosen,
\* and createWriteStream(partPath, 'w') opens: a .part that is there is taken over.
Starts(u) ==
  LET d == ups[u].dir  n == Resolve(d, 0) IN
    /\ ups[u].pc = "arrived"
    /\ IF d \in exists /\ HasRoom(d)
       THEN /\ NameLeft(d, 0)
            /\ parts' = IF parts[d][n] = None THEN Named(parts, d, n, u) ELSE parts
            /\ ups' = [ups EXCEPT ![u].pc = "open", ![u].final = n, ![u].name = n]
            /\ Touched(d)
       ELSE Over(u) /\ UNCHANGED <<parts, aged>>
    /\ UNCHANGED <<names, exists, runs, prom, page, tokens, sweepVars, gone, events>>

\* The stream breaks, or outgrows a limit: the .part goes, by its path.
Breaks(u) ==
  LET d == ups[u].dir IN
    /\ ups[u].pc = "open" /\ ups[u].tries = 0
    /\ parts' = Named(parts, d, ups[u].final, None)
    /\ Over(u) /\ Touched(d)
    /\ UNCHANGED <<names, exists, runs, prom, page, tokens, sweepVars, gone, events>>

LinkTries == 3

\* Mutant: rename(2) does.
MayReplace(d, n) == TRUE

\* link(2) does not replace a file.
MayLink(d, n) == names[d][n] = None

\* The bytes are there: link the .part to the name, or look for another name.
Links(u) ==
  LET d == ups[u].dir  n == ups[u].final  part == parts[d][n] IN
    /\ ups[u].pc = "open"
    /\ IF d \in exists /\ part # None /\ MayLink(d, n)
       THEN names' = Named(names, d, n, part) /\ Step(u, "linked") /\ Touched(d) /\ UNCHANGED parts
       ELSE /\ UNCHANGED names
            /\ IF d \in exists /\ part # None
               THEN /\ NameLeft(d, 0)
                    /\ ups' = [ups EXCEPT ![u].pc = "retry", ![u].name = Resolve(d, 0)]
                    /\ UNCHANGED <<parts, aged>>
               ELSE Over(u) /\ parts' = Named(parts, d, n, None) /\ Touched(d)
    /\ UNCHANGED <<exists, runs, prom, page, tokens, sweepVars, gone, events>>

\* After a failed retry: the loop goes on, or gives up and removes the .part.
NextTry(u) ==
  LET d == ups[u].dir  n == ups[u].final IN
    IF ups[u].tries + 1 < LinkTries
    THEN ups' = [ups EXCEPT ![u].pc = "open", ![u].tries = @ + 1] /\ UNCHANGED parts
    ELSE Over(u) /\ parts' = Named(parts, d, n, None)

Retries(u) ==
  LET d == ups[u].dir  k == ups[u].name  part == parts[d][ups[u].final] IN
    /\ ups[u].pc = "retry"
    /\ IF d \in exists /\ part # None /\ MayLink(d, k)
       THEN names' = Named(names, d, k, part) /\ Step(u, "relinked") /\ Touched(d) /\ UNCHANGED parts
       ELSE NextTry(u) /\ UNCHANGED <<names, aged>>
    /\ UNCHANGED <<exists, runs, prom, page, tokens, sweepVars, gone, events>>

\* The .part is unlinked and the upload answered; if it is gone by now, the
\* upload fails although its file is there.
Unlinks(u) ==
  LET d == ups[u].dir  n == ups[u].final IN
    /\ ups[u].pc \in {"linked", "relinked"}
    /\ IF parts[d][n] # None
       THEN /\ parts' = Named(parts, d, n, None)
            /\ Over(u) /\ Touched(d)
            /\ page' = IF d \in Tokens /\ names[d][ups[u].name] # None THEN Shown(u) ELSE page
       ELSE /\ IF ups[u].pc = "linked" THEN Over(u) /\ UNCHANGED parts ELSE NextTry(u)
            /\ UNCHANGED <<page, aged>>
    /\ UNCHANGED <<names, exists, runs, prom, tokens, sweepVars, gone, events>>

\* DELETE of one file, in a draft or in a live run.
Deletes(d, n) ==
  /\ d \in exists /\ names[d][n] # None /\ events < MaxEvents
  /\ d \in Runs => runs[d] = "live"
  /\ names' = Named(names, d, n, None) /\ gone' = gone \cup {names[d][n]}
  /\ events' = events + 1 /\ Touched(d)
  /\ UNCHANGED <<parts, exists, ups, runs, prom, page, tokens, sweepVars>>

-----------------------------------------------------------------------------
\* promoteDraft, inside POST /runs

\* rm -r of a directory.
Removed(d) ==
  /\ names' = [names EXCEPT ![d] = Empty] /\ parts' = [parts EXCEPT ![d] = Empty]
  /\ exists' = exists \ {d}

\* Mutant: nothing stops the promotion.
RollsBackRowOnly(r) ==
  /\ runs' = [runs EXCEPT ![r] = "none"]
  /\ gone' = gone \cup Files(r) /\ Removed(r)
  /\ UNCHANGED <<prom, page, aged>>

\* The row and the run's directory go; what had been moved there goes with it.
RollsBack(r) ==
  /\ runs' = [runs EXCEPT ![r] = "none"] /\ prom' = [prom EXCEPT ![r] = NoPromotion]
  /\ gone' = gone \cup Files(r) /\ Removed(r)
  /\ UNCHANGED <<page, aged>>

\* The directory is read, or there is none.
PromoteReads(r) ==
  LET t == prom[r].token IN
    /\ t # None /\ ~prom[r].read
    /\ IF t \in exists
       THEN /\ prom' = [prom EXCEPT ![r].read = TRUE, ![r].left = Taken(t)]
            /\ UNCHANGED <<dirVars, runs, page, gone, aged>>
       ELSE RollsBack(r)
    /\ UNCHANGED <<ups, tokens, sweepVars, events>>

\* The next file is moved, under a name that is free, or is not there any more.
PromoteMoves(r, n) ==
  LET t == prom[r].token  inode == names[t][n] IN
    /\ n \in prom[r].left
    /\ IF inode # None
       THEN /\ NameLeft(r, n)
            /\ names' = [names EXCEPT ![t][n] = None, ![r][Resolve(r, n)] = inode]
            /\ prom' = [prom EXCEPT ![r].left = @ \ {n}]
            /\ aged' = aged \ {t, r}
            /\ UNCHANGED <<parts, exists, runs, page, gone>>
       ELSE RollsBack(r)
    /\ UNCHANGED <<ups, tokens, sweepVars, events>>

\* Mutant: an off-by-one in the loop.
AllButOneMoved(r) == prom[r].read /\ Cardinality(prom[r].left) <= 1

AllMoved(r) == prom[r].read /\ prom[r].left = {}

\* The rest of the draft goes, the run is launched, and the page is left.
PromoteEnds(r) ==
  /\ prom[r].token # None /\ AllMoved(r)
  /\ Removed(prom[r].token)
  /\ runs' = [runs EXCEPT ![r] = "live"] /\ prom' = [prom EXCEPT ![r] = NoPromotion]
  /\ page' = NewPage(page.visit + 1)
  /\ UNCHANGED <<ups, tokens, sweepVars, aged, gone, events>>

\* deleteRun() removes the row, the log and wip.git; runs/<id>/uploads stays.
DeleteRun(r) ==
  /\ runs[r] # "none" /\ prom[r] = NoPromotion /\ events < MaxEvents
  /\ runs' = [runs EXCEPT ![r] = "none"]
  /\ events' = events + 1
  /\ UNCHANGED <<dirVars, ups, prom, page, tokens, sweepVars, aged, gone>>

-----------------------------------------------------------------------------
\* The sweeper, and the server's life

\* A day passes; requests do not last that long.
Day ==
  /\ events < MaxEvents
  /\ \A u \in Uploads : ~Active(u)
  /\ \A r \in Runs : prom[r] = NoPromotion
  /\ events' = events + 1
  /\ aged' = exists \cap Tokens
  /\ UNCHANGED <<dirVars, ups, runs, prom, page, tokens, sweepVars, gone>>

\* stat, and then rm: the directory may have come to life in between.
Judges(t) ==
  /\ t \in exists \cap aged /\ t \notin judged
  /\ judged' = judged \cup {t}
  /\ UNCHANGED <<dirVars, ups, runs, prom, page, tokens, sweeping, aged, gone, events>>

SweepsDraft(t) ==
  /\ t \in judged
  /\ Removed(t) /\ gone' = gone \cup Files(t)
  /\ judged' = judged \ {t} /\ aged' = aged \ {t}
  /\ UNCHANGED <<ups, runs, prom, page, tokens, sweeping, events>>

\* The directories the start-up goes through for .part files.
PartDirs == Dirs

\* Not awaited by the start-up: new uploads may be under way already.
SweepsParts(d) ==
  /\ d \in sweeping
  /\ sweeping' = sweeping \ {d} /\ parts' = [parts EXCEPT ![d] = Empty]
  /\ UNCHANGED <<names, exists, ups, runs, prom, page, tokens, judged, aged, gone, events>>

\* Requests die with their connections.  What a promotion had moved stays under
\* a row that nothing launches.
Restart ==
  /\ events < MaxEvents
  /\ events' = events + 1
  /\ ups' = [u \in Uploads |-> IF Active(u) THEN Answered ELSE ups[u]]
  /\ gone' = gone \cup UNION {Files(r) : r \in {q \in Runs : prom[q] # NoPromotion}}
  /\ prom' = [r \in Runs |-> NoPromotion]
  /\ sweeping' = PartDirs /\ judged' = {}
  /\ UNCHANGED <<dirVars, runs, page, tokens, aged>>

-----------------------------------------------------------------------------
Handler(u) ==
  Starts(u) \/ Links(u) \/ Retries(u) \/ Unlinks(u)

Promotion(r) ==
  PromoteReads(r) \/ (\E n \in Names : PromoteMoves(r, n)) \/ PromoteEnds(r)

Next ==
  \/ \E u \in Uploads : Handler(u) \/ Breaks(u)
  \/ \E u \in Uploads, t \in Tokens : PageUploads(u, t)
  \/ \E u \in Uploads, r \in Runs : RunUploads(u, r)
  \/ \E r \in Runs : Submit(r) \/ Promotion(r) \/ DeleteRun(r)
  \/ \E d \in Dirs, n \in Names : Deletes(d, n)
  \/ \E t \in Tokens : Judges(t) \/ SweepsDraft(t)
  \/ \E d \in Dirs : SweepsParts(d)
  \/ Day \/ Restart

Spec == Init /\ [][Next]_vars

-----------------------------------------------------------------------------
Inode == Uploads \cup {None}

\* Every end of an upload takes its .part along.  Only a restart leaves some, and
\* where the start-up's sweep has been there are none but those of uploads that
\* are under way.
NoStalePart ==
  \A d \in Dirs \ sweeping, n \in Names :
    parts[d][n] # None => \E u \in Uploads : Active(u) /\ ups[u].dir = d /\ ups[u].final = n

\* The shape of the state; files are only in directories that exist, and a run
\* without a row has no promotion.
TypeOK ==
  /\ names \in [Dirs -> [Names -> Inode]] /\ parts \in [Dirs -> [Names -> Inode]]
  /\ exists \subseteq Dirs
  /\ \A d \in Dirs \ exists : names[d] = Empty /\ parts[d] = Empty
  /\ runs \in [Runs -> {"none", "queued", "live"}]
  /\ \A r \in Runs : prom[r] # NoPromotion => runs[r] = "queued"
  /\ tokens \in 0..NumTokens /\ page.token \in Tokens \cup {None}
  /\ \A f \in page.files : f.inode \in Uploads
  /\ {sweeping, aged, judged} \subseteq SUBSET Dirs /\ gone \subseteq Uploads
  /\ NoStalePart

\* docs/superpowers/specs/2026-04-23-agent-run-file-uploads-design.md:177, "overwrite
\* silently breaks earlier references": whatever uploads, retries and promotions
\* meet, a name never goes from one file to another.
NeverOverwritten ==
  [][\A d \in Dirs, n \in Names : names[d][n] # None => names'[d][n] \in {names[d][n], None}]_vars

\* A run that is launched has every file the page showed when it was submitted,
\* but for those that somebody removed, the sweeper took for abandoned, or an
\* earlier, failed attempt had moved.
LaunchedIsComplete ==
  [][\A r \in Runs : prom[r].token # None /\ runs'[r] = "live"
       => prom[r].files \subseteq {names'[r][n] : n \in Names} \cup gone]_vars

\* PER_RUN_BYTES: only uploads that overlap can take a draft past its quota.  (In
\* a run's directory an id that is used again does it too: README.md.)
QuotaKept ==
  [][\A u \in Uploads :
       /\ ups[u].dir \in Tokens /\ ups[u].alone
       /\ ups[u].pc \in {"open", "retry"} /\ ups'[u].pc \in {"linked", "relinked"}
       => Cardinality({n \in Names : names'[ups[u].dir][n] # None}) <= Quota]_vars

===============================================================================
