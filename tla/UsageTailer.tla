------------------------------ MODULE UsageTailer ------------------------------
(***************************************************************************)
(* How the tokens of a run are counted: the agent appends lines to the     *)
(* transcript in the run's directory, and the tailer of a life reads what  *)
(* is new every half second and adds each complete line to the row.        *)
(*                                                                         *)
(* A line is written in two chunks, the second of which ends it.  Offsets  *)
(* live in memory, the row in the database, the transcript on disk.        *)
(***************************************************************************)
EXTENDS Integers

CONSTANTS
  MaxLines,     \* bound on the lines of the transcript
  MaxRestarts,   \* bound on restarts of the server
  MaxRows       \* bound on the rows that use the run's id in turn

TailerAssumption ==
  MaxLines \in Nat \ {0} /\ MaxRestarts \in Nat /\ MaxRows \in Nat \ {0}

VARIABLES
  size,      \* chunks in the transcript
  life,      \* queued, live, exited (the container is gone), rest
  tailer,    \* the tailer of the life: on, offset, whether it holds half a line
  counted,   \* how often the row counts each line
  torn,      \* lines the tailer could not parse
  restarts, rows

vars == <<size, life, tailer, counted, torn, restarts, rows>>

Lines == 1..MaxLines

\* The lines whose last chunk is written.
Complete(s) == {l \in Lines : 2 * l <= s}

NoTailer == [on |-> FALSE, offset |-> 0, pending |-> FALSE]
NewTailer == [NoTailer EXCEPT !.on = TRUE]

Init ==
  /\ size = 0 /\ life = "queued" /\ tailer = NoTailer
  /\ counted = [l \in Lines |-> 0] /\ torn = {}
  /\ restarts = 0 /\ rows = 1

-----------------------------------------------------------------------------
\* readNewLines(): the lines completed since the offset.  One that began before
\* it can be parsed only with what is pending.
NewLines == Complete(size) \ Complete(tailer.offset)

Begun(l) == 2 * l - 1 <= tailer.offset

Whole == {l \in NewLines : Begun(l) => tailer.pending}

\* What is kept of a line that is not complete.
Partial == size % 2 = 1

\* onUsage(): the tokens are added to the row in one transaction.
Counts ==
  /\ counted' = [l \in Lines |-> IF l \in Whole THEN counted[l] + 1 ELSE counted[l]]
  /\ torn' = torn \cup (NewLines \ Whole)

\* A tick that finds the file grown.
Reads ==
  /\ tailer.on /\ size > tailer.offset
  /\ Counts
  /\ tailer' = [tailer EXCEPT !.offset = size, !.pending = Partial]
  /\ UNCHANGED <<size, life, restarts, rows>>

\* Mutant: no last pass.
StoppedAtOnce == tailer' = NoTailer /\ UNCHANGED <<counted, torn>>

\* stop(): a last pass, and the tailer is gone.
Stopped == Counts /\ tailer' = NoTailer

-----------------------------------------------------------------------------
\* The run.  Claude appends to its transcript while the container runs.

Writes ==
  /\ life = "live" /\ size < 2 * MaxLines
  /\ size' = size + 1
  /\ UNCHANGED <<life, tailer, counted, torn, restarts, rows>>

Launches ==
  /\ life = "queued"
  /\ life' = "live" /\ tailer' = NewTailer
  /\ UNCHANGED <<size, counted, torn, restarts, rows>>

\* resume() and continueRun() start no tailer.
Resumes ==
  /\ life = "rest"
  /\ life' = "live"
  /\ UNCHANGED <<size, tailer, counted, torn, restarts, rows>>

Exits ==
  /\ life = "live" /\ life' = "exited"
  /\ UNCHANGED <<size, tailer, counted, torn, restarts, rows>>

\* awaitAndComplete() has recorded the end, or the suspension, of the run.
Finishes ==
  /\ life = "exited" /\ life' = "rest"
  /\ IF tailer.on THEN Stopped ELSE UNCHANGED <<tailer, counted, torn>>
  /\ UNCHANGED <<size, restarts, rows>>

\* The server restarts, and recover() reattaches: the directory is read anew.
Reattaches ==
  /\ life \in {"live", "exited"} /\ restarts < MaxRestarts
  /\ restarts' = restarts + 1
  /\ tailer' = NewTailer
  /\ UNCHANGED <<size, life, counted, torn, rows>>

\* The row is deleted and its id used again; the directory stays.
Reused ==
  /\ life = "rest" /\ rows < MaxRows
  /\ rows' = rows + 1 /\ life' = "queued"
  /\ counted' = [l \in Lines |-> 0]
  /\ UNCHANGED <<size, tailer, torn, restarts>>

Next ==
  \/ Reads \/ Writes \/ Launches \/ Resumes \/ Exits
  \/ Finishes \/ Reattaches \/ Reused

Spec == Init /\ [][Next]_vars

-----------------------------------------------------------------------------
\* A row counts a line once for the life that wrote it, and once more for each
\* restart; a line in two pieces is never torn.
TypeOK ==
  /\ size \in 0..2 * MaxLines
  /\ life \in {"queued", "live", "exited", "rest"}
  /\ tailer \in [on : BOOLEAN, offset : 0..size, pending : BOOLEAN]
  /\ counted \in [Lines -> 0..1 + restarts] /\ torn = {}

\* docs/superpowers/specs/2026-04-22-claude-usage-design.md:42: "a final
\* full-file pass to guarantee we have the last line".  When a life that has a
\* tailer ends, every line written so far is in its row, also the lines of lives
\* that had none before a restart.
LifeCounted ==
  [][Finishes /\ tailer.on => \A l \in Complete(size) : counted'[l] > 0]_vars

===============================================================================
