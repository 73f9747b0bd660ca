------------------------------ MODULE Migrations ------------------------------
(***************************************************************************)
(* openDb(): the schema, then migrate(), which brings a database of any    *)
(* earlier version to the shape of this one.  Each ALTER and each UPDATE   *)
(* commits on its own, so a crash may fall between any two of them and the *)
(* next start begins again; what is left open is rolled back.              *)
(***************************************************************************)
EXTENDS Integers

CONSTANTS
  None,         \* no row
  Runs,         \* the ids of rows of runs
  NarrowCheck,  \* whether there are databases whose mirror_status lacks 'local_only'
  MaxCrashes    \* bound on crashes and restarts

MigrationsAssumption == NarrowCheck \in BOOLEAN /\ MaxCrashes \in Nat

VARIABLES
  disk,     \* what is committed
  db,       \* what the connection sees
  open,     \* a transaction is open
  pc,       \* the step of openDb(), or serving
  known,    \* the runs the server has shown so far, or found on disk
  torn,     \* a crash fell between a column and its backfill
  crashes

vars == <<disk, db, open, pc, known, torn, crashes>>

\* The columns by the groups migrate() adds them in: the first resume_attempts and
\* what follows it, the last mock and mock_scenario.
Columns == {"resume", "entered", "mirror", "mock"}

\* The columns the table is rebuilt with.
Listed == {"entered", "mirror"}

\* entered: state_entered_at is the time the state was entered, and not the
\* column's default.  ruled: tokens_total is input plus output.
Row == [entered : BOOLEAN, ruled : BOOLEAN]

Database ==
  [cols : SUBSET Columns, check : {"none", "narrow", "wide"}, buckets : BOOLEAN,
   seeded : BOOLEAN, recomputed : BOOLEAN, rows : [Runs -> Row \cup {None}]]

\* schema.sql on an empty file.  It leaves to migrate() what is not in it.
Fresh ==
  [cols |-> Columns \ {"resume"}, check |-> "wide", buckets |-> TRUE, seeded |-> FALSE,
   recomputed |-> FALSE, rows |-> [r \in Runs |-> None]]

\* What earlier versions left: each had the columns of those before it.
Earlier ==
  {d \in Database :
     /\ d.cols \in {{}, {"resume"}, {"resume", "entered"}, {"resume", "entered", "mirror"},
                    Columns}
     /\ d.check = "none" \/ "mirror" \in d.cols
     /\ d.check = "narrow" => NarrowCheck
     /\ d.seeded
     /\ d.recomputed => d.buckets
     /\ "mock" \in d.cols => d.recomputed
     /\ \A r \in Runs : d.rows[r] # None =>
          /\ d.rows[r].entered = ("entered" \in d.cols)
          /\ d.recomputed => d.rows[r].ruled}

Init ==
  /\ disk \in Earlier \cup {Fresh}
  /\ db = disk /\ open = FALSE /\ pc = "plain"
  /\ known = {r \in Runs : disk.rows[r] # None} /\ torn = FALSE /\ crashes = 0

-----------------------------------------------------------------------------
\* A statement outside of a transaction is one of its own.
Write(d) ==
  /\ db' = d
  /\ disk' = IF open THEN disk ELSE d

Go(next) == pc' = next /\ UNCHANGED <<known, torn, crashes>>

AddColumn(c) == [db EXCEPT !.cols = @ \cup {c}]

\* resume_attempts and the columns that need no more than their default.
AddPlainColumns ==
  /\ pc = "plain"
  /\ Write(AddColumn("resume"))
  /\ Go("entered") /\ UNCHANGED open

\* state_entered_at.  The column is added, and filled by the next statement; a
\* database that has it is taken for one that is filled.
AddStateEnteredAt ==
  /\ pc = "entered"
  /\ IF "entered" \in db.cols
       THEN Write(db) /\ Go("mirror")
       ELSE Write(AddColumn("entered")) /\ Go("backfill")
  /\ UNCHANGED open

WithRows(f(_)) ==
  [r \in Runs |-> IF db.rows[r] = None THEN None ELSE f(db.rows[r])]

BackfillStateEnteredAt ==
  /\ pc = "backfill"
  /\ Write([db EXCEPT !.rows = WithRows(LAMBDA row : [row EXCEPT !.entered = TRUE])])
  /\ Go("mirror") /\ UNCHANGED open

\* base_branch and mirror_status, which is added without a CHECK.
AddMirrorStatus ==
  /\ pc = "mirror"
  /\ Write(AddColumn("mirror"))
  /\ Go("rebuild") /\ UNCHANGED open

\* The CHECK cannot be widened, so the table is made anew.  The rows are copied
\* column by column: where there are more than Listed the statement fails, after
\* the old table is dropped and before the COMMIT, and the catch ignores it.
RebuildRuns ==
  /\ pc = "rebuild"
  /\ LET wide == [db EXCEPT !.check = "wide", !.cols = Listed] IN
     IF db.check # "narrow" \/ open
       THEN Write(db) /\ UNCHANGED open
       ELSE IF db.cols = Listed
         THEN Write(wide) /\ UNCHANGED open
         ELSE /\ open' = TRUE
              /\ db' = [wide EXCEPT !.rows = [r \in Runs |-> None]]
              /\ UNCHANGED disk
  /\ Go("buckets")

\* rate_limit_state loses its columns per bucket.  A BEGIN in an open transaction
\* is an error, and openDb() fails.
RebuildRateLimitState ==
  /\ pc = "buckets"
  /\ Write([db EXCEPT !.buckets = TRUE])
  /\ Go(IF open /\ ~db.buckets THEN "failed" ELSE "seed") /\ UNCHANGED open

\* The one row of settings, after the columns it names.
SeedSettings ==
  /\ pc = "seed"
  /\ Write([db EXCEPT !.seeded = TRUE])
  /\ Go("recompute") /\ UNCHANGED open

\* Mutant: the sentinel is set before the totals are.
SentinelFirst ==
  /\ pc = "recompute"
  /\ IF db.recomputed
       THEN Write(db) /\ Go("mock")
       ELSE Write([db EXCEPT !.recomputed = TRUE]) /\ Go("sentinel")
  /\ UNCHANGED open

\* tokens_total = input + output, once.
RecomputeTotals ==
  /\ pc = "recompute"
  /\ IF db.recomputed
       THEN Write(db) /\ Go("mock")
       ELSE /\ Write([db EXCEPT !.rows = WithRows(LAMBDA row : [row EXCEPT !.ruled = TRUE])])
            /\ Go("sentinel")
  /\ UNCHANGED open

MarkRecomputed ==
  /\ pc = "sentinel"
  /\ Write([db EXCEPT !.recomputed = TRUE])
  /\ Go("mock") /\ UNCHANGED open

AddMockColumns ==
  /\ pc = "mock"
  /\ Write(AddColumn("mock"))
  /\ Go("serving") /\ UNCHANGED open

-----------------------------------------------------------------------------
\* The server inserts a run, or moves one to another state and counts its tokens.
Serve(r) ==
  /\ pc = "serving"
  /\ Write([db EXCEPT !.rows[r] =
       IF @ = None THEN [entered |-> TRUE, ruled |-> TRUE] ELSE [@ EXCEPT !.entered = TRUE]])
  /\ known' = known \cup {r}
  /\ UNCHANGED <<open, pc, torn, crashes>>

\* The process ends: what is not committed is gone.
Restart ==
  /\ crashes < MaxCrashes
  /\ crashes' = crashes + 1
  /\ db' = disk /\ UNCHANGED disk
  /\ open' = FALSE /\ pc' = "plain"
  /\ torn' = (torn \/ pc = "backfill")
  /\ UNCHANGED known

Next ==
  \/ AddPlainColumns \/ AddStateEnteredAt \/ BackfillStateEnteredAt \/ AddMirrorStatus
  \/ RebuildRuns \/ RebuildRateLimitState \/ SeedSettings \/ RecomputeTotals
  \/ MarkRecomputed \/ AddMockColumns
  \/ \E r \in Runs : Serve(r)
  \/ Restart

Spec == Init /\ [][Next]_vars

-----------------------------------------------------------------------------
TypeOK ==
  /\ disk \in Database /\ db \in Database /\ open \in BOOLEAN
  /\ pc \in {"plain", "entered", "backfill", "mirror", "rebuild", "buckets", "seed",
             "recompute", "sentinel", "mock", "serving", "failed"}
  /\ known \subseteq Runs /\ torn \in BOOLEAN /\ crashes \in 0..MaxCrashes

\* Whatever version it found and wherever earlier attempts died, a server that
\* serves has settings, every column, and rows whose total is of today's rule and
\* whose state was entered at some time.  One crash does the latter lasting harm:
\* the one between the column and its backfill.
Upgraded ==
  pc = "serving" =>
    /\ db.cols = Columns /\ db.seeded
    /\ \A r \in Runs : db.rows[r] # None =>
         db.rows[r].ruled /\ (db.rows[r].entered \/ torn)

===============================================================================
