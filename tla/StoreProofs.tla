------------------------------ MODULE StoreProofs ------------------------------
(***************************************************************************)
(* What the server keeps beside the runs' rows: the proofs.  A component's *)
(* part begins with its frame, that the composition takes its steps or     *)
(* leaves it alone, and ends with the theorem of what the runs check.      *)
(*                                                                         *)
(*   database       MigrationsInv   what each step of migrate() counts on  *)
(*   lists          ListsInv        what each answer under way will show   *)
(*   images         ImagesInv       what a launch and a sweep have read    *)
(*   configuration  ConfigInv       when a life read what it has           *)
(*   uploads        FilesInv        whose the files and the room are       *)
(*                  Accounted       where the files of a page are          *)
(*                                                                         *)
(* All of them together say that a state is of its type.                   *)
(***************************************************************************)
EXTENDS MCStore, FiniteSetTheorems, TLAPS

\* The database moves by its own steps, or not at all.
LEMMA SchemaFrame == [Next]_vars => [Schema!Next]_(Schema!vars)
BY DEF Next, vars, schemaVars, Schema!vars

-----------------------------------------------------------------------------
\* Without the rebuild no transaction stays open, and what the connection sees is what
\* is committed.
Steps == {"plain", "entered", "backfill", "mirror", "rebuild", "buckets", "seed",
          "recompute", "sentinel", "mock", "serving"}

Shapes ==
  /\ db = disk /\ open = FALSE /\ db.check # "narrow"
  /\ db \in Schema!Database /\ pc \in Steps /\ torn \in BOOLEAN

\* The columns that are there at a step.
ColumnsSoFar ==
  /\ pc # "plain" => "resume" \in db.cols
  /\ pc \notin {"plain", "entered"} => "entered" \in db.cols
  /\ pc \notin {"plain", "entered", "backfill", "mirror"} => "mirror" \in db.cols
  /\ pc = "serving" => "mock" \in db.cols

\* The settings and the sentinel that are there at a step.
MarksSoFar ==
  /\ pc \in {"recompute", "sentinel", "mock", "serving"} => db.seeded
  /\ pc \in {"mock", "serving"} => db.recomputed

\* What a column or a sentinel promises of the rows.
RowsKeep ==
  \A r \in OldRuns : db.rows[r] # None =>
    /\ "entered" \in db.cols /\ pc # "backfill" => db.rows[r].entered \/ torn
    /\ db.recomputed \/ pc = "sentinel" => db.rows[r].ruled

MigrationsInv == Shapes /\ ColumnsSoFar /\ MarksSoFar /\ RowsKeep

-----------------------------------------------------------------------------
\* A statement outside of a transaction is committed.
LEMMA WriteCommits ==
  ASSUME NEW d, Schema!Write(d), open = FALSE
  PROVE  db' = d /\ disk' = d
BY DEF Schema!Write

\* Adding a column changes nothing else.
LEMMA AddColumnFields ==
  ASSUME db \in Schema!Database, NEW c \in Schema!Columns
  PROVE  /\ Schema!AddColumn(c) \in Schema!Database
         /\ Schema!AddColumn(c).cols = db.cols \cup {c}
         /\ Schema!AddColumn(c).check = db.check /\ Schema!AddColumn(c).seeded = db.seeded
         /\ Schema!AddColumn(c).recomputed = db.recomputed /\ Schema!AddColumn(c).rows = db.rows
BY DEF Schema!AddColumn, Schema!Database

-----------------------------------------------------------------------------
LEMMA MigrationsInit ==
  ASSUME NarrowCheck = FALSE, Schema!Init
  PROVE  MigrationsInv
<1>1. CASE disk = Schema!Fresh
  <2>1. Schema!Fresh \in Schema!Database
    BY DEF Schema!Fresh, Schema!Database, Schema!Columns
  <2> QED
    BY <1>1, <2>1 DEF Schema!Init, Schema!Fresh, MigrationsInv, Shapes, Steps,
       ColumnsSoFar, MarksSoFar, RowsKeep
<1>2. CASE disk \in Schema!Earlier
  <2>1. /\ disk \in Schema!Database /\ disk.check # "narrow"
        /\ \A r \in OldRuns : disk.rows[r] # None =>
             /\ disk.rows[r].entered = ("entered" \in disk.cols)
             /\ disk.recomputed => disk.rows[r].ruled
    BY <1>2 DEF Schema!Earlier
  <2>2. \A r \in OldRuns : disk.rows[r] # None /\ "entered" \in disk.cols =>
          disk.rows[r].entered
    BY <2>1
  <2> QED BY <1>2, <2>1, <2>2 DEF Schema!Init, MigrationsInv, Shapes, Steps, ColumnsSoFar,
                                  MarksSoFar, RowsKeep
<1> QED BY <1>1, <1>2 DEF Schema!Init

\* The rows after an UPDATE of all of them.
LEMMA BackfillRows ==
  ASSUME db \in Schema!Database,
         NEW rows, rows = Schema!WithRows(LAMBDA row : [row EXCEPT !.entered = TRUE])
  PROVE  /\ rows \in [OldRuns -> Schema!Row \cup {None}]
         /\ \A r \in OldRuns : rows[r] # None =>
              /\ db.rows[r] # None /\ rows[r].entered
              /\ rows[r].ruled = db.rows[r].ruled
<1>1. rows = [r \in OldRuns |-> IF db.rows[r] = None THEN None
                             ELSE [db.rows[r] EXCEPT !.entered = TRUE]]
  BY DEF Schema!WithRows
<1>2. \A r \in OldRuns : db.rows[r] \in Schema!Row \cup {None}
  BY DEF Schema!Database
<1>3. \A row \in Schema!Row : LET new == [row EXCEPT !.entered = TRUE]
                      IN new \in Schema!Row /\ new.entered /\ new.ruled = row.ruled
  BY DEF Schema!Row
<1>4. \A r \in OldRuns : rows[r] \in Schema!Row \cup {None}
  BY <1>1, <1>2, <1>3
<1>5. rows \in [OldRuns -> Schema!Row \cup {None}]
  BY <1>1, <1>4
<1> QED BY <1>1, <1>2, <1>3, <1>5

LEMMA RuledRows ==
  ASSUME db \in Schema!Database,
         NEW rows, rows = Schema!WithRows(LAMBDA row : [row EXCEPT !.ruled = TRUE])
  PROVE  /\ rows \in [OldRuns -> Schema!Row \cup {None}]
         /\ \A r \in OldRuns : rows[r] # None =>
              /\ db.rows[r] # None /\ rows[r].ruled
              /\ rows[r].entered = db.rows[r].entered
<1>1. rows = [r \in OldRuns |-> IF db.rows[r] = None THEN None
                             ELSE [db.rows[r] EXCEPT !.ruled = TRUE]]
  BY DEF Schema!WithRows
<1>2. \A r \in OldRuns : db.rows[r] \in Schema!Row \cup {None}
  BY DEF Schema!Database
<1>3. \A row \in Schema!Row : LET new == [row EXCEPT !.ruled = TRUE]
                      IN new \in Schema!Row /\ new.ruled /\ new.entered = row.entered
  BY DEF Schema!Row
<1>4. \A r \in OldRuns : rows[r] \in Schema!Row \cup {None}
  BY <1>1, <1>2, <1>3
<1>5. rows \in [OldRuns -> Schema!Row \cup {None}]
  BY <1>1, <1>4
<1> QED BY <1>1, <1>2, <1>3, <1>5

-----------------------------------------------------------------------------
LEMMA MigrationsStep ==
  ASSUME NarrowCheck = FALSE, MigrationsInv, [Schema!Next]_(Schema!vars)
  PROVE  MigrationsInv'
<1> USE DEF MigrationsInv
<1>0. db = disk /\ open = FALSE /\ db.check # "narrow" /\ db \in Schema!Database
  BY DEF Shapes
<1>1. CASE Schema!AddPlainColumns
  <2>1. /\ db' = Schema!AddColumn("resume") /\ disk' = db' /\ open' = FALSE
        /\ pc = "plain" /\ pc' = "entered" /\ torn' = torn
    BY <1>0, <1>1, WriteCommits DEF Schema!AddPlainColumns, Schema!Go
  <2>2. "resume" \in Schema!Columns
    BY DEF Schema!Columns
  <2>3. /\ db' \in Schema!Database /\ db'.cols = db.cols \cup {"resume"} /\ db'.check = db.check
        /\ db'.seeded = db.seeded /\ db'.recomputed = db.recomputed /\ db'.rows = db.rows
    BY <1>0, <2>1, <2>2, AddColumnFields
  <2> QED BY <2>1, <2>3 DEF Shapes, Steps, ColumnsSoFar, MarksSoFar, RowsKeep
<1>2. CASE Schema!AddStateEnteredAt
  <2>1. CASE "entered" \in db.cols
    <3>1. /\ db' = db /\ disk' = db /\ open' = FALSE
          /\ pc = "entered" /\ pc' = "mirror" /\ torn' = torn
      BY <1>0, <1>2, <2>1, WriteCommits DEF Schema!AddStateEnteredAt, Schema!Go
    <3> QED BY <2>1, <3>1 DEF Shapes, Steps, ColumnsSoFar, MarksSoFar, RowsKeep
  <2>2. CASE "entered" \notin db.cols
    <3>1. /\ db' = Schema!AddColumn("entered") /\ disk' = db' /\ open' = FALSE
          /\ pc = "entered" /\ pc' = "backfill" /\ torn' = torn
      BY <1>0, <1>2, <2>2, WriteCommits DEF Schema!AddStateEnteredAt, Schema!Go
    <3>2. "entered" \in Schema!Columns
      BY DEF Schema!Columns
    <3>3. /\ db' \in Schema!Database /\ db'.cols = db.cols \cup {"entered"}
             /\ db'.check = db.check
          /\ db'.seeded = db.seeded /\ db'.recomputed = db.recomputed /\ db'.rows = db.rows
      BY <1>0, <3>1, <3>2, AddColumnFields
    <3> QED BY <3>1, <3>3 DEF Shapes, Steps, ColumnsSoFar, MarksSoFar, RowsKeep
  <2> QED BY <2>1, <2>2
<1>3. CASE Schema!BackfillStateEnteredAt
  <2> DEFINE new == Schema!WithRows(LAMBDA row : [row EXCEPT !.entered = TRUE])
  <2>1. /\ db' = [db EXCEPT !.rows = new] /\ disk' = db' /\ open' = FALSE
        /\ pc = "backfill" /\ pc' = "mirror" /\ torn' = torn
    BY <1>0, <1>3, WriteCommits DEF Schema!BackfillStateEnteredAt, Schema!Go
  <2>2. /\ new \in [OldRuns -> Schema!Row \cup {None}]
        /\ \A r \in OldRuns : new[r] # None =>
             db.rows[r] # None /\ new[r].entered /\ new[r].ruled = db.rows[r].ruled
    BY <1>0, BackfillRows
  <2> HIDE DEF new
  <2>3. /\ db' \in Schema!Database /\ db'.cols = db.cols /\ db'.check = db.check
        /\ db'.seeded = db.seeded /\ db'.recomputed = db.recomputed /\ db'.rows = new
    BY <1>0, <2>1, <2>2 DEF Schema!Database
  <2> QED BY <2>1, <2>2, <2>3 DEF Shapes, Steps, ColumnsSoFar, MarksSoFar, RowsKeep
<1>4. CASE Schema!AddMirrorStatus
  <2>1. /\ db' = Schema!AddColumn("mirror") /\ disk' = db' /\ open' = FALSE
        /\ pc = "mirror" /\ pc' = "rebuild" /\ torn' = torn
    BY <1>0, <1>4, WriteCommits DEF Schema!AddMirrorStatus, Schema!Go
  <2>2. "mirror" \in Schema!Columns
    BY DEF Schema!Columns
  <2>3. /\ db' \in Schema!Database /\ db'.cols = db.cols \cup {"mirror"} /\ db'.check = db.check
        /\ db'.seeded = db.seeded /\ db'.recomputed = db.recomputed /\ db'.rows = db.rows
    BY <1>0, <2>1, <2>2, AddColumnFields
  <2> QED BY <2>1, <2>3 DEF Shapes, Steps, ColumnsSoFar, MarksSoFar, RowsKeep
<1>5. CASE Schema!RebuildRuns
  <2>1. /\ db' = db /\ disk' = db /\ open' = FALSE
        /\ pc = "rebuild" /\ pc' = "buckets" /\ torn' = torn
    BY <1>0, <1>5, WriteCommits DEF Schema!RebuildRuns, Schema!Go
  <2> QED BY <2>1 DEF Shapes, Steps, ColumnsSoFar, MarksSoFar, RowsKeep
<1>6. CASE Schema!RebuildRateLimitState
  <2>1. /\ db' = [db EXCEPT !.buckets = TRUE] /\ disk' = db' /\ open' = FALSE
        /\ pc = "buckets" /\ pc' = "seed" /\ torn' = torn
    BY <1>0, <1>6, WriteCommits DEF Schema!RebuildRateLimitState, Schema!Go
  <2>2. /\ db' \in Schema!Database /\ db'.cols = db.cols /\ db'.check = db.check
        /\ db'.seeded = db.seeded /\ db'.recomputed = db.recomputed /\ db'.rows = db.rows
    BY <1>0, <2>1 DEF Schema!Database
  <2> QED BY <2>1, <2>2 DEF Shapes, Steps, ColumnsSoFar, MarksSoFar, RowsKeep
<1>7. CASE Schema!SeedSettings
  <2>1. /\ db' = [db EXCEPT !.seeded = TRUE] /\ disk' = db' /\ open' = FALSE
        /\ pc = "seed" /\ pc' = "recompute" /\ torn' = torn
    BY <1>0, <1>7, WriteCommits DEF Schema!SeedSettings, Schema!Go
  <2>2. /\ db' \in Schema!Database /\ db'.cols = db.cols /\ db'.check = db.check
        /\ db'.seeded = TRUE /\ db'.recomputed = db.recomputed /\ db'.rows = db.rows
    BY <1>0, <2>1 DEF Schema!Database
  <2> QED BY <2>1, <2>2 DEF Shapes, Steps, ColumnsSoFar, MarksSoFar, RowsKeep
<1>8. CASE Schema!RecomputeTotals
  <2>1. CASE db.recomputed
    <3>1. /\ db' = db /\ disk' = db /\ open' = FALSE
          /\ pc = "recompute" /\ pc' = "mock" /\ torn' = torn
      BY <1>0, <1>8, <2>1, WriteCommits DEF Schema!RecomputeTotals, Schema!Go
    <3> QED BY <2>1, <3>1 DEF Shapes, Steps, ColumnsSoFar, MarksSoFar, RowsKeep
  <2>2. CASE ~db.recomputed
    <3> DEFINE new == Schema!WithRows(LAMBDA row : [row EXCEPT !.ruled = TRUE])
    <3>1. /\ db' = [db EXCEPT !.rows = new] /\ disk' = db' /\ open' = FALSE
          /\ pc = "recompute" /\ pc' = "sentinel" /\ torn' = torn
      BY <1>0, <1>8, <2>2, WriteCommits DEF Schema!RecomputeTotals, Schema!Go
    <3>2. /\ new \in [OldRuns -> Schema!Row \cup {None}]
          /\ \A r \in OldRuns : new[r] # None =>
               db.rows[r] # None /\ new[r].ruled /\ new[r].entered = db.rows[r].entered
      BY <1>0, RuledRows
    <3> HIDE DEF new
    <3>3. /\ db' \in Schema!Database /\ db'.cols = db.cols /\ db'.check = db.check
          /\ db'.seeded = db.seeded /\ db'.recomputed = db.recomputed /\ db'.rows = new
      BY <1>0, <3>1, <3>2 DEF Schema!Database
    <3> QED BY <3>1, <3>2, <3>3 DEF Shapes, Steps, ColumnsSoFar, MarksSoFar, RowsKeep
  <2> QED BY <2>1, <2>2
<1>9. CASE Schema!MarkRecomputed
  <2>1. /\ db' = [db EXCEPT !.recomputed = TRUE] /\ disk' = db' /\ open' = FALSE
        /\ pc = "sentinel" /\ pc' = "mock" /\ torn' = torn
    BY <1>0, <1>9, WriteCommits DEF Schema!MarkRecomputed, Schema!Go
  <2>2. /\ db' \in Schema!Database /\ db'.cols = db.cols /\ db'.check = db.check
        /\ db'.seeded = db.seeded /\ db'.recomputed = TRUE /\ db'.rows = db.rows
    BY <1>0, <2>1 DEF Schema!Database
  <2> QED BY <2>1, <2>2 DEF Shapes, Steps, ColumnsSoFar, MarksSoFar, RowsKeep
<1>10. CASE Schema!AddMockColumns
  <2>1. /\ db' = Schema!AddColumn("mock") /\ disk' = db' /\ open' = FALSE
        /\ pc = "mock" /\ pc' = "serving" /\ torn' = torn
    BY <1>0, <1>10, WriteCommits DEF Schema!AddMockColumns, Schema!Go
  <2>2. "mock" \in Schema!Columns
    BY DEF Schema!Columns
  <2>3. /\ db' \in Schema!Database /\ db'.cols = db.cols \cup {"mock"} /\ db'.check = db.check
        /\ db'.seeded = db.seeded /\ db'.recomputed = db.recomputed /\ db'.rows = db.rows
    BY <1>0, <2>1, <2>2, AddColumnFields
  <2> QED BY <2>1, <2>3 DEF Shapes, Steps, ColumnsSoFar, MarksSoFar, RowsKeep
<1>11. ASSUME NEW r \in OldRuns, Schema!Serve(r)
       PROVE  MigrationsInv'
  <2> DEFINE row == IF db.rows[r] = None THEN [entered |-> TRUE, ruled |-> TRUE]
                    ELSE [db.rows[r] EXCEPT !.entered = TRUE]
  <2>1. /\ db' = [db EXCEPT !.rows[r] = row] /\ disk' = db' /\ open' = FALSE
        /\ pc = "serving" /\ pc' = "serving" /\ torn' = torn
    BY <1>0, <1>11 DEF Schema!Serve, Schema!Write
  <2>2. db.rows \in [OldRuns -> Schema!Row \cup {None}]
    BY <1>0 DEF Schema!Database
  <2>3. /\ row \in Schema!Row /\ row.entered = TRUE
        /\ row.ruled = TRUE \/ (db.rows[r] # None /\ row.ruled = db.rows[r].ruled)
    <3>1. CASE db.rows[r] = None
      <4>1. row = [entered |-> TRUE, ruled |-> TRUE]
        BY <3>1
      <4> HIDE DEF row
      <4>2. row \in Schema!Row
        BY <4>1 DEF Schema!Row
      <4>3. row.entered = TRUE /\ row.ruled = TRUE
        BY <4>1, Zenon
      <4> QED BY <4>2, <4>3
    <3>2. CASE db.rows[r] # None
      <4>1. db.rows[r] \in Schema!Row
        BY <2>2, <3>2
      <4>2. row = [db.rows[r] EXCEPT !.entered = TRUE]
        BY <3>2
      <4> HIDE DEF row
      <4> QED BY <3>2, <4>1, <4>2 DEF Schema!Row
    <3> QED BY <3>1, <3>2
  <2> HIDE DEF row
  <2>4. /\ db' \in Schema!Database /\ db'.cols = db.cols /\ db'.check = db.check
        /\ db'.seeded = db.seeded /\ db'.recomputed = db.recomputed
        /\ db'.rows = [db.rows EXCEPT ![r] = row]
    BY <1>0, <2>1, <2>2, <2>3 DEF Schema!Database
  <2>5. RowsKeep'
    BY <2>1, <2>2, <2>3, <2>4 DEF RowsKeep
  <2> QED BY <2>1, <2>4, <2>5 DEF Shapes, Steps, ColumnsSoFar, MarksSoFar
<1>12. CASE Schema!Restart
  BY <1>12 DEF Schema!Restart, Shapes, Steps, ColumnsSoFar, MarksSoFar, RowsKeep
<1>13. CASE UNCHANGED Schema!vars
  BY <1>13 DEF Schema!vars, Shapes, ColumnsSoFar, MarksSoFar, RowsKeep
<1> QED
  BY <1>1, <1>2, <1>3, <1>4, <1>5, <1>6, <1>7, <1>8, <1>9, <1>10, <1>11, <1>12, <1>13
  DEF Schema!Next

\* A server that serves has an upgraded database, wherever earlier starts died
\* (db/index.ts, migrate()), if no database has the narrow CHECK.
THEOREM ServesUpgraded == ASSUME NarrowCheck = FALSE PROVE Spec => []Upgraded
<1>1. Init => MigrationsInv
  BY MigrationsInit DEF Init
<1>2. MigrationsInv /\ [Next]_vars => MigrationsInv'
  BY MigrationsStep, SchemaFrame
<1>3. MigrationsInv => Schema!Upgraded
  <2> SUFFICES ASSUME MigrationsInv, pc = "serving"
               PROVE  /\ db.cols = Schema!Columns /\ db.seeded
                      /\ \A r \in OldRuns : db.rows[r] # None =>
                           db.rows[r].ruled /\ (db.rows[r].entered \/ torn)
    BY DEF Schema!Upgraded
  <2>1. db.cols \subseteq Schema!Columns
    BY DEF MigrationsInv, Shapes, Schema!Database
  <2>2. db.cols = Schema!Columns
    BY <2>1 DEF MigrationsInv, ColumnsSoFar, Schema!Columns
  <2> QED BY <2>2 DEF MigrationsInv, MarksSoFar, ColumnsSoFar, RowsKeep
<1> QED BY <1>1, <1>2, <1>3, PTL DEF Spec, Upgraded

-----------------------------------------------------------------------------
\* A list moves by its own steps, or not at all.
LEMMA ListsFrame == [Next]_vars => [Lists!Next]_(Lists!vars)
BY DEF Next, vars, listVars, Lists!vars

ServerOps == {"create", "update", "delete"}
SecretOps == {"upsert", "remove"}

\* What rows, or names, say of a key, and that two lists say the same.
Says(kind, rows, some, key) ==
  IF kind = "servers" THEN {s \in rows : s.id = key} ELSE {n \in some : n = key}

Same(kind, rows, some, held, there, key) ==
  Says(kind, rows, some, key) = Says(kind, held, there, key)

ListShapes ==
  /\ list \in [kind : {"servers", "secrets"}, servers : SUBSET Lists!Server,
               secrets : SUBSET Secrets, form : Lists!Ids \cup {None}]
  /\ serverRows \subseteq Lists!Server /\ Lists!Unique(serverRows) /\ secretRows \subseteq Secrets
  /\ requests \in [Requests -> Lists!Request \cup {None}] /\ missed \subseteq Lists!Keys

\* A request is for the page's own list, and names what it changes.
OwnList(r, kind) ==
  /\ r.op \in ServerOps => kind = "servers"
  /\ r.op \in SecretOps => kind = "secrets" /\ r.key \in Secrets
  /\ r.op \in {"create", "update"} => r.name \in ServerNames
  /\ r.op \in {"update", "delete"} => r.key \in Lists!Ids
  /\ r.op = "create" /\ r.step = "sent" => r.key = None
  /\ r.op \in ServerOps /\ r.step = "ok" => r.key \in Lists!Ids

\* Another request has changed the key, and the page has not had its answer.
Pending(key, q) ==
  \E p \in Lists!InFlight : p # q /\ Lists!Landed(requests[p]) /\ requests[p].key = key

\* The rows that the answer to a change will make of the list.
ToShow(r) == IF r.step = "ok" THEN Lists!ShownAfter(r) ELSE r.rows

\* What a request will make of the list is right, but for what came in between.
Brings(q) ==
  /\ requests[q].op \in ServerOps =>
       \A key \in Lists!Keys :
         \/ Same(list.kind, ToShow(requests[q]), {}, serverRows, secretRows, key)
         \/ key \in missed \cup requests[q].since \/ Pending(key, q)
  /\ requests[q].op = "load" /\ requests[q].step = "ok" =>
       \A key \in Lists!Keys :
         \/ Same(list.kind, requests[q].rows, requests[q].names, serverRows, secretRows, key)
         \/ key \in requests[q].since \/ Pending(key, q)

ListRight ==
  \A key \in Lists!Keys :
    \/ Same(list.kind, list.servers, list.secrets, serverRows, secretRows, key)
    \/ key \in missed
    \/ \E q \in Lists!InFlight : Lists!Landed(requests[q]) /\ requests[q].key = key

ListsInv ==
  /\ ListShapes
  /\ \A q \in Lists!InFlight : OwnList(requests[q], list.kind)
  /\ \A q \in Lists!InFlight : Brings(q)
  /\ ListRight

\* The list that is not there yet may be wrong about anything.
LEMMA ListsInit ==
  ASSUME Lists!ConfigListsAssumption, Lists!Init
  PROVE  ListsInv
<1> DEFINE q0 == CHOOSE r \in Requests : TRUE
           load == [step |-> "sent", op |-> "load", key |-> None, name |-> None,
                    rows |-> {}, names |-> {}, since |-> {}]
<1>1. load \in Lists!Request /\ load # None
  BY DEF Lists!Request, Lists!ConfigListsAssumption
<1>2. requests = [q \in Requests |-> IF q = q0 THEN load ELSE None]
  BY DEF Lists!Init
<1>3. load.op = "load" /\ load.step = "sent"
  OBVIOUS
<1> HIDE DEF q0, load
<1>4. ListShapes
  BY <1>1, <1>2 DEF Lists!Init, ListShapes
<1>5. \A q \in Lists!InFlight : requests[q] = load
  BY <1>1, <1>2 DEF Lists!InFlight
<1>6. \A q \in Lists!InFlight : OwnList(requests[q], list.kind) /\ Brings(q)
  BY <1>3, <1>5 DEF OwnList, Brings, ServerOps, SecretOps
<1> QED BY <1>4, <1>6 DEF ListsInv, Lists!Init, ListRight

\* What a request will bring stays right, when it learns of the keys that others leave.
LEMMA BringsKept ==
  ASSUME ListsInv, NEW p \in Lists!InFlight, NEW keys, requests[p] \in Lists!Request,
         requests'[p] = [requests[p] EXCEPT !.since = @ \cup keys],
         list'.kind = list.kind,
         missed \subseteq missed' \/ Lists!Keys \subseteq keys \/ list.kind # "servers",
         \A key \in Lists!Keys :
           key \in keys \/ Pending(key, p)' \/
             /\ ~Pending(key, p)
             /\ Says(list.kind, serverRows', secretRows', key)
                  = Says(list.kind, serverRows, secretRows, key)
  PROVE  OwnList(requests[p], list.kind)' /\ Brings(p)'
<1> DEFINE r == requests[p]
           z == requests'[p]
<1>1. /\ z.op = r.op /\ z.step = r.step /\ z.key = r.key /\ z.name = r.name
      /\ z.rows = r.rows /\ z.names = r.names /\ z.since = r.since \cup keys
  BY DEF Lists!Request
<1>2. OwnList(r, list.kind) /\ Brings(p)
  BY DEF ListsInv
<1>3. OwnList(z, list'.kind)
  BY <1>1, <1>2 DEF OwnList
<1>4. ASSUME r.op \in ServerOps
      PROVE  ToShow(z) = ToShow(r)
  <2>1. Lists!Row(z) = Lists!Row(r) /\ z.rows = r.rows /\ z.key = r.key /\ z.op = r.op
    BY <1>1 DEF Lists!Row
  <2> HIDE DEF r, z
  <2>2. CASE r.op = "create"
    BY <1>1, <2>1, <2>2 DEF ToShow, Lists!ShownAfter, Lists!Changed
  <2>3. CASE r.op = "update"
    BY <1>1, <2>1, <2>3 DEF ToShow, Lists!ShownAfter, Lists!Changed
  <2>4. CASE r.op = "delete"
    BY <1>1, <2>1, <2>4 DEF ToShow, Lists!ShownAfter, Lists!Changed
  <2> QED BY <1>4, <2>2, <2>3, <2>4 DEF ServerOps
<1>5. ASSUME NEW rows, NEW some, NEW key \in Lists!Keys,
             Same(list.kind, rows, some, serverRows, secretRows, key),
             key \notin keys, ~Pending(key, p)'
      PROVE  Same(list'.kind, rows, some, serverRows', secretRows', key)
  BY <1>5 DEF Same
<1>6. ASSUME z.op \in ServerOps, NEW key \in Lists!Keys
      PROVE  \/ Same(list'.kind, ToShow(z), {}, serverRows', secretRows', key)
             \/ key \in missed' \cup z.since \/ Pending(key, p)'
  <2>1. \/ Same(list.kind, ToShow(r), {}, serverRows, secretRows, key)
        \/ key \in missed \cup r.since \/ Pending(key, p)
    BY <1>1, <1>2, <1>6 DEF Brings
  <2>2. list.kind = "servers"
    BY <1>1, <1>2, <1>6 DEF OwnList
  <2> HIDE DEF r, z
  <2> QED BY <1>1, <1>4, <1>5, <1>6, <2>1, <2>2
<1>7. ASSUME z.op = "load", z.step = "ok", NEW key \in Lists!Keys
      PROVE  \/ Same(list'.kind, z.rows, z.names, serverRows', secretRows', key)
             \/ key \in z.since \/ Pending(key, p)'
  <2>1. \/ Same(list.kind, r.rows, r.names, serverRows, secretRows, key)
        \/ key \in r.since \/ Pending(key, p)
    BY <1>1, <1>2, <1>7 DEF Brings
  <2> HIDE DEF r, z
  <2> QED BY <1>1, <1>5, <1>7, <2>1
<1> QED BY <1>3, <1>6, <1>7 DEF Brings

\* A request is over, the server's rows are as they were: the others keep theirs.
LEMMA OverStep ==
  ASSUME ListsInv, NEW q \in Lists!InFlight, NEW keys \in SUBSET (Lists!Keys \cup {None}),
         Lists!ConfigListsAssumption, Lists!Over(q, keys),
         UNCHANGED <<serverRows, secretRows>>,
         list' \in [kind : {list.kind}, servers : SUBSET Lists!Server,
                    secrets : SUBSET Secrets, form : Lists!Ids \cup {None}],
         missed' \subseteq Lists!Keys,
         missed \subseteq missed' \/ Lists!Keys \subseteq keys \/ list.kind # "servers",
         Lists!Landed(requests[q]) => requests[q].key \in keys,
         \A key \in Lists!Keys :
           \/ Same(list.kind, list'.servers, list'.secrets, serverRows, secretRows, key)
           \/ key \in missed' \/ Pending(key, q)
  PROVE  ListsInv'
<1> DEFINE K == keys \ {None}
<1>1. /\ Lists!InFlight' = Lists!InFlight \ {q}
      /\ \A p \in Lists!InFlight' : requests'[p] = [requests[p] EXCEPT !.since = @ \cup K]
      /\ \A p \in Requests : requests'[p] \in Lists!Request \cup {None}
  <2>1. \A p \in Lists!InFlight : requests[p] \in Lists!Request /\ requests[p] # None
    BY DEF ListsInv, ListShapes, Lists!InFlight
  <2>2. ASSUME NEW r \in Lists!Request
        PROVE  [r EXCEPT !.since = @ \cup K] \in Lists!Request
    BY <2>2 DEF Lists!Request
  <2>3. None \notin Lists!Request
    BY DEF Lists!ConfigListsAssumption
  <2>4. requests' = [p \in Requests |->
          IF p = q \/ requests[p] = None THEN None
            ELSE [requests[p] EXCEPT !.since = @ \cup K]]
    BY DEF Lists!Over
  <2> HIDE DEF K
  <2> QED BY <2>1, <2>2, <2>3, <2>4 DEF Lists!InFlight
<1>2. ListShapes'
  <2>1. requests' \in [Requests -> Lists!Request \cup {None}]
    BY <1>1 DEF Lists!Over
  <2> QED BY <2>1 DEF ListsInv, ListShapes
<1>3. \A p \in Lists!InFlight : requests[p] \in Lists!Request
  BY DEF ListsInv, ListShapes, Lists!InFlight
<1>4. ASSUME NEW p \in Lists!InFlight'
      PROVE  /\ Lists!Landed(requests[p])' <=> Lists!Landed(requests[p])
             /\ requests'[p].key = requests[p].key
  <2>1. requests[p] \in Lists!Request
    BY <1>1, <1>3
  <2>2. requests'[p] = [requests[p] EXCEPT !.since = @ \cup K]
    BY <1>1
  <2> HIDE DEF K
  <2>3. /\ requests'[p].step = requests[p].step /\ requests'[p].op = requests[p].op
        /\ requests'[p].key = requests[p].key
    BY <2>1, <2>2 DEF Lists!Request
  <2> QED BY <2>3 DEF Lists!Landed
<1>5. ASSUME NEW p \in Lists!InFlight', NEW key \in Lists!Keys, Pending(key, p)
      PROVE  key \in K \/ Pending(key, p)'
  <2>1. PICK o \in Lists!InFlight : o # p /\ Lists!Landed(requests[o]) /\ requests[o].key = key
    BY <1>5 DEF Pending
  <2>2. CASE o = q
    BY <2>1, <2>2 DEF Lists!ConfigListsAssumption
  <2>3. CASE o # q
    BY <1>1, <1>4, <2>1, <2>3 DEF Pending
  <2> QED BY <2>2, <2>3
<1>6. ASSUME NEW p \in Lists!InFlight'
      PROVE  OwnList(requests[p], list.kind)' /\ Brings(p)'
  <2>1. p \in Lists!InFlight /\ requests[p] \in Lists!Request
    BY <1>1, <1>3
  <2>2. missed \subseteq missed' \/ Lists!Keys \subseteq K \/ list.kind # "servers"
    BY DEF Lists!ConfigListsAssumption
  <2>3. \A key \in Lists!Keys : key \in K \/ Pending(key, p)' \/ ~Pending(key, p)
    BY <1>5
  <2>4. list'.kind = list.kind
    OBVIOUS
  <2>5. requests'[p] = [requests[p] EXCEPT !.since = @ \cup K]
    BY <1>1
  <2> HIDE DEF K
  <2> QED BY <2>1, <2>2, <2>3, <2>4, <2>5, BringsKept
<1>7. ListRight'
  <2>1. ASSUME NEW key \in Lists!Keys, Pending(key, q)
        PROVE  \E p \in Lists!InFlight' :
                 Lists!Landed(requests[p])' /\ requests'[p].key = key
    BY <1>1, <1>4, <2>1 DEF Pending
  <2> QED BY <2>1 DEF ListRight, Same
<1> QED BY <1>2, <1>6, <1>7 DEF ListsInv

\* One request under way goes on; the others, and the list, are as they were.
LEMMA BecomeStep ==
  ASSUME ListsInv, Lists!ConfigListsAssumption,
         NEW q \in Lists!InFlight, NEW r \in Lists!Request, Lists!Become(q, r),
         UNCHANGED <<list, missed>>,
         serverRows' \subseteq Lists!Server, Lists!Unique(serverRows)',
         secretRows' \subseteq Secrets,
         OwnList(r, list.kind),
         Lists!Landed(requests[q]) => Lists!Landed(r) /\ r.key = requests[q].key,
         \A key \in Lists!Keys :
           \/ Lists!Landed(r) /\ r.key = key
           \/ Says(list.kind, serverRows', secretRows', key)
                = Says(list.kind, serverRows, secretRows, key),
         r.op \in ServerOps =>
           \A key \in Lists!Keys :
             \/ Same(list.kind, ToShow(r), {}, serverRows', secretRows', key)
             \/ key \in missed \cup r.since \/ Pending(key, q),
         r.op = "load" /\ r.step = "ok" =>
           \A key \in Lists!Keys :
             \/ Same(list.kind, r.rows, r.names, serverRows', secretRows', key)
             \/ key \in r.since \/ Pending(key, q)
  PROVE  ListsInv'
<1>1. requests \in [Requests -> Lists!Request \cup {None}] /\ r # None
  BY DEF ListsInv, ListShapes, Lists!ConfigListsAssumption
<1>2. /\ Lists!InFlight' = Lists!InFlight /\ requests'[q] = r
      /\ \A p \in Lists!InFlight : p # q => requests'[p] = requests[p]
  BY <1>1 DEF Lists!Become, Lists!InFlight
<1>3. ListShapes'
  BY <1>1 DEF Lists!Become, ListsInv, ListShapes
<1>4. \A p \in Lists!InFlight : requests[p] \in Lists!Request
  BY <1>1 DEF Lists!InFlight
<1>5. \A p \in Lists!InFlight : p # q =>
        (Lists!Landed(requests[p])' <=> Lists!Landed(requests[p]))
  BY <1>2 DEF Lists!Landed
<1>6. Lists!Landed(requests[q])' <=> Lists!Landed(r)
  BY <1>2 DEF Lists!Landed
<1>7. ASSUME NEW key \in Lists!Keys
      PROVE  Pending(key, q)' <=> Pending(key, q)
  BY <1>2, <1>5 DEF Pending
<1>8. ASSUME NEW key \in Lists!Keys, NEW p \in Lists!InFlight, Pending(key, p)
      PROVE  Pending(key, p)'
  <2>1. PICK o \in Lists!InFlight : o # p /\ Lists!Landed(requests[o]) /\ requests[o].key = key
    BY <1>8 DEF Pending
  <2> QED BY <1>2, <1>5, <1>6, <2>1 DEF Pending
<1>9. ASSUME NEW p \in Lists!InFlight, p # q
      PROVE  OwnList(requests[p], list.kind)' /\ Brings(p)'
  <2>1. requests'[p] = [requests[p] EXCEPT !.since = @ \cup {}]
    BY <1>2, <1>4, <1>9 DEF Lists!Request
  <2>2. ASSUME NEW key \in Lists!Keys, Lists!Landed(r), r.key = key
        PROVE  Pending(key, p)'
    BY <1>2, <1>6, <1>9, <2>2 DEF Pending
  <2>3. \A key \in Lists!Keys :
          key \in {} \/ Pending(key, p)' \/
             /\ ~Pending(key, p)
             /\ Says(list.kind, serverRows', secretRows', key)
                  = Says(list.kind, serverRows, secretRows, key)
    BY <1>8, <2>2
  <2> QED BY <1>4, <2>1, <2>3, BringsKept
<1>10. OwnList(requests[q], list.kind)' /\ Brings(q)'
  <2>1. OwnList(requests[q], list.kind)'
    BY <1>2
  <2>2. Brings(q)'
    BY <1>2, <1>7 DEF Brings
  <2> QED BY <2>1, <2>2
<1>11. ListRight'
  <2> SUFFICES ASSUME NEW key \in Lists!Keys, key \notin missed,
                      ~ \E p \in Lists!InFlight' :
                          Lists!Landed(requests[p])' /\ requests'[p].key = key
               PROVE  Same(list.kind, list.servers, list.secrets, serverRows', secretRows', key)
    BY DEF ListRight
  <2>1. ~ \E p \in Lists!InFlight : Lists!Landed(requests[p]) /\ requests[p].key = key
    BY <1>2, <1>5, <1>6
  <2>2. ~(Lists!Landed(r) /\ r.key = key)
    BY <1>2, <1>6
  <2> QED BY <2>1, <2>2 DEF ListsInv, ListRight, Same
<1> QED BY <1>2, <1>3, <1>9, <1>10, <1>11 DEF ListsInv

\* A click sends a request with the list as it is shown.
LEMMA SendStep ==
  ASSUME Lists!ConfigListsAssumption, ListsInv,
         NEW op \in ServerOps \cup SecretOps, NEW key \in Lists!Keys \cup {None},
         NEW name \in ServerNames \cup {None},
         op \in ServerOps => list.kind = "servers",
         op \in SecretOps => list.kind = "secrets" /\ key \in Secrets,
         op \in {"create", "update"} => name \in ServerNames,
         op \in {"update", "delete"} => key \in Lists!Ids, op = "create" => key = None,
         Lists!Send(op, key, name)
  PROVE  ListsInv'
<1>1. PICK q \in Requests \ Lists!InFlight,
           r \in {[step |-> "sent", op |-> op, key |-> key, name |-> name,
                   rows |-> list.servers, names |-> {}, since |-> {}]} :
        /\ requests' = [requests EXCEPT ![q] = r]
        /\ UNCHANGED <<serverRows, secretRows, list, missed>>
  BY DEF Lists!Send
<1>2. list.servers \subseteq Lists!Server /\ requests \in [Requests -> Lists!Request \cup {None}]
  BY DEF ListsInv, ListShapes
<1>3. r \in Lists!Request /\ r # None
  <2>1. op \in {"load", "create", "update", "delete", "upsert", "remove"}
    BY DEF ServerOps, SecretOps
  <2> QED BY <1>2, <2>1 DEF Lists!Request, Lists!ConfigListsAssumption
<1>4. /\ r.op = op /\ r.step = "sent" /\ r.key = key /\ r.name = name
      /\ r.rows = list.servers /\ ~Lists!Landed(r)
  BY <1>1 DEF Lists!Landed, ServerOps, SecretOps
<1>5. ListShapes'
  BY <1>1, <1>3 DEF ListsInv, ListShapes
<1>6. /\ Lists!InFlight' = Lists!InFlight \cup {q} /\ requests'[q] = r
      /\ \A p \in Lists!InFlight : p # q /\ requests'[p] = requests[p]
  BY <1>1, <1>2, <1>3 DEF Lists!InFlight
<1>7. OwnList(r, list.kind)
  BY <1>4 DEF OwnList, ServerOps, SecretOps
<1>8. /\ \A p \in Lists!InFlight : Lists!Landed(requests[p])' <=> Lists!Landed(requests[p])
      /\ ~Lists!Landed(requests[q])'
  BY <1>4, <1>6 DEF Lists!Landed
<1>9. ASSUME NEW k \in Lists!Keys, NEW p \in Lists!InFlight
      PROVE  Pending(k, p)' <=> Pending(k, p)
  BY <1>6, <1>8 DEF Pending
<1>10. ASSUME NEW p \in Lists!InFlight
       PROVE  OwnList(requests[p], list.kind)' /\ Brings(p)'
  <2>1. OwnList(requests[p], list.kind) /\ Brings(p)
    BY DEF ListsInv
  <2>2. requests'[p] = requests[p] /\ UNCHANGED <<serverRows, secretRows, list, missed>>
    BY <1>1, <1>6
  <2>3. Brings(p)'
    BY <1>9, <2>1, <2>2 DEF Brings
  <2> QED BY <2>1, <2>2, <2>3
<1>11. Brings(q)'
  <2>1. requests'[q].op = op /\ requests'[q].step = "sent" /\ requests'[q].rows = list.servers
    BY <1>4, <1>6
  <2>2. ToShow(requests'[q]) = list.servers
    BY <2>1 DEF ToShow
  <2>3. ASSUME NEW k \in Lists!Keys, op \in ServerOps
        PROVE  \/ Same(list.kind, list.servers, {}, serverRows, secretRows, k)
               \/ k \in missed \/ Pending(k, q)'
    <3>1. CASE Same(list.kind, list.servers, list.secrets, serverRows, secretRows, k)
      BY <2>3, <3>1 DEF Same, Says
    <3>2. CASE \E p \in Lists!InFlight : Lists!Landed(requests[p]) /\ requests[p].key = k
      BY <1>6, <1>8, <3>2 DEF Pending
    <3> QED BY <3>1, <3>2 DEF ListsInv, ListRight
  <2> QED BY <1>1, <2>1, <2>2, <2>3 DEF Brings
<1>12. ListRight'
  BY <1>1, <1>6, <1>8 DEF ListsInv, ListRight
<1> QED BY <1>1, <1>5, <1>6, <1>7, <1>10, <1>11, <1>12 DEF ListsInv

\* Lists that say the same of a key do so after the same change.
LEMMA ChangedSame ==
  ASSUME NEW r, r.op \in ServerOps, NEW rows, NEW held, NEW key,
         Same("servers", rows, {}, held, {}, key)
  PROVE  Same("servers", Lists!Changed(rows, r), {}, Lists!Changed(held, r), {}, key)
<1>1. \A s : s \in rows /\ s.id = key <=> s \in held /\ s.id = key
  BY DEF Same, Says
<1>2. CASE r.op = "create"
  BY <1>1, <1>2 DEF Same, Says, Lists!Changed
<1>3. CASE r.op = "update"
  BY <1>1, <1>3 DEF Same, Says, Lists!Changed, Lists!Row
<1>4. CASE r.op = "delete"
  BY <1>1, <1>4 DEF Same, Says, Lists!Changed
<1> QED BY <1>2, <1>3, <1>4 DEF ServerOps

\* A change of a row leaves the rows well formed, and the others as they were.
LEMMA RowsChange ==
  ASSUME NEW r, r.op \in ServerOps, r.key \in Lists!Ids,
         r.op \in {"create", "update"} => r.name \in ServerNames,
         serverRows \subseteq Lists!Server, Lists!Unique(serverRows),
         r.op \in {"create", "update"} =>
           \A s \in serverRows : s.name = r.name => r.op = "update" /\ s.id = r.key,
         r.op = "create" => \A s \in serverRows : s.id # r.key
  PROVE  /\ Lists!Changed(serverRows, r) \subseteq Lists!Server
         /\ Lists!Unique(Lists!Changed(serverRows, r))
         /\ \A key : key # r.key =>
              Says("servers", Lists!Changed(serverRows, r), {}, key)
                = Says("servers", serverRows, {}, key)
<1> DEFINE new == Lists!Row(r)
<1>1. new.id = r.key /\ new.name = r.name
  BY DEF Lists!Row
<1>2. r.op \in {"create", "update"} => new \in Lists!Server
  BY DEF Lists!Row, Lists!Server
<1> HIDE DEF new
<1>3. CASE r.op = "create"
  <2>1. Lists!Changed(serverRows, r) = serverRows \cup {new}
    BY <1>3 DEF Lists!Changed, new
  <2> QED BY <1>1, <1>2, <1>3, <2>1 DEF Lists!Unique, Says
<1>4. CASE r.op = "update"
  <2>1. Lists!Changed(serverRows, r) = {IF s.id = r.key THEN new ELSE s : s \in serverRows}
    BY <1>4 DEF Lists!Changed, new
  <2>2. Lists!Changed(serverRows, r) \subseteq Lists!Server
    BY <1>2, <1>4, <2>1
  <2>3. Lists!Unique(Lists!Changed(serverRows, r))
    BY <1>1, <1>4, <2>1 DEF Lists!Unique
  <2>4. \A key : key # r.key =>
              Says("servers", Lists!Changed(serverRows, r), {}, key)
                = Says("servers", serverRows, {}, key)
    BY <1>1, <2>1 DEF Says
  <2> QED BY <2>2, <2>3, <2>4
<1>5. CASE r.op = "delete"
  <2>1. Lists!Changed(serverRows, r) = {s \in serverRows : s.id # r.key}
    BY <1>5 DEF Lists!Changed
  <2> QED BY <2>1 DEF Lists!Unique, Says
<1> QED BY <1>3, <1>4, <1>5 DEF ServerOps

\* The server changes its row as the page will change its list.
LEMMA ServerChangesStep ==
  ASSUME Lists!ConfigListsAssumption, ListsInv, NEW q \in Lists!InFlight,
         requests[q].step = "sent", Lists!ServerChanges(q, requests[q]),
         UNCHANGED <<list, missed>>
  PROVE  ListsInv'
<1> DEFINE r == requests[q]
<1>1. r \in Lists!Request /\ OwnList(r, list.kind) /\ Brings(q) /\ ListShapes
  BY DEF ListsInv, ListShapes, Lists!InFlight
<1>2. PICK id \in Lists!Ids :
        /\ IF r.op = "create" THEN Lists!NextId(id) ELSE id = r.key
        /\ serverRows' = Lists!Changed(serverRows, [r EXCEPT !.key = id])
        /\ Lists!Become(q, [r EXCEPT !.step = "ok", !.key = id])
  BY DEF Lists!ServerChanges
<1>3. r.op \in ServerOps /\ ~Lists!Refused(r) /\ secretRows' = secretRows
  BY DEF Lists!ServerChanges, ServerOps
<1>4. PICK a \in {[r EXCEPT !.step = "ok", !.key = id]} : Lists!Become(q, a)
  BY <1>2
<1>5. a \in Lists!Request
  <2> DEFINE ok == "ok"
  <2>1. ok \in {"sent", "ok", "error"} /\ id \in Lists!Keys \cup {None}
    BY DEF Lists!Keys
  <2>2. a = [r EXCEPT !.step = ok, !.key = id]
    BY <1>4
  <2> HIDE DEF ok, r
  <2> QED BY <1>1, <2>1, <2>2 DEF Lists!Request
<1>6. /\ a.op = r.op /\ a.step = "ok" /\ a.key = id /\ a.name = r.name /\ a.rows = r.rows
      /\ a.since = r.since
  BY <1>1, <1>4 DEF Lists!Request
<1>7. serverRows' = Lists!Changed(serverRows, a)
  <2> DEFINE b == [r EXCEPT !.key = id]
  <2>1. b.op = r.op /\ b.key = id /\ b.name = r.name
    BY <1>1 DEF Lists!Request
  <2>2. Lists!Row(b) = Lists!Row(a)
    BY <1>6, <2>1 DEF Lists!Row
  <2>3. serverRows' = Lists!Changed(serverRows, b)
    BY <1>2
  <2> HIDE DEF b, r
  <2> QED BY <1>3, <1>6, <2>1, <2>2, <2>3 DEF Lists!Changed, ServerOps
<1>8. list.kind = "servers"
  BY <1>1, <1>3 DEF OwnList
<1>9. /\ a.op \in {"create", "update"} =>
           \A s \in serverRows : s.name = a.name => a.op = "update" /\ s.id = a.key
      /\ a.op = "create" => \A s \in serverRows : s.id # a.key
  <2>1. \A s \in serverRows : s.id \in Lists!Ids
    BY <1>1 DEF ListShapes, Lists!Server
  <2>2. ASSUME a.op = "create"
        PROVE  \A s \in serverRows : s.id # a.key
    BY <1>2, <1>6, <2>1, <2>2 DEF Lists!NextId, Lists!Ids
  <2>3. ASSUME a.op = "update"
        PROVE  \A s \in serverRows : s.name = a.name => s.id = a.key
    BY <1>2, <1>3, <1>6, <2>3 DEF Lists!Refused
  <2>4. ASSUME a.op = "create", NEW s \in serverRows, s.name = a.name
        PROVE  FALSE
    <3>1. s.id = r.key
      BY <1>3, <1>6, <2>4 DEF Lists!Refused
    <3>2. r.key = None /\ s.id \in Lists!Keys
      BY <1>1, <1>6, <2>1, <2>4 DEF OwnList, Lists!Keys
    <3> QED BY <3>1, <3>2 DEF Lists!ConfigListsAssumption
  <2> QED BY <2>2, <2>3, <2>4
<1> HIDE DEF r
<1>10. /\ a.key \in Lists!Ids /\ a.op \in ServerOps
       /\ a.op \in {"create", "update"} => a.name \in ServerNames
  BY <1>1, <1>2, <1>3, <1>6 DEF OwnList
<1>11. serverRows \subseteq Lists!Server /\ Lists!Unique(serverRows)
  BY <1>1 DEF ListShapes
<1>12. /\ serverRows' \subseteq Lists!Server
       /\ Lists!Unique(serverRows')
       /\ \A key : key # a.key =>
            Says("servers", serverRows', {}, key) = Says("servers", serverRows, {}, key)
  BY <1>7, <1>9, <1>10, <1>11, RowsChange
<1>13. \A key \in Lists!Keys :
         \/ Lists!Landed(a) /\ a.key = key
         \/ Says(list.kind, serverRows', secretRows', key)
              = Says(list.kind, serverRows, secretRows, key)
  BY <1>6, <1>8, <1>12 DEF Lists!Landed, Says
<1>14. ASSUME NEW key \in Lists!Keys
       PROVE  \/ Same(list.kind, ToShow(a), {}, serverRows', secretRows', key)
              \/ key \in missed \cup a.since \/ Pending(key, q)
  <2>1. \/ Same(list.kind, r.rows, {}, serverRows, secretRows, key)
        \/ key \in missed \cup r.since \/ Pending(key, q)
    BY <1>1, <1>3 DEF Brings, ToShow, r
  <2>2. ASSUME Same(list.kind, r.rows, {}, serverRows, secretRows, key)
        PROVE  Same(list.kind, ToShow(a), {}, serverRows', secretRows', key)
    <3>1. Same("servers", a.rows, {}, serverRows, {}, key)
      BY <1>6, <1>8, <2>2 DEF Same, Says
    <3>2. Same("servers", Lists!Changed(a.rows, a), {}, Lists!Changed(serverRows, a), {}, key)
      BY <1>10, <3>1, ChangedSame
    <3> QED BY <1>6, <1>7, <1>8, <3>2 DEF ToShow, Lists!ShownAfter, Same, Says
  <2> QED BY <1>6, <2>1, <2>2
<1>15. OwnList(a, list.kind)
  BY <1>6, <1>8, <1>10 DEF OwnList, ServerOps, SecretOps
<1>16. Lists!Landed(r) => Lists!Landed(a) /\ a.key = r.key
  BY <1>3 DEF Lists!Landed, ServerOps, r
<1>17. Lists!Unique(serverRows)' /\ secretRows' \subseteq Secrets
  BY <1>1, <1>3, <1>12 DEF Lists!Unique, ListShapes
<1>18. ~(a.op = "load")
  BY <1>10 DEF ServerOps
<1> QED BY <1>4, <1>5, <1>12, <1>13, <1>14, <1>15, <1>16, <1>17, <1>18, BecomeStep DEF r

\* The server reads its rows, changes a secret, or refuses.
LEMMA ServerHandlesStep ==
  ASSUME Lists!ConfigListsAssumption, ListsInv, NEW q \in Requests, Lists!ServerHandles(q)
  PROVE  ListsInv'
<1> DEFINE r == requests[q]
<1>1. q \in Lists!InFlight /\ r.step = "sent" /\ UNCHANGED <<list, missed>>
  BY DEF Lists!ServerHandles
<1>2. r \in Lists!Request /\ OwnList(r, list.kind) /\ Brings(q) /\ ListShapes
  BY <1>1 DEF ListsInv, ListShapes, Lists!InFlight
<1>3. CASE Lists!ServerLoads(q, r)
  <2>1. PICK a \in {[r EXCEPT !.step = "ok", !.rows = serverRows, !.names = secretRows]} :
          Lists!Become(q, a)
    BY <1>3 DEF Lists!ServerLoads
  <2>2. r.op = "load" /\ UNCHANGED <<serverRows, secretRows>>
    BY <1>3 DEF Lists!ServerLoads
  <2>3. a \in Lists!Request
    <3> DEFINE ok == "ok"
    <3>1. ok \in {"sent", "ok", "error"} /\ serverRows \subseteq Lists!Server
          /\ secretRows \subseteq Secrets
      BY <1>2 DEF ListShapes
    <3>2. a = [r EXCEPT !.step = ok, !.rows = serverRows, !.names = secretRows]
      BY <2>1
    <3> HIDE DEF ok, r
    <3> QED BY <1>2, <3>1, <3>2 DEF Lists!Request
  <2>4. /\ a.op = "load" /\ a.step = "ok" /\ a.key = r.key
        /\ a.rows = serverRows /\ a.names = secretRows
    BY <1>2, <2>1, <2>2 DEF Lists!Request
  <2> HIDE DEF r
  <2>5. OwnList(a, list.kind) /\ a.op \notin ServerOps
    BY <2>4 DEF OwnList, ServerOps, SecretOps
  <2>6. serverRows' \subseteq Lists!Server /\ Lists!Unique(serverRows)'
        /\ secretRows' \subseteq Secrets
    BY <1>2, <2>2 DEF ListShapes, Lists!Unique
  <2>7. \A key \in Lists!Keys :
          Same(list.kind, a.rows, a.names, serverRows', secretRows', key)
    BY <2>2, <2>4 DEF Same
  <2>8. Lists!Landed(a)
    BY <2>4 DEF Lists!Landed
  <2> QED BY <1>1, <2>1, <2>2, <2>3, <2>4, <2>5, <2>6, <2>7, <2>8, BecomeStep DEF r
<1>4. CASE Lists!ServerRefuses(q, r)
  <2>1. PICK a \in {[r EXCEPT !.step = "error"]} : Lists!Become(q, a)
    BY <1>4 DEF Lists!ServerRefuses
  <2>2. r.op \in ServerOps /\ UNCHANGED <<serverRows, secretRows>>
    BY <1>4 DEF Lists!ServerRefuses, Lists!Refused, ServerOps
  <2>3. a \in Lists!Request
    BY <1>2, <2>1 DEF Lists!Request
  <2>4. /\ a.op = r.op /\ a.step = "error" /\ a.key = r.key /\ a.name = r.name
        /\ a.rows = r.rows /\ a.since = r.since
    BY <1>2, <2>1 DEF Lists!Request
  <2>5. ToShow(a) = a.rows /\ ToShow(r) = r.rows
    BY <1>1, <2>4 DEF ToShow
  <2>6. Brings(q) /\ ~Lists!Landed(r)
    BY <1>1, <1>2, <2>2 DEF Lists!Landed, ServerOps
  <2>7. \A key \in Lists!Keys :
          \/ Same(list.kind, ToShow(a), {}, serverRows', secretRows', key)
          \/ key \in missed \cup a.since \/ Pending(key, q)
    BY <2>2, <2>4, <2>5, <2>6 DEF Brings
  <2>8. OwnList(a, list.kind) /\ a.op # "load"
    BY <1>1, <1>2, <2>2, <2>4 DEF OwnList, ServerOps
  <2> HIDE DEF r
  <2>9. serverRows' \subseteq Lists!Server /\ Lists!Unique(serverRows)'
        /\ secretRows' \subseteq Secrets
    BY <1>2, <2>2 DEF ListShapes, Lists!Unique
  <2> QED BY <1>1, <2>1, <2>2, <2>3, <2>6, <2>7, <2>8, <2>9, BecomeStep DEF r
<1>5. CASE Lists!ServerChanges(q, r)
  BY <1>1, <1>5, ServerChangesStep
<1>6. CASE Lists!SecretChanges(q, r)
  <2>1. PICK a \in {[r EXCEPT !.step = "ok"]} : Lists!Become(q, a)
    BY <1>6 DEF Lists!SecretChanges
  <2>2. r.op \in SecretOps /\ serverRows' = serverRows
        /\ secretRows' \in {secretRows \cup {r.key}, secretRows \ {r.key}}
    BY <1>6 DEF Lists!SecretChanges, SecretOps
  <2>3. a \in Lists!Request
    BY <1>2, <2>1 DEF Lists!Request
  <2>4. a.op = r.op /\ a.step = "ok" /\ a.key = r.key
    BY <1>2, <2>1 DEF Lists!Request
  <2>5. list.kind = "secrets" /\ r.key \in Secrets /\ a.op \notin ServerOps /\ a.op # "load"
    BY <1>2, <2>2, <2>4 DEF OwnList, ServerOps, SecretOps
  <2>6. OwnList(a, list.kind)
    BY <2>2, <2>4, <2>5 DEF OwnList, ServerOps, SecretOps
  <2>7. Lists!Landed(a)
    BY <2>4 DEF Lists!Landed
  <2> HIDE DEF r
  <2>8. \A key \in Lists!Keys :
          \/ Lists!Landed(a) /\ a.key = key
          \/ Says(list.kind, serverRows', secretRows', key)
               = Says(list.kind, serverRows, secretRows, key)
    BY <2>2, <2>4, <2>5, <2>7 DEF Says
  <2>9. serverRows' \subseteq Lists!Server /\ Lists!Unique(serverRows)'
        /\ secretRows' \subseteq Secrets
    BY <1>2, <2>2, <2>5 DEF ListShapes, Lists!Unique
  <2> QED BY <1>1, <2>1, <2>3, <2>4, <2>5, <2>6, <2>7, <2>8, <2>9, BecomeStep DEF r
<1> QED BY <1>3, <1>4, <1>5, <1>6 DEF Lists!ServerHandles

\* An answer to a change: the list becomes what the request was to show.
LEMMA ServerAnsweredStep ==
  ASSUME Lists!ConfigListsAssumption, ListsInv, NEW q \in Requests, Lists!ServerAnswered(q)
  PROVE  ListsInv'
<1> DEFINE r == requests[q]
<1>1. /\ q \in Lists!InFlight /\ r.step = "ok" /\ r.op \in ServerOps
      /\ Lists!Over(q, {r.key}) /\ missed' = missed \cup r.since
      /\ UNCHANGED <<serverRows, secretRows>>
  BY DEF Lists!ServerAnswered, ServerOps
<1>2. r \in Lists!Request /\ OwnList(r, list.kind) /\ Brings(q) /\ ListShapes
  BY <1>1 DEF ListsInv, ListShapes, Lists!InFlight
<1>3. list.kind = "servers" /\ r.key \in Lists!Ids
  BY <1>1, <1>2 DEF OwnList
<1>4. Lists!ShownAfter(r) \subseteq Lists!Server
  <2>1. r.rows \subseteq Lists!Server
    BY <1>2 DEF Lists!Request
  <2>2. r.op # "delete" => Lists!Row(r) \in Lists!Server
    BY <1>1, <1>2, <1>3 DEF OwnList, Lists!Row, Lists!Server, ServerOps
  <2>3. CASE r.op = "create"
    BY <2>1, <2>2, <2>3 DEF Lists!ShownAfter, Lists!Changed
  <2>4. CASE r.op = "update"
    BY <2>1, <2>2, <2>4 DEF Lists!ShownAfter, Lists!Changed
  <2>5. CASE r.op = "delete"
    BY <2>1, <2>5 DEF Lists!ShownAfter, Lists!Changed
  <2> QED BY <1>1, <2>3, <2>4, <2>5 DEF ServerOps
<1>5. /\ list' \in [kind : {list.kind}, servers : SUBSET Lists!Server,
                    secrets : SUBSET Secrets, form : Lists!Ids \cup {None}]
      /\ list'.servers = Lists!ShownAfter(r)
  <2> DEFINE form == IF r.op = "delete" THEN list.form ELSE None
             shownRows == Lists!ShownAfter(r)
  <2>1. list' = [list EXCEPT !.servers = shownRows, !.form = form]
    BY DEF Lists!ServerAnswered
  <2>2. form \in Lists!Ids \cup {None} /\ shownRows \subseteq Lists!Server
    BY <1>2, <1>4 DEF ListShapes
  <2> HIDE DEF form, shownRows
  <2>3. list'.servers = shownRows
    BY <1>2, <2>1 DEF ListShapes
  <2>4. list' \in [kind : {list.kind}, servers : SUBSET Lists!Server,
                   secrets : SUBSET Secrets, form : Lists!Ids \cup {None}]
    BY <1>2, <2>1, <2>2 DEF ListShapes
  <2> QED BY <2>3, <2>4 DEF shownRows
<1>6. ToShow(r) = list'.servers
  BY <1>1, <1>5 DEF ToShow
<1> HIDE DEF r
<1>7. \A key \in Lists!Keys :
        \/ Same(list.kind, list'.servers, list'.secrets, serverRows, secretRows, key)
        \/ key \in missed' \/ Pending(key, q)
  <2> SUFFICES ASSUME NEW key \in Lists!Keys
               PROVE  \/ Same(list.kind, list'.servers, list'.secrets, serverRows, secretRows, key)
                      \/ key \in missed' \/ Pending(key, q)
    OBVIOUS
  <2>1. \/ Same(list.kind, ToShow(r), {}, serverRows, secretRows, key)
        \/ key \in missed \cup r.since \/ Pending(key, q)
    BY <1>1, <1>2 DEF Brings, r
  <2> QED BY <1>1, <1>3, <1>6, <2>1 DEF Same, Says
<1>8. missed' \subseteq Lists!Keys /\ missed \subseteq missed'
  BY <1>1, <1>2 DEF Lists!Request, ListShapes
<1>9. {r.key} \in SUBSET (Lists!Keys \cup {None})
  BY <1>3 DEF Lists!Keys
<1>10. Lists!Landed(requests[q]) => requests[q].key \in {r.key}
  BY DEF r
<1> QED BY <1>1, <1>5, <1>7, <1>8, <1>9, <1>10, OverStep

\* A load's answer: the list becomes what the server read.
LEMMA ListLoadedStep ==
  ASSUME Lists!ConfigListsAssumption, ListsInv, NEW q \in Requests, Lists!ListLoaded(q)
  PROVE  ListsInv'
<1> DEFINE r == requests[q]
<1>1. /\ q \in Lists!InFlight /\ r.step = "ok" /\ r.op = "load"
      /\ missed' = r.since /\ UNCHANGED <<serverRows, secretRows>>
  BY DEF Lists!ListLoaded
<1>2. r \in Lists!Request /\ Brings(q) /\ ListShapes
  BY <1>1 DEF ListsInv, ListShapes, Lists!InFlight
<1>3. r.rows \subseteq Lists!Server /\ r.names \subseteq Secrets /\ missed' \subseteq Lists!Keys
      /\ r.key \in Lists!Keys \cup {None}
  BY <1>1, <1>2 DEF Lists!Request
<1>4. \A key \in Lists!Keys :
        \/ Same(list.kind, r.rows, r.names, serverRows, secretRows, key)
        \/ key \in missed' \/ Pending(key, q)
  BY <1>1, <1>2 DEF Brings
<1>5. CASE list.kind = "servers"
  <2>1. list' = [list EXCEPT !.servers = r.rows] /\ Lists!Over(q, Lists!Keys)
    BY <1>5 DEF Lists!ListLoaded
  <2> HIDE DEF r
  <2>2. /\ list' \in [kind : {list.kind}, servers : SUBSET Lists!Server,
                      secrets : SUBSET Secrets, form : Lists!Ids \cup {None}]
        /\ list'.servers = r.rows
    BY <1>2, <1>3, <2>1 DEF ListShapes
  <2>3. \A key \in Lists!Keys :
          \/ Same(list.kind, list'.servers, list'.secrets, serverRows, secretRows, key)
          \/ key \in missed' \/ Pending(key, q)
    BY <1>4, <1>5, <2>2 DEF Same, Says
  <2>4. Lists!Over(q, Lists!Keys \cup {r.key})
    BY <1>3, <2>1 DEF Lists!Over
  <2>5. /\ Lists!Keys \cup {r.key} \in SUBSET (Lists!Keys \cup {None})
        /\ Lists!Keys \subseteq Lists!Keys \cup {r.key}
    BY <1>3
  <2> QED BY <1>1, <1>3, <2>2, <2>3, <2>4, <2>5, OverStep DEF r
<1>6. CASE list.kind # "servers"
  <2>1. list' = [list EXCEPT !.secrets = r.names] /\ Lists!Over(q, {r.key})
    BY <1>6 DEF Lists!ListLoaded
  <2> HIDE DEF r
  <2>2. /\ list' \in [kind : {list.kind}, servers : SUBSET Lists!Server,
                      secrets : SUBSET Secrets, form : Lists!Ids \cup {None}]
        /\ list'.secrets = r.names
    BY <1>2, <1>3, <2>1 DEF ListShapes
  <2>3. \A key \in Lists!Keys :
          \/ Same(list.kind, list'.servers, list'.secrets, serverRows, secretRows, key)
          \/ key \in missed' \/ Pending(key, q)
    BY <1>4, <1>6, <2>2 DEF Same, Says
  <2> QED BY <1>1, <1>3, <1>6, <2>1, <2>2, <2>3, OverStep DEF r
<1> QED BY <1>5, <1>6

\* A change of a secret is answered: the list is asked for, and owes the name.
LEMMA SecretAnsweredStep ==
  ASSUME Lists!ConfigListsAssumption, ListsInv, NEW q \in Requests, Lists!SecretAnswered(q)
  PROVE  ListsInv'
<1>1. PICK a \in {[requests[q] EXCEPT !.step = "sent", !.op = "load", !.since = {}]} :
        /\ q \in Lists!InFlight /\ requests[q].op \in SecretOps
        /\ Lists!Become(q, a)
        /\ UNCHANGED <<serverRows, secretRows, list, missed>>
  BY DEF Lists!SecretAnswered, SecretOps
<1>2. requests[q] \in Lists!Request /\ ListShapes
  BY <1>1 DEF ListsInv, ListShapes, Lists!InFlight
<1>3. a \in Lists!Request
  <2> DEFINE sent == "sent"
             load == "load"
  <2>1. /\ sent \in {"sent", "ok", "error"}
        /\ load \in {"load", "create", "update", "delete", "upsert", "remove"}
    OBVIOUS
  <2>2. a = [requests[q] EXCEPT !.step = sent, !.op = load, !.since = {}]
    BY <1>1
  <2> HIDE DEF sent, load
  <2> QED BY <1>2, <2>1, <2>2 DEF Lists!Request
<1>4. a.step = "sent" /\ a.op = "load" /\ a.key = requests[q].key
  BY <1>1, <1>2 DEF Lists!Request
<1>5. OwnList(a, list.kind) /\ a.op \notin ServerOps /\ Lists!Landed(a)
  BY <1>4 DEF OwnList, ServerOps, SecretOps, Lists!Landed
<1>6. serverRows' \subseteq Lists!Server /\ Lists!Unique(serverRows)'
      /\ secretRows' \subseteq Secrets
  BY <1>1, <1>2 DEF ListShapes, Lists!Unique
<1> QED BY <1>1, <1>3, <1>4, <1>5, <1>6, BecomeStep

\* A request fails: the list may be wrong about what it has changed.
LEMMA RequestFailedStep ==
  ASSUME Lists!ConfigListsAssumption, ListsInv, NEW q \in Requests, Lists!RequestFailed(q)
  PROVE  ListsInv'
<1> DEFINE r == requests[q]
           keys == IF Lists!Landed(r) THEN {r.key} \ {None} ELSE {}
<1>1. /\ q \in Lists!InFlight /\ Lists!Over(q, keys) /\ missed' = missed \cup keys
      /\ UNCHANGED <<serverRows, secretRows, list>>
  BY DEF Lists!RequestFailed
<1>2. r \in Lists!Request /\ ListShapes
  BY <1>1 DEF ListsInv, ListShapes, Lists!InFlight
<1>3. r.key \in Lists!Keys \cup {None}
  BY <1>2 DEF Lists!Request
<1>4. missed' \subseteq Lists!Keys /\ missed \subseteq missed'
  BY <1>1, <1>2, <1>3 DEF ListShapes
<1>5. PICK all \in SUBSET (Lists!Keys \cup {None}) :
        /\ Lists!Over(q, all) /\ (Lists!Landed(r) => r.key \in all)
        /\ all \ {None} = keys
  <2>1. CASE Lists!Landed(r)
    <3>1. Lists!Over(q, {r.key})
      BY <1>1, <2>1 DEF Lists!Over
    <3> QED BY <1>3, <2>1, <3>1
  <2>2. CASE ~Lists!Landed(r)
    BY <1>1, <2>2
  <2> QED BY <2>1, <2>2
<1> HIDE DEF keys
<1>6. \A key \in Lists!Keys :
        \/ Same(list.kind, list'.servers, list'.secrets, serverRows, secretRows, key)
        \/ key \in missed' \/ Pending(key, q)
  <2> SUFFICES ASSUME NEW key \in Lists!Keys, ~Pending(key, q),
                      ~Same(list.kind, list.servers, list.secrets, serverRows, secretRows, key),
                      key \notin missed
               PROVE  key \in missed'
    BY <1>1
  <2>1. PICK p \in Lists!InFlight : Lists!Landed(requests[p]) /\ requests[p].key = key
    BY DEF ListsInv, ListRight
  <2>2. p = q
    BY <2>1 DEF Pending
  <2> QED BY <1>1, <1>5, <2>1, <2>2 DEF Lists!ConfigListsAssumption
<1>7. list' \in [kind : {list.kind}, servers : SUBSET Lists!Server,
                 secrets : SUBSET Secrets, form : Lists!Ids \cup {None}]
  BY <1>1, <1>2 DEF ListShapes
<1> QED BY <1>1, <1>4, <1>5, <1>6, <1>7, OverStep

\* Another page changes a row: every request that is under way may be late for it.
LEMMA ChangedElsewhereStep ==
  ASSUME Lists!ConfigListsAssumption, ListsInv, Lists!ChangedElsewhere
  PROVE  ListsInv'
<1>1. PICK key \in Lists!Keys :
        /\ IF list.kind = "servers"
             THEN /\ secretRows' = secretRows
                  /\ serverRows' \in {rows \in SUBSET Lists!Server : Lists!Unique(rows)}
                  /\ {s \in serverRows' : s.id # key} = {s \in serverRows : s.id # key}
             ELSE /\ serverRows' = serverRows
                  /\ secretRows' \in {secretRows \cup {key}, secretRows \ {key}}
        /\ secretRows' \subseteq Secrets
        /\ Lists!Over(None, {key}) /\ missed' = missed \cup {key}
  BY DEF Lists!ChangedElsewhere
<1>2. UNCHANGED list
  BY DEF Lists!ChangedElsewhere
<1>3. ListShapes /\ requests \in [Requests -> Lists!Request \cup {None}]
  BY DEF ListsInv, ListShapes
<1>4. \A k \in Lists!Keys : k # key =>
        Says(list.kind, serverRows', secretRows', k)
          = Says(list.kind, serverRows, secretRows, k)
  <2> SUFFICES ASSUME NEW k \in Lists!Keys, k # key
               PROVE  Says(list.kind, serverRows', secretRows', k)
                        = Says(list.kind, serverRows, secretRows, k)
    OBVIOUS
  <2>1. CASE list.kind = "servers"
    <3>1. \A s : s \in serverRows' /\ s.id # key <=> s \in serverRows /\ s.id # key
      BY <1>1, <2>1
    <3> QED BY <2>1, <3>1 DEF Says
  <2>2. CASE list.kind # "servers"
    BY <1>1, <2>2 DEF Says
  <2> QED BY <2>1, <2>2
<1>5. key # None /\ None \notin Lists!Request /\ None \notin Requests
  BY <1>1 DEF Lists!ConfigListsAssumption
<1>6. \A p \in Requests :
        requests'[p] = IF requests[p] = None THEN None
                         ELSE [requests[p] EXCEPT !.since = @ \cup {key}]
  BY <1>1, <1>5 DEF Lists!Over
<1>7. ASSUME NEW r \in Lists!Request
      PROVE  [r EXCEPT !.since = @ \cup {key}] \in Lists!Request
  BY <1>1, <1>7 DEF Lists!Request
<1>8. \A p \in Lists!InFlight : requests[p] \in Lists!Request
  BY <1>3 DEF Lists!InFlight
<1>9. Lists!InFlight' = Lists!InFlight
  <2>1. ASSUME NEW p \in Requests
        PROVE  requests'[p] = None <=> requests[p] = None
    <3>1. CASE requests[p] = None
      BY <1>6, <3>1
    <3>2. CASE requests[p] # None
      <4>1. requests[p] \in Lists!Request
        BY <1>3, <3>2
      <4>2. requests'[p] = [requests[p] EXCEPT !.since = @ \cup {key}]
        BY <1>6, <3>2
      <4>3. requests'[p] \in Lists!Request
        BY <1>7, <4>1, <4>2
      <4> QED BY <1>5, <3>2, <4>3
    <3> QED BY <3>1, <3>2
  <2> QED BY <2>1 DEF Lists!InFlight
<1>10. requests' \in [Requests -> Lists!Request \cup {None}]
  <2>1. \A p \in Requests : requests'[p] \in Lists!Request \cup {None}
    BY <1>3, <1>6, <1>7
  <2> QED BY <1>1, <2>1 DEF Lists!Over
<1>11. ListShapes'
  BY <1>1, <1>2, <1>3, <1>10 DEF ListShapes, Lists!Unique
<1>12. ASSUME NEW p \in Lists!InFlight
       PROVE  /\ requests'[p] = [requests[p] EXCEPT !.since = @ \cup {key}]
              /\ Lists!Landed(requests[p])' <=> Lists!Landed(requests[p])
              /\ requests'[p].key = requests[p].key
  <2>1. requests'[p] = [requests[p] EXCEPT !.since = @ \cup {key}]
    BY <1>6 DEF Lists!InFlight
  <2>2. /\ requests'[p].step = requests[p].step /\ requests'[p].op = requests[p].op
        /\ requests'[p].key = requests[p].key
    BY <1>8, <2>1 DEF Lists!Request
  <2> QED BY <2>1, <2>2 DEF Lists!Landed
<1>13. ASSUME NEW p \in Lists!InFlight, NEW k \in Lists!Keys
       PROVE  Pending(k, p)' <=> Pending(k, p)
  BY <1>9, <1>12 DEF Pending
<1>14. ASSUME NEW p \in Lists!InFlight
       PROVE  OwnList(requests[p], list.kind)' /\ Brings(p)'
  <2>1. \A k \in Lists!Keys :
          k \in {key} \/ Pending(k, p)' \/
             /\ ~Pending(k, p)
             /\ Says(list.kind, serverRows', secretRows', k)
                  = Says(list.kind, serverRows, secretRows, k)
    BY <1>4, <1>13
  <2>2. missed \subseteq missed' /\ list'.kind = list.kind
    BY <1>1, <1>2
  <2> QED BY <1>8, <1>12, <2>1, <2>2, BringsKept
<1>15. ListRight'
  BY <1>1, <1>2, <1>4, <1>9, <1>12 DEF ListsInv, ListRight, Same
<1> QED BY <1>9, <1>11, <1>14, <1>15 DEF ListsInv

\* Every step keeps the list to what its requests say of it.
LEMMA ListsStep ==
  ASSUME Lists!ConfigListsAssumption, ListsInv, [Lists!Next]_(Lists!vars)
  PROVE  ListsInv'
<1>0. ListShapes
  BY DEF ListsInv
<1>1. ASSUME UNCHANGED <<serverRows, secretRows, requests, missed>>,
             list'.kind = list.kind, list'.servers = list.servers,
             list'.secrets = list.secrets,
             list' \in [kind : {"servers", "secrets"}, servers : SUBSET Lists!Server,
                        secrets : SUBSET Secrets, form : Lists!Ids \cup {None}]
      PROVE  ListsInv'
  <2>1. ListShapes'
    BY <1>0, <1>1 DEF ListShapes, Lists!Unique
  <2>2. \A q : \A key : Pending(key, q)' <=> Pending(key, q)
    BY <1>1 DEF Pending, Lists!InFlight, Lists!Landed
  <2>3. \A q \in Lists!InFlight : Brings(q)'
    BY <1>1, <2>2 DEF ListsInv, Brings
  <2>4. ListRight'
    BY <1>1 DEF ListsInv, ListRight, Lists!InFlight, Lists!Landed
  <2>5. Lists!InFlight' = Lists!InFlight
    BY <1>1 DEF Lists!InFlight
  <2> QED BY <1>1, <2>1, <2>3, <2>4, <2>5 DEF ListsInv
<1>2. CASE Lists!EditServer
  <2>1. PICK s \in list.servers : list' = [list EXCEPT !.form = s.id]
    BY <1>2 DEF Lists!EditServer
  <2>2. s.id \in Lists!Ids
    BY <1>0, <2>1 DEF ListShapes, Lists!Server
  <2>3. /\ list'.kind = list.kind /\ list'.servers = list.servers
        /\ list'.secrets = list.secrets
        /\ list' \in [kind : {"servers", "secrets"}, servers : SUBSET Lists!Server,
                      secrets : SUBSET Secrets, form : Lists!Ids \cup {None}]
    BY <1>0, <2>1, <2>2 DEF ListShapes
  <2> QED BY <1>1, <1>2, <2>3 DEF Lists!EditServer
<1>3. CASE Lists!SaveServer
  <2>1. PICK n \in ServerNames :
          \/ Lists!Send("create", None, n)
          \/ list.form # None /\ Lists!Send("update", list.form, n)
    BY <1>3 DEF Lists!SaveServer
  <2>2. list.kind = "servers" /\ (list.form # None => list.form \in Lists!Ids)
    BY <1>0, <1>3 DEF Lists!SaveServer, ListShapes
  <2>3. CASE Lists!Send("create", None, n)
    BY <2>2, <2>3, SendStep DEF ServerOps, SecretOps
  <2>4. CASE list.form # None /\ Lists!Send("update", list.form, n)
    BY <2>2, <2>4, SendStep DEF ServerOps, SecretOps, Lists!Keys
  <2> QED BY <2>1, <2>3, <2>4
<1>4. CASE Lists!DeleteServer
  <2>1. PICK s \in list.servers : Lists!Send("delete", s.id, None)
    BY <1>4 DEF Lists!DeleteServer
  <2>2. s.id \in Lists!Ids /\ list.kind = "servers"
    BY <1>0, <1>4, <2>1 DEF Lists!DeleteServer, ListShapes, Lists!Server
  <2> QED BY <2>1, <2>2, SendStep DEF ServerOps, SecretOps, Lists!Keys
<1>5. CASE Lists!AddSecret \/ Lists!RemoveSecret
  <2>1. list.secrets \subseteq Secrets
    BY <1>0 DEF ListShapes
  <2> QED BY <1>5, <2>1, SendStep
      DEF Lists!AddSecret, Lists!RemoveSecret, ServerOps, SecretOps, Lists!Keys
<1>6. ASSUME NEW q \in Requests,
             \/ Lists!ServerHandles(q) \/ Lists!ListLoaded(q) \/ Lists!ServerAnswered(q)
             \/ Lists!SecretAnswered(q) \/ Lists!RequestFailed(q)
      PROVE  ListsInv'
  BY <1>6, ServerHandlesStep, ListLoadedStep, ServerAnsweredStep, SecretAnsweredStep,
     RequestFailedStep
<1>7. CASE Lists!ChangedElsewhere
  BY <1>7, ChangedElsewhereStep
<1>8. CASE UNCHANGED Lists!vars
  BY <1>0, <1>1, <1>8 DEF Lists!vars, ListShapes
<1> QED BY <1>2, <1>3, <1>4, <1>5, <1>6, <1>7, <1>8 DEF Lists!Next

\* However requests overlap and whichever answers are lost, a list is wrong about no row
\* but those whose answer was lost, or overtaken by the answer to an older request, or
\* that another page has changed (McpServerList.tsx:27-73, SecretsEditor.tsx:13-33).
THEOREM ListsMissOnlyLostRows == Spec => []OnlyMissedRowsAreWrong
<1>1. Init => ListsInv
  BY ListsInit, StoreAssumption DEF Init
<1>2. ListsInv /\ [Next]_vars => ListsInv'
  BY ListsStep, ListsFrame, StoreAssumption
<1>3. ListsInv => OnlyMissedRowsAreWrong
  <2> SUFFICES ASSUME ListsInv, NEW key \in Lists!Keys
               PROVE  \/ Lists!Agrees(list.servers, list.secrets, key) \/ key \in missed
                      \/ \E q \in Lists!InFlight :
                           Lists!Landed(requests[q]) /\ requests[q].key = key
    BY DEF OnlyMissedRowsAreWrong, Lists!OnlyMissedRowsAreWrong
  <2>1. Same(list.kind, list.servers, list.secrets, serverRows, secretRows, key)
          => Lists!Agrees(list.servers, list.secrets, key)
    BY DEF Same, Says, Lists!Agrees
  <2> QED BY <2>1 DEF ListsInv, ListRight
<1> QED BY <1>1, <1>2, <1>3, PTL DEF Spec

-----------------------------------------------------------------------------
\* The images move by their own steps, or not at all.
LEMMA ImagesFrame == [Next]_vars => [Image!Next]_(Image!vars)
BY DEF Next, vars, imageVars, Image!vars

Working(l) == launch[l].pc \notin {"idle", "over"}

LaunchType ==
  [pc : {"idle", "fetching", "resolving", "base", "building", "post", "creating",
         "running", "failed", "over"},
   dev : BOOLEAN, override : Overrides \cup {None}, image : Image!Tag \cup {None}]

SweepType ==
  [pc : {"idle", "containers", "images", "deleting"}, reachable : SUBSET Image!Tag,
   inUse : SUBSET Image!Tag, delete : SUBSET Image!Tag]

ImageShapes ==
  /\ override \in Overrides /\ repo \in BOOLEAN
  /\ images \in [Image!Tag -> {"none", "new", "old", "used"}]
  /\ launch \in [Launches -> LaunchType] /\ sweep \in [Sweeps -> SweepType]
  /\ edited \subseteq Launches \cup Sweeps
  /\ \A l \in Launches : Working(l) => launch[l].override \in Overrides

\* A launch that no edit concerns has read the row as it is, and meets no sweep that
\* has not.
LaunchesRead ==
  \A l \in Launches : Working(l) /\ l \notin edited =>
    launch[l].override = override /\ edited \cap Sweeps = {}

\* A sweep that no edit concerns spares what the project's row leads to.
SweepsSpare ==
  \A s \in Sweeps \ edited :
    /\ sweep[s].pc \in {"containers", "images"} => Image!Reachable \subseteq sweep[s].reachable
    /\ sweep[s].pc = "deleting" => sweep[s].delete \cap Image!Reachable = {}

ImagesInv == ImageShapes /\ LaunchesRead /\ SweepsSpare /\ Image!LaunchHasImage

LEMMA ImagesInit ==
  ASSUME Image!Init
  PROVE  ImagesInv
<1>1. Image!IdleLaunch \in LaunchType /\ Image!IdleLaunch.pc = "idle"
  BY DEF Image!IdleLaunch, LaunchType
<1>2. Image!IdleSweep \in SweepType /\ Image!IdleSweep.pc = "idle"
  BY DEF Image!IdleSweep, SweepType
<1>3. ImageShapes
  BY <1>1, <1>2 DEF Image!Init, ImageShapes, Working
<1> QED
  BY <1>1, <1>2, <1>3
  DEF Image!Init, ImagesInv, LaunchesRead, SweepsSpare, Working, Image!LaunchHasImage

\* The tags of a configuration are tags, and those of one without a .devcontainer
\* are reachable if the row has its override.
LEMMA TagsOf ==
  ASSUME ImageShapes, NEW l \in Launches, Working(l)
  PROVE  /\ Image!Final(Image!HashOf(l)) \in Image!Tag
         /\ Image!Base(Image!HashOf(l)) \in Image!Tag
         /\ ~launch[l].dev /\ launch[l].override = override =>
              {Image!Final(Image!HashOf(l)),
                Image!Base(Image!HashOf(l))} \subseteq Image!Reachable
<1>1. Image!HashOf(l) \in Image!Hash
  BY DEF ImageShapes, LaunchType, Image!HashOf, Image!Hash
<1>2. ~launch[l].dev /\ launch[l].override = override =>
        Image!HashOf(l) = [dev |-> FALSE, override |-> override]
  BY DEF ImageShapes, LaunchType, Image!HashOf
<1> QED BY <1>1, <1>2 DEF Image!Final, Image!Base, Image!Tag, Image!Reachable

\* A step of one launch keeps the invariant if it finds the images it goes on to
\* use, and takes none away.
LEMMA LaunchStep ==
  ASSUME ImagesInv, NEW l \in Launches, NEW r \in LaunchType,
         launch' = [launch EXCEPT ![l] = r],
         images' \in [Image!Tag -> {"none", "new", "old", "used"}],
         \A t \in Image!Tag : images[t] # "none" => images'[t] # "none",
         UNCHANGED <<override, repo, sweep>>,
         edited' = edited,
         r.pc \notin {"idle", "over"} =>
           Working(l) /\ r.override = launch[l].override
           /\ (r.dev = launch[l].dev \/ r.pc = "resolving"),
         r.pc = "creating" => images'[Image!Final(Image!HashOf(l))] # "none",
         r.pc = "post" => images'[Image!Base(Image!HashOf(l))] # "none"
  PROVE  ImagesInv'
<1>1. launch'[l] = r /\ \A m \in Launches \ {l} : launch'[m] = launch[m]
  BY DEF ImagesInv, ImageShapes
<1>2. ImageShapes'
  BY <1>1 DEF ImagesInv, ImageShapes, Working
<1>3. LaunchesRead'
  BY <1>1 DEF ImagesInv, LaunchesRead, Working
<1>4. SweepsSpare'
  BY DEF ImagesInv, SweepsSpare, Image!Reachable
<1>5. ASSUME NEW m \in Launches, ~launch'[m].dev, m \notin edited'
      PROVE  /\ launch'[m].pc = "creating" => images'[Image!Final(Image!HashOf(m)')] # "none"
             /\ launch'[m].pc = "post" => images'[Image!Base(Image!HashOf(m)')] # "none"
  <2>1. CASE m = l
    <3>1. r.pc \in {"creating", "post"} => Image!HashOf(l)' = Image!HashOf(l)
      BY <1>1 DEF Image!HashOf
    <3> QED BY <1>1, <2>1, <3>1
  <2>2. CASE m # l
    <3>1. launch'[m] = launch[m] /\ Image!HashOf(m)' = Image!HashOf(m)
      BY <1>1, <2>2 DEF Image!HashOf
    <3>2. Working(m) =>
            {Image!Final(Image!HashOf(m)), Image!Base(Image!HashOf(m))} \subseteq Image!Tag
      BY TagsOf DEF ImagesInv
    <3>3. launch[m].pc \in {"creating", "post"} => Working(m)
      BY DEF Working
    <3> QED BY <1>5, <3>1, <3>2, <3>3 DEF ImagesInv, Image!LaunchHasImage
  <2> QED BY <2>1, <2>2
<1>6. Image!LaunchHasImage'
  BY <1>5 DEF Image!LaunchHasImage, Image!Final, Image!Base
<1> QED BY <1>2, <1>3, <1>4, <1>6 DEF ImagesInv

\* The steps of a launch.
LEMMA LaunchSteps ==
  ASSUME ImagesInv, NEW l \in Launches,
         \/ Image!LaunchBegins(l) \/ Image!DevcontainerFetched(l) \/ Image!Resolve(l)
         \/ Image!ResolveBase(l) \/ Image!BaseBuilt(l) \/ Image!PostLayerBuilt(l)
         \/ Image!ContainerCreated(l) \/ Image!LaunchEnds(l)
  PROVE  ImagesInv'
<1>0. ImageShapes /\ launch[l] \in LaunchType
  BY DEF ImagesInv, ImageShapes
<1>1. CASE Image!LaunchBegins(l)
  <2>1. PICK r \in {[Image!IdleLaunch EXCEPT !.pc = "fetching", !.override = override]} :
          launch' = [launch EXCEPT ![l] = r]
    BY <1>1 DEF Image!LaunchBegins, Image!Set
  <2>2. r \in LaunchType /\ r.pc = "fetching" /\ r.override = override
    BY <1>0, <2>1 DEF Image!IdleLaunch, LaunchType, ImageShapes
  <2>3. launch'[l] = r /\ \A m \in Launches \ {l} : launch'[m] = launch[m]
    BY <1>0, <2>1 DEF ImageShapes
  <2>4. /\ UNCHANGED <<override, repo, images, sweep>>
        /\ edited' = IF edited \cap Sweeps # {} THEN edited \cup {l} ELSE edited
    BY <1>1 DEF Image!LaunchBegins
  <2>5. ImageShapes'
    BY <1>0, <2>1, <2>2, <2>3, <2>4 DEF ImageShapes, Working
  <2>6. LaunchesRead'
    BY <2>2, <2>3, <2>4, StoreAssumption
    DEF ImagesInv, LaunchesRead, Working, Image!ImagesAssumption
  <2>7. SweepsSpare'
    BY <2>4 DEF ImagesInv, SweepsSpare, Image!Reachable
  <2>8. Image!LaunchHasImage'
    <3> SUFFICES ASSUME NEW m \in Launches, ~launch'[m].dev, m \notin edited'
                 PROVE  /\ launch'[m].pc = "creating"
                             => images'[Image!Final(Image!HashOf(m)')] # "none"
                        /\ launch'[m].pc = "post"
                             => images'[Image!Base(Image!HashOf(m)')] # "none"
      BY DEF Image!LaunchHasImage, Image!Final, Image!Base
    <3>1. CASE m = l
      BY <2>2, <2>3, <3>1
    <3>2. CASE m # l
      <4>1. launch'[m] = launch[m] /\ Image!HashOf(m)' = Image!HashOf(m)
        BY <2>3, <3>2 DEF Image!HashOf
      <4> QED BY <2>4, <4>1 DEF ImagesInv, Image!LaunchHasImage
    <3> QED BY <3>1, <3>2
  <2> QED BY <2>5, <2>6, <2>7, <2>8 DEF ImagesInv
<1>2. CASE Image!DevcontainerFetched(l)
  <2>0. PICK dev \in BOOLEAN :
          launch' = [launch EXCEPT ![l] = [launch[l] EXCEPT !.pc = "resolving", !.dev = dev]]
    BY <1>0, <1>2 DEF Image!DevcontainerFetched, Image!Set, ImageShapes
  <2>1. PICK r \in {[launch[l] EXCEPT !.pc = "resolving", !.dev = dev]} :
          launch' = [launch EXCEPT ![l] = r]
    BY <2>0
  <2>2. /\ r \in LaunchType /\ r.pc = "resolving" /\ r.override = launch[l].override
        /\ Working(l)
    BY <1>0, <1>2, <2>1 DEF LaunchType, Working, Image!DevcontainerFetched
  <2> QED
    BY <1>0, <1>2, <2>1, <2>2, LaunchStep DEF Image!DevcontainerFetched, ImageShapes
<1>3. CASE Image!Resolve(l)
  <2>1. PICK r \in {[launch[l] EXCEPT !.pc =
                      IF images[Image!Final(Image!HashOf(l))] # "none"
                        THEN "creating" ELSE "base"]} :
          launch' = [launch EXCEPT ![l] = r]
    BY <1>3 DEF Image!Resolve, Image!Set
  <2>2. /\ r \in LaunchType /\ r.pc \in {"creating", "base"} /\ Working(l)
        /\ r.override = launch[l].override /\ r.dev = launch[l].dev
        /\ r.pc = "creating" => images[Image!Final(Image!HashOf(l))] # "none"
    BY <1>0, <1>3, <2>1 DEF LaunchType, Working, Image!Resolve
  <2> QED
    BY <1>0, <1>3, <2>1, <2>2, LaunchStep DEF Image!Resolve, ImageShapes
<1>4. CASE Image!ResolveBase(l)
  <2>1. PICK r \in {[launch[l] EXCEPT !.pc =
                      IF images[Image!Base(Image!HashOf(l))] # "none"
                        THEN "post" ELSE "building"]} :
          launch' = [launch EXCEPT ![l] = r]
    BY <1>4 DEF Image!ResolveBase, Image!Set
  <2>2. /\ r \in LaunchType /\ r.pc \in {"post", "building"} /\ Working(l)
        /\ r.override = launch[l].override /\ r.dev = launch[l].dev
        /\ r.pc = "post" => images[Image!Base(Image!HashOf(l))] # "none"
    BY <1>0, <1>4, <2>1 DEF LaunchType, Working, Image!ResolveBase
  <2> QED
    BY <1>0, <1>4, <2>1, <2>2, LaunchStep DEF Image!ResolveBase, ImageShapes
<1>5. ASSUME \/ Image!BaseBuilt(l) /\ Image!Fails(l)
             \/ Image!PostLayerBuilt(l) /\ Image!Fails(l)
             \/ Image!ContainerCreated(l) /\ Image!Fails(l),
             images' = images
      PROVE  ImagesInv'
  <2>1. PICK r \in {[launch[l] EXCEPT !.pc = "failed"]} : launch' = [launch EXCEPT ![l] = r]
    BY <1>5 DEF Image!Fails, Image!Set
  <2>2. /\ r \in LaunchType /\ r.pc = "failed" /\ Working(l)
        /\ r.override = launch[l].override /\ r.dev = launch[l].dev
    BY <1>0, <1>5, <2>1
    DEF LaunchType, Working, Image!BaseBuilt, Image!PostLayerBuilt, Image!ContainerCreated
  <2>3. UNCHANGED <<override, repo, sweep, edited>>
    BY <1>5 DEF Image!BaseBuilt, Image!PostLayerBuilt, Image!ContainerCreated
  <2> QED
    BY <1>0, <1>5, <2>1, <2>2, <2>3, LaunchStep DEF ImageShapes
<1>6. ASSUME Image!BaseBuilt(l),
             images' = [images EXCEPT ![Image!Base(Image!HashOf(l))] = "new"],
             Image!Set(l, [launch[l] EXCEPT !.pc = "post"])
      PROVE  ImagesInv'
  <2>1. PICK r \in {[launch[l] EXCEPT !.pc = "post"]} : launch' = [launch EXCEPT ![l] = r]
    BY <1>6 DEF Image!Set
  <2>2. /\ r \in LaunchType /\ r.pc = "post" /\ Working(l)
        /\ r.override = launch[l].override /\ r.dev = launch[l].dev
    BY <1>0, <1>6, <2>1 DEF LaunchType, Working, Image!BaseBuilt
  <2>3. Image!Base(Image!HashOf(l)) \in Image!Tag
    BY <1>0, <2>2, TagsOf
  <2>4. /\ images' \in [Image!Tag -> {"none", "new", "old", "used"}]
        /\ images'[Image!Base(Image!HashOf(l))] # "none"
        /\ \A t \in Image!Tag : images[t] # "none" => images'[t] # "none"
    BY <1>0, <1>6, <2>3 DEF ImageShapes
  <2> QED
    BY <1>6, <2>1, <2>2, <2>4, LaunchStep DEF Image!BaseBuilt
<1>7. ASSUME Image!PostLayerBuilt(l),
             images' = [images EXCEPT ![Image!Final(Image!HashOf(l))] = "new"],
             Image!Set(l, [launch[l] EXCEPT !.pc = "creating"])
      PROVE  ImagesInv'
  <2>1. PICK r \in {[launch[l] EXCEPT !.pc = "creating"]} : launch' = [launch EXCEPT ![l] = r]
    BY <1>7 DEF Image!Set
  <2>2. /\ r \in LaunchType /\ r.pc = "creating" /\ Working(l)
        /\ r.override = launch[l].override /\ r.dev = launch[l].dev
    BY <1>0, <1>7, <2>1 DEF LaunchType, Working, Image!PostLayerBuilt
  <2>3. Image!Final(Image!HashOf(l)) \in Image!Tag
    BY <1>0, <2>2, TagsOf
  <2>4. /\ images' \in [Image!Tag -> {"none", "new", "old", "used"}]
        /\ images'[Image!Final(Image!HashOf(l))] # "none"
        /\ \A t \in Image!Tag : images[t] # "none" => images'[t] # "none"
    BY <1>0, <1>7, <2>3 DEF ImageShapes
  <2> QED
    BY <1>7, <2>1, <2>2, <2>4, LaunchStep DEF Image!PostLayerBuilt
<1>8. ASSUME Image!ContainerCreated(l), images[Image!Final(Image!HashOf(l))] # "none"
      PROVE  ImagesInv'
  <2> DEFINE t == Image!Final(Image!HashOf(l))
  <2>1. PICK r \in {[launch[l] EXCEPT !.pc = "running", !.image = t]} :
          launch' = [launch EXCEPT ![l] = r]
    BY <1>8 DEF Image!ContainerCreated, Image!Set
  <2>2. Working(l)
    BY <1>8 DEF Working, Image!ContainerCreated
  <2>3. t \in Image!Tag
    BY <1>0, <2>2, TagsOf
  <2>4. /\ r \in LaunchType /\ r.pc = "running"
        /\ r.override = launch[l].override /\ r.dev = launch[l].dev
    BY <1>0, <2>1, <2>3 DEF LaunchType
  <2>5. images' = [images EXCEPT ![t] = IF @ = "old" THEN "used" ELSE @]
    BY <1>8 DEF Image!ContainerCreated
  <2> HIDE DEF t
  <2>6. /\ images' \in [Image!Tag -> {"none", "new", "old", "used"}]
        /\ \A u \in Image!Tag : images[u] # "none" => images'[u] # "none"
    BY <1>0, <2>3, <2>5 DEF ImageShapes
  <2>7. UNCHANGED <<override, repo, sweep, edited>>
    BY <1>8 DEF Image!ContainerCreated
  <2> QED
    BY <2>1, <2>2, <2>4, <2>6, <2>7, LaunchStep
<1>9. CASE Image!LaunchEnds(l)
  <2>1. PICK r \in {[Image!IdleLaunch EXCEPT !.pc = "over"]} :
               launch' = [launch EXCEPT ![l] = r]
    BY <1>9 DEF Image!LaunchEnds, Image!Set
  <2>2. r \in LaunchType /\ r.pc = "over"
    BY <2>1 DEF Image!IdleLaunch, LaunchType
  <2>3. launch'[l] = r /\ \A m \in Launches \ {l} : launch'[m] = launch[m]
    BY <1>0, <2>1 DEF ImageShapes
  <2>4. /\ UNCHANGED <<override, repo, images, sweep>> /\ edited' = edited \ {l}
        /\ l \notin Sweeps
    BY <1>9, StoreAssumption DEF Image!LaunchEnds, Image!ImagesAssumption
  <2>5. ImageShapes'
    BY <1>0, <2>1, <2>2, <2>3, <2>4 DEF ImageShapes, Working
  <2>6. LaunchesRead'
    BY <2>2, <2>3, <2>4 DEF ImagesInv, LaunchesRead, Working
  <2>7. SweepsSpare'
    BY <2>4 DEF ImagesInv, SweepsSpare, Image!Reachable
  <2>8. Image!LaunchHasImage'
    <3> SUFFICES ASSUME NEW m \in Launches, ~launch'[m].dev, m \notin edited'
                 PROVE  /\ launch'[m].pc = "creating"
                             => images'[Image!Final(Image!HashOf(m)')] # "none"
                        /\ launch'[m].pc = "post"
                             => images'[Image!Base(Image!HashOf(m)')] # "none"
      BY DEF Image!LaunchHasImage, Image!Final, Image!Base
    <3>1. CASE m = l
      BY <2>2, <2>3, <3>1
    <3>2. CASE m # l
      <4>1. launch'[m] = launch[m] /\ Image!HashOf(m)' = Image!HashOf(m)
        BY <2>3, <3>2 DEF Image!HashOf
      <4> QED BY <2>4, <3>2, <4>1 DEF ImagesInv, Image!LaunchHasImage
    <3> QED BY <3>1, <3>2
  <2> QED BY <2>5, <2>6, <2>7, <2>8 DEF ImagesInv
<1>10. CASE Image!BaseBuilt(l)
  BY <1>5, <1>6, <1>10 DEF Image!BaseBuilt
<1>11. CASE Image!PostLayerBuilt(l)
  BY <1>5, <1>7, <1>11 DEF Image!PostLayerBuilt
<1>12. CASE Image!ContainerCreated(l)
  BY <1>5, <1>8, <1>12 DEF Image!ContainerCreated
<1> QED BY <1>1, <1>2, <1>3, <1>4, <1>9, <1>10, <1>11, <1>12

\* A step of a sweep that takes nothing away keeps the invariant.
LEMMA SweepStep ==
  ASSUME ImagesInv, NEW s \in Sweeps, NEW r \in SweepType,
         sweep' = [sweep EXCEPT ![s] = r],
         UNCHANGED <<override, repo, images, launch>>,
         edited' \in {edited, edited \ {s}},
         s \notin edited' =>
           /\ r.pc \in {"containers", "images"} => Image!Reachable \subseteq r.reachable
           /\ r.pc = "deleting" => r.delete \cap Image!Reachable = {}
  PROVE  ImagesInv'
<1>1. sweep'[s] = r /\ \A u \in Sweeps \ {s} : sweep'[u] = sweep[u]
  BY DEF ImagesInv, ImageShapes
<1>2. ImageShapes'
  BY DEF ImagesInv, ImageShapes, Working
<1>3. s \notin Launches
  BY StoreAssumption DEF Image!ImagesAssumption
<1>4. LaunchesRead'
  BY <1>3 DEF ImagesInv, LaunchesRead, Working
<1>5. SweepsSpare'
  <2> SUFFICES ASSUME NEW u \in Sweeps, u \notin edited'
               PROVE  /\ sweep'[u].pc \in {"containers", "images"}
                           => Image!Reachable \subseteq sweep'[u].reachable
                      /\ sweep'[u].pc = "deleting"
                           => sweep'[u].delete \cap Image!Reachable = {}
    BY DEF SweepsSpare, Image!Reachable
  <2>1. CASE u = s
    BY <1>1, <2>1
  <2>2. CASE u # s
    BY <1>1, <2>2 DEF ImagesInv, SweepsSpare
  <2> QED BY <2>1, <2>2
<1>6. Image!LaunchHasImage'
  BY <1>3 DEF ImagesInv, Image!LaunchHasImage, Image!HashOf, Image!Final, Image!Base
<1> QED BY <1>2, <1>4, <1>5, <1>6 DEF ImagesInv

\* An image a launch counts on is not among those that are removed.
LEMMA RemovedStep ==
  ASSUME ImagesInv, NEW s \in Sweeps, NEW t \in Image!Tag, Image!ImageRemoved(s, t)
  PROVE  ImagesInv'
<1>1. /\ ImageShapes /\ sweep[s] \in SweepType /\ sweep[s].pc = "deleting"
      /\ t \in sweep[s].delete
      /\ UNCHANGED <<override, repo, launch, edited>>
  BY DEF ImagesInv, ImageShapes, Image!ImageRemoved
<1>2. PICK r \in {[sweep[s] EXCEPT !.delete = @ \ {t}]} : sweep' = [sweep EXCEPT ![s] = r]
  BY DEF Image!ImageRemoved, Image!SetSweep
<1>3. /\ r \in SweepType /\ r.pc = "deleting" /\ r.delete = sweep[s].delete \ {t}
      /\ r.reachable = sweep[s].reachable
  BY <1>1, <1>2 DEF SweepType
<1>4. sweep'[s] = r /\ \A u \in Sweeps \ {s} : sweep'[u] = sweep[u]
  BY <1>1, <1>2 DEF ImageShapes
<1>5. /\ images' \in [Image!Tag -> {"none", "new", "old", "used"}]
      /\ \A u \in Image!Tag : u # t => images'[u] = images[u]
  BY <1>1 DEF Image!ImageRemoved, ImageShapes
<1>6. ImageShapes'
  BY <1>1, <1>2, <1>3, <1>5 DEF ImageShapes, Working
<1>7. LaunchesRead'
  BY <1>1 DEF ImagesInv, LaunchesRead, Working
<1>8. SweepsSpare'
  <2> SUFFICES ASSUME NEW u \in Sweeps, u \notin edited
               PROVE  /\ sweep'[u].pc \in {"containers", "images"}
                           => Image!Reachable \subseteq sweep'[u].reachable
                      /\ sweep'[u].pc = "deleting"
                           => sweep'[u].delete \cap Image!Reachable = {}
    BY <1>1 DEF SweepsSpare, Image!Reachable
  <2>1. CASE u = s
    BY <1>1, <1>3, <1>4, <2>1 DEF ImagesInv, SweepsSpare
  <2>2. CASE u # s
    BY <1>4, <2>2 DEF ImagesInv, SweepsSpare
  <2> QED BY <2>1, <2>2
<1>9. Image!LaunchHasImage'
  <2> SUFFICES ASSUME NEW l \in Launches, ~launch[l].dev, l \notin edited,
                      launch[l].pc \in {"creating", "post"}
               PROVE  /\ images'[Image!Final(Image!HashOf(l))]
                            = images[Image!Final(Image!HashOf(l))]
                      /\ images'[Image!Base(Image!HashOf(l))]
                            = images[Image!Base(Image!HashOf(l))]
    BY <1>1 DEF ImagesInv, Image!LaunchHasImage, Image!HashOf, Image!Final, Image!Base
  <2>1. Working(l)
    BY DEF Working
  <2>2. launch[l].override = override /\ s \notin edited
    BY <2>1 DEF ImagesInv, LaunchesRead
  <2>3. {Image!Final(Image!HashOf(l)), Image!Base(Image!HashOf(l))}
          \subseteq Image!Reachable \cap Image!Tag
    BY <1>1, <2>1, <2>2, TagsOf
  <2>4. t \notin Image!Reachable
    BY <1>1, <2>2 DEF ImagesInv, SweepsSpare
  <2> QED BY <1>5, <2>3, <2>4
<1> QED BY <1>6, <1>7, <1>8, <1>9 DEF ImagesInv

\* Every step keeps what the launches count on.
LEMMA ImagesStep ==
  ASSUME ImagesInv, [Image!Next]_(Image!vars)
  PROVE  ImagesInv'
<1>0. ImageShapes
  BY DEF ImagesInv
<1>1. ASSUME NEW l \in Launches,
             \/ Image!LaunchBegins(l) \/ Image!DevcontainerFetched(l) \/ Image!Resolve(l)
             \/ Image!ResolveBase(l) \/ Image!BaseBuilt(l) \/ Image!PostLayerBuilt(l)
             \/ Image!ContainerCreated(l) \/ Image!LaunchEnds(l)
      PROVE  ImagesInv'
  BY <1>1, LaunchSteps
<1>2. ASSUME NEW s \in Sweeps, Image!SweepBegins(s)
      PROVE  ImagesInv'
  <2>1. PICK r \in {[Image!IdleSweep EXCEPT !.pc = "containers",
                                            !.reachable = Image!Reachable]} :
          sweep' = [sweep EXCEPT ![s] = r]
    BY <1>2 DEF Image!SweepBegins, Image!SetSweep
  <2>2. Image!Reachable \subseteq Image!Tag
    <3> DEFINE h == [dev |-> FALSE, override |-> override]
    <3>1. h \in Image!Hash
      BY <1>0 DEF ImageShapes, Image!Hash
    <3>2. Image!Reachable = {<<"final", h>>, <<"base", h>>}
      BY DEF Image!Reachable, Image!Final, Image!Base
    <3> HIDE DEF h
    <3> QED BY <3>1, <3>2 DEF Image!Tag
  <2>3. r \in SweepType /\ r.pc = "containers" /\ r.reachable = Image!Reachable
    BY <2>1, <2>2 DEF Image!IdleSweep, SweepType
  <2>4. UNCHANGED <<override, repo, images, launch>> /\ edited' = edited \ {s}
    BY <1>2 DEF Image!SweepBegins
  <2> QED BY <2>1, <2>3, <2>4, SweepStep
<1>3. ASSUME NEW s \in Sweeps, Image!ContainersListed(s)
      PROVE  ImagesInv'
  <2>1. PICK r \in {[sweep[s] EXCEPT !.pc = "images", !.inUse = Image!InUse]} :
          sweep' = [sweep EXCEPT ![s] = r]
    BY <1>3 DEF Image!ContainersListed, Image!SetSweep
  <2>2. Image!InUse \subseteq Image!Tag /\ sweep[s] \in SweepType
    BY <1>0 DEF ImageShapes, LaunchType, Image!InUse
  <2>3. r \in SweepType /\ r.pc = "images" /\ r.reachable = sweep[s].reachable
    BY <2>1, <2>2 DEF SweepType
  <2>4. UNCHANGED <<override, repo, images, launch, edited>> /\ sweep[s].pc = "containers"
    BY <1>3 DEF Image!ContainersListed
  <2>5. s \notin edited => Image!Reachable \subseteq r.reachable
    BY <2>3, <2>4 DEF ImagesInv, SweepsSpare
  <2> QED BY <2>1, <2>3, <2>4, <2>5, SweepStep
<1>4. ASSUME NEW s \in Sweeps, Image!ImagesListed(s)
      PROVE  ImagesInv'
  <2>1. PICK r \in {[Image!IdleSweep EXCEPT !.pc = "deleting", !.delete = Image!Deletable(s)]} :
          sweep' = [sweep EXCEPT ![s] = r]
    BY <1>4 DEF Image!ImagesListed, Image!SetSweep
  <2>2. Image!Deletable(s) \subseteq Image!Tag
        /\ Image!Deletable(s) \cap sweep[s].reachable = {}
    BY DEF Image!Deletable
  <2>3. r \in SweepType /\ r.pc = "deleting" /\ r.delete = Image!Deletable(s)
    BY <2>1, <2>2 DEF Image!IdleSweep, SweepType
  <2>4. UNCHANGED <<override, repo, images, launch, edited>> /\ sweep[s].pc = "images"
    BY <1>4 DEF Image!ImagesListed
  <2>5. s \notin edited => r.delete \cap Image!Reachable = {}
    BY <2>2, <2>3, <2>4 DEF ImagesInv, SweepsSpare
  <2> QED BY <2>1, <2>3, <2>4, <2>5, SweepStep
<1>5. ASSUME NEW s \in Sweeps, Image!SweepEnds(s)
      PROVE  ImagesInv'
  <2>1. PICK r \in {Image!IdleSweep} : sweep' = [sweep EXCEPT ![s] = r]
    BY <1>5 DEF Image!SweepEnds, Image!SetSweep
  <2>2. r \in SweepType /\ r.pc = "idle"
    BY <2>1 DEF Image!IdleSweep, SweepType
  <2>3. UNCHANGED <<override, repo, images, launch>> /\ edited' = edited \ {s}
    BY <1>5 DEF Image!SweepEnds
  <2> QED BY <2>1, <2>2, <2>3, SweepStep
<1>6. ASSUME NEW s \in Sweeps, NEW t \in Image!Tag, Image!ImageRemoved(s, t)
      PROVE  ImagesInv'
  BY <1>6, RemovedStep
<1>7. CASE Image!EditOverride
  <2>1. /\ override' \in Overrides /\ UNCHANGED <<repo, images, launch, sweep>>
        /\ edited' = {l \in Launches : Working(l)} \cup {s \in Sweeps : sweep[s].pc # "idle"}
    BY <1>7 DEF Image!EditOverride, Working
  <2>2. ImageShapes'
    BY <1>0, <2>1 DEF ImageShapes, Working
  <2>3. LaunchesRead'
    BY <2>1 DEF LaunchesRead, Working
  <2>4. SweepsSpare'
    BY <2>1 DEF SweepsSpare
  <2>5. Image!LaunchHasImage'
    BY <2>1 DEF Image!LaunchHasImage, Working
  <2> QED BY <2>2, <2>3, <2>4, <2>5 DEF ImagesInv
<1>8. CASE Image!MonthPasses
  <2>1. /\ UNCHANGED <<override, repo, launch, sweep, edited>>
        /\ \A l \in Launches : launch[l].pc \in {"idle", "running", "failed", "over"}
        /\ images' \in [Image!Tag -> {"none", "new", "old", "used"}]
    BY <1>0, <1>8 DEF Image!MonthPasses, ImageShapes
  <2>2. ImageShapes' /\ LaunchesRead' /\ SweepsSpare'
    BY <2>1 DEF ImagesInv, ImageShapes, LaunchesRead, SweepsSpare, Working,
       Image!Reachable
  <2>3. Image!LaunchHasImage'
    BY <2>1 DEF Image!LaunchHasImage
  <2> QED BY <2>2, <2>3 DEF ImagesInv
<1>9. CASE UNCHANGED Image!vars
  BY <1>9 DEF Image!vars, Image!bounds, ImagesInv, ImageShapes, LaunchesRead,
     SweepsSpare, Working, Image!LaunchHasImage, Image!Reachable, Image!HashOf,
     Image!Final, Image!Base
<1> QED BY <1>1, <1>2, <1>3, <1>4, <1>5, <1>6, <1>7, <1>8, <1>9 DEF Image!Next

\* A launch nobody edits under finds the image it has resolved: the sweep computes
\* the tags of every project's row and spares them (imageGc.ts, image.ts:41).
THEOREM LaunchesHaveImages == Spec => []LaunchHasImage
<1>1. Init => ImagesInv
  BY ImagesInit DEF Init
<1>2. ImagesInv /\ [Next]_vars => ImagesInv'
  BY ImagesStep, ImagesFrame
<1>3. ImagesInv => LaunchHasImage
  BY DEF ImagesInv, LaunchHasImage
<1> QED BY <1>1, <1>2, <1>3, PTL DEF Spec

-----------------------------------------------------------------------------
\* The configuration moves by its own steps, or not at all.
LEMMA ConfigFrame == [Next]_vars => [Config!Next]_(Config!vars)
BY DEF Next, vars, configVars, Config!vars

LifeType ==
  [pc : {"none", "running", "over"} \cup Config!Booting, kind : {"launch", "resume"},
   project : Config!ProjectRow \cup {Gone}, secret : Values \cup {None},
   author : Values \cup {None, "config"}, plugins : SUBSET Plugins,
   prompt : Values \cup {None}, server : {None, "text", "secret"},
   resolved : Values \cup {None, "text"}]

ConfigShapes ==
  /\ project \in Config!ProjectRow \cup {Gone} /\ settings \in Config!SettingsRow
  /\ secret \in Values \cup {None} /\ servers \in [Config!Scopes -> {None, "text", "secret"}]
  /\ life \in LifeType /\ named \in [Config!Scopes -> BOOLEAN]

\* While a life boots, what the sources are now is among what they were since.
NowIsSince == life.pc \in Config!Booting => Config!Sources \in since

\* What a life has read it has read since it began.
ReadSince ==
  /\ life.pc \in Config!Booting \cup {"running"} =>
       life.project # Gone /\ \E s \in since : s.project = life.project
  /\ life.pc = "building" => life.prompt = None
  /\ life.pc \in {"creating", "prompted", "running"} =>
       /\ life.author = Config!WithDefault(life.project.author)
       /\ \E s \in since : life.plugins = s.settings.plugins \cup life.project.plugins
       /\ \E s \in since : life.secret = s.secret
       /\ life.prompt # None => \E s \in since : life.prompt = s.settings.prompt
  /\ life.pc = "running" => \E s \in since :
       LET own == s.servers["project"] IN
       life.server = IF own # None THEN own ELSE s.servers["global"]

NamedIsThere == \A scope \in Config!Scopes : named[scope] => secret # None

ConfigInv == ConfigShapes /\ NowIsSince /\ ReadSince /\ NamedIsThere

LEMMA ConfigInit ==
  ASSUME Config!ProjectConfigAssumption, Config!Init
  PROVE  ConfigInv
<1>1. Config!NoLife \in LifeType /\ Config!NoLife.pc = "none"
  BY DEF Config!NoLife, LifeType
<1>2. ConfigShapes
  BY <1>1 DEF Config!Init, ConfigShapes, Config!ProjectRow, Config!SettingsRow,
     Config!Scopes
<1> QED
  BY <1>1, <1>2
  DEF Config!Init, ConfigInv, NowIsSince, ReadSince, NamedIsThere, Config!Booting

\* An edit adds to what the sources were, and leaves the life alone.
LEMMA EditKeeps ==
  ASSUME ConfigInv, Config!Edit, ConfigShapes', NamedIsThere'
  PROVE  ConfigInv'
<1>1. life' = life /\ since \subseteq since'
  BY DEF Config!Edit
<1>2. NowIsSince'
  BY <1>1 DEF Config!Edit, NowIsSince
<1>3. ReadSince'
  BY <1>1 DEF ConfigInv, ReadSince
<1> QED BY <1>2, <1>3 DEF ConfigInv

\* The edits.
LEMMA EditSteps ==
  ASSUME Config!ProjectConfigAssumption, ConfigInv, Config!Edit,
         \/ Config!UpdateProject \/ Config!UpdateSettings
         \/ Config!UpsertSecret \/ Config!RemoveSecret \/ Config!DeleteProject
         \/ \E scope \in Config!Scopes : Config!SaveServer(scope) \/ Config!DeleteServer(scope)
  PROVE  ConfigInv'
<1>0. ConfigShapes /\ NamedIsThere /\ life' = life
  BY DEF ConfigInv, Config!Edit
<1>1. CASE Config!UpdateProject
  <2>1. project' \in Config!ProjectRow
    BY <1>0, <1>1 DEF Config!UpdateProject, ConfigShapes, Config!ProjectRow
  <2>2. UNCHANGED <<settings, secret, servers, named>>
    BY <1>1 DEF Config!UpdateProject
  <2>3. ConfigShapes' /\ NamedIsThere'
    BY <1>0, <2>1, <2>2 DEF ConfigShapes, NamedIsThere
  <2> QED BY <2>3, EditKeeps
<1>2. CASE Config!UpdateSettings
  <2>1. settings' \in Config!SettingsRow
    BY <1>0, <1>2 DEF Config!UpdateSettings, ConfigShapes, Config!SettingsRow
  <2>2. UNCHANGED <<project, secret, servers, named>>
    BY <1>2 DEF Config!UpdateSettings
  <2>3. ConfigShapes' /\ NamedIsThere'
    BY <1>0, <2>1, <2>2 DEF ConfigShapes, NamedIsThere
  <2> QED BY <2>3, EditKeeps
<1>3. CASE Config!UpsertSecret
  <2>1. ConfigShapes'
    BY <1>0, <1>3 DEF Config!UpsertSecret, ConfigShapes
  <2>2. NamedIsThere'
    BY <1>3 DEF Config!UpsertSecret, NamedIsThere, Config!ProjectConfigAssumption
  <2> QED BY <2>1, <2>2, EditKeeps
<1>4. CASE Config!RemoveSecret
  <2>1. ConfigShapes' /\ NamedIsThere'
    BY <1>0, <1>4 DEF Config!RemoveSecret, ConfigShapes, NamedIsThere
  <2> QED BY <2>1, EditKeeps
<1>5. CASE Config!DeleteProject
  <2>1. /\ project' = Gone /\ secret' = None /\ settings' = settings
        /\ servers' = [servers EXCEPT !["project"] = None]
        /\ named' = [s \in Config!Scopes |-> FALSE]
    BY <1>5 DEF Config!DeleteProject
  <2>2. servers' \in [Config!Scopes -> {None, "text", "secret"}]
    BY <1>0, <2>1 DEF ConfigShapes
  <2>3. ConfigShapes' /\ NamedIsThere'
    BY <1>0, <2>1, <2>2 DEF ConfigShapes, NamedIsThere
  <2> QED BY <2>3, EditKeeps
<1>6. ASSUME NEW scope \in Config!Scopes, Config!SaveServer(scope)
      PROVE  ConfigInv'
  <2>1. PICK env \in {"text", "secret"} :
          /\ servers' = [servers EXCEPT ![scope] = env]
          /\ named' = [named EXCEPT ![scope] = (env = "secret" /\ secret # None)]
    BY <1>6 DEF Config!SaveServer
  <2>2. UNCHANGED <<project, settings, secret>>
    BY <1>6 DEF Config!SaveServer
  <2>3. servers' \in [Config!Scopes -> {None, "text", "secret"}]
    BY <1>0, <2>1 DEF ConfigShapes
  <2>4. named' \in [Config!Scopes -> BOOLEAN]
    BY <1>0, <2>1 DEF ConfigShapes
  <2>5. \A t \in Config!Scopes : named'[t] => secret' # None
    BY <1>0, <2>1, <2>2 DEF ConfigShapes, NamedIsThere
  <2> QED BY <1>0, <2>2, <2>3, <2>4, <2>5, EditKeeps DEF ConfigShapes, NamedIsThere
<1>7. ASSUME NEW scope \in Config!Scopes, Config!DeleteServer(scope)
      PROVE  ConfigInv'
  <2>1. /\ servers' = [servers EXCEPT ![scope] = None]
        /\ UNCHANGED <<project, settings, secret, named>>
    BY <1>7 DEF Config!DeleteServer
  <2>2. servers' \in [Config!Scopes -> {None, "text", "secret"}]
    BY <1>0, <2>1 DEF ConfigShapes
  <2> QED BY <1>0, <2>1, <2>2, EditKeeps DEF ConfigShapes, NamedIsThere
<1> QED BY <1>1, <1>2, <1>3, <1>4, <1>5, <1>6, <1>7

\* A life's own steps.
LEMMA LifeSteps ==
  ASSUME Config!ProjectConfigAssumption, ConfigInv,
         \/ \E kind \in {"launch", "resume"} : Config!LifeBegins(kind)
         \/ Config!ContainerRequested \/ Config!PromptsInjected
         \/ Config!ContainerFilled \/ Config!LifeEnds
  PROVE  ConfigInv'
<1>0. ConfigShapes /\ NowIsSince /\ ReadSince /\ NamedIsThere
  BY DEF ConfigInv
<1>1. UNCHANGED <<project, settings, secret, servers, named>>
  BY DEF Config!LifeBegins, Config!ContainerRequested, Config!PromptsInjected,
    Config!ContainerFilled, Config!LifeEnds, Config!rows
<1>2. NamedIsThere' /\ Config!Sources' = Config!Sources
  BY <1>0, <1>1 DEF NamedIsThere, Config!Sources
<1>3. Config!NoLife \in LifeType
  BY DEF Config!NoLife, LifeType
<1>4. ASSUME life' \in LifeType
      PROVE  ConfigShapes'
  BY <1>0, <1>1, <1>4 DEF ConfigShapes
<1>5. life \in LifeType /\ project \in Config!ProjectRow \cup {Gone}
      /\ settings \in Config!SettingsRow /\ secret \in Values \cup {None}
  BY <1>0 DEF ConfigShapes
<1>6. ASSUME life' = [Config!NoLife EXCEPT !.pc = "over"]
      PROVE  ConfigInv'
  <2>1. life' \in LifeType /\ life'.pc = "over"
    BY <1>6 DEF Config!NoLife, LifeType
  <2> QED
    BY <1>2, <1>4, <2>1 DEF ConfigInv, NowIsSince, ReadSince, Config!Booting
<1>7. ASSUME NEW kind \in {"launch", "resume"}, Config!LifeBegins(kind)
      PROVE  ConfigInv'
  <2>1. /\ life' = [Config!NoLife EXCEPT !.pc = "building", !.kind = kind, !.project = project]
        /\ project # Gone /\ since' = {Config!Sources}
    BY <1>7 DEF Config!LifeBegins
  <2>2. life' \in LifeType
    BY <1>3, <1>5, <2>1 DEF Config!NoLife, LifeType, Config!Booting
  <2>3. life'.pc = "building" /\ life'.project = project
    BY <2>1 DEF Config!NoLife
  <2>4. NowIsSince' /\ ReadSince'
    BY <1>2, <2>1, <2>3 DEF Config!NoLife, NowIsSince, ReadSince, Config!Sources
  <2> QED BY <1>2, <1>4, <2>2, <2>4 DEF ConfigInv
<1>8. CASE Config!ContainerRequested
  <2>1. /\ life.pc = "building" /\ since' = since
        /\ life' = [life EXCEPT !.pc = "creating", !.secret = secret,
                      !.author = Config!WithDefault(life.project.author),
                      !.plugins = settings.plugins \cup life.project.plugins]
    BY <1>8 DEF Config!ContainerRequested
  <2>2. life.project # Gone /\ Config!Sources \in since
    BY <1>0, <2>1 DEF ReadSince, NowIsSince, Config!Booting
  <2>3. life.project \in Config!ProjectRow
    BY <1>5, <2>2 DEF LifeType
  <2>4. /\ Config!WithDefault(life.project.author) \in Values \cup {None, "config"}
        /\ settings.plugins \cup life.project.plugins \in SUBSET Plugins
    BY <1>5, <2>3 DEF Config!WithDefault, Config!ProjectRow, Config!SettingsRow
  <2>5. life' \in LifeType
    BY <1>5, <2>1, <2>4 DEF LifeType, Config!Booting
  <2>6. /\ life'.pc = "creating" /\ life'.secret = secret /\ life'.prompt = life.prompt
        /\ life'.author = Config!WithDefault(life.project.author)
        /\ life'.plugins = settings.plugins \cup life.project.plugins
        /\ life'.project = life.project /\ life.prompt = None
    BY <1>0, <1>5, <2>1 DEF LifeType, ReadSince
  <2>7. NowIsSince' /\ ReadSince'
    BY <1>0, <1>2, <2>1, <2>2, <2>6 DEF NowIsSince, ReadSince, Config!Sources,
       Config!Booting
  <2> QED BY <1>2, <1>4, <2>5, <2>7 DEF ConfigInv
<1>9. CASE Config!PromptsInjected
  <2>1. CASE project = Gone
    BY <1>6, <1>9, <2>1 DEF Config!PromptsInjected
  <2>2. CASE project # Gone
    <3>1. /\ life.pc = "creating" /\ since' = since
          /\ life' = [life EXCEPT !.pc = "prompted", !.prompt = settings.prompt]
      BY <1>9, <2>2 DEF Config!PromptsInjected
    <3>2. settings.prompt \in Values
      BY <1>5 DEF Config!SettingsRow
    <3>3. life' \in LifeType
      BY <1>5, <3>1, <3>2 DEF LifeType, Config!Booting
    <3>4. /\ life'.pc = "prompted" /\ life'.secret = life.secret /\ life'.author = life.author
          /\ life'.plugins = life.plugins /\ life'.project = life.project
          /\ life'.prompt = settings.prompt
      BY <1>5, <3>1 DEF LifeType
    <3>5. Config!Sources \in since
      BY <1>0, <3>1 DEF NowIsSince, Config!Booting
    <3>6. NowIsSince' /\ ReadSince'
      BY <1>0, <1>2, <3>1, <3>4, <3>5 DEF NowIsSince, ReadSince, Config!Sources,
         Config!Booting
    <3> QED BY <1>2, <1>4, <3>3, <3>6 DEF ConfigInv
  <2> QED BY <2>1, <2>2
<1>10. CASE Config!ContainerFilled
  <2> DEFINE prompt == IF life.kind = "launch" THEN settings.prompt ELSE life.prompt
             value == Config!Resolved(Config!Effective, Config!SecretForServers)
  <2>1. /\ life.pc \in {"creating", "prompted"} /\ since' = since
        /\ life' = [life EXCEPT !.pc = "running", !.server = Config!Effective,
                      !.resolved = value, !.prompt = prompt]
    BY <1>5, <1>10 DEF Config!ContainerFilled, LifeType
  <2>2. prompt \in Values \cup {None}
    BY <1>5 DEF LifeType, Config!SettingsRow
  <2>3. Config!Effective \in {None, "text", "secret"}
    BY <1>0 DEF Config!Effective, ConfigShapes, Config!Scopes
  <2>4. value \in Values \cup {None, "text"}
    BY <1>5, <2>3 DEF Config!Resolved, Config!SecretForServers, LifeType
  <2>5. prompt = life.prompt \/ prompt = settings.prompt
    OBVIOUS
  <2> HIDE DEF prompt, value
  <2>6. life' \in LifeType
    BY <1>5, <2>1, <2>2, <2>3, <2>4 DEF LifeType
  <2>7. /\ life'.pc = "running" /\ life'.secret = life.secret /\ life'.author = life.author
        /\ life'.plugins = life.plugins /\ life'.project = life.project
        /\ life'.prompt = prompt /\ life'.server = Config!Effective
    BY <1>5, <2>1 DEF LifeType
  <2>8. Config!Sources \in since
    BY <1>0, <2>1 DEF NowIsSince, Config!Booting
  <2>9. \E s \in since : LET own == s.servers["project"] IN
          Config!Effective = IF own # None THEN own ELSE s.servers["global"]
    BY <2>8 DEF Config!Sources, Config!Effective
  <2>10. prompt # None => \E s \in since : prompt = s.settings.prompt
    BY <1>0, <2>1, <2>5, <2>8 DEF ReadSince, Config!Sources
  <2>11. NowIsSince' /\ ReadSince'
    BY <1>0, <2>1, <2>7, <2>9, <2>10 DEF NowIsSince, ReadSince, Config!Booting
  <2> QED BY <1>2, <1>4, <2>6, <2>11 DEF ConfigInv
<1>11. CASE Config!LifeEnds
  BY <1>6, <1>11 DEF Config!LifeEnds
<1> QED BY <1>7, <1>8, <1>9, <1>10, <1>11

LEMMA ConfigStep ==
  ASSUME Config!ProjectConfigAssumption, ConfigInv, [Config!Next]_(Config!vars)
  PROVE  ConfigInv'
<1>1. CASE UNCHANGED Config!vars
  BY <1>1 DEF Config!vars, ConfigInv, ConfigShapes, NowIsSince, ReadSince, NamedIsThere,
     Config!Sources
<1> QED BY <1>1, EditSteps, LifeSteps DEF Config!Next

\* A resumed life reads the secrets when it reads the servers, which is what
\* NamedSecretResolved says of the step.
LEMMA ResumeResolves ==
  ASSUME ConfigInv, [Config!Next]_(Config!vars)
  PROVE  [/\ life.kind = "resume" /\ life.pc \in Config!Booting /\ life'.pc = "running"
          /\ life'.server = "secret"
          /\ IF servers["project"] = None THEN named["global"] ELSE named["project"]
          => life'.resolved # None]_(Config!vars)
<1> SUFFICES ASSUME Config!Next, life.kind = "resume", life.pc \in Config!Booting,
                    life'.pc = "running", life'.server = "secret",
                    IF servers["project"] = None THEN named["global"] ELSE named["project"]
             PROVE  life'.resolved # None
  OBVIOUS
<1>0. life \in LifeType /\ NamedIsThere
  BY DEF ConfigInv, ConfigShapes
<1>1. secret # None
  BY <1>0 DEF NamedIsThere, Config!Scopes
<1>2. ~Config!Edit
  BY DEF Config!Edit, Config!Booting
<1>3. ~Config!LifeEnds
  BY DEF Config!LifeEnds, Config!NoLife
<1>4. ~Config!ContainerRequested /\ ~Config!PromptsInjected
  BY <1>0 DEF Config!ContainerRequested, Config!PromptsInjected, Config!NoLife, LifeType
<1>5. ASSUME NEW kind \in {"launch", "resume"}
      PROVE  ~Config!LifeBegins(kind)
  BY DEF Config!LifeBegins, Config!Booting
<1>6. Config!ContainerFilled
  BY <1>2, <1>3, <1>4, <1>5 DEF Config!Next
<1>7. life'.server = Config!Effective
      /\ life'.resolved = Config!Resolved(Config!Effective, Config!SecretForServers)
  BY <1>0, <1>6 DEF Config!ContainerFilled, LifeType
<1> QED BY <1>1, <1>7 DEF Config!Resolved, Config!SecretForServers

\* What a container is configured with was in the rows since its life began, and a
\* resumed server has the secret its env names.
THEOREM EditsAreReached == Spec => EditsReach
<1>0. StoreAssumption => Config!ProjectConfigAssumption
  BY DEF StoreAssumption
<1>1. Init => ConfigInv
  BY <1>0, StoreAssumption, ConfigInit DEF Init
<1>2. ConfigInv /\ [Next]_vars => ConfigInv'
  BY <1>0, StoreAssumption, ConfigStep, ConfigFrame
<1>3. ConfigInv => (shown = "config" => Config!EditsReach)
  BY DEF ConfigInv, ReadSince, Config!EditsReach
<1>4. ConfigInv /\ [Next]_vars =>
        [/\ life.kind = "resume" /\ life.pc \in Config!Booting /\ life'.pc = "running"
         /\ life'.server = "secret"
         /\ IF servers["project"] = None THEN named["global"] ELSE named["project"]
         => life'.resolved # None]_(Config!vars)
  BY ResumeResolves, ConfigFrame
<1> QED BY <1>1, <1>2, <1>3, <1>4, PTL DEF Spec, EditsReach, Config!NamedSecretResolved

-----------------------------------------------------------------------------
\* The uploads move by their own steps, or not at all.
LEMMA FilesFrame == [Next]_vars => [Files!Next]_(Files!vars)
BY DEF Next, vars, fileVars, Files!vars, Files!dirVars, Files!sweepVars

Pcs == {"none", "over", "arrived", "open", "retry", "linked", "relinked"}

UploadType ==
  [pc : Pcs, dir : Files!Dirs \cup {None}, final : Files!Names, name : Files!Names,
   tries : {0, 1, 2}, visit : Nat, alone : BOOLEAN]

PromotionType ==
  [token : Files!Tokens \cup {None}, read : BOOLEAN, left : SUBSET Files!Names,
   files : SUBSET Files!Uploads]

PageType ==
  [visit : Nat, token : Files!Tokens \cup {None},
   files : SUBSET [dir : Files!Tokens, inode : Files!Uploads]]

DirTypes ==
  /\ names \in [Files!Dirs -> [Files!Names -> Files!Inode]]
  /\ parts \in [Files!Dirs -> [Files!Names -> Files!Inode]]
  /\ exists \subseteq Files!Dirs
  /\ \A d \in Files!Dirs \ exists : names[d] = Files!Empty /\ parts[d] = Files!Empty

RequestTypes ==
  /\ ups \in [Files!Uploads -> UploadType]
  /\ \A u \in Files!Uploads : Files!Active(u) => ups[u].dir \in Files!Dirs
  /\ page \in PageType /\ tokens \in 0..NumTokens

PromotionTypes ==
  /\ runs \in [Files!Runs -> {"none", "queued", "live"}]
  /\ prom \in [Files!Runs -> PromotionType]
  /\ \A r \in Files!Runs :
       /\ ~prom[r].read => prom[r].left = {}
       /\ prom[r] # Files!NoPromotion =>
            prom[r].token \in Files!Tokens /\ runs[r] = "queued" /\ r \in exists

SweepTypes ==
  /\ sweeping \subseteq Files!Dirs /\ aged \subseteq Files!Dirs /\ judged \subseteq Files!Tokens
  /\ gone \subseteq Files!Uploads

FileTypes == DirTypes /\ RequestTypes /\ PromotionTypes /\ SweepTypes

LEMMA Numbers ==
  ASSUME Files!UploadsAssumption
  PROVE  /\ NumTokens \in Nat /\ NumRuns \in Nat /\ MaxUploads \in Nat
         /\ Files!Tokens \cap Files!Runs = {} /\ None \notin Files!Dirs
            /\ None \notin Files!Uploads /\ None \notin Files!Names
         /\ 0 \in Files!Names
BY DEF Files!UploadsAssumption, Files!Tokens, Files!Runs, Files!Dirs, Files!Uploads,
   Files!Names

LEMMA EmptyIsTyped == Files!Empty \in [Files!Names -> Files!Inode]
BY DEF Files!Empty, Files!Inode

\* What an upload's record may become.
LEMMA UploadStep ==
  ASSUME Files!UploadsAssumption, RequestTypes, NEW u \in Files!Uploads, NEW r \in UploadType,
         ups' = [ups EXCEPT ![u] = r], r.pc \in {"none", "over"} \/ r.dir \in Files!Dirs,
         page' \in PageType, tokens' = tokens
  PROVE  RequestTypes'
<1>1. ups' \in [Files!Uploads -> UploadType]
  BY DEF RequestTypes
<1>2. \A v \in Files!Uploads : ups'[v] = IF v = u THEN r ELSE ups[v]
  BY DEF RequestTypes
<1>3. \A v \in Files!Uploads : ups'[v].pc \in {"none", "over"} \/ ups'[v].dir \in Files!Dirs
  <2> TAKE v \in Files!Uploads
  <2>1. ups[v] \in UploadType
    BY DEF RequestTypes
  <2> QED BY <1>2, <2>1 DEF RequestTypes, Files!Active, UploadType, Pcs
<1> QED BY <1>1, <1>3 DEF RequestTypes, Files!Active

\* One name of one directory goes to an inode, or to none.
LEMMA NameStep ==
  ASSUME NEW f \in [Files!Dirs -> [Files!Names -> Files!Inode]], NEW d \in Files!Dirs,
         NEW n \in Files!Names, NEW i \in Files!Inode
  PROVE  /\ Files!Named(f, d, n, i) \in [Files!Dirs -> [Files!Names -> Files!Inode]]
         /\ \A e \in Files!Dirs, k \in Files!Names :
              Files!Named(f, d, n, i)[e][k] = IF e = d /\ k = n THEN i ELSE f[e][k]
         /\ \A e \in Files!Dirs : e # d => Files!Named(f, d, n, i)[e] = f[e]
BY DEF Files!Named

LEMMA AnsweredIsTyped ==
  ASSUME Files!UploadsAssumption
  PROVE  Files!NoUpload \in UploadType /\ Files!Answered \in UploadType
         /\ Files!Answered.pc = "over"
<1>1. Files!NoUpload \in UploadType
  BY Numbers DEF Files!NoUpload, UploadType, Pcs
<1> QED BY <1>1 DEF Files!Answered, UploadType, Pcs

LEMMA ArrivesIsTyped ==
  ASSUME Files!UploadsAssumption, RequestTypes, NEW u \in Files!Uploads, NEW d \in Files!Dirs,
         NEW visit \in Nat,
         Files!Arrives(u, d, visit)
  PROVE  /\ ups' \in [Files!Uploads -> UploadType]
         /\ ups'[u].pc = "arrived" /\ ups'[u].dir = d /\ ups'[u].visit = visit
         /\ \A v \in Files!Uploads : v # u =>
              /\ ups'[v] \in {ups[v], [ups[v] EXCEPT !.alone = FALSE]}
              /\ ups'[v].pc = ups[v].pc /\ ups'[v].dir = ups[v].dir
              /\ ups'[v].final = ups[v].final /\ ups'[v].name = ups[v].name
              /\ ups'[v].alone => ups[v].alone /\ (Files!Active(v) => ups[v].dir # d)
         /\ ups'[u].alone => \A v \in Files!Uploads : Files!Active(v) => ups[v].dir # d
<1> DEFINE others == {v \in Files!Uploads : Files!Active(v) /\ ups[v].dir = d}
           new == [Files!NoUpload EXCEPT !.pc = "arrived", !.dir = d, !.visit = visit,
                                   !.alone = others = {}]
<1>1. /\ new \in UploadType /\ new.pc = "arrived" /\ new.dir = d /\ new.visit = visit
      /\ new.alone = (others = {})
  <2>1. (others = {}) \in BOOLEAN
    OBVIOUS
  <2> HIDE DEF others
  <2> QED BY <2>1, AnsweredIsTyped DEF Files!NoUpload, UploadType, Pcs
<1>2. ups' = [v \in Files!Uploads |-> IF v = u THEN new
                                ELSE IF v \in others THEN [ups[v] EXCEPT !.alone = FALSE]
                                ELSE ups[v]]
  BY DEF Files!Arrives
<1>3. \A v \in Files!Uploads : /\ ups[v] \in UploadType
                         /\ [ups[v] EXCEPT !.alone = FALSE] \in UploadType
  BY DEF RequestTypes, UploadType
<1> HIDE DEF new
<1>4. ups' \in [Files!Uploads -> UploadType]
  BY <1>1, <1>2, <1>3
<1>5. ASSUME NEW v \in Files!Uploads, v # u
      PROVE  /\ ups'[v] \in {ups[v], [ups[v] EXCEPT !.alone = FALSE]}
             /\ ups'[v].pc = ups[v].pc /\ ups'[v].dir = ups[v].dir
             /\ ups'[v].final = ups[v].final /\ ups'[v].name = ups[v].name
             /\ ups'[v].alone => ups[v].alone /\ (Files!Active(v) => ups[v].dir # d)
  <2>1. ups'[v] = IF v \in others THEN [ups[v] EXCEPT !.alone = FALSE] ELSE ups[v]
    BY <1>2, <1>5
  <2> QED BY <1>3, <2>1 DEF UploadType
<1> QED BY <1>1, <1>2, <1>4, <1>5

LEMMA NoPromotionIsTyped ==
  Files!NoPromotion \in PromotionType /\ Files!NoPromotion.token = None
  /\ ~Files!NoPromotion.read
  /\ Files!NoPromotion.left = {} /\ Files!NoPromotion.files = {}
BY DEF Files!NoPromotion, PromotionType

LEMMA TypesInit ==
  ASSUME Files!UploadsAssumption, Files!Init
  PROVE  FileTypes
<1>1. DirTypes
  BY EmptyIsTyped DEF Files!Init, DirTypes
<1>2. RequestTypes
  <2>1. \A u \in Files!Uploads : ups[u] \in UploadType /\ ups[u].pc = "none"
    BY AnsweredIsTyped DEF Files!Init, Files!NoUpload
  <2>2. page \in PageType
    BY DEF Files!Init, PageType, Files!NewPage
  <2> QED BY <2>1, <2>2, Numbers DEF Files!Init, RequestTypes, Files!Active
<1>3. PromotionTypes /\ SweepTypes
  <2>2. prom = [r \in Files!Runs |-> Files!NoPromotion] /\ runs = [r \in Files!Runs |-> "none"]
    BY DEF Files!Init
  <2>3. PromotionTypes
    BY <2>2, NoPromotionIsTyped DEF PromotionTypes
  <2> QED BY <2>3 DEF Files!Init, SweepTypes
<1> QED BY <1>1, <1>2, <1>3 DEF FileTypes

LEMMA SameDirs == ASSUME UNCHANGED Files!dirVars, DirTypes PROVE DirTypes'
BY DEF Files!dirVars, DirTypes

LEMMA SameRequests ==
  ASSUME UNCHANGED <<ups, page, tokens>>, RequestTypes PROVE RequestTypes'
BY DEF RequestTypes, Files!Active

LEMMA NamedIsTyped ==
  ASSUME NEW f \in [Files!Dirs -> [Files!Names -> Files!Inode]], NEW d \in Files!Dirs,
         NEW n \in Files!Names, NEW i \in Files!Inode,
         \A e \in Files!Dirs \ exists : f[e] = Files!Empty, d \in exists \/ i = None
  PROVE  /\ Files!Named(f, d, n, i) \in [Files!Dirs -> [Files!Names -> Files!Inode]]
         /\ \A e \in Files!Dirs \ exists : Files!Named(f, d, n, i)[e] = Files!Empty
<1>1. CASE d \in exists
  BY <1>1 DEF Files!Named
<1>2. CASE d \notin exists
  <2>1. f[d] = Files!Empty /\ i = None
    BY <1>2
  <2>2. [f[d] EXCEPT ![n] = i] = Files!Empty
    BY <2>1 DEF Files!Empty
  <2> QED BY <2>2, NameStep DEF Files!Named
<1> QED BY <1>1, <1>2

\* An upload arrives, in a draft or in a run.
LEMMA ArrivalTypes ==
  ASSUME Files!UploadsAssumption, FileTypes, NEW u \in Files!Uploads,
         (\E t \in Files!Tokens : Files!PageUploads(u, t))
         \/ (\E r \in Files!Runs : Files!RunUploads(u, r))
  PROVE  FileTypes'
<1> USE DEF FileTypes
<1>1. PICK d \in Files!Dirs, visit \in Nat :
        Files!Arrives(u, d, visit) /\ exists' = exists \cup {d} /\ aged' \subseteq aged
    BY DEF Files!PageUploads, Files!RunUploads, Files!Dirs, RequestTypes, PageType
<1>2. /\ UNCHANGED <<names, parts, runs, prom, page, Files!sweepVars, gone>>
      /\ tokens' \in 0..NumTokens
  <2>1. ASSUME NEW t \in Files!Tokens, Files!PageUploads(u, t)
        PROVE  tokens' \in 0..NumTokens
    BY <2>1, Numbers DEF Files!PageUploads, Files!Tokens, RequestTypes
  <2> QED BY <2>1 DEF Files!PageUploads, Files!RunUploads, RequestTypes
<1>3. RequestTypes'
  <2>1. \A v \in Files!Uploads : v # u => ups'[v].pc = ups[v].pc /\ ups'[v].dir = ups[v].dir
    BY <1>1, ArrivesIsTyped
  <2>2. ups'[u].pc = "arrived" /\ ups'[u].dir = d /\ ups' \in [Files!Uploads -> UploadType]
    BY <1>1, ArrivesIsTyped
  <2> QED BY <1>2, <2>1, <2>2 DEF RequestTypes, Files!Active
<1>4. DirTypes' /\ PromotionTypes' /\ SweepTypes'
  BY <1>1, <1>2 DEF DirTypes, PromotionTypes, SweepTypes, Files!sweepVars
<1> QED BY <1>3, <1>4

\* The steps of an upload.
LEMMA UploadTypes ==
  ASSUME Files!UploadsAssumption, FileTypes, NEW u \in Files!Uploads,
         Files!Starts(u) \/ Files!Breaks(u) \/ Files!Links(u) \/ Files!Retries(u)
         \/ Files!Unlinks(u)
  PROVE  FileTypes'
<1> USE DEF FileTypes
<1> DEFINE d == ups[u].dir
           n == ups[u].final
<1>0. /\ ups[u] \in UploadType /\ Files!Active(u) /\ d \in Files!Dirs /\ n \in Files!Names
         /\ ups[u].name \in Files!Names
      /\ names \in [Files!Dirs -> [Files!Names -> Files!Inode]]
         /\ parts \in [Files!Dirs -> [Files!Names -> Files!Inode]]
  BY DEF RequestTypes, DirTypes, UploadType, Files!Active, Files!Starts, Files!Breaks,
     Files!Links, Files!Retries, Files!Unlinks
<1>1. UNCHANGED <<exists, runs, prom, tokens, Files!sweepVars, gone>>
  BY DEF Files!Starts, Files!Breaks, Files!Links, Files!Retries, Files!Unlinks
<1>2. PromotionTypes'
  BY <1>1 DEF PromotionTypes
<1>3. SweepTypes'
  BY <1>0, <1>1 DEF Files!Starts, Files!Breaks, Files!Links, Files!Retries,
     Files!Unlinks, SweepTypes, Files!sweepVars, Files!Touched
<1>4. \A e \in Files!Dirs \ exists : names[e] = Files!Empty /\ parts[e] = Files!Empty
  BY DEF DirTypes
<1>5. None \in Files!Inode /\ u \in Files!Inode /\ parts[d][n] \in Files!Inode
  BY <1>0 DEF Files!Inode
<1>6. ASSUME names' = names
             \/ \E k \in Files!Names : d \in exists
                /\ names' = Files!Named(names, d, k, parts[d][n]),
             parts' = parts \/ parts' = Files!Named(parts, d, n, None)
      PROVE  DirTypes'
  <2>1. /\ names' \in [Files!Dirs -> [Files!Names -> Files!Inode]]
        /\ \A e \in Files!Dirs \ exists : names'[e] = Files!Empty
    <3>1. ASSUME NEW k \in Files!Names, d \in exists
          PROVE  /\ Files!Named(names, d, k, parts[d][n])
                      \in [Files!Dirs -> [Files!Names -> Files!Inode]]
                 /\ \A e \in Files!Dirs \ exists :
                      Files!Named(names, d, k, parts[d][n])[e] = Files!Empty
      <4> HIDE DEF d, n
      <4> QED BY <1>0, <1>4, <1>5, <3>1, NamedIsTyped
    <3> QED BY <1>0, <1>4, <1>6, <3>1
  <2>2. /\ parts' \in [Files!Dirs -> [Files!Names -> Files!Inode]]
        /\ \A e \in Files!Dirs \ exists : parts'[e] = Files!Empty
    BY <1>0, <1>4, <1>5, <1>6, NamedIsTyped
  <2> QED BY <1>1, <2>1, <2>2 DEF DirTypes
<1>7. ASSUME NEW r \in UploadType, ups' = [ups EXCEPT ![u] = r], r.dir = d \/ r.pc = "over",
             page' \in PageType
      PROVE  RequestTypes'
  BY <1>0, <1>1, <1>7, UploadStep
<1>8. Files!Answered \in UploadType /\ Files!Answered.pc = "over"
  BY AnsweredIsTyped
<1>9. page \in PageType
  BY DEF RequestTypes
<1>10. CASE Files!Starts(u)
  <2> DEFINE k == Files!Resolve(d, 0)
  <2>1. page' = page /\ names' = names
    BY <1>10 DEF Files!Starts
  <2>2. CASE d \in exists /\ Files!HasRoom(d)
    <3>1. k \in Files!Names /\ Files!NameLeft(d, 0)
          /\ parts' = IF parts[d][k] = None THEN Files!Named(parts, d, k, u) ELSE parts
      BY <1>10, <2>2 DEF Files!Starts, Files!NameLeft
    <3>2. PICK r \in {[ups[u] EXCEPT !.pc = "open", !.final = k, !.name = k]} :
                 ups' = [ups EXCEPT ![u] = r]
      BY <1>10, <2>2 DEF Files!Starts
    <3>3. r \in UploadType /\ r.dir = d
      BY <1>0, <3>1, <3>2 DEF UploadType, Pcs
    <3>4. DirTypes'
      <4>1. /\ parts' \in [Files!Dirs -> [Files!Names -> Files!Inode]]
            /\ \A e \in Files!Dirs \ exists : parts'[e] = Files!Empty
        <5> HIDE DEF d, k
        <5>1. /\ Files!Named(parts, d, k, u) \in [Files!Dirs -> [Files!Names -> Files!Inode]]
              /\ \A e \in Files!Dirs \ exists : Files!Named(parts, d, k, u)[e] = Files!Empty
          <6>1. /\ k \in Files!Names /\ d \in Files!Dirs /\ u \in Files!Inode /\ d \in exists
                /\ parts \in [Files!Dirs -> [Files!Names -> Files!Inode]]
                /\ \A e \in Files!Dirs \ exists : parts[e] = Files!Empty
            BY <1>0, <1>4, <1>5, <2>2, <3>1
          <6> QED BY <6>1, NamedIsTyped
        <5> QED BY <1>0, <1>4, <3>1, <5>1
      <4> QED BY <1>0, <1>1, <1>4, <2>1, <4>1 DEF DirTypes
    <3> QED BY <1>2, <1>3, <1>7, <1>9, <2>1, <3>2, <3>3, <3>4
  <2>3. CASE ~(d \in exists /\ Files!HasRoom(d))
    <3>1. parts' = parts /\ ups' = [ups EXCEPT ![u] = Files!Answered]
      BY <1>10, <2>3 DEF Files!Starts, Files!Over
    <3> QED BY <1>2, <1>3, <1>6, <1>7, <1>8, <1>9, <2>1, <3>1
  <2> QED BY <2>2, <2>3
<1>11. CASE Files!Breaks(u)
  <2>1. /\ page' = page /\ names' = names /\ parts' = Files!Named(parts, d, n, None)
        /\ ups' = [ups EXCEPT ![u] = Files!Answered]
    BY <1>11 DEF Files!Breaks, Files!Over
  <2> QED BY <1>2, <1>3, <1>6, <1>7, <1>8, <1>9, <2>1
<1>12. CASE Files!Links(u)
  <2>1. page' = page
    BY <1>12 DEF Files!Links
  <2>2. \/ /\ d \in exists /\ names' = Files!Named(names, d, n, parts[d][n]) /\ parts' = parts
           /\ ups' = [ups EXCEPT ![u].pc = "linked"]
        \/ /\ names' = names /\ parts' = parts /\ Files!Resolve(d, 0) \in Files!Names
           /\ ups' = [ups EXCEPT ![u].pc = "retry", ![u].name = Files!Resolve(d, 0)]
        \/ /\ names' = names /\ parts' = Files!Named(parts, d, n, None)
           /\ ups' = [ups EXCEPT ![u] = Files!Answered]
    BY <1>12 DEF Files!Links, Files!Step, Files!Over, Files!NameLeft
  <2>3. DirTypes'
    BY <1>0, <1>6, <2>2
  <2>4. \/ \E r \in {[ups[u] EXCEPT !.pc = "linked"], Files!Answered} :
             ups' = [ups EXCEPT ![u] = r]
        \/ \E r \in {[ups[u] EXCEPT !.pc = "retry", !.name = Files!Resolve(d, 0)]} :
             Files!Resolve(d, 0) \in Files!Names /\ ups' = [ups EXCEPT ![u] = r]
    BY <2>2
  <2>5. \E r \in UploadType : (r.dir = d \/ r.pc = "over") /\ ups' = [ups EXCEPT ![u] = r]
    BY <1>0, <1>8, <2>4 DEF UploadType, Pcs
  <2> QED BY <1>2, <1>3, <1>7, <1>9, <2>1, <2>3, <2>5
<1>13. ASSUME Files!NextTry(u)
       PROVE  /\ parts' = parts \/ parts' = Files!Named(parts, d, n, None)
              /\ \E r \in UploadType : (r.dir = d \/ r.pc = "over")
                 /\ ups' = [ups EXCEPT ![u] = r]
  <2>1. CASE ups[u].tries + 1 < Files!LinkTries
    <3>1. PICK r \in {[ups[u] EXCEPT !.pc = "open", !.tries = ups[u].tries + 1]} :
            ups' = [ups EXCEPT ![u] = r] /\ parts' = parts
      BY <1>0, <1>13, <2>1 DEF Files!NextTry, UploadType, RequestTypes
    <3>2. ups[u].tries + 1 \in {0, 1, 2}
      BY <1>0, <2>1 DEF Files!LinkTries, UploadType
    <3>3. r \in UploadType /\ r.dir = d
      BY <1>0, <3>1, <3>2 DEF UploadType, Pcs
    <3> QED BY <3>1, <3>3
  <2>2. CASE ~(ups[u].tries + 1 < Files!LinkTries)
    BY <1>8, <1>13, <2>2 DEF Files!NextTry, Files!Over
  <2> QED BY <2>1, <2>2
<1>14. CASE Files!Retries(u)
  <2>1. page' = page
    BY <1>14 DEF Files!Retries
  <2>2. CASE Files!NextTry(u) /\ names' = names
    BY <1>2, <1>3, <1>6, <1>7, <1>9, <1>13, <2>1, <2>2
  <2>3. CASE /\ d \in exists /\ names' = Files!Named(names, d, ups[u].name, parts[d][n])
                /\ parts' = parts
             /\ ups' = [ups EXCEPT ![u].pc = "relinked"]
    <3>1. PICK r \in {[ups[u] EXCEPT !.pc = "relinked"]} : ups' = [ups EXCEPT ![u] = r]
      BY <2>3
    <3>2. r \in UploadType /\ r.dir = d
      BY <1>0, <3>1 DEF UploadType, Pcs
    <3> QED BY <1>0, <1>2, <1>3, <1>6, <1>7, <1>9, <2>1, <2>3, <3>1, <3>2
  <2> QED BY <1>14, <2>2, <2>3 DEF Files!Retries, Files!Step
<1>15. CASE Files!Unlinks(u)
  <2>1. names' = names
    BY <1>15 DEF Files!Unlinks
  <2>2. page' \in PageType
    <3>1. CASE page' = page
      BY <1>9, <3>1
    <3>2. CASE d \in Files!Tokens /\ names[d][ups[u].name] # None /\ page' = Files!Shown(u)
      <4>1. [dir |-> d, inode |-> names[d][ups[u].name]]
              \in [dir : Files!Tokens, inode : Files!Uploads]
        BY <1>0, <3>2 DEF Files!Inode
      <4> QED BY <1>9, <3>2, <4>1 DEF Files!Shown, PageType
    <3> QED BY <1>15, <3>1, <3>2 DEF Files!Unlinks
  <2>3. CASE parts[d][n] # None
    <3>1. parts' = Files!Named(parts, d, n, None) /\ ups' = [ups EXCEPT ![u] = Files!Answered]
      BY <1>15, <2>3 DEF Files!Unlinks, Files!Over
    <3> QED BY <1>2, <1>3, <1>6, <1>7, <1>8, <2>1, <2>2, <3>1
  <2>4. CASE parts[d][n] = None /\ ups[u].pc = "linked"
    <3>1. parts' = parts /\ ups' = [ups EXCEPT ![u] = Files!Answered]
      BY <1>15, <2>4 DEF Files!Unlinks, Files!Over
    <3> QED BY <1>2, <1>3, <1>6, <1>7, <1>8, <2>1, <2>2, <3>1
  <2>5. CASE parts[d][n] = None /\ ups[u].pc # "linked"
    <3>1. Files!NextTry(u)
      BY <1>15, <2>5 DEF Files!Unlinks
    <3> QED BY <1>2, <1>3, <1>6, <1>7, <1>13, <2>1, <2>2, <3>1
  <2> QED BY <2>3, <2>4, <2>5
<1> QED BY <1>10, <1>11, <1>12, <1>14, <1>15

\* The user's deletions, and a form that is submitted.
LEMMA PageTypes ==
  ASSUME Files!UploadsAssumption, FileTypes,
         \/ \E r \in Files!Runs : Files!Submit(r) \/ Files!DeleteRun(r)
         \/ \E d \in Files!Dirs, n \in Files!Names : Files!Deletes(d, n)
  PROVE  FileTypes'
<1> USE DEF FileTypes
<1>1. ASSUME NEW r \in Files!Runs, Files!Submit(r)
      PROVE  FileTypes'
  <2>1. /\ UNCHANGED <<names, parts, ups, tokens, Files!sweepVars, aged, gone>>
        /\ exists' = exists \cup {r} /\ runs[r] = "none"
    BY <1>1 DEF Files!Submit
  <2>2. DirTypes' /\ SweepTypes'
    BY <2>1 DEF DirTypes, SweepTypes, Files!sweepVars, Files!Dirs
  <2>3. prom[r] = Files!NoPromotion
    BY <2>1 DEF PromotionTypes
  <2>4. CASE page.token = None
    <3>1. /\ runs' = [runs EXCEPT ![r] = "live"] /\ page' = Files!NewPage(page.visit + 1)
          /\ prom' = prom
      BY <1>1, <2>4 DEF Files!Submit
    <3>2. page' \in PageType
      BY <3>1 DEF Files!NewPage, PageType, RequestTypes
    <3>3. PromotionTypes'
      BY <2>1, <2>3, <3>1 DEF PromotionTypes
    <3> QED BY <2>1, <2>2, <3>2, <3>3 DEF RequestTypes, Files!Active
  <2>5. CASE page.token # None
    <3> DEFINE taken == {f.inode : f \in {g \in page.files : g.dir = page.token}}
    <3>1. PICK p \in {[token |-> page.token, read |-> FALSE, left |-> {}, files |-> taken]} :
            /\ runs' = [runs EXCEPT ![r] = "queued"] /\ page' = page
            /\ prom' = [prom EXCEPT ![r] = p]
      BY <1>1, <2>5 DEF Files!Submit
    <3>2. p \in PromotionType /\ p.token \in Files!Tokens
      <4>1. taken \subseteq Files!Uploads /\ page.token \in Files!Tokens
        BY <2>5 DEF RequestTypes, PageType
      <4> HIDE DEF taken
      <4>2. p.token = page.token /\ p = [token |-> page.token, read |-> FALSE, left |-> {},
                                         files |-> taken]
        BY <3>1
      <4> QED BY <4>1, <4>2 DEF PromotionType
    <3>3. PromotionTypes'
      BY <2>1, <3>1, <3>2 DEF PromotionTypes
    <3> QED BY <2>1, <2>2, <3>1, <3>3, SameRequests
  <2> QED BY <2>4, <2>5
<1>2. ASSUME NEW r \in Files!Runs, Files!DeleteRun(r)
      PROVE  FileTypes'
  <2>1. /\ UNCHANGED <<Files!dirVars, ups, prom, page, tokens, Files!sweepVars, aged, gone>>
        /\ runs' = [runs EXCEPT ![r] = "none"] /\ prom[r] = Files!NoPromotion
    BY <1>2 DEF Files!DeleteRun
  <2>2. PromotionTypes'
    BY <2>1 DEF PromotionTypes, Files!dirVars
  <2> QED BY <2>1, <2>2, SameDirs, SameRequests DEF SweepTypes, Files!sweepVars
<1>3. ASSUME NEW d \in Files!Dirs, NEW n \in Files!Names, Files!Deletes(d, n)
      PROVE  FileTypes'
  <2>1. /\ UNCHANGED <<parts, exists, ups, runs, prom, page, tokens, Files!sweepVars>>
        /\ names' = Files!Named(names, d, n, None) /\ gone' = gone \cup {names[d][n]}
        /\ aged' \subseteq aged /\ names[d][n] # None
    BY <1>3 DEF Files!Deletes, Files!Touched
  <2>2. names[d][n] \in Files!Uploads
    BY <2>1 DEF DirTypes, Files!Inode
  <2>3. DirTypes'
    BY <2>1, NamedIsTyped DEF DirTypes, Files!Inode
  <2>4. SweepTypes' /\ PromotionTypes'
    BY <2>1, <2>2 DEF SweepTypes, Files!sweepVars, PromotionTypes
  <2> QED BY <2>1, <2>3, <2>4, SameRequests
<1> QED BY <1>1, <1>2, <1>3

LEMMA RemovedIsTyped ==
  ASSUME DirTypes, NEW d \in Files!Dirs, Files!Removed(d)
  PROVE  DirTypes' /\ exists' = exists \ {d}
BY EmptyIsTyped DEF Files!Removed, DirTypes

LEMMA FilesAreUploads ==
  ASSUME DirTypes, NEW d \in Files!Dirs
  PROVE  Files!Files(d) \subseteq Files!Uploads
BY DEF DirTypes, Files!Files, Files!Inode

\* The steps of a promotion.
LEMMA PromotionStepTypes ==
  ASSUME Files!UploadsAssumption, FileTypes, NEW r \in Files!Runs, Files!Promotion(r)
  PROVE  FileTypes'
<1> USE DEF FileTypes
<1> DEFINE t == prom[r].token
<1>0. prom[r] \in PromotionType /\ prom \in [Files!Runs -> PromotionType]
      /\ runs \in [Files!Runs -> {"none", "queued", "live"}]
  BY DEF PromotionTypes
<1>1. t \in Files!Tokens /\ runs[r] = "queued" /\ r \in exists /\ t \in Files!Dirs
      /\ r \in Files!Dirs
  <2>1. t # None
    <3>1. Files!NoPromotion.left = {} /\ Files!NoPromotion.token = None
      BY DEF Files!NoPromotion
    <3>2. ASSUME NEW n \in Files!Names, Files!PromoteMoves(r, n)
          PROVE  t # None
      <4>1. prom[r] # Files!NoPromotion
        BY <3>1, <3>2 DEF Files!PromoteMoves
      <4> QED BY <4>1, Numbers DEF PromotionTypes, Files!Dirs
    <3> QED BY <3>2 DEF Files!Promotion, Files!PromoteReads, Files!PromoteEnds
  <2> QED BY <2>1 DEF PromotionTypes, Files!NoPromotion, Files!Dirs
<1>2. UNCHANGED <<ups, tokens, Files!sweepVars>> 
  BY DEF Files!Promotion, Files!PromoteReads, Files!PromoteMoves, Files!PromoteEnds
<1>3. ASSUME NEW p \in PromotionType, prom' = [prom EXCEPT ![r] = p], p.token = t, runs' = runs,
             exists' = exists, ~p.read => p.left = {}
      PROVE  PromotionTypes'
  BY <1>0, <1>1, <1>3 DEF PromotionTypes
<1>4. ASSUME Files!RollsBack(r)
      PROVE  FileTypes'
  <2>1. /\ prom' = [prom EXCEPT ![r] = Files!NoPromotion] /\ runs' = [runs EXCEPT ![r] = "none"]
        /\ UNCHANGED <<page, aged>> /\ gone' = gone \cup Files!Files(r) /\ Files!Removed(r)
    BY <1>4 DEF Files!RollsBack
  <2>2. DirTypes' /\ exists' = exists \ {r}
    BY <1>1, <2>1, RemovedIsTyped
  <2>3. PromotionTypes'
    BY <1>0, <1>1, <2>1, <2>2, NoPromotionIsTyped DEF PromotionTypes
  <2>4. SweepTypes'
    BY <1>1, <1>2, <2>1, FilesAreUploads DEF SweepTypes, Files!sweepVars
  <2> QED BY <1>2, <2>1, <2>2, <2>3, <2>4, SameRequests
<1>5. CASE Files!PromoteReads(r)
  <2>1. CASE t \in exists
    <3>1. PICK p \in {[prom[r] EXCEPT !.read = TRUE, !.left = Files!Taken(t)]} :
            prom' = [prom EXCEPT ![r] = p]
      BY <1>5, <2>1 DEF Files!PromoteReads
    <3>2. UNCHANGED <<Files!dirVars, runs, page, gone, aged>>
      BY <1>5, <2>1 DEF Files!PromoteReads
    <3>3. p \in PromotionType /\ p.token = t /\ p.read
      BY <1>0, <3>1 DEF PromotionType, Files!Taken
    <3>4. PromotionTypes'
      BY <1>3, <3>1, <3>2, <3>3 DEF Files!dirVars
    <3> QED BY <1>2, <3>2, <3>4, SameDirs, SameRequests DEF SweepTypes, Files!sweepVars
  <2> QED BY <1>4, <1>5, <2>1 DEF Files!PromoteReads
<1>6. ASSUME NEW n \in Files!Names, Files!PromoteMoves(r, n)
      PROVE  FileTypes'
  <2>1. CASE names[t][n] # None
    <3> DEFINE k == Files!Resolve(r, n)
    <3>1. /\ k \in Files!Names /\ UNCHANGED <<parts, exists, runs, page, gone>>
          /\ names' = [names EXCEPT ![t][n] = None, ![r][k] = names[t][n]]
          /\ aged' \subseteq aged
      BY <1>6, <2>1 DEF Files!PromoteMoves, Files!NameLeft
    <3>2. PICK p \in {[prom[r] EXCEPT !.left = prom[r].left \ {n}]} :
            prom' = [prom EXCEPT ![r] = p]
      BY <1>0, <1>6, <2>1 DEF Files!PromoteMoves, PromotionType
    <3>3. p \in PromotionType /\ p.token = t /\ (~p.read => p.left = {})
      BY <1>0, <3>2 DEF PromotionType, PromotionTypes
    <3>4. t \in exists
      BY <1>1, <2>1 DEF DirTypes, Files!Empty
    <3>5. DirTypes'
      <4>1. names[t][n] \in Files!Inode /\ None \in Files!Inode
        BY <1>1 DEF DirTypes, Files!Inode
      <4>2. names' \in [Files!Dirs -> [Files!Names -> Files!Inode]]
        BY <1>1, <3>1, <4>1 DEF DirTypes
      <4>3. \A d \in Files!Dirs \ exists : names'[d] = names[d]
        BY <1>1, <3>1, <3>4 DEF DirTypes
      <4> QED BY <3>1, <4>2, <4>3 DEF DirTypes
    <3> QED
      BY <1>2, <1>3, <3>1, <3>2, <3>3, <3>5, SameRequests DEF SweepTypes, Files!sweepVars
  <2> QED BY <1>4, <1>6, <2>1 DEF Files!PromoteMoves
<1>7. CASE Files!PromoteEnds(r)
  <2>1. /\ prom' = [prom EXCEPT ![r] = Files!NoPromotion] /\ runs' = [runs EXCEPT ![r] = "live"]
        /\ UNCHANGED <<aged, gone>> /\ page' = Files!NewPage(page.visit + 1) /\ Files!Removed(t)
    BY <1>7 DEF Files!PromoteEnds
  <2>2. DirTypes' /\ exists' = exists \ {t}
    BY <1>1, <2>1, RemovedIsTyped
  <2>3. PromotionTypes'
    BY <1>0, <1>1, <2>1, <2>2, Numbers, NoPromotionIsTyped DEF PromotionTypes
  <2>4. page' \in PageType
    BY <2>1 DEF Files!NewPage, PageType, RequestTypes
  <2> QED
    BY <1>2, <2>1, <2>2, <2>3, <2>4 DEF RequestTypes, Files!Active, SweepTypes,
       Files!sweepVars
<1> QED BY <1>5, <1>6, <1>7 DEF Files!Promotion

\* Time, the sweeper and restarts.
LEMMA ServerTypes ==
  ASSUME Files!UploadsAssumption, FileTypes,
         \/ \E t \in Files!Tokens : Files!Judges(t) \/ Files!SweepsDraft(t)
         \/ \E d \in Files!Dirs : Files!SweepsParts(d)
         \/ Files!Day \/ Files!Restart
  PROVE  FileTypes'
<1> USE DEF FileTypes
<1>1. ASSUME NEW t \in Files!Tokens, Files!Judges(t)
      PROVE  FileTypes'
  <2>1. PromotionTypes' /\ SweepTypes'
    BY <1>1 DEF Files!Judges, PromotionTypes, SweepTypes, Files!dirVars
  <2> QED BY <1>1, <2>1, SameDirs, SameRequests DEF Files!Judges
<1>2. ASSUME NEW t \in Files!Tokens, Files!SweepsDraft(t)
      PROVE  FileTypes'
  <2>1. t \in Files!Dirs
    BY DEF Files!Dirs
  <2>2. DirTypes' /\ exists' = exists \ {t}
    BY <1>2, <2>1, RemovedIsTyped DEF Files!SweepsDraft
  <2>3. PromotionTypes'
    BY <1>2, <2>2, Numbers DEF Files!SweepsDraft, PromotionTypes
  <2>4. SweepTypes'
    BY <1>2, <2>1, FilesAreUploads DEF Files!SweepsDraft, SweepTypes
  <2> QED BY <1>2, <2>2, <2>3, <2>4, SameRequests DEF Files!SweepsDraft
<1>3. ASSUME NEW d \in Files!Dirs, Files!SweepsParts(d)
      PROVE  FileTypes'
  <2>1. DirTypes'
    BY <1>3, EmptyIsTyped DEF Files!SweepsParts, DirTypes
  <2>2. PromotionTypes' /\ SweepTypes'
    BY <1>3 DEF Files!SweepsParts, PromotionTypes, SweepTypes
  <2> QED BY <1>3, <2>1, <2>2, SameRequests DEF Files!SweepsParts
<1>4. CASE Files!Day
  <2>1. PromotionTypes' /\ SweepTypes'
    BY <1>4 DEF Files!Day, PromotionTypes, SweepTypes, Files!dirVars, Files!sweepVars,
       Files!Dirs
  <2> QED BY <1>4, <2>1, SameDirs, SameRequests DEF Files!Day
<1>5. CASE Files!Restart
  <2>1. /\ UNCHANGED <<Files!dirVars, runs, page, tokens, aged>>
        /\ ups' = [u \in Files!Uploads |-> IF Files!Active(u) THEN Files!Answered ELSE ups[u]]
        /\ prom' = [r \in Files!Runs |-> Files!NoPromotion]
    BY <1>5 DEF Files!Restart
  <2>2. RequestTypes'
    <3>1. \A u \in Files!Uploads : ups'[u] = IF Files!Active(u) THEN Files!Answered ELSE ups[u]
      BY <2>1
    <3>2. ups' \in [Files!Uploads -> UploadType]
      BY <2>1, AnsweredIsTyped DEF RequestTypes
    <3> QED BY <2>1, <3>1, <3>2, AnsweredIsTyped DEF RequestTypes, Files!Active
  <2>3. PromotionTypes'
    BY <2>1, NoPromotionIsTyped DEF PromotionTypes, Files!dirVars
  <2>4. SweepTypes'
    <3>1. gone' \subseteq Files!Uploads
      BY <1>5, FilesAreUploads DEF Files!Restart, SweepTypes, Files!Dirs
    <3> QED BY <1>5, <2>1, <3>1 DEF Files!Restart, SweepTypes, Files!PartDirs
  <2> QED BY <2>1, <2>2, <2>3, <2>4, SameDirs
<1> QED BY <1>1, <1>2, <1>3, <1>4, <1>5

LEMMA TypesStep ==
  ASSUME Files!UploadsAssumption, FileTypes, [Files!Next]_(Files!vars)
  PROVE  FileTypes'
<1>1. CASE UNCHANGED Files!vars
  BY <1>1, SameDirs, SameRequests DEF Files!vars, FileTypes, PromotionTypes, SweepTypes,
     Files!sweepVars, Files!dirVars
<1> QED
  BY <1>1, ArrivalTypes, UploadTypes, PageTypes, PromotionStepTypes, ServerTypes DEF
     Files!Next, Files!Handler

-----------------------------------------------------------------------------
\* What a step does to the names: it adds one that was free, takes some away, or
\* moves one from a draft to a name that is free in the run.
KeepsNames == \A d \in Files!Dirs, n \in Files!Names : names[d][n] # None =>
                names'[d][n] \in {names[d][n], None}

LEMMA UploadNames ==
  ASSUME Files!UploadsAssumption, FileTypes, NEW u \in Files!Uploads,
         Files!Starts(u) \/ Files!Breaks(u) \/ Files!Links(u) \/ Files!Retries(u)
         \/ Files!Unlinks(u)
  PROVE  \/ names' = names
         \/ \E n \in Files!Names, i \in Files!Inode :
              /\ ups[u].dir \in Files!Dirs /\ names[ups[u].dir][n] = None
              /\ names' = Files!Named(names, ups[u].dir, n, i)
              /\ \/ Files!Links(u) /\ n = ups[u].final /\ ups' = [ups EXCEPT ![u].pc = "linked"]
                 \/ Files!Retries(u) /\ ups' = [ups EXCEPT ![u].pc = "relinked"]
<1> DEFINE d == ups[u].dir
<1>1. d \in Files!Dirs /\ ups[u].final \in Files!Names /\ ups[u].name \in Files!Names
  BY DEF FileTypes, RequestTypes, UploadType, Files!Active, Files!Starts, Files!Breaks,
     Files!Links, Files!Retries, Files!Unlinks
<1>2. parts[d][ups[u].final] \in Files!Inode
  BY <1>1 DEF FileTypes, DirTypes
<1> QED
  BY <1>1, <1>2 DEF Files!Starts, Files!Breaks, Files!Links, Files!Retries,
     Files!Unlinks, Files!MayLink, Files!Step

LEMMA UploadKeepsNames ==
  ASSUME Files!UploadsAssumption, FileTypes, NEW u \in Files!Uploads,
         Files!Starts(u) \/ Files!Breaks(u) \/ Files!Links(u) \/ Files!Retries(u)
         \/ Files!Unlinks(u)
  PROVE  \A e \in Files!Dirs, k \in Files!Names : names[e][k] # None =>
           names'[e][k] = names[e][k]
<1>1. ASSUME NEW d \in Files!Dirs, NEW n \in Files!Names, NEW i \in Files!Inode,
             names[d][n] = None,
             names' = Files!Named(names, d, n, i)
      PROVE  \A e \in Files!Dirs, k \in Files!Names : names[e][k] # None =>
               names'[e][k] = names[e][k]
  <2>1. names \in [Files!Dirs -> [Files!Names -> Files!Inode]]
    BY DEF FileTypes, DirTypes
  <2>2. \A e \in Files!Dirs, k \in Files!Names :
          Files!Named(names, d, n, i)[e][k] = IF e = d /\ k = n THEN i ELSE names[e][k]
    BY <2>1 DEF Files!Named
  <2> QED BY <1>1, <2>2
<1> QED BY <1>1, UploadNames

LEMMA NamesStep ==
  ASSUME Files!UploadsAssumption, FileTypes, [Files!Next]_(Files!vars)
  PROVE  KeepsNames
<1>1. ASSUME NEW u \in Files!Uploads,
             Files!Starts(u) \/ Files!Breaks(u) \/ Files!Links(u) \/ Files!Retries(u)
             \/ Files!Unlinks(u)
      PROVE  KeepsNames
  BY <1>1, UploadKeepsNames DEF KeepsNames
<1>2. ASSUME NEW d \in Files!Dirs, Files!Removed(d)
      PROVE  KeepsNames
  BY <1>2 DEF Files!Removed, KeepsNames, Files!Empty, FileTypes, DirTypes
<1>3. ASSUME NEW r \in Files!Runs, Files!RollsBack(r)
      PROVE  KeepsNames
  BY <1>2, <1>3 DEF Files!RollsBack, Files!Dirs
<1>4. ASSUME NEW r \in Files!Runs, NEW n \in Files!Names, Files!PromoteMoves(r, n)
      PROVE  KeepsNames
  <2> DEFINE t == prom[r].token
             k == Files!Resolve(r, n)
  <2>1. CASE names[t][n] # None
    <3>1. /\ names' = [names EXCEPT ![t][n] = None, ![r][k] = names[t][n]]
          /\ k \in Files!Names \ Files!Taken(r)
      BY <1>4, <2>1 DEF Files!PromoteMoves, Files!NameLeft
    <3>2. names \in [Files!Dirs -> [Files!Names -> Files!Inode]] /\ r \in Files!Dirs
      BY DEF FileTypes, DirTypes, Files!Dirs
    <3>3. names[r][k] = None
      BY <3>1 DEF Files!Taken
    <3>4. t # r
      <4>1. prom[r] # Files!NoPromotion
        BY <1>4 DEF Files!PromoteMoves, Files!NoPromotion
      <4> QED BY <4>1, Numbers DEF FileTypes, PromotionTypes
    <3> HIDE DEF t, k
    <3> QED BY <3>1, <3>2, <3>3, <3>4 DEF KeepsNames
  <2> QED BY <1>3, <1>4, <2>1 DEF Files!PromoteMoves
<1>5. ASSUME NEW r \in Files!Runs, Files!PromoteReads(r) \/ Files!PromoteEnds(r)
      PROVE  KeepsNames
  <2>1. CASE Files!PromoteReads(r)
    BY <1>3, <2>1 DEF Files!PromoteReads, Files!dirVars, KeepsNames
  <2>2. CASE Files!PromoteEnds(r)
    <3>1. prom[r].token \in Files!Dirs
      BY <2>2 DEF Files!PromoteEnds, FileTypes, PromotionTypes, PromotionType, Files!Dirs
    <3> QED BY <1>2, <2>2, <3>1 DEF Files!PromoteEnds
  <2> QED BY <1>5, <2>1, <2>2
<1>6. ASSUME NEW d \in Files!Dirs, NEW n \in Files!Names, Files!Deletes(d, n)
      PROVE  KeepsNames
  <2>1. names' = Files!Named(names, d, n, None) /\ None \in Files!Inode
    BY <1>6 DEF Files!Deletes, Files!Inode
  <2>2. names \in [Files!Dirs -> [Files!Names -> Files!Inode]]
    BY DEF FileTypes, DirTypes
  <2> QED BY <2>1, <2>2, NameStep DEF KeepsNames
<1>7. ASSUME NEW t \in Files!Tokens, Files!SweepsDraft(t)
      PROVE  KeepsNames
  BY <1>2, <1>7 DEF Files!SweepsDraft, Files!Dirs
<1>8. CASE names' = names
  BY <1>8 DEF KeepsNames
<1> QED
  BY <1>1, <1>4, <1>5, <1>6, <1>7, <1>8 DEF Files!Next, Files!Handler, Files!Promotion,
     Files!PageUploads, Files!RunUploads, Files!Submit, Files!DeleteRun, Files!Judges,
     Files!SweepsParts, Files!Day, Files!Restart, Files!vars, Files!dirVars

-----------------------------------------------------------------------------
OnePromotion ==
  \A q \in Files!Runs, r \in Files!Runs : prom[q] # Files!NoPromotion
  /\ prom[r] # Files!NoPromotion => q = r

\* A file that the page shows is in its draft, or in the run that the draft is being
\* promoted into, unless it is gone.
PageAccounted ==
  \A f \in page.files :
    \/ f.inode \in gone \cup Files!Files(f.dir)
    \/ \E r \in Files!Runs : prom[r].token = f.dir /\ f.inode \in Files!Files(r)

\* A file that is to be promoted is in the run, or is to be moved yet.
PromotionAccounted ==
  \A r \in Files!Runs : prom[r].token # None => \A i \in prom[r].files :
    \/ i \in gone \cup Files!Files(r)
    \/ \E n \in (IF prom[r].read THEN prom[r].left ELSE Files!Names) :
         names[prom[r].token][n] = i

Accounted == OnePromotion /\ PageAccounted /\ PromotionAccounted

\* A step that takes no file away but into gone, and adds no promotion.
LEMMA AccountKeeps ==
  ASSUME Files!UploadsAssumption, FileTypes, Accounted, gone \subseteq gone',
         \A f \in page'.files : f \in page.files \/ f.inode \in Files!Files(f.dir)',
         \A d \in Files!Dirs, n \in Files!Names :
           names[d][n] # None => names'[d][n] = names[d][n] \/ names[d][n] \in gone',
         \A r \in Files!Runs :
           \/ prom'[r] = prom[r]
           \/ prom'[r] = Files!NoPromotion /\ Files!Files(r) \subseteq gone'
  PROVE  Accounted'
<1>1. ASSUME NEW d \in Files!Dirs, NEW i \in Files!Files(d)
      PROVE  i \in gone' \/ i \in Files!Files(d)'
  BY DEF Files!Files
<1>2. Files!NoPromotion.token = None
  BY DEF Files!NoPromotion
<1>3. OnePromotion'
  BY DEF Accounted, OnePromotion
<1>4. PageAccounted'
  <2> SUFFICES ASSUME NEW f \in page'.files, f \in page.files
               PROVE  \/ f.inode \in (gone \cup Files!Files(f.dir))'
                      \/ \E r \in Files!Runs : prom'[r].token = f.dir
                         /\ f.inode \in Files!Files(r)'
    BY DEF PageAccounted
  <2>1. f.dir \in Files!Dirs
    BY DEF FileTypes, RequestTypes, PageType, Files!Dirs
  <2>2. CASE f.inode \in gone \cup Files!Files(f.dir)
    BY <1>1, <2>1, <2>2
  <2>3. ASSUME NEW r \in Files!Runs, prom[r].token = f.dir, f.inode \in Files!Files(r)
        PROVE  f.inode \in gone' \/ (prom'[r].token = f.dir /\ f.inode \in Files!Files(r)')
    BY <1>1, <2>3 DEF Files!Dirs
  <2> QED BY <2>2, <2>3 DEF Accounted, PageAccounted
<1>5. PromotionAccounted'
  <2> SUFFICES ASSUME NEW r \in Files!Runs, prom'[r].token # None, NEW i \in prom'[r].files
               PROVE  \/ i \in (gone \cup Files!Files(r))'
                      \/ \E n \in (IF prom'[r].read THEN prom'[r].left ELSE Files!Names) :
                           names'[prom'[r].token][n] = i
    BY DEF PromotionAccounted
  <2>1. prom'[r] = prom[r] /\ r \in Files!Dirs /\ prom[r].token \in Files!Dirs
        /\ prom[r].left \subseteq Files!Names
    BY <1>2 DEF FileTypes, PromotionTypes, PromotionType, Files!Dirs
  <2>2. i \in Files!Uploads
    BY <2>1 DEF FileTypes, PromotionTypes, PromotionType
  <2>3. i # None
    BY <2>2, Numbers
  <2>4. CASE i \in gone \cup Files!Files(r)
    BY <1>1, <2>1, <2>4
  <2>5. ASSUME NEW n \in (IF prom[r].read THEN prom[r].left ELSE Files!Names),
               names[prom[r].token][n] = i
        PROVE  names'[prom[r].token][n] = i \/ i \in gone'
    BY <2>1, <2>3, <2>5
  <2> QED BY <2>1, <2>4, <2>5 DEF Accounted, PromotionAccounted
<1> QED BY <1>3, <1>4, <1>5 DEF Accounted

LEMMA AccountStep ==
  ASSUME Files!UploadsAssumption, OneSubmit, FileTypes, Accounted, Files!Next
  PROVE  Accounted'
<1>1. /\ names \in [Files!Dirs -> [Files!Names -> Files!Inode]]
         /\ prom \in [Files!Runs -> PromotionType]
      /\ page \in PageType /\ Files!NoPromotion.token = None /\ Files!NoPromotion.files = {}
  BY DEF FileTypes, DirTypes, PromotionTypes, RequestTypes, Files!NoPromotion
<1>2. ASSUME gone \subseteq gone', page' = page, prom' = prom,
             \A d \in Files!Dirs, n \in Files!Names :
               names[d][n] # None => names'[d][n] = names[d][n] \/ names[d][n] \in gone'
      PROVE  Accounted'
  BY <1>2, AccountKeeps
<1>3. ASSUME names' = names, page' = page, gone' = gone, prom' = prom
      PROVE  Accounted'
  BY <1>2, <1>3
<1>4. ASSUME NEW u \in Files!Uploads, Files!Handler(u) \/ Files!Breaks(u)
      PROVE  Accounted'
  <2>1. gone' = gone /\ prom' = prom
    BY <1>4 DEF Files!Handler, Files!Starts, Files!Breaks, Files!Links, Files!Retries,
       Files!Unlinks
  <2>2. \A d \in Files!Dirs, n \in Files!Names : names[d][n] # None =>
          names'[d][n] = names[d][n]
    BY <1>4, UploadKeepsNames DEF Files!Handler
  <2>3. CASE page' = page
    BY <1>2, <2>1, <2>2, <2>3
  <2>4. CASE page' # page
    <3>0. PICK d \in {ups[u].dir}, n \in {ups[u].name} : TRUE
      OBVIOUS
    <3>1. Files!Unlinks(u)
      BY <1>4, <2>4 DEF Files!Handler, Files!Starts, Files!Breaks, Files!Links,
         Files!Retries
    <3>2. d \in Files!Tokens /\ names[d][n] # None /\ page' = Files!Shown(u) /\ names' = names
      BY <2>4, <3>0, <3>1 DEF Files!Unlinks
    <3>3. n \in Files!Names
      BY <3>0 DEF FileTypes, RequestTypes, UploadType
    <3>4. \A f \in page'.files : f \in page.files \/ f = [dir |-> d, inode |-> names[d][n]]
      BY <1>1, <3>0, <3>2 DEF Files!Shown, PageType
    <3>5. names[d][n] \in Files!Files(d)'
      BY <3>2, <3>3 DEF Files!Files
    <3>6. \A f \in page'.files : f \in page.files \/ f.inode \in Files!Files(f.dir)'
      BY <3>4, <3>5
    <3> QED BY <2>1, <2>2, <3>6, AccountKeeps
  <2> QED BY <2>3, <2>4
<1>5. ASSUME NEW r \in Files!Runs, Files!Submit(r)
      PROVE  Accounted'
  <2>1. /\ names' = names /\ gone' = gone /\ \A q \in Files!Runs : prom[q] = Files!NoPromotion
    BY <1>5 DEF Files!Submit
  <2>2. \A f \in page.files : f.inode \in gone \cup Files!Files(f.dir)
    BY <1>1, <2>1, Numbers DEF Accounted, PageAccounted, PageType, Files!Dirs
  <2>3. CASE page.token = None
    <3>1. prom' = prom /\ page' = Files!NewPage(page.visit + 1)
      BY <1>5, <2>3 DEF Files!Submit
    <3>2. page'.files = {}
      BY <3>1 DEF Files!NewPage
    <3> QED BY <2>1, <3>1, <3>2, AccountKeeps
  <2>4. CASE page.token # None
    <3> DEFINE taken == {f.inode : f \in {g \in page.files : g.dir = page.token}}
    <3>1. PICK p \in {[token |-> page.token, read |-> FALSE, left |-> {}, files |-> taken]} :
            page' = page /\ prom' = [prom EXCEPT ![r] = p]
      BY <1>5, <2>4 DEF Files!Submit
    <3>2. p.token = page.token /\ p.read = FALSE /\ p.files = taken
      BY <3>1
    <3>3. \A i \in taken : i \in gone \/ \E n \in Files!Names : names[page.token][n] = i
      BY <2>2 DEF Files!Files
    <3>4. \A q \in Files!Runs : prom'[q] = IF q = r THEN p ELSE Files!NoPromotion
      BY <1>1, <2>1, <3>1
    <3>5. PromotionAccounted'
      BY <1>1, <2>1, <3>2, <3>3, <3>4 DEF PromotionAccounted
    <3>6. PageAccounted' /\ OnePromotion'
      BY <2>1, <2>2, <3>1, <3>4 DEF PageAccounted, OnePromotion, Files!Files
    <3> QED BY <3>5, <3>6 DEF Accounted
  <2> QED BY <2>3, <2>4
<1>6. ASSUME NEW r \in Files!Runs, Files!RollsBack(r)
      PROVE  Accounted'
  <2>1. /\ prom' = [prom EXCEPT ![r] = Files!NoPromotion] /\ page' = page
        /\ gone' = gone \cup Files!Files(r) /\ names' = [names EXCEPT ![r] = Files!Empty]
    BY <1>6 DEF Files!RollsBack, Files!Removed
  <2>2. \A d \in Files!Dirs, n \in Files!Names :
          names[d][n] # None => names'[d][n] = names[d][n] \/ names[d][n] \in gone'
    BY <1>1, <2>1 DEF Files!Files
  <2>3. \A q \in Files!Runs : prom'[q] = prom[q]
        \/ (prom'[q] = Files!NoPromotion /\ Files!Files(q) \subseteq gone')
    BY <1>1, <2>1
  <2> QED BY <2>1, <2>2, <2>3, AccountKeeps
<1>7. ASSUME NEW r \in Files!Runs, Files!PromoteReads(r)
      PROVE  Accounted'
  <2> DEFINE t == prom[r].token
  <2>1. CASE t \in exists
    <3>1. PICK p \in {[prom[r] EXCEPT !.read = TRUE, !.left = Files!Taken(t)]} :
            prom' = [prom EXCEPT ![r] = p]
      BY <1>7, <2>1 DEF Files!PromoteReads
    <3>2. UNCHANGED <<names, page, gone>> /\ ~prom[r].read
      BY <1>7, <2>1 DEF Files!PromoteReads, Files!dirVars
    <3>3. p.token = t /\ p.read = TRUE /\ p.left = Files!Taken(t) /\ p.files = prom[r].files
      BY <1>1, <3>1 DEF PromotionType
    <3>4. \A q \in Files!Runs : prom'[q].token = prom[q].token
      BY <1>1, <3>1, <3>3
    <3>5. \A q \in Files!Runs : q # r => prom'[q] = prom[q]
      BY <1>1, <3>1
    <3>6. PageAccounted'
      BY <3>2, <3>4 DEF Accounted, PageAccounted, Files!Files
    <3>7. OnePromotion'
      BY <1>1, <1>7, <3>5 DEF Accounted, OnePromotion, Files!PromoteReads
    <3>8. PromotionAccounted'
      <4> SUFFICES ASSUME NEW q \in Files!Runs, prom'[q].token # None, NEW i \in prom'[q].files
                   PROVE  \/ i \in (gone \cup Files!Files(q))'
                          \/ \E n \in (IF prom'[q].read THEN prom'[q].left ELSE Files!Names) :
                               names'[prom'[q].token][n] = i
        BY DEF PromotionAccounted
      <4>1. CASE q # r
        BY <3>2, <3>5, <4>1 DEF Accounted, PromotionAccounted, Files!Files
      <4>2. CASE q = r
        <5>1. prom'[r] = p /\ i \in prom[r].files /\ i # None
          BY <1>1, <3>1, <3>3, <4>2, Numbers DEF PromotionType
        <5>2. i \in gone \cup Files!Files(r) \/ \E n \in Files!Names : names[t][n] = i
          BY <3>2, <3>3, <3>4, <4>2, <5>1 DEF Accounted, PromotionAccounted
        <5> QED BY <3>2, <3>3, <4>2, <5>1, <5>2 DEF Files!Taken, Files!Files
      <4> QED BY <4>1, <4>2
    <3> QED BY <3>6, <3>7, <3>8 DEF Accounted
  <2> QED BY <1>6, <1>7, <2>1 DEF Files!PromoteReads
<1>8. ASSUME NEW r \in Files!Runs, NEW n \in Files!Names, Files!PromoteMoves(r, n)
      PROVE  Accounted'
  <2> DEFINE t == prom[r].token
             k == Files!Resolve(r, n)
  <2>1. CASE names[t][n] # None
    <3>1. /\ names' = [names EXCEPT ![t][n] = None, ![r][k] = names[t][n]]
          /\ k \in Files!Names \ Files!Taken(r) /\ UNCHANGED <<page, gone>>
      BY <1>8, <2>1 DEF Files!PromoteMoves, Files!NameLeft
    <3>2. PICK p \in {[prom[r] EXCEPT !.left = prom[r].left \ {n}]} :
            prom' = [prom EXCEPT ![r] = p]
      BY <1>1, <1>8, <2>1 DEF Files!PromoteMoves, PromotionType
    <3>3. p.token = t /\ p.read = prom[r].read /\ p.left = prom[r].left \ {n}
          /\ p.files = prom[r].files
      BY <1>1, <3>2 DEF PromotionType
    <3>4. prom[r] # Files!NoPromotion
      BY <1>8 DEF Files!PromoteMoves, Files!NoPromotion
    <3>5. t \in Files!Tokens /\ t \in Files!Dirs /\ r \in Files!Dirs /\ t # r
      BY <3>4, Numbers DEF FileTypes, PromotionTypes, Files!Dirs
    <3>6. \A q \in Files!Runs : q # r =>
            prom[q] = Files!NoPromotion /\ prom'[q] = Files!NoPromotion
      BY <1>1, <3>2, <3>4 DEF Accounted, OnePromotion
    <3>7. \A d \in Files!Dirs, m \in Files!Names :
            names'[d][m] = IF d = t /\ m = n THEN None
                           ELSE IF d = r /\ m = k THEN names[t][n] ELSE names[d][m]
      <4> HIDE DEF t, k
      <4> QED BY <1>1, <3>1, <3>5
    <3>8. names[r][k] = None
      BY <3>1 DEF Files!Taken
    <3>9. \A i : i \in Files!Files(r) \/ i = names[t][n] => i \in Files!Files(r)'
      <4>1. \A m \in Files!Names : names[r][m] # None => names'[r][m] = names[r][m]
        BY <3>5, <3>7, <3>8
      <4>2. names'[r][k] = names[t][n] /\ k \in Files!Names
        <5>1. k \in Files!Names
          BY <3>1
        <5> HIDE DEF t, k
        <5> QED BY <3>5, <3>7, <5>1
      <4> HIDE DEF t, k
      <4> QED BY <2>1, <4>1, <4>2 DEF Files!Files
    <3>10. prom'[r] = p
      BY <1>1, <3>2
    <3>11. OnePromotion'
      BY <3>6 DEF OnePromotion
    <3>12. PageAccounted'
      <4> SUFFICES ASSUME NEW f \in page.files
                   PROVE  \/ f.inode \in gone \/ f.inode \in Files!Files(f.dir)'
                          \/ \E q \in Files!Runs : prom'[q].token = f.dir
                             /\ f.inode \in Files!Files(q)'
        BY <3>1 DEF PageAccounted
      <4>1. f.dir \in Files!Tokens /\ f.dir \in Files!Dirs /\ f.dir # r /\ f.dir # None
        BY <1>1, Numbers DEF PageType, Files!Dirs
      <4>2. CASE f.inode \in Files!Files(f.dir)
        <5>1. PICK m \in Files!Names : names[f.dir][m] = f.inode /\ f.inode # None
          BY <4>2 DEF Files!Files
        <5>2. CASE f.dir = t /\ m = n
          BY <3>3, <3>9, <3>10, <5>1, <5>2
        <5>3. CASE ~(f.dir = t /\ m = n)
          <6>1. names'[f.dir][m] = f.inode
            BY <3>7, <4>1, <5>1, <5>3
          <6> QED BY <5>1, <6>1 DEF Files!Files
        <5> QED BY <5>2, <5>3
      <4>3. ASSUME NEW q \in Files!Runs, prom[q].token = f.dir, f.inode \in Files!Files(q)
            PROVE  prom'[q].token = f.dir /\ f.inode \in Files!Files(q)'
        BY <1>1, <3>3, <3>6, <3>9, <3>10, <4>1, <4>3
      <4> QED BY <4>2, <4>3 DEF Accounted, PageAccounted
    <3>13. PromotionAccounted'
      <4>1. prom[r].read /\ p.read
        BY <1>8, <3>3 DEF FileTypes, PromotionTypes, Files!PromoteMoves
      <4>2. ASSUME NEW i \in prom[r].files
            PROVE  i \in gone \/ i \in Files!Files(r)' \/ \E m \in p.left : names'[t][m] = i
        <5>1. CASE i \in gone \cup Files!Files(r)
          BY <3>9, <5>1
        <5>2. ASSUME NEW m \in prom[r].left, names[t][m] = i
              PROVE  i \in Files!Files(r)' \/ (m \in p.left /\ names'[t][m] = i)
          <6>1. m \in Files!Names
            BY <1>1 DEF PromotionType
          <6> QED BY <3>3, <3>5, <3>7, <3>9, <5>2, <6>1
        <5>3. t # None
          BY <3>5, Numbers
        <5> QED BY <4>1, <5>1, <5>2, <5>3 DEF Accounted, PromotionAccounted
      <4>3. \A q \in Files!Runs : prom'[q].token # None => q = r
        BY <1>1, <3>6
      <4>4. ASSUME NEW q \in Files!Runs, prom'[q].token # None, NEW i \in prom'[q].files
            PROVE  \/ i \in (gone \cup Files!Files(q))'
                   \/ \E m \in (IF prom'[q].read THEN prom'[q].left ELSE Files!Names) :
                        names'[prom'[q].token][m] = i
        <5>1. q = r /\ prom'[q] = p /\ i \in prom[r].files
          BY <3>3, <3>10, <4>3, <4>4
        <5>2. CASE i \in gone \/ i \in Files!Files(r)'
          BY <3>1, <5>1, <5>2
        <5>3. CASE \E m \in p.left : names'[t][m] = i
          BY <3>3, <4>1, <5>1, <5>3
        <5> QED BY <4>2, <5>1, <5>2, <5>3
      <4> QED BY <4>4 DEF PromotionAccounted
    <3> QED BY <3>11, <3>12, <3>13 DEF Accounted
  <2> QED BY <1>6, <1>8, <2>1 DEF Files!PromoteMoves
<1>9. ASSUME NEW r \in Files!Runs, Files!PromoteEnds(r)
      PROVE  Accounted'
  <2>1. prom' = [prom EXCEPT ![r] = Files!NoPromotion] /\ page' = Files!NewPage(page.visit + 1)
    BY <1>9 DEF Files!PromoteEnds
  <2>2. page'.files = {} /\ \A q \in Files!Runs : prom'[q] = Files!NoPromotion
    BY <1>1, <1>9, <2>1 DEF Accounted, OnePromotion, Files!NewPage, Files!PromoteEnds
  <2> QED
    BY <1>1, <2>2 DEF Accounted, OnePromotion, PageAccounted, PromotionAccounted
<1>10. ASSUME NEW d \in Files!Dirs, NEW n \in Files!Names, Files!Deletes(d, n)
       PROVE  Accounted'
  <2>1. \A e \in Files!Dirs, m \in Files!Names :
          names[e][m] # None => names'[e][m] = names[e][m] \/ names[e][m] \in gone'
    <3>1. names' = Files!Named(names, d, n, None) /\ gone' = gone \cup {names[d][n]}
      BY <1>10 DEF Files!Deletes
    <3>2. \A e \in Files!Dirs, m \in Files!Names :
            names'[e][m] = IF e = d /\ m = n THEN None ELSE names[e][m]
      BY <1>1, <3>1, NameStep DEF Files!Inode
    <3> QED BY <3>1, <3>2
  <2> QED BY <1>2, <1>10, <2>1 DEF Files!Deletes
<1>11. ASSUME NEW t \in Files!Tokens, Files!SweepsDraft(t)
       PROVE  Accounted'
  <2>1. \A e \in Files!Dirs, m \in Files!Names :
          names[e][m] # None => names'[e][m] = names[e][m] \/ names[e][m] \in gone'
    BY <1>1, <1>11 DEF Files!SweepsDraft, Files!Removed, Files!Files, Files!Dirs
  <2> QED BY <1>2, <1>11, <2>1 DEF Files!SweepsDraft
<1>12. CASE Files!Restart
  <2>1. /\ names' = names /\ page' = page /\ prom' = [r \in Files!Runs |-> Files!NoPromotion]
        /\ gone' = gone \cup UNION {Files!Files(r) :
                                      r \in {q \in Files!Runs : prom[q] # Files!NoPromotion}}
    BY <1>12 DEF Files!Restart, Files!dirVars
  <2>2. \A r \in Files!Runs :
          \/ prom'[r] = prom[r]
          \/ prom'[r] = Files!NoPromotion /\ Files!Files(r) \subseteq gone'
    BY <2>1
  <2> QED BY <2>1, <2>2, AccountKeeps
<1>13. ASSUME NEW r \in Files!Runs, Files!Promotion(r)
       PROVE  Accounted'
  BY <1>7, <1>8, <1>9, <1>13 DEF Files!Promotion
<1> QED
  BY <1>3, <1>4, <1>5, <1>10, <1>11, <1>12, <1>13 DEF Files!Next, Files!PageUploads,
     Files!RunUploads, Files!DeleteRun, Files!Judges, Files!SweepsParts, Files!Day,
     Files!dirVars

LEMMA LaunchedStep ==
  ASSUME Files!UploadsAssumption, FileTypes, Accounted, Files!Next
  PROVE  \A r \in Files!Runs : prom[r].token # None /\ runs'[r] = "live"
           => prom[r].files \subseteq {names'[r][n] : n \in Files!Names} \cup gone
<1> SUFFICES ASSUME NEW r \in Files!Runs, prom[r].token # None, runs'[r] = "live"
             PROVE  prom[r].files \subseteq {names'[r][n] : n \in Files!Names} \cup gone
  OBVIOUS
<1>1. runs[r] = "queued" /\ prom[r].token # r /\ prom[r] # Files!NoPromotion
      /\ runs \in [Files!Runs -> {"none", "queued", "live"}]
  BY Numbers, NoPromotionIsTyped DEF FileTypes, PromotionTypes
<1>2. Files!PromoteEnds(r)
  <2>1. ASSUME NEW q \in Files!Runs, Files!Submit(q)
        PROVE  FALSE
    BY <1>1, <2>1 DEF Files!Submit
  <2>2. ASSUME NEW q \in Files!Runs, Files!RollsBack(q)
        PROVE  FALSE
    BY <1>1, <2>2 DEF Files!RollsBack
  <2>3. ASSUME NEW q \in Files!Runs,
               Files!PromoteReads(q) \/ \E n \in Files!Names : Files!PromoteMoves(q, n)
        PROVE  FALSE
    BY <1>1, <2>2, <2>3 DEF Files!PromoteReads, Files!PromoteMoves
  <2>4. ASSUME NEW q \in Files!Runs, Files!PromoteEnds(q)
        PROVE  q = r
    BY <1>1, <2>4 DEF Files!PromoteEnds
  <2>5. ASSUME NEW q \in Files!Runs, Files!DeleteRun(q)
        PROVE  FALSE
    BY <1>1, <2>5 DEF Files!DeleteRun
  <2>6. runs' # runs
    BY <1>1
  <2> QED
    BY <2>1, <2>3, <2>4, <2>5, <2>6 DEF Files!Next, Files!Handler, Files!Promotion,
       Files!Starts, Files!Breaks, Files!Links, Files!Retries, Files!Unlinks,
       Files!PageUploads, Files!RunUploads, Files!Deletes, Files!Judges,
       Files!SweepsDraft, Files!SweepsParts, Files!Day, Files!Restart
<1>3. prom[r].read /\ prom[r].left = {} /\ names'[r] = names[r]
  BY <1>1, <1>2 DEF Files!PromoteEnds, Files!AllMoved, Files!Removed, FileTypes,
     DirTypes, Files!Dirs
<1>4. prom[r].files \subseteq gone \cup Files!Files(r)
  BY <1>3 DEF Accounted, PromotionAccounted
<1> QED BY <1>3, <1>4 DEF Files!Files

-----------------------------------------------------------------------------
\* Only a .part that a start-up has not swept yet is nobody's.
Has(u) == ups[u].pc \in {"open", "retry", "linked", "relinked"}

PartsAreOwned ==
  \A d \in Files!Dirs \ sweeping, n \in Files!Names :
    parts[d][n] # None => \E u \in Files!Uploads : Has(u) /\ ups[u].dir = d /\ ups[u].final = n

\* The .parts of u may go with it, others' uploads stay what they are.
LEMMA PartsKeep ==
  ASSUME PartsAreOwned, sweeping \subseteq sweeping',
         \A d \in Files!Dirs, n \in Files!Names : parts'[d][n] # None => parts[d][n] # None,
         \A u \in Files!Uploads : Has(u) =>
           \/ Has(u)' /\ ups'[u].dir = ups[u].dir /\ ups'[u].final = ups[u].final
           \/ parts'[ups[u].dir][ups[u].final] = None
  PROVE  PartsAreOwned'
BY DEF PartsAreOwned

LEMMA PartsStep ==
  ASSUME Files!UploadsAssumption, FileTypes, PartsAreOwned, [Files!Next]_(Files!vars)
  PROVE  PartsAreOwned'
<1>1. /\ parts \in [Files!Dirs -> [Files!Names -> Files!Inode]]
         /\ ups \in [Files!Uploads -> UploadType]
      /\ Files!Answered.pc = "over" /\ \A u \in Files!Uploads : Has(u) =>
           ups[u].dir \in Files!Dirs
  BY AnsweredIsTyped DEF FileTypes, DirTypes, RequestTypes, Has, Files!Active
<1>2. ASSUME ups' = ups, sweeping' = sweeping,
             parts' = parts \/ \E d \in Files!Dirs : parts' = [parts EXCEPT ![d] = Files!Empty]
      PROVE  PartsAreOwned'
  <2>1. \A d \in Files!Dirs, n \in Files!Names : parts'[d][n] # None => parts[d][n] # None
    BY <1>1, <1>2 DEF Files!Empty
  <2> QED BY <1>2, <2>1, PartsKeep DEF Has
<1>3. ASSUME NEW u \in Files!Uploads, sweeping' = sweeping,
             \/ parts' = parts
             \/ parts' = Files!Named(parts, ups[u].dir, ups[u].final, None)
                /\ ups[u].dir \in Files!Dirs,
             \A v \in Files!Uploads : v # u =>
               ups'[v].pc = ups[v].pc /\ ups'[v].dir = ups[v].dir
                                         /\ ups'[v].final = ups[v].final,
             \/ ~Has(u)
             \/ Has(u)' /\ ups'[u].dir = ups[u].dir /\ ups'[u].final = ups[u].final
             \/ parts'[ups[u].dir][ups[u].final] = None
      PROVE  PartsAreOwned'
  <2>1. \A d \in Files!Dirs, n \in Files!Names : parts'[d][n] # None => parts[d][n] # None
    BY <1>1, <1>3 DEF Files!Named
  <2> QED BY <1>3, <2>1, PartsKeep DEF Has
<1>4. ASSUME NEW u \in Files!Uploads,
             (\E t \in Files!Tokens : Files!PageUploads(u, t))
             \/ (\E r \in Files!Runs : Files!RunUploads(u, r))
      PROVE  PartsAreOwned'
  <2>1. PICK d \in Files!Dirs, visit \in Nat : Files!Arrives(u, d, visit)
    BY <1>4 DEF Files!PageUploads, Files!RunUploads, Files!Dirs, FileTypes, RequestTypes,
       PageType
  <2>2. parts' = parts /\ sweeping' = sweeping /\ ~Has(u)
    BY <1>4 DEF Files!PageUploads, Files!RunUploads, Files!sweepVars, Has
  <2> QED BY <1>3, <2>1, <2>2, ArrivesIsTyped DEF FileTypes
<1>5. ASSUME NEW u \in Files!Uploads, Files!Handler(u) \/ Files!Breaks(u)
      PROVE  PartsAreOwned'
  <2> DEFINE d == ups[u].dir
             n == ups[u].final
  <2>1. d \in Files!Dirs /\ n \in Files!Names /\ sweeping' = sweeping /\ ups[u] \in UploadType
    BY <1>5 DEF Files!Handler, Files!Starts, Files!Breaks, Files!Links, Files!Retries,
       Files!Unlinks, Files!sweepVars, FileTypes, RequestTypes, UploadType, Files!Active
  <2>2. Files!Named(parts, d, n, None)[d][n] = None
    BY <1>1, <2>1 DEF Files!Named
  <2>3. ASSUME ups' = [ups EXCEPT ![u] = Files!Answered],
               \/ parts' = Files!Named(parts, d, n, None)
               \/ parts' = parts /\ (~Has(u) \/ parts[d][n] = None)
        PROVE  PartsAreOwned'
    BY <1>1, <1>3, <2>1, <2>2, <2>3
  <2>4. ASSUME NEW r \in UploadType, ups' = [ups EXCEPT ![u] = r], parts' = parts,
               r.dir = d, r.final = n, r.pc \in {"open", "retry", "linked", "relinked"}
        PROVE  PartsAreOwned'
    <3>1. Has(u)' /\ ups'[u].dir = d /\ ups'[u].final = n
      BY <1>1, <2>4 DEF Has
    <3> QED BY <1>1, <1>3, <2>1, <2>4, <3>1
  <2>5. ASSUME Files!NextTry(u)
        PROVE  PartsAreOwned'
    <3>1. CASE ups[u].tries + 1 < Files!LinkTries
      <4>1. PICK r \in {[ups[u] EXCEPT !.pc = "open", !.tries = ups[u].tries + 1]} :
              ups' = [ups EXCEPT ![u] = r] /\ parts' = parts
        BY <1>1, <2>5, <3>1 DEF Files!NextTry, UploadType
      <4>2. ups[u].tries + 1 \in {0, 1, 2}
        BY <2>1, <3>1 DEF Files!LinkTries, UploadType
      <4>3. r \in UploadType /\ r.dir = d /\ r.final = n /\ r.pc = "open"
        BY <2>1, <4>1, <4>2 DEF UploadType, Pcs
      <4> QED BY <2>4, <4>1, <4>3
    <3>2. CASE ~(ups[u].tries + 1 < Files!LinkTries)
      BY <2>3, <2>5, <3>2 DEF Files!NextTry, Files!Over
    <3> QED BY <3>1, <3>2
  <2>6. ASSUME NEW to \in {"linked", "relinked"}, ups' = [ups EXCEPT ![u].pc = to],
               parts' = parts
        PROVE  PartsAreOwned'
    <3>1. PICK r \in {[ups[u] EXCEPT !.pc = to]} : ups' = [ups EXCEPT ![u] = r]
      BY <2>6
    <3>2. r \in UploadType /\ r.dir = d /\ r.final = n /\ r.pc = to
      BY <2>1, <3>1 DEF UploadType, Pcs
    <3> QED BY <2>4, <2>6, <3>1, <3>2
  <2>7. CASE Files!Starts(u)
    <3> DEFINE k == Files!Resolve(d, 0)
    <3>1. CASE d \in exists /\ Files!HasRoom(d)
      <4>1. /\ k \in Files!Names
               /\ parts' = (IF parts[d][k] = None THEN Files!Named(parts, d, k, u) ELSE parts)
        BY <2>7, <3>1 DEF Files!Starts, Files!NameLeft
      <4>2. PICK r \in {[ups[u] EXCEPT !.pc = "open", !.final = k, !.name = k]} :
              ups' = [ups EXCEPT ![u] = r]
        BY <2>7, <3>1 DEF Files!Starts
      <4>3. ups'[u].dir = d /\ ups'[u].final = k /\ Has(u)' /\ \A v \in Files!Uploads : v # u =>
              ups'[v] = ups[v]
        BY <1>1, <2>1, <4>2 DEF UploadType, Has
      <4>4. ~Has(u)
        BY <2>7 DEF Files!Starts, Has
      <4>5. ASSUME NEW e \in Files!Dirs \ sweeping, NEW m \in Files!Names, parts'[e][m] # None
            PROVE  \E v \in Files!Uploads : Has(v)' /\ ups'[v].dir = e /\ ups'[v].final = m
        <5>1. CASE e = d /\ m = k
          BY <4>3, <5>1
        <5>2. CASE ~(e = d /\ m = k)
          <6>1. parts[e][m] # None
            <7> HIDE DEF d, k
            <7> QED BY <1>1, <2>1, <4>1, <4>5, <5>2 DEF Files!Named
          <6>2. PICK v \in Files!Uploads : Has(v) /\ ups[v].dir = e /\ ups[v].final = m
            BY <6>1 DEF PartsAreOwned
          <6> QED BY <4>3, <4>4, <6>2 DEF Has
        <5> QED BY <5>1, <5>2
      <4> QED BY <2>1, <4>5 DEF PartsAreOwned
    <3>2. CASE ~(d \in exists /\ Files!HasRoom(d))
      BY <2>3, <2>7, <3>2 DEF Files!Starts, Files!Over, Has
    <3> QED BY <3>1, <3>2
  <2>8. CASE Files!Breaks(u)
    BY <2>3, <2>8 DEF Files!Breaks, Files!Over
  <2>9. CASE Files!Links(u)
    <3>1. CASE d \in exists /\ parts[d][n] # None /\ ~Files!MayLink(d, n)
      <4>1. /\ ups' = [ups EXCEPT ![u].pc = "retry", ![u].name = Files!Resolve(d, 0)]
               /\ parts' = parts
            /\ Files!Resolve(d, 0) \in Files!Names
        BY <2>9, <3>1 DEF Files!Links, Files!NameLeft
      <4>2. PICK r \in {[ups[u] EXCEPT !.pc = "retry", !.name = Files!Resolve(d, 0)]} :
              ups' = [ups EXCEPT ![u] = r]
        BY <4>1
      <4>3. r \in UploadType /\ r.dir = d /\ r.final = n /\ r.pc = "retry"
        BY <2>1, <4>1, <4>2 DEF UploadType, Pcs
      <4> QED BY <2>4, <4>1, <4>2, <4>3
    <3> QED BY <2>3, <2>6, <2>9, <3>1 DEF Files!Links, Files!Step, Files!Over
  <2>10. CASE Files!Retries(u)
    BY <2>5, <2>6, <2>10 DEF Files!Retries, Files!Step
  <2>11. CASE Files!Unlinks(u)
    BY <2>3, <2>5, <2>11 DEF Files!Unlinks, Files!Over
  <2> QED BY <1>5, <2>7, <2>8, <2>9, <2>10, <2>11 DEF Files!Handler
<1>6. ASSUME NEW d \in Files!Dirs, Files!SweepsParts(d)
      PROVE  PartsAreOwned'
  <2>1. parts' = [parts EXCEPT ![d] = Files!Empty] /\ sweeping' = sweeping \ {d} /\ ups' = ups
    BY <1>6 DEF Files!SweepsParts
  <2>2. \A e \in Files!Dirs, n \in Files!Names : parts'[e][n] # None =>
          e # d /\ parts[e][n] # None
    BY <1>1, <2>1 DEF Files!Empty
  <2> QED BY <2>1, <2>2 DEF PartsAreOwned, Has
<1>7. CASE Files!Restart
  BY <1>7 DEF Files!Restart, Files!PartDirs, PartsAreOwned
<1>8. ASSUME NEW r \in Files!Runs, Files!Promotion(r)
      PROVE  PartsAreOwned'
  <2>1. ups' = ups /\ sweeping' = sweeping /\ r \in Files!Dirs
    BY <1>8 DEF Files!Promotion, Files!PromoteReads, Files!PromoteMoves,
       Files!PromoteEnds, Files!sweepVars, Files!Dirs
  <2>2. CASE Files!PromoteEnds(r)
    <3>1. prom[r].token \in Files!Dirs
      BY <2>2 DEF Files!PromoteEnds, FileTypes, PromotionTypes, PromotionType, Files!Dirs
    <3> QED BY <1>2, <2>1, <2>2, <3>1 DEF Files!PromoteEnds, Files!Removed
  <2> QED
    BY <1>2, <1>8, <2>1, <2>2 DEF Files!Promotion, Files!PromoteReads,
       Files!PromoteMoves, Files!RollsBack, Files!Removed, Files!dirVars
<1>9. ASSUME NEW t \in Files!Tokens, Files!Judges(t) \/ Files!SweepsDraft(t)
      PROVE  PartsAreOwned'
  BY <1>2, <1>9 DEF Files!Judges, Files!SweepsDraft, Files!Removed, Files!Dirs,
     Files!dirVars
<1> QED
  BY <1>2, <1>4, <1>5, <1>6, <1>7, <1>8, <1>9 DEF Files!Next, Files!Submit,
     Files!DeleteRun, Files!Deletes, Files!Day, Files!vars, Files!dirVars,
     Files!sweepVars

-----------------------------------------------------------------------------
\* An upload that is alone in a draft found room when it opened its .part, and
\* nobody has taken the room, or the name, since.
RoomOf(u) ==
  /\ ups[u].pc \notin {"retry", "relinked"}
  /\ \A v \in Files!Uploads : v # u /\ Files!Active(v) => ups[v].dir # ups[u].dir
  /\ ups[u].pc = "open" =>
       Files!Bytes(ups[u].dir) < Quota /\ names[ups[u].dir][ups[u].final] = None

AloneHasRoom ==
  \A u \in Files!Uploads : Files!Active(u) /\ ups[u].alone /\ ups[u].dir \in Files!Tokens =>
    RoomOf(u)

\* FiniteSets as Uploads has it.
LEMMA SameCardinality == \A S : Files!Cardinality(S) = Cardinality(S)
BY DEF Cardinality, Files!Cardinality, IsFiniteSet, Files!IsFiniteSet

LEMMA FewerBytes ==
  ASSUME Files!UploadsAssumption, NEW d, Files!Taken(d)' \subseteq Files!Taken(d)
  PROVE  Files!Bytes(d) \in Nat /\ Files!Bytes(d)' \in Nat /\ Files!Bytes(d)' <= Files!Bytes(d)
<1>1. IsFiniteSet(Files!Names)
  BY FS_Interval DEF Files!Names, Files!UploadsAssumption
<1>2. IsFiniteSet(Files!Taken(d)) /\ IsFiniteSet(Files!Taken(d)')
  BY <1>1, FS_Subset DEF Files!Taken
<1> QED BY <1>2, SameCardinality, FS_Subset, FS_CardinalityType DEF Files!Bytes

\* A step that adds nothing to drafts, and leaves what is under way to itself.
LEMMA RoomKeeps ==
  ASSUME Files!UploadsAssumption, FileTypes, AloneHasRoom,
         \A d \in Files!Tokens, n \in Files!Names : names[d][n] = None => names'[d][n] = None,
         \A u \in Files!Uploads : Files!Active(u)' =>
           /\ ups'[u].pc = ups[u].pc /\ ups'[u].dir = ups[u].dir /\ ups'[u].final = ups[u].final
           /\ ups'[u].alone => ups[u].alone
  PROVE  AloneHasRoom'
<1> SUFFICES ASSUME NEW u \in Files!Uploads, Files!Active(u)', ups'[u].alone,
                    ups'[u].dir \in Files!Tokens
             PROVE  RoomOf(u)'
  BY DEF AloneHasRoom
<1>1. PICK d \in Files!Tokens, n \in Files!Names : d = ups[u].dir /\ n = ups[u].final
  BY DEF FileTypes, RequestTypes, UploadType
<1>2. RoomOf(u) /\ Files!Active(u)
  BY DEF AloneHasRoom, Files!Active
<1>3. \A v \in Files!Uploads : v # u /\ Files!Active(v)' => ups'[v].dir # ups'[u].dir
  BY <1>2 DEF RoomOf, Files!Active
<1>4. Files!Taken(d)' \subseteq Files!Taken(d)
  BY DEF Files!Taken
<1>5. Files!Bytes(d)' <= Files!Bytes(d) /\ Files!Bytes(d) \in Nat /\ Files!Bytes(d)' \in Nat
      /\ Quota \in Nat
  BY <1>4, FewerBytes DEF Files!UploadsAssumption
<1>6. ups'[u].dir = d /\ ups'[u].final = n /\ ups'[u].pc = ups[u].pc
  BY <1>1
<1>7. ups[u].pc = "open" => Files!Bytes(d)' < Quota /\ names'[d][n] = None
  BY <1>1, <1>2, <1>5 DEF RoomOf
<1> QED BY <1>2, <1>3, <1>6, <1>7 DEF RoomOf

LEMMA RoomStep ==
  ASSUME Files!UploadsAssumption, FileTypes, AloneHasRoom, [Files!Next]_(Files!vars)
  PROVE  AloneHasRoom'
<1>1. /\ names \in [Files!Dirs -> [Files!Names -> Files!Inode]]
         /\ ups \in [Files!Uploads -> UploadType]
      /\ Files!Answered.pc = "over"
  BY AnsweredIsTyped DEF FileTypes, DirTypes, RequestTypes
<1>2. ASSUME NEW u \in Files!Uploads,
             \A v \in Files!Uploads : v # u => ups'[v] = ups[v],
             \A d \in Files!Dirs : d # ups[u].dir => names'[d] = names[d],
             Files!Active(u), Files!Active(u)' => ups'[u].dir = ups[u].dir,
             Files!Active(u)' /\ ups'[u].alone /\ ups[u].dir \in Files!Tokens =>
               /\ ups[u].alone
               /\ ups'[u].pc \notin {"retry", "relinked"}
               /\ ups'[u].pc = "open" =>
                    /\ names' = names
                    /\ Files!Bytes(ups[u].dir) < Quota
                       /\ names[ups[u].dir][ups'[u].final] = None
      PROVE  AloneHasRoom'
  <2> SUFFICES ASSUME NEW w \in Files!Uploads, Files!Active(w)', ups'[w].alone,
                      ups'[w].dir \in Files!Tokens
               PROVE  RoomOf(w)'
    BY DEF AloneHasRoom
  <2>1. \A d : names' = names => Files!Bytes(d)' = Files!Bytes(d)
    BY DEF Files!Bytes, Files!Taken
  <2>2. CASE w = u
    <3>1. RoomOf(u) /\ ups'[u].dir = ups[u].dir
      BY <1>2, <2>2 DEF AloneHasRoom
    <3>2. \A v \in Files!Uploads : v # u /\ Files!Active(v)' => ups'[v].dir # ups'[u].dir
      BY <1>2, <3>1 DEF RoomOf, Files!Active
    <3>3. PICK d \in {ups[u].dir}, n \in {ups'[u].final} :
            /\ ups'[u].pc \notin {"retry", "relinked"}
            /\ ups'[u].pc = "open" =>
                 names' = names /\ Files!Bytes(d) < Quota /\ names[d][n] = None
      BY <1>2, <2>2, <3>1
    <3> QED BY <1>2, <2>1, <2>2, <3>1, <3>2, <3>3 DEF RoomOf
  <2>3. CASE w # u
    <3>1. ups'[w] = ups[w] /\ RoomOf(w) /\ Files!Active(w)
      BY <1>2, <2>3 DEF AloneHasRoom, Files!Active
    <3>2. \A v \in Files!Uploads : v # w /\ Files!Active(v)' => ups'[v].dir # ups'[w].dir
      BY <1>2, <3>1 DEF RoomOf, Files!Active
    <3>3. PICK d \in {ups[w].dir} : ups[w].pc = "open" => Files!Bytes(d) < Quota
      BY <3>1 DEF RoomOf
    <3>4. d # ups[u].dir /\ d \in Files!Dirs
      BY <1>2, <2>3, <3>1, <3>3 DEF RoomOf, FileTypes, RequestTypes
    <3>5. names'[d] = names[d] /\ Files!Bytes(d)' = Files!Bytes(d)
      BY <1>2, <3>4 DEF Files!Bytes, Files!Taken
    <3> QED BY <3>1, <3>2, <3>3, <3>5 DEF RoomOf
  <2> QED BY <2>2, <2>3
<1>3. ASSUME NEW u \in Files!Uploads,
             (\E t \in Files!Tokens : Files!PageUploads(u, t))
             \/ (\E r \in Files!Runs : Files!RunUploads(u, r))
      PROVE  AloneHasRoom'
  <2>1. PICK d \in Files!Dirs, visit \in Nat : Files!Arrives(u, d, visit)
    BY <1>3 DEF Files!PageUploads, Files!RunUploads, Files!Dirs, FileTypes, RequestTypes,
       PageType
  <2>2. names' = names
    BY <1>3 DEF Files!PageUploads, Files!RunUploads
  <2>3. \A e : Files!Bytes(e)' = Files!Bytes(e)
    BY <2>2 DEF Files!Bytes, Files!Taken
  <2>4. \A v \in Files!Uploads : v # u =>
          /\ ups'[v].pc = ups[v].pc /\ ups'[v].dir = ups[v].dir /\ ups'[v].final = ups[v].final
          /\ ups'[v].alone => ups[v].alone /\ (Files!Active(v) => ups[v].dir # d)
    BY <2>1, ArrivesIsTyped DEF FileTypes
  <2>5. /\ ups'[u].pc = "arrived" /\ ups'[u].dir = d
        /\ ups'[u].alone => \A v \in Files!Uploads : Files!Active(v) => ups[v].dir # d
    BY <2>1, ArrivesIsTyped DEF FileTypes
  <2> SUFFICES ASSUME NEW w \in Files!Uploads, Files!Active(w)', ups'[w].alone,
                      ups'[w].dir \in Files!Tokens
               PROVE  RoomOf(w)'
    BY DEF AloneHasRoom
  <2>6. CASE w = u
    BY <2>4, <2>5, <2>6 DEF RoomOf, Files!Active
  <2>7. CASE w # u
    <3>1. RoomOf(w) /\ ups[w].dir # d
      BY <2>4, <2>7 DEF AloneHasRoom, Files!Active
    <3>2. \A v \in Files!Uploads : v # w /\ Files!Active(v)' => ups'[v].dir # ups'[w].dir
      BY <2>4, <2>5, <2>7, <3>1 DEF RoomOf, Files!Active
    <3>3. PICK e \in {ups[w].dir} : ups[w].pc = "open" => Files!Bytes(e) < Quota
      BY <3>1 DEF RoomOf
    <3> QED BY <2>2, <2>3, <2>4, <2>7, <3>1, <3>2, <3>3 DEF RoomOf
  <2> QED BY <2>6, <2>7
<1>4. ASSUME NEW u \in Files!Uploads, Files!Handler(u) \/ Files!Breaks(u)
      PROVE  AloneHasRoom'
  <2> DEFINE d == ups[u].dir
             n == ups[u].final
  <2>1. d \in Files!Dirs /\ n \in Files!Names /\ ups[u] \in UploadType /\ Files!Active(u)
    BY <1>4 DEF Files!Handler, Files!Starts, Files!Breaks, Files!Links, Files!Retries,
       Files!Unlinks, FileTypes, RequestTypes, UploadType, Files!Active
  <2>2. ASSUME NEW r \in UploadType, ups' = [ups EXCEPT ![u] = r],
               \A e \in Files!Dirs : e # d => names'[e] = names[e],
               \/ r.pc = "over"
               \/ /\ r.dir = d /\ r.alone = ups[u].alone
                  /\ ups[u].alone /\ d \in Files!Tokens =>
                       /\ r.pc \notin {"retry", "relinked"}
                       /\ r.pc = "open" =>
                            names' = names /\ Files!Bytes(d) < Quota /\ names[d][r.final] = None
        PROVE  AloneHasRoom'
    <3>1. ups'[u] = r /\ \A v \in Files!Uploads : v # u => ups'[v] = ups[v]
      BY <1>1, <2>2
    <3> QED BY <1>2, <2>1, <2>2, <3>1 DEF Files!Active
  <2>3. ASSUME ups' = [ups EXCEPT ![u] = Files!Answered], names' = names
        PROVE  AloneHasRoom'
    BY <2>2, <2>3, AnsweredIsTyped
  <2>4. ASSUME Files!NextTry(u), names' = names, ups[u].pc \in {"retry", "relinked"}
        PROVE  AloneHasRoom'
    <3>1. CASE ups[u].tries + 1 < Files!LinkTries
      <4>1. PICK r \in {[ups[u] EXCEPT !.pc = "open", !.tries = ups[u].tries + 1]} :
              ups' = [ups EXCEPT ![u] = r]
        BY <1>1, <2>4, <3>1 DEF Files!NextTry, UploadType
      <4>2. ups[u].tries + 1 \in {0, 1, 2}
        BY <2>1, <3>1 DEF Files!LinkTries, UploadType
      <4>3. r \in UploadType /\ r.dir = d /\ r.alone = ups[u].alone
        BY <2>1, <4>1, <4>2 DEF UploadType, Pcs
      <4>4. ~(ups[u].alone /\ d \in Files!Tokens)
        BY <2>1, <2>4 DEF AloneHasRoom, RoomOf
      <4> QED BY <2>2, <2>4, <4>1, <4>3, <4>4
    <3>2. CASE ~(ups[u].tries + 1 < Files!LinkTries)
      BY <2>3, <2>4, <3>2 DEF Files!NextTry, Files!Over
    <3> QED BY <3>1, <3>2
  <2>5. ASSUME NEW to \in {"linked", "relinked"}, ups' = [ups EXCEPT ![u].pc = to],
               NEW k \in Files!Names, names' = Files!Named(names, d, k, parts[d][n]),
               to = "relinked" => ups[u].pc = "retry"
        PROVE  AloneHasRoom'
    <3>1. PICK r \in {[ups[u] EXCEPT !.pc = to]} : ups' = [ups EXCEPT ![u] = r]
      BY <2>5
    <3>2. r \in UploadType /\ r.dir = d /\ r.alone = ups[u].alone /\ r.pc = to
      BY <2>1, <3>1 DEF UploadType, Pcs
    <3>3. to = "relinked" => ~(ups[u].alone /\ d \in Files!Tokens)
      BY <2>1, <2>5 DEF AloneHasRoom, RoomOf
    <3>4. \A e \in Files!Dirs : e # d => names'[e] = names[e]
      <4> HIDE DEF d, n
      <4> QED BY <1>1, <2>1, <2>5 DEF Files!Named
    <3> QED BY <2>2, <3>1, <3>2, <3>3, <3>4
  <2>6. CASE Files!Starts(u)
    <3> DEFINE k == Files!Resolve(d, 0)
    <3>1. names' = names
      BY <2>6 DEF Files!Starts
    <3>2. CASE d \in exists /\ Files!HasRoom(d)
      <4>1. k \in Files!Names /\ names[d][k] = None /\ Files!Bytes(d) < Quota
        BY <2>6, <3>2 DEF Files!Starts, Files!NameLeft, Files!HasRoom, Files!Taken
      <4>2. PICK r \in {[ups[u] EXCEPT !.pc = "open", !.final = k, !.name = k]} :
              ups' = [ups EXCEPT ![u] = r]
        BY <2>6, <3>2 DEF Files!Starts
      <4>3. r \in UploadType /\ r.dir = d /\ r.final = k /\ r.pc = "open"
            /\ r.alone = ups[u].alone
        BY <2>1, <4>1, <4>2 DEF UploadType, Pcs
      <4> QED BY <2>2, <3>1, <4>1, <4>2, <4>3
    <3>3. CASE ~(d \in exists /\ Files!HasRoom(d))
      BY <2>3, <2>6, <3>1, <3>3 DEF Files!Starts, Files!Over
    <3> QED BY <3>2, <3>3
  <2>7. CASE Files!Breaks(u)
    BY <2>3, <2>7 DEF Files!Breaks, Files!Over
  <2>8. CASE Files!Links(u)
    <3>1. CASE d \in exists /\ parts[d][n] # None /\ ~Files!MayLink(d, n)
      <4>1. /\ ups' = [ups EXCEPT ![u].pc = "retry", ![u].name = Files!Resolve(d, 0)]
               /\ names' = names
            /\ Files!Resolve(d, 0) \in Files!Names /\ names[d][n] # None /\ ups[u].pc = "open"
        BY <2>8, <3>1 DEF Files!Links, Files!NameLeft, Files!MayLink
      <4>2. PICK r \in {[ups[u] EXCEPT !.pc = "retry", !.name = Files!Resolve(d, 0)]} :
              ups' = [ups EXCEPT ![u] = r]
        BY <4>1
      <4>3. r \in UploadType /\ r.dir = d /\ r.alone = ups[u].alone
        BY <2>1, <4>1, <4>2 DEF UploadType, Pcs
      <4>4. ~(ups[u].alone /\ d \in Files!Tokens)
        BY <2>1, <4>1 DEF AloneHasRoom, RoomOf
      <4> QED BY <2>2, <4>1, <4>2, <4>3, <4>4
    <3>2. CASE d \in exists /\ parts[d][n] # None /\ Files!MayLink(d, n)
      BY <2>1, <2>5, <2>8, <3>2 DEF Files!Links, Files!Step
    <3> QED BY <2>3, <2>8, <3>1, <3>2 DEF Files!Links, Files!Over
  <2>9. CASE Files!Retries(u)
    <3>1. ups[u].name \in Files!Names
      BY <2>1 DEF UploadType
    <3> QED BY <2>4, <2>5, <2>9, <3>1 DEF Files!Retries, Files!Step
  <2>10. CASE Files!Unlinks(u)
    BY <2>3, <2>4, <2>10 DEF Files!Unlinks, Files!Over
  <2> QED BY <1>4, <2>6, <2>7, <2>8, <2>9, <2>10 DEF Files!Handler
<1>5. ASSUME ups' = ups,
             \A d \in Files!Tokens, n \in Files!Names : names[d][n] = None =>
               names'[d][n] = None
      PROVE  AloneHasRoom'
  BY <1>5, RoomKeeps DEF Files!Active
<1>6. ASSUME ups' = ups,
             \/ names' = names
             \/ \E d \in Files!Dirs : names' = [names EXCEPT ![d] = Files!Empty]
             \/ \E d \in Files!Dirs, n \in Files!Names : names' = Files!Named(names, d, n, None)
      PROVE  AloneHasRoom'
  <2>1. \A d \in Files!Tokens, n \in Files!Names : names[d][n] = None => names'[d][n] = None
    BY <1>1, <1>6 DEF Files!Named, Files!Empty, Files!Dirs
  <2> QED BY <1>5, <1>6, <2>1
<1>7. ASSUME NEW r \in Files!Runs, Files!Promotion(r)
      PROVE  AloneHasRoom'
  <2> DEFINE t == prom[r].token
  <2>1. r \in Files!Dirs /\ ups' = ups
    BY <1>7 DEF Files!Dirs, Files!Promotion, Files!PromoteReads, Files!PromoteMoves,
       Files!PromoteEnds
  <2>2. ASSUME NEW n \in Files!Names, Files!PromoteMoves(r, n), names[t][n] # None
        PROVE  AloneHasRoom'
    <3>1. /\ names' = [names EXCEPT ![t][n] = None, ![r][Files!Resolve(r, n)] = names[t][n]]
      BY <2>2 DEF Files!PromoteMoves
    <3>2. \A d \in Files!Tokens, m \in Files!Names : names[d][m] = None => names'[d][m] = None
      BY <1>1, <2>1, <3>1, Numbers DEF Files!Dirs
    <3> QED BY <1>5, <2>1, <3>2
  <2>3. CASE Files!PromoteEnds(r)
    <3>1. t \in Files!Dirs
      BY <2>3 DEF Files!PromoteEnds, FileTypes, PromotionTypes, PromotionType, Files!Dirs
    <3> QED BY <1>6, <2>1, <2>3, <3>1 DEF Files!PromoteEnds, Files!Removed
  <2> QED
    BY <1>6, <1>7, <2>1, <2>2, <2>3 DEF Files!Promotion, Files!PromoteReads,
       Files!PromoteMoves, Files!RollsBack, Files!Removed, Files!dirVars
<1>8. CASE Files!Restart
  <2>1. names' = names
        /\ ups' = [u \in Files!Uploads |-> IF Files!Active(u) THEN Files!Answered ELSE ups[u]]
    BY <1>8 DEF Files!Restart, Files!dirVars
  <2>2. \A u \in Files!Uploads : ups'[u] = IF Files!Active(u) THEN Files!Answered ELSE ups[u]
    BY <2>1
  <2> QED BY <1>1, <2>1, <2>2, RoomKeeps DEF Files!Active
<1>9. ASSUME NEW t \in Files!Tokens, Files!SweepsDraft(t)
      PROVE  AloneHasRoom'
  BY <1>6, <1>9 DEF Files!SweepsDraft, Files!Removed, Files!Dirs
<1>10. ASSUME NEW d \in Files!Dirs, NEW n \in Files!Names, Files!Deletes(d, n)
       PROVE  AloneHasRoom'
  BY <1>6, <1>10 DEF Files!Deletes
<1> QED
  BY <1>3, <1>4, <1>6, <1>7, <1>8, <1>9, <1>10 DEF Files!Next, Files!Submit,
     Files!DeleteRun, Files!Judges, Files!SweepsParts, Files!Day, Files!vars,
     Files!dirVars

\* The last file that fits.
LEMMA QuotaStep ==
  ASSUME Files!UploadsAssumption, FileTypes, AloneHasRoom, [Files!Next]_(Files!vars)
  PROVE  \A u \in Files!Uploads :
           /\ ups[u].dir \in Files!Tokens /\ ups[u].alone
           /\ ups[u].pc \in {"open", "retry"} /\ ups'[u].pc \in {"linked", "relinked"}
           => Files!Cardinality({n \in Files!Names : names'[ups[u].dir][n] # None}) <= Quota
<1> SUFFICES ASSUME NEW u \in Files!Uploads, ups[u].dir \in Files!Tokens, ups[u].alone,
                    ups[u].pc \in {"open", "retry"}, ups'[u].pc \in {"linked", "relinked"}
             PROVE  Files!Cardinality({n \in Files!Names : names'[ups[u].dir][n] # None}) <= Quota
  OBVIOUS
<1> DEFINE d == ups[u].dir
<1>1. /\ names \in [Files!Dirs -> [Files!Names -> Files!Inode]]
         /\ ups \in [Files!Uploads -> UploadType]
      /\ Files!Answered.pc = "over" /\ d \in Files!Dirs
  BY AnsweredIsTyped DEF FileTypes, DirTypes, RequestTypes, Files!Dirs
<1>2. RoomOf(u)
  BY DEF AloneHasRoom, Files!Active
<1>3. ups[u].pc = "open" /\ Files!Bytes(d) < Quota
  BY <1>2 DEF RoomOf
<1>4. ASSUME NEW v \in Files!Uploads,
             (\E t \in Files!Tokens : Files!PageUploads(v, t))
             \/ (\E r \in Files!Runs : Files!RunUploads(v, r))
      PROVE  FALSE
  <2>1. PICK e \in Files!Dirs, visit \in Nat : Files!Arrives(v, e, visit)
    BY <1>4 DEF Files!PageUploads, Files!RunUploads, Files!Dirs, FileTypes, RequestTypes,
       PageType
  <2>2. ups'[u].pc \in {ups[u].pc, "arrived"}
    BY <2>1, ArrivesIsTyped DEF FileTypes
  <2> QED BY <1>3, <2>2
<1>5. ASSUME NEW v \in Files!Uploads, Files!Handler(v) \/ Files!Breaks(v), v # u
      PROVE  FALSE
  <2>1. ups'[u] = ups[u]
    BY <1>1, <1>5 DEF Files!Handler, Files!Starts, Files!Breaks, Files!Links,
       Files!Retries, Files!Unlinks, Files!NextTry, Files!Step, Files!Over
  <2> QED BY <1>3, <2>1
<1>6. ~Files!Restart
  <2>1. Files!Restart => ups'[u] = Files!Answered
    BY <1>3 DEF Files!Restart, Files!Active
  <2> QED BY <1>1, <2>1
<1>7. ups' # ups
  BY <1>3
<1>8. Files!Handler(u) \/ Files!Breaks(u)
  BY <1>4, <1>5, <1>6, <1>7 DEF Files!Next, Files!Submit, Files!DeleteRun, Files!Judges,
     Files!SweepsParts, Files!Day, Files!vars, Files!Promotion, Files!PromoteReads,
     Files!PromoteMoves, Files!PromoteEnds, Files!SweepsDraft, Files!Deletes
<1>9. ~Files!Starts(u) /\ ~Files!Retries(u) /\ ~Files!Unlinks(u)
  BY <1>3 DEF Files!Starts, Files!Retries, Files!Unlinks
<1>10. ~Files!Breaks(u)
  BY <1>1, <1>3 DEF Files!Breaks, Files!Over
<1>11. Files!Links(u)
  BY <1>8, <1>9, <1>10 DEF Files!Handler
<1>12. PICK n \in {ups[u].final} : names' = names
            \/ names' = Files!Named(names, d, n, parts[d][n])
  BY <1>11 DEF Files!Links
<1>13. {m \in Files!Names : names'[d][m] # None} \subseteq Files!Taken(d) \cup {n}
  <2> HIDE DEF d
  <2> QED BY <1>1, <1>12 DEF Files!Named, Files!Taken
<1>14. IsFiniteSet(Files!Taken(d)) /\ Cardinality(Files!Taken(d)) \in Nat
  <2>1. IsFiniteSet(Files!Names)
    BY FS_Interval DEF Files!Names, Files!UploadsAssumption
  <2> HIDE DEF d
  <2> QED BY <2>1, FS_Subset, FS_CardinalityType DEF Files!Taken
<1>15. /\ IsFiniteSet(Files!Taken(d) \cup {n})
       /\ Cardinality(Files!Taken(d) \cup {n})
            \in {Cardinality(Files!Taken(d)), Cardinality(Files!Taken(d)) + 1}
  BY <1>14, FS_AddElement
<1>16. /\ Cardinality({m \in Files!Names : names'[d][m] # None}) \in Nat
       /\ Cardinality({m \in Files!Names : names'[d][m] # None})
            <= Cardinality(Files!Taken(d) \cup {n})
  BY <1>13, <1>15, FS_Subset, FS_CardinalityType
<1> QED BY <1>3, <1>14, <1>15, <1>16, SameCardinality DEF Files!Bytes, Files!UploadsAssumption

-----------------------------------------------------------------------------
FilesInv == FileTypes /\ PartsAreOwned /\ AloneHasRoom

LEMMA FilesInit ==
  ASSUME Files!UploadsAssumption, Files!Init
  PROVE  FilesInv /\ Accounted
<1>1. FileTypes
  BY TypesInit
<1>2. PartsAreOwned /\ AloneHasRoom
  BY DEF Files!Init, PartsAreOwned, AloneHasRoom, Files!Active, Files!Empty,
     Files!NoUpload
<1>3. Accounted
  BY NoPromotionIsTyped DEF Files!Init, Accounted, OnePromotion, PageAccounted,
     PromotionAccounted, Files!NewPage
<1> QED BY <1>1, <1>2, <1>3 DEF FilesInv

LEMMA FilesStep ==
  ASSUME Files!UploadsAssumption, FilesInv, [Files!Next]_(Files!vars)
  PROVE  FilesInv'
BY TypesStep, PartsStep, RoomStep DEF FilesInv

\* No file replaces another, and only uploads that overlap pass the quota of a draft.
THEOREM UploadsAreKept == Spec => UploadsLand
<1>0. StoreAssumption => Files!UploadsAssumption
  BY DEF StoreAssumption
<1>1. Init => FilesInv
  BY <1>0, StoreAssumption, FilesInit DEF Init
<1>2. FilesInv /\ [Next]_vars => FilesInv'
  BY <1>0, StoreAssumption, FilesStep, FilesFrame
<1>3. FilesInv /\ [Next]_vars =>
        [\A d \in Files!Dirs, n \in Files!Names :
           names[d][n] # None => names'[d][n] \in {names[d][n], None}]_(Files!vars)
  BY <1>0, StoreAssumption, NamesStep, FilesFrame DEF FilesInv, KeepsNames
<1>4. FilesInv /\ [Next]_vars =>
        [\A u \in Files!Uploads :
           /\ ups[u].dir \in Files!Tokens /\ ups[u].alone
           /\ ups[u].pc \in {"open", "retry"} /\ ups'[u].pc \in {"linked", "relinked"}
           => Files!Cardinality({n \in Files!Names : names'[ups[u].dir][n] # None})
              <= Quota]_(Files!vars)
  BY <1>0, StoreAssumption, QuotaStep, FilesFrame DEF FilesInv
<1> QED
  BY <1>1, <1>2, <1>3, <1>4, PTL
  DEF Spec, UploadsLand, Files!NeverOverwritten, Files!QuotaKept

\* Where no form is submitted twice at once, a run is launched with every file that
\* its page showed.  (Two promotions of one draft would take the files from each
\* other.)
THEOREM LaunchesAreComplete ==
  ASSUME OneSubmit
  PROVE  Spec => LaunchedIsComplete
<1>0. StoreAssumption => Files!UploadsAssumption
  BY DEF StoreAssumption
<1>1. Init => FilesInv /\ Accounted
  BY <1>0, StoreAssumption, FilesInit DEF Init
<1>2. FilesInv /\ Accounted /\ [Next]_vars => (FilesInv /\ Accounted)'
  <2>1. FilesInv /\ Accounted /\ UNCHANGED Files!vars => Accounted'
    BY DEF FilesInv, Files!vars, Files!dirVars, Accounted, OnePromotion, PageAccounted,
      PromotionAccounted, Files!Files
  <2>2. FilesInv /\ Accounted /\ Files!Next => Accounted'
    BY <1>0, StoreAssumption, AccountStep DEF FilesInv
  <2> QED BY <1>0, <2>1, <2>2, StoreAssumption, FilesStep, FilesFrame
<1>3. FilesInv /\ Accounted /\ [Next]_vars =>
        [\A r \in Files!Runs : prom[r].token # None /\ runs'[r] = "live"
           => prom[r].files \subseteq {names'[r][n] : n \in Files!Names} \cup gone]_(Files!vars)
  BY <1>0, StoreAssumption, LaunchedStep, FilesFrame DEF FilesInv
<1> QED
  BY <1>1, <1>2, <1>3, PTL DEF Spec, LaunchedIsComplete, Files!LaunchedIsComplete

-----------------------------------------------------------------------------
\* Types and bounds.  Those of the database hold of a rebuild that fails, too.
LEMMA WriteIsTyped ==
  ASSUME Schema!TypeOK, NEW d \in Schema!Database, Schema!Write(d)
  PROVE  db' \in Schema!Database /\ disk' \in Schema!Database
BY DEF Schema!Write, Schema!TypeOK

LEMMA SchemaIsTyped ==
  ASSUME Schema!MigrationsAssumption, Schema!TypeOK, [Schema!Next]_(Schema!vars)
  PROVE  Schema!TypeOK'
<1>0. /\ disk \in Schema!Database /\ db \in Schema!Database /\ open \in BOOLEAN
      /\ db.rows \in [OldRuns -> Schema!Row \cup {None}]
      /\ known \subseteq OldRuns /\ torn \in BOOLEAN /\ crashes \in 0..MaxCrashes
      /\ MaxCrashes \in Nat
  BY DEF Schema!TypeOK, Schema!MigrationsAssumption, Schema!Database
<1>1. SUFFICES ASSUME NEW d \in Schema!Database, NEW next, Schema!Write(d), Schema!Go(next),
                      UNCHANGED open, next \in (Steps \cup {"failed"}) \ {"plain"}
               PROVE  Schema!TypeOK'
  <2>1. \A c \in Schema!Columns : Schema!AddColumn(c) \in Schema!Database
    BY <1>0, AddColumnFields
  <2>2. CASE Schema!AddPlainColumns
    BY <1>1, <2>1, <2>2 DEF Schema!AddPlainColumns, Schema!Columns, Steps
  <2>3. CASE Schema!AddStateEnteredAt
    BY <1>0, <1>1, <2>1, <2>3 DEF Schema!AddStateEnteredAt, Schema!Columns, Steps
  <2>4. CASE Schema!BackfillStateEnteredAt
    <3> DEFINE new == Schema!WithRows(LAMBDA row : [row EXCEPT !.entered = TRUE])
    <3>1. new \in [OldRuns -> Schema!Row \cup {None}]
      BY <1>0, BackfillRows
    <3>2. Schema!Write([db EXCEPT !.rows = new]) /\ Schema!Go("mirror") /\ UNCHANGED open
      BY <2>4 DEF Schema!BackfillStateEnteredAt
    <3> HIDE DEF new
    <3>3. [db EXCEPT !.rows = new] \in Schema!Database
      BY <1>0, <3>1 DEF Schema!Database
    <3> QED BY <1>1, <3>2, <3>3 DEF Steps
  <2>5. CASE Schema!AddMirrorStatus
    BY <1>1, <2>1, <2>5 DEF Schema!AddMirrorStatus, Schema!Columns, Steps
  <2>6. CASE Schema!RebuildRuns
    <3> DEFINE wide == [db EXCEPT !.check = "wide", !.cols = Schema!Listed]
               empty == [wide EXCEPT !.rows = [r \in OldRuns |-> None]]
    <3>1. wide \in Schema!Database
      BY <1>0 DEF Schema!Database, Schema!Listed, Schema!Columns
    <3>2. empty \in Schema!Database
      BY <1>0 DEF Schema!Database, Schema!Listed, Schema!Columns
    <3>3. CASE open' = TRUE /\ db' = empty /\ UNCHANGED disk
      BY <1>0, <2>6, <3>2, <3>3 DEF Schema!RebuildRuns, Schema!Go, Schema!TypeOK
    <3>4. CASE Schema!Write(db) /\ UNCHANGED open
      BY <1>0, <1>1, <2>6, <3>4 DEF Schema!RebuildRuns, Steps
    <3>5. CASE Schema!Write(wide) /\ UNCHANGED open
      BY <1>0, <1>1, <2>6, <3>1, <3>5 DEF Schema!RebuildRuns, Steps
    <3> HIDE DEF wide, empty
    <3> QED BY <2>6, <3>3, <3>4, <3>5 DEF Schema!RebuildRuns, wide, empty
  <2>7. CASE Schema!RebuildRateLimitState
    <3>1. [db EXCEPT !.buckets = TRUE] \in Schema!Database
      BY <1>0 DEF Schema!Database
    <3> QED BY <1>1, <2>7, <3>1 DEF Schema!RebuildRateLimitState, Steps
  <2>8. CASE Schema!SeedSettings
    <3>1. [db EXCEPT !.seeded = TRUE] \in Schema!Database
      BY <1>0 DEF Schema!Database
    <3> QED BY <1>1, <2>8, <3>1 DEF Schema!SeedSettings, Steps
  <2>9. CASE Schema!RecomputeTotals
    <3> DEFINE new == Schema!WithRows(LAMBDA row : [row EXCEPT !.ruled = TRUE])
    <3>1. new \in [OldRuns -> Schema!Row \cup {None}]
      BY <1>0, RuledRows
    <3>2. \/ Schema!Write(db) /\ Schema!Go("mock") /\ UNCHANGED open
          \/ Schema!Write([db EXCEPT !.rows = new]) /\ Schema!Go("sentinel") /\ UNCHANGED open
      BY <2>9 DEF Schema!RecomputeTotals
    <3> HIDE DEF new
    <3>3. [db EXCEPT !.rows = new] \in Schema!Database
      BY <1>0, <3>1 DEF Schema!Database
    <3> QED BY <1>0, <1>1, <3>2, <3>3 DEF Steps
  <2>10. CASE Schema!MarkRecomputed
    <3>1. [db EXCEPT !.recomputed = TRUE] \in Schema!Database
      BY <1>0 DEF Schema!Database
    <3> QED BY <1>1, <2>10, <3>1 DEF Schema!MarkRecomputed, Steps
  <2>11. CASE Schema!AddMockColumns
    BY <1>1, <2>1, <2>11 DEF Schema!AddMockColumns, Schema!Columns, Steps
  <2>12. ASSUME NEW r \in OldRuns, Schema!Serve(r)
         PROVE  Schema!TypeOK'
    <3> DEFINE row == IF db.rows[r] = None THEN [entered |-> TRUE, ruled |-> TRUE]
                      ELSE [db.rows[r] EXCEPT !.entered = TRUE]
    <3>1. row \in Schema!Row
      BY <1>0 DEF Schema!Row
    <3>2. Schema!Write([db EXCEPT !.rows[r] = row])
      BY <2>12 DEF Schema!Serve, Schema!Write
    <3> HIDE DEF row
    <3>3. [db EXCEPT !.rows[r] = row] \in Schema!Database
      BY <1>0, <3>1 DEF Schema!Database
    <3> QED BY <1>0, <2>12, <3>2, <3>3, WriteIsTyped DEF Schema!Serve, Schema!TypeOK
  <2>13. CASE Schema!Restart
    <3>1. crashes' \in 0..MaxCrashes
      BY <1>0, <2>13 DEF Schema!Restart
    <3>2. db' \in Schema!Database /\ disk' \in Schema!Database /\ known' \subseteq OldRuns
          /\ open' \in BOOLEAN /\ pc' = "plain"
      BY <1>0, <2>13 DEF Schema!Restart
    <3>3. torn' \in BOOLEAN
      BY <2>13 DEF Schema!Restart
    <3> QED BY <3>1, <3>2, <3>3 DEF Schema!TypeOK
  <2>14. CASE UNCHANGED Schema!vars
    BY <2>14 DEF Schema!vars, Schema!TypeOK
  <2> QED
    BY <2>2, <2>3, <2>4, <2>5, <2>6, <2>7, <2>8, <2>9, <2>10, <2>11, <2>12, <2>13, <2>14
    DEF Schema!Next
<1> QED BY <1>0, <1>1, WriteIsTyped DEF Schema!Go, Schema!TypeOK, Steps

LEMMA SchemaInit ==
  ASSUME Schema!MigrationsAssumption, Schema!Init
  PROVE  Schema!TypeOK
<1>1. Schema!Fresh \in Schema!Database
  BY DEF Schema!Fresh, Schema!Database, Schema!Columns
<1>2. disk \in Schema!Database /\ db = disk
  BY <1>1 DEF Schema!Init, Schema!Earlier
<1>3. crashes \in 0..MaxCrashes /\ known \subseteq OldRuns
  BY DEF Schema!Init, Schema!MigrationsAssumption
<1> QED BY <1>2, <1>3 DEF Schema!Init, Schema!TypeOK

\* What a user does is counted up to its bounds.
Counted ==
  /\ overrides \in 0..MaxEdits /\ months \in 0..MaxMonths
  /\ edits \in 0..MaxEdits /\ lives \in 0..MaxLives
  /\ clicks \in 0..MaxClicks /\ foreign \in BOOLEAN

LEMMA ImagesCount ==
  ASSUME Image!ImagesAssumption, overrides \in 0..MaxEdits, months \in 0..MaxMonths,
         [Image!Next]_(Image!vars)
  PROVE  overrides' \in 0..MaxEdits /\ months' \in 0..MaxMonths
<1>1. ASSUME Image!EditOverride \/ Image!MonthPasses
      PROVE  overrides' \in 0..MaxEdits /\ months' \in 0..MaxMonths
  BY <1>1 DEF Image!ImagesAssumption, Image!EditOverride, Image!MonthPasses
<1>2. ASSUME UNCHANGED Image!bounds
      PROVE  overrides' \in 0..MaxEdits /\ months' \in 0..MaxMonths
  BY <1>2 DEF Image!bounds
<1>3. Image!EditOverride \/ Image!MonthPasses \/ UNCHANGED Image!bounds
  BY DEF Image!Next, Image!vars, Image!bounds, Image!LaunchBegins, Image!DevcontainerFetched,
     Image!Resolve, Image!ResolveBase, Image!BaseBuilt, Image!PostLayerBuilt,
     Image!ContainerCreated, Image!LaunchEnds, Image!SweepBegins, Image!ContainersListed,
     Image!ImagesListed, Image!SweepEnds, Image!ImageRemoved
<1> QED BY <1>1, <1>2, <1>3

LEMMA ConfigCounts ==
  ASSUME Config!ProjectConfigAssumption, edits \in 0..MaxEdits, lives \in 0..MaxLives,
         [Config!Next]_(Config!vars)
  PROVE  edits' \in 0..MaxEdits /\ lives' \in 0..MaxLives
<1>1. ASSUME Config!Edit
      PROVE  edits' \in 0..MaxEdits /\ lives' \in 0..MaxLives
  BY <1>1 DEF Config!ProjectConfigAssumption, Config!Edit
<1>2. ASSUME NEW kind \in {"launch", "resume"}, Config!LifeBegins(kind)
      PROVE  edits' \in 0..MaxEdits /\ lives' \in 0..MaxLives
  BY <1>2 DEF Config!ProjectConfigAssumption, Config!LifeBegins
<1>3. ASSUME UNCHANGED <<edits, lives>>
      PROVE  edits' \in 0..MaxEdits /\ lives' \in 0..MaxLives
  BY <1>3
<1>4. \/ Config!Edit \/ \E kind \in {"launch", "resume"} : Config!LifeBegins(kind)
      \/ UNCHANGED <<edits, lives>>
  BY DEF Config!Next, Config!vars, Config!ContainerRequested, Config!PromptsInjected,
     Config!ContainerFilled, Config!LifeEnds
<1> QED BY <1>1, <1>2, <1>3, <1>4

LEMMA ListsCount ==
  ASSUME Lists!ConfigListsAssumption, clicks \in 0..MaxClicks, foreign \in BOOLEAN,
         [Lists!Next]_(Lists!vars)
  PROVE  clicks' \in 0..MaxClicks /\ foreign' \in BOOLEAN
<1>1. ASSUME NEW op, NEW key, NEW name, Lists!Send(op, key, name)
      PROVE  clicks' \in 0..MaxClicks /\ foreign' \in BOOLEAN
  BY <1>1 DEF Lists!ConfigListsAssumption, Lists!Send
<1>2. ASSUME Lists!SaveServer \/ Lists!DeleteServer \/ Lists!AddSecret \/ Lists!RemoveSecret
      PROVE  clicks' \in 0..MaxClicks /\ foreign' \in BOOLEAN
  BY <1>1, <1>2 DEF Lists!SaveServer, Lists!DeleteServer, Lists!AddSecret, Lists!RemoveSecret
<1>3. ASSUME UNCHANGED clicks, foreign' \in BOOLEAN
      PROVE  clicks' \in 0..MaxClicks /\ foreign' \in BOOLEAN
  BY <1>3
<1>4. ASSUME NEW q \in Requests,
             \/ Lists!ServerHandles(q) \/ Lists!ListLoaded(q) \/ Lists!ServerAnswered(q)
             \/ Lists!SecretAnswered(q) \/ Lists!RequestFailed(q)
      PROVE  UNCHANGED <<clicks, foreign>>
  BY <1>4 DEF Lists!ServerHandles, Lists!ListLoaded, Lists!ServerAnswered,
     Lists!SecretAnswered, Lists!RequestFailed
<1>5. \/ Lists!SaveServer \/ Lists!DeleteServer \/ Lists!AddSecret \/ Lists!RemoveSecret
      \/ UNCHANGED <<clicks, foreign>> \/ Lists!ChangedElsewhere
  BY <1>4 DEF Lists!Next, Lists!vars, Lists!EditServer
<1> QED BY <1>2, <1>3, <1>5 DEF Lists!ChangedElsewhere

LEMMA FilesAreTyped ==
  ASSUME Files!UploadsAssumption, FilesInv
  PROVE  Files!TypeOK
<1>1. \A r \in Files!Runs : prom[r] # Files!NoPromotion => runs[r] = "queued"
  BY DEF FilesInv, FileTypes, PromotionTypes
<1>2. page.token \in Files!Tokens \cup {None} /\ \A f \in page.files : f.inode \in Files!Uploads
  BY DEF FilesInv, FileTypes, RequestTypes, PageType
<1>3. {sweeping, aged, judged} \subseteq SUBSET Files!Dirs /\ gone \subseteq Files!Uploads
  BY DEF FilesInv, FileTypes, SweepTypes, Files!Dirs
<1>4. Files!NoStalePart
  BY DEF FilesInv, PartsAreOwned, Has, Files!Active, Files!NoStalePart
<1> QED
  BY <1>1, <1>2, <1>3, <1>4
  DEF FilesInv, FileTypes, DirTypes, RequestTypes, PromotionTypes, Files!TypeOK

\* Every state of the store is of its type: files are in directories that exist, a run
\* without a queued row has no promotion, and no .part stays behind (files.ts,
\* draftUploads.ts), whatever the other components' shapes.
THEOREM StoreIsTyped == Spec => []TypeOK
<1> DEFINE Shows == shown \in {"files", "images", "config", "lists", "schema"}
           TypeInv == /\ Shows /\ Counted
                      /\ FilesInv /\ ImagesInv /\ ConfigInv /\ ListsInv /\ Schema!TypeOK
<1>0. /\ Files!UploadsAssumption /\ Image!ImagesAssumption /\ Config!ProjectConfigAssumption
      /\ Lists!ConfigListsAssumption /\ Schema!MigrationsAssumption
  BY StoreAssumption DEF StoreAssumption
<1>1. Init => TypeInv
  <2> SUFFICES ASSUME Init
               PROVE  TypeInv
    OBVIOUS
  <2>1. Counted
    <3>1. MaxEdits \in Nat /\ MaxMonths \in Nat /\ MaxLives \in Nat /\ MaxClicks \in Nat
      BY <1>0 DEF Image!ImagesAssumption, Config!ProjectConfigAssumption,
         Lists!ConfigListsAssumption
    <3>2. overrides = 0 /\ months = 0
      BY DEF Init, Image!Init
    <3>3. edits = 0 /\ lives = 0
      BY DEF Init, Config!Init
    <3>4. clicks = 0 /\ foreign = FALSE
      BY DEF Init, Lists!Init
    <3>5. 0 \in 0..MaxEdits /\ 0 \in 0..MaxMonths /\ 0 \in 0..MaxLives /\ 0 \in 0..MaxClicks
      BY <3>1
    <3> QED BY <3>2, <3>3, <3>4, <3>5, Zenon DEF Counted
  <2>2. FilesInv /\ ImagesInv /\ ConfigInv /\ ListsInv /\ Schema!TypeOK
    BY <1>0, FilesInit, ImagesInit, ConfigInit, ListsInit, SchemaInit DEF Init
  <2> QED BY <2>1, <2>2 DEF Init
<1>2. TypeInv /\ [Next]_vars => TypeInv'
  <2> SUFFICES ASSUME TypeInv, [Next]_vars
               PROVE  TypeInv'
    OBVIOUS
  <2>1. Shows'
    BY DEF Next, vars
  <2>2. Counted'
    BY <1>0, ImagesCount, ConfigCounts, ListsCount, ImagesFrame, ConfigFrame, ListsFrame
    DEF Counted
  <2>3. FilesInv' /\ ImagesInv' /\ ConfigInv' /\ ListsInv' /\ Schema!TypeOK'
    BY <1>0, FilesStep, FilesFrame, ImagesStep, ImagesFrame, ConfigStep, ConfigFrame,
       ListsStep, ListsFrame, SchemaIsTyped, SchemaFrame
  <2> QED BY <2>1, <2>2, <2>3
<1>3. TypeInv => TypeOK
  <2> SUFFICES ASSUME TypeInv
               PROVE  TypeOK
    OBVIOUS
  <2>1. Files!TypeOK
    BY <1>0, FilesAreTyped
  <2>2. Image!TypeOK
    BY DEF ImagesInv, ImageShapes, LaunchType, SweepType, Counted, Image!TypeOK
  <2>3. Config!TypeOK
    BY DEF ConfigInv, ConfigShapes, LifeType, Counted, Config!TypeOK
  <2>4. Lists!TypeOK
    BY DEF ListsInv, ListShapes, Counted, Lists!TypeOK
  <2> QED BY <2>1, <2>2, <2>3, <2>4 DEF TypeOK
<1> HIDE DEF TypeInv
<1> QED BY <1>1, <1>2, <1>3, PTL DEF Spec

===============================================================================
