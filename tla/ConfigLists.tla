------------------------------ MODULE ConfigLists ------------------------------
(***************************************************************************)
(* The lists of the configuration pages: MCP servers and secrets.  Both    *)
(* are loaded once and changed by requests, any of which may fail before   *)
(* or after the server has handled it.  The list of servers computes what  *)
(* it shows after a request from what it showed when the request was made, *)
(* the list of secrets loads itself again.                                 *)
(***************************************************************************)
EXTENDS Naturals, FiniteSets

CONSTANTS
  None,       \* no row, no request
  Names,      \* of servers: what a row of one holds, and its key
  MaxId,      \* bound on the ids of servers
  Secrets,    \* names of secrets
  Requests,   \* ids of requests in flight: a bound on them
  MaxClicks   \* bound on what the page's user sends

Ids == 1..MaxId
Keys == Ids \cup Secrets   \* what a list is a list of
Server == [id : Ids, name : Names]

\* A request, and then its answer.  rows is the list of the render it was made in, or
\* what a load has read; since collects the keys of the answers that came while it was
\* under way, and is no part of the program.
Request ==
  [step : {"sent", "ok", "error"},
   op : {"load", "create", "update", "delete", "upsert", "remove"},
   key : Keys \cup {None}, name : Names \cup {None},
   rows : SUBSET Server, names : SUBSET Secrets, since : SUBSET Keys]

ConfigListsAssumption ==
  /\ {MaxClicks, MaxId} \subseteq Nat
  /\ None \notin Request /\ None \notin Requests /\ None \notin Keys

VARIABLES
  servers,    \* the server's rows: a set, neither order nor repeats are told apart
  secrets,    \* the names of the secrets
  list,       \* the page: which list it is, what it shows, the row its form edits
  requests,   \* per id, a request or its answer
  clicks,
  missed,     \* keys the list may be wrong about
  foreign     \* another page has changed a row: a bound

vars == <<servers, secrets, list, requests, clicks, missed, foreign>>

InFlight == {q \in Requests : requests[q] # None}

\* What a request makes of a table's rows: the server's, and the page's in setServers().
Row(r) == [id |-> r.key, name |-> r.name]

Changed(rows, r) ==
  CASE r.op = "create" -> rows \cup {Row(r)}
    [] r.op = "update" -> {IF s.id = r.key THEN Row(r) ELSE s : s \in rows}
    [] r.op = "delete" -> {s \in rows : s.id # r.key}

\* An id is a row's, and so is a name: schema.sql's keys.
Unique(rows) == \A r, s \in rows : r.id = s.id \/ r.name = s.name => r = s

Init ==
  /\ list \in [kind : {"servers", "secrets"}, servers : {{}}, secrets : {{}}, form : {None}]
  /\ servers \in {rows \in SUBSET Server : Unique(rows)} /\ secrets \in SUBSET Secrets
  /\ list.kind = "servers" => secrets = {}      \* the rows of the page's list alone
  /\ list.kind = "secrets" => servers = {}
  /\ requests = [q \in Requests |->
       IF q = CHOOSE r \in Requests : TRUE
         THEN [step |-> "sent", op |-> "load", key |-> None, name |-> None,
               rows |-> {}, names |-> {}, since |-> {}]
         ELSE None]
  /\ clicks = 0 /\ missed = Keys /\ foreign = FALSE

-----------------------------------------------------------------------------
\* A click sends a request.
Send(op, key, name) ==
  /\ clicks < MaxClicks /\ clicks' = clicks + 1
  /\ \E q \in Requests \ InFlight :
       requests' = [requests EXCEPT ![q] =
         [step |-> "sent", op |-> op, key |-> key, name |-> name,
          rows |-> list.servers, names |-> {}, since |-> {}]]
  /\ UNCHANGED <<servers, secrets, list, missed, foreign>>

\* The form opens on a row that is listed, and stays when the row is not any more.
EditServer ==
  /\ list.kind = "servers"
  /\ \E s \in list.servers : list' = [list EXCEPT !.form = s.id]
  /\ UNCHANGED <<servers, secrets, requests, clicks, missed, foreign>>

\* handleSave() of a new server, or of the one that is edited, and handleDelete().  The
\* user may have left the edited row's form for an empty one, and come back to it: that
\* he may do so after the row is gone is more than the page allows.
SaveServer ==
  /\ list.kind = "servers"
  /\ \E n \in Names :
       \/ Send("create", None, n)
       \/ list.form # None /\ Send("update", list.form, n)

DeleteServer ==
  /\ list.kind = "servers"
  /\ \E s \in list.servers : Send("delete", s.id, None)

\* add() and remove() of a secret.
AddSecret ==
  /\ list.kind = "secrets"
  /\ \E n \in Secrets : Send("upsert", n, None)

RemoveSecret ==
  /\ list.kind = "secrets"
  /\ \E n \in list.secrets : Send("remove", n, None)

-----------------------------------------------------------------------------
\* The server: a name is unique, and only a row that is there can be changed.
Refused(r) ==
  \/ r.op \in {"update", "delete"} /\ \A s \in servers : s.id # r.key
  \/ r.op \in {"create", "update"} /\ \E s \in servers : s.name = r.name /\ s.id # r.key

\* A new row's id follows the largest, so that the id of the last row is given again.
NextId(id) ==
  /\ \A s \in servers : s.id < id
  /\ id = 1 \/ \E s \in servers : s.id = id - 1

Become(q, r) == requests' = [requests EXCEPT ![q] = r]

ServerLoads(q, r) ==
  /\ r.op = "load"
  /\ Become(q, [r EXCEPT !.step = "ok", !.rows = servers, !.names = secrets])
  /\ UNCHANGED <<servers, secrets>>

ServerRefuses(q, r) ==
  Refused(r) /\ Become(q, [r EXCEPT !.step = "error"]) /\ UNCHANGED <<servers, secrets>>

ServerChanges(q, r) ==
  /\ r.op \in {"create", "update", "delete"} /\ ~Refused(r)
  /\ \E id \in Ids :
       /\ IF r.op = "create" THEN NextId(id) ELSE id = r.key
       /\ servers' = Changed(servers, [r EXCEPT !.key = id])
       /\ Become(q, [r EXCEPT !.step = "ok", !.key = id])
  /\ UNCHANGED secrets

SecretChanges(q, r) ==
  /\ \/ r.op = "upsert" /\ secrets' = secrets \cup {r.key}
     \/ r.op = "remove" /\ secrets' = secrets \ {r.key}
  /\ Become(q, [r EXCEPT !.step = "ok"]) /\ UNCHANGED servers

ServerHandles(q) ==
  /\ q \in InFlight /\ requests[q].step = "sent"
  /\ \/ ServerLoads(q, requests[q]) \/ ServerRefuses(q, requests[q])
     \/ ServerChanges(q, requests[q]) \/ SecretChanges(q, requests[q])
  /\ UNCHANGED <<list, clicks, missed, foreign>>

-----------------------------------------------------------------------------
\* A request is over.  The others were made, or their rows read, before the keys were.
Over(q, keys) ==
  requests' = [p \in Requests |->
    IF p = q \/ requests[p] = None THEN None
      ELSE [requests[p] EXCEPT !.since = @ \cup (keys \ {None})]]

\* Mutant: the answer is put into an empty list, not into the one shown.
ForgetsShown(r) == Changed({}, r)

\* setServers() of a request that has succeeded: made from the list it was sent in.
ShownAfter(r) == Changed(r.rows, r)

\* load() has answered, or refresh().
ListLoaded(q) ==
  /\ q \in InFlight /\ requests[q].step = "ok" /\ requests[q].op = "load"
  /\ LET r == requests[q] IN
     IF list.kind = "servers"
       THEN list' = [list EXCEPT !.servers = r.rows] /\ Over(q, Keys)
       ELSE list' = [list EXCEPT !.secrets = r.names] /\ Over(q, {r.key})
  /\ missed' = requests[q].since
  /\ UNCHANGED <<servers, secrets, clicks, foreign>>

\* The form that saved is closed, with whatever was opened in it since.
ServerAnswered(q) ==
  /\ q \in InFlight /\ requests[q].step = "ok"
  /\ requests[q].op \in {"create", "update", "delete"}
  /\ LET r == requests[q] IN
     /\ list' = [list EXCEPT !.servers = ShownAfter(r),
                             !.form = IF r.op = "delete" THEN @ ELSE None]
     /\ Over(q, {r.key})
     /\ missed' = missed \cup r.since
  /\ UNCHANGED <<servers, secrets, clicks, foreign>>

\* The answer of a change of a secret is followed by refresh().
SecretAnswered(q) ==
  /\ q \in InFlight /\ requests[q].step = "ok"
  /\ requests[q].op \in {"upsert", "remove"}
  /\ Become(q, [requests[q] EXCEPT !.step = "sent", !.op = "load", !.since = {}])
  /\ UNCHANGED <<servers, secrets, list, clicks, missed, foreign>>

\* A request or its refresh() fails: it is not handled, it is refused, or it is handled
\* and its answer is lost.  The page shows the error and keeps its list.
Landed(r) == r.step = "ok" \/ r.op = "load"

RequestFailed(q) ==
  /\ q \in InFlight
  /\ LET keys == IF Landed(requests[q]) THEN {requests[q].key} \ {None} ELSE {} IN
     Over(q, keys) /\ missed' = missed \cup keys
  /\ UNCHANGED <<servers, secrets, list, clicks, foreign>>

ChangedElsewhere ==
  /\ ~foreign /\ foreign' = TRUE
  /\ \E key \in Keys :
       /\ IF list.kind = "servers"
            THEN /\ secrets' = secrets /\ servers' \in {rows \in SUBSET Server : Unique(rows)}
                 /\ {s \in servers' : s.id # key} = {s \in servers : s.id # key}
            ELSE servers' = servers /\ secrets' \in {secrets \cup {key}, secrets \ {key}}
       /\ secrets' \subseteq Secrets
       /\ Over(None, {key}) /\ missed' = missed \cup {key}
  /\ UNCHANGED <<list, clicks>>

Next ==
  \/ EditServer \/ SaveServer \/ DeleteServer \/ AddSecret \/ RemoveSecret
  \/ \E q \in Requests :
       \/ ServerHandles(q) \/ ListLoaded(q) \/ ServerAnswered(q) \/ SecretAnswered(q)
       \/ RequestFailed(q)
  \/ ChangedElsewhere

Spec == Init /\ [][Next]_vars

-----------------------------------------------------------------------------
TypeOK ==
  /\ servers \subseteq Server /\ Unique(servers) /\ secrets \subseteq Secrets
  /\ list \in [kind : {"servers", "secrets"}, servers : SUBSET Server,
               secrets : SUBSET Secrets, form : Ids \cup {None}]
  /\ requests \in [Requests -> Request \cup {None}]
  /\ clicks \in 0..MaxClicks /\ missed \subseteq Keys /\ foreign \in BOOLEAN

\* What rows, or names, say of a key is what the server says.
Agrees(rows, known, key) ==
  IF list.kind = "servers"
    THEN {s \in rows : s.id = key} = {s \in servers : s.id = key}
    ELSE key \in known <=> key \in secrets

\* However requests overlap and whichever of them fail, the list is wrong only about a row
\* whose change is under way, was made elsewhere, or whose answer was lost, or was followed
\* by the answer to an older request, made from the list as it was before.
OnlyMissedRowsAreWrong ==
  \A key \in Keys :
    \/ Agrees(list.servers, list.secrets, key) \/ key \in missed
    \/ \E q \in InFlight : Landed(requests[q]) /\ requests[q].key = key

===============================================================================
