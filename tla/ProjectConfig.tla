----------------------------- MODULE ProjectConfig -----------------------------
(***************************************************************************)
(* What a container is configured with: the project's row, the settings,   *)
(* the secrets and the MCP servers, each of which may be edited at any time*)
(* while a life reads them one after the other, with a clone, a build and  *)
(* Docker's answers in between.                                            *)
(*                                                                         *)
(* One project, one name of an MCP server, which the project and the global*)
(* list may both have, and one secret it may refer to.  The fields of a row*)
(* that are read together are one value.                                   *)
(***************************************************************************)
EXTENDS Integers

CONSTANTS
  None,       \* NULL, no row
  Gone,       \* the project is deleted
  Values,     \* of a field
  Plugins,
  MaxEdits,   \* bound on edits
  MaxLives    \* bound on the lives of the run

ProjectConfigAssumption ==
  Gone # None /\ {None, Gone} \cap Values = {} /\ MaxEdits \in Nat /\ MaxLives \in Nat

VARIABLES
  project,    \* its row: author (and the other fields with a default), plugins
  settings,   \* the row of settings: the global prompt, plugins
  secret,     \* the project's secret, or None
  servers,    \* per scope, what the server's env has: text, $NAME, or None: no row
  life,       \* a launch or a resume: its step, what it has read, what it made
  since,      \* what the sources were from the life's beginning to its container's
  named,      \* per scope, whether the secret has been there ever since the row named it
  edits, lives

vars == <<project, settings, secret, servers, life, since, named, edits, lives>>
rows == <<project, settings, secret, servers>>

Scopes == {"global", "project"}
Booting == {"building", "creating", "prompted"}

ProjectRow == [author : Values \cup {None}, plugins : SUBSET Plugins]
SettingsRow == [prompt : Values, plugins : SUBSET Plugins]

\* env and files are what the container is created with, and what is put into it.
NoLife ==
  [pc |-> "none", kind |-> "launch", project |-> Gone, secret |-> None, author |-> None,
   plugins |-> {}, prompt |-> None, server |-> None, resolved |-> None]

Sources == [project |-> project, settings |-> settings, secret |-> secret, servers |-> servers]

Init ==
  /\ project \in [author : Values \cup {None}, plugins : {{}}]
  /\ settings \in [prompt : Values, plugins : {{}}]
  /\ secret = None /\ servers = [s \in Scopes |-> None]
  /\ life = NoLife /\ since = {} /\ named = [s \in Scopes |-> FALSE]
  /\ edits = 0 /\ lives = 0

-----------------------------------------------------------------------------
\* The edits, each one request.  A history variable notes what the sources were.
Edit ==
  /\ edits < MaxEdits /\ edits' = edits + 1
  /\ since' = IF life.pc \in Booting THEN since \cup {Sources'} ELSE since
  /\ UNCHANGED <<life, lives>>

\* PATCH /api/projects/:id: fields the request does not name stay.  Of a project
\* that is deleted update() throws.
UpdateProject ==
  /\ project # Gone
  /\ \/ \E a \in Values \cup {None} : project' = [project EXCEPT !.author = a]
     \/ \E ps \in SUBSET Plugins : project' = [project EXCEPT !.plugins = ps]
  /\ UNCHANGED <<settings, secret, servers, named>>

\* PATCH /api/settings.
UpdateSettings ==
  /\ \/ \E v \in Values : settings' = [settings EXCEPT !.prompt = v]
     \/ \E ps \in SUBSET Plugins : settings' = [settings EXCEPT !.plugins = ps]
  /\ UNCHANGED <<project, secret, servers, named>>

\* PUT /api/projects/:id/secrets/:name.  The project has to be there.
UpsertSecret ==
  /\ project # Gone
  /\ secret' \in Values
  /\ UNCHANGED <<project, settings, servers, named>>

RemoveSecret ==
  /\ secret' = None
  /\ named' = [s \in Scopes |-> FALSE]
  /\ UNCHANGED <<project, settings, servers>>

\* POST and PATCH of a server: the env is text, or names the secret.
SaveServer(scope) ==
  /\ scope = "project" => project # Gone
  /\ \E env \in {"text", "secret"} :
       /\ servers' = [servers EXCEPT ![scope] = env]
       /\ named' = [named EXCEPT ![scope] = (env = "secret" /\ secret # None)]
  /\ UNCHANGED <<project, settings, secret>>

DeleteServer(scope) ==
  /\ servers[scope] # None
  /\ servers' = [servers EXCEPT ![scope] = None]
  /\ UNCHANGED <<project, settings, secret, named>>

\* DELETE /api/projects/:id: its secrets, servers and runs go with it.
DeleteProject ==
  /\ project # Gone
  /\ project' = Gone /\ secret' = None
  /\ servers' = [servers EXCEPT !["project"] = None]
  /\ named' = [s \in Scopes |-> FALSE]
  /\ UNCHANGED settings

-----------------------------------------------------------------------------
\* Mutant: the global row wins.
GlobalWins ==
  IF servers["global"] # None THEN servers["global"] ELSE servers["project"]

\* listEffective(): the project's row of a name wins over the global one.
Effective ==
  IF servers["project"] # None THEN servers["project"] ELSE servers["global"]

\* buildMcpServersConfig(): a $NAME becomes the secret's value, or nothing.
Resolved(env, value) == IF env = "secret" THEN value ELSE env

\* git_author_name and its like have a default in the server's configuration.
WithDefault(v) == IF v = None THEN "config" ELSE v

\* createContainerForRun() reads the project's row when it begins.  A run of a
\* project that is gone is gone too.
LifeBegins(kind) ==
  /\ life.pc \in {"none", "over"} /\ lives < MaxLives
  /\ project # Gone
  /\ lives' = lives + 1
  /\ life' = [NoLife EXCEPT !.pc = "building", !.kind = kind, !.project = project]
  /\ since' = {Sources}
  /\ UNCHANGED <<rows, named, edits>>

\* The image is resolved: the secrets and the settings are read for the container's
\* environment.
ContainerRequested ==
  /\ life.pc = "building"
  /\ life' = [life EXCEPT !.pc = "creating", !.secret = secret,
                !.author = WithDefault(life.project.author),
                !.plugins = settings.plugins \cup life.project.plugins]
  /\ UNCHANGED <<rows, since, named, edits, lives>>

\* Mutant: a resume resolves the servers' env with the secrets of the environment.
OneReadingOfSecrets == life.secret

\* The secrets that resolve the servers' env: a launch takes those it has, a resume
\* and a continue read them again.
SecretForServers == IF life.kind = "launch" THEN life.secret ELSE secret

\* A resume of a run without a session puts the prompts into its container first.  It
\* reads the project's row for them, and throws if it is gone.
PromptsInjected ==
  /\ life.pc = "creating" /\ life.kind = "resume"
  /\ life' = IF project = Gone THEN [NoLife EXCEPT !.pc = "over"]
             ELSE [life EXCEPT !.pc = "prompted", !.prompt = settings.prompt]
  /\ since' = IF project = Gone THEN {} ELSE since
  /\ UNCHANGED <<rows, named, edits, lives>>

\* createContainer() has answered: the servers and, for a launch, the prompts are
\* read and put into the container.
ContainerFilled ==
  /\ life.pc \in {"creating", "prompted"}
  /\ life' = [life EXCEPT !.pc = "running", !.server = Effective,
                !.resolved = Resolved(Effective, SecretForServers),
                !.prompt = IF life.kind = "launch" THEN settings.prompt ELSE @]
  /\ UNCHANGED <<rows, since, named, edits, lives>>

\* A build or Docker fails, or the run ends.
LifeEnds ==
  /\ life.pc \in Booting \cup {"running"}
  /\ life' = [NoLife EXCEPT !.pc = "over"] /\ since' = {}
  /\ UNCHANGED <<rows, named, edits, lives>>

Next ==
  \/ UpdateProject /\ Edit
  \/ UpdateSettings /\ Edit
  \/ UpsertSecret /\ Edit
  \/ RemoveSecret /\ Edit
  \/ \E scope \in Scopes : (SaveServer(scope) \/ DeleteServer(scope)) /\ Edit
  \/ DeleteProject /\ Edit
  \/ \E kind \in {"launch", "resume"} : LifeBegins(kind)
  \/ ContainerRequested \/ PromptsInjected \/ ContainerFilled \/ LifeEnds

Spec == Init /\ [][Next]_vars

-----------------------------------------------------------------------------
TypeOK ==
  /\ project \in ProjectRow \cup {Gone} /\ settings \in SettingsRow
  /\ secret \in Values \cup {None}
  /\ servers \in [Scopes -> {None, "text", "secret"}]
  /\ life.pc \in {"none", "running", "over"} \cup Booting
  /\ named \in [Scopes -> BOOLEAN]
  /\ edits \in 0..MaxEdits /\ lives \in 0..MaxLives

\* An edit that is saved before a life begins is in the life's container: whatever
\* the container has was the value of its source at some time since, and it never
\* mixes the rows of two projects' authors and plugins.
EditsReach ==
  life.pc = "running" =>
    /\ \E s \in since : s.project # Gone /\ life.author = WithDefault(s.project.author)
         /\ s.project.plugins \subseteq life.plugins
    /\ \E s \in since, t \in since :
         t.project # Gone /\ life.plugins = s.settings.plugins \cup t.project.plugins
    /\ \E s \in since : life.secret = s.secret
    /\ life.prompt # None => \E s \in since : life.prompt = s.settings.prompt
    /\ \E s \in since :
         LET own == s.servers["project"] IN
         life.server = IF own # None THEN own ELSE s.servers["global"]

\* A server of a resumed life whose env names a secret that has been there ever
\* since has its value.  (A launch may start it without: it reads the secrets
\* first, and the servers when Docker has answered.)
NamedSecretResolved ==
  [][/\ life.kind = "resume" /\ life.pc \in Booting /\ life'.pc = "running"
     /\ life'.server = "secret"
     /\ IF servers["project"] = None THEN named["global"] ELSE named["project"]
     => life'.resolved # None]_vars

===============================================================================
