-------------------------------- MODULE MCStore --------------------------------
(***************************************************************************)
(* What the server keeps beside the runs' rows, on small instances: the    *)
(* uploaded files, the images, the configuration, the lists of it in the   *)
(* browser, and the database's shape.  A migration is over before anything *)
(* else begins, and of the others none reads another's state: a behaviour  *)
(* shows one and the others rest.                                          *)
(***************************************************************************)
EXTENDS Integers, FiniteSets

CONSTANTS
  None, Gone,
  NumTokens, NumRuns, MaxUploads, Quota, MaxEvents, OneSubmit,  \* Uploads
  Launches, Sweeps, Overrides, MaxMonths,                       \* Images
  Values, Plugins, MaxLives,                                    \* ProjectConfig
  ServerNames, MaxId, Secrets, Requests, MaxClicks,             \* ConfigLists
  OldRuns, NarrowCheck,                                         \* Migrations
  MaxEdits, MaxCrashes                            \* two of them, and Migrations

VARIABLES
  shown,   \* the component whose steps the behaviour shows
  names, parts, exists, ups, runs, prom, page, tokens, sweeping, aged, judged, gone, events,
  override, repo, images, launch, sweep, edited, overrides, months,
  project, settings, secret, servers, life, since, named, edits, lives,
  serverRows, secretRows, list, requests, clicks, missed, foreign,
  disk, db, open, pc, known, torn, crashes

Files == INSTANCE Uploads
Image == INSTANCE Images WITH edits <- overrides
Config == INSTANCE ProjectConfig
Lists == INSTANCE ConfigLists WITH
  Names <- ServerNames, servers <- serverRows, secrets <- secretRows
Schema == INSTANCE Migrations WITH Runs <- OldRuns

ASSUME StoreAssumption ==
  /\ Files!UploadsAssumption /\ Image!ImagesAssumption /\ Config!ProjectConfigAssumption
  /\ Lists!ConfigListsAssumption /\ Schema!MigrationsAssumption

fileVars == <<names, parts, exists, ups, runs, prom, page, tokens, sweeping, aged, judged,
              gone, events>>
imageVars == <<override, repo, images, launch, sweep, edited, overrides, months>>
configVars == <<project, settings, secret, servers, life, since, named, edits, lives>>
listVars == <<serverRows, secretRows, list, requests, clicks, missed, foreign>>
schemaVars == <<disk, db, open, pc, known, torn, crashes>>
vars == <<shown, fileVars, imageVars, configVars, listVars, schemaVars>>

\* The components that rest are in one of their initial states.
Init ==
  /\ shown \in {"files", "images", "config", "lists", "schema"}
  /\ Files!Init
  /\ Image!Init /\ (shown # "images" => override = (CHOOSE o \in Overrides : TRUE) /\ repo)
  /\ Config!Init
  /\ shown # "config" => project.author = None /\ settings.prompt = CHOOSE v \in Values : TRUE
  /\ Lists!Init
  /\ shown # "lists" => serverRows = {} /\ secretRows = {} /\ list.kind = "servers"
  /\ Schema!Init /\ (shown # "schema" => db = Schema!Fresh)

Next ==
  \/ shown = "files" /\ Files!Next
     /\ UNCHANGED <<shown, imageVars, configVars, listVars, schemaVars>>
  \/ shown = "images" /\ Image!Next
     /\ UNCHANGED <<shown, fileVars, configVars, listVars, schemaVars>>
  \/ shown = "config" /\ Config!Next
     /\ UNCHANGED <<shown, fileVars, imageVars, listVars, schemaVars>>
  \/ shown = "lists" /\ Lists!Next
     /\ UNCHANGED <<shown, fileVars, imageVars, configVars, schemaVars>>
  \/ shown = "schema" /\ Schema!Next
     /\ UNCHANGED <<shown, fileVars, imageVars, configVars, listVars>>

Spec == Init /\ [][Next]_vars

-----------------------------------------------------------------------------
\* All have states of their type; that of the uploads says that no run is left
\* with files of a promotion that was rolled back, and no .part stays behind.
TypeOK ==
  CASE shown = "files" -> Files!TypeOK
    [] shown = "images" -> Image!TypeOK
    [] shown = "config" -> Config!TypeOK
    [] shown = "lists" -> Lists!TypeOK
    [] shown = "schema" -> Schema!TypeOK

\* No file replaces another, and only uploads that overlap pass the quota of a run.
UploadsLand == Files!NeverOverwritten /\ Files!QuotaKept

\* A run is launched with what its page showed.
LaunchedIsComplete == Files!LaunchedIsComplete

\* No sweep takes the image a launch has resolved.
LaunchHasImage == shown = "images" => Image!LaunchHasImage

\* What a container is configured with was in the rows since its life began, and a
\* resumed server has the secret its env names.
EditsReach ==
  [](shown = "config" => Config!EditsReach) /\ Config!NamedSecretResolved

\* A list is wrong about no row but those whose answer was lost, or overtaken.
OnlyMissedRowsAreWrong == shown = "lists" => Lists!OnlyMissedRowsAreWrong

\* A server that serves has every column, and rows of today's rules.
Upgraded == shown = "schema" => Schema!Upgraded

===============================================================================
