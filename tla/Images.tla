--------------------------------- MODULE Images ---------------------------------
(***************************************************************************)
(* The images that containers are made of.  A launch looks for the image   *)
(* of its project's configuration and builds what is missing, in two       *)
(* stages; a sweep removes what is older than 30 days, used by no          *)
(* container and of no project's configuration.  Docker is between them:   *)
(* they know nothing of each other.                                        *)
(*                                                                         *)
(* One project, whose configuration may be edited, and whose repository    *)
(* may hold a .devcontainer directory.  A hash is the configuration it is  *)
(* of.                                                                     *)
(***************************************************************************)
EXTENDS Integers

CONSTANTS
  None,       \* no configuration, no image
  Launches,   \* lives of runs, each with one container
  Sweeps,     \* calls of runGcOnce()
  Overrides,  \* values of devcontainer_override_json
  MaxEdits,   \* bound on edits of the project
  MaxMonths   \* bound on spans of 30 days

ImagesAssumption ==
  /\ Overrides # {} /\ Launches \cap Sweeps = {}
  /\ MaxEdits \in Nat /\ MaxMonths \in Nat

VARIABLES
  override,    \* the project's override JSON
  repo,        \* whether the repository has a .devcontainer directory
  images,      \* [tag |-> none, new, or created more than 30 days ago: old, or used,
               \* if a container was made of it within them]
  launch,      \* per launch: its step, the configuration it read, its container
  sweep,       \* per sweep: its step, the tags it found reachable and in use, and
               \* those it still has to delete
  edited,      \* the launches and sweeps whose project was edited since they read it,
               \* and the launches that meet such a sweep
  edits, months

vars == <<override, repo, images, launch, sweep, edited, edits, months>>
bounds == <<edits, months>>

Hash == [dev : BOOLEAN, override : Overrides]
Final(h) == <<"final", h>>
Base(h) == <<"base", h>>
Tag == {"final", "base"} \X Hash

IdleLaunch == [pc |-> "idle", dev |-> FALSE, override |-> None, image |-> None]
IdleSweep == [pc |-> "idle", reachable |-> {}, inUse |-> {}, delete |-> {}]

Init ==
  /\ override \in Overrides /\ repo \in BOOLEAN
  /\ images = [t \in Tag |-> "none"]
  /\ launch = [l \in Launches |-> IdleLaunch]
  /\ sweep = [s \in Sweeps |-> IdleSweep]
  /\ edited = {} /\ edits = 0 /\ months = 0

-----------------------------------------------------------------------------
\* A launch.  The project's row is read once, at the beginning.
Set(l, rec) == launch' = [launch EXCEPT ![l] = rec]

HashOf(l) == [dev |-> launch[l].dev, override |-> launch[l].override]

LaunchBegins(l) ==
  /\ launch[l].pc = "idle"
  /\ Set(l, [IdleLaunch EXCEPT !.pc = "fetching", !.override = override])
  /\ edited' = IF edited \cap Sweeps # {} THEN edited \cup {l} ELSE edited
  /\ UNCHANGED <<override, repo, images, sweep, bounds>>

\* fetchDevcontainerFile(): a clone that fails looks like a repository without one.
DevcontainerFetched(l) ==
  /\ launch[l].pc = "fetching"
  /\ \E dev \in {repo, FALSE} : Set(l, [launch[l] EXCEPT !.pc = "resolving", !.dev = dev])
  /\ UNCHANGED <<override, repo, images, sweep, edited, bounds>>

\* resolve(): the final image, or else the base to build it on.
Resolve(l) ==
  /\ launch[l].pc = "resolving"
  /\ Set(l, [launch[l] EXCEPT !.pc =
       IF images[Final(HashOf(l))] # "none" THEN "creating" ELSE "base"])
  /\ UNCHANGED <<override, repo, images, sweep, edited, bounds>>

ResolveBase(l) ==
  /\ launch[l].pc = "base"
  /\ Set(l, [launch[l] EXCEPT !.pc =
       IF images[Base(HashOf(l))] # "none" THEN "post" ELSE "building"])
  /\ UNCHANGED <<override, repo, images, sweep, edited, bounds>>

Fails(l) == Set(l, [launch[l] EXCEPT !.pc = "failed"])

\* buildDevcontainer() or buildFallback(): either may fail, and the launch does.
BaseBuilt(l) ==
  /\ launch[l].pc = "building"
  /\ \/ /\ images' = [images EXCEPT ![Base(HashOf(l))] = "new"]
        /\ Set(l, [launch[l] EXCEPT !.pc = "post"])
     \/ Fails(l) /\ UNCHANGED images
  /\ UNCHANGED <<override, repo, sweep, edited, bounds>>

\* buildPostLayer(): FROM the base image, which has to be there still.
PostLayerBuilt(l) ==
  /\ launch[l].pc = "post"
  /\ \/ /\ images[Base(HashOf(l))] # "none"
        /\ images' = [images EXCEPT ![Final(HashOf(l))] = "new"]
        /\ Set(l, [launch[l] EXCEPT !.pc = "creating"])
     \/ Fails(l) /\ UNCHANGED images
  /\ UNCHANGED <<override, repo, sweep, edited, bounds>>

\* createContainer() with the tag: without the image it fails.
ContainerCreated(l) ==
  /\ launch[l].pc = "creating"
  /\ LET t == Final(HashOf(l)) IN
     IF images[t] = "none"
       THEN Fails(l) /\ UNCHANGED images
       ELSE /\ Set(l, [launch[l] EXCEPT !.pc = "running", !.image = t])
            /\ images' = [images EXCEPT ![t] = IF @ = "old" THEN "used" ELSE @]
  /\ UNCHANGED <<override, repo, sweep, edited, bounds>>

\* The container is removed when the run ends; a failed launch left none.
LaunchEnds(l) ==
  /\ launch[l].pc \in {"running", "failed"}
  /\ Set(l, [IdleLaunch EXCEPT !.pc = "over"])
  /\ edited' = edited \ {l}
  /\ UNCHANGED <<override, repo, images, sweep, bounds>>

-----------------------------------------------------------------------------
\* A sweep.  The start of the server and the timer call it when the setting is on,
\* the endpoint whenever it is asked: the page disables its button only.
SetSweep(s, rec) == sweep' = [sweep EXCEPT ![s] = rec]

\* Mutant: the override is left out of the hash the sweep computes.
ReachableIgnoringOverride ==
  LET h == [dev |-> FALSE, override |-> CHOOSE o \in Overrides : TRUE] IN {Final(h), Base(h)}

\* The sweep computes the hash as if no repository had a .devcontainer directory.
Reachable ==
  LET h == [dev |-> FALSE, override |-> override] IN {Final(h), Base(h)}

SweepBegins(s) ==
  /\ sweep[s].pc = "idle"
  /\ SetSweep(s, [IdleSweep EXCEPT !.pc = "containers", !.reachable = Reachable])
  /\ edited' = edited \ {s}
  /\ UNCHANGED <<override, repo, images, launch, bounds>>

InUse == {launch[l].image : l \in Launches} \ {None}

ContainersListed(s) ==
  /\ sweep[s].pc = "containers"
  /\ SetSweep(s, [sweep[s] EXCEPT !.pc = "images", !.inUse = InUse])
  /\ UNCHANGED <<override, repo, images, launch, edited, bounds>>

Deletable(s) ==
  {t \in Tag : images[t] \in {"old", "used"} /\ t \notin sweep[s].inUse \cup sweep[s].reachable}

ImagesListed(s) ==
  /\ sweep[s].pc = "images"
  /\ SetSweep(s, [IdleSweep EXCEPT !.pc = "deleting", !.delete = Deletable(s)])
  /\ UNCHANGED <<override, repo, images, launch, edited, bounds>>

\* remove() without force: Docker refuses it for the image of a container, and the
\* sweep goes on; of what is gone already there is only an error too.
ImageRemoved(s, t) ==
  /\ sweep[s].pc = "deleting" /\ t \in sweep[s].delete
  /\ SetSweep(s, [sweep[s] EXCEPT !.delete = @ \ {t}])
  /\ images' = IF t \in InUse THEN images ELSE [images EXCEPT ![t] = "none"]
  /\ UNCHANGED <<override, repo, launch, edited, bounds>>

\* recordGc(), and the timer is set anew.
SweepEnds(s) ==
  /\ sweep[s].pc = "deleting" /\ sweep[s].delete = {}
  /\ SetSweep(s, IdleSweep)
  /\ edited' = edited \ {s}
  /\ UNCHANGED <<override, repo, images, launch, bounds>>

-----------------------------------------------------------------------------
\* The project's page saves another override, which concerns whatever has read
\* the old one.
EditOverride ==
  /\ edits < MaxEdits /\ edits' = edits + 1
  /\ override' \in Overrides \ {override}
  /\ edited' = {l \in Launches : launch[l].pc \notin {"idle", "over"}}
                 \cup {s \in Sweeps : sweep[s].pc # "idle"}
  /\ UNCHANGED <<repo, images, launch, sweep, months>>

\* Thirty days pass.  No launch and no sweep takes that long; a container may.
MonthPasses ==
  /\ months < MaxMonths /\ months' = months + 1
  /\ \A l \in Launches : launch[l].pc \in {"idle", "running", "failed", "over"}
  /\ \A s \in Sweeps : sweep[s].pc = "idle"
  /\ images' = [t \in Tag |->
       IF t \in InUse THEN "used" ELSE IF images[t] = "none" THEN "none" ELSE "old"]
  /\ UNCHANGED <<override, repo, launch, sweep, edited, edits>>

Next ==
  \/ \E l \in Launches :
       \/ LaunchBegins(l) \/ DevcontainerFetched(l) \/ Resolve(l) \/ ResolveBase(l)
       \/ BaseBuilt(l) \/ PostLayerBuilt(l) \/ ContainerCreated(l) \/ LaunchEnds(l)
  \/ \E s \in Sweeps :
       \/ SweepBegins(s) \/ ContainersListed(s) \/ ImagesListed(s) \/ SweepEnds(s)
       \/ \E t \in Tag : ImageRemoved(s, t)
  \/ EditOverride \/ MonthPasses

Spec == Init /\ [][Next]_vars

-----------------------------------------------------------------------------
TypeOK ==
  /\ override \in Overrides /\ repo \in BOOLEAN
  /\ images \in [Tag -> {"none", "new", "old", "used"}]
  /\ launch \in [Launches ->
       [pc : {"idle", "fetching", "resolving", "base", "building", "post", "creating",
              "running", "failed", "over"},
        dev : BOOLEAN, override : Overrides \cup {None}, image : Tag \cup {None}]]
  /\ sweep \in [Sweeps ->
       [pc : {"idle", "containers", "images", "deleting"}, reachable : SUBSET Tag,
        inUse : SUBSET Tag, delete : SUBSET Tag]]
  /\ edited \subseteq Launches \cup Sweeps
  /\ edits \in 0..MaxEdits /\ months \in 0..MaxMonths

\* A launch of a project that nobody edits, under it or under a sweep, and whose
\* repository has no .devcontainer, has what it resolved when it comes to use it: no
\* sweep takes it in between.  (Of the others some do: README.md.)
LaunchHasImage ==
  \A l \in Launches : ~launch[l].dev /\ l \notin edited =>
    /\ launch[l].pc = "creating" => images[Final(HashOf(l))] # "none"
    /\ launch[l].pc = "post" => images[Base(HashOf(l))] # "none"

===============================================================================
