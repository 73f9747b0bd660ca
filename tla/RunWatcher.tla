------------------------------ MODULE RunWatcher ------------------------------
(***************************************************************************)
(* The watcher of a browser page: it seeds a map of the runs from a list,  *)
(* opens the socket of state frames, keeps the map by them, announces what *)
(* ends or waits, and drives the connection banner.                        *)
(*                                                                         *)
(* What the server publishes between the list and the opening is lost.     *)
(***************************************************************************)
EXTENDS Integers, Sequences, FiniteSets

CONSTANTS
  None,
  Runs,
  MaxEnds,     \* bound on the ends of a run
  MaxWire,     \* bound on the frames in flight
  MaxPending   \* bound on the announcements of a run that wait

WatcherAssumption ==
  IsFiniteSet(Runs) /\ {MaxEnds, MaxWire, MaxPending} \subseteq Nat

VARIABLES
  row,      \* the state of each run on the server
  socket,   \* seeding, listed, connecting, open, closed
  listed,   \* the answer to the list request
  wire,     \* state frames on the socket
  runs,     \* the watcher's map
  enabled,  \* the setting notifications_enabled has arrived
  waits, completions,  \* announcements that wait for the project's name
  visible, unread,
  waitingRuns,         \* runs whose waiting was counted in a hidden tab
  conn,     \* the banner: connecting, connected, disconnected
  timer,    \* the two-second timer of the banner runs
  ends,     \* how often each run has ended
  said      \* how often the page has announced its end

vars == <<row, socket, listed, wire, runs, enabled, waits, completions, visible, unread,
          waitingRuns, conn, timer, ends, said>>

link == <<socket, listed, wire>>
banner == <<conn, timer>>
tab == <<visible, unread, waitingRuns>>
server == <<row, ends>>

\* queued stands for what is neither live nor terminal, ended for isTerminal().
States == {"queued", "running", "waiting", "ended"}

\* The map of a page that has just been loaded, and no announcement.
Unknown == [r \in Runs |-> None]
Quiet == [r \in Runs |-> 0]

Init ==
  /\ row \in [Runs -> {"queued", "running", "ended"}]
  /\ ends = [r \in Runs |-> IF row[r] = "ended" THEN 1 ELSE 0]
  /\ socket = "seeding" /\ listed = None /\ wire = <<>>
  /\ runs = Unknown /\ enabled = FALSE
  /\ waits = Quiet /\ completions = Quiet /\ said = Quiet
  /\ visible = TRUE /\ unread = 0 /\ waitingRuns = {}
  /\ conn = "connecting" /\ timer = FALSE

-----------------------------------------------------------------------------
\* The server.  publishState() sends the row to the sockets that are open.

Follows(s) ==
  CASE s = "queued" -> {"running", "ended"}
    [] s = "running" -> {"waiting", "queued", "ended"}
    [] s = "waiting" -> {"running", "queued", "ended"}
    [] s = "ended" -> {"queued"}

Sends(r, s) ==
  wire' = IF socket = "open" THEN Append(wire, [run |-> r, state |-> s]) ELSE wire

Publishes ==
  \E r \in Runs : \E s \in Follows(row[r]) :
    /\ s = "ended" => ends[r] < MaxEnds
    /\ Len(wire) < MaxWire
    /\ row' = [row EXCEPT ![r] = s]
    /\ ends' = IF s = "ended" THEN [ends EXCEPT ![r] = @ + 1] ELSE ends
    /\ Sends(r, s)
    /\ UNCHANGED <<socket, listed, runs, enabled, waits, completions, tab, banner, said>>

\* The runtime watcher of a life publishes the row whether its mark took or not,
\* also between the end of the run and the stop of the watcher.
Republishes ==
  \E r \in Runs :
    /\ Len(wire) < MaxWire /\ socket = "open"
    /\ Sends(r, row[r])
    /\ UNCHANGED <<server, socket, listed, runs, enabled, waits, completions, tab, banner,
                   said>>

-----------------------------------------------------------------------------
\* connectionState.ts.

SetConnecting ==
  /\ conn' = IF conn = "disconnected" THEN conn ELSE "connecting"
  /\ UNCHANGED timer

\* Mutant: a quick reconnect leaves the timer running.
TimerKept == conn' = "connected" /\ UNCHANGED timer

SetConnected == conn' = "connected" /\ timer' = FALSE

SetDisconnected == timer' = (timer \/ conn # "disconnected") /\ UNCHANGED conn

TimerFires ==
  /\ timer /\ timer' = FALSE /\ conn' = "disconnected"
  /\ UNCHANGED <<server, link, runs, enabled, waits, completions, tab, said>>

-----------------------------------------------------------------------------
\* seed() and connect().

\* listRuns() is answered.
Lists ==
  /\ socket = "seeding" /\ socket' = "listed" /\ listed' = row
  /\ UNCHANGED <<server, wire, runs, enabled, waits, completions, tab, banner, said>>

\* The answer, or none: the map stays and the socket is opened all the same.
Connects ==
  /\ \/ socket = "listed" /\ runs' = listed
     \/ socket \in {"seeding", "listed"} /\ UNCHANGED runs
  /\ socket' = "connecting" /\ listed' = None
  /\ SetConnecting
  /\ UNCHANGED <<server, wire, enabled, waits, completions, tab, said>>

\* onopen.
Opens ==
  /\ socket = "connecting" /\ conn # "disconnected"
  /\ socket' = "open" /\ SetConnected
  /\ UNCHANGED <<server, listed, wire, runs, enabled, waits, completions, tab, said>>

\* A banner that was up reloads the page.
Reloads ==
  /\ socket = "connecting" /\ conn = "disconnected"
  /\ socket' = "seeding" /\ listed' = None /\ wire' = <<>>
  /\ runs' = Unknown /\ enabled' = FALSE
  /\ waits' = Quiet /\ completions' = Quiet /\ said' = Quiet
  /\ unread' = 0 /\ waitingRuns' = {}
  /\ conn' = "connecting" /\ timer' = FALSE
  /\ UNCHANGED <<server, visible>>

\* onclose, after onerror where there was one.
Closes ==
  /\ socket \in {"connecting", "open"}
  /\ socket' = "closed" /\ wire' = <<>>
  /\ SetDisconnected
  /\ UNCHANGED <<server, listed, runs, enabled, waits, completions, tab, said>>

\* A second later.
Reseeds ==
  /\ socket = "closed" /\ socket' = "seeding"
  /\ UNCHANGED <<server, listed, wire, runs, enabled, waits, completions, tab, banner, said>>

\* The setting arrives: the effect is torn down and starts over with a new map.
\* A socket that was connecting reports an error as it is closed.
Enables ==
  /\ ~enabled /\ enabled' = TRUE
  /\ socket' = "seeding" /\ listed' = None /\ wire' = <<>> /\ runs' = Unknown
  /\ IF socket = "connecting" THEN SetDisconnected ELSE UNCHANGED banner
  /\ UNCHANGED <<server, waits, completions, tab, said>>

-----------------------------------------------------------------------------
\* onmessage, and the announcements it makes once getProject() has answered.

\* clearWaitingBadge()
Unbadges(r) ==
  /\ waitingRuns' = waitingRuns \ {r}
  /\ unread' = IF r \in waitingRuns THEN unread - 1 ELSE unread
  /\ UNCHANGED visible

\* Mutant: every frame of an ended run is an end.
EndedFrame(prev, s) == s = "ended"

\* A run the map does not know counts as queued.
IsEnd(prev, s) == s = "ended" /\ prev # "ended"

Receives ==
  /\ wire # <<>>
  /\ LET r == Head(wire).run
         s == Head(wire).state
         prev == runs[r]
     IN
     /\ runs' = [runs EXCEPT ![r] = s]
     /\ IF enabled /\ prev = "running" /\ s = "waiting"
        THEN waits[r] < MaxPending /\ waits' = [waits EXCEPT ![r] = @ + 1]
        ELSE UNCHANGED waits
     /\ IF enabled /\ prev = "waiting" /\ s # "waiting" THEN Unbadges(r) ELSE UNCHANGED tab
     /\ completions' = IF enabled /\ IsEnd(prev, s)
                       THEN [completions EXCEPT ![r] = @ + 1] ELSE completions
  /\ wire' = Tail(wire)
  /\ UNCHANGED <<server, socket, listed, enabled, banner, said>>

\* notifyWaiting()
TellsWaiting ==
  \E r \in Runs :
    /\ waits[r] > 0 /\ waits' = [waits EXCEPT ![r] = @ - 1]
    /\ IF visible \/ r \in waitingRuns
       THEN UNCHANGED tab
       ELSE waitingRuns' = waitingRuns \cup {r} /\ unread' = unread + 1 /\ UNCHANGED visible
    /\ UNCHANGED <<server, link, runs, enabled, completions, banner, said>>

\* notifyComplete()
TellsComplete ==
  \E r \in Runs :
    /\ completions[r] > 0 /\ completions' = [completions EXCEPT ![r] = @ - 1]
    /\ said' = [said EXCEPT ![r] = @ + 1]
    /\ unread' = IF visible THEN unread ELSE unread + 1
    /\ UNCHANGED <<server, link, runs, enabled, waits, visible, waitingRuns, banner>>

Hides ==
  /\ visible /\ visible' = FALSE
  /\ UNCHANGED <<server, link, runs, enabled, waits, completions, unread, waitingRuns, banner,
                 said>>

\* The handler of installFocusReset().
Shows ==
  /\ ~visible /\ visible' = TRUE
  /\ IF enabled THEN unread' = 0 /\ waitingRuns' = {} ELSE UNCHANGED <<unread, waitingRuns>>
  /\ UNCHANGED <<server, link, runs, enabled, waits, completions, banner, said>>

Next ==
  \/ Publishes \/ Republishes
  \/ TimerFires \/ Lists \/ Connects \/ Opens \/ Reloads \/ Closes \/ Reseeds \/ Enables
  \/ Receives \/ TellsWaiting \/ TellsComplete \/ Hides \/ Shows

Spec == Init /\ [][Next]_vars

-----------------------------------------------------------------------------
\* web/lib/connectionState.ts:31: "quick reconnects never cause a red-banner
\* flicker".  While the socket is open the banner says so and no timer of an
\* earlier loss is left to deny it; the count in the title covers each run that
\* waits in a hidden tab.
TypeOK ==
  /\ row \in [Runs -> States]
  /\ socket \in {"seeding", "listed", "connecting", "open", "closed"}
  /\ listed \in [Runs -> States] \cup {None}
  /\ wire \in Seq([run : Runs, state : States])
  /\ runs \in [Runs -> States \cup {None}]
  /\ enabled \in BOOLEAN /\ visible \in BOOLEAN /\ timer \in BOOLEAN
  /\ {waits, completions, said, ends} \subseteq [Runs -> Nat]
  /\ conn \in {"connecting", "connected", "disconnected"}
  /\ socket = "open" => conn = "connected" /\ ~timer
  /\ waitingRuns \subseteq Runs /\ unread \in Nat /\ unread >= Cardinality(waitingRuns)

\* A page announces the end of a run once: not again after a reconnect, nor for
\* a row that is published again.
OnceAnnounced == \A r \in Runs : said[r] + completions[r] <= ends[r]

=============================================================================
