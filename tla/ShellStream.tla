------------------------------ MODULE ShellStream ------------------------------
(***************************************************************************)
(* How the bytes of ONE run travel from its container to the terminals:    *)
(* the stream registry, the broadcaster and the screen of                  *)
(* src/server/logs/, the shell socket of src/server/api/ws.ts, and the     *)
(* calls the orchestrator makes on them.                                   *)
(*                                                                         *)
(* A chunk is its position in the run's log: bytes are appended to the     *)
(* log, published and queued to the screen in one synchronous call.        *)
(* Broadcasters ("channels") and screens are objects; the registry maps    *)
(* the run to at most one of each, and lives, sockets and rebuilds keep    *)
(* references to objects the registry may have let go of.                  *)
(*                                                                         *)
(* A writer is a life of the run as RunLifecycle has it, reduced to what   *)
(* the streams see of it:                                                  *)
(*   booting     from getOrCreate() until the container has started        *)
(*   attaching   the same in reattach(): attach() and logs() are awaited   *)
(*   streaming   until its outcome is recorded                             *)
(*   closing     container.remove() is awaited; end() and release() follow *)
(*   suspending  the same after a rate limit; only end() follows           *)
(***************************************************************************)
EXTENDS Naturals, SequencesExt

CONSTANTS
  None,
  Channels,    \* bound: broadcasters that something refers to
  Screens,     \* bound: screens that something refers to
  Sockets,     \* bound: terminals connected at one time
  Writers,     \* bound: lives at one time
  MaxChunks,   \* bound: length of the log
  Overlap,     \* whether a call may reach the run while a life of it is
               \* booting or shutting down: Continue, timer, cancel
  Crashes,     \* bound: whether the server may crash, once
  Faults       \* whether reading the log and attaching may fail

ASSUME NoneIsNoObject == None \notin Channels \cup Screens
ASSUME MaxChunksIsNat == MaxChunks \in Nat
ASSUME ShellSwitches == {Overlap, Crashes, Faults} \subseteq BOOLEAN

VARIABLES
  log,      \* chunks in the run's log file
  run,      \* what the row says: none, queued, live, awaiting or ended
  channel,  \* RunStreamRegistry.bytes
  screen,   \* RunStreamRegistry.screens
  ended,    \* the channels whose end() was called
  drawn,    \* screen -> the chunks queued to its parser
  rebuild,  \* RunStreamRegistry.rebuilds, and the loop of doRebuild()
  writers,
  sockets,
  server,   \* "up", "recovering" after its crash, or "recovered"
  unread    \* what the container wrote while nobody read it: nothing, or
            \* bytes newer or older than the last write to the log file

registry == <<channel, screen>>
lives == <<run, writers, server, unread>>
vars == <<log, registry, ended, drawn, rebuild, sockets, lives>>

Chunks == 1 .. MaxChunks

Idle == [pc |-> "idle", kind |-> "none", ch |-> None, scr |-> None]

Writer == [pc : {"idle", "booting", "attaching", "streaming", "closing",
                 "suspending"},
           kind : {"none", "launch", "resume", "continue", "reattach"},
           ch : Channels \cup {None}, scr : Screens \cup {None}]

\* `pending` is the handler's `buffered`; it collects unless pc = "live".
\* `view` is what the client has drawn since its last reset, and `heard`, a
\* history variable, what the channel has handed to the subscription.
Closed == [pc |-> "closed", first |-> TRUE, ch |-> None, scr |-> None,
           mark |-> 0, pending |-> <<>>, view |-> <<>>, heard |-> {}]

SocketPC == {"closed", "hello", "rebuilding", "resizing", "draining", "live",
             "stuck"}

NoRebuild == [pc |-> "none", scr |-> None, size |-> 0, pos |-> 0]

Open(s) == sockets[s].pc # "closed"
Busy(w) == writers[w].pc # "idle"
Listening == server # "recovering"

-------------------------------------------------------------------------------
Init ==
  /\ log = 0 /\ run = "none"
  /\ channel = None /\ screen = None /\ ended = {}
  /\ drawn = [x \in Screens |-> <<>>]
  /\ rebuild = NoRebuild
  /\ writers = [w \in Writers |-> Idle]
  /\ sockets = [s \in Sockets |-> Closed]
  /\ server = "up" /\ unread = "nothing"

\* Objects nothing refers to any more are recycled.
ChannelUnused(c) == /\ c # channel
                    /\ \A w \in Writers : writers[w].ch # c
                    /\ \A s \in Sockets : sockets[s].ch # c
ScreenUnused(x) == /\ x # screen /\ x # rebuild.scr
                   /\ \A w \in Writers : writers[w].scr # x
                   /\ \A s \in Sockets : sockets[s].scr # x

\* RunStreamRegistry.getOrCreate: c is the channel it returns.
GetOrCreate(c) ==
  /\ IF channel = None THEN ChannelUnused(c) ELSE c = channel
  /\ channel' = c
  /\ ended' = IF channel = None THEN ended \ {c} ELSE ended

\* RunStreamRegistry.getOrCreateScreen, without its effect on `drawn`.
GetOrCreateScreen(x) ==
  /\ IF screen = None THEN ScreenUnused(x) ELSE x = screen
  /\ screen' = x
Blank(x) == IF screen = None THEN [drawn EXCEPT ![x] = <<>>] ELSE drawn

\* The subscriber's onData, in every socket of the channel.
Publish(c, k) ==
  IF c \in ended THEN sockets
  ELSE [s \in Sockets |->
          IF sockets[s].ch # c THEN sockets[s]
          ELSE IF sockets[s].pc = "live"
          THEN [sockets[s] EXCEPT !.view = Append(@, k), !.heard = @ \cup {k}]
          ELSE [sockets[s] EXCEPT !.pending = Append(@, k),
                                  !.heard = @ \cup {k}]]

\* Broadcaster.end(): onEnd closes the sockets subscribed by now.
EndSockets(c) ==
  IF c \in ended THEN sockets
  ELSE [s \in Sockets |-> IF sockets[s].ch = c THEN Closed ELSE sockets[s]]

Release == channel' = None /\ screen' = None

-------------------------------------------------------------------------------
\* The orchestrator.

\* makeOnBytes(): one chunk to the log, the channel and the screen, in one
\* call.  The bound MaxChunks drops what comes later.
Full == log = MaxChunks
LogGrows == log' = IF Full THEN log ELSE log + 1
Fed(d, x) == IF Full THEN d ELSE [d EXCEPT ![x] = Append(@, log + 1)]
Told(c) == IF Full THEN sockets ELSE Publish(c, log + 1)

OnBytes(w) == /\ LogGrows
              /\ sockets' = Told(writers[w].ch)
              /\ drawn' = Fed(drawn, writers[w].scr)

\* The calls that start a life look at the row only.
MayStart(kind) ==
  CASE kind = "launch"   -> server = "up" /\ run = "none"
    [] kind = "resume"   -> Listening /\ run = "awaiting"
    [] kind = "continue" -> Listening /\ run = "ended"
    [] kind = "reattach" -> server = "recovering" /\ run = "live"

\* launch(), resume(), continueRun() and reattach() up to their first await;
\* all but launch() write a status line.
OpenStream(w, kind) ==
  /\ ~Busy(w) /\ MayStart(kind)
  /\ Overlap \/ \A v \in Writers : ~Busy(v)
  /\ \E c \in Channels, x \in Screens :
       /\ GetOrCreate(c) /\ GetOrCreateScreen(x)
       /\ writers' = [writers EXCEPT ![w] =
            [pc   |-> IF kind = "reattach" THEN "attaching" ELSE "booting",
             kind |-> kind, ch |-> c, scr |-> x]]
       /\ IF kind = "launch"
          THEN drawn' = Blank(x) /\ UNCHANGED <<log, sockets>>
          ELSE LogGrows /\ drawn' = Fed(Blank(x), x) /\ sockets' = Told(c)
  /\ run' = CASE kind = "launch" -> "queued" [] kind = "continue" -> "live"
              [] OTHER -> run
  /\ server' = IF kind = "reattach" THEN "recovered" ELSE server
  /\ unread' = IF unread = "newer" THEN "older" ELSE unread
  /\ UNCHANGED rebuild

ContainerStarted(w) ==
  /\ writers[w].pc = "booting"
  /\ writers' = [writers EXCEPT ![w].pc = "streaming"]
  /\ run' = IF run \in {"queued", "awaiting"} THEN "live" ELSE run
  /\ UNCHANGED <<log, registry, ended, drawn, rebuild, sockets>>
  /\ UNCHANGED <<server, unread>>

ContainerWritesUnread ==
  /\ run = "live"
  /\ server = "recovering" \/ \E w \in Writers : writers[w].pc = "attaching"
  /\ unread = "nothing" /\ unread' = "newer"
  /\ UNCHANGED <<log, registry, ended, drawn, rebuild, sockets>>
  /\ UNCHANGED <<run, writers, server>>

\* container.logs() from the second the log file was last written in.  The
\* status line of reattach() was such a write: older bytes are replayed only
\* if they fell into that second.
LogsFollowed(w) ==
  /\ writers[w].pc = "attaching"
  /\ writers' = [writers EXCEPT ![w].pc = "streaming"]
  /\ \/ unread # "nothing" /\ unread' = "nothing" /\ OnBytes(w)
     \/ unread # "newer" /\ UNCHANGED <<unread, log, drawn, sockets>>
  /\ UNCHANGED <<run, registry, ended, rebuild, server>>

BytesArrive(w) ==
  /\ writers[w].pc \in {"booting", "streaming"}
  /\ ~Full
  /\ OnBytes(w)
  /\ UNCHANGED <<registry, ended, rebuild, lives>>

\* The outcome of the run is recorded and written to the log; reattach()
\* writes nothing.
RunFinishes(w) ==
  /\ writers[w].pc = "streaming"
  /\ run' = "ended"
  /\ writers' = [writers EXCEPT ![w].pc = "closing"]
  /\ IF writers[w].kind = "reattach"
     THEN UNCHANGED <<log, drawn, sockets>> ELSE OnBytes(w)
  /\ UNCHANGED <<registry, ended, rebuild, server, unread>>

RunSuspends(w) ==
  /\ writers[w].pc = "streaming" /\ writers[w].kind # "reattach"
  /\ run' = IF run = "live" THEN "awaiting" ELSE run
  /\ writers' = [writers EXCEPT ![w].pc = "suspending"]
  /\ OnBytes(w)
  /\ UNCHANGED <<registry, ended, rebuild, server, unread>>

\* Mutant: release() without end().
LeaveOpen(w) ==
  /\ writers' = [writers EXCEPT ![w] = Idle] /\ unread' = "nothing"
  /\ UNCHANGED <<sockets, ended>>

\* The container, and what Docker kept of its output, is gone by now.
EndOf(w) ==
  /\ sockets' = EndSockets(writers[w].ch)
  /\ ended' = ended \cup {writers[w].ch}
  /\ writers' = [writers EXCEPT ![w] = Idle] /\ unread' = "nothing"

\* store.close(); broadcaster.end(); streams.release(runId).
StreamReleased(w) ==
  /\ writers[w].pc = "closing"
  /\ EndOf(w) /\ Release
  /\ UNCHANGED <<log, run, drawn, rebuild, server>>

\* store.close(); broadcaster.end(): the registry keeps both objects.
StreamSuspended(w) ==
  /\ writers[w].pc = "suspending"
  /\ EndOf(w)
  /\ UNCHANGED <<log, run, registry, drawn, rebuild, server>>

\* The catch blocks of launch(), resume() and continueRun(): the message they
\* write reaches the sockets before end() closes them.
LifeFails(w) ==
  /\ \/ writers[w].pc = "booting"
     \/ writers[w].pc = "streaming" /\ writers[w].kind # "reattach"
  /\ run' = "ended"
  /\ LogGrows /\ drawn' = Fed(drawn, writers[w].scr)
  /\ EndOf(w) /\ Release
  /\ UNCHANGED <<rebuild, server>>

\* recover()'s catch after a failed attach leaves the stream as it is.
ReattachFails(w) ==
  /\ Faults /\ writers[w].pc = "attaching"
  /\ run' = "ended"
  /\ writers' = [writers EXCEPT ![w] = Idle]
  /\ UNCHANGED <<log, registry, ended, drawn, rebuild, sockets>>
  /\ UNCHANGED <<server, unread>>

\* Mutant: bc.end() for bc?.end().
EndAnyway == ended \cup {channel}

\* cancel(): after a restart there may be no channel to end.
EndRegistered == IF channel = None THEN ended ELSE ended \cup {channel}

CancelAwaiting ==
  /\ Listening /\ run = "awaiting"
  /\ Overlap \/ \A w \in Writers : ~Busy(w)
  /\ run' = "ended"
  /\ sockets' = EndSockets(channel)
  /\ ended' = EndRegistered
  /\ Release
  /\ UNCHANGED <<log, drawn, rebuild, writers, server, unread>>

Crash ==
  /\ Crashes /\ server = "up"
  /\ server' = "recovering"
  /\ channel' = None /\ screen' = None /\ ended' = {}
  /\ drawn' = [x \in Screens |-> <<>>]
  /\ rebuild' = NoRebuild
  /\ writers' = [w \in Writers |-> Idle]
  /\ sockets' = [s \in Sockets |-> Closed]
  /\ UNCHANGED <<log, run, unread>>

\* recover() without anything to reattach, or with the container gone.
Recovered ==
  /\ server = "recovering"
  /\ server' = "recovered"
  /\ run' = IF run = "live" THEN "ended" ELSE run
  /\ unread' = "nothing"
  /\ UNCHANGED <<log, registry, ended, drawn, rebuild, writers, sockets>>

-------------------------------------------------------------------------------
\* The shell socket.

Connect(s) ==
  /\ Listening /\ run # "none" /\ ~Open(s)
  /\ \E c \in Channels :
       /\ GetOrCreate(c)
       /\ sockets' = [sockets EXCEPT ![s] = [Closed EXCEPT !.pc = "hello",
                                                         !.ch = c]]
  /\ UNCHANGED <<log, screen, drawn, rebuild, lives>>

\* The client goes away; whatever the handler still awaits finds it closed.
Disconnect(s) ==
  /\ Open(s)
  /\ sockets' = [sockets EXCEPT ![s] = Closed]
  /\ UNCHANGED <<log, registry, ended, drawn, rebuild, lives>>

\* getScreen(), or rebuildScreenFromLog(), which joins a rebuild under way.
TakeScreen(s, first) ==
  \/ /\ screen # None
     /\ sockets' = [sockets EXCEPT ![s].pc = "resizing", ![s].first = first,
                                   ![s].scr = screen]
     /\ UNCHANGED <<screen, drawn, rebuild>>
  \/ /\ screen = None /\ rebuild # NoRebuild
     /\ sockets' = [sockets EXCEPT ![s].pc = "rebuilding", ![s].first = first]
     /\ UNCHANGED <<screen, drawn, rebuild>>
  \/ /\ screen = None /\ rebuild = NoRebuild
     /\ \E x \in Screens :
          /\ ScreenUnused(x)
          /\ screen' = x
          /\ drawn' = [drawn EXCEPT ![x] = <<>>]
          /\ rebuild' = [pc |-> "stat", scr |-> x, size |-> 0, pos |-> 0]
     /\ sockets' = [sockets EXCEPT ![s].pc = "rebuilding", ![s].first = first]

\* The first hello, or 1500 ms without one.
Hello(s) ==
  /\ sockets[s].pc = "hello"
  /\ TakeScreen(s, TRUE)
  /\ UNCHANGED <<log, channel, ended, lives>>

\* A later hello.  One that comes while a snapshot is being made is ignored.
HelloAgain(s) ==
  /\ sockets[s].pc = "live"
  /\ TakeScreen(s, FALSE)
  /\ UNCHANGED <<log, channel, ended, lives>>

\* fs.stat(): later bytes of the log are not read.
RebuildSized ==
  /\ rebuild.pc = "stat"
  /\ rebuild' = [rebuild EXCEPT !.pc = "reading", !.size = log]
  /\ UNCHANGED <<log, registry, ended, drawn, sockets, lives>>

RebuildReads ==
  /\ rebuild.pc = "reading" /\ rebuild.pos < rebuild.size
  /\ rebuild' = [rebuild EXCEPT !.pos = @ + 1]
  /\ drawn' = [drawn EXCEPT ![rebuild.scr] = Append(@, rebuild.pos + 1)]
  /\ UNCHANGED <<log, registry, ended, sockets, lives>>

RebuildDone ==
  /\ rebuild.pc = "reading" /\ rebuild.pos = rebuild.size
  /\ rebuild' = NoRebuild
  /\ sockets' = [s \in Sockets |->
       IF sockets[s].pc # "rebuilding" THEN sockets[s]
       ELSE [sockets[s] EXCEPT !.pc = "resizing", !.scr = rebuild.scr]]
  /\ UNCHANGED <<log, registry, ended, drawn, lives>>

\* Mutant: no catch behind the opening snapshot either.
Uncaught(s) == [sockets[s] EXCEPT !.pc = "stuck"]

\* An opening socket is closed with 1011; one that said hello again buffers
\* from here on.
SnapshotError(s) ==
  IF sockets[s].first THEN Closed ELSE [sockets[s] EXCEPT !.pc = "stuck"]

\* The registry drops whatever screen it holds by now.
RebuildFails ==
  /\ Faults /\ rebuild.pc # "none"
  /\ rebuild' = NoRebuild /\ screen' = None
  /\ sockets' = [s \in Sockets |->
       IF sockets[s].pc # "rebuilding" THEN sockets[s]
       ELSE SnapshotError(s)]
  /\ UNCHANGED <<log, channel, ended, drawn, lives>>

\* Mutant: the snapshot does not wait for the parser.
NoDrain(s) == 0

\* screen.drain(): what was queued by now will have been parsed.
DrainMark(s) == Len(drawn[sockets[s].scr])

\* The PTY and the screen have the client's size; screen.drain() is called.
Resized(s) ==
  /\ sockets[s].pc = "resizing"
  /\ sockets' = [sockets EXCEPT ![s].pc = "draining",
                                ![s].mark = DrainMark(s)]
  /\ UNCHANGED <<log, registry, ended, drawn, rebuild, lives>>

\* After the opening snapshot an ended channel closes the socket; a later
\* snapshot does not look.
EndNoticed(s) == sockets[s].first /\ sockets[s].ch \in ended

\* The parser may be further than drain() asked for.
SnapshotSent(s) ==
  LET d == drawn[sockets[s].scr] IN
  /\ sockets[s].pc = "draining"
  /\ IF EndNoticed(s)
     THEN sockets' = [sockets EXCEPT ![s] = Closed]
     ELSE \E n \in sockets[s].mark .. Len(d) :
            sockets' = [sockets EXCEPT
              ![s].pc = "live", ![s].scr = None, ![s].mark = 0,
              ![s].pending = <<>>,
              ![s].view = SubSeq(d, 1, n) \o sockets[s].pending]
  /\ UNCHANGED <<log, registry, ended, drawn, rebuild, lives>>

-------------------------------------------------------------------------------
WriterNext(w) ==
  \/ \E kind \in {"launch", "resume", "continue", "reattach"} :
       OpenStream(w, kind)
  \/ ContainerStarted(w) \/ LogsFollowed(w) \/ BytesArrive(w)
  \/ RunFinishes(w) \/ RunSuspends(w)
  \/ StreamReleased(w) \/ StreamSuspended(w)
  \/ LifeFails(w) \/ ReattachFails(w)

SocketNext(s) ==
  \/ Connect(s) \/ Disconnect(s)
  \/ Hello(s) \/ HelloAgain(s) \/ Resized(s) \/ SnapshotSent(s)

RebuildNext == RebuildSized \/ RebuildReads \/ RebuildDone \/ RebuildFails

Next ==
  \/ \E w \in Writers : WriterNext(w)
  \/ \E s \in Sockets : SocketNext(s)
  \/ RebuildNext \/ CancelAwaiting \/ Crash \/ Recovered
  \/ ContainerWritesUnread

Spec == Init /\ [][Next]_vars

\* Timers fire, container.remove(), file reads and the parser's callbacks
\* settle.  Containers, users and clients owe nothing.
Fairness ==
  /\ \A w \in Writers : WF_vars(StreamReleased(w) \/ StreamSuspended(w))
  /\ \A s \in Sockets : WF_vars(Hello(s) \/ Resized(s) \/ SnapshotSent(s))
  /\ WF_vars(RebuildNext)

FairSpec == Spec /\ Fairness

-------------------------------------------------------------------------------
\* The variables have their types; what the registry holds is not lost to a
\* recycled object.
TypeOK ==
  /\ log \in 0 .. MaxChunks
  /\ run \in {"none", "queued", "live", "awaiting", "ended"}
  /\ channel \in Channels \cup {None} /\ screen \in Screens \cup {None}
  /\ ended \subseteq Channels
  /\ drawn \in [Screens -> Seq(Chunks)]
  /\ rebuild \in [pc : {"none", "stat", "reading"}, size : 0 .. MaxChunks,
                  scr : Screens \cup {None}, pos : 0 .. MaxChunks]
  /\ writers \in [Writers -> Writer]
  /\ sockets \in [Sockets ->
       [pc : SocketPC, first : BOOLEAN, ch : Channels \cup {None},
        scr : Screens \cup {None}, mark : Nat, pending : Seq(Chunks),
        view : Seq(Chunks), heard : SUBSET Chunks]]
  /\ server \in {"up", "recovering", "recovered"}
  /\ unread \in {"nothing", "newer", "older"}

\* No byte is missed during a snapshot: whatever the channel has handed to a
\* connected terminal is on its screen, or buffered behind the snapshot that
\* is being made, through any number of snapshots.
HeardIsShown ==
  \A s \in Sockets :
    sockets[s].heard \subseteq ToSet(sockets[s].view \o sockets[s].pending)

\* A connected terminal listens where the run speaks, or is about to be closed
\* and to connect again: never to a channel that will neither speak nor end.
ListensToRun ==
  \A s \in Sockets, w \in Writers :
    Open(s) /\ writers[w].pc = "streaming"
      => sockets[s].ch = writers[w].ch \/ sockets[s].ch \in ended

\* A terminal that said hello, or never says it, gets its snapshot or is
\* closed, whatever rebuild it waits for; only the failure of a rebuild during
\* a second hello leaves it open without one.
SnapshotArrives ==
  \A s \in Sockets :
    sockets[s].pc \in {"hello", "rebuilding", "resizing", "draining"}
      ~> \/ sockets[s].pc \in {"closed", "live"}
         \/ sockets[s].pc = "stuck" /\ ~sockets[s].first

\* No terminal stays connected to a stream that has ended.
EndCloses ==
  \A s \in Sockets, c \in Channels :
    c \in ended /\ sockets[s].ch = c ~> sockets[s].ch # c

\* A terminal gets its opening snapshot, and is told when its stream has ended.
TerminalsAreServed == SnapshotArrives /\ EndCloses

===============================================================================
