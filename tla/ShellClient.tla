------------------------------- MODULE ShellClient -------------------------------
(***************************************************************************)
(* The browser's end of a run's terminal: the registry that shares one     *)
(* socket between mounts (web/lib/shellRegistry.ts), the socket that comes *)
(* back (web/lib/ws.ts) and the controller with its seed, pause, resume    *)
(* and older-chunk machinery (web/lib/terminalController.ts).              *)
(*                                                                         *)
(* A byte of the transcript is its position, a snapshot is Snap.  Code     *)
(* between two awaits of the controller is one step; at an await the user, *)
(* the socket and the other tasks of the controller come in.               *)
(***************************************************************************)
EXTENDS Naturals, Sequences, FiniteSets, Functions

CONSTANTS
  None,        \* no chunk is pending
  Views,       \* places where a Terminal component may be mounted
  Fetches,     \* calls of loadOlderChunk() in flight at once
  MaxLog,      \* bound: bytes of the transcript
  OldBytes,    \* bytes the transcript holds before anyone looks
  MaxDrops,    \* bound: connections lost
  MaxMoves     \* bound: scrolls and clicks of one mount

ASSUME ClientAssumption ==
  /\ MaxLog \in Nat /\ OldBytes \in 0..MaxLog /\ MaxDrops \in Nat /\ MaxMoves \in Nat
  /\ None \notin Fetches /\ IsFiniteSet(Views)

VARIABLES
  log,      \* bytes in the transcript
  wire,     \* the last byte the socket has handed to the client
  due,      \* snapshots the server owes on this connection
  drops,
  socket,   \* none, connecting, open, live (a snapshot has come) or waiting
  entry,    \* the registry's entry of the run
  views     \* one controller per mounted view

vars == <<log, wire, due, drops, socket, entry, views>>

Snap == 0
MaxDue == 2                   \* bound: snapshots owed at once
ChunkSize == 1
Bytes(a, b) == [i \in 1..(IF b > a THEN b - a ELSE 0) |-> a + i]

Idle == [pc |-> "idle", from |-> 0, to |-> 0, aborted |-> FALSE, left |-> <<>>]

\* `doubled`, a history variable: two chunks that nobody had aborted were under
\* way at once.
Fresh ==
  [mounted |-> TRUE, doubled |-> FALSE, moves |-> 0, seeded |-> FALSE, interactive |-> FALSE,
   wired |-> FALSE, paused |-> FALSE, rebuilding |-> FALSE, loaded |-> <<>>, start |-> 0, tail |-> <<>>,
   offset |-> 0, term |-> <<>>, seed |-> Idle, resume |-> Idle,
   sink |-> "none", chunks |-> [f \in Fetches |-> Idle], pending |-> None,
   chunkState |-> "idle"]

\* dispose(): every task of the controller is dead from here on.
Gone == [Fresh EXCEPT !.mounted = FALSE]

Init ==
  /\ log = OldBytes /\ wire = 0 /\ due = 0 /\ drops = 0
  /\ socket = "none"
  /\ entry = [held |-> FALSE, refs |-> 0, closing |-> FALSE, cached |-> FALSE]
  /\ views = [v \in Views |-> Gone]

Mounted == {v \in Views : views[v].mounted}
Open == socket \in {"open", "live"}

(***************************************************************************)
(* What the controller does in one turn.                                   *)
(***************************************************************************)

\* applyInteractive(): input and click-to-focus are wired while the user may
\* type.
ApplyInteractive(c) == [c EXCEPT !.wired = c.interactive /\ ~c.paused]

\* Mutant: bytes are written unless a rebuild runs, pause or not.
BytesThroughPause(c, b) ==
  IF c.rebuilding THEN c
  ELSE [c EXCEPT !.term = Append(@, b), !.tail = Append(@, b),
                 !.offset = @ + 1]

\* onBytes: dropped while paused or rebuilding, otherwise shown and retained.
OnBytes(c, b) ==
  IF c.paused \/ c.rebuilding THEN c
  ELSE [c EXCEPT !.term = Append(@, b), !.tail = Append(@, b),
                 !.offset = @ + 1]

\* A snapshot replaces what the terminal shows; the first one starts the seed.
Painted(c) ==
  [c EXCEPT !.term = <<Snap>>, !.seeded = TRUE,
            !.seed = IF c.seeded THEN @ ELSE [Idle EXCEPT !.pc = "meta",
                                                          !.from = c.offset]]

\* onSnapshot: handed to a resume that waits, or to its sink; dropped while
\* paused.
OnSnapshot(c) ==
  CASE c.sink = "resume" -> [c EXCEPT !.sink = "none",
                                      !.resume = [@ EXCEPT !.pc = "answered",
                                                           !.from = c.offset]]
    [] c.sink = "swallow" -> [c EXCEPT !.sink = "none"]
    [] c.sink = "none" /\ c.paused -> c
    [] OTHER -> Painted(c)

\* rebuildXterm(): reset, then one acknowledged write per buffer, the loaded text
\* and the tail.
NonEmpty(bufs) ==
  (IF bufs[1] = <<>> THEN <<>> ELSE <<bufs[1]>>)
    \o (IF bufs[2] = <<>> THEN <<>> ELSE <<bufs[2]>>)

Begin(c, bufs) ==
  LET left == NonEmpty(bufs) IN
  [c EXCEPT !.rebuilding = TRUE,
            !.term = IF left = <<>> THEN <<>> ELSE Head(left)]
Rest(bufs) ==
  LET left == NonEmpty(bufs) IN IF left = <<>> THEN <<>> ELSE Tail(left)

(***************************************************************************)
(* Registry: acquireShell, releaseShell.                                   *)
(***************************************************************************)

\* Mutant: the shell is acquired and its close timer left armed.
AcquireOnly(e) == [e EXCEPT !.held = TRUE, !.refs = @ + 1]

\* acquireShell() disarms the timer of an earlier release.
Acquire(e) == [e EXCEPT !.held = TRUE, !.refs = @ + 1, !.closing = FALSE]

\* The constructor: a cached snapshot is painted and seeded from at once.
Constructed == IF entry.held /\ entry.cached THEN Painted(Fresh) ELSE Fresh

\* A Terminal is mounted; if the socket is open already its controller says
\* hello in a microtask of onOpen.
Mount(v) ==
  /\ ~views[v].mounted
  /\ entry' = Acquire(entry)
  /\ socket' = IF entry.held THEN socket ELSE "connecting"
  /\ views' = [views EXCEPT ![v] = Constructed]
  /\ due' = IF Open THEN due + 1 ELSE due
  /\ due' <= MaxDue
  /\ UNCHANGED <<log, wire, drops>>

\* releaseShell(): only the last one arms the five minutes.
Release(e) == [e EXCEPT !.refs = @ - 1, !.closing = @ \/ e.refs = 1]

Unmount(v) ==
  /\ views[v].mounted
  /\ views' = [views EXCEPT ![v] = Gone]
  /\ entry' = Release(entry)
  /\ UNCHANGED <<log, wire, due, drops, socket>>

\* An upload that has finished types its name through the shell and lets go of
\* it in the same turn; the page may be gone by then.
UploadSent ==
  /\ entry' = Release(Acquire(entry))
  /\ socket' = IF entry.held THEN socket ELSE "connecting"
  /\ UNCHANGED <<log, wire, due, drops, views>>

\* The TTL timer: close the socket for good and forget the entry.
TtlFires ==
  /\ entry.closing
  /\ entry' = [held |-> FALSE, refs |-> 0, closing |-> FALSE, cached |-> FALSE]
  /\ socket' = "none" /\ due' = 0
  /\ UNCHANGED <<log, wire, drops, views>>

(***************************************************************************)
(* The socket.                                                             *)
(***************************************************************************)

\* Every controller says hello; the server answers each, and the first
\* snapshot comes even if nobody does (its 1500 ms timer).
SocketOpens ==
  /\ socket = "connecting"
  /\ socket' = "open" /\ wire' = log
  /\ due' = IF Mounted = {} THEN 1 ELSE Cardinality(Mounted)
  /\ UNCHANGED <<log, drops, entry, views>>

SocketDrops ==
  /\ socket \in {"connecting", "open", "live"} /\ drops < MaxDrops
  /\ drops' = drops + 1
  /\ socket' = "waiting" /\ due' = 0
  /\ UNCHANGED <<log, wire, entry, views>>

\* The 500 ms reconnect timer.
Reconnects ==
  /\ socket = "waiting"
  /\ socket' = "connecting"
  /\ UNCHANGED <<log, wire, due, drops, entry, views>>

\* The container writes: the log first, then the socket.
RunWrites ==
  /\ log < MaxLog
  /\ log' = log + 1
  /\ UNCHANGED <<wire, due, drops, socket, entry, views>>

BytesArrive ==
  /\ socket = "live" /\ wire < log
  /\ wire' = wire + 1
  /\ views' = [v \in Views |-> IF views[v].mounted
                                 THEN OnBytes(views[v], wire') ELSE views[v]]
  /\ UNCHANGED <<log, due, drops, socket, entry>>

\* A snapshot of another size than a view's makes that view say hello again.
SnapshotArrives ==
  /\ Open /\ due > 0
  /\ \E misfit \in BOOLEAN :
       due' = IF misfit /\ \E v \in Mounted : views[v].sink = "none"
                                              /\ ~views[v].paused
                THEN due ELSE due - 1
  /\ socket' = "live"
  /\ entry' = [entry EXCEPT !.cached = TRUE]
  /\ views' = [v \in Views |-> IF views[v].mounted
                                 THEN OnSnapshot(views[v]) ELSE views[v]]
  /\ UNCHANGED <<log, wire, drops>>

(***************************************************************************)
(* The controller's own steps: only views changes.                         *)
(***************************************************************************)

Becomes(v, c) ==
  /\ views[v].mounted
  /\ views' = [views EXCEPT ![v] = c]
  /\ UNCHANGED <<log, wire, due, drops, socket, entry>>

SetInteractive(v) ==
  Becomes(v, ApplyInteractive([views[v] EXCEPT !.interactive = ~@]))

\* seedInitialHistory(): the one-byte request that tells the total ...
SeedMeta(v) ==
  LET c == views[v] IN
  /\ c.seed.pc = "meta"
  /\ IF log = 0
       THEN Becomes(v, [c EXCEPT !.seed = Idle, !.loaded = <<>>, !.start = 0,
                                 !.offset = 0])
       ELSE Becomes(v, [c EXCEPT !.seed.pc = "body", !.seed.to = log])

\* ... and the last chunk: what had arrived before the seed began is trimmed
\* from the tail, and the terminal is rebuilt.
SeedBody(v) ==
  LET c == views[v]
      lo == IF c.seed.to > ChunkSize THEN c.seed.to - ChunkSize ELSE 0
      kept == SubSeq(c.tail, c.seed.from + 1, Len(c.tail))
      bufs == <<Bytes(lo, c.seed.to), kept>>
  IN /\ c.seed.pc = "body"
     /\ Becomes(v, Begin([c EXCEPT !.loaded = Bytes(lo, c.seed.to),
                                   !.start = lo, !.tail = kept,
                                   !.offset = c.seed.to + Len(kept),
                                   !.seed.pc = "writing",
                                   !.seed.left = Rest(bufs)], bufs))

\* Either request fails: the seed is given up, and never tried again.
SeedFails(v) ==
  /\ views[v].seed.pc \in {"meta", "body"}
  /\ Becomes(v, [views[v] EXCEPT !.seed = Idle])

SeedWrites(v) ==
  LET c == views[v] IN
  /\ c.seed.pc = "writing"
  /\ IF c.seed.left = <<>>
       THEN Becomes(v, [c EXCEPT !.seed = Idle, !.rebuilding = FALSE])
       ELSE Becomes(v, [c EXCEPT !.seed.left = Tail(@),
                                 !.term = @ \o Head(c.seed.left)])

Moved(c) == [c EXCEPT !.moves = @ + 1]
MayMove(c) == c.mounted /\ c.moves < MaxMoves

\* A scroll counts unless it is one the rebuild itself makes.
ScrollCounts(c) == ~c.rebuilding
\* Retry is there after an error only, and is not gated.
RetryShown(c) == c.chunkState = "error"

\* onScroll away from the bottom.
Pause(v) ==
  LET c == views[v] IN
  /\ MayMove(c) /\ ScrollCounts(c) /\ ~c.paused /\ c.term # <<>>
  /\ Becomes(v, ApplyInteractive([Moved(c) EXCEPT !.paused = TRUE,
                                                  !.chunkState = "idle"]))

\* resume(), from the bottom (not during a rebuild) or from the banner: abort
\* the chunk, ask a live run for a snapshot and wait, ask a finished one for
\* nothing.
Resume(v) ==
  LET c == views[v]
      aborted == [Moved(c) EXCEPT !.pending = None,
                    !.chunks = IF c.pending = None THEN @
                               ELSE [@ EXCEPT ![c.pending].aborted = TRUE]]
  IN /\ MayMove(c) /\ c.paused /\ c.resume.pc = "idle"
     /\ \/ /\ views' = [views EXCEPT ![v] =
                [aborted EXCEPT !.resume.pc = "asked", !.sink = "resume"]]
           /\ due' = IF Open THEN due + 1 ELSE due
           /\ due' <= MaxDue
        \/ /\ views' = [views EXCEPT ![v] =
                [aborted EXCEPT !.resume.pc = "answered",
                                !.resume.from = c.offset]]
           /\ UNCHANGED due
     /\ UNCHANGED <<log, wire, drops, socket, entry>>

\* Mutant: no race against a timeout.
NeverGivesUp(c) == FALSE
\* Promise.race: two seconds may pass without a snapshot, whatever comes later.
MayGiveUp(c) == c.resume.pc = "asked"

ResumeTimesOut(v) ==
  LET c == views[v] IN
  /\ MayGiveUp(c)
  /\ Becomes(v, [c EXCEPT !.resume.pc = "answered", !.resume.from = c.offset,
                         !.sink = "swallow"])

\* The rest of the transcript from where liveOffset was when it was asked for,
\* or nothing if the request fails or the range is empty; then the rebuild.
ResumeTail(v) ==
  LET c == views[v] IN
  /\ c.resume.pc = "answered"
  /\ \E upto \in {c.resume.from, log} :
       LET more == Bytes(c.resume.from, upto)
           bufs == <<c.loaded, c.tail \o more>>
       IN Becomes(v, Begin([c EXCEPT !.tail = @ \o more,
                                     !.offset = @ + Len(more),
                                     !.resume.pc = "writing",
                                     !.resume.left = Rest(bufs)], bufs))

Shown(c) == [c EXCEPT !.rebuilding = FALSE]

ResumeWrites(v) ==
  LET c == views[v] IN
  /\ c.resume.pc = "writing"
  /\ IF c.resume.left = <<>>
       THEN Becomes(v, ApplyInteractive(
              [Shown(c) EXCEPT !.resume = Idle, !.paused = FALSE]))
       ELSE Becomes(v, [c EXCEPT !.resume.left = Tail(@),
                                 !.term = @ \o Head(c.resume.left)])

(***************************************************************************)
(* loadOlderChunk().                                                       *)
(***************************************************************************)

\* Chunks that will end up in the text unless they are aborted or fail.
UnderWay(c) == {f \in Fetches : c.chunks[f].pc \in {"fetching", "writing"}
                                 /\ ~c.chunks[f].aborted}

\* From a scroll near the top, not during a rebuild, or from Retry, which only
\* an error offers.
LoadOlder(v, f) ==
  LET c == views[v] IN
  /\ MayMove(c)
  /\ ScrollCounts(c) \/ RetryShown(c)
  /\ c.paused /\ c.start > 0 /\ c.pending = None
  /\ c.chunks[f].pc = "idle"
  /\ Becomes(v, [Moved(c) EXCEPT !.pending = f, !.chunkState = "loading",
       !.doubled = @ \/ UnderWay(c) # {},
       !.chunks[f] = [Idle EXCEPT !.pc = "fetching", !.to = c.start,
                        !.from = IF c.start > ChunkSize THEN c.start - ChunkSize
                                 ELSE 0]])

\* Mutant: the range of a chunk ends one byte early.
ShortChunk(t) == IF t.to = 0 THEN <<>> ELSE Bytes(t.from, t.to - 1)
ChunkBytes(t) == Bytes(t.from, t.to)

\* The chunk is there: rebuild with it in front.
ChunkArrives(v, f) ==
  LET c == views[v]
      t == c.chunks[f]
      bufs == <<ChunkBytes(t) \o c.loaded, c.tail>>
  IN /\ t.pc = "fetching" /\ ~t.aborted
     /\ Becomes(v, Begin([c EXCEPT !.chunks[f] =
          [t EXCEPT !.pc = "writing", !.left = <<Head(bufs)>> \o Rest(bufs)]],
          bufs))

\* An abort or a failure, at the request: the finally clears `pending`,
\* whichever chunk that is by now.
ChunkFails(v, f) ==
  LET c == views[v] IN
  /\ c.chunks[f].pc = "fetching"
  /\ Becomes(v, [c EXCEPT !.chunks[f] = Idle, !.pending = None,
       !.chunkState = IF c.chunks[f].aborted THEN "idle" ELSE "error"])

\* The head of left is the loaded text with the chunk in front, kept for the
\* end; the others are still to be written.
ChunkWrites(v, f) ==
  LET c == views[v]
      t == c.chunks[f]
      new == Head(t.left)
  IN /\ t.pc = "writing"
     /\ IF Len(t.left) > 1
          THEN Becomes(v, [c EXCEPT !.term = @ \o t.left[2],
                 !.chunks[f].left = <<new>> \o Tail(Tail(t.left))])
          ELSE IF t.aborted
          THEN Becomes(v, [c EXCEPT !.chunks[f].pc = "frame"])
          ELSE Becomes(v, [c EXCEPT !.chunks[f].pc = "frame",
                                    !.loaded = new, !.start = t.from])

\* One animation frame later the gate opens.
ChunkDone(v, f) ==
  LET c == views[v] IN
  /\ c.chunks[f].pc = "frame"
  /\ Becomes(v, [Shown(c) EXCEPT !.chunks[f] = Idle, !.pending = None,
                                 !.chunkState = "idle"])

(***************************************************************************)
(* Specification.                                                          *)
(***************************************************************************)

ControllerStep(v) ==
  \/ SeedMeta(v) \/ SeedBody(v) \/ SeedFails(v) \/ SeedWrites(v)
  \/ ResumeTimesOut(v) \/ ResumeTail(v) \/ ResumeWrites(v)

ChunkStep(v, f) ==
  \/ ChunkArrives(v, f) \/ ChunkFails(v, f) \/ ChunkWrites(v, f)
  \/ ChunkDone(v, f)

Next ==
  \/ \E v \in Views :
       \/ Mount(v) \/ Unmount(v) \/ SetInteractive(v) \/ Pause(v) \/ Resume(v)
       \/ ControllerStep(v)
       \/ \E f \in Fetches : LoadOlder(v, f) \/ ChunkStep(v, f)
  \/ UploadSent \/ TtlFires \/ SocketOpens \/ SocketDrops \/ Reconnects
  \/ RunWrites \/ BytesArrive \/ SnapshotArrives

Spec == Init /\ [][Next]_vars

\* The timeout of a resume fires, its request settles, xterm acknowledges writes
\* and animation frames come; nobody owes a snapshot, a connection or a click.
Fairness ==
  \A v \in Views :
    /\ WF_vars(SeedWrites(v)) /\ WF_vars(ResumeTimesOut(v))
    /\ WF_vars(ResumeTail(v) \/ ResumeWrites(v))
    /\ \A f \in Fetches : WF_vars(ChunkWrites(v, f) \/ ChunkDone(v, f))

FairSpec == Spec /\ Fairness

(***************************************************************************)
(* Properties.                                                             *)
(***************************************************************************)

Tasks(v) == {views[v].seed, views[v].resume} \cup Range(views[v].chunks)
Rebuilds(v) == {t \in Tasks(v) : t.pc \in {"writing", "frame"}}

TypeOK ==
  /\ log \in 0..MaxLog /\ wire \in 0..log /\ due \in 0..MaxDue
  /\ socket \in {"none", "connecting", "open", "live", "waiting"}
  /\ entry.refs = Cardinality(Mounted)
  /\ \A v \in Views :
       /\ views[v].pending \in Fetches \cup {None}
       /\ views[v].start <= MaxLog /\ views[v].sink \in {"none", "resume", "swallow"}
       /\ views[v].chunkState \in {"idle", "loading", "error"}

\* The registry's promise: as long as any view of the run is mounted, its
\* socket is there (or coming back), and no timer is about to close it,
\* whatever the order of mounts, unmounts and expiring timers.
ShellHeld ==
  Mounted # {} => entry.held /\ ~entry.closing /\ socket # "none"

\* lazy-scrollback-design.md, "Interactive vs paused invariant": what the user
\* types reaches the agent exactly while the component is interactive and the
\* stream is not paused, through every resume, timeout and rebuild.
InputFollowsPause ==
  \A v \in Mounted : views[v].wired <=> views[v].interactive /\ ~views[v].paused

\* What a mounted view needs: its shell is held, its input goes where it should.
ViewIsWired == ShellHeld /\ InputFollowsPause

\* Everything from loadedStartOffset to the seed's end is in loadedBytes through
\* any aborts, failures, retries and resumes: the scrollback has no hole, unless
\* two chunks were under way that nobody had aborted (README.md tells how).
NoHole ==
  \A v \in Mounted :
    views[v].loaded # <<>> /\ ~views[v].doubled =>
      LET c == views[v]
          last == c.loaded[Len(c.loaded)]
      IN (c.start + 1)..last \subseteq Range(c.loaded)

\* A paused reader's text stays put: while the view is paused nothing but a
\* rebuild changes the terminal; no byte and no snapshot does, early or late.
PausedViewHolds ==
  [][\A v \in Views :
       /\ views[v].mounted /\ views[v].paused
       /\ views'[v].mounted /\ views'[v].paused
       /\ views'[v].term # views[v].term
       => Rebuilds(v) \cup Rebuilds(v)' # {}]_vars

\* "A stuck banner is worse than a brief stale frame": a resume ends, also if
\* no snapshot ever comes and every request fails.
BannerClears ==
  \A v \in Views :
    views[v].resume.pc # "idle" ~> ~views[v].paused

===============================================================================
