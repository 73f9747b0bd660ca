--------------------------- MODULE ShellClientProofs ---------------------------
(***************************************************************************)
(* The browser's terminals, for any number of views and of chunks in       *)
(* flight, any transcript, any lost connections and any scrolls.           *)
(*                                                                         *)
(* ViewIsWired needs that the registry counts the mounted views.  NoHole   *)
(* needs what a chunk knows while it is under way: it ends where the text  *)
(* begins, it is alone, and the text it will leave is whole; and that the  *)
(* seed, which replaces the text, is over before the first chunk.          *)
(***************************************************************************)
EXTENDS ShellClient, FiniteSetTheorems, SequenceTheorems, TLAPS

Text == Seq(Nat)

Task ==
  [pc : {"idle", "meta", "body", "fetching", "writing", "frame", "asked", "answered"},
   from : Nat, to : Nat, aborted : BOOLEAN, left : Seq(Text)]

View ==
  [mounted : BOOLEAN, doubled : BOOLEAN, moves : Nat, seeded : BOOLEAN,
   interactive : BOOLEAN, wired : BOOLEAN, paused : BOOLEAN, rebuilding : BOOLEAN,
   loaded : Text, start : Nat, tail : Text, offset : Nat, term : Text,
   seed : Task, resume : Task, sink : {"none", "resume", "swallow"},
   chunks : [Fetches -> Task], pending : Fetches \cup {None},
   chunkState : {"idle", "loading", "error"}]

Entry == [held : BOOLEAN, refs : Nat, closing : BOOLEAN, cached : BOOLEAN]

Shapes ==
  /\ log \in Nat /\ wire \in Nat /\ entry \in Entry /\ views \in [Views -> View]
  /\ socket \in {"none", "connecting", "open", "live", "waiting"}

\* The registry counts the mounted views and closes nothing under them.
HeldInv ==
  /\ entry.refs = Cardinality(Mounted)
  /\ Mounted # {} => entry.held /\ ~entry.closing
  /\ entry.held => socket # "none"

Wired(c) == c.wired <=> c.interactive /\ ~c.paused

\* The seed is made once.
Seeds(c) == c.seed.pc # "idle" => c.seeded

\* The seed has replaced the text, or has been given up.
Settled(c) == c.seeded /\ c.seed.pc \notin {"meta", "body"}

\* A text that is whole from a position on.
Covers(from, text) ==
  text # <<>> => (from + 1)..text[Len(text)] \subseteq Range(text)

\* A chunk ends where the text begins, and will leave a whole one.
Fits(c, f) ==
  /\ c.chunks[f].pc = "fetching" => c.chunks[f].from < c.start /\ c.chunks[f].to = c.start
  /\ c.chunks[f].pc = "writing" => Covers(c.chunks[f].from, Head(c.chunks[f].left))

Whole(c) ==
  /\ Seeds(c)
  /\ c.start > 0 => Settled(c)
  /\ \A f \in Fetches : /\ c.chunks[f].pc # "idle" => Settled(c)
                        /\ c.chunks[f].pc = "writing" => c.chunks[f].left # <<>>
  /\ ~c.doubled => /\ Covers(c.start, c.loaded)
                   /\ \A f \in UnderWay(c) : Fits(c, f)
                   /\ \A f, g \in UnderWay(c) : f = g

Good(c) == Wired(c) /\ Whole(c)

ClientInv == Shapes /\ HeldInv /\ \A v \in Views : Good(views[v])

-----------------------------------------------------------------------------
\* The bytes of a range.
LEMMA BytesCover ==
  ASSUME NEW a \in Nat, NEW b \in Nat
  PROVE  /\ Bytes(a, b) \in Text
         /\ \A k \in (a + 1)..b : k \in Range(Bytes(a, b))
         /\ a < b => Bytes(a, b) # <<>> /\ Bytes(a, b)[Len(Bytes(a, b))] = b
<1> DEFINE n == IF b > a THEN b - a ELSE 0
           s == Bytes(a, b)
<1>1. n \in Nat /\ s = [i \in 1..n |-> a + i]
  BY DEF Bytes
<1>2. s \in Text /\ Len(s) = n /\ DOMAIN s = 1..n /\ \A i \in 1..n : s[i] = a + i
  BY <1>1 DEF Text
<1>3. ASSUME NEW k \in (a + 1)..b PROVE k \in Range(s)
  <2>1. k - a \in 1..n /\ a + (k - a) = k
    BY <1>1
  <2> QED BY <1>2, <2>1 DEF Range
<1>4. a < b => n \in 1..n /\ a + n = b
  BY <1>1
<1>5. a < b => s # <<>> /\ s[Len(s)] = b
  BY <1>2, <1>4
<1> QED BY <1>2, <1>3, <1>5

\* An older chunk in front of a whole text makes a whole text.
LEMMA FrontCovers ==
  ASSUME NEW a \in Nat, NEW b \in Nat, a < b, NEW text \in Text, Covers(b, text)
  PROVE  Covers(a, Bytes(a, b) \o text)
<1> DEFINE s == Bytes(a, b)
<1>1. /\ s \in Text /\ (\A k \in (a + 1)..b : k \in Range(s)) /\ s # <<>>
      /\ s[Len(s)] = b
  BY BytesCover
<1> HIDE DEF s
<1>2. s \o text \in Text /\ Len(s \o text) = Len(s) + Len(text)
  BY <1>1 DEF Text
<1>3. /\ \A i \in 1..Len(s) : (s \o text)[i] = s[i]
      /\ \A i \in 1..Len(text) : (s \o text)[Len(s) + i] = text[i]
  BY <1>1 DEF Text
<1>4. /\ Len(s) \in Nat /\ Len(text) \in Nat /\ Len(s) > 0
      /\ DOMAIN s = 1..Len(s) /\ DOMAIN text = 1..Len(text)
      /\ DOMAIN (s \o text) = 1..(Len(s) + Len(text))
  BY <1>1, <1>2 DEF Text
<1>5. Range(s) \subseteq Range(s \o text)
  <2> SUFFICES ASSUME NEW i \in 1..Len(s) PROVE s[i] \in Range(s \o text)
    BY <1>4 DEF Range
  <2>1. i \in 1..(Len(s) + Len(text))
    BY <1>4
  <2> QED BY <1>3, <1>4, <2>1 DEF Range
<1>6. Range(text) \subseteq Range(s \o text)
  <2> SUFFICES ASSUME NEW i \in 1..Len(text) PROVE text[i] \in Range(s \o text)
    BY <1>4 DEF Range
  <2>1. Len(s) + i \in 1..(Len(s) + Len(text))
    BY <1>4
  <2> QED BY <1>3, <1>4, <2>1 DEF Range
<1>7. CASE text = <<>>
  <2>1. Len(text) = 0 /\ (s \o text)[Len(s \o text)] = b
    BY <1>1, <1>2, <1>3, <1>4, <1>7
  <2> QED BY <1>1, <1>5, <2>1 DEF Covers, s
<1>8. CASE text # <<>>
  <2>1. Len(text) \in 1..Len(text)
    BY <1>4, <1>8 DEF Text
  <2>2. (s \o text)[Len(s \o text)] = text[Len(text)] /\ text[Len(text)] \in Nat
    BY <1>2, <1>3, <2>1 DEF Text
  <2>3. ASSUME NEW k \in (a + 1)..text[Len(text)] PROVE k \in Range(s \o text)
    <3>1. k \in (a + 1)..b \/ k \in (b + 1)..text[Len(text)]
      BY <2>2
    <3> QED BY <1>1, <1>5, <1>6, <1>8, <3>1 DEF Covers
  <2> QED BY <2>2, <2>3 DEF Covers, s
<1> QED BY <1>7, <1>8

\* What a rebuild has still to write.
LEMMA RestIsText ==
  ASSUME NEW a \in Text, NEW b \in Text
  PROVE  /\ Rest(<<a, b>>) \in Seq(Text)
         /\ NonEmpty(<<a, b>>) # <<>> => Head(NonEmpty(<<a, b>>)) \in Text
<1> DEFINE p == IF a = <<>> THEN <<>> ELSE <<a>>
           q == IF b = <<>> THEN <<>> ELSE <<b>>
           left == NonEmpty(<<a, b>>)
<1>1. p \in Seq(Text) /\ q \in Seq(Text)
  OBVIOUS
<1>2. left = p \o q
  BY DEF NonEmpty
<1>3. <<>> \in Seq(Text) /\ Rest(<<a, b>>) = IF left = <<>> THEN <<>> ELSE Tail(left)
  BY DEF Rest
<1> HIDE DEF p, q, left
<1>4. left \in Seq(Text)
  BY <1>1, <1>2
<1>5. left # <<>> => Head(left) \in Text /\ Tail(left) \in Seq(Text)
  BY <1>4
<1> QED BY <1>3, <1>5 DEF left

-----------------------------------------------------------------------------
\* A paused text changes only under a rebuild.
Rebuilt(c) ==
  \/ "writing" \in {c.seed.pc, c.resume.pc}
  \/ \E f \in Fetches : c.chunks[f].pc \in {"writing", "frame"}

Holds(c, d) == c.paused /\ d.paused /\ d.term # c.term => Rebuilt(c) \/ Rebuilt(d)

\* What a turn of a controller makes of its view.
Turns(c, d) == d \in View /\ Good(d) /\ d.mounted = c.mounted /\ Holds(c, d)

\* The view moves, and nothing around it but what the server owes.
Moves(v) ==
  \E d \in View : /\ views[v].mounted /\ Turns(views[v], d)
                  /\ views' = [views EXCEPT ![v] = d]
                  /\ UNCHANGED <<log, wire, socket, entry>>

\* What a turn leaves alone that does not touch the loaded text.
SameText(c, d) ==
  /\ d.mounted = c.mounted /\ d.doubled = c.doubled
  /\ d.start = c.start /\ d.loaded = c.loaded /\ d.chunks = c.chunks
  /\ (Settled(c) => Settled(d)) /\ (Seeds(c) => Seeds(d))

LEMMA SameTextIsWhole ==
  ASSUME NEW c, NEW d, Whole(c), SameText(c, d)
  PROVE  Whole(d)
BY DEF Whole, SameText, Fits, UnderWay

\* applyInteractive() wires the input as it should be, and touches nothing else.
LEMMA Applied ==
  ASSUME NEW c \in View, NEW d, d = ApplyInteractive(c)
  PROVE  /\ d \in View /\ Wired(d) /\ SameText(c, d)
         /\ d.paused = c.paused /\ d.term = c.term
<1>1. d = [c EXCEPT !.wired = c.interactive /\ ~c.paused]
  BY DEF ApplyInteractive
<1>2. d \in View
  BY <1>1 DEF View
<1>3. /\ d.wired = (c.interactive /\ ~c.paused) /\ d.interactive = c.interactive
      /\ d.paused = c.paused /\ d.term = c.term /\ d.mounted = c.mounted
      /\ d.doubled = c.doubled /\ d.start = c.start /\ d.loaded = c.loaded
      /\ d.chunks = c.chunks /\ d.seeded = c.seeded /\ d.seed = c.seed
  BY <1>1 DEF View
<1> QED BY <1>2, <1>3 DEF Wired, SameText, Settled, Seeds, Seeds

\* The socket's bytes and snapshots.
LEMMA BytesTurn ==
  ASSUME NEW c \in View, NEW b \in Nat, Good(c)
  PROVE  Turns(c, OnBytes(c, b))
<1>1. CASE c.paused \/ c.rebuilding
  BY <1>1 DEF OnBytes, Turns, Holds
<1>2. CASE ~(c.paused \/ c.rebuilding)
  <2>1. PICK d : d = OnBytes(c, b)
    OBVIOUS
  <2>2. d = [c EXCEPT !.term = Append(c.term, b), !.tail = Append(c.tail, b),
                      !.offset = c.offset + 1]
    BY <1>2, <2>1 DEF OnBytes
  <2>3. Append(c.term, b) \in Text /\ Append(c.tail, b) \in Text /\ c.offset + 1 \in Nat
    BY DEF View, Text
  <2>4. d \in View
    BY <2>2, <2>3 DEF View
  <2>5. SameText(c, d) /\ d.wired = c.wired /\ d.interactive = c.interactive /\ d.paused = c.paused
    BY <2>2 DEF View, SameText, Settled, Seeds, Seeds
  <2>6. Good(d)
    BY <2>5, SameTextIsWhole DEF Good, Wired
  <2> QED BY <1>2, <2>1, <2>4, <2>5, <2>6 DEF Turns, Holds, SameText
<1> QED BY <1>1, <1>2

LEMMA IdleIsTask == Idle \in Task /\ Idle.pc = "idle"
<1>1. <<>> \in Seq(Text)
  OBVIOUS
<1> QED BY <1>1 DEF Idle, Task

LEMMA PaintedTurns ==
  ASSUME NEW c \in View, Good(c)
  PROVE  /\ Painted(c) \in View /\ Good(Painted(c)) /\ Painted(c).mounted = c.mounted
         /\ Painted(c).paused = c.paused
<1>1. PICK d : d = Painted(c)
  OBVIOUS
<1>2. PICK t : t = IF c.seeded THEN c.seed ELSE [Idle EXCEPT !.pc = "meta", !.from = c.offset]
  OBVIOUS
<1>3. d = [c EXCEPT !.term = <<Snap>>, !.seeded = TRUE, !.seed = t]
  BY <1>1, <1>2 DEF Painted
<1>4. t \in Task /\ <<Snap>> \in Text
  <2>1. Idle \in Task /\ <<Snap>> \in Text
    BY IdleIsTask DEF Snap, Text
  <2>2. [Idle EXCEPT !.pc = "meta", !.from = c.offset] \in Task
    BY <2>1 DEF Task, View
  <2> QED BY <1>2, <2>1, <2>2 DEF View
<1>5. d \in View
  BY <1>3, <1>4 DEF View
<1>6. /\ d.seeded /\ d.seed = t /\ d.wired = c.wired /\ d.interactive = c.interactive
      /\ d.paused = c.paused /\ d.mounted = c.mounted /\ d.doubled = c.doubled
      /\ d.start = c.start /\ d.loaded = c.loaded /\ d.chunks = c.chunks
  BY <1>3 DEF View
<1>7. SameText(c, d)
  BY <1>2, <1>6 DEF SameText, Settled, Seeds, Seeds
<1> QED BY <1>1, <1>5, <1>6, <1>7, SameTextIsWhole DEF Good, Wired

LEMMA SnapshotTurn ==
  ASSUME NEW c \in View, Good(c)
  PROVE  Turns(c, OnSnapshot(c))
<1>1. CASE c.sink = "resume"
  <2>1. PICK d : d = OnSnapshot(c)
    OBVIOUS
  <2>2. PICK t : t = [c.resume EXCEPT !.pc = "answered", !.from = c.offset]
    OBVIOUS
  <2>3. d = [c EXCEPT !.sink = "none", !.resume = t]
    BY <1>1, <2>1, <2>2 DEF OnSnapshot
  <2>4. t \in Task
    BY <2>2 DEF View, Task
  <2>5. d \in View
    BY <2>3, <2>4 DEF View
  <2>6. /\ SameText(c, d) /\ d.wired = c.wired /\ d.interactive = c.interactive
        /\ d.paused = c.paused /\ d.term = c.term
    BY <2>3 DEF View, SameText, Settled, Seeds, Seeds
  <2> QED BY <2>1, <2>5, <2>6, SameTextIsWhole DEF Turns, Holds, Good, Wired, SameText
<1>2. CASE c.sink = "swallow"
  <2>1. PICK d : d = OnSnapshot(c)
    OBVIOUS
  <2>2. d = [c EXCEPT !.sink = "none"]
    BY <1>2, <2>1 DEF OnSnapshot
  <2>3. d \in View
    BY <2>2 DEF View
  <2>4. /\ SameText(c, d) /\ d.wired = c.wired /\ d.interactive = c.interactive
        /\ d.paused = c.paused /\ d.term = c.term
    BY <2>2 DEF View, SameText, Settled, Seeds, Seeds
  <2> QED BY <2>1, <2>3, <2>4, SameTextIsWhole DEF Turns, Holds, Good, Wired, SameText
<1>3. CASE c.sink = "none" /\ c.paused
  BY <1>3 DEF OnSnapshot, Turns, Holds
<1>4. CASE c.sink = "none" /\ ~c.paused
  BY <1>4, PaintedTurns DEF OnSnapshot, Turns, Holds
<1> QED BY <1>1, <1>2, <1>3, <1>4 DEF View

-----------------------------------------------------------------------------
\* The controller's own turns.

\* One view moves.
LEMMA ByTurn ==
  ASSUME NEW v \in Views, NEW c, c = views[v], NEW d, Becomes(v, d), Turns(c, d)
  PROVE  Moves(v)
BY DEF Becomes, Moves, Turns

\* A turn that leaves the text alone.
LEMMA SameTextTurns ==
  ASSUME NEW c \in View, Good(c), NEW d \in View, SameText(c, d), Wired(d), Holds(c, d)
  PROVE  Turns(c, d)
BY SameTextIsWhole DEF Turns, Good, SameText

LEMMA UserTurns ==
  ASSUME ClientInv, NEW v \in Views, SetInteractive(v) \/ Pause(v)
  PROVE  Moves(v)
<1>1. PICK c \in View : c = views[v] /\ Good(c)
  BY DEF ClientInv, Shapes
<1>2. CASE SetInteractive(v)
  <2>1. PICK e : e = [c EXCEPT !.interactive = ~c.interactive]
    OBVIOUS
  <2>2. PICK d : d = ApplyInteractive(e)
    OBVIOUS
  <2>3. e \in View /\ SameText(c, e) /\ e.term = c.term
    BY <2>1 DEF View, SameText, Settled, Seeds, Seeds
  <2>4. d \in View /\ Wired(d) /\ SameText(e, d) /\ d.term = e.term
    BY <2>2, <2>3, Applied
  <2>5. Turns(c, d)
    BY <1>1, <2>3, <2>4, SameTextTurns DEF SameText, Holds
  <2>6. Becomes(v, d)
    BY <1>1, <1>2, <2>1, <2>2 DEF SetInteractive
  <2> QED BY <1>1, <2>5, <2>6, ByTurn
<1>3. CASE Pause(v)
  <2>1. PICK e : e = [Moved(c) EXCEPT !.paused = TRUE, !.chunkState = "idle"]
    OBVIOUS
  <2>2. PICK d : d = ApplyInteractive(e)
    OBVIOUS
  <2>3. e \in View /\ SameText(c, e) /\ e.term = c.term
    <3>1. e = [c EXCEPT !.moves = c.moves + 1, !.paused = TRUE, !.chunkState = "idle"]
      BY <2>1 DEF Moved
    <3>2. c.moves + 1 \in Nat
      BY DEF View
    <3> QED BY <3>1, <3>2 DEF View, SameText, Settled, Seeds, Seeds
  <2>4. d \in View /\ Wired(d) /\ SameText(e, d) /\ d.term = e.term
    BY <2>2, <2>3, Applied
  <2>5. Turns(c, d)
    BY <1>1, <2>3, <2>4, SameTextTurns DEF SameText, Holds
  <2>6. Becomes(v, d)
    BY <1>1, <1>3, <2>1, <2>2 DEF Pause
  <2> QED BY <1>1, <2>5, <2>6, ByTurn
<1> QED BY <1>2, <1>3

\* resume() aborts the chunk that is loading, if any.
LEMMA ResumeMoves ==
  ASSUME ClientInv, NEW v \in Views, Resume(v)
  PROVE  Moves(v)
<1>1. PICK c \in View : c = views[v] /\ Good(c)
  BY DEF ClientInv, Shapes
<1>2. PICK cs : cs = IF c.pending = None THEN c.chunks
                   ELSE [c.chunks EXCEPT ![c.pending].aborted = TRUE]
  OBVIOUS
<1>3. PICK e : e = [Moved(c) EXCEPT !.pending = None, !.chunks = cs]
  OBVIOUS
<1>4. PICK t \in {[c.resume EXCEPT !.pc = "asked"],
                  [c.resume EXCEPT !.pc = "answered", !.from = c.offset]},
           k \in {c.sink, "resume"} :
        views' = [views EXCEPT ![v] = [e EXCEPT !.resume = t, !.sink = k]]
  <2>1. e = [Moved(c) EXCEPT !.pending = None,
               !.chunks = IF c.pending = None THEN @ ELSE [@ EXCEPT ![c.pending].aborted = TRUE]]
    BY <1>2, <1>3 DEF Moved, View
  <2>2. e.resume = c.resume /\ e.sink = c.sink
    BY <2>1 DEF Moved, View
  <2>3. \/ views' = [views EXCEPT ![v] = [e EXCEPT !.resume.pc = "asked", !.sink = "resume"]]
        \/ views' = [views EXCEPT ![v] = [e EXCEPT !.resume.pc = "answered",
                                                   !.resume.from = c.offset]]
    BY <1>1, <2>1 DEF Resume
  <2>4. [e EXCEPT !.resume.pc = "answered", !.resume.from = c.offset]
          = [e EXCEPT !.resume = [c.resume EXCEPT !.pc = "answered", !.from = c.offset],
                      !.sink = c.sink]
    BY <1>3, <2>2 DEF Moved, View
  <2> QED BY <2>2, <2>3, <2>4
<1>5. PICK d : d = [e EXCEPT !.resume = t, !.sink = k]
  OBVIOUS
<1>6. /\ cs \in [Fetches -> Task]
      /\ \A f \in Fetches : /\ cs[f].pc = c.chunks[f].pc /\ cs[f].from = c.chunks[f].from
                            /\ cs[f].to = c.chunks[f].to /\ cs[f].left = c.chunks[f].left
                            /\ c.chunks[f].aborted => cs[f].aborted
  <2>1. c.chunks \in [Fetches -> Task] /\ c.pending \in Fetches \cup {None}
    BY DEF View
  <2>2. CASE c.pending = None
    BY <1>2, <2>1, <2>2
  <2>3. CASE c.pending # None
    <3>1. PICK r : r = [c.chunks[c.pending] EXCEPT !.aborted = TRUE]
      OBVIOUS
    <3>2. cs = [c.chunks EXCEPT ![c.pending] = r]
      BY <1>2, <2>3, <3>1
    <3>3. PICK q \in Task : q = c.chunks[c.pending]
      BY <2>1, <2>3
    <3>4. /\ r \in Task /\ r.pc = q.pc /\ r.from = q.from /\ r.to = q.to /\ r.left = q.left
          /\ r.aborted
      BY <3>1, <3>3 DEF Task
    <3> QED BY <2>1, <2>3, <3>2, <3>3, <3>4
  <2> QED BY <2>2, <2>3
<1>7. t \in Task /\ k \in {"none", "resume", "swallow"} /\ c.moves + 1 \in Nat
  <2>1. c.resume \in Task /\ c.offset \in Nat /\ c.moves + 1 \in Nat
    BY DEF View
  <2>2. /\ [c.resume EXCEPT !.pc = "asked"] \in Task
        /\ [c.resume EXCEPT !.pc = "answered", !.from = c.offset] \in Task
    BY <2>1 DEF Task
  <2>3. k \in {"none", "resume", "swallow"}
    BY <1>4 DEF View
  <2> QED BY <1>4, <2>1, <2>2, <2>3
<1>8. /\ d \in View /\ d.mounted = c.mounted /\ d.doubled = c.doubled /\ d.start = c.start
      /\ d.loaded = c.loaded /\ d.chunks = cs /\ d.seeded = c.seeded /\ d.seed = c.seed
      /\ d.wired = c.wired /\ d.interactive = c.interactive /\ d.paused = c.paused
      /\ d.term = c.term
  <2>1. d = [c EXCEPT !.moves = c.moves + 1, !.pending = None, !.chunks = cs, !.resume = t,
                      !.sink = k]
    BY <1>3, <1>5 DEF Moved
  <2> QED BY <1>6, <1>7, <2>1 DEF View
<1>9. UnderWay(d) \subseteq UnderWay(c)
  BY <1>6, <1>8 DEF UnderWay
<1>10. Whole(d)
  <2>1. Whole(c) /\ (Settled(d) <=> Settled(c)) /\ (Seeds(c) => Seeds(d))
    BY <1>1, <1>8 DEF Good, Settled, Seeds
  <2>2. \A f \in Fetches : /\ d.chunks[f].pc = c.chunks[f].pc
                           /\ d.chunks[f].from = c.chunks[f].from
                           /\ d.chunks[f].to = c.chunks[f].to
                           /\ d.chunks[f].left = c.chunks[f].left
    BY <1>6, <1>8
  <2>3. \A f \in UnderWay(d) : Fits(c, f) => Fits(d, f)
    BY <1>8, <2>2 DEF Fits, UnderWay
  <2> QED BY <1>8, <1>9, <2>1, <2>2, <2>3 DEF Whole
<1>11. Turns(c, d)
  BY <1>1, <1>8, <1>10 DEF Turns, Good, Wired, Holds
<1>12. views[v].mounted /\ UNCHANGED <<log, wire, socket, entry>>
  BY DEF Resume, MayMove
<1>13. d \in View /\ views' = [views EXCEPT ![v] = d]
  BY <1>4, <1>5, <1>8
<1> QED BY <1>1, <1>11, <1>12, <1>13 DEF Moves

\* A rebuild begins with the first of its writes.
LEMMA Begun ==
  ASSUME NEW c \in View, NEW a \in Text, NEW b \in Text, NEW d, d = Begin(c, <<a, b>>)
  PROVE  /\ d \in View /\ SameText(c, d) /\ d.resume = c.resume /\ d.seed = c.seed
         /\ d.wired = c.wired /\ d.interactive = c.interactive /\ d.paused = c.paused
<1>1. PICK t \in Text : t = IF NonEmpty(<<a, b>>) = <<>> THEN <<>> ELSE Head(NonEmpty(<<a, b>>))
  <2>1. <<>> \in Text
    BY DEF Text
  <2> QED BY <2>1, RestIsText
<1>2. d = [c EXCEPT !.rebuilding = TRUE, !.term = t]
  BY <1>1 DEF Begin
<1> QED BY <1>2 DEF View, SameText, Settled, Seeds, Seeds

LEMMA ResumeTurns ==
  ASSUME ClientInv, NEW v \in Views, ResumeTimesOut(v) \/ ResumeTail(v) \/ ResumeWrites(v)
  PROVE  Moves(v)
<1>1. PICK c \in View : c = views[v] /\ Good(c)
  BY DEF ClientInv, Shapes
<1>2. PICK r \in Task : r = c.resume
  BY DEF View
<1>3. CASE ResumeTimesOut(v)
  <2>1. PICK t : t = [r EXCEPT !.pc = "answered", !.from = c.offset]
    OBVIOUS
  <2>2. PICK d : d = [c EXCEPT !.resume = t, !.sink = "swallow"]
    OBVIOUS
  <2>3. t \in Task
    BY <2>1 DEF View, Task
  <2>4. d = [c EXCEPT !.resume.pc = "answered", !.resume.from = c.offset, !.sink = "swallow"]
    BY <1>2, <2>1, <2>2 DEF View
  <2>5. Becomes(v, d)
    BY <1>1, <1>3, <2>4 DEF ResumeTimesOut
  <2>6. d \in View
    BY <2>2, <2>3 DEF View
  <2>7. /\ SameText(c, d) /\ d.wired = c.wired /\ d.interactive = c.interactive
        /\ d.paused = c.paused /\ d.term = c.term
    BY <2>2 DEF View, SameText, Settled, Seeds, Seeds
  <2>8. Turns(c, d)
    BY <1>1, <2>6, <2>7, SameTextTurns DEF Good, Wired, Holds
  <2> QED BY <1>1, <2>5, <2>8, ByTurn
<1>4. CASE ResumeTail(v)
  <2>1. PICK upto \in {r.from, log} :
          LET more == Bytes(r.from, upto)
              bufs == <<c.loaded, c.tail \o more>>
          IN Becomes(v, Begin([c EXCEPT !.tail = @ \o more, !.offset = @ + Len(more),
                                        !.resume.pc = "writing",
                                        !.resume.left = Rest(bufs)], bufs))
    BY <1>1, <1>2, <1>4 DEF ResumeTail
  <2>2. PICK more \in Text : more = Bytes(r.from, upto)
    <3>1. r.from \in Nat /\ upto \in Nat
      BY <2>1 DEF ClientInv, Shapes, Task
    <3> QED BY <3>1, BytesCover
  <2>3. PICK tail \in Text : tail = c.tail \o more
    <3>1. c.tail \in Text
      BY DEF View
    <3>2. c.tail \o more \in Text
      BY <3>1 DEF Text
    <3> QED BY <3>2
  <2>4. PICK left \in Seq(Text) : left = Rest(<<c.loaded, tail>>)
    BY RestIsText DEF View
  <2>5. PICK t : t = [r EXCEPT !.pc = "writing", !.left = left]
    OBVIOUS
  <2>6. t \in Task /\ t.pc = "writing"
    BY <2>5 DEF Task
  <2>7. c.offset + Len(more) \in Nat
    BY DEF View, Text
  <2>8. PICK e : e = [c EXCEPT !.tail = tail, !.offset = c.offset + Len(more), !.resume = t]
    OBVIOUS
  <2>9. e = [c EXCEPT !.tail = tail, !.offset = c.offset + Len(more),
                      !.resume.pc = "writing", !.resume.left = left]
    BY <1>2, <2>5, <2>8 DEF View
  <2>10. Becomes(v, Begin(e, <<c.loaded, tail>>))
    BY <2>1, <2>2, <2>3, <2>4, <2>9
  <2>11. /\ e \in View /\ SameText(c, e) /\ e.wired = c.wired /\ e.interactive = c.interactive
         /\ e.paused = c.paused /\ e.resume = t
    BY <2>6, <2>7, <2>8 DEF View, SameText, Settled, Seeds, Seeds
  <2>12. PICK d : d = Begin(e, <<c.loaded, tail>>)
    OBVIOUS
  <2>13. /\ d \in View /\ SameText(e, d) /\ d.wired = e.wired /\ d.interactive = e.interactive
         /\ d.paused = e.paused /\ d.resume = e.resume
    <3>1. c.loaded \in Text
      BY DEF View
    <3>2. d = Begin(e, <<c.loaded, tail>>)
      BY <2>12
    <3> QED BY <2>11, <3>1, <3>2, Begun
  <2>14. Turns(c, d)
    <3>1. SameText(c, d) /\ Wired(d)
      BY <1>1, <2>11, <2>13 DEF SameText, Good, Wired
    <3>2. Holds(c, d)
      BY <2>6, <2>11, <2>13 DEF Holds, Rebuilt
    <3> QED BY <1>1, <2>13, <3>1, <3>2, SameTextTurns
  <2> QED BY <1>1, <2>10, <2>12, <2>14, ByTurn
<1>5. CASE ResumeWrites(v) /\ r.left = <<>>
  <2>1. PICK e : e = [Shown(c) EXCEPT !.resume = Idle, !.paused = FALSE]
    OBVIOUS
  <2>2. PICK d : d = ApplyInteractive(e)
    OBVIOUS
  <2>3. e \in View /\ SameText(c, e) /\ ~e.paused
    <3>1. e = [c EXCEPT !.rebuilding = FALSE, !.resume = Idle, !.paused = FALSE]
      BY <2>1 DEF Shown
    <3> QED BY <3>1, IdleIsTask DEF View, SameText, Settled, Seeds, Seeds
  <2>4. d \in View /\ Wired(d) /\ SameText(e, d) /\ ~d.paused
    BY <2>2, <2>3, Applied
  <2>5. Turns(c, d)
    BY <1>1, <2>3, <2>4, SameTextTurns DEF SameText, Holds
  <2>6. Becomes(v, d)
    BY <1>1, <1>2, <1>5, <2>1, <2>2 DEF ResumeWrites
  <2> QED BY <1>1, <2>5, <2>6, ByTurn
<1>6. CASE ResumeWrites(v) /\ r.left # <<>>
  <2>1. Head(r.left) \in Text /\ Tail(r.left) \in Seq(Text)
    BY <1>6 DEF Task
  <2>2. PICK t : t = [r EXCEPT !.left = Tail(r.left)]
    OBVIOUS
  <2>3. PICK d : d = [c EXCEPT !.resume = t, !.term = c.term \o Head(r.left)]
    OBVIOUS
  <2>4. t \in Task /\ c.term \o Head(r.left) \in Text /\ r.pc = "writing"
    <3>1. c.term \o Head(r.left) \in Text
      BY <2>1 DEF View, Text
    <3>2. r.pc = "writing"
      BY <1>1, <1>2, <1>6 DEF ResumeWrites
    <3> QED BY <2>1, <2>2, <3>1, <3>2 DEF Task
  <2>5. d = [c EXCEPT !.resume.left = Tail(r.left), !.term = c.term \o Head(r.left)]
    BY <1>2, <2>2, <2>3 DEF View
  <2>6. Becomes(v, d)
    <3>1. Becomes(v, [c EXCEPT !.resume.left = Tail(@), !.term = @ \o Head(c.resume.left)])
      BY <1>1, <1>2, <1>6 DEF ResumeWrites
    <3>2. d = [c EXCEPT !.resume.left = Tail(@), !.term = @ \o Head(c.resume.left)]
      BY <1>2, <2>5 DEF View
    <3> QED BY <3>1, <3>2
  <2>7. d \in View /\ SameText(c, d) /\ d.wired = c.wired /\ d.interactive = c.interactive
        /\ d.paused = c.paused
    BY <2>3, <2>4 DEF View, SameText, Settled, Seeds, Seeds
  <2>8. Turns(c, d)
    BY <1>1, <1>2, <2>4, <2>7, SameTextTurns DEF Good, Wired, Holds, Rebuilt
  <2> QED BY <1>1, <2>6, <2>8, ByTurn
<1> QED BY <1>3, <1>4, <1>5, <1>6

\* The seed has no chunk beside it, and replaces the text by a whole one.
LEMMA SeedTurns ==
  ASSUME ClientInv, NEW v \in Views,
         SeedMeta(v) \/ SeedBody(v) \/ SeedFails(v) \/ SeedWrites(v)
  PROVE  Moves(v)
<1>1. PICK c \in View : c = views[v] /\ Good(c)
  BY DEF ClientInv, Shapes
<1>2. PICK r \in Task : r = c.seed
  BY DEF View
<1>3. CASE SeedMeta(v) /\ log = 0
  <2>0. PICK none \in Text, zero \in Nat : none = <<>> /\ zero = 0
    <3>1. <<>> \in Text /\ 0 \in Nat
      BY DEF Text
    <3> QED BY <3>1
  <2>1. PICK d : d = [c EXCEPT !.seed = Idle, !.loaded = none, !.start = zero, !.offset = zero]
    OBVIOUS
  <2>2. Becomes(v, d) /\ c.seed.pc = "meta"
    BY <1>1, <1>3, <2>0, <2>1 DEF SeedMeta
  <2>3. d \in View
    BY <2>1, IdleIsTask DEF View
  <2>4. /\ d.mounted = c.mounted /\ d.wired = c.wired /\ d.interactive = c.interactive
        /\ d.paused = c.paused /\ d.term = c.term /\ d.chunks = c.chunks
        /\ d.start = 0 /\ d.loaded = <<>> /\ d.seed = Idle
    BY <2>0, <2>1 DEF View
  <2>5. \A f \in Fetches : c.chunks[f].pc = "idle"
    BY <1>1, <2>2 DEF Good, Whole, Settled, Seeds
  <2>6. Whole(d)
    BY <2>4, <2>5, IdleIsTask DEF Whole, UnderWay, Covers, Seeds
  <2>7. Turns(c, d)
    BY <1>1, <2>3, <2>4, <2>6 DEF Turns, Good, Wired, Holds
  <2> QED BY <1>1, <2>2, <2>7, ByTurn
<1>4. CASE SeedMeta(v) /\ log # 0
  <2>1. PICK t : t = [r EXCEPT !.pc = "body", !.to = log]
    OBVIOUS
  <2>2. PICK d : d = [c EXCEPT !.seed = t]
    OBVIOUS
  <2>3. t \in Task
    BY <2>1 DEF ClientInv, Shapes, Task
  <2>4. d = [c EXCEPT !.seed.pc = "body", !.seed.to = log]
    BY <1>2, <2>1, <2>2 DEF View
  <2>5. Becomes(v, d) /\ c.seed.pc = "meta"
    BY <1>1, <1>4, <2>4 DEF SeedMeta
  <2>6. /\ d \in View /\ SameText(c, d) /\ d.wired = c.wired /\ d.interactive = c.interactive
        /\ d.paused = c.paused /\ d.term = c.term
    BY <2>2, <2>3, <2>5 DEF View, SameText, Settled, Seeds, Seeds
  <2>7. Turns(c, d)
    BY <1>1, <2>6, SameTextTurns DEF Good, Wired, Holds
  <2> QED BY <1>1, <2>5, <2>7, ByTurn
<1>5. CASE SeedFails(v)
  <2>1. PICK d : d = [c EXCEPT !.seed = Idle]
    OBVIOUS
  <2>2. Becomes(v, d) /\ c.seed.pc \in {"meta", "body"}
    BY <1>1, <1>5, <2>1 DEF SeedFails
  <2>3. /\ d \in View /\ SameText(c, d) /\ d.wired = c.wired /\ d.interactive = c.interactive
        /\ d.paused = c.paused /\ d.term = c.term
    BY <2>1, <2>2, IdleIsTask DEF View, SameText, Settled, Seeds, Seeds
  <2>4. Turns(c, d)
    BY <1>1, <2>3, SameTextTurns DEF Good, Wired, Holds
  <2> QED BY <1>1, <2>2, <2>4, ByTurn
<1>6. CASE SeedWrites(v) /\ r.left = <<>>
  <2>1. PICK d : d = [c EXCEPT !.seed = Idle, !.rebuilding = FALSE]
    OBVIOUS
  <2>2. Becomes(v, d) /\ c.seed.pc = "writing"
    BY <1>1, <1>2, <1>6, <2>1 DEF SeedWrites
  <2>3. /\ d \in View /\ SameText(c, d) /\ d.wired = c.wired /\ d.interactive = c.interactive
        /\ d.paused = c.paused /\ d.term = c.term
    BY <2>1, <2>2, IdleIsTask DEF View, SameText, Settled, Seeds, Seeds
  <2>4. Turns(c, d)
    BY <1>1, <2>3, SameTextTurns DEF Good, Wired, Holds
  <2> QED BY <1>1, <2>2, <2>4, ByTurn
<1>7. CASE SeedWrites(v) /\ r.left # <<>>
  <2>1. Head(r.left) \in Text /\ Tail(r.left) \in Seq(Text)
    BY <1>7 DEF Task
  <2>2. PICK t : t = [r EXCEPT !.left = Tail(r.left)]
    OBVIOUS
  <2>3. PICK d : d = [c EXCEPT !.seed = t, !.term = c.term \o Head(r.left)]
    OBVIOUS
  <2>4. t \in Task /\ c.term \o Head(r.left) \in Text /\ r.pc = "writing" /\ t.pc = r.pc
    <3>1. c.term \o Head(r.left) \in Text
      BY <2>1 DEF View, Text
    <3>2. r.pc = "writing"
      BY <1>1, <1>2, <1>7 DEF SeedWrites
    <3> QED BY <2>1, <2>2, <3>1, <3>2 DEF Task
  <2>5. d = [c EXCEPT !.seed.left = Tail(@), !.term = @ \o Head(c.seed.left)]
    BY <1>2, <2>2, <2>3 DEF View
  <2>6. Becomes(v, d)
    BY <1>1, <1>2, <1>7, <2>5 DEF SeedWrites
  <2>7. d \in View /\ SameText(c, d) /\ d.wired = c.wired /\ d.interactive = c.interactive
        /\ d.paused = c.paused
    BY <1>2, <2>3, <2>4 DEF View, SameText, Settled, Seeds, Seeds
  <2>8. Turns(c, d)
    BY <1>1, <1>2, <2>4, <2>7, SameTextTurns DEF Good, Wired, Holds, Rebuilt
  <2> QED BY <1>1, <2>6, <2>8, ByTurn
<1>8. CASE SeedBody(v)
  <2>1. PICK lo \in Nat : lo = IF r.to > ChunkSize THEN r.to - ChunkSize ELSE 0
    BY DEF Task, ChunkSize
  <2>2. PICK old \in Text : old = Bytes(lo, r.to)
    BY BytesCover DEF Task
  <2>3. PICK kept \in Text : kept = SubSeq(c.tail, r.from + 1, Len(c.tail))
    <3>1. c.tail \in Text /\ r.from + 1 \in Nat \ {0}
      BY DEF View, Task
    <3>2. SubSeq(c.tail, r.from + 1, Len(c.tail)) \in Text
      BY <3>1 DEF Text
    <3> QED BY <3>2
  <2>4. PICK left \in Seq(Text) : left = Rest(<<old, kept>>)
    BY RestIsText
  <2>5. PICK t : t = [r EXCEPT !.pc = "writing", !.left = left]
    OBVIOUS
  <2>6. t \in Task /\ t.pc = "writing"
    BY <2>5 DEF Task
  <2>7. PICK n \in Nat : n = r.to + Len(kept)
    BY DEF Task, Text
  <2>8. PICK e : e = [c EXCEPT !.loaded = old, !.start = lo, !.tail = kept, !.offset = n,
                              !.seed = t]
    OBVIOUS
  <2>9. e = [c EXCEPT !.loaded = old, !.start = lo, !.tail = kept, !.offset = n,
                      !.seed.pc = "writing", !.seed.left = left]
    BY <1>2, <2>5, <2>8 DEF View
  <2>10. Becomes(v, Begin(e, <<old, kept>>)) /\ c.seed.pc = "body"
    BY <1>1, <1>2, <1>8, <2>1, <2>2, <2>3, <2>4, <2>7, <2>9 DEF SeedBody
  <2>11. /\ e \in View /\ e.mounted = c.mounted /\ e.wired = c.wired
         /\ e.interactive = c.interactive /\ e.paused = c.paused /\ e.seed = t
         /\ e.chunks = c.chunks /\ e.start = lo /\ e.loaded = old /\ e.seeded = c.seeded
    <3>1. e \in View
      BY <2>6, <2>8 DEF View
    <3> QED BY <2>8, <3>1 DEF View
  <2>12. PICK d : d = Begin(e, <<old, kept>>)
    OBVIOUS
  <2>13. /\ d \in View /\ SameText(e, d) /\ d.wired = e.wired /\ d.interactive = e.interactive
         /\ d.paused = e.paused /\ d.seed = e.seed
    <3>1. d = Begin(e, <<old, kept>>)
      BY <2>12
    <3> QED BY <2>11, <3>1, Begun
  <2>14. \A f \in Fetches : c.chunks[f].pc = "idle"
    BY <1>1, <2>10 DEF Good, Whole, Settled, Seeds
  <2>15. Covers(lo, old)
    <3>1. r.to \in Nat
      BY DEF Task
    <3>2. CASE lo < r.to
      BY <2>2, <3>1, <3>2, BytesCover DEF Covers
    <3>3. CASE ~(lo < r.to)
      <4>1. r.to = 0 /\ lo = 0
        BY <2>1, <3>1, <3>3 DEF ChunkSize
      <4>2. old = <<>>
        BY <2>2, <4>1 DEF Bytes
      <4> QED BY <4>2 DEF Covers
    <3> QED BY <3>2, <3>3
  <2>16. c.seeded
    BY <1>1, <2>10 DEF Good, Whole, Seeds
  <2>17. Whole(e)
    BY <2>6, <2>11, <2>14, <2>15, <2>16 DEF Whole, UnderWay, Settled, Seeds
  <2>18. Turns(c, d)
    <3>1. Good(d)
      BY <1>1, <2>11, <2>13, <2>17, SameTextIsWhole DEF Good, Wired
    <3>2. Holds(c, d)
      BY <2>6, <2>11, <2>13 DEF Holds, Rebuilt
    <3> QED BY <2>11, <2>13, <3>1, <3>2 DEF Turns, SameText
  <2> QED BY <1>1, <2>10, <2>12, <2>18, ByTurn
<1> QED BY <1>3, <1>4, <1>5, <1>6, <1>7, <1>8

-----------------------------------------------------------------------------
\* Older chunks.

\* One chunk changes, and with it perhaps the text.
LEMMA OneChunk ==
  ASSUME NEW c \in View, Good(c), NEW f \in Fetches, NEW t \in Task,
         NEW d \in View, d.mounted = c.mounted, Wired(d), Holds(c, d),
         d.seed = c.seed, d.seeded = c.seeded,
         d.chunks = [c.chunks EXCEPT ![f] = t],
         t.pc # "idle" => Settled(c), t.pc = "writing" => t.left # <<>>,
         d.start > 0 => Settled(c),
         ~d.doubled =>
           /\ ~c.doubled /\ Covers(d.start, d.loaded)
           /\ f \in UnderWay(d) => Fits(d, f) /\ \A g \in UnderWay(c) : g = f
           /\ \A g \in UnderWay(c) \ {f} : d.start = c.start
  PROVE  Turns(c, d)
<1>1. /\ \A g \in Fetches : d.chunks[g] = IF g = f THEN t ELSE c.chunks[g]
      /\ Settled(d) <=> Settled(c)
      /\ Seeds(d) /\ Whole(c)
  <2>1. c.chunks \in [Fetches -> Task]
    BY DEF View
  <2> QED BY <2>1 DEF Settled, Seeds, Good, Whole
<1>2. UnderWay(d) \ {f} = UnderWay(c) \ {f} /\ UnderWay(d) \subseteq Fetches
  BY <1>1 DEF UnderWay
<1>3. \A g \in Fetches : /\ d.chunks[g].pc # "idle" => Settled(d)
                         /\ d.chunks[g].pc = "writing" => d.chunks[g].left # <<>>
  BY <1>1 DEF Whole
<1>4. ASSUME ~d.doubled, NEW g \in UnderWay(d)
      PROVE  Fits(d, g) /\ \A h \in UnderWay(d) : h = g
  <2>1. CASE g = f
    BY <1>2, <1>4, <2>1
  <2>2. CASE g # f
    <3>1. g \in UnderWay(c) /\ d.start = c.start /\ ~c.doubled
      BY <1>2, <1>4, <2>2
    <3>2. Fits(c, g) /\ \A h \in UnderWay(c) : h = g
      BY <1>1, <3>1 DEF Whole
    <3>3. Fits(d, g)
      BY <1>1, <1>2, <2>2, <1>4, <3>1, <3>2 DEF Fits
    <3> QED BY <1>2, <1>4, <2>2, <3>1, <3>2, <3>3
  <2> QED BY <2>1, <2>2
<1>5. Whole(d)
  BY <1>1, <1>3, <1>4 DEF Whole
<1> QED BY <1>5 DEF Turns, Good

LEMMA LoadTurns ==
  ASSUME ClientInv, ClientAssumption, NEW v \in Views, NEW f \in Fetches, LoadOlder(v, f)
  PROVE  Moves(v)
<1>1. PICK c \in View : c = views[v] /\ Good(c)
  BY DEF ClientInv, Shapes
<1>2. PICK from \in Nat : from = IF c.start > ChunkSize THEN c.start - ChunkSize ELSE 0
  BY DEF View, ChunkSize
<1>3. PICK t : t = [Idle EXCEPT !.pc = "fetching", !.to = c.start, !.from = from]
  OBVIOUS
<1>4. t \in Task /\ t.pc = "fetching" /\ t.to = c.start /\ t.from = from
  BY <1>3, IdleIsTask DEF View, Task
<1>5. PICK cs : cs = [c.chunks EXCEPT ![f] = t]
  OBVIOUS
<1>6. PICK twice : twice = (c.doubled \/ UnderWay(c) # {})
  OBVIOUS
<1>7. PICK d : d = [c EXCEPT !.moves = c.moves + 1, !.pending = f, !.chunkState = "loading",
                             !.doubled = twice, !.chunks = cs]
  OBVIOUS
<1>8. d = [Moved(c) EXCEPT !.pending = f, !.chunkState = "loading",
             !.doubled = @ \/ UnderWay(c) # {}, !.chunks[f] = t]
  BY <1>5, <1>6, <1>7 DEF Moved, View
<1>9. Becomes(v, d) /\ c.start > 0
  BY <1>1, <1>2, <1>3, <1>8 DEF LoadOlder
<1>10. cs \in [Fetches -> Task] /\ twice \in BOOLEAN /\ c.moves + 1 \in Nat
  BY <1>4, <1>5, <1>6 DEF View
<1>11. d \in View
  BY <1>7, <1>10 DEF View
<1>12. /\ d.mounted = c.mounted /\ d.wired = c.wired /\ d.interactive = c.interactive
       /\ d.paused = c.paused /\ d.term = c.term /\ d.seed = c.seed /\ d.seeded = c.seeded
       /\ d.start = c.start /\ d.loaded = c.loaded /\ d.chunks = cs
       /\ d.doubled = (c.doubled \/ UnderWay(c) # {})
  BY <1>6, <1>7 DEF View
<1>13. from < c.start /\ Settled(c)
  BY <1>1, <1>2, <1>9 DEF View, ChunkSize, Good, Whole
<1>14. d.chunks[f] = t
  BY <1>5, <1>12 DEF View
<1>15. Fits(d, f) /\ Wired(d) /\ Holds(c, d)
  BY <1>1, <1>4, <1>12, <1>13, <1>14 DEF Fits, Good, Wired, Holds
<1>16. ~d.doubled => ~c.doubled /\ Covers(d.start, d.loaded) /\ UnderWay(c) = {}
  BY <1>1, <1>12 DEF Good, Whole
<1>17. Turns(c, d)
  BY <1>1, <1>4, <1>5, <1>11, <1>12, <1>13, <1>15, <1>16, OneChunk
<1> QED BY <1>1, <1>9, <1>17, ByTurn

LEMMA ChunkTurns ==
  ASSUME ClientInv, ClientAssumption, NEW v \in Views, NEW f \in Fetches, ChunkStep(v, f)
  PROVE  Moves(v)
<1>1. PICK c \in View : c = views[v] /\ Good(c)
  BY DEF ClientInv, Shapes
<1>2. PICK r \in Task : r = c.chunks[f]
  BY DEF View
<1>3. /\ Wired(c) /\ Whole(c) /\ None \in Fetches \cup {None}
      /\ r.pc # "idle" => Settled(c)
      /\ f \in UnderWay(c) /\ ~c.doubled => Fits(c, f) /\ \A g \in UnderWay(c) : g = f
      /\ f \in UnderWay(c) <=> r.pc \in {"fetching", "writing"} /\ ~r.aborted
  BY <1>1, <1>2 DEF Good, Whole, UnderWay
<1>4. CASE ChunkArrives(v, f)
  <2>1. r.pc = "fetching" /\ ~r.aborted
    BY <1>1, <1>2, <1>4 DEF ChunkArrives
  <2>2. PICK old \in Text : old = ChunkBytes(r)
    BY BytesCover DEF ChunkBytes, Task
  <2>3. PICK new \in Text : new = old \o c.loaded
    <3>1. c.loaded \in Text
      BY DEF View
    <3>2. old \o c.loaded \in Text
      BY <3>1 DEF Text
    <3> QED BY <3>2
  <2>4. PICK tail \in Text : tail = c.tail
    BY DEF View
  <2>5. PICK left : left = <<new>> \o Rest(<<new, tail>>)
    OBVIOUS
  <2>6. left \in Seq(Text) /\ left # <<>> /\ Head(left) = new
    <3>1. PICK rest \in Seq(Text) : rest = Rest(<<new, tail>>)
      BY RestIsText
    <3>2. <<new>> \in Seq(Text) /\ Len(<<new>>) = 1 /\ <<new>>[1] = new
      OBVIOUS
    <3>3. left \in Seq(Text) /\ Len(left) = 1 + Len(rest) /\ left[1] = new
      BY <2>5, <3>1, <3>2
    <3> QED BY <3>1, <3>3
  <2>7. PICK t : t = [r EXCEPT !.pc = "writing", !.left = left]
    OBVIOUS
  <2>8. t \in Task /\ t.pc = "writing" /\ t.left = left /\ t.from = r.from /\ ~t.aborted
    BY <2>1, <2>6, <2>7 DEF Task
  <2>9. PICK cs : cs = [c.chunks EXCEPT ![f] = t]
    OBVIOUS
  <2>10. cs \in [Fetches -> Task] /\ cs[f] = t
    BY <2>8, <2>9 DEF View
  <2>11. PICK e : e = [c EXCEPT !.chunks = cs]
    OBVIOUS
  <2>12. e = [c EXCEPT !.chunks[f] = t]
    BY <2>9, <2>11 DEF View
  <2>13. Becomes(v, Begin(e, <<new, tail>>))
    <3>1. LET bufs == <<ChunkBytes(r) \o c.loaded, c.tail>>
          IN Becomes(v, Begin([c EXCEPT !.chunks[f] =
               [r EXCEPT !.pc = "writing", !.left = <<Head(bufs)>> \o Rest(bufs)]], bufs))
      BY <1>1, <1>2, <1>4 DEF ChunkArrives
    <3>2. <<ChunkBytes(r) \o c.loaded, c.tail>> = <<new, tail>> /\ Head(<<new, tail>>) = new
      BY <2>2, <2>3, <2>4
    <3> QED BY <2>5, <2>7, <2>12, <3>1, <3>2
  <2>14. e \in View
    BY <2>10, <2>11 DEF View
  <2>15. /\ e.mounted = c.mounted /\ e.wired = c.wired /\ e.interactive = c.interactive
         /\ e.paused = c.paused /\ e.seed = c.seed /\ e.seeded = c.seeded
         /\ e.start = c.start /\ e.loaded = c.loaded /\ e.chunks = cs
         /\ e.doubled = c.doubled
    BY <2>11 DEF View
  <2>16. PICK d : d = Begin(e, <<new, tail>>)
    OBVIOUS
  <2>17. /\ d \in View /\ SameText(e, d) /\ d.wired = e.wired /\ d.interactive = e.interactive
         /\ d.paused = e.paused /\ d.seed = e.seed
    BY <2>14, <2>16, Begun
  <2>18. d.seeded = e.seeded
    BY <2>16 DEF Begin, View
  <2>19. d.chunks = cs /\ d.start = c.start /\ d.loaded = c.loaded /\ d.doubled = c.doubled
    BY <2>15, <2>17 DEF SameText
  <2>20. ~c.doubled => Covers(r.from, new)
    <3> SUFFICES ASSUME ~c.doubled PROVE Covers(r.from, new)
      OBVIOUS
    <3>1. r.from < c.start /\ r.to = c.start /\ Covers(c.start, c.loaded)
      BY <1>2, <1>3, <2>1 DEF Fits, Whole
    <3>2. r.from \in Nat /\ c.start \in Nat /\ c.loaded \in Text
      BY DEF Task, View
    <3> QED BY <2>2, <2>3, <3>1, <3>2, FrontCovers DEF ChunkBytes
  <2>21. Wired(d) /\ d.mounted = c.mounted /\ Holds(c, d)
    BY <1>3, <2>8, <2>10, <2>15, <2>17, <2>19 DEF Wired, SameText, Holds, Rebuilt
  <2>22. ~d.doubled => Fits(d, f)
    BY <2>6, <2>8, <2>10, <2>19, <2>20 DEF Fits
  <2>23. /\ ~d.doubled => Covers(d.start, d.loaded) /\ \A g \in UnderWay(c) : g = f
         /\ d.start > 0 => Settled(c)
    BY <1>3, <2>1, <2>19 DEF Whole
  <2>24. d.seed = c.seed /\ d.seeded = c.seeded
    BY <2>15, <2>17, <2>18
  <2>25. Turns(c, d)
    BY <1>1, <1>3, <2>1, <2>6, <2>8, <2>9, <2>17, <2>19, <2>21, <2>22, <2>23, <2>24, OneChunk
  <2> QED BY <1>1, <2>13, <2>16, <2>25, ByTurn
<1>5. CASE ChunkFails(v, f)
  <2>1. r.pc = "fetching"
    BY <1>1, <1>2, <1>5 DEF ChunkFails
  <2>2. PICK cs : cs = [c.chunks EXCEPT ![f] = Idle]
    OBVIOUS
  <2>3. PICK st \in {"idle", "error"} : st = IF r.aborted THEN "idle" ELSE "error"
    OBVIOUS
  <2>4. PICK d : d = [c EXCEPT !.chunks = cs, !.pending = None, !.chunkState = st]
    OBVIOUS
  <2>5. d = [c EXCEPT !.chunks[f] = Idle, !.pending = None, !.chunkState = st]
    BY <2>2, <2>4 DEF View
  <2>6. Becomes(v, d)
    BY <1>1, <1>2, <1>5, <2>3, <2>5 DEF ChunkFails
  <2>7. cs \in [Fetches -> Task] /\ cs[f] = Idle
    BY <2>2, IdleIsTask DEF View
  <2>8. d \in View
    BY <2>3, <2>4, <2>7 DEF View
  <2>9. /\ d.mounted = c.mounted /\ d.wired = c.wired /\ d.interactive = c.interactive
        /\ d.paused = c.paused /\ d.term = c.term /\ d.seed = c.seed /\ d.seeded = c.seeded
        /\ d.start = c.start /\ d.loaded = c.loaded /\ d.chunks = cs /\ d.doubled = c.doubled
    BY <2>4 DEF View
  <2>10. Wired(d) /\ Holds(c, d) /\ f \notin UnderWay(d)
    BY <1>3, <2>7, <2>9, IdleIsTask DEF Wired, Holds, UnderWay
  <2>11. /\ ~d.doubled => Covers(d.start, d.loaded)
         /\ d.start > 0 => Settled(c)
    BY <1>3, <2>9 DEF Whole
  <2>12. Turns(c, d)
    BY <1>1, <2>2, <2>8, <2>9, <2>10, <2>11, IdleIsTask, OneChunk
  <2> QED BY <1>1, <2>6, <2>12, ByTurn
<1>6. CASE ChunkWrites(v, f)
  <2>1. r.pc = "writing" /\ r.left \in Seq(Text) /\ r.left # <<>> /\ Rebuilt(c)
    <3>1. r.pc = "writing"
      BY <1>1, <1>2, <1>6 DEF ChunkWrites
    <3> QED BY <1>2, <1>3, <3>1 DEF Whole, Task, Rebuilt
  <2>2. PICK new \in Text : new = Head(r.left)
    BY <2>1
  <2>3. CASE Len(r.left) > 1
    <3>1. PICK left : left = <<new>> \o Tail(Tail(r.left))
      OBVIOUS
    <3>2. left \in Seq(Text) /\ left # <<>> /\ Head(left) = new
      <4>1. Tail(r.left) \in Seq(Text) /\ Len(Tail(r.left)) > 0
        BY <2>1, <2>3
      <4>2. PICK rest \in Seq(Text) : rest = Tail(Tail(r.left))
        <5>1. PICK others \in Seq(Text) : others = Tail(r.left) /\ Len(others) > 0
          BY <4>1
        <5>2. others # <<>> /\ Tail(others) \in Seq(Text)
          <6>1. Len(others) # 0
            BY <5>1
          <6>2. others # <<>>
            BY <6>1, EmptySeq, Zenon
          <6> QED BY <6>2
        <5> QED BY <5>1, <5>2
      <4>3. <<new>> \in Seq(Text) /\ Len(<<new>>) = 1 /\ <<new>>[1] = new
        OBVIOUS
      <4>4. left \in Seq(Text) /\ Len(left) = 1 + Len(rest) /\ left[1] = new
        BY <3>1, <4>2, <4>3
      <4> QED BY <4>2, <4>4
    <3>3. PICK t : t = [r EXCEPT !.left = left]
      OBVIOUS
    <3>4. t \in Task /\ t.pc = "writing" /\ t.left = left /\ t.from = r.from
          /\ t.aborted = r.aborted
      BY <2>1, <3>2, <3>3 DEF Task
    <3>5. PICK cs : cs = [c.chunks EXCEPT ![f] = t]
      OBVIOUS
    <3>6. PICK term \in Text : term = c.term \o r.left[2]
      <4>1. r.left[2] \in Text
        <5>1. 2 \in 1..Len(r.left)
          BY <2>1, <2>3
        <5> QED BY <2>1, <5>1
      <4>2. c.term \in Text
        BY DEF View
      <4>3. c.term \o r.left[2] \in Text
        BY <4>1, <4>2 DEF Text
      <4> QED BY <4>3
    <3>7. PICK d : d = [c EXCEPT !.term = term, !.chunks = cs]
      OBVIOUS
    <3>8. d = [c EXCEPT !.term = @ \o r.left[2], !.chunks[f].left = left]
      BY <1>2, <3>3, <3>5, <3>6, <3>7 DEF View
    <3>9. Becomes(v, d)
      BY <1>1, <1>2, <1>6, <2>2, <2>3, <3>1, <3>8 DEF ChunkWrites
    <3>10. cs \in [Fetches -> Task] /\ cs[f] = t
      BY <3>4, <3>5 DEF View
    <3>11. d \in View
      BY <3>6, <3>7, <3>10 DEF View
    <3>12. /\ d.mounted = c.mounted /\ d.wired = c.wired /\ d.interactive = c.interactive
           /\ d.paused = c.paused /\ d.seed = c.seed /\ d.seeded = c.seeded
           /\ d.start = c.start /\ d.loaded = c.loaded /\ d.chunks = cs /\ d.doubled = c.doubled
      BY <3>7 DEF View
    <3>13. Wired(d) /\ Holds(c, d)
      BY <1>3, <2>1, <3>12 DEF Wired, Holds
    <3>14. ~d.doubled /\ f \in UnderWay(d) => Fits(d, f) /\ \A g \in UnderWay(c) : g = f
      <4> SUFFICES ASSUME ~d.doubled, f \in UnderWay(d)
                   PROVE  Fits(d, f) /\ \A g \in UnderWay(c) : g = f
        OBVIOUS
      <4>1. f \in UnderWay(c) /\ ~c.doubled
        BY <1>3, <2>1, <3>4, <3>10, <3>12 DEF UnderWay
      <4>2. Covers(r.from, new)
        BY <1>2, <1>3, <2>1, <2>2, <4>1 DEF Fits
      <4> QED BY <1>3, <3>2, <3>4, <3>10, <3>12, <4>1, <4>2 DEF Fits
    <3>15. /\ ~d.doubled => Covers(d.start, d.loaded)
           /\ d.start > 0 => Settled(c)
      BY <1>3, <3>12 DEF Whole
    <3>16. Turns(c, d)
      BY <1>1, <1>3, <2>1, <3>2, <3>4, <3>5, <3>11, <3>12, <3>13, <3>14, <3>15, OneChunk
    <3> QED BY <1>1, <3>9, <3>16, ByTurn
  <2>4. CASE ~(Len(r.left) > 1)
    <3>1. PICK t : t = [r EXCEPT !.pc = "frame"]
      OBVIOUS
    <3>2. t \in Task /\ t.pc = "frame"
      BY <3>1 DEF Task
    <3>3. PICK cs : cs = [c.chunks EXCEPT ![f] = t]
      OBVIOUS
    <3>4. PICK old \in Text : old = IF r.aborted THEN c.loaded ELSE new
      BY DEF View
    <3>5. PICK from \in Nat : from = IF r.aborted THEN c.start ELSE r.from
      BY DEF View, Task
    <3>6. PICK d : d = [c EXCEPT !.chunks = cs, !.loaded = old, !.start = from]
      OBVIOUS
    <3>7. Becomes(v, d)
      <4>1. CASE r.aborted
        <5>1. d = [c EXCEPT !.chunks[f].pc = "frame"]
          BY <1>2, <3>1, <3>3, <3>4, <3>5, <3>6, <4>1 DEF View
        <5> QED BY <1>1, <1>2, <1>6, <2>4, <4>1, <5>1 DEF ChunkWrites
      <4>2. CASE ~r.aborted
        <5>1. d = [c EXCEPT !.chunks[f].pc = "frame", !.loaded = new, !.start = r.from]
          BY <1>2, <3>1, <3>3, <3>4, <3>5, <3>6, <4>2 DEF View
        <5> QED BY <1>1, <1>2, <1>6, <2>2, <2>4, <4>2, <5>1 DEF ChunkWrites
      <4> QED BY <4>1, <4>2
    <3>8. cs \in [Fetches -> Task] /\ cs[f] = t
      BY <3>2, <3>3 DEF View
    <3>9. d \in View
      BY <3>6, <3>8 DEF View
    <3>10. /\ d.mounted = c.mounted /\ d.wired = c.wired /\ d.interactive = c.interactive
           /\ d.paused = c.paused /\ d.term = c.term /\ d.seed = c.seed
           /\ d.seeded = c.seeded /\ d.start = from /\ d.loaded = old /\ d.chunks = cs
           /\ d.doubled = c.doubled
      BY <3>6 DEF View
    <3>11. Wired(d) /\ Holds(c, d) /\ f \notin UnderWay(d)
      BY <1>3, <3>2, <3>8, <3>10 DEF Wired, Holds, UnderWay
    <3>12. ~d.doubled => /\ Covers(from, old)
                         /\ \A g \in UnderWay(c) \ {f} : from = c.start
      <4>1. CASE r.aborted
        BY <1>3, <3>4, <3>5, <3>10, <4>1 DEF Whole
      <4>2. CASE ~r.aborted
        BY <1>2, <1>3, <2>1, <2>2, <3>4, <3>5, <3>10, <4>2 DEF Fits
      <4> QED BY <4>1, <4>2
    <3>13. Settled(c)
      BY <1>3, <2>1
    <3>14. Turns(c, d)
      BY <1>1, <3>2, <3>3, <3>9, <3>10, <3>11, <3>12, <3>13, OneChunk
    <3> QED BY <1>1, <3>7, <3>14, ByTurn
  <2> QED BY <2>3, <2>4
<1>7. CASE ChunkDone(v, f)
  <2>1. r.pc = "frame"
    BY <1>1, <1>2, <1>7 DEF ChunkDone
  <2>2. PICK cs : cs = [c.chunks EXCEPT ![f] = Idle]
    OBVIOUS
  <2>4. PICK d : d = [c EXCEPT !.rebuilding = FALSE, !.chunks = cs, !.pending = None,
                               !.chunkState = "idle"]
    OBVIOUS
  <2>5. d = [Shown(c) EXCEPT !.chunks[f] = Idle, !.pending = None, !.chunkState = "idle"]
    BY <2>2, <2>4 DEF Shown, View
  <2>6. Becomes(v, d)
    BY <1>1, <1>7, <2>5 DEF ChunkDone
  <2>7. cs \in [Fetches -> Task] /\ cs[f] = Idle
    BY <2>2, IdleIsTask DEF View
  <2>8. d \in View
    BY <2>4, <2>7 DEF View
  <2>9. /\ d.mounted = c.mounted /\ d.wired = c.wired /\ d.interactive = c.interactive
        /\ d.paused = c.paused /\ d.term = c.term /\ d.seed = c.seed /\ d.seeded = c.seeded
        /\ d.start = c.start /\ d.loaded = c.loaded /\ d.chunks = cs /\ d.doubled = c.doubled
    BY <2>4 DEF View
  <2>10. Wired(d) /\ Holds(c, d) /\ f \notin UnderWay(d)
    BY <1>3, <2>7, <2>9, IdleIsTask DEF Wired, Holds, UnderWay
  <2>11. /\ ~d.doubled => Covers(d.start, d.loaded)
         /\ d.start > 0 => Settled(c)
    BY <1>3, <2>9 DEF Whole
  <2>12. Turns(c, d)
    BY <1>1, <2>2, <2>8, <2>9, <2>10, <2>11, IdleIsTask, OneChunk
  <2> QED BY <1>1, <2>6, <2>12, ByTurn
<1> QED BY <1>4, <1>5, <1>6, <1>7 DEF ChunkStep

-----------------------------------------------------------------------------
\* The inductive invariant.

LEMMA FreshIsGood ==
  /\ Fresh \in View /\ Good(Fresh) /\ Fresh.mounted /\ Gone \in View /\ Good(Gone)
  /\ ~Gone.mounted
<1>1. PICK empty \in Text, zero \in Nat, cs \in [Fetches -> Task] :
        empty = <<>> /\ zero = 0 /\ cs = [f \in Fetches |-> Idle]
  <2>1. <<>> \in Text /\ 0 \in Nat /\ [f \in Fetches |-> Idle] \in [Fetches -> Task]
    BY IdleIsTask DEF Text
  <2> QED BY <2>1
<1>2. Fresh \in View
  <2>1. Fresh = [mounted |-> TRUE, doubled |-> FALSE, moves |-> zero, seeded |-> FALSE,
                 interactive |-> FALSE, wired |-> FALSE, paused |-> FALSE,
                 rebuilding |-> FALSE, loaded |-> empty, start |-> zero, tail |-> empty,
                 offset |-> zero, term |-> empty, seed |-> Idle, resume |-> Idle,
                 sink |-> "none", chunks |-> cs, pending |-> None, chunkState |-> "idle"]
    BY <1>1 DEF Fresh
  <2> QED BY <2>1, IdleIsTask DEF View
<1>3. /\ Fresh.mounted /\ ~Fresh.wired /\ ~Fresh.interactive /\ Fresh.seed = Idle
      /\ Fresh.start = 0 /\ Fresh.loaded = <<>> /\ Fresh.chunks = [f \in Fetches |-> Idle]
  BY DEF Fresh
<1>4. Whole(Fresh)
  BY <1>3, IdleIsTask DEF Whole, Seeds, UnderWay, Covers
<1>5. Gone \in View /\ ~Gone.mounted /\ SameText([Fresh EXCEPT !.mounted = FALSE], Gone)
      /\ Gone.wired = Fresh.wired /\ Gone.interactive = Fresh.interactive
  BY <1>2 DEF Gone, View, SameText
<1>6. Whole(Gone)
  <2>1. /\ Gone.seed = Idle /\ Gone.start = 0 /\ Gone.loaded = <<>>
        /\ Gone.chunks = [f \in Fetches |-> Idle]
    BY <1>2, <1>3 DEF Gone, View
  <2> QED BY <2>1, IdleIsTask DEF Whole, Seeds, UnderWay, Covers
<1> QED BY <1>2, <1>3, <1>4, <1>5, <1>6 DEF Good, Wired

LEMMA ClientInit == Init => ClientInv
<1> SUFFICES ASSUME Init PROVE ClientInv
  OBVIOUS
<1>1. /\ views \in [Views -> View] /\ Mounted = {} /\ \A v \in Views : Good(views[v])
  BY FreshIsGood DEF Init, Mounted
<1>2. Cardinality({}) = 0
  BY FS_EmptySet
<1>3. log \in Nat
  BY ClientAssumption DEF Init
<1> QED BY <1>1, <1>2, <1>3 DEF Init, ClientInv, Shapes, Entry, HeldInv

\* The registry's part of what does not mount or unmount.
LEMMA MountedStays ==
  ASSUME views' \in [Views -> View], \A v \in Views : views'[v].mounted = views[v].mounted
  PROVE  Mounted' = Mounted
BY DEF Mounted

LEMMA MovesKeep ==
  ASSUME ClientInv, NEW v \in Views, Moves(v)
  PROVE  ClientInv'
<1>1. PICK d \in View : /\ Turns(views[v], d) /\ views' = [views EXCEPT ![v] = d]
                        /\ UNCHANGED <<log, wire, socket, entry>>
  BY DEF Moves
<1>2. /\ views' \in [Views -> View]
      /\ \A u \in Views : views'[u] = IF u = v THEN d ELSE views[u]
  BY <1>1 DEF ClientInv, Shapes
<1>3. Mounted' = Mounted
  BY <1>1, <1>2, MountedStays DEF Turns
<1> QED BY <1>1, <1>2, <1>3 DEF ClientInv, Shapes, HeldInv, Turns

\* The socket's steps change every mounted view at once, or none.
LEMMA AllTurn ==
  ASSUME ClientInv, BytesArrive \/ SnapshotArrives
  PROVE  /\ ClientInv'
         /\ \A v \in Views : views[v].mounted => Turns(views[v], views'[v])
<1>1. \A v \in Views : views[v] \in View /\ Good(views[v])
  BY DEF ClientInv, Shapes
<1>2. /\ views' \in [Views -> View]
      /\ \A v \in Views : \/ views[v].mounted /\ Turns(views[v], views'[v])
                          \/ ~views[v].mounted /\ views'[v] = views[v]
  <2>1. CASE BytesArrive
    <3>1. wire + 1 \in Nat
      BY DEF ClientInv, Shapes
    <3>2. \A v \in Views : Turns(views[v], OnBytes(views[v], wire + 1))
      BY <1>1, <3>1, BytesTurn
    <3>3. views' = [v \in Views |-> IF views[v].mounted THEN OnBytes(views[v], wire + 1)
                                                         ELSE views[v]]
      BY <2>1 DEF BytesArrive
    <3> QED BY <1>1, <3>2, <3>3 DEF Turns
  <2>2. CASE SnapshotArrives
    <3>1. \A v \in Views : Turns(views[v], OnSnapshot(views[v]))
      BY <1>1, SnapshotTurn
    <3>2. views' = [v \in Views |-> IF views[v].mounted THEN OnSnapshot(views[v]) ELSE views[v]]
      BY <2>2 DEF SnapshotArrives
    <3> QED BY <1>1, <3>1, <3>2 DEF Turns
  <2> QED BY <2>1, <2>2
<1>3. Mounted' = Mounted
  BY <1>2, MountedStays DEF Turns
<1>4. /\ wire' \in Nat /\ log' = log /\ socket' \in {socket, "live"}
      /\ entry' \in Entry /\ entry'.refs = entry.refs /\ entry'.held = entry.held
      /\ entry'.closing = entry.closing
  <2>1. log \in Nat /\ wire \in Nat /\ wire + 1 \in Nat /\ entry \in Entry
    BY DEF ClientInv, Shapes
  <2>2. CASE BytesArrive
    BY <2>1, <2>2 DEF BytesArrive
  <2>3. CASE SnapshotArrives
    <3>1. entry' = [entry EXCEPT !.cached = TRUE] /\ socket' = "live" /\ wire' = wire /\ log' = log
      BY <2>3 DEF SnapshotArrives
    <3> QED BY <2>1, <3>1 DEF Entry
  <2> QED BY <2>2, <2>3
<1>5. HeldInv'
  BY <1>3, <1>4 DEF ClientInv, HeldInv
<1>6. \A v \in Views : Good(views'[v])
  BY <1>1, <1>2 DEF Turns
<1> QED BY <1>2, <1>4, <1>5, <1>6 DEF ClientInv, Shapes

\* The registry: mounts and unmounts, the timer, the socket.
LEMMA RegistryKeeps ==
  ASSUME ClientInv,
         \/ \E v \in Views : Mount(v) \/ Unmount(v)
         \/ UploadSent \/ TtlFires \/ SocketOpens \/ SocketDrops \/ Reconnects \/ RunWrites
  PROVE  ClientInv'
<1>1. /\ views \in [Views -> View] /\ entry \in Entry /\ log \in Nat /\ wire \in Nat
      /\ \A v \in Views : Good(views[v])
  BY DEF ClientInv, Shapes
<1>2. IsFiniteSet(Mounted) /\ Cardinality(Mounted) \in Nat
  <2>1. Mounted \subseteq Views
    BY DEF Mounted
  <2> QED BY <2>1, FS_Subset, FS_CardinalityType, ClientAssumption
<1>3. /\ entry.refs = Cardinality(Mounted) /\ (Mounted # {} => entry.held /\ ~entry.closing)
      /\ entry.held => socket # "none"
  BY DEF ClientInv, HeldInv
<1>4. ASSUME NEW v \in Views, Mount(v) PROVE ClientInv'
  <2>1. PICK d \in View : d = Constructed /\ Good(d) /\ d.mounted
    BY FreshIsGood, PaintedTurns DEF Constructed
  <2>2. /\ views' = [views EXCEPT ![v] = d] /\ ~views[v].mounted
        /\ entry' = [entry EXCEPT !.held = TRUE, !.refs = @ + 1, !.closing = FALSE]
        /\ socket' = IF entry.held THEN socket ELSE "connecting"
        /\ UNCHANGED <<log, wire>>
    BY <1>4, <2>1 DEF Mount, Acquire
  <2>3. Mounted' = Mounted \cup {v} /\ v \notin Mounted
    BY <1>1, <2>1, <2>2 DEF Mounted
  <2>4. Cardinality(Mounted') = Cardinality(Mounted) + 1
    BY <1>2, <2>3, FS_AddElement
  <2>5. /\ entry' \in Entry /\ entry'.refs = entry.refs + 1 /\ entry'.held /\ ~entry'.closing
    <3>1. entry.refs + 1 \in Nat
      BY <1>1 DEF Entry
    <3> QED BY <1>1, <2>2, <3>1 DEF Entry
  <2>6. HeldInv'
    BY <1>3, <2>2, <2>4, <2>5 DEF HeldInv
  <2>7. Shapes' /\ \A u \in Views : Good(views'[u])
    BY <1>1, <2>1, <2>2, <2>5 DEF Shapes, ClientInv
  <2> QED BY <2>6, <2>7 DEF ClientInv
<1>5. ASSUME NEW v \in Views, Unmount(v) PROVE ClientInv'
  <2>1. /\ views' = [views EXCEPT ![v] = Gone] /\ views[v].mounted
        /\ entry' = [entry EXCEPT !.refs = @ - 1, !.closing = @ \/ entry.refs = 1]
        /\ UNCHANGED <<log, wire, socket>>
    BY <1>5 DEF Unmount, Release
  <2>2. Mounted' = Mounted \ {v} /\ v \in Mounted
    BY <1>1, <2>1, FreshIsGood DEF Mounted
  <2>3. Cardinality(Mounted') = Cardinality(Mounted) - 1
    BY <1>2, <2>2, FS_RemoveElement
  <2>4. Cardinality(Mounted) # 0 /\ (Cardinality(Mounted') = 0 => Mounted' = {})
    BY <1>2, <2>2, FS_EmptySet, FS_Subset
  <2>5. entry.refs - 1 \in Nat
    BY <1>2, <1>3, <2>4
  <2>6. /\ entry' \in Entry /\ entry'.refs = entry.refs - 1 /\ entry'.held = entry.held
        /\ entry'.closing <=> entry.closing \/ entry.refs = 1
    BY <1>1, <2>1, <2>5 DEF Entry
  <2>7. Mounted' # {} => entry.held /\ ~entry.closing /\ entry.refs # 1
    BY <1>2, <1>3, <2>2, <2>3, <2>4
  <2>8. HeldInv'
    BY <1>3, <2>1, <2>3, <2>6, <2>7 DEF HeldInv
  <2>9. Shapes' /\ \A u \in Views : Good(views'[u])
    BY <1>1, <2>1, <2>6, FreshIsGood DEF Shapes, ClientInv
  <2> QED BY <2>8, <2>9 DEF ClientInv
<1>6. CASE UploadSent
  <2>1. /\ entry' = Release(Acquire(entry)) /\ UNCHANGED <<log, wire, views>>
        /\ socket' = IF entry.held THEN socket ELSE "connecting"
    BY <1>6 DEF UploadSent
  <2>2. PICK e \in Entry : e = Acquire(entry) /\ e.refs = entry.refs + 1 /\ e.held /\ ~e.closing
    <3>1. PICK n \in Nat : n = entry.refs + 1
      BY <1>1 DEF Entry
    <3>2. PICK e : e = [entry EXCEPT !.held = TRUE, !.refs = n, !.closing = FALSE]
      OBVIOUS
    <3>3. e = Acquire(entry)
      BY <3>1, <3>2 DEF Acquire
    <3>4. e \in Entry /\ e.refs = n /\ e.held /\ ~e.closing
      BY <1>1, <3>2 DEF Entry
    <3> QED BY <3>1, <3>3, <3>4
  <2>3. entry' = [e EXCEPT !.refs = e.refs - 1, !.closing = e.closing \/ e.refs = 1]
    BY <2>1, <2>2 DEF Release
  <2>4. e.refs - 1 = entry.refs /\ (e.refs = 1 <=> entry.refs = 0) /\ entry.refs \in Nat
    BY <1>1, <2>2 DEF Entry
  <2>5. /\ entry' \in Entry /\ entry'.refs = entry.refs /\ entry'.held
        /\ entry'.closing <=> entry.refs = 0
    BY <2>2, <2>3, <2>4 DEF Entry
  <2>6. Mounted' = Mounted /\ (Mounted # {} => Cardinality(Mounted) # 0)
    BY <1>2, <2>1, FS_EmptySet DEF Mounted
  <2>7. HeldInv'
    BY <1>3, <2>1, <2>5, <2>6 DEF HeldInv
  <2> QED BY <1>1, <2>1, <2>5, <2>7 DEF ClientInv, Shapes
<1>7. CASE TtlFires
  <2>1. /\ entry.closing /\ socket' = "none" /\ UNCHANGED <<log, wire, views>>
        /\ entry' = [held |-> FALSE, refs |-> 0, closing |-> FALSE, cached |-> FALSE]
    BY <1>7 DEF TtlFires
  <2>2. Mounted = {} /\ Mounted' = {}
    BY <1>3, <2>1 DEF Mounted
  <2>3. HeldInv'
    BY <2>1, <2>2, FS_EmptySet DEF HeldInv
  <2> QED BY <1>1, <2>1, <2>3 DEF ClientInv, Shapes, Entry
<1>8. CASE SocketOpens \/ SocketDrops \/ Reconnects \/ RunWrites
  <2>1. /\ UNCHANGED <<entry, views>> /\ log' \in Nat /\ wire' \in Nat
        /\ socket' \in {socket, "open", "waiting", "connecting"}
    BY <1>1, <1>8 DEF SocketOpens, SocketDrops, Reconnects, RunWrites
  <2>2. Mounted' = Mounted
    BY <2>1 DEF Mounted
  <2>3. HeldInv'
    BY <1>3, <2>1, <2>2 DEF HeldInv
  <2> QED BY <1>1, <2>1, <2>3 DEF ClientInv, Shapes
<1> QED BY <1>4, <1>5, <1>6, <1>7, <1>8

\* The steps of the user, the controller and the chunks move one view.
LEMMA ViewSteps ==
  ASSUME ClientInv, NEW v \in Views,
         \/ SetInteractive(v) \/ Pause(v) \/ Resume(v) \/ ControllerStep(v)
         \/ \E f \in Fetches : LoadOlder(v, f) \/ ChunkStep(v, f)
  PROVE  Moves(v)
BY UserTurns, ResumeMoves, ResumeTurns, SeedTurns, LoadTurns, ChunkTurns, ClientAssumption
   DEF ControllerStep

LEMMA ClientStep ==
  ASSUME ClientInv, [Next]_vars
  PROVE  ClientInv'
<1>1. CASE UNCHANGED vars
  BY <1>1 DEF vars, ClientInv, Shapes, HeldInv, Mounted
<1>2. CASE Next
  BY <1>2, ViewSteps, MovesKeep, AllTurn, RegistryKeeps DEF Next
<1> QED BY <1>1, <1>2

LEMMA ClientInvariant == Spec => []ClientInv
BY ClientInit, ClientStep, PTL DEF Spec

-----------------------------------------------------------------------------
\* As long as a view is mounted its socket is held or on its way back, and its
\* input is wired exactly while it is interactive and not paused
\* (shellRegistry.ts acquireShell and releaseShell, terminalController.ts
\* applyInteractive).
THEOREM ViewsAreWired == Spec => []ViewIsWired
<1>1. ClientInv => ViewIsWired
  BY DEF ClientInv, HeldInv, Good, Wired, ViewIsWired, ShellHeld, InputFollowsPause, Mounted
<1> QED BY <1>1, ClientInvariant, PTL

\* The loaded history is whole from its first byte to its last, for any chunks
\* that are aborted, fail, are tried again and come late (terminalController.ts
\* seedInitialHistory and loadOlderChunk).
THEOREM HistoryIsWhole == Spec => []NoHole
<1>1. ClientInv => NoHole
  BY DEF ClientInv, Good, Whole, Covers, NoHole, Mounted
<1> QED BY <1>1, ClientInvariant, PTL

\* A paused view shows what it showed, unless a rebuild of its own is under way
\* (terminalController.ts onBytes and onSnapshot).
THEOREM PausedViewsHold == Spec => PausedViewHolds
<1> DEFINE Held(v) == /\ views[v].mounted /\ views[v].paused
                      /\ views'[v].mounted /\ views'[v].paused
                      /\ views'[v].term # views[v].term
                      => Rebuilds(v) \cup Rebuilds(v)' # {}
<1>1. ASSUME ClientInv, ClientInv', NEW v \in Views, Rebuilt(views[v]) \/ Rebuilt(views'[v])
      PROVE  Rebuilds(v) \cup Rebuilds(v)' # {}
  <2>1. views[v].chunks \in [Fetches -> Task] /\ views'[v].chunks \in [Fetches -> Task]
    BY <1>1 DEF ClientInv, Shapes, View
  <2>2. /\ \A f \in Fetches : views[v].chunks[f] \in Tasks(v)
        /\ \A f \in Fetches : views'[v].chunks[f] \in Tasks(v)'
    BY <2>1 DEF Tasks, Range
  <2>3. /\ views[v].seed \in Tasks(v) /\ views[v].resume \in Tasks(v)
        /\ views'[v].seed \in Tasks(v)' /\ views'[v].resume \in Tasks(v)'
    BY DEF Tasks
  <2> QED BY <1>1, <2>2, <2>3 DEF Rebuilt, Rebuilds
<1>2. ASSUME ClientInv, NEW v \in Views, Next
      PROVE  \/ Held(v)
             \/ Rebuilt(views[v]) \/ Rebuilt(views'[v])
  <2>1. \A u \in Views : views[u] \in View
    BY <1>2 DEF ClientInv, Shapes
  <2>2. ASSUME NEW u \in Views, Moves(u)
        PROVE  Holds(views[v], views'[v])
    BY <2>2, <1>2 DEF Moves, Turns, Holds, ClientInv, Shapes
  <2>3. CASE BytesArrive \/ SnapshotArrives
    BY <1>2, <2>3, AllTurn DEF Turns, Holds
  <2>4. CASE \E u \in Views : Mount(u) \/ Unmount(u)
    BY <1>2, <2>4, FreshIsGood DEF Mount, Unmount, ClientInv, Shapes
  <2>5. CASE UploadSent \/ TtlFires \/ SocketOpens \/ SocketDrops \/ Reconnects \/ RunWrites
    BY <2>5 DEF UploadSent, TtlFires, SocketOpens, SocketDrops, Reconnects, RunWrites
  <2> QED BY <1>2, <2>2, <2>3, <2>4, <2>5, ViewSteps DEF Next, Holds
<1>3. ClientInv /\ ClientInv' /\ [Next]_vars => [\A v \in Views : Held(v)]_vars
  BY <1>1, <1>2
<1> QED BY <1>3, ClientInvariant, PTL DEF Spec, PausedViewHolds

================================================================================
