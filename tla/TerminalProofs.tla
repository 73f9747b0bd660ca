---------------------------- MODULE TerminalProofs -----------------------------
(***************************************************************************)
(* What the server sends to terminals, for any broadcasters, screens,      *)
(* sockets and lives, any length of the log and any restarts.              *)
(*                                                                         *)
(* ListensToRun and HeardIsShown need that a life that speaks holds the    *)
(* objects of the registry, and that a socket listens to the registered    *)
(* channel unless its own has ended: both are lost when a call reaches the *)
(* run while another life is there (Overlap).  HeardIsShown needs besides  *)
(* that whatever a terminal has heard is on the registered screen, so that *)
(* a snapshot cannot take it back: lost when the failure of a rebuild      *)
(* throws away a screen in use (Faults).                                   *)
(***************************************************************************)
EXTENDS MCTerminal, SequenceTheorems, TLAPS

Socket ==
  [pc : SocketPC, first : BOOLEAN, ch : Channels \cup {None}, scr : Screens \cup {None},
   mark : Nat, pending : Seq(Chunks), view : Seq(Chunks), heard : SUBSET Chunks]

Rebuild ==
  [pc : {"none", "stat", "reading"}, size : 0..MaxChunks, scr : Screens \cup {None},
   pos : 0..MaxChunks]

\* The objects that busy lives, rebuilds and snapshots hold.
WritersHold ==
  \A w \in Writers : Busy(w) => writers[w].ch \in Channels /\ writers[w].scr \in Screens
RebuildHolds == rebuild.pc # "none" => rebuild.scr \in Screens
SocketsHold ==
  \A s \in Sockets :
    sockets[s].pc \in {"resizing", "draining"} => sockets[s].scr \in Screens

Held == WritersHold /\ RebuildHolds /\ SocketsHold

TypeInv == TypeOK /\ Held

\* One life at a time, which holds what the registry holds.
WriterInv ==
  /\ \A v, w \in Writers : Busy(v) /\ Busy(w) => v = w
  /\ \A w \in Writers : Busy(w) => writers[w].ch = channel

\* A socket listens to the registered channel, or to one that has ended.
Listens(r, c, gone) ==
  IF r.pc = "closed" THEN r = Closed ELSE r.ch \in Channels /\ (r.ch = c \/ r.ch \in gone)

SocketsListen == \A s \in Sockets : Listens(sockets[s], channel, ended)

ListenInv == TypeInv /\ WriterInv /\ SocketsListen

\* The first chunks of a screen.
Upto(d, n) == {d[i] : i \in 1..n}

\* What a socket has heard is on the registered screen; and on what it shows or
\* buffers, or on what its next snapshot will hold.
Sound(r, x, d, gone) ==
  /\ r.pc # "stuck"
  /\ r.ch \in gone => r.heard = {} /\ r.first /\ r.pc # "live"
  /\ r.heard # {} => x \in Screens /\ r.heard \subseteq ToSet(d[x])
  /\ r.heard \subseteq ToSet(r.view) \cup ToSet(r.pending)
  /\ r.pc \in {"hello", "rebuilding"} => r.heard \subseteq ToSet(r.pending)
  /\ r.pc = "live" => r.pending = <<>>
  /\ r.pc = "resizing" => r.heard \subseteq ToSet(d[r.scr]) \cup ToSet(r.pending)
  /\ r.pc = "draining" => /\ r.mark <= Len(d[r.scr])
                          /\ r.heard \subseteq Upto(d[r.scr], r.mark) \cup ToSet(r.pending)

WritersDraw == \A w \in Writers : Busy(w) => writers[w].scr = screen
SocketsSound == \A s \in Sockets : Sound(sockets[s], screen, drawn, ended)

HeardInv == ListenInv /\ WritersDraw /\ SocketsSound

-----------------------------------------------------------------------------

\* Sequences as sets of chunks.
LEMMA AppendedSet ==
  ASSUME NEW S, NEW s \in Seq(S), NEW e \in S
  PROVE  Append(s, e) \in Seq(S) /\ ToSet(Append(s, e)) = ToSet(s) \cup {e}
<1>1. Append(s, e) \in Seq(S) /\ DOMAIN s = 1..Len(s) /\ Len(s) \in Nat
  OBVIOUS
<1>2. DOMAIN Append(s, e) = 1..(Len(s) + 1)
  OBVIOUS
<1>3. Append(s, e)[Len(s) + 1] = e /\ \A i \in 1..Len(s) : Append(s, e)[i] = s[i]
  OBVIOUS
<1>4. \A i \in 1..(Len(s) + 1) : i \in 1..Len(s) \/ i = Len(s) + 1
  BY <1>1
<1>5. Len(s) + 1 \in 1..(Len(s) + 1) /\ 1..Len(s) \subseteq 1..(Len(s) + 1)
  BY <1>1
<1>6. ToSet(Append(s, e)) \subseteq ToSet(s) \cup {e}
  BY <1>1, <1>2, <1>3, <1>4 DEF ToSet
<1>7. ToSet(s) \cup {e} \subseteq ToSet(Append(s, e))
  BY <1>1, <1>2, <1>3, <1>5 DEF ToSet
<1> QED  BY <1>1, <1>6, <1>7

LEMMA JoinedSet ==
  ASSUME NEW S, NEW s \in Seq(S), NEW t \in Seq(S)
  PROVE  s \o t \in Seq(S) /\ ToSet(s \o t) = ToSet(s) \cup ToSet(t)
<1>1. s \o t \in Seq(S) /\ DOMAIN s = 1..Len(s) /\ DOMAIN t = 1..Len(t)
  OBVIOUS
<1>2. Len(s) \in Nat /\ Len(t) \in Nat /\ Len(s \o t) = Len(s) + Len(t)
  OBVIOUS
<1>3. DOMAIN (s \o t) = 1..(Len(s) + Len(t))
  BY <1>1, <1>2
<1>4. \A i \in 1..(Len(s) + Len(t)) :
        (s \o t)[i] = IF i <= Len(s) THEN s[i] ELSE t[i - Len(s)]
  OBVIOUS
<1>5. ToSet(s \o t) \subseteq ToSet(s) \cup ToSet(t)
  <2> SUFFICES ASSUME NEW i \in 1..(Len(s) + Len(t))
               PROVE  (s \o t)[i] \in ToSet(s) \cup ToSet(t)
    BY <1>3 DEF ToSet
  <2>1. CASE i <= Len(s)
    BY <2>1, <1>1, <1>2, <1>4 DEF ToSet
  <2>2. CASE i > Len(s)
    <3>1. i - Len(s) \in 1..Len(t) /\ (s \o t)[i] = t[i - Len(s)]
      BY <2>2, <1>2, <1>4
    <3> QED  BY <3>1, <1>1 DEF ToSet
  <2> QED  BY <2>1, <2>2, <1>2
<1>6. ToSet(s) \subseteq ToSet(s \o t)
  <2>1. \A i \in 1..Len(s) : i \in 1..(Len(s) + Len(t)) /\ (s \o t)[i] = s[i]
    BY <1>2, <1>4
  <2> QED  BY <2>1, <1>1, <1>3 DEF ToSet
<1>7. ToSet(t) \subseteq ToSet(s \o t)
  <2>1. \A i \in 1..Len(t) :
          Len(s) + i \in 1..(Len(s) + Len(t)) /\ (s \o t)[Len(s) + i] = t[i]
    BY <1>2, <1>4
  <2> QED  BY <2>1, <1>1, <1>3 DEF ToSet
<1> QED  BY <1>1, <1>5, <1>6, <1>7

\* A snapshot of n chunks shows the first n.
LEMMA Prefix ==
  ASSUME NEW S, NEW s \in Seq(S), NEW n \in Nat, n <= Len(s)
  PROVE  SubSeq(s, 1, n) \in Seq(S) /\ ToSet(SubSeq(s, 1, n)) = Upto(s, n)
<1>1. SubSeq(s, 1, n) \in Seq(S) /\ Len(SubSeq(s, 1, n)) = n
  OBVIOUS
<1>2. DOMAIN SubSeq(s, 1, n) = 1..n
  BY <1>1
<1>3. \A i \in 1..n : SubSeq(s, 1, n)[i] = s[i]
  OBVIOUS
<1> QED  BY <1>1, <1>2, <1>3 DEF ToSet, Upto

LEMMA Whole ==
  ASSUME NEW S, NEW s \in Seq(S)
  PROVE  Upto(s, Len(s)) = ToSet(s)
BY DEF Upto, ToSet

-----------------------------------------------------------------------------
(* What is published.                                                      *)

\* What a socket becomes that hears chunk k.
Hear(r, k) ==
  IF r.pc = "live" THEN [r EXCEPT !.view = Append(@, k), !.heard = @ \cup {k}]
  ELSE [r EXCEPT !.pending = Append(@, k), !.heard = @ \cup {k}]

LEMMA HearTyped ==
  ASSUME NEW r \in Socket, NEW k \in Chunks
  PROVE  /\ Hear(r, k) \in Socket
         /\ Hear(r, k).pc = r.pc /\ Hear(r, k).first = r.first /\ Hear(r, k).ch = r.ch
         /\ Hear(r, k).scr = r.scr /\ Hear(r, k).mark = r.mark
         /\ Hear(r, k).heard = r.heard \cup {k}
         /\ IF r.pc = "live"
            THEN Hear(r, k).view = Append(r.view, k) /\ Hear(r, k).pending = r.pending
            ELSE Hear(r, k).pending = Append(r.pending, k) /\ Hear(r, k).view = r.view
<1>1. r.view \in Seq(Chunks) /\ r.pending \in Seq(Chunks) /\ r.heard \subseteq Chunks
  BY DEF Socket
<1>2. Append(r.view, k) \in Seq(Chunks) /\ Append(r.pending, k) \in Seq(Chunks)
  BY <1>1, AppendedSet
<1>3. r.heard \cup {k} \subseteq Chunks
  BY <1>1
<1>4. CASE r.pc = "live"
  BY <1>1, <1>2, <1>3, <1>4 DEF Hear, Socket
<1>5. CASE r.pc # "live"
  BY <1>1, <1>2, <1>3, <1>5 DEF Hear, Socket
<1> QED  BY <1>4, <1>5

LEMMA SocketsTyped ==
  ASSUME TypeOK
  PROVE  sockets \in [Sockets -> Socket] /\ \A s \in Sockets : sockets[s] \in Socket
BY DEF TypeOK, Socket

LEMMA ClosedTyped == Closed \in Socket
<1>0. <<>> \in Seq(Chunks)
  OBVIOUS
<1>1. PICK none : none = <<>>
  OBVIOUS
<1>2. Closed = [pc |-> "closed", first |-> TRUE, ch |-> None, scr |-> None,
                mark |-> 0, pending |-> none, view |-> none, heard |-> {}]
  BY <1>1 DEF Closed
<1> QED  BY <1>0, <1>1, <1>2 DEF Socket, SocketPC

LEMMA NextChunk ==
  ASSUME TypeOK
  PROVE  /\ log \in Nat /\ (~Full => log + 1 \in Chunks)
         /\ (LogGrows => log' \in 0..MaxChunks)
<1>1. log \in Nat /\ MaxChunks \in Nat /\ log <= MaxChunks
  BY MaxChunksIsNat DEF TypeOK
<1>2. ~Full => log + 1 \in Chunks
  BY <1>1 DEF Full, Chunks
<1>3. LogGrows => log' \in 0..MaxChunks
  BY <1>1 DEF LogGrows, Full
<1> QED  BY <1>1, <1>2, <1>3

LEMMA ToldSockets ==
  ASSUME TypeOK, NEW c
  PROVE  /\ Told(c) \in [Sockets -> Socket]
         /\ \A s \in Sockets :
              Told(c)[s] = IF Full \/ c \in ended \/ sockets[s].ch # c THEN sockets[s]
                           ELSE Hear(sockets[s], log + 1)
<1>1. sockets \in [Sockets -> Socket] /\ \A s \in Sockets : sockets[s] \in Socket
  BY SocketsTyped
<1>2. CASE Full \/ c \in ended
  BY <1>1, <1>2 DEF Told, Publish
<1>3. CASE ~Full /\ c \notin ended
  <2>1. log + 1 \in Chunks
    BY <1>3, NextChunk
  <2>2. \A s \in Sockets : Hear(sockets[s], log + 1) \in Socket
    BY <1>1, <2>1, HearTyped
  <2>3. Told(c) = [s \in Sockets |-> IF sockets[s].ch # c THEN sockets[s]
                                     ELSE Hear(sockets[s], log + 1)]
    BY <1>3 DEF Told, Publish, Hear
  <2> QED  BY <1>1, <1>3, <2>2, <2>3
<1> QED  BY <1>2, <1>3

LEMMA EndedSockets ==
  ASSUME TypeOK, NEW c
  PROVE  /\ EndSockets(c) \in [Sockets -> Socket]
         /\ \A s \in Sockets :
              EndSockets(c)[s] = IF c \in ended \/ sockets[s].ch # c THEN sockets[s]
                                 ELSE Closed
BY SocketsTyped, ClosedTyped DEF EndSockets

LEMMA FedScreens ==
  ASSUME TypeOK, NEW d \in [Screens -> Seq(Chunks)], NEW x \in Screens
  PROVE  /\ Fed(d, x) \in [Screens -> Seq(Chunks)]
         /\ \A y \in Screens :
              Fed(d, x)[y] = IF Full \/ y # x THEN d[y] ELSE Append(d[y], log + 1)
<1>1. CASE Full
  BY <1>1 DEF Fed
<1>2. CASE ~Full
  <2>1. Append(d[x], log + 1) \in Seq(Chunks)
    BY <1>2, NextChunk, AppendedSet
  <2>2. Fed(d, x) = [d EXCEPT ![x] = Append(d[x], log + 1)]
    BY <1>2 DEF Fed
  <2> QED  BY <1>2, <2>1, <2>2
<1> QED  BY <1>1, <1>2

-----------------------------------------------------------------------------
(* The types, and what is held.                                            *)

LEMMA InitTyped == Init => TypeInv
<1> SUFFICES ASSUME Init PROVE TypeInv
  OBVIOUS
<1>1. <<>> \in Seq(Chunks)
  OBVIOUS
<1>2. PICK none : none = <<>>
  OBVIOUS
<1>3. drawn \in [Screens -> Seq(Chunks)]
  <2>1. drawn = [x \in Screens |-> none]
    BY <1>2 DEF Init
  <2> QED  BY <1>1, <1>2, <2>1
<1>4. sockets = [s \in Sockets |-> Closed] /\ sockets \in [Sockets -> Socket]
  BY ClosedTyped DEF Init
<1>5. Idle \in Writer
  BY DEF Idle, Writer
<1>6. writers = [w \in Writers |-> Idle] /\ writers \in [Writers -> Writer]
  BY <1>5 DEF Init
<1>7. NoRebuild \in Rebuild /\ NoRebuild.pc = "none"
  BY MaxChunksIsNat DEF NoRebuild, Rebuild
<1>8. TypeOK
  BY <1>3, <1>4, <1>6, <1>7, MaxChunksIsNat DEF Init, TypeOK, Socket, Rebuild
<1>9. Held
  <2>1. WritersHold
    BY <1>6 DEF WritersHold, Busy, Idle
  <2>2. RebuildHolds
    BY <1>7 DEF Init, RebuildHolds
  <2>3. SocketsHold
    BY <1>4 DEF SocketsHold, Closed
  <2> QED  BY <2>1, <2>2, <2>3 DEF Held
<1> QED  BY <1>8, <1>9 DEF TypeInv

\* The variables apart, as the steps change them.
LEMMA TypeParts ==
  TypeInv <=>
    /\ /\ log \in 0..MaxChunks
       /\ run \in {"none", "queued", "live", "awaiting", "ended"}
       /\ channel \in Channels \cup {None} /\ screen \in Screens \cup {None}
       /\ ended \subseteq Channels
       /\ drawn \in [Screens -> Seq(Chunks)]
       /\ server \in {"up", "recovering", "recovered"}
       /\ unread \in {"nothing", "newer", "older"}
    /\ writers \in [Writers -> Writer] /\ WritersHold
    /\ rebuild \in Rebuild /\ RebuildHolds
    /\ sockets \in [Sockets -> Socket] /\ SocketsHold
BY DEF TypeInv, TypeOK, Held, Socket, Rebuild

LEMMA ToldHold ==
  ASSUME TypeInv, NEW c
  PROVE  /\ Told(c) \in [Sockets -> Socket]
         /\ sockets' = Told(c) => SocketsHold'
<1>1. TypeOK /\ SocketsHold /\ \A s \in Sockets : sockets[s] \in Socket
  BY SocketsTyped DEF TypeInv, Held
<1>2. Told(c) \in [Sockets -> Socket]
  BY <1>1, ToldSockets
<1>3. \A s \in Sockets : Told(c)[s].pc = sockets[s].pc /\ Told(c)[s].scr = sockets[s].scr
  <2> SUFFICES ASSUME NEW s \in Sockets
               PROVE  Told(c)[s].pc = sockets[s].pc /\ Told(c)[s].scr = sockets[s].scr
    OBVIOUS
  <2>1. CASE Full \/ c \in ended \/ sockets[s].ch # c
    BY <1>1, <2>1, ToldSockets
  <2>2. CASE ~(Full \/ c \in ended \/ sockets[s].ch # c)
    <3>1. Told(c)[s] = Hear(sockets[s], log + 1) /\ log + 1 \in Chunks
      BY <1>1, <2>2, ToldSockets, NextChunk
    <3> QED  BY <1>1, <3>1, HearTyped
  <2> QED  BY <2>1, <2>2
<1> QED  BY <1>1, <1>2, <1>3 DEF SocketsHold

LEMMA EndedHold ==
  ASSUME TypeInv, NEW c
  PROVE  /\ EndSockets(c) \in [Sockets -> Socket]
         /\ sockets' = EndSockets(c) => SocketsHold'
<1>1. TypeOK /\ SocketsHold
  BY DEF TypeInv, Held
<1>2. Closed.pc = "closed"
  BY DEF Closed
<1> QED  BY <1>1, <1>2, EndedSockets DEF SocketsHold

LEMMA WriterStep ==
  ASSUME TypeInv, NEW w \in Writers, NEW r \in Writer,
         r.pc # "idle" => r.ch \in Channels /\ r.scr \in Screens,
         writers' = [writers EXCEPT ![w] = r]
  PROVE  writers' \in [Writers -> Writer] /\ WritersHold'
<1>1. writers \in [Writers -> Writer] /\ WritersHold
  BY TypeParts
<1>2. writers' \in [Writers -> Writer]
  BY <1>1
<1>3. WritersHold'
  BY <1>1 DEF WritersHold, Busy
<1> QED  BY <1>2, <1>3

\* A life goes on with what it holds.
LEMMA WriterMoves ==
  ASSUME TypeInv, NEW w \in Writers, Busy(w),
         NEW to \in {"booting", "attaching", "streaming", "closing", "suspending"},
         writers' = [writers EXCEPT ![w].pc = to]
  PROVE  writers' \in [Writers -> Writer] /\ WritersHold'
<1>1. writers[w] \in Writer /\ writers[w].ch \in Channels /\ writers[w].scr \in Screens
  BY TypeParts DEF WritersHold
<1>2. PICK r : r = [writers[w] EXCEPT !.pc = to]
  OBVIOUS
<1>3. r \in Writer /\ r.ch \in Channels /\ r.scr \in Screens
  BY <1>1, <1>2 DEF Writer
<1>4. writers' = [writers EXCEPT ![w] = r]
  BY <1>2
<1> QED  BY <1>3, <1>4, WriterStep

LEMMA OpenStreamTyped ==
  ASSUME TypeInv, NEW w \in Writers, NEW kind \in {"launch", "resume", "continue", "reattach"},
         OpenStream(w, kind)
  PROVE  TypeInv'
<1>1. PICK c \in Channels, x \in Screens :
        /\ GetOrCreate(c) /\ GetOrCreateScreen(x)
        /\ writers' = [writers EXCEPT ![w] =
             [pc   |-> IF kind = "reattach" THEN "attaching" ELSE "booting",
              kind |-> kind, ch |-> c, scr |-> x]]
        /\ IF kind = "launch"
           THEN drawn' = Blank(x) /\ UNCHANGED <<log, sockets>>
           ELSE LogGrows /\ drawn' = Fed(Blank(x), x) /\ sockets' = Told(c)
  BY DEF OpenStream
<1>2. PICK r : r = [pc   |-> IF kind = "reattach" THEN "attaching" ELSE "booting",
                    kind |-> kind, ch |-> c, scr |-> x]
  OBVIOUS
<1>3. r \in Writer /\ r.ch \in Channels /\ r.scr \in Screens
  BY <1>2 DEF Writer
<1>4. writers' = [writers EXCEPT ![w] = r]
  BY <1>1, <1>2
<1>5. writers' \in [Writers -> Writer] /\ WritersHold'
  BY <1>3, <1>4, WriterStep
<1>6. /\ channel' \in Channels \cup {None} /\ screen' \in Screens \cup {None}
      /\ ended' \subseteq Channels
  BY <1>1, TypeParts DEF GetOrCreate, GetOrCreateScreen
<1>7. Blank(x) \in [Screens -> Seq(Chunks)]
  <2>1. <<>> \in Seq(Chunks) /\ drawn \in [Screens -> Seq(Chunks)]
    BY TypeParts
  <2>2. PICK none : none = <<>>
    OBVIOUS
  <2>3. Blank(x) = IF screen = None THEN [drawn EXCEPT ![x] = none] ELSE drawn
    BY <2>2 DEF Blank
  <2> QED  BY <2>1, <2>2, <2>3
<1>8. TypeOK
  BY DEF TypeInv
<1>9. log' \in 0..MaxChunks
  BY <1>1, <1>8, TypeParts, NextChunk
<1>10. drawn' \in [Screens -> Seq(Chunks)]
  BY <1>1, <1>7, <1>8, FedScreens
<1>11. sockets' \in [Sockets -> Socket] /\ SocketsHold'
  <2>1. CASE kind = "launch"
    BY <2>1, <1>1, TypeParts DEF SocketsHold
  <2>2. CASE kind # "launch"
    BY <2>2, <1>1, ToldHold
  <2> QED  BY <2>1, <2>2
<1>12. /\ run' \in {"none", "queued", "live", "awaiting", "ended"}
       /\ server' \in {"up", "recovering", "recovered"}
       /\ unread' \in {"nothing", "newer", "older"}
  BY TypeParts DEF OpenStream
<1>13. rebuild' \in Rebuild /\ RebuildHolds'
  BY TypeParts DEF OpenStream, RebuildHolds
<1> QED  BY <1>5, <1>6, <1>9, <1>10, <1>11, <1>12, <1>13
           DEF TypeInv, TypeOK, Held, Socket, Rebuild

LEMMA OnBytesTyped ==
  ASSUME TypeInv, NEW w \in Writers, Busy(w), OnBytes(w)
  PROVE  /\ log' \in 0..MaxChunks /\ drawn' \in [Screens -> Seq(Chunks)]
         /\ sockets' \in [Sockets -> Socket] /\ SocketsHold'
<1>1. TypeOK /\ writers[w].scr \in Screens /\ drawn \in [Screens -> Seq(Chunks)]
  BY TypeParts DEF TypeInv, WritersHold
<1>2. log' \in 0..MaxChunks
  BY <1>1, NextChunk DEF OnBytes
<1>3. drawn' \in [Screens -> Seq(Chunks)]
  BY <1>1, FedScreens DEF OnBytes
<1>4. sockets' \in [Sockets -> Socket] /\ SocketsHold'
  BY ToldHold DEF OnBytes
<1> QED  BY <1>2, <1>3, <1>4

LEMMA ContainerStartedTyped ==
  ASSUME TypeInv, NEW w \in Writers, ContainerStarted(w)
  PROVE  TypeInv'
<1>1. writers' \in [Writers -> Writer] /\ WritersHold'
  BY WriterMoves DEF ContainerStarted, Busy
<1> QED  BY <1>1, TypeParts
           DEF ContainerStarted, registry, TypeInv, TypeOK, Held, Socket, Rebuild,
               RebuildHolds, SocketsHold

LEMMA ContainerWritesTyped ==
  ASSUME TypeInv, ContainerWritesUnread
  PROVE  TypeInv'
BY TypeParts DEF ContainerWritesUnread, registry, TypeInv, TypeOK, Held, Socket, Rebuild,
                 WritersHold, Busy, RebuildHolds, SocketsHold

LEMMA LogsFollowedTyped ==
  ASSUME TypeInv, NEW w \in Writers, LogsFollowed(w)
  PROVE  TypeInv'
<1>1. writers' \in [Writers -> Writer] /\ WritersHold'
  BY WriterMoves DEF LogsFollowed, Busy
<1>2. /\ log' \in 0..MaxChunks /\ drawn' \in [Screens -> Seq(Chunks)]
      /\ sockets' \in [Sockets -> Socket] /\ SocketsHold'
      /\ unread' \in {"nothing", "newer", "older"}
  <2>1. CASE unread # "nothing" /\ unread' = "nothing" /\ OnBytes(w)
    BY <2>1, OnBytesTyped DEF LogsFollowed, Busy
  <2>2. CASE unread # "newer" /\ UNCHANGED <<unread, log, drawn, sockets>>
    BY <2>2, TypeParts DEF SocketsHold
  <2> QED  BY <2>1, <2>2 DEF LogsFollowed
<1> QED  BY <1>1, <1>2, TypeParts
           DEF LogsFollowed, registry, TypeInv, TypeOK, Held, Socket, Rebuild, RebuildHolds

LEMMA BytesArriveTyped ==
  ASSUME TypeInv, NEW w \in Writers, BytesArrive(w)
  PROVE  TypeInv'
<1>1. /\ log' \in 0..MaxChunks /\ drawn' \in [Screens -> Seq(Chunks)]
      /\ sockets' \in [Sockets -> Socket] /\ SocketsHold'
  BY OnBytesTyped DEF BytesArrive, Busy
<1> QED  BY <1>1, TypeParts
           DEF BytesArrive, registry, lives, TypeInv, TypeOK, Held, Socket, Rebuild,
               RebuildHolds, WritersHold, Busy

LEMMA RunFinishesTyped ==
  ASSUME TypeInv, NEW w \in Writers, RunFinishes(w)
  PROVE  TypeInv'
<1>1. writers' \in [Writers -> Writer] /\ WritersHold'
  BY WriterMoves DEF RunFinishes, Busy
<1>2. /\ log' \in 0..MaxChunks /\ drawn' \in [Screens -> Seq(Chunks)]
      /\ sockets' \in [Sockets -> Socket] /\ SocketsHold'
  <2>1. CASE writers[w].kind = "reattach"
    BY <2>1, TypeParts DEF RunFinishes, SocketsHold
  <2>2. CASE writers[w].kind # "reattach"
    BY <2>2, OnBytesTyped DEF RunFinishes, Busy
  <2> QED  BY <2>1, <2>2
<1> QED  BY <1>1, <1>2, TypeParts
           DEF RunFinishes, registry, TypeInv, TypeOK, Held, Socket, Rebuild, RebuildHolds

LEMMA RunSuspendsTyped ==
  ASSUME TypeInv, NEW w \in Writers, RunSuspends(w)
  PROVE  TypeInv'
<1>1. writers' \in [Writers -> Writer] /\ WritersHold'
  BY WriterMoves DEF RunSuspends, Busy
<1>2. /\ log' \in 0..MaxChunks /\ drawn' \in [Screens -> Seq(Chunks)]
      /\ sockets' \in [Sockets -> Socket] /\ SocketsHold'
  BY OnBytesTyped DEF RunSuspends, Busy
<1> QED  BY <1>1, <1>2, TypeParts
           DEF RunSuspends, registry, TypeInv, TypeOK, Held, Socket, Rebuild, RebuildHolds

LEMMA EndTyped ==
  ASSUME TypeInv, NEW w \in Writers, Busy(w), EndOf(w)
  PROVE  /\ writers' \in [Writers -> Writer] /\ WritersHold'
         /\ sockets' \in [Sockets -> Socket] /\ SocketsHold'
         /\ ended' \subseteq Channels
<1>1. Idle \in Writer /\ Idle.pc = "idle"
  BY DEF Idle, Writer
<1>2. writers' \in [Writers -> Writer] /\ WritersHold'
  BY <1>1, WriterStep DEF EndOf
<1>3. sockets' \in [Sockets -> Socket] /\ SocketsHold'
  BY EndedHold DEF EndOf
<1>4. ended' \subseteq Channels
  BY TypeParts DEF EndOf, WritersHold
<1> QED  BY <1>2, <1>3, <1>4

LEMMA StreamEndsTyped ==
  ASSUME TypeInv, NEW w \in Writers, StreamReleased(w) \/ StreamSuspended(w)
  PROVE  TypeInv'
<1>1. EndOf(w) /\ Busy(w)
  BY DEF StreamReleased, StreamSuspended, Busy
<1>2. /\ writers' \in [Writers -> Writer] /\ WritersHold'
      /\ sockets' \in [Sockets -> Socket] /\ SocketsHold'
      /\ ended' \subseteq Channels
  BY <1>1, EndTyped
<1>3. channel' \in Channels \cup {None} /\ screen' \in Screens \cup {None}
  BY TypeParts DEF StreamReleased, StreamSuspended, Release, registry
<1>4. unread' = "nothing" /\ UNCHANGED <<log, run, drawn, rebuild, server>>
  BY <1>1 DEF StreamReleased, StreamSuspended, EndOf
<1> QED  BY <1>2, <1>3, <1>4, TypeParts
           DEF TypeInv, TypeOK, Held, Socket, Rebuild, RebuildHolds

LEMMA LifeFailsTyped ==
  ASSUME TypeInv, NEW w \in Writers, LifeFails(w)
  PROVE  TypeInv'
<1>1. EndOf(w) /\ Busy(w) /\ TypeOK
  BY DEF LifeFails, Busy, TypeInv
<1>2. /\ writers' \in [Writers -> Writer] /\ WritersHold'
      /\ sockets' \in [Sockets -> Socket] /\ SocketsHold'
      /\ ended' \subseteq Channels
  BY <1>1, EndTyped
<1>3. writers[w].scr \in Screens /\ drawn \in [Screens -> Seq(Chunks)]
  BY <1>1, TypeParts DEF WritersHold
<1>4. log' \in 0..MaxChunks /\ drawn' \in [Screens -> Seq(Chunks)]
  BY <1>1, <1>3, NextChunk, FedScreens DEF LifeFails
<1>5. run' = "ended" /\ unread' = "nothing" /\ UNCHANGED <<rebuild, server>>
  BY <1>1 DEF LifeFails, EndOf
<1>6. channel' = None /\ screen' = None
  BY DEF LifeFails, Release
<1> QED  BY <1>2, <1>4, <1>5, <1>6, TypeParts
           DEF TypeInv, TypeOK, Held, Socket, Rebuild, RebuildHolds

LEMMA ReattachFailsTyped ==
  ASSUME TypeInv, NEW w \in Writers, ReattachFails(w)
  PROVE  TypeInv'
<1>1. Idle \in Writer /\ Idle.pc = "idle"
  BY DEF Idle, Writer
<1>2. writers' \in [Writers -> Writer] /\ WritersHold'
  BY <1>1, WriterStep DEF ReattachFails
<1> QED  BY <1>2, TypeParts
           DEF ReattachFails, registry, TypeInv, TypeOK, Held, Socket, Rebuild,
               RebuildHolds, SocketsHold

LEMMA CancelAwaitingTyped ==
  ASSUME TypeInv, CancelAwaiting
  PROVE  TypeInv'
<1>1. sockets' \in [Sockets -> Socket] /\ SocketsHold'
  BY EndedHold DEF CancelAwaiting
<1>2. ended' \subseteq Channels
  BY TypeParts DEF CancelAwaiting, EndRegistered
<1> QED  BY <1>1, <1>2, TypeParts
           DEF CancelAwaiting, Release, TypeInv, TypeOK, Held, Socket, Rebuild,
               RebuildHolds, WritersHold, Busy

LEMMA CrashTyped ==
  ASSUME TypeInv, Crash
  PROVE  TypeInv'
<1>1. <<>> \in Seq(Chunks)
  OBVIOUS
<1>2. PICK none : none = <<>>
  OBVIOUS
<1>3. drawn' \in [Screens -> Seq(Chunks)]
  <2>1. drawn' = [x \in Screens |-> none]
    BY <1>2 DEF Crash
  <2> QED  BY <1>1, <1>2, <2>1
<1>4. sockets' \in [Sockets -> Socket] /\ SocketsHold'
  <2>1. sockets' = [s \in Sockets |-> Closed] /\ Closed.pc = "closed"
    BY DEF Crash, Closed
  <2> QED  BY <2>1, ClosedTyped DEF SocketsHold
<1>5. writers' \in [Writers -> Writer] /\ WritersHold'
  <2>1. Idle \in Writer /\ Idle.pc = "idle" /\ writers' = [w \in Writers |-> Idle]
    BY DEF Idle, Writer, Crash
  <2> QED  BY <2>1 DEF WritersHold, Busy
<1>6. rebuild' \in Rebuild /\ RebuildHolds'
  BY MaxChunksIsNat DEF NoRebuild, Rebuild, Crash, RebuildHolds
<1> QED  BY <1>3, <1>4, <1>5, <1>6, TypeParts
           DEF Crash, TypeInv, TypeOK, Held, Socket, Rebuild

LEMMA RecoveredTyped ==
  ASSUME TypeInv, Recovered
  PROVE  TypeInv'
BY TypeParts DEF Recovered, registry, TypeInv, TypeOK, Held, Socket, Rebuild,
                 WritersHold, Busy, RebuildHolds, SocketsHold

LEMMA SocketStep ==
  ASSUME TypeInv, NEW s \in Sockets, NEW r \in Socket,
         r.pc \in {"resizing", "draining"} => r.scr \in Screens,
         sockets' = [sockets EXCEPT ![s] = r]
  PROVE  sockets' \in [Sockets -> Socket] /\ SocketsHold'
<1>1. sockets \in [Sockets -> Socket] /\ SocketsHold
  BY TypeParts
<1>2. sockets' \in [Sockets -> Socket]
  BY <1>1
<1>3. SocketsHold'
  BY <1>1 DEF SocketsHold
<1> QED  BY <1>2, <1>3

LEMMA ConnectTyped ==
  ASSUME TypeInv, NEW s \in Sockets, Connect(s)
  PROVE  TypeInv'
<1>1. PICK c \in Channels :
        /\ GetOrCreate(c)
        /\ sockets' = [sockets EXCEPT ![s] = [Closed EXCEPT !.pc = "hello", !.ch = c]]
  BY DEF Connect
<1>2. PICK r : r = [Closed EXCEPT !.pc = "hello", !.ch = c]
  OBVIOUS
<1>3. Closed \in Socket
  BY ClosedTyped
<1>4. r \in Socket /\ r.pc = "hello"
  BY <1>2, <1>3 DEF Socket, SocketPC
<1>5. sockets' = [sockets EXCEPT ![s] = r]
  BY <1>1, <1>2
<1>6. sockets' \in [Sockets -> Socket] /\ SocketsHold'
  BY <1>4, <1>5, SocketStep
<1>7. channel' \in Channels \cup {None} /\ ended' \subseteq Channels
  BY <1>1, TypeParts DEF GetOrCreate
<1> QED  BY <1>6, <1>7, TypeParts
           DEF Connect, lives, TypeInv, TypeOK, Held, Socket, Rebuild,
               RebuildHolds, WritersHold, Busy

LEMMA DisconnectTyped ==
  ASSUME TypeInv, NEW s \in Sockets, Disconnect(s)
  PROVE  TypeInv'
<1>1. Closed \in Socket /\ Closed.pc = "closed"
  BY ClosedTyped DEF Closed
<1>2. sockets' \in [Sockets -> Socket] /\ SocketsHold'
  BY <1>1, SocketStep DEF Disconnect
<1> QED  BY <1>2, TypeParts
           DEF Disconnect, registry, lives, TypeInv, TypeOK, Held, Socket, Rebuild,
               RebuildHolds, WritersHold, Busy

\* Which socket a snapshot is taken for, and with which screen.
LEMMA Taken ==
  ASSUME TypeInv, NEW s \in Sockets, NEW first \in BOOLEAN, TakeScreen(s, first)
  PROVE  /\ sockets' \in [Sockets -> Socket] /\ SocketsHold'
         /\ rebuild' \in Rebuild /\ RebuildHolds'
         /\ screen' \in Screens \cup {None} /\ drawn' \in [Screens -> Seq(Chunks)]
<1>1. sockets[s] \in Socket /\ screen \in Screens \cup {None}
  BY TypeParts
<1>2. CASE screen # None /\ sockets' = [sockets EXCEPT ![s].pc = "resizing",
                                          ![s].first = first, ![s].scr = screen]
                /\ UNCHANGED <<screen, drawn, rebuild>>
  <2>1. PICK r : r = [sockets[s] EXCEPT !.pc = "resizing", !.first = first, !.scr = screen]
    OBVIOUS
  <2>2. r \in Socket /\ r.scr \in Screens
    BY <1>1, <1>2, <2>1 DEF Socket, SocketPC
  <2>3. sockets' = [sockets EXCEPT ![s] = r]
    BY <1>2, <2>1, TypeParts
  <2>4. sockets' \in [Sockets -> Socket] /\ SocketsHold'
    BY <2>2, <2>3, SocketStep
  <2> QED  BY <1>2, <2>4, TypeParts DEF RebuildHolds
<1>3. CASE sockets' = [sockets EXCEPT ![s].pc = "rebuilding", ![s].first = first]
  <2>1. PICK r : r = [sockets[s] EXCEPT !.pc = "rebuilding", !.first = first]
    OBVIOUS
  <2>2. r \in Socket /\ r.pc = "rebuilding"
    BY <1>1, <2>1 DEF Socket, SocketPC
  <2>3. sockets' = [sockets EXCEPT ![s] = r]
    BY <1>3, <2>1, TypeParts
  <2>4. sockets' \in [Sockets -> Socket] /\ SocketsHold'
    BY <2>2, <2>3, SocketStep
  <2>5. CASE UNCHANGED <<screen, drawn, rebuild>>
    BY <2>4, <2>5, TypeParts DEF RebuildHolds
  <2>6. CASE \E x \in Screens :
               /\ ScreenUnused(x)
               /\ screen' = x
               /\ drawn' = [drawn EXCEPT ![x] = <<>>]
               /\ rebuild' = [pc |-> "stat", scr |-> x, size |-> 0, pos |-> 0]
    <3>1. <<>> \in Seq(Chunks) /\ drawn \in [Screens -> Seq(Chunks)]
      BY TypeParts
    <3>2. PICK none : none = <<>>
      OBVIOUS
    <3>3. PICK x \in Screens :
               /\ screen' = x /\ drawn' = [drawn EXCEPT ![x] = none]
               /\ rebuild' = [pc |-> "stat", scr |-> x, size |-> 0, pos |-> 0]
      BY <2>6, <3>2
    <3>4. drawn' \in [Screens -> Seq(Chunks)]
      BY <3>1, <3>2, <3>3
    <3>5. rebuild' \in Rebuild /\ RebuildHolds'
      BY <3>3, MaxChunksIsNat DEF Rebuild, RebuildHolds
    <3> QED  BY <2>4, <3>3, <3>4, <3>5
  <2> QED  BY <1>3, <2>5, <2>6 DEF TakeScreen
<1> QED  BY <1>2, <1>3 DEF TakeScreen

LEMMA HelloTyped ==
  ASSUME TypeInv, NEW s \in Sockets, Hello(s) \/ HelloAgain(s)
  PROVE  TypeInv'
<1>1. TakeScreen(s, TRUE) \/ TakeScreen(s, FALSE)
  BY DEF Hello, HelloAgain
<1>2. /\ sockets' \in [Sockets -> Socket] /\ SocketsHold'
      /\ rebuild' \in Rebuild /\ RebuildHolds'
      /\ screen' \in Screens \cup {None} /\ drawn' \in [Screens -> Seq(Chunks)]
  BY <1>1, Taken
<1> QED  BY <1>2, TypeParts
           DEF Hello, HelloAgain, lives, TypeInv, TypeOK, Held, Socket, Rebuild,
               WritersHold, Busy

LEMMA RebuildSizedTyped ==
  ASSUME TypeInv, RebuildSized
  PROVE  TypeInv'
<1>1. PICK b : b = [rebuild EXCEPT !.pc = "reading", !.size = log]
  OBVIOUS
<1>2. b \in Rebuild /\ b.scr \in Screens
  BY <1>1, TypeParts DEF Rebuild, RebuildHolds, RebuildSized
<1>3. rebuild' = b
  BY <1>1 DEF RebuildSized
<1>4. rebuild' \in Rebuild /\ RebuildHolds'
  BY <1>2, <1>3 DEF RebuildHolds
<1> QED  BY <1>4, TypeParts
           DEF RebuildSized, registry, lives, TypeInv, TypeOK, Held, Socket, Rebuild,
               WritersHold, Busy, SocketsHold

\* The chunk that a rebuild reads next.
LEMMA ChunkRead ==
  ASSUME TypeInv, RebuildReads
  PROVE  /\ rebuild.scr \in Screens /\ rebuild.pos + 1 \in Chunks
         /\ drawn' \in [Screens -> Seq(Chunks)]
         /\ \A x \in Screens :
              drawn'[x] = IF x # rebuild.scr THEN drawn[x]
                          ELSE Append(drawn[x], rebuild.pos + 1)
<1>1. rebuild \in Rebuild /\ rebuild.scr \in Screens /\ drawn \in [Screens -> Seq(Chunks)]
  BY TypeParts DEF RebuildHolds, RebuildReads
<1>2. /\ rebuild.pos \in 0..MaxChunks /\ rebuild.size \in 0..MaxChunks
      /\ rebuild.pos < rebuild.size /\ MaxChunks \in Nat
  BY <1>1, MaxChunksIsNat DEF Rebuild, RebuildReads
<1>3. rebuild.pos + 1 \in Chunks
  BY <1>2 DEF Chunks
<1>4. Append(drawn[rebuild.scr], rebuild.pos + 1) \in Seq(Chunks)
  BY <1>1, <1>3, AppendedSet
<1>5. drawn' = [drawn EXCEPT ![rebuild.scr] = Append(drawn[rebuild.scr], rebuild.pos + 1)]
  BY DEF RebuildReads
<1> QED  BY <1>1, <1>3, <1>4, <1>5

LEMMA RebuildReadsTyped ==
  ASSUME TypeInv, RebuildReads
  PROVE  TypeInv'
<1>1. PICK b : b = [rebuild EXCEPT !.pos = rebuild.pos + 1]
  OBVIOUS
<1>2. rebuild.pos + 1 \in 0..MaxChunks
  BY ChunkRead, MaxChunksIsNat DEF Chunks
<1>3. b \in Rebuild /\ b.scr \in Screens
  BY <1>1, <1>2, TypeParts DEF Rebuild, RebuildHolds, RebuildReads
<1>4. rebuild' = b
  BY <1>1 DEF RebuildReads
<1>5. rebuild' \in Rebuild /\ RebuildHolds'
  BY <1>3, <1>4 DEF RebuildHolds
<1>6. drawn' \in [Screens -> Seq(Chunks)]
  BY ChunkRead
<1> QED  BY <1>5, <1>6, TypeParts
           DEF RebuildReads, registry, lives, TypeInv, TypeOK, Held, Socket, Rebuild,
               WritersHold, Busy, SocketsHold

\* The rebuild is over, whether its screen is there or not.
LEMMA RebuildOver ==
  ASSUME rebuild' = NoRebuild
  PROVE  rebuild' \in Rebuild /\ RebuildHolds'
<1>1. NoRebuild \in Rebuild /\ NoRebuild.pc = "none"
  BY MaxChunksIsNat DEF NoRebuild, Rebuild
<1> QED  BY <1>1 DEF RebuildHolds

LEMMA RebuildDoneTyped ==
  ASSUME TypeInv, RebuildDone
  PROVE  TypeInv'
<1>1. rebuild.scr \in Screens /\ sockets \in [Sockets -> Socket] /\ SocketsHold
  BY TypeParts DEF RebuildHolds, RebuildDone
<1>4. \A s \in Sockets : /\ sockets'[s] \in Socket
                         /\ sockets'[s].pc \in {"resizing", "draining"} => sockets'[s].scr \in Screens
  <2> SUFFICES ASSUME NEW s \in Sockets
               PROVE  /\ sockets'[s] \in Socket
                      /\ sockets'[s].pc \in {"resizing", "draining"} => sockets'[s].scr \in Screens
    OBVIOUS
  <2>1. CASE sockets[s].pc # "rebuilding"
    BY <2>1, <1>1 DEF RebuildDone, SocketsHold
  <2>2. CASE sockets[s].pc = "rebuilding"
    <3>1. PICK q : q = [sockets[s] EXCEPT !.pc = "resizing", !.scr = rebuild.scr]
      OBVIOUS
    <3>2. sockets[s] \in Socket
      BY <1>1
    <3>3. q \in Socket /\ q.scr = rebuild.scr
      BY <1>1, <3>1, <3>2 DEF Socket, SocketPC
    <3>4. sockets'[s] = q
      BY <2>2, <3>1 DEF RebuildDone
    <3> QED  BY <1>1, <3>3, <3>4
  <2> QED  BY <2>1, <2>2
<1>5. sockets' \in [Sockets -> Socket] /\ SocketsHold'
  BY <1>1, <1>4 DEF SocketsHold, RebuildDone
<1>6. rebuild' \in Rebuild /\ RebuildHolds'
  BY RebuildOver DEF RebuildDone
<1> QED  BY <1>5, <1>6, TypeParts
           DEF RebuildDone, registry, lives, TypeInv, TypeOK, Held, Socket, Rebuild,
               WritersHold, Busy

LEMMA RebuildFailsTyped ==
  ASSUME TypeInv, RebuildFails
  PROVE  TypeInv'
<1>1. sockets \in [Sockets -> Socket] /\ SocketsHold /\ Closed \in Socket /\ Closed.pc = "closed"
  BY TypeParts, ClosedTyped DEF Closed
<1>4. \A s \in Sockets : /\ sockets'[s] \in Socket
                         /\ sockets'[s].pc \in {"resizing", "draining"} => sockets'[s].scr \in Screens
  <2> SUFFICES ASSUME NEW s \in Sockets
               PROVE  /\ sockets'[s] \in Socket
                      /\ sockets'[s].pc \in {"resizing", "draining"} => sockets'[s].scr \in Screens
    OBVIOUS
  <2>1. PICK q : q = [sockets[s] EXCEPT !.pc = "stuck"]
    OBVIOUS
  <2>2. sockets[s] \in Socket
    BY <1>1
  <2>3. q \in Socket /\ q.pc = "stuck"
    BY <2>1, <2>2 DEF Socket, SocketPC
  <2>4. sockets'[s] = sockets[s] \/ sockets'[s] = Closed \/ sockets'[s] = q
    BY <2>1 DEF RebuildFails, SnapshotError
  <2> QED  BY <1>1, <2>3, <2>4 DEF SocketsHold
<1>5. sockets' \in [Sockets -> Socket] /\ SocketsHold'
  BY <1>1, <1>4 DEF SocketsHold, RebuildFails
<1>6. rebuild' \in Rebuild /\ RebuildHolds'
  BY RebuildOver DEF RebuildFails
<1> QED  BY <1>5, <1>6, TypeParts
           DEF RebuildFails, lives, TypeInv, TypeOK, Held, Socket, Rebuild,
               WritersHold, Busy

\* The mark that drain() leaves.
LEMMA ResizedSocket ==
  ASSUME TypeInv, NEW s \in Sockets, Resized(s)
  PROVE  /\ sockets[s].scr \in Screens
         /\ [sockets[s] EXCEPT !.pc = "draining", !.mark = DrainMark(s)] \in Socket
         /\ sockets' = [sockets EXCEPT ![s] = [sockets[s] EXCEPT !.pc = "draining",
                                                                 !.mark = DrainMark(s)]]
<1>1. sockets[s] \in Socket /\ sockets[s].scr \in Screens /\ drawn \in [Screens -> Seq(Chunks)]
  BY TypeParts DEF SocketsHold, Resized
<1>2. DrainMark(s) \in Nat
  BY <1>1 DEF DrainMark
<1>3. [sockets[s] EXCEPT !.pc = "draining", !.mark = DrainMark(s)] \in Socket
  BY <1>1, <1>2 DEF Socket, SocketPC
<1> QED  BY <1>1, <1>3, TypeParts DEF Resized

LEMMA ResizedTyped ==
  ASSUME TypeInv, NEW s \in Sockets, Resized(s)
  PROVE  TypeInv'
<1>1. PICK r : r = [sockets[s] EXCEPT !.pc = "draining", !.mark = DrainMark(s)]
  OBVIOUS
<1>2. sockets[s] \in Socket
  BY TypeParts
<1>3. r.scr = sockets[s].scr
  BY <1>1, <1>2 DEF Socket
<1>4. r \in Socket /\ r.scr \in Screens /\ sockets' = [sockets EXCEPT ![s] = r]
  BY <1>1, <1>3, ResizedSocket
<1>5. sockets' \in [Sockets -> Socket] /\ SocketsHold'
  BY <1>4, SocketStep
<1> QED  BY <1>5, TypeParts
           DEF Resized, registry, lives, TypeInv, TypeOK, Held, Socket, Rebuild,
               WritersHold, Busy, RebuildHolds

\* The socket once its snapshot is sent, with n chunks of the screen.
Served(r, d, n) ==
  [r EXCEPT !.pc = "live", !.scr = None, !.mark = 0, !.pending = <<>>,
            !.view = SubSeq(d, 1, n) \o r.pending]

LEMMA ServedSocket ==
  ASSUME TypeInv, NEW s \in Sockets, SnapshotSent(s), ~EndNoticed(s)
  PROVE  \E n \in sockets[s].mark .. Len(drawn[sockets[s].scr]) :
           sockets' = [sockets EXCEPT ![s] = Served(sockets[s], drawn[sockets[s].scr], n)]
BY TypeParts DEF SnapshotSent, Served

LEMMA ServedTyped ==
  ASSUME NEW r \in Socket, NEW d \in Seq(Chunks), NEW n \in Nat, n <= Len(d)
  PROVE  /\ Served(r, d, n) \in Socket
         /\ Served(r, d, n).pc = "live" /\ Served(r, d, n).first = r.first
         /\ Served(r, d, n).ch = r.ch /\ Served(r, d, n).heard = r.heard
         /\ Served(r, d, n).pending = <<>>
         /\ ToSet(Served(r, d, n).view) = Upto(d, n) \cup ToSet(r.pending)
<1>1. <<>> \in Seq(Chunks) /\ r.pending \in Seq(Chunks)
  BY DEF Socket
<1>2. SubSeq(d, 1, n) \in Seq(Chunks) /\ ToSet(SubSeq(d, 1, n)) = Upto(d, n)
  BY Prefix
<1>3. PICK none : none = <<>>
  OBVIOUS
<1>4. PICK shot : shot = SubSeq(d, 1, n)
  OBVIOUS
<1>5. PICK rest_ : rest_ = r.pending
  OBVIOUS
<1>6. shot \o rest_ \in Seq(Chunks) /\ ToSet(shot \o rest_) = ToSet(shot) \cup ToSet(rest_)
  <2>1. shot \in Seq(Chunks) /\ rest_ \in Seq(Chunks)
    BY <1>1, <1>2, <1>4, <1>5
  <2> QED  BY <2>1, JoinedSet
<1>7. PICK view : view = shot \o rest_
  OBVIOUS
<1>8. view \in Seq(Chunks) /\ ToSet(view) = Upto(d, n) \cup ToSet(r.pending)
  BY <1>2, <1>4, <1>5, <1>6, <1>7
<1>9. PICK zero \in Nat : zero = 0
  OBVIOUS
<1>10. PICK q : q = [r EXCEPT !.pc = "live", !.scr = None, !.mark = zero,
                              !.pending = none, !.view = view]
  OBVIOUS
<1>11. Served(r, d, n) = q
  BY <1>3, <1>4, <1>5, <1>7, <1>9, <1>10 DEF Served
<1>12. none \in Seq(Chunks)
  BY <1>1, <1>3
<1>13. view \in Seq(Chunks)
  BY <1>8
<1>14. /\ q \in Socket /\ q.pc = "live" /\ q.first = r.first /\ q.ch = r.ch
       /\ q.heard = r.heard /\ q.pending = none /\ q.view = view
  BY <1>10, <1>12, <1>13 DEF Socket, SocketPC
<1> QED  BY <1>3, <1>8, <1>11, <1>14

LEMMA SnapshotSentTyped ==
  ASSUME TypeInv, NEW s \in Sockets, SnapshotSent(s)
  PROVE  TypeInv'
<1>1. /\ sockets[s] \in Socket /\ sockets[s].scr \in Screens
      /\ drawn[sockets[s].scr] \in Seq(Chunks) /\ sockets[s].mark \in Nat
  BY TypeParts DEF SocketsHold, SnapshotSent, Socket
<1>2. sockets' \in [Sockets -> Socket] /\ SocketsHold'
  <2>1. CASE EndNoticed(s)
    <3>1. Closed \in Socket /\ Closed.pc = "closed"
      BY ClosedTyped DEF Closed
    <3>2. sockets' = [sockets EXCEPT ![s] = Closed]
      BY <2>1 DEF SnapshotSent
    <3> QED  BY <3>1, <3>2, SocketStep
  <2>2. CASE ~EndNoticed(s)
    <3>1. PICK n \in sockets[s].mark .. Len(drawn[sockets[s].scr]) :
            sockets' = [sockets EXCEPT ![s] = Served(sockets[s], drawn[sockets[s].scr], n)]
      BY <2>2, ServedSocket
    <3>2. Len(drawn[sockets[s].scr]) \in Nat
      BY <1>1
    <3>3. n \in Nat /\ n <= Len(drawn[sockets[s].scr])
      BY <1>1, <3>2
    <3>4. PICK r : r = Served(sockets[s], drawn[sockets[s].scr], n)
      OBVIOUS
    <3>5. r \in Socket /\ r.pc = "live"
      BY <1>1, <3>3, <3>4, ServedTyped
    <3> QED  BY <3>1, <3>4, <3>5, SocketStep
  <2> QED  BY <2>1, <2>2
<1> QED  BY <1>2, TypeParts
           DEF SnapshotSent, registry, lives, TypeInv, TypeOK, Held, Socket, Rebuild,
               WritersHold, Busy, RebuildHolds

LEMMA NextTyped == TypeInv /\ [Next]_vars => TypeInv'
<1> SUFFICES ASSUME TypeInv, [Next]_vars PROVE TypeInv'
  OBVIOUS
<1>1. ASSUME NEW w \in Writers, WriterNext(w) PROVE TypeInv'
  BY <1>1, OpenStreamTyped, ContainerStartedTyped, LogsFollowedTyped, BytesArriveTyped,
     RunFinishesTyped, RunSuspendsTyped, StreamEndsTyped, LifeFailsTyped,
     ReattachFailsTyped DEF WriterNext
<1>2. ASSUME NEW s \in Sockets, SocketNext(s) PROVE TypeInv'
  BY <1>2, ConnectTyped, DisconnectTyped, HelloTyped, ResizedTyped, SnapshotSentTyped
     DEF SocketNext
<1>3. RebuildNext => TypeInv'
  BY RebuildSizedTyped, RebuildReadsTyped, RebuildDoneTyped, RebuildFailsTyped DEF RebuildNext
<1>4. CancelAwaiting \/ Crash \/ Recovered \/ ContainerWritesUnread => TypeInv'
  BY CancelAwaitingTyped, CrashTyped, RecoveredTyped, ContainerWritesTyped
<1>5. UNCHANGED vars => TypeInv'
  BY TypeParts DEF vars, registry, lives, TypeInv, TypeOK, Held, Socket, Rebuild,
                   WritersHold, Busy, RebuildHolds, SocketsHold
<1> QED  BY <1>1, <1>2, <1>3, <1>4, <1>5 DEF Next

-----------------------------------------------------------------------------
(* Who listens to what.                                                    *)

\* A life that moves, or ends, leaves the others as they are.
LEMMA WritersAgree ==
  ASSUME TypeInv, WriterInv, TypeInv', NEW w \in Writers, Busy(w),
         \A v \in Writers \ {w} : writers'[v] = writers[v],
         \/ writers'[w].pc = "idle"
         \/ writers'[w].ch = writers[w].ch /\ channel' = channel
  PROVE  WriterInv'
BY DEF WriterInv, Busy

LEMMA WritersRest ==
  ASSUME TypeInv, WriterInv, UNCHANGED writers,
         channel' = channel \/ channel = None \/ \A w \in Writers : ~Busy(w)
  PROVE  WriterInv'
<1>1. \A w \in Writers : Busy(w) => channel # None
  BY TypeParts, NoneIsNoObject DEF WriterInv, WritersHold
<1> QED  BY <1>1 DEF WriterInv, Busy

\* Sockets that stay open stay with their channel, and those that close forget.
KeepsChannel(r, q) ==
  \/ q = r \/ q = Closed
  \/ r.pc # "closed" /\ q.pc # "closed" /\ q.ch = r.ch

LEMMA ListensOn ==
  ASSUME TypeInv, TypeInv', SocketsListen,
         ended \subseteq ended',
         channel' = channel \/ channel = None \/ channel \in ended',
         \A s \in Sockets : KeepsChannel(sockets[s], sockets'[s])
  PROVE  SocketsListen'
<1> SUFFICES ASSUME NEW s \in Sockets PROVE Listens(sockets'[s], channel', ended')
  BY DEF SocketsListen
<1>1. Closed.pc = "closed"
  BY DEF Closed
<1>2. Listens(Closed, channel', ended')
  BY <1>1 DEF Listens
<1>3. CASE sockets'[s] = Closed
  BY <1>2, <1>3
<1>4. CASE sockets'[s] # Closed
  <2>1. sockets[s].pc # "closed" /\ sockets'[s].pc # "closed" /\ sockets'[s].ch = sockets[s].ch
    BY <1>4 DEF KeepsChannel, SocketsListen, Listens
  <2>2. sockets[s].ch \in Channels /\ (sockets[s].ch = channel \/ sockets[s].ch \in ended)
    BY <2>1 DEF SocketsListen, Listens
  <2>3. sockets[s].ch # None
    BY <2>2, NoneIsNoObject
  <2> QED  BY <2>1, <2>2, <2>3 DEF Listens
<1> QED  BY <1>3, <1>4

LEMMA ToldKeeps ==
  ASSUME TypeInv, SocketsListen, NEW c \in Channels
  PROVE  \A s \in Sockets : KeepsChannel(sockets[s], Told(c)[s])
<1> SUFFICES ASSUME NEW s \in Sockets PROVE KeepsChannel(sockets[s], Told(c)[s])
  OBVIOUS
<1>1. TypeOK /\ sockets[s] \in Socket
  BY TypeParts DEF TypeInv
<1>2. CASE Full \/ c \in ended \/ sockets[s].ch # c
  BY <1>1, <1>2, ToldSockets DEF KeepsChannel
<1>3. CASE ~(Full \/ c \in ended \/ sockets[s].ch # c)
  <2>1. Told(c)[s] = Hear(sockets[s], log + 1) /\ log + 1 \in Chunks
    BY <1>1, <1>3, ToldSockets, NextChunk
  <2>2. sockets[s].pc # "closed"
    <3>1. Closed.ch = None
      BY DEF Closed
    <3> QED  BY <1>3, <3>1, NoneIsNoObject DEF SocketsListen, Listens
  <2> QED  BY <1>1, <2>1, <2>2, HearTyped DEF KeepsChannel
<1> QED  BY <1>2, <1>3

LEMMA EndedKeeps ==
  ASSUME TypeInv, NEW c
  PROVE  \A s \in Sockets : KeepsChannel(sockets[s], EndSockets(c)[s])
BY EndedSockets DEF TypeInv, KeepsChannel

\* A channel that getOrCreate() makes is one that no socket listens to.
LEMMA CreatedIsNew ==
  ASSUME ListenInv, NEW c \in Channels, GetOrCreate(c), NEW s \in Sockets,
         sockets[s].pc # "closed"
  PROVE  /\ sockets[s].ch \in Channels
         /\ \/ sockets[s].ch = c /\ c = channel /\ ended' = ended
            \/ sockets[s].ch \in ended /\ sockets[s].ch \in ended'
<1>1. sockets[s].ch \in Channels /\ (sockets[s].ch = channel \/ sockets[s].ch \in ended)
  BY DEF ListenInv, SocketsListen, Listens
<1>2. CASE channel = None
  <2>1. sockets[s].ch # c /\ ended' = ended \ {c} /\ sockets[s].ch \in ended
    BY <1>1, <1>2, NoneIsNoObject DEF GetOrCreate, ChannelUnused
  <2> QED  BY <1>1, <2>1
<1>3. CASE channel # None
  BY <1>1, <1>3 DEF GetOrCreate
<1> QED  BY <1>2, <1>3

LEMMA OpenStreamListens ==
  ASSUME ~Overlap, ListenInv, TypeInv', NEW w \in Writers,
         NEW kind \in {"launch", "resume", "continue", "reattach"}, OpenStream(w, kind)
  PROVE  WriterInv' /\ SocketsListen'
<1>1. PICK c \in Channels, x \in Screens :
        /\ GetOrCreate(c) /\ GetOrCreateScreen(x)
        /\ writers' = [writers EXCEPT ![w] =
             [pc   |-> IF kind = "reattach" THEN "attaching" ELSE "booting",
              kind |-> kind, ch |-> c, scr |-> x]]
        /\ sockets' = sockets \/ sockets' = Told(c)
  BY DEF OpenStream
<1>2. TypeInv /\ SocketsListen /\ writers \in [Writers -> Writer]
  BY TypeParts DEF ListenInv
<1>3. WriterInv'
  <2>1. \A v \in Writers : writers[v].pc = "idle"
    BY DEF OpenStream, Busy
  <2>2. \A v \in Writers \ {w} : writers'[v].pc = "idle"
    BY <1>1, <1>2, <2>1
  <2>3. writers'[w].ch = c /\ channel' = c
    BY <1>1, <1>2 DEF GetOrCreate
  <2> QED  BY <2>2, <2>3 DEF WriterInv, Busy
<1>4. SocketsListen'
  <2> SUFFICES ASSUME NEW s \in Sockets PROVE Listens(sockets'[s], channel', ended')
    BY DEF SocketsListen
  <2>1. KeepsChannel(sockets[s], sockets'[s])
    BY <1>1, <1>2, ToldKeeps DEF KeepsChannel
  <2>2. Listens(Closed, channel', ended')
    BY DEF Listens, Closed
  <2>3. CASE sockets'[s] = Closed
    BY <2>2, <2>3
  <2>4. CASE sockets'[s] # Closed
    <3>1. sockets[s].pc # "closed" /\ sockets'[s].pc # "closed" /\ sockets'[s].ch = sockets[s].ch
      BY <1>2, <2>1, <2>4 DEF KeepsChannel, SocketsListen, Listens
    <3>2. channel' = c
      BY <1>1 DEF GetOrCreate
    <3>3. sockets[s].ch \in Channels /\ (sockets[s].ch = c \/ sockets[s].ch \in ended')
      BY <1>1, <3>1, CreatedIsNew
    <3> QED  BY <3>1, <3>2, <3>3 DEF Listens
  <2> QED  BY <2>3, <2>4
<1> QED  BY <1>3, <1>4

\* A life that writes, or moves, changes nobody's channel.
LEMMA WriterListens ==
  ASSUME ListenInv, TypeInv', NEW w \in Writers,
         \/ ContainerStarted(w) \/ LogsFollowed(w) \/ BytesArrive(w)
         \/ RunFinishes(w) \/ RunSuspends(w) \/ ReattachFails(w)
  PROVE  WriterInv' /\ SocketsListen'
<1>1. TypeInv /\ WriterInv /\ SocketsListen /\ writers \in [Writers -> Writer]
  BY TypeParts DEF ListenInv
<1>2. Busy(w) /\ channel' = channel /\ screen' = screen /\ ended' = ended
  BY DEF ContainerStarted, LogsFollowed, BytesArrive, RunFinishes, RunSuspends,
         ReattachFails, registry, Busy
<1>3. writers[w].ch \in Channels
  BY <1>1, <1>2, TypeParts DEF WritersHold
<1>4. /\ \A v \in Writers \ {w} : writers'[v] = writers[v]
      /\ writers'[w].pc = "idle" \/ writers'[w].ch = writers[w].ch
  <2>0. writers[w] \in Writer
    BY <1>1
  <2>1. CASE UNCHANGED writers
    BY <2>1
  <2>2. CASE \/ writers' = [writers EXCEPT ![w].pc = "streaming"]
             \/ writers' = [writers EXCEPT ![w].pc = "closing"]
             \/ writers' = [writers EXCEPT ![w].pc = "suspending"]
    BY <1>1, <2>0, <2>2 DEF Writer
  <2>3. CASE writers' = [writers EXCEPT ![w] = Idle]
    BY <1>1, <2>3 DEF Idle
  <2> QED  BY <2>1, <2>2, <2>3 DEF ContainerStarted, LogsFollowed, BytesArrive,
                                    RunFinishes, RunSuspends, ReattachFails, lives
<1>5. WriterInv'
  BY <1>1, <1>2, <1>4, WritersAgree
<1>6. sockets' = sockets \/ sockets' = Told(writers[w].ch)
  BY DEF ContainerStarted, LogsFollowed, BytesArrive, RunFinishes, RunSuspends,
         ReattachFails, OnBytes
<1>7. \A s \in Sockets : KeepsChannel(sockets[s], sockets'[s])
  BY <1>1, <1>3, <1>6, ToldKeeps DEF KeepsChannel
<1>8. SocketsListen'
  BY <1>1, <1>2, <1>7, ListensOn
<1> QED  BY <1>5, <1>8

LEMMA EndListens ==
  ASSUME ListenInv, TypeInv', NEW w \in Writers,
         StreamReleased(w) \/ StreamSuspended(w) \/ LifeFails(w)
  PROVE  WriterInv' /\ SocketsListen'
<1>1. TypeInv /\ WriterInv /\ SocketsListen /\ writers \in [Writers -> Writer]
  BY TypeParts DEF ListenInv
<1>2. Busy(w) /\ EndOf(w)
  BY DEF StreamReleased, StreamSuspended, LifeFails, Busy
<1>3. writers[w].ch = channel
  BY <1>1, <1>2 DEF WriterInv
<1>4. ended \subseteq ended' /\ channel \in ended' /\ sockets' = EndSockets(channel)
  BY <1>2, <1>3 DEF EndOf
<1>5. \A v \in Writers \ {w} : writers'[v] = writers[v]
  BY <1>1, <1>2 DEF EndOf
<1>6. writers'[w].pc = "idle"
  BY <1>1, <1>2 DEF EndOf, Idle
<1>7. WriterInv'
  BY <1>1, <1>2, <1>5, <1>6, WritersAgree
<1>8. \A s \in Sockets : KeepsChannel(sockets[s], sockets'[s])
  BY <1>1, <1>4, EndedKeeps
<1>9. SocketsListen'
  BY <1>1, <1>4, <1>8, ListensOn
<1> QED  BY <1>7, <1>9

LEMMA CancelListens ==
  ASSUME ~Overlap, ListenInv, TypeInv', CancelAwaiting
  PROVE  WriterInv' /\ SocketsListen'
<1>1. TypeInv /\ WriterInv /\ SocketsListen
  BY DEF ListenInv
<1>2. WriterInv'
  BY <1>1, WritersRest DEF CancelAwaiting
<1>3. ended \subseteq ended' /\ (channel = None \/ channel \in ended')
  BY DEF CancelAwaiting, EndRegistered
<1>4. \A s \in Sockets : KeepsChannel(sockets[s], sockets'[s])
  BY <1>1, EndedKeeps DEF CancelAwaiting
<1>5. SocketsListen'
  BY <1>1, <1>3, <1>4, ListensOn
<1> QED  BY <1>2, <1>5

LEMMA CrashListens ==
  ASSUME ListenInv, TypeInv', Crash
  PROVE  WriterInv' /\ SocketsListen'
<1>1. \A w \in Writers : writers'[w].pc = "idle"
  BY DEF Crash, Idle
<1>2. WriterInv'
  BY <1>1 DEF WriterInv, Busy
<1>3. \A s \in Sockets : sockets'[s] = Closed
  BY DEF Crash
<1>4. Listens(Closed, channel', ended')
  BY DEF Listens, Closed
<1>5. SocketsListen'
  BY <1>3, <1>4 DEF SocketsListen
<1> QED  BY <1>2, <1>5

LEMMA ConnectListens ==
  ASSUME ListenInv, TypeInv', NEW s \in Sockets, Connect(s)
  PROVE  WriterInv' /\ SocketsListen'
<1>1. PICK c \in Channels :
        /\ GetOrCreate(c)
        /\ sockets' = [sockets EXCEPT ![s] = [Closed EXCEPT !.pc = "hello", !.ch = c]]
  BY DEF Connect
<1>2. TypeInv /\ WriterInv /\ SocketsListen /\ sockets \in [Sockets -> Socket]
  BY TypeParts DEF ListenInv
<1>3. channel' = c /\ (channel' = channel \/ channel = None) /\ UNCHANGED writers
  BY <1>1 DEF GetOrCreate, Connect, lives
<1>4. WriterInv'
  BY <1>2, <1>3, WritersRest
<1>5. SocketsListen'
  <2> SUFFICES ASSUME NEW u \in Sockets PROVE Listens(sockets'[u], channel', ended')
    BY DEF SocketsListen
  <2>1. CASE u = s
    <3>1. sockets'[u].pc = "hello" /\ sockets'[u].ch = c
      BY <1>1, <1>2, <2>1 DEF Closed
    <3> QED  BY <1>3, <3>1 DEF Listens
  <2>2. CASE u # s /\ sockets[u].pc = "closed"
    <3>1. sockets'[u] = sockets[u] /\ sockets[u] = Closed
      BY <1>1, <1>2, <2>2 DEF SocketsListen, Listens
    <3> QED  BY <3>1 DEF Listens, Closed
  <2>3. CASE u # s /\ sockets[u].pc # "closed"
    <3>1. sockets'[u] = sockets[u]
      BY <1>1, <1>2, <2>3
    <3>2. sockets[u].ch \in Channels /\ (sockets[u].ch = c \/ sockets[u].ch \in ended')
      BY <1>1, <2>3, CreatedIsNew
    <3> QED  BY <1>3, <2>3, <3>1, <3>2 DEF Listens
  <2> QED  BY <2>1, <2>2, <2>3
<1> QED  BY <1>4, <1>5

\* The other steps change the registered channel of nobody.
LEMMA SocketListens ==
  ASSUME ListenInv, TypeInv', NEW s \in Sockets,
         Disconnect(s) \/ Hello(s) \/ HelloAgain(s) \/ Resized(s) \/ SnapshotSent(s)
  PROVE  WriterInv' /\ SocketsListen'
<1>1. TypeInv /\ WriterInv /\ SocketsListen /\ sockets \in [Sockets -> Socket]
  BY TypeParts DEF ListenInv
<1>2. channel' = channel /\ ended' = ended /\ UNCHANGED writers
  BY DEF Disconnect, Hello, HelloAgain, Resized, SnapshotSent, registry, lives
<1>3. WriterInv'
  BY <1>1, <1>2, WritersRest
<1>4. \A u \in Sockets \ {s} : sockets'[u] = sockets[u]
  BY <1>1 DEF Disconnect, Hello, HelloAgain, TakeScreen, Resized, SnapshotSent
<1>5. KeepsChannel(sockets[s], sockets'[s])
  <2>0. sockets[s] \in Socket
    BY <1>1
  <2>1. CASE Disconnect(s)
    BY <1>1, <2>1 DEF Disconnect, KeepsChannel
  <2>2. CASE Hello(s) \/ HelloAgain(s)
    BY <1>1, <2>0, <2>2 DEF Hello, HelloAgain, TakeScreen, KeepsChannel, Socket
  <2>3. CASE Resized(s)
    BY <1>1, <2>0, <2>3 DEF Resized, KeepsChannel, Socket
  <2>4. CASE SnapshotSent(s) /\ EndNoticed(s)
    BY <1>1, <2>4 DEF SnapshotSent, KeepsChannel
  <2>5. CASE SnapshotSent(s) /\ ~EndNoticed(s)
    <3>1. PICK n : sockets' = [sockets EXCEPT ![s] = Served(sockets[s], drawn[sockets[s].scr], n)]
      BY <1>1, <2>5, ServedSocket
    <3>2. /\ Served(sockets[s], drawn[sockets[s].scr], n).pc = "live"
          /\ Served(sockets[s], drawn[sockets[s].scr], n).ch = sockets[s].ch
      BY <2>0 DEF Served, Socket
    <3> QED  BY <1>1, <2>5, <3>1, <3>2 DEF KeepsChannel, SnapshotSent
  <2> QED  BY <2>1, <2>2, <2>3, <2>4, <2>5
<1>6. \A u \in Sockets : KeepsChannel(sockets[u], sockets'[u])
  BY <1>4, <1>5 DEF KeepsChannel
<1>7. SocketsListen'
  BY <1>1, <1>2, <1>6, ListensOn
<1> QED  BY <1>3, <1>7

LEMMA RebuildListens ==
  ASSUME ListenInv, TypeInv', RebuildNext \/ Recovered \/ ContainerWritesUnread
  PROVE  WriterInv' /\ SocketsListen'
<1>1. TypeInv /\ WriterInv /\ SocketsListen /\ \A s \in Sockets : sockets[s] \in Socket
  BY TypeParts DEF ListenInv
<1>2. channel' = channel /\ ended' = ended /\ UNCHANGED writers
  BY DEF RebuildNext, RebuildSized, RebuildReads, RebuildDone, RebuildFails, Recovered,
         ContainerWritesUnread, registry, lives
<1>3. WriterInv'
  BY <1>1, <1>2, WritersRest
<1>4. \A s \in Sockets : KeepsChannel(sockets[s], sockets'[s])
  <2> SUFFICES ASSUME NEW s \in Sockets PROVE KeepsChannel(sockets[s], sockets'[s])
    OBVIOUS
  <2>0. sockets[s] \in Socket
    BY <1>1
  <2>1. CASE UNCHANGED sockets
    BY <2>1 DEF KeepsChannel
  <2>2. CASE RebuildDone
    BY <2>0, <2>2 DEF RebuildDone, KeepsChannel, Socket
  <2>3. CASE RebuildFails
    BY <2>0, <2>3 DEF RebuildFails, SnapshotError, KeepsChannel, Socket
  <2> QED  BY <2>1, <2>2, <2>3 DEF RebuildNext, RebuildSized, RebuildReads, Recovered,
                                    ContainerWritesUnread
<1>5. SocketsListen'
  BY <1>1, <1>2, <1>4, ListensOn
<1> QED  BY <1>3, <1>5

LEMMA InitListens == Init => ListenInv
<1> SUFFICES ASSUME Init PROVE ListenInv
  OBVIOUS
<1>1. WriterInv
  BY DEF Init, WriterInv, Busy, Idle
<1>2. SocketsListen
  BY DEF Init, SocketsListen, Listens, Closed
<1> QED  BY <1>1, <1>2, InitTyped DEF ListenInv

LEMMA NextListens ==
  ASSUME ~Overlap
  PROVE  ListenInv /\ [Next]_vars => ListenInv'
<1> SUFFICES ASSUME ListenInv, [Next]_vars PROVE ListenInv'
  OBVIOUS
<1>0. TypeInv'
  BY NextTyped DEF ListenInv
<1>1. ASSUME NEW w \in Writers, WriterNext(w) PROVE WriterInv' /\ SocketsListen'
  BY <1>0, <1>1, OpenStreamListens, WriterListens, EndListens DEF WriterNext
<1>2. ASSUME NEW s \in Sockets, SocketNext(s) PROVE WriterInv' /\ SocketsListen'
  BY <1>0, <1>2, ConnectListens, SocketListens DEF SocketNext
<1>3. RebuildNext \/ Recovered \/ ContainerWritesUnread => WriterInv' /\ SocketsListen'
  BY <1>0, RebuildListens
<1>4. CancelAwaiting \/ Crash => WriterInv' /\ SocketsListen'
  BY <1>0, CancelListens, CrashListens
<1>5. UNCHANGED vars => WriterInv' /\ SocketsListen'
  BY DEF vars, registry, lives, ListenInv, WriterInv, Busy, SocketsListen, Listens
<1> QED  BY <1>0, <1>1, <1>2, <1>3, <1>4, <1>5 DEF Next, ListenInv

-----------------------------------------------------------------------------
(* What is heard, drawn and shown.                                         *)

Longer(a, b) == Len(a) <= Len(b) /\ \A i \in 1..Len(a) : b[i] = a[i]

LEMMA LongerSets ==
  ASSUME NEW S, NEW a \in Seq(S), NEW b \in Seq(S), Longer(a, b)
  PROVE  /\ ToSet(a) \subseteq ToSet(b)
         /\ \A n \in Nat : n <= Len(a) => n <= Len(b) /\ Upto(b, n) = Upto(a, n)
<1>1. Len(a) \in Nat /\ Len(b) \in Nat /\ DOMAIN a = 1..Len(a) /\ DOMAIN b = 1..Len(b)
  OBVIOUS
<1>2. \A i \in 1..Len(a) : i \in 1..Len(b) /\ b[i] = a[i]
  BY <1>1 DEF Longer
<1>3. ToSet(a) \subseteq ToSet(b)
  BY <1>1, <1>2 DEF ToSet
<1>4. ASSUME NEW n \in Nat, n <= Len(a) PROVE n <= Len(b) /\ Upto(b, n) = Upto(a, n)
  <2>1. n <= Len(b) /\ \A i \in 1..n : i \in 1..Len(a)
    BY <1>1, <1>4 DEF Longer
  <2> QED  BY <2>1, <1>2 DEF Upto
<1> QED  BY <1>3, <1>4

LEMMA AppendIsLonger ==
  ASSUME NEW S, NEW a \in Seq(S), NEW e \in S
  PROVE  Longer(a, Append(a, e))
BY DEF Longer

\* Screens that grow take nothing back.
LEMMA SoundKept ==
  ASSUME NEW d \in [Screens -> Seq(Chunks)], NEW e \in [Screens -> Seq(Chunks)],
         NEW r \in Socket, NEW x, NEW gone, Sound(r, x, d, gone),
         r.pc \in {"resizing", "draining"} => r.scr \in Screens,
         \A y \in Screens : y = x \/ y = r.scr => Longer(d[y], e[y])
  PROVE  Sound(r, x, e, gone)
<1>1. \A y \in Screens : d[y] \in Seq(Chunks) /\ e[y] \in Seq(Chunks)
  OBVIOUS
<1>2. r.mark \in Nat
  BY DEF Socket
<1>3. r.heard # {} => r.heard \subseteq ToSet(e[x])
  <2> SUFFICES ASSUME r.heard # {} PROVE r.heard \subseteq ToSet(e[x])
    OBVIOUS
  <2>1. x \in Screens /\ r.heard \subseteq ToSet(d[x])
    BY DEF Sound
  <2>2. ToSet(d[x]) \subseteq ToSet(e[x])
    BY <1>1, <2>1, LongerSets
  <2> QED  BY <2>1, <2>2
<1>4. r.pc = "resizing" => r.heard \subseteq ToSet(e[r.scr]) \cup ToSet(r.pending)
  <2> SUFFICES ASSUME r.pc = "resizing"
               PROVE  r.heard \subseteq ToSet(e[r.scr]) \cup ToSet(r.pending)
    OBVIOUS
  <2>1. r.scr \in Screens /\ r.heard \subseteq ToSet(d[r.scr]) \cup ToSet(r.pending)
    BY DEF Sound
  <2>2. ToSet(d[r.scr]) \subseteq ToSet(e[r.scr])
    BY <1>1, <2>1, LongerSets
  <2> QED  BY <2>1, <2>2
<1>5. r.pc = "draining" => /\ r.mark <= Len(e[r.scr])
                           /\ r.heard \subseteq Upto(e[r.scr], r.mark) \cup ToSet(r.pending)
  <2> SUFFICES ASSUME r.pc = "draining"
               PROVE  /\ r.mark <= Len(e[r.scr])
                      /\ r.heard \subseteq Upto(e[r.scr], r.mark) \cup ToSet(r.pending)
    OBVIOUS
  <2>1. /\ r.scr \in Screens /\ r.mark <= Len(d[r.scr])
        /\ r.heard \subseteq Upto(d[r.scr], r.mark) \cup ToSet(r.pending)
    BY DEF Sound
  <2>2. r.mark <= Len(e[r.scr]) /\ Upto(e[r.scr], r.mark) = Upto(d[r.scr], r.mark)
    BY <1>1, <1>2, <2>1, LongerSets
  <2> QED  BY <2>1, <2>2
<1> QED  BY <1>3, <1>4, <1>5 DEF Sound

LEMMA SoundFed ==
  ASSUME TypeOK, NEW d \in [Screens -> Seq(Chunks)], NEW x \in Screens,
         NEW r \in Socket, NEW gone, Sound(r, x, d, gone),
         r.pc \in {"resizing", "draining"} => r.scr \in Screens
  PROVE  Sound(r, x, Fed(d, x), gone)
<1>1. Fed(d, x) \in [Screens -> Seq(Chunks)]
  BY FedScreens
<1>2. ASSUME NEW y \in Screens PROVE Longer(d[y], Fed(d, x)[y])
  <2>1. d[y] \in Seq(Chunks)
    OBVIOUS
  <2>2. CASE Full \/ y # x
    <3>1. Fed(d, x)[y] = d[y] /\ Len(d[y]) \in Nat
      BY <2>1, <2>2, FedScreens
    <3> QED  BY <3>1 DEF Longer
  <2>3. CASE ~Full /\ y = x
    BY <2>1, <2>3, FedScreens, NextChunk, AppendIsLonger
  <2> QED  BY <2>2, <2>3
<1> QED  BY <1>1, <1>2, SoundKept

\* A chunk that is on the registered screen may be heard.
LEMMA SoundHears ==
  ASSUME NEW d \in [Screens -> Seq(Chunks)], NEW x \in Screens,
         NEW r \in Socket, NEW gone, Sound(r, x, d, gone), r.ch \notin gone,
         NEW k \in Chunks, k \in ToSet(d[x])
  PROVE  Sound(Hear(r, k), x, d, gone)
<1>1. PICK q : q = Hear(r, k)
  OBVIOUS
<1>2. /\ q.pc = r.pc /\ q.first = r.first /\ q.ch = r.ch /\ q.scr = r.scr /\ q.mark = r.mark
      /\ q.heard = r.heard \cup {k}
  BY <1>1, HearTyped
<1>3. r.view \in Seq(Chunks) /\ r.pending \in Seq(Chunks)
  BY DEF Socket
<1>4. CASE r.pc = "live"
  <2>1. q.view = Append(r.view, k) /\ q.pending = r.pending
    BY <1>1, <1>4, HearTyped
  <2>2. ToSet(q.view) = ToSet(r.view) \cup {k}
    BY <1>3, <2>1, AppendedSet
  <2>3. Sound(q, x, d, gone)
    BY <1>2, <1>4, <2>1, <2>2 DEF Sound
  <2> QED  BY <1>1, <2>3
<1>5. CASE r.pc # "live"
  <2>1. q.pending = Append(r.pending, k) /\ q.view = r.view
    BY <1>1, <1>5, HearTyped
  <2>2. ToSet(q.pending) = ToSet(r.pending) \cup {k}
    BY <1>3, <2>1, AppendedSet
  <2>3. Sound(q, x, d, gone)
    BY <1>2, <1>5, <2>1, <2>2 DEF Sound
  <2> QED  BY <1>1, <2>3
<1> QED  BY <1>4, <1>5

\* One call appends a chunk to the screen and tells the sockets.
LEMMA SoundTold ==
  ASSUME TypeInv, NEW d \in [Screens -> Seq(Chunks)], NEW x \in Screens, NEW c, NEW gone,
         gone \subseteq ended, NEW s \in Sockets, Sound(sockets[s], x, d, gone)
  PROVE  Sound(Told(c)[s], x, Fed(d, x), gone)
<1>1. TypeOK /\ sockets[s] \in Socket /\ Fed(d, x) \in [Screens -> Seq(Chunks)]
  BY TypeParts, FedScreens DEF TypeInv
<1>2. Sound(sockets[s], x, Fed(d, x), gone)
  BY <1>1, TypeParts, SoundFed DEF SocketsHold
<1>3. CASE Full \/ c \in ended \/ sockets[s].ch # c
  BY <1>1, <1>2, <1>3, ToldSockets
<1>4. CASE ~(Full \/ c \in ended \/ sockets[s].ch # c)
  <2>1. log + 1 \in Chunks /\ d[x] \in Seq(Chunks)
    BY <1>1, <1>4, NextChunk
  <2>2. Fed(d, x)[x] = Append(d[x], log + 1)
    BY <1>1, <1>4, FedScreens
  <2>3. log + 1 \in ToSet(Fed(d, x)[x])
    BY <2>1, <2>2, AppendedSet
  <2>4. Told(c)[s] = Hear(sockets[s], log + 1)
    BY <1>1, <1>4, ToldSockets
  <2> QED  BY <1>1, <1>2, <1>4, <2>1, <2>3, <2>4, SoundHears
<1> QED  BY <1>3, <1>4

\* Who has heard nothing does not mind which screen is registered.
LEMMA SoundSilent ==
  ASSUME NEW d, NEW r, NEW x, NEW y, NEW gone, NEW gone2, Sound(r, x, d, gone), r.heard = {},
         r.ch \in gone2 => r.first /\ r.pc # "live"
  PROVE  Sound(r, y, d, gone2)
BY DEF Sound

LEMMA SoundClosed ==
  ASSUME NEW x, NEW d, NEW gone, gone \subseteq Channels
  PROVE  Sound(Closed, x, d, gone)
<1>1. Closed.pc = "closed" /\ Closed.heard = {} /\ Closed.ch = None /\ Closed.ch \notin gone
  BY NoneIsNoObject DEF Closed
<1> QED  BY <1>1 DEF Sound

LEMMA OpenStreamSounds ==
  ASSUME ~Overlap, HeardInv, ListenInv', NEW w \in Writers,
         NEW kind \in {"launch", "resume", "continue", "reattach"}, OpenStream(w, kind)
  PROVE  WritersDraw' /\ SocketsSound'
<1>1. PICK c \in Channels, x \in Screens :
        /\ GetOrCreate(c) /\ GetOrCreateScreen(x)
        /\ writers' = [writers EXCEPT ![w] =
             [pc   |-> IF kind = "reattach" THEN "attaching" ELSE "booting",
              kind |-> kind, ch |-> c, scr |-> x]]
        /\ \/ drawn' = Blank(x) /\ sockets' = sockets
           \/ drawn' = Fed(Blank(x), x) /\ sockets' = Told(c)
  BY DEF OpenStream
<1>2. /\ TypeInv /\ TypeOK /\ SocketsListen /\ SocketsSound
      /\ writers \in [Writers -> Writer] /\ drawn \in [Screens -> Seq(Chunks)]
      /\ \A s \in Sockets : sockets[s] \in Socket
  BY TypeParts DEF ListenInv, HeardInv, TypeInv
<1>3. screen' = x /\ ended' \subseteq ended
  BY <1>1 DEF GetOrCreate, GetOrCreateScreen
<1>4. WritersDraw'
  <2>1. \A v \in Writers \ {w} : writers'[v].pc = "idle"
    BY <1>1, <1>2 DEF OpenStream, Busy
  <2>2. writers'[w].scr = x
    BY <1>1, <1>2
  <2> QED  BY <1>3, <2>1, <2>2 DEF WritersDraw, Busy
<1>5. <<>> \in Seq(Chunks)
  OBVIOUS
<1>6. PICK none : none = <<>>
  OBVIOUS
<1>7. Blank(x) = IF screen = None THEN [drawn EXCEPT ![x] = none] ELSE drawn
  BY <1>6 DEF Blank
<1>8. Blank(x) \in [Screens -> Seq(Chunks)]
  BY <1>2, <1>5, <1>6, <1>7
<1>9. ASSUME NEW s \in Sockets PROVE Sound(sockets[s], x, Blank(x), ended')
  <2>1. Sound(sockets[s], screen, drawn, ended)
    BY <1>2 DEF SocketsSound
  <2>2. CASE screen = None
    <3>1. sockets[s].heard = {}
      BY <2>1, <2>2, NoneIsNoObject DEF Sound
    <3>2. ScreenUnused(x)
      BY <1>1, <2>2 DEF GetOrCreateScreen
    <3>3. \A y \in Screens : y = screen \/ y = sockets[s].scr => Longer(drawn[y], Blank(x)[y])
      <4> SUFFICES ASSUME NEW y \in Screens, y = sockets[s].scr
                   PROVE  Longer(drawn[y], Blank(x)[y])
        BY <2>2, NoneIsNoObject
      <4>1. y # x
        BY <3>2 DEF ScreenUnused
      <4>2. Blank(x)[y] = drawn[y] /\ Len(drawn[y]) \in Nat
        BY <1>2, <1>7, <4>1
      <4> QED  BY <4>2 DEF Longer
    <3>4. Sound(sockets[s], screen, Blank(x), ended)
      BY <1>2, <1>8, <2>1, <3>3, SoundKept, TypeParts DEF SocketsHold
    <3>5. sockets[s].ch \in ended' => sockets[s].first /\ sockets[s].pc # "live"
      BY <1>3, <2>1 DEF Sound
    <3> QED  BY <3>1, <3>4, <3>5, SoundSilent
  <2>3. CASE screen # None
    <3>1. screen = x /\ Blank(x) = drawn
      BY <1>1, <1>7, <2>3 DEF GetOrCreateScreen
    <3> QED  BY <1>3, <2>1, <3>1 DEF Sound
  <2> QED  BY <2>2, <2>3
<1>10. SocketsSound'
  <2> SUFFICES ASSUME NEW s \in Sockets PROVE Sound(sockets'[s], x, drawn', ended')
    BY <1>3 DEF SocketsSound
  <2>1. CASE drawn' = Blank(x) /\ sockets' = sockets
    BY <1>9, <2>1
  <2>2. CASE drawn' = Fed(Blank(x), x) /\ sockets' = Told(c)
    <3>1. Sound(Told(c)[s], x, Fed(Blank(x), x), ended')
      BY <1>2, <1>3, <1>8, <1>9, SoundTold
    <3> QED  BY <2>2, <3>1
  <2> QED  BY <1>1, <2>1, <2>2
<1> QED  BY <1>4, <1>10

LEMMA WriterSounds ==
  ASSUME ~Faults, HeardInv, ListenInv', NEW w \in Writers,
         \/ ContainerStarted(w) \/ LogsFollowed(w) \/ BytesArrive(w)
         \/ RunFinishes(w) \/ RunSuspends(w) \/ ReattachFails(w)
  PROVE  WritersDraw' /\ SocketsSound'
<1>1. /\ TypeInv /\ WritersDraw /\ SocketsSound /\ writers \in [Writers -> Writer]
      /\ drawn \in [Screens -> Seq(Chunks)]
  BY TypeParts DEF ListenInv, HeardInv
<1>2. Busy(w) /\ screen' = screen /\ ended' = ended
  BY DEF ContainerStarted, LogsFollowed, BytesArrive, RunFinishes, RunSuspends,
         ReattachFails, registry, Busy
<1>3. writers[w].scr = screen /\ screen \in Screens
  BY <1>1, <1>2, TypeParts DEF WritersDraw, WritersHold
<1>4. /\ \A v \in Writers \ {w} : writers'[v] = writers[v]
      /\ writers'[w].scr = writers[w].scr
  <2>0. writers[w] \in Writer
    BY <1>1
  <2>1. CASE UNCHANGED writers
    BY <2>1
  <2>2. CASE \/ writers' = [writers EXCEPT ![w].pc = "streaming"]
             \/ writers' = [writers EXCEPT ![w].pc = "closing"]
             \/ writers' = [writers EXCEPT ![w].pc = "suspending"]
    BY <1>1, <2>0, <2>2 DEF Writer
  <2> QED  BY <2>1, <2>2 DEF ContainerStarted, LogsFollowed, BytesArrive,
                              RunFinishes, RunSuspends, ReattachFails, lives
<1>5. WritersDraw'
  BY <1>1, <1>2, <1>3, <1>4 DEF WritersDraw, Busy
<1>6. SocketsSound'
  <2>1. CASE UNCHANGED <<drawn, sockets>>
    BY <1>1, <1>2, <2>1 DEF SocketsSound
  <2>2. CASE OnBytes(w)
    <3> SUFFICES ASSUME NEW s \in Sockets PROVE Sound(sockets'[s], screen, drawn', ended)
      BY <1>2 DEF SocketsSound
    <3>1. Sound(sockets[s], screen, drawn, ended)
      BY <1>1 DEF SocketsSound
    <3>2. Sound(Told(writers[w].ch)[s], screen, Fed(drawn, screen), ended)
      BY <1>1, <1>3, <3>1, SoundTold
    <3> QED  BY <1>3, <2>2, <3>2 DEF OnBytes
  <2> QED  BY <2>1, <2>2 DEF ContainerStarted, LogsFollowed, BytesArrive,
                              RunFinishes, RunSuspends, ReattachFails
<1> QED  BY <1>5, <1>6

\* Once the registered channel has ended, those that heard it are gone.
LEMMA SoundEnded ==
  ASSUME HeardInv, NEW s \in Sockets, NEW gone, gone \subseteq Channels,
         channel = None \/ gone = ended \cup {channel},
         ended \subseteq gone, gone \subseteq ended \cup {channel},
         NEW d, Sound(sockets[s], screen, d, ended), NEW y
  PROVE  Sound(EndSockets(channel)[s], y, d, gone)
<1>1. TypeOK /\ Listens(sockets[s], channel, ended)
  BY DEF HeardInv, ListenInv, TypeInv, SocketsListen
<1>2. Sound(Closed, y, d, gone)
  BY SoundClosed
<1>3. CASE sockets[s].pc = "closed"
  <2>1. sockets[s] = Closed
    BY <1>1, <1>3 DEF Listens
  <2>2. EndSockets(channel)[s] = Closed
    BY <1>1, <2>1, EndedSockets
  <2> QED  BY <1>2, <2>2
<1>4. CASE sockets[s].pc # "closed" /\ sockets[s].ch \in ended
  <2>1. sockets[s].heard = {} /\ sockets[s].first /\ sockets[s].pc # "live"
    BY <1>4 DEF Sound
  <2>2. Sound(sockets[s], y, d, gone)
    BY <2>1, SoundSilent
  <2> QED  BY <1>1, <1>2, <2>2, EndedSockets
<1>5. CASE sockets[s].pc # "closed" /\ sockets[s].ch \notin ended
  <2>1. sockets[s].ch = channel
    BY <1>1, <1>5 DEF Listens
  <2>2. EndSockets(channel)[s] = Closed
    BY <1>1, <1>5, <2>1, EndedSockets
  <2> QED  BY <1>2, <2>2
<1> QED  BY <1>3, <1>4, <1>5

LEMMA EndSounds ==
  ASSUME HeardInv, ListenInv', NEW w \in Writers,
         StreamReleased(w) \/ StreamSuspended(w) \/ LifeFails(w)
  PROVE  WritersDraw' /\ SocketsSound'
<1>1. /\ TypeInv /\ TypeOK /\ WriterInv /\ WritersDraw /\ SocketsSound
      /\ writers \in [Writers -> Writer] /\ drawn \in [Screens -> Seq(Chunks)]
      /\ \A s \in Sockets : sockets[s] \in Socket
  BY TypeParts DEF ListenInv, HeardInv, TypeInv
<1>2. Busy(w) /\ EndOf(w)
  BY DEF StreamReleased, StreamSuspended, LifeFails, Busy
<1>3. writers[w].ch = channel /\ writers[w].scr = screen /\ screen \in Screens
  BY <1>1, <1>2, TypeParts DEF WriterInv, WritersDraw, WritersHold
<1>4. ended' = ended \cup {channel} /\ sockets' = EndSockets(channel) /\ ended' \subseteq Channels
  BY <1>2, <1>3, TypeParts DEF EndOf, ListenInv, TypeInv, TypeOK
<1>5. WritersDraw'
  <2>1. \A v \in Writers : writers'[v].pc = "idle"
    BY <1>1, <1>2 DEF EndOf, WriterInv, Busy, Idle
  <2> QED  BY <2>1 DEF WritersDraw, Busy
<1>6. SocketsSound'
  <2> SUFFICES ASSUME NEW s \in Sockets PROVE Sound(sockets'[s], screen', drawn', ended')
    BY DEF SocketsSound
  <2>1. Sound(sockets[s], screen, drawn, ended)
    BY <1>1 DEF SocketsSound
  <2>2. drawn' = drawn \/ drawn' = Fed(drawn, screen)
    BY <1>3 DEF StreamReleased, StreamSuspended, LifeFails
  <2>3. Sound(sockets[s], screen, Fed(drawn, screen), ended)
    BY <1>1, <1>3, <2>1, SoundFed, TypeParts DEF SocketsHold
  <2>4. Sound(sockets[s], screen, drawn', ended)
    BY <2>1, <2>2, <2>3
  <2> QED  BY <1>4, <2>4, SoundEnded
<1> QED  BY <1>5, <1>6

LEMMA CancelSounds ==
  ASSUME ~Overlap, HeardInv, ListenInv', CancelAwaiting
  PROVE  WritersDraw' /\ SocketsSound'
<1>1. WritersDraw'
  BY DEF CancelAwaiting, WritersDraw, Busy
<1>2. /\ sockets' = EndSockets(channel) /\ drawn' = drawn
      /\ ended' = IF channel = None THEN ended ELSE ended \cup {channel}
  BY DEF CancelAwaiting, EndRegistered
<1>3. ended' \subseteq Channels
  BY DEF ListenInv, TypeInv, TypeOK
<1>4. SocketsSound'
  <2> SUFFICES ASSUME NEW s \in Sockets PROVE Sound(sockets'[s], screen', drawn', ended')
    BY DEF SocketsSound
  <2>1. Sound(sockets[s], screen, drawn, ended)
    BY DEF HeardInv, SocketsSound
  <2>2. Sound(EndSockets(channel)[s], screen', drawn, ended')
    BY <1>2, <1>3, <2>1, SoundEnded
  <2> QED  BY <1>2, <2>2
<1> QED  BY <1>1, <1>4

LEMMA CrashSounds ==
  ASSUME ListenInv', Crash
  PROVE  WritersDraw' /\ SocketsSound'
<1>1. \A w \in Writers : writers'[w].pc = "idle"
  BY DEF Crash, Idle
<1>2. WritersDraw'
  BY <1>1 DEF WritersDraw, Busy
<1>3. ended' \subseteq Channels /\ \A s \in Sockets : sockets'[s] = Closed
  BY DEF ListenInv, TypeInv, TypeOK, Crash
<1>4. SocketsSound'
  BY <1>3, SoundClosed DEF SocketsSound
<1> QED  BY <1>2, <1>4

LEMMA ConnectSounds ==
  ASSUME HeardInv, ListenInv', NEW s \in Sockets, Connect(s)
  PROVE  WritersDraw' /\ SocketsSound'
<1>1. PICK c \in Channels :
        /\ GetOrCreate(c)
        /\ sockets' = [sockets EXCEPT ![s] = [Closed EXCEPT !.pc = "hello", !.ch = c]]
  BY DEF Connect
<1>2. ended' \subseteq ended /\ UNCHANGED <<writers, screen, drawn>>
  BY <1>1 DEF GetOrCreate, Connect, lives
<1>3. WritersDraw' /\ sockets \in [Sockets -> Socket]
  BY <1>2, TypeParts DEF HeardInv, ListenInv, WritersDraw, Busy
<1>4. SocketsSound'
  <2> SUFFICES ASSUME NEW u \in Sockets PROVE Sound(sockets'[u], screen, drawn, ended')
    BY <1>2 DEF SocketsSound
  <2>1. CASE u = s
    <3>1. PICK r : r = sockets'[u]
      OBVIOUS
    <3>2. r.pc = "hello" /\ r.heard = {} /\ r.first
      BY <1>1, <1>3, <2>1, <3>1 DEF Closed
    <3>3. Sound(r, screen, drawn, ended')
      BY <3>2 DEF Sound
    <3> QED  BY <3>1, <3>3
  <2>2. CASE u # s
    <3>1. sockets'[u] = sockets[u] /\ Sound(sockets[u], screen, drawn, ended)
      BY <1>1, <1>3, <2>2 DEF HeardInv, SocketsSound
    <3> QED  BY <1>2, <3>1 DEF Sound
  <2> QED  BY <2>1, <2>2
<1> QED  BY <1>3, <1>4

\* A screen that is made for a snapshot is one that no socket draws on.
LEMMA TakenSounds ==
  ASSUME HeardInv, NEW s \in Sockets, NEW first \in BOOLEAN, TakeScreen(s, first),
         first \/ sockets[s].pc = "live", ~first \/ sockets[s].pc = "hello", ended' = ended
  PROVE  SocketsSound'
<1>1. /\ TypeInv /\ SocketsSound /\ sockets \in [Sockets -> Socket]
      /\ \A u \in Sockets : sockets[u] \in Socket /\ Sound(sockets[u], screen, drawn, ended)
      /\ screen \in Screens \cup {None} /\ drawn \in [Screens -> Seq(Chunks)]
  BY TypeParts DEF HeardInv, ListenInv, SocketsSound
<1>2. sockets[s] \in Socket /\ Sound(sockets[s], screen, drawn, ended)
  BY <1>1
<1>3. CASE /\ screen # None /\ UNCHANGED <<screen, drawn>>
           /\ sockets' = [sockets EXCEPT ![s].pc = "resizing", ![s].first = first,
                                         ![s].scr = screen]
  <2>1. PICK r : r = [sockets[s] EXCEPT !.pc = "resizing", !.first = first, !.scr = screen]
    OBVIOUS
  <2>2. /\ r.pc = "resizing" /\ r.first = first /\ r.scr = screen /\ r.ch = sockets[s].ch
        /\ r.heard = sockets[s].heard /\ r.view = sockets[s].view
        /\ r.pending = sockets[s].pending
    BY <1>2, <2>1 DEF Socket
  <2>3. sockets[s].ch \in ended => first
    BY <1>2 DEF Sound
  <2>4. r.heard \subseteq ToSet(drawn[r.scr]) \cup ToSet(r.pending)
    BY <1>2, <2>2 DEF Sound
  <2>5. Sound(r, screen, drawn, ended)
    BY <1>2, <2>2, <2>3, <2>4 DEF Sound
  <2>6. \A u \in Sockets : sockets'[u] = IF u = s THEN r ELSE sockets[u]
    BY <1>1, <1>3, <2>1
  <2> QED  BY <1>1, <1>3, <2>5, <2>6 DEF SocketsSound
<1>4. CASE /\ screen = None
           /\ sockets' = [sockets EXCEPT ![s].pc = "rebuilding", ![s].first = first]
  <2>1. PICK r : r = [sockets[s] EXCEPT !.pc = "rebuilding", !.first = first]
    OBVIOUS
  <2>2. /\ r.pc = "rebuilding" /\ r.first = first /\ r.ch = sockets[s].ch
        /\ r.scr = sockets[s].scr
        /\ r.heard = sockets[s].heard /\ r.view = sockets[s].view
        /\ r.pending = sockets[s].pending
    BY <1>2, <2>1 DEF Socket
  <2>3. sockets[s].heard = {}
    BY <1>2, <1>4, NoneIsNoObject DEF Sound
  <2>4. sockets[s].ch \in ended => first
    BY <1>2 DEF Sound
  <2>5. Sound(r, screen, drawn, ended)
    BY <2>2, <2>3, <2>4 DEF Sound
  <2>6. \A u \in Sockets : sockets'[u] = IF u = s THEN r ELSE sockets[u]
    BY <1>1, <1>4, <2>1
  <2>7. \A u \in Sockets : sockets'[u].heard = {} /\ Sound(sockets'[u], screen, drawn, ended)
    <3> SUFFICES ASSUME NEW u \in Sockets
                 PROVE  sockets'[u].heard = {} /\ Sound(sockets'[u], screen, drawn, ended)
      OBVIOUS
    <3>1. CASE u = s
      BY <2>2, <2>3, <2>5, <2>6, <3>1
    <3>2. CASE u # s
      <4>1. Sound(sockets[u], screen, drawn, ended) /\ sockets'[u] = sockets[u]
        BY <1>1, <2>6, <3>2
      <4>2. sockets[u].heard = {}
        BY <1>4, <4>1, NoneIsNoObject DEF Sound
      <4> QED  BY <4>1, <4>2
    <3> QED  BY <3>1, <3>2
  <2>8. CASE UNCHANGED <<screen, drawn>>
    BY <2>7, <2>8 DEF SocketsSound
  <2>9. CASE \E x \in Screens : /\ ScreenUnused(x) /\ screen' = x
                                /\ drawn' = [drawn EXCEPT ![x] = <<>>]
    <3>1. PICK x \in Screens : /\ ScreenUnused(x) /\ screen' = x
                               /\ drawn' = [drawn EXCEPT ![x] = <<>>]
      BY <2>9
    <3>2. <<>> \in Seq(Chunks)
      OBVIOUS
    <3>3. PICK none : none = <<>>
      OBVIOUS
    <3>4. drawn' = [drawn EXCEPT ![x] = none] /\ drawn' \in [Screens -> Seq(Chunks)]
      BY <1>1, <3>1, <3>2, <3>3
    <3> SUFFICES ASSUME NEW u \in Sockets PROVE Sound(sockets'[u], x, drawn', ended)
      BY <3>1 DEF SocketsSound
    <3>5. sockets'[u].scr = sockets[u].scr /\ sockets[u].scr # x
      BY <2>2, <2>6, <3>1 DEF ScreenUnused
    <3>6. \A y \in Screens : y = screen \/ y = sockets'[u].scr => Longer(drawn[y], drawn'[y])
      <4> SUFFICES ASSUME NEW y \in Screens, y = sockets'[u].scr
                   PROVE  Longer(drawn[y], drawn'[y])
        BY <1>4, NoneIsNoObject
      <4>1. drawn'[y] = drawn[y] /\ Len(drawn[y]) \in Nat
        BY <1>1, <3>4, <3>5
      <4> QED  BY <4>1 DEF Longer
    <3>7. sockets'[u] \in Socket
               /\ (sockets'[u].pc \in {"resizing", "draining"} => sockets'[u].scr \in Screens)
      BY <1>1, Taken DEF SocketsHold
    <3>8. Sound(sockets'[u], screen, drawn, ended)
      BY <2>7
    <3>9. Sound(sockets'[u], screen, drawn', ended)
      BY <1>1, <3>4, <3>6, <3>7, <3>8, SoundKept
    <3> QED  BY <2>7, <3>9, SoundSilent DEF Sound
  <2> QED  BY <1>4, <2>8, <2>9 DEF TakeScreen
<1> QED  BY <1>3, <1>4 DEF TakeScreen

LEMMA SnapshotSounds ==
  ASSUME HeardInv, NEW s \in Sockets, SnapshotSent(s)
  PROVE  Sound(sockets'[s], screen, drawn, ended)
<1>1. /\ TypeInv /\ sockets \in [Sockets -> Socket] /\ ended \subseteq Channels
      /\ sockets[s] \in Socket /\ Sound(sockets[s], screen, drawn, ended)
  BY TypeParts DEF HeardInv, ListenInv, SocketsSound
<1>2. CASE EndNoticed(s)
  <2>1. sockets'[s] = Closed
    BY <1>1, <1>2 DEF SnapshotSent
  <2> QED  BY <1>1, <2>1, SoundClosed
<1>3. CASE ~EndNoticed(s)
  <2>1. sockets[s].scr \in Screens /\ sockets[s].pc = "draining"
    BY <1>1, TypeParts DEF SocketsHold, SnapshotSent
  <2>2. PICK d : d = drawn[sockets[s].scr]
    OBVIOUS
  <2>3. d \in Seq(Chunks) /\ Len(d) \in Nat /\ sockets[s].mark \in Nat
    BY <1>1, <2>1, <2>2, TypeParts DEF Socket
  <2>4. PICK n \in sockets[s].mark .. Len(d) :
          sockets' = [sockets EXCEPT ![s] = Served(sockets[s], d, n)]
    BY <1>1, <1>3, <2>2, ServedSocket
  <2>5. n \in Nat /\ n <= Len(d) /\ \A i \in 1..sockets[s].mark : i \in 1..n
    BY <2>3, <2>4
  <2>6. PICK r : r = Served(sockets[s], d, n)
    OBVIOUS
  <2>7. /\ r.pc = "live" /\ r.first = sockets[s].first /\ r.ch = sockets[s].ch
        /\ r.heard = sockets[s].heard /\ r.pending = <<>>
        /\ ToSet(r.view) = Upto(d, n) \cup ToSet(sockets[s].pending)
    BY <1>1, <2>3, <2>5, <2>6, ServedTyped
  <2>8. Upto(d, sockets[s].mark) \subseteq Upto(d, n)
    BY <2>5 DEF Upto
  <2>9. r.heard \subseteq ToSet(r.view)
    BY <1>1, <2>1, <2>2, <2>7, <2>8 DEF Sound
  <2>10. r.ch \notin ended
    BY <1>1, <1>3, <2>7 DEF Sound, EndNoticed
  <2>11. Sound(r, screen, drawn, ended)
    BY <1>1, <2>7, <2>9, <2>10 DEF Sound
  <2> QED  BY <1>1, <2>4, <2>6, <2>11
<1> QED  BY <1>2, <1>3

LEMMA ResizedSounds ==
  ASSUME HeardInv, NEW s \in Sockets, Resized(s)
  PROVE  Sound(sockets'[s], screen, drawn, ended)
<1>1. /\ TypeInv /\ sockets \in [Sockets -> Socket]
      /\ sockets[s] \in Socket /\ Sound(sockets[s], screen, drawn, ended)
  BY TypeParts DEF HeardInv, ListenInv, SocketsSound
<1>2. sockets[s].scr \in Screens /\ drawn[sockets[s].scr] \in Seq(Chunks)
  BY <1>1, ResizedSocket, TypeParts
<1>3. PICK n : n = Len(drawn[sockets[s].scr])
  OBVIOUS
<1>4. n \in Nat /\ Upto(drawn[sockets[s].scr], n) = ToSet(drawn[sockets[s].scr])
  BY <1>2, <1>3, Whole
<1>5. PICK r : r = [sockets[s] EXCEPT !.pc = "draining", !.mark = n]
  OBVIOUS
<1>6. /\ r.pc = "draining" /\ r.first = sockets[s].first /\ r.ch = sockets[s].ch
      /\ r.scr = sockets[s].scr /\ r.mark = n /\ r.heard = sockets[s].heard
      /\ r.view = sockets[s].view /\ r.pending = sockets[s].pending
  BY <1>1, <1>5 DEF Socket
<1>7. sockets'[s] = r
  BY <1>1, <1>3, <1>5 DEF Resized, DrainMark
<1>8. r.heard \subseteq Upto(drawn[r.scr], r.mark) \cup ToSet(r.pending)
  BY <1>1, <1>4, <1>6 DEF Sound, Resized
<1>9. r.mark <= Len(drawn[r.scr])
  BY <1>3, <1>4, <1>6
<1>10. Sound(r, screen, drawn, ended)
  BY <1>1, <1>6, <1>8, <1>9 DEF Sound, Resized
<1> QED  BY <1>7, <1>10

LEMMA SocketSounds ==
  ASSUME HeardInv, ListenInv', NEW s \in Sockets,
         Disconnect(s) \/ Hello(s) \/ HelloAgain(s) \/ Resized(s) \/ SnapshotSent(s)
  PROVE  SocketsSound'
<1>1. CASE Hello(s) \/ HelloAgain(s)
  BY <1>1, TakenSounds DEF Hello, HelloAgain
<1>2. CASE Disconnect(s) \/ Resized(s) \/ SnapshotSent(s)
  <2>1. /\ sockets \in [Sockets -> Socket] /\ ended \subseteq Channels
        /\ \A u \in Sockets : Sound(sockets[u], screen, drawn, ended)
    BY TypeParts DEF HeardInv, ListenInv, SocketsSound
  <2>2. UNCHANGED <<screen, drawn, ended>> /\ \A u \in Sockets \ {s} : sockets'[u] = sockets[u]
    BY <1>2, <2>1 DEF Disconnect, Resized, SnapshotSent, registry
  <2>3. Sound(sockets'[s], screen, drawn, ended)
    <3>1. CASE Disconnect(s)
      <4>1. sockets'[s] = Closed
        BY <2>1, <3>1 DEF Disconnect
      <4> QED  BY <2>1, <4>1, SoundClosed
    <3> QED  BY <1>2, <3>1, ResizedSounds, SnapshotSounds
  <2> QED  BY <2>1, <2>2, <2>3 DEF SocketsSound
<1> QED  BY <1>1, <1>2

LEMMA RebuildSounds ==
  ASSUME ~Faults, HeardInv, ListenInv', RebuildNext \/ Recovered \/ ContainerWritesUnread
  PROVE  SocketsSound'
<1>1. /\ TypeInv /\ SocketsHold /\ drawn \in [Screens -> Seq(Chunks)]
      /\ \A s \in Sockets : sockets[s] \in Socket /\ Sound(sockets[s], screen, drawn, ended)
  BY TypeParts DEF HeardInv, ListenInv, SocketsSound
<1>2. UNCHANGED <<screen, ended>> /\ ~RebuildFails
  BY DEF RebuildNext, RebuildSized, RebuildReads, RebuildDone, RebuildFails, Recovered,
         ContainerWritesUnread, registry
<1>3. CASE UNCHANGED <<drawn, sockets>>
  BY <1>1, <1>2, <1>3 DEF SocketsSound
<1>4. CASE RebuildReads
  <2>1. /\ rebuild.scr \in Screens /\ rebuild.pos + 1 \in Chunks
        /\ drawn' \in [Screens -> Seq(Chunks)]
        /\ \A x \in Screens : drawn'[x] = IF x # rebuild.scr THEN drawn[x]
                                          ELSE Append(drawn[x], rebuild.pos + 1)
    BY <1>1, <1>4, ChunkRead
  <2>2. ASSUME NEW y \in Screens PROVE Longer(drawn[y], drawn'[y])
    <3>1. drawn[y] \in Seq(Chunks) /\ Len(drawn[y]) \in Nat
      BY <1>1
    <3>2. CASE y # rebuild.scr
      BY <2>1, <3>1, <3>2 DEF Longer
    <3>3. CASE y = rebuild.scr
      BY <2>1, <3>1, <3>3, AppendIsLonger
    <3> QED  BY <3>2, <3>3
  <2>3. sockets' = sockets
    BY <1>4 DEF RebuildReads
  <2> SUFFICES ASSUME NEW s \in Sockets PROVE Sound(sockets[s], screen, drawn', ended)
    BY <1>2, <2>3 DEF SocketsSound
  <2> QED  BY <1>1, <2>1, <2>2, SoundKept DEF SocketsHold
<1>5. CASE RebuildDone
  <2> SUFFICES ASSUME NEW s \in Sockets PROVE Sound(sockets'[s], screen, drawn, ended)
    BY <1>2, <1>5 DEF SocketsSound, RebuildDone
  <2>1. CASE sockets[s].pc # "rebuilding"
    <3>1. sockets'[s] = sockets[s]
      BY <1>5, <2>1 DEF RebuildDone
    <3> QED  BY <1>1, <3>1
  <2>2. CASE sockets[s].pc = "rebuilding"
    <3>1. PICK r : r = [sockets[s] EXCEPT !.pc = "resizing", !.scr = rebuild.scr]
      OBVIOUS
    <3>2. sockets'[s] = r
      BY <1>5, <2>2, <3>1 DEF RebuildDone
    <3>3. sockets[s] \in Socket
      BY <1>1
    <3>4. /\ r.pc = "resizing" /\ r.first = sockets[s].first /\ r.ch = sockets[s].ch
          /\ r.heard = sockets[s].heard
          /\ r.view = sockets[s].view /\ r.pending = sockets[s].pending
      BY <3>1, <3>3 DEF Socket
    <3>5. Sound(r, screen, drawn, ended)
      BY <1>1, <2>2, <3>4 DEF Sound
    <3> QED  BY <3>2, <3>5
  <2> QED  BY <2>1, <2>2
<1> QED  BY <1>2, <1>3, <1>4, <1>5
         DEF RebuildNext, RebuildSized, Recovered, ContainerWritesUnread

\* A busy life draws on the registered screen, so nobody makes another.
LEMMA DrawsOn ==
  ASSUME HeardInv, UNCHANGED writers, screen' = screen \/ screen = None
  PROVE  WritersDraw'
<1>1. \A w \in Writers : Busy(w) => writers[w].scr = screen /\ screen # None
  BY TypeParts, NoneIsNoObject DEF HeardInv, ListenInv, WritersDraw, WritersHold
<1> QED  BY <1>1 DEF WritersDraw, Busy

LEMMA InitSounds == Init => HeardInv
<1> SUFFICES ASSUME Init PROVE HeardInv
  OBVIOUS
<1>1. WritersDraw
  BY DEF Init, WritersDraw, Busy, Idle
<1>2. SocketsSound
  BY SoundClosed DEF Init, SocketsSound
<1> QED  BY <1>1, <1>2, InitListens DEF HeardInv

LEMMA NextSounds ==
  ASSUME ~Overlap, ~Faults
  PROVE  HeardInv /\ [Next]_vars => HeardInv'
<1> SUFFICES ASSUME HeardInv, [Next]_vars PROVE HeardInv'
  OBVIOUS
<1>0. ListenInv'
  BY NextListens DEF HeardInv
<1>1. ASSUME NEW w \in Writers, WriterNext(w) PROVE WritersDraw' /\ SocketsSound'
  BY <1>0, <1>1, OpenStreamSounds, WriterSounds, EndSounds DEF WriterNext
<1>2. ASSUME NEW s \in Sockets, SocketNext(s) PROVE WritersDraw' /\ SocketsSound'
  <2>1. CASE Connect(s)
    BY <1>0, <2>1, ConnectSounds
  <2>2. CASE Disconnect(s) \/ Hello(s) \/ HelloAgain(s) \/ Resized(s) \/ SnapshotSent(s)
    <3>1. UNCHANGED writers /\ (screen' = screen \/ screen = None)
      BY <2>2 DEF Disconnect, Hello, HelloAgain, TakeScreen, Resized, SnapshotSent,
                  registry, lives
    <3> QED  BY <1>0, <2>2, <3>1, DrawsOn, SocketSounds
  <2> QED  BY <1>2, <2>1, <2>2 DEF SocketNext
<1>3. RebuildNext \/ Recovered \/ ContainerWritesUnread => WritersDraw' /\ SocketsSound'
  <2> SUFFICES ASSUME RebuildNext \/ Recovered \/ ContainerWritesUnread
               PROVE  WritersDraw' /\ SocketsSound'
    OBVIOUS
  <2>1. UNCHANGED writers /\ screen' = screen
    BY DEF RebuildNext, RebuildSized, RebuildReads, RebuildDone, RebuildFails, Recovered,
           ContainerWritesUnread, registry, lives
  <2> QED  BY <1>0, <2>1, DrawsOn, RebuildSounds
<1>4. CancelAwaiting \/ Crash => WritersDraw' /\ SocketsSound'
  BY <1>0, CancelSounds, CrashSounds
<1>5. UNCHANGED vars => WritersDraw' /\ SocketsSound'
  BY DEF vars, registry, lives, HeardInv, WritersDraw, Busy, SocketsSound
<1> QED  BY <1>0, <1>1, <1>2, <1>3, <1>4, <1>5 DEF Next, HeardInv

-----------------------------------------------------------------------------
(* The theorems.                                                           *)

\* A terminal of the browser is shown the chunks or the modes.
LEMMA ShowsOne == [TerminalNext]_<<shown, vars, modesVars>> => [Next]_vars
BY DEF TerminalNext

\* What the server keeps for a run's stream has its type (logs/registry.ts,
\* broadcaster.ts, screen.ts, api/ws.ts); and a life, a rebuild or a snapshot that
\* goes on holds an object of the kind it needs.
THEOREM StreamsAreTyped == TerminalSpec => [](TypeOK /\ Held)
<1>1. TerminalInit => TypeInv
  BY InitTyped DEF TerminalInit
<1>2. TypeInv /\ [TerminalNext]_<<shown, vars, modesVars>> => TypeInv'
  BY NextTyped, ShowsOne
<1>3. TypeInv => TypeOK /\ Held
  BY DEF TypeInv
<1> QED  BY <1>1, <1>2, <1>3, PTL DEF TerminalSpec

\* A connected terminal listens where the run speaks, or is about to be closed
\* (getOrCreate(), end() and release() of logs/registry.ts, the socket of
\* api/ws.ts), through restarts and failed rebuilds, as long as no call reaches
\* the run while a life of it is there.
THEOREM TerminalsListen ==
  ASSUME ~Overlap
  PROVE  TerminalSpec => []ListensToRun
<1>1. TerminalInit => ListenInv
  BY InitListens DEF TerminalInit
<1>2. ListenInv /\ [TerminalNext]_<<shown, vars, modesVars>> => ListenInv'
  BY NextListens, ShowsOne
<1>3. ListenInv => ListensToRun
  <2> SUFFICES ASSUME ListenInv, NEW s \in Sockets, NEW w \in Writers,
                      Open(s), writers[w].pc = "streaming"
               PROVE  sockets[s].ch = writers[w].ch \/ sockets[s].ch \in ended
    BY DEF ListensToRun
  <2>1. writers[w].ch = channel
    BY DEF ListenInv, WriterInv, Busy
  <2> QED  BY <2>1 DEF ListenInv, SocketsListen, Listens, Open
<1> QED  BY <1>1, <1>2, <1>3, PTL DEF TerminalSpec

\* Whatever a connected terminal was handed is shown or buffered, through any
\* number of snapshots and rebuilds (the handler of api/ws.ts and
\* rebuildScreenFromLog()), as long as no call reaches the run while a life of it
\* is there, and no rebuild fails.
THEOREM WhatIsHeardIsShown ==
  ASSUME ~Overlap, ~Faults
  PROVE  TerminalSpec => []HeardIsShown
<1>1. TerminalInit => HeardInv
  BY InitSounds DEF TerminalInit
<1>2. HeardInv /\ [TerminalNext]_<<shown, vars, modesVars>> => HeardInv'
  BY NextSounds, ShowsOne
<1>3. HeardInv => HeardIsShown
  <2> SUFFICES ASSUME HeardInv, NEW s \in Sockets
               PROVE  sockets[s].heard \subseteq ToSet(sockets[s].view \o sockets[s].pending)
    BY DEF HeardIsShown
  <2>1. sockets[s].view \in Seq(Chunks) /\ sockets[s].pending \in Seq(Chunks)
    BY TypeParts DEF HeardInv, ListenInv, Socket
  <2>2. sockets[s].heard \subseteq ToSet(sockets[s].view) \cup ToSet(sockets[s].pending)
    BY DEF HeardInv, SocketsSound, Sound
  <2> QED  BY <2>1, <2>2, JoinedSet
<1> QED  BY <1>1, <1>2, <1>3, PTL DEF TerminalSpec

================================================================================
