------------------------------ MODULE ScreenModes ------------------------------
(***************************************************************************)
(* The modes of a run's terminal: the program in the container sets them   *)
(* by escape sequences, the ModeScanner of the server's screen picks them  *)
(* out of the bytes, whatever the chunks they come in, and a snapshot      *)
(* gives them to a terminal of the browser, which follows the bytes from   *)
(* then on by itself.                                                      *)
(*                                                                         *)
(* A byte is a token, a number is one token too.  The terminal is xterm,   *)
(* an external program: it is taken to read sequences as the scanner does. *)
(***************************************************************************)
EXTENDS Integers, SequencesExt

CONSTANTS
  Heights,       \* heights of the terminals, in rows
  Numbers,       \* the tokens that number a row, and the row
  Sequences,     \* what the program may write
  MaxSequences,  \* bound on what the program writes
  MaxRestarts    \* bound on restarts of the server

VARIABLES
  written,  \* the sequences the program has begun to write
  rest,     \* what it has yet to write of the last
  scan,     \* the scanner: its state, and the modes it knows
  rows,     \* the height of the server's screen
  client,   \* the socket: away, draining (a snapshot is made), or live
  pending,  \* the bytes buffered behind the snapshot
  term,     \* the terminal of the browser
  height,   \* what its snapshot was clamped to, or 0
  cut,      \* did that snapshot fall into a sequence?
  restarts

program == <<written, rest>>
server == <<scan, rows, restarts>>
browser == <<client, pending, term, height, cut>>
vars == <<program, server, browser>>

-----------------------------------------------------------------------------
\* Modes

Flags == {"7", "25", "1004", "1049", "2004", "2031"}
Mouse == {"1000", "1002", "1003"}
MouseExt == {"1006", "1015", "1016"}
Full == <<>>  \* no scroll region

Defaults == [on |-> {"7", "25"}, mouse |-> "0", ext |-> "0", region |-> Full]

\* Three names are the alternate screen's.
Names == Flags \cup {"47", "1047"} \cup Mouse \cup MouseExt
Flag(n) == IF n \in {"47", "1047"} THEN "1049" ELSE n

\* Mutant: a mode that is reset takes its rivals with it.
ResetsAll(now, n, set) == IF set THEN n ELSE "0"

\* Of modes that exclude each other only the one that is on can be reset.
Choose(now, n, set) == IF set THEN n ELSE IF now = n THEN "0" ELSE now

SetMode(m, n, set) ==
  CASE Flag(n) \in Flags -> [m EXCEPT !.on = IF set THEN @ \cup {Flag(n)} ELSE @ \ {Flag(n)}]
    [] n \in Mouse       -> [m EXCEPT !.mouse = Choose(@, n, set)]
    [] n \in MouseExt    -> [m EXCEPT !.ext = Choose(@, n, set)]
    [] OTHER             -> m

SetModes(m, ns, set) ==
  LET after[i \in 0..Len(ns)] == IF i = 0 THEN m ELSE SetMode(after[i - 1], ns[i], set)
  IN  after[Len(ns)]

\* DECSTBM: both margins, or none.
Region(params) ==
  IF Len(params) >= 3 /\ {params[1], params[3]} \subseteq DOMAIN Numbers
  THEN <<Numbers[params[1]], Numbers[params[3]]>> ELSE Full

Dispatch(p, final) ==
  IF p.private = "?" /\ final \in {"h", "l"}
  THEN SetModes(p.modes, p.params, final = "h")
  ELSE IF p.private = "" /\ final = "r" THEN [p.modes EXCEPT !.region = Region(p.params)]
  ELSE p.modes

-----------------------------------------------------------------------------
\* ModeScanner.scan(), byte by byte

Fresh == [state |-> "normal", private |-> "", params |-> <<>>, modes |-> Defaults]

Marks == {"?", ">"}
Finals == {"h", "l", "r", "q", "["}
Intermediates == {"$"}
Controls == {"esc", "lf"}
Digits == {";"} \cup Names \cup DOMAIN Numbers

\* The parameters are forgotten at once; the code does so before the next sequence.
Over(p) == [p EXCEPT !.state = "normal", !.private = "", !.params = <<>>]

Scanned(p, b) ==
  CASE p.state = "normal" -> IF b = "esc" THEN [p EXCEPT !.state = "esc"] ELSE p
    [] p.state = "esc" ->
         IF b = "[" THEN [p EXCEPT !.state = "csi"] ELSE Over(p)
    [] p.state = "csi" ->
         CASE b \in Marks /\ p.private = "" /\ p.params = <<>> -> [p EXCEPT !.private = b]
           [] b \in Digits        -> [p EXCEPT !.params = Append(@, b)]
           [] b \in Finals        -> [Over(p) EXCEPT !.modes = Dispatch(p, b)]
           [] b \in Intermediates -> p
           [] OTHER               -> Over(p)

ScannedAll(p, bytes) ==
  LET after[i \in 0..Len(bytes)] == IF i = 0 THEN p ELSE Scanned(after[i - 1], bytes[i])
  IN  after[Len(bytes)]

\* Where a parser stands, as far as the next byte goes.
Place(p) == <<p.state, p.private, p.params>>

-----------------------------------------------------------------------------
\* ModeScanner.emit(), without the cursor move and the clearing between its first two
\* sequences, which set no mode.

Least(a, b) == IF a < b THEN a ELSE b
Most(a, b) == IF a > b THEN a ELSE b

Clamp(region, n) ==
  IF region = Full THEN Full
  ELSE LET top == Most(1, Least(n, region[1])) IN <<top, Most(top, Least(n, region[2]))>>

Token(i) == CHOOSE n \in DOMAIN Numbers : Numbers[n] = i

Private(n, final) == <<"esc", "[", "?", n, final>>
Switched(m, n) == Private(n, IF n \in m.on THEN "h" ELSE "l")
IfOn(m, n) == IF n \in m.on THEN Private(n, "h") ELSE <<>>
IfNot0(n) == IF n = "0" THEN <<>> ELSE Private(n, "h")

Bounds(r) ==
  IF r = Full THEN <<"esc", "[", "r">> ELSE <<"esc", "[", Token(r[1]), ";", Token(r[2]), "r">>

Emit(m, n) ==
  Switched(m, "1049") \o Bounds(Clamp(m.region, n)) \o Switched(m, "7") \o Switched(m, "25")
    \o IfOn(m, "2004") \o IfOn(m, "1004") \o IfOn(m, "2031")
    \o IfNot0(m.mouse) \o IfNot0(m.ext)

-----------------------------------------------------------------------------
\* What a program may write, of every kind the scanner tells apart: whole
\* sequences, none of which is broken off by the next, speaks twice of one mode,
\* or sets margins out of order.
Group(n) == IF n \in Mouse THEN Mouse ELSE IF n \in MouseExt THEN MouseExt ELSE {Flag(n)}

OneMode == {Private(n, final) : n \in Names, final \in {"h", "l"}}

TwoModes ==
  {<<"esc", "[", "?", t[1], ";", t[2], t[3]>> :
     t \in {t \in Names \X Names \X {"h", "l"} : Group(t[1]) # Group(t[2])}}

InOrder ==
  {<<"esc", "[", ns[1], ";", ns[2], "r">> :
     ns \in {ns \in (DOMAIN Numbers) \X (DOMAIN Numbers) : Numbers[ns[1]] < Numbers[ns[2]]}}

Whole ==
  OneMode \cup TwoModes \cup InOrder
    \cup {<<"esc", "[", "r">>, <<"esc", "7">>, <<"esc", "[", ">", "25", "$", "q">>,
          <<"esc", "[", "?", "25", "lf">>}

ModesAssumption ==
  /\ \A n \in DOMAIN Numbers : Numbers[n] \in Nat \ {0}
  /\ \A m, n \in DOMAIN Numbers : Numbers[m] = Numbers[n] => m = n
  /\ DOMAIN Numbers \cap ({";"} \cup Marks \cup Finals \cup Intermediates \cup Controls) = {}
  /\ Heights # {} /\ Heights \subseteq {Numbers[n] : n \in DOMAIN Numbers}
  /\ Sequences \subseteq Whole
  /\ {MaxSequences, MaxRestarts} \subseteq Nat

Init ==
  /\ written = <<>> /\ rest = <<>>
  /\ scan = Fresh /\ rows \in Heights /\ restarts = 0
  /\ client = "away" /\ pending = <<>> /\ term = Fresh /\ height = 0 /\ cut = FALSE

\* The next byte, whatever chunk it is in: published to the socket and scanned in
\* one call of makeOnBytes().
Writes ==
  \E s \in IF rest # <<>> THEN {rest} ELSE Sequences :
    /\ rest = <<>> => Len(written) < MaxSequences
    /\ written' = IF rest = <<>> THEN Append(written, s) ELSE written
    /\ rest' = Tail(s)
    /\ scan' = Scanned(scan, Head(s))
    /\ pending' = IF client = "draining" THEN Append(pending, Head(s)) ELSE pending
    /\ term' = IF client = "live" THEN Scanned(term, Head(s)) ELSE term
    /\ UNCHANGED <<rows, restarts, client, height, cut>>

\* A terminal connects, or says hello again: its size is the screen's from here,
\* and what follows is buffered while the parser is drained.  What the terminal
\* shows meanwhile is reset by the snapshot.
Hello(h) ==
  /\ client # "draining" /\ client' = "draining"
  /\ rows' = h /\ height' = 0
  /\ pending' = <<>> /\ term' = Fresh /\ cut' = FALSE
  /\ UNCHANGED <<program, scan, restarts>>

\* Another terminal's hello or resize.
Resized(h) ==
  /\ h # rows /\ rows' = h
  /\ UNCHANGED <<program, scan, restarts, browser>>

\* The modes of all that was scanned by now; the browser resets its terminal, and
\* the buffered bytes come after.
Snapshot ==
  /\ client = "draining" /\ client' = "live"
  /\ term' = ScannedAll(ScannedAll(Fresh, Emit(scan.modes, rows)), pending)
  /\ cut' = (Place(term') # Place(scan))
  /\ height' = rows /\ pending' = <<>>
  /\ UNCHANGED <<program, server>>

Leaves ==
  /\ client # "away" /\ client' = "away" /\ pending' = <<>>
  /\ term' = Fresh /\ height' = 0 /\ cut' = FALSE
  /\ UNCHANGED <<program, server>>

\* The server comes back and reattaches: the screen it makes knows nothing of what
\* the program wrote before, and the sockets are gone.
Restarts ==
  /\ restarts < MaxRestarts /\ restarts' = restarts + 1
  /\ scan' = Fresh
  /\ client' = "away" /\ pending' = <<>> /\ term' = Fresh /\ height' = 0 /\ cut' = FALSE
  /\ UNCHANGED <<program, rows>>

Next ==
  \/ Writes \/ Snapshot \/ Leaves \/ Restarts
  \/ \E h \in Heights : Hello(h) \/ Resized(h)

Spec == Init /\ [][Next]_vars

-----------------------------------------------------------------------------
\* What the program asked for, by the last sequence that speaks of each mode.

Speaks(i, names, final) ==
  /\ Len(written[i]) >= 5 /\ written[i][3] = "?" /\ Last(written[i]) = final
  /\ \E k \in DOMAIN written[i] : Flag(written[i][k]) \in names

LastWord(names, final) ==
  LET at == {i \in DOMAIN written : Speaks(i, names, final)}
  IN  IF at = {} THEN 0 ELSE CHOOSE i \in at : \A j \in at : j <= i

SetLast(n) == LastWord({n}, "h") > LastWord({n}, "l")

Chosen(group) ==
  LET on == {n \in group : SetLast(n) /\ LastWord(group, "h") = LastWord({n}, "h")}
  IN  IF on = {} THEN "0" ELSE CHOOSE n \in on : TRUE

Margins ==
  LET at == {i \in DOMAIN written : Last(written[i]) = "r"}
  IN  IF at = {} THEN Full
      ELSE LET s == written[CHOOSE i \in at : \A j \in at : j <= i]
           IN  Region(SubSeq(s, 3, Len(s) - 1))

Asked ==
  [on |-> {f \in Flags : SetLast(f) \/ (f \in Defaults.on /\ LastWord({f}, "l") = 0)},
   mouse |-> Chosen(Mouse), ext |-> Chosen(MouseExt), region |-> Margins]

Shown(m) == [m EXCEPT !.region = Clamp(@, height)]

Modes == [on : SUBSET Flags, mouse : Mouse \cup {"0"}, ext : MouseExt \cup {"0"},
          region : {Full} \cup (Nat \X Nat)]
Parser == [state : {"normal", "esc", "csi"}, private : Marks \cup {""},
           params : Seq(Digits), modes : Modes]

TypeOK ==
  /\ written \in Seq(Sequences) /\ scan \in Parser /\ term \in Parser
  /\ rows \in Heights /\ height \in Heights \cup {0} /\ client \in {"away", "draining", "live"}
  /\ cut \in BOOLEAN /\ restarts \in 0..MaxRestarts

\* screen.ts:10-23: unless its snapshot fell into a sequence, a terminal that is
\* connected has the modes the scanner knows, clamped to the size of the snapshot,
\* and between two sequences those are what the program asked for, however the
\* bytes were cut, buffered and sent again, unless the server was restarted.
ModesReachClient ==
  client = "live" /\ ~cut =>
    /\ Shown(term.modes) = Shown(scan.modes)
    /\ rest = <<>> /\ restarts = 0 => Shown(term.modes) = Shown(Asked)

===============================================================================
