------------------------------ MODULE ModesProofs ------------------------------
(***************************************************************************)
(* A terminal of the browser has the modes that the program asked for, for *)
(* any sequences of the grammar, in any number, and any rows.              *)
(*                                                                         *)
(* The proof goes from loops over sequences to the scanner, to what it     *)
(* makes of each sequence and of a snapshot, to what the last sequence of  *)
(* each kind asked for, and to two parsers that read the same bytes. The   *)
(* invariant is at the end: ModesInv.                                      *)
(***************************************************************************)
EXTENDS TerminalProofs, WellFoundedInduction

(***************************************************************************)
(* Induction, as a set of numbers, and what a loop over a sequence does.   *)
(***************************************************************************)
LEMMA InductionOnNat ==
  ASSUME NEW S, 0 \in S, \A n \in Nat : n \in S => n + 1 \in S
  PROVE  Nat \subseteq S
<1> DEFINE R == OpToRel(<, Nat)
<1> DEFINE T == Nat \ S
<1>1. SUFFICES ASSUME T # {} PROVE FALSE
  OBVIOUS
<1>2. PICK x \in T : \A y \in T : ~(<<y, x>> \in R)
  <2>1. T \subseteq Nat
    OBVIOUS
  <2>2. IsWellFoundedOn(R, Nat)
    BY NatLessThanWellFounded
  <2> HIDE DEF R, T
  <2> QED BY <1>1, <2>1, <2>2, WFMin
<1>3. x \in Nat /\ x \notin S
  BY <1>2
<1>4. x - 1 \in Nat /\ x - 1 \notin S
  BY <1>3
<1>5. <<x - 1, x>> \in R
  BY <1>3, <1>4 DEF OpToRel
<1>6. QED
  BY <1>2, <1>4, <1>5

\* A loop over s from p, whose body is op: it runs, and is what its rounds say.
Rounds(op, p, s, f) ==
  /\ f[0] = p
  /\ \A i \in 1..Len(s) : f[i] = op[f[i - 1]][s[i]]

LEMMA LoopRuns ==
  ASSUME NEW X, NEW B, NEW op \in [X -> [B -> X]], NEW p \in X, NEW s \in Seq(B)
  PROVE  \E f \in [0..Len(s) -> X] : Rounds(op, p, s, f)
<1> DEFINE Good(n, f) == f[0] = p /\ \A i \in 1..n : f[i] = op[f[i - 1]][s[i]]
<1> DEFINE Runs(n) == \E f \in [0..n -> X] : Good(n, f)
<1> DEFINE S == {n \in Nat : n <= Len(s) => Runs(n)}
<1>0. Len(s) \in Nat /\ \A i \in 1..Len(s) : s[i] \in B
  OBVIOUS
<1>1. 0 \in S
  <2> DEFINE f == [i \in 0..0 |-> p]
  <2>1. f \in [0..0 -> X] /\ f[0] = p
    OBVIOUS
  <2>2. 1..0 = {}
    OBVIOUS
  <2>3. Good(0, f)
    BY <2>1, <2>2
  <2> QED BY <2>1, <2>3
<1>2. ASSUME NEW n \in Nat, n \in S PROVE n + 1 \in S
  <2>1. SUFFICES ASSUME n + 1 <= Len(s) PROVE Runs(n + 1)
    <3> HIDE DEF Runs
    <3> QED OBVIOUS
  <2>2. n <= Len(s)
    BY <2>1, <1>0
  <2>3. PICK f \in [0..n -> X] : Good(n, f)
    BY <1>2, <2>2
  <2> DEFINE g == [i \in 0..n + 1 |-> IF i = n + 1 THEN op[f[n]][s[n + 1]] ELSE f[i]]
  <2>4. s[n + 1] \in B
    BY <2>1, <1>0
  <2>5. g \in [0..n + 1 -> X]
    BY <2>3, <2>4
  <2>6. g[0] = p
    BY <2>3
  <2>7. ASSUME NEW i \in 1..n + 1 PROVE g[i] = op[g[i - 1]][s[i]]
    <3>1. i - 1 \in 0..n /\ g[i - 1] = f[i - 1]
      OBVIOUS
    <3>2. CASE i = n + 1
      BY <3>1, <3>2
    <3>3. CASE i # n + 1
      <4>1. i \in 1..n /\ g[i] = f[i]
        BY <3>3
      <4> QED BY <4>1, <3>1, <2>3
    <3> QED BY <3>2, <3>3
  <2>8. Good(n + 1, g)
    BY <2>6, <2>7
  <2> HIDE DEF g
  <2> QED BY <2>5, <2>8
<1> HIDE DEF S
<1>3. Nat \subseteq S
  BY <1>1, <1>2, InductionOnNat
<1>4. Len(s) \in S
  BY <1>0, <1>3
<1>5. Runs(Len(s))
  <2> HIDE DEF Runs
  <2> QED BY <1>0, <1>4 DEF S
<1>6. PICK f \in [0..Len(s) -> X] : Good(Len(s), f)
  BY <1>5
<1> QED BY <1>6 DEF Rounds

LEMMA LoopIsUnique ==
  ASSUME NEW op, NEW p, NEW s, Len(s) \in Nat, NEW f, Rounds(op, p, s, f), NEW g, Rounds(op, p, s, g)
  PROVE  \A i \in 0..Len(s) : f[i] = g[i]
<1> DEFINE V == {n \in Nat : n <= Len(s) => f[n] = g[n]}
<1>1. 0 \in V
  BY DEF Rounds
<1>2. ASSUME NEW n \in Nat, n \in V PROVE n + 1 \in V
  <2>1. SUFFICES ASSUME n + 1 <= Len(s) PROVE f[n + 1] = g[n + 1]
    OBVIOUS
  <2>2. f[n] = g[n] /\ n + 1 \in 1..Len(s) /\ (n + 1) - 1 = n
    BY <2>1, <1>2
  <2> QED BY <2>2 DEF Rounds
<1> HIDE DEF V
<1>3. Nat \subseteq V
  BY <1>1, <1>2, InductionOnNat
<1> QED BY <1>3 DEF V

-----------------------------------------------------------------------------
\* The bytes a scanner may be given.
Bytes == Modes!Digits \cup Modes!Marks \cup Modes!Finals \cup Modes!Intermediates
           \cup Modes!Controls

\* The modes a parser can come to know: its margins are rows that have a number.
Rows == {Numbers[n] : n \in DOMAIN Numbers}

Known == [on : SUBSET Modes!Flags, mouse : Modes!Mouse \cup {"0"}, ext : Modes!MouseExt \cup {"0"},
          region : {Modes!Full} \cup (Rows \X Rows)]

\* A name speaks of a flag, of the mouse or of its encoding, never of two of them.
LEMMA NamesApart ==
  \A n : /\ Modes!Flag(n) \in Modes!Flags => n \notin Modes!Mouse \cup Modes!MouseExt
         /\ n \in Modes!Mouse \cup Modes!MouseExt => Modes!Flag(n) = n
         /\ n \in Modes!Mouse => n \notin Modes!MouseExt
BY DEF Modes!Flag, Modes!Flags, Modes!Mouse, Modes!MouseExt

LEMMA SetModeIs ==
  ASSUME NEW m, NEW n, NEW set \in BOOLEAN
  PROVE  /\ Modes!Flag(n) \in Modes!Flags => Modes!SetMode(m, n, set) =
              [m EXCEPT !.on = IF set THEN m.on \cup {Modes!Flag(n)} ELSE m.on \ {Modes!Flag(n)}]
         /\ n \in Modes!Mouse => Modes!SetMode(m, n, set) =
              [m EXCEPT !.mouse = Modes!Choose(m.mouse, n, set)]
         /\ n \in Modes!MouseExt => Modes!SetMode(m, n, set) =
              [m EXCEPT !.ext = Modes!Choose(m.ext, n, set)]
         /\ Modes!Flag(n) \notin Modes!Flags /\ n \notin Modes!Mouse \cup Modes!MouseExt
              => Modes!SetMode(m, n, set) = m
<1>1. CASE Modes!Flag(n) \in Modes!Flags
  BY <1>1, NamesApart DEF Modes!SetMode
<1>2. CASE n \in Modes!Mouse \cup Modes!MouseExt
  <2>1. Modes!Flag(n) \notin Modes!Flags
    BY <1>2, NamesApart
  <2> QED BY <1>2, <2>1, NamesApart DEF Modes!SetMode
<1>3. CASE Modes!Flag(n) \notin Modes!Flags /\ n \notin Modes!Mouse \cup Modes!MouseExt
  BY <1>3 DEF Modes!SetMode
<1> QED BY <1>1, <1>2, <1>3, NamesApart

LEMMA SetModeIsTyped ==
  ASSUME NEW m \in Known, NEW n, NEW set \in BOOLEAN
  PROVE  Modes!SetMode(m, n, set) \in Known
<1>1. CASE Modes!Flag(n) \in Modes!Flags
  <2> DEFINE on == IF set THEN m.on \cup {Modes!Flag(n)} ELSE m.on \ {Modes!Flag(n)}
  <2>1. on \in SUBSET Modes!Flags
    BY <1>1 DEF Known
  <2>2. Modes!SetMode(m, n, set) = [m EXCEPT !.on = on]
    BY <1>1, SetModeIs
  <2> HIDE DEF on
  <2> QED BY <2>1, <2>2 DEF Known
<1>2. CASE n \in Modes!Mouse
  BY <1>2, SetModeIs DEF Known, Modes!Choose
<1>3. CASE n \in Modes!MouseExt
  BY <1>3, SetModeIs DEF Known, Modes!Choose
<1>4. CASE Modes!Flag(n) \notin Modes!Flags /\ n \notin Modes!Mouse \cup Modes!MouseExt
  BY <1>4, SetModeIs
<1> QED BY <1>1, <1>2, <1>3, <1>4

\* The parameters of a sequence are taken one after the other.
Sets(set) == [m \in Known |-> [n \in Bytes |-> Modes!SetMode(m, n, set)]]

LEMMA SetModesRuns ==
  ASSUME NEW m \in Known, NEW ns \in Seq(Bytes), NEW set \in BOOLEAN
  PROVE  \E f \in [0..Len(ns) -> Known] :
           Rounds(Sets(set), m, ns, f) /\ Modes!SetModes(m, ns, set) = f[Len(ns)]
<1>0. Len(ns) \in Nat /\ \A i \in 1..Len(ns) : ns[i] \in Bytes
  OBVIOUS
<1>1. Sets(set) \in [Known -> [Bytes -> Known]]
  BY SetModeIsTyped DEF Sets
<1>2. PICK g \in [0..Len(ns) -> Known] : Rounds(Sets(set), m, ns, g)
  BY <1>1, LoopRuns
<1> DEFINE Step(f) == [i \in 0..Len(ns) |->
                         IF i = 0 THEN m ELSE Modes!SetMode(f[i - 1], ns[i], set)]
<1>3. ASSUME NEW i \in 1..Len(ns) PROVE g[i] = Modes!SetMode(g[i - 1], ns[i], set)
  <2>1. g[i - 1] \in Known /\ ns[i] \in Bytes
    BY <1>0, <1>2
  <2> QED BY <2>1, <1>2 DEF Rounds, Sets
<1>4. g = Step(g)
  BY <1>0, <1>2, <1>3 DEF Rounds
<1> DEFINE h == CHOOSE f : f = Step(f)
<1>5. h = Step(h)
  <2> HIDE DEF Step
  <2> QED BY <1>4
<1>6. Modes!SetModes(m, ns, set) = h[Len(ns)]
  BY DEF Modes!SetModes
<1> HIDE DEF h
<1> DEFINE V == {n \in Nat : n <= Len(ns) => h[n] = g[n]}
<1>7. 0 \in V
  BY <1>0, <1>2, <1>5 DEF Rounds
<1>8. ASSUME NEW n \in Nat, n \in V PROVE n + 1 \in V
  <2>1. SUFFICES ASSUME n + 1 <= Len(ns) PROVE h[n + 1] = g[n + 1]
    OBVIOUS
  <2>2. h[n] = g[n] /\ n + 1 \in 1..Len(ns) /\ (n + 1) - 1 = n
    BY <2>1, <1>0, <1>8
  <2>3. h[n + 1] = Modes!SetMode(h[n], ns[n + 1], set)
    BY <2>2, <1>5
  <2>4. g[n + 1] = Modes!SetMode(g[n], ns[n + 1], set)
    BY <2>2, <1>3
  <2> QED BY <2>2, <2>3, <2>4
<1> HIDE DEF V
<1>9. Nat \subseteq V
  BY <1>7, <1>8, InductionOnNat
<1>10. h[Len(ns)] = g[Len(ns)]
  BY <1>0, <1>9 DEF V
<1> QED BY <1>2, <1>6, <1>10

LEMMA SetModesIsTyped ==
  ASSUME NEW m \in Known, NEW ns \in Seq(Bytes), NEW set \in BOOLEAN
  PROVE  Modes!SetModes(m, ns, set) \in Known
BY SetModesRuns

\* What holds of two states of the modes, and goes on to hold when the same mode
\* is set in both, holds after any parameters.
LEMMA SetModesInStep ==
  ASSUME NEW ns \in Seq(Bytes), NEW set \in BOOLEAN, NEW Alike,
         \A t, s \in Known, n \in Bytes : <<t, s>> \in Alike
           => <<Modes!SetMode(t, n, set), Modes!SetMode(s, n, set)>> \in Alike,
         NEW t \in Known, NEW s \in Known, <<t, s>> \in Alike
  PROVE  <<Modes!SetModes(t, ns, set), Modes!SetModes(s, ns, set)>> \in Alike
<1>0. Len(ns) \in Nat /\ \A i \in 1..Len(ns) : ns[i] \in Bytes
  OBVIOUS
<1>1. PICK f \in [0..Len(ns) -> Known] :
        Rounds(Sets(set), t, ns, f) /\ Modes!SetModes(t, ns, set) = f[Len(ns)]
  BY SetModesRuns
<1>2. PICK g \in [0..Len(ns) -> Known] :
        Rounds(Sets(set), s, ns, g) /\ Modes!SetModes(s, ns, set) = g[Len(ns)]
  BY SetModesRuns
<1> DEFINE V == {n \in Nat : n <= Len(ns) => <<f[n], g[n]>> \in Alike}
<1>3. 0 \in V
  BY <1>1, <1>2 DEF Rounds
<1>4. ASSUME NEW n \in Nat, n \in V PROVE n + 1 \in V
  <2>1. SUFFICES ASSUME n + 1 <= Len(ns) PROVE <<f[n + 1], g[n + 1]>> \in Alike
    OBVIOUS
  <2>2. <<f[n], g[n]>> \in Alike /\ n + 1 \in 1..Len(ns) /\ (n + 1) - 1 = n
    BY <2>1, <1>0, <1>4
  <2>3. f[n] \in Known /\ g[n] \in Known /\ ns[n + 1] \in Bytes
    <3>1. n \in 0..Len(ns)
      BY <2>1, <1>0
    <3> QED BY <3>1, <2>2, <1>0, <1>1, <1>2
  <2>4. f[n + 1] = Modes!SetMode(f[n], ns[n + 1], set) /\ g[n + 1] = Modes!SetMode(g[n], ns[n + 1], set)
    BY <1>1, <1>2, <2>2, <2>3 DEF Rounds, Sets
  <2> QED BY <2>2, <2>3, <2>4
<1> HIDE DEF V
<1>5. Nat \subseteq V
  BY <1>3, <1>4, InductionOnNat
<1>6. <<f[Len(ns)], g[Len(ns)]>> \in Alike
  BY <1>0, <1>5 DEF V
<1> QED BY <1>1, <1>2, <1>6

-----------------------------------------------------------------------------
\* The scanner: its state, and one that stands between two sequences.
Parsers == [state : {"normal", "esc", "csi"}, private : Modes!Marks \cup {""},
            params : Seq(Modes!Digits), modes : Known]

Base(m) == [state |-> "normal", private |-> "", params |-> <<>>, modes |-> m]

LEMMA RegionIsTyped ==
  ASSUME NEW s \in Seq(Bytes)
  PROVE  Modes!Region(s) \in {Modes!Full} \cup (Rows \X Rows)
<1>1. CASE Len(s) >= 3 /\ {s[1], s[3]} \subseteq DOMAIN Numbers
  <2>1. Numbers[s[1]] \in Rows /\ Numbers[s[3]] \in Rows
    BY <1>1 DEF Rows
  <2> QED BY <1>1, <2>1 DEF Modes!Region
<1>2. CASE ~(Len(s) >= 3 /\ {s[1], s[3]} \subseteq DOMAIN Numbers)
  BY <1>2 DEF Modes!Region
<1> QED BY <1>1, <1>2

LEMMA ParamsAreBytes ==
  ASSUME NEW p \in Parsers
  PROVE  p.params \in Seq(Bytes) /\ p.modes \in Known
<1>1. p.params \in Seq(Modes!Digits) /\ p.modes \in Known
  BY DEF Parsers
<1>2. Modes!Digits \subseteq Bytes
  BY DEF Bytes
<1> QED BY <1>1, <1>2

LEMMA DispatchIsTyped ==
  ASSUME NEW p \in Parsers, NEW b
  PROVE  Modes!Dispatch(p, b) \in Known
<1>1. p.params \in Seq(Bytes) /\ p.modes \in Known
  BY ParamsAreBytes
<1>2. Modes!SetModes(p.modes, p.params, b = "h") \in Known
  BY <1>1, SetModesIsTyped
<1>3. [p.modes EXCEPT !.region = Modes!Region(p.params)] \in Known
  BY <1>1, RegionIsTyped DEF Known
<1> QED BY <1>1, <1>2, <1>3 DEF Modes!Dispatch

LEMMA OverIs ==
  ASSUME NEW p \in Parsers
  PROVE  Modes!Over(p) = Base(p.modes) /\ Modes!Over(p) \in Parsers /\ p.modes \in Known
<1>1. <<>> \in Seq(Modes!Digits)
  OBVIOUS
<1> DEFINE q == Base(p.modes)
<1>2. Modes!Over(p) = q
  <2>1. p = [state |-> p.state, private |-> p.private, params |-> p.params, modes |-> p.modes]
    <3> HIDE DEF Known
    <3> QED BY DEF Parsers
  <2>2. PICK a, b, c, m : p = [state |-> a, private |-> b, params |-> c, modes |-> m]
    BY <2>1
  <2>3. Modes!Over(p) = [[[p EXCEPT !.state = "normal"] EXCEPT !.private = ""] EXCEPT !.params = <<>>]
    BY DEF Modes!Over
  <2>4. Modes!Over(p) = [state |-> "normal", private |-> "", params |-> <<>>, modes |-> m]
    BY <2>2, <2>3
  <2> QED BY <2>2, <2>4 DEF Base
<1>3. q \in Parsers
  <2> HIDE DEF Known
  <2> QED BY <1>1, ParamsAreBytes DEF Base, Parsers
<1> QED BY <1>2, <1>3, ParamsAreBytes

LEMMA ScannedIsTyped ==
  ASSUME NEW p \in Parsers, NEW b \in Bytes
  PROVE  Modes!Scanned(p, b) \in Parsers
<1>1. Modes!Over(p) \in Parsers
  BY OverIs
<1>2. [Modes!Over(p) EXCEPT !.modes = Modes!Dispatch(p, b)] \in Parsers
  BY <1>1, DispatchIsTyped DEF Parsers
<1>3. CASE p.state = "normal"
  BY <1>3 DEF Modes!Scanned, Parsers
<1>4. CASE p.state = "esc"
  BY <1>1, <1>4 DEF Modes!Scanned, Parsers
<1>5. CASE p.state = "csi"
  <2>1. b \in Modes!Marks => [p EXCEPT !.private = b] \in Parsers
    BY DEF Parsers
  <2>2. b \in Modes!Digits => [p EXCEPT !.params = Append(@, b)] \in Parsers
    <3>0. p.params \in Seq(Modes!Digits)
      BY DEF Parsers
    <3>1. b \in Modes!Digits => Append(p.params, b) \in Seq(Modes!Digits)
      BY <3>0
    <3> QED BY <3>1 DEF Parsers
  <2> HIDE DEF Parsers
  <2> QED BY <1>1, <1>2, <1>5, <2>1, <2>2 DEF Modes!Scanned
<1> QED BY <1>3, <1>4, <1>5 DEF Parsers

Scans == [p \in Parsers |-> [b \in Bytes |-> Modes!Scanned(p, b)]]

LEMMA ScannedAllRuns ==
  ASSUME NEW p \in Parsers, NEW s \in Seq(Bytes)
  PROVE  \E f \in [0..Len(s) -> Parsers] :
           Rounds(Scans, p, s, f) /\ Modes!ScannedAll(p, s) = f[Len(s)]
<1>0. Len(s) \in Nat /\ \A i \in 1..Len(s) : s[i] \in Bytes
  OBVIOUS
<1>1. Scans \in [Parsers -> [Bytes -> Parsers]]
  BY ScannedIsTyped DEF Scans
<1>2. PICK g \in [0..Len(s) -> Parsers] : Rounds(Scans, p, s, g)
  BY <1>1, LoopRuns
<1> DEFINE Step(f) == [i \in 0..Len(s) |-> IF i = 0 THEN p ELSE Modes!Scanned(f[i - 1], s[i])]
<1>3. ASSUME NEW i \in 1..Len(s) PROVE g[i] = Modes!Scanned(g[i - 1], s[i])
  <2>1. g[i - 1] \in Parsers /\ s[i] \in Bytes
    BY <1>0, <1>2
  <2> QED BY <2>1, <1>2 DEF Rounds, Scans
<1>4. g = Step(g)
  BY <1>0, <1>2, <1>3 DEF Rounds
<1> DEFINE h == CHOOSE f : f = Step(f)
<1>5. h = Step(h)
  <2> HIDE DEF Step
  <2> QED BY <1>4
<1>6. Modes!ScannedAll(p, s) = h[Len(s)]
  BY DEF Modes!ScannedAll
<1> HIDE DEF h
<1> DEFINE V == {n \in Nat : n <= Len(s) => h[n] = g[n]}
<1>7. 0 \in V
  BY <1>0, <1>2, <1>5 DEF Rounds
<1>8. ASSUME NEW n \in Nat, n \in V PROVE n + 1 \in V
  <2>1. SUFFICES ASSUME n + 1 <= Len(s) PROVE h[n + 1] = g[n + 1]
    OBVIOUS
  <2>2. h[n] = g[n] /\ n + 1 \in 1..Len(s) /\ (n + 1) - 1 = n
    BY <2>1, <1>0, <1>8
  <2>3. h[n + 1] = Modes!Scanned(h[n], s[n + 1])
    BY <2>2, <1>5
  <2>4. g[n + 1] = Modes!Scanned(g[n], s[n + 1])
    BY <2>2, <1>3
  <2> QED BY <2>2, <2>3, <2>4
<1> HIDE DEF V
<1>9. Nat \subseteq V
  BY <1>7, <1>8, InductionOnNat
<1>10. h[Len(s)] = g[Len(s)]
  BY <1>0, <1>9 DEF V
<1> QED BY <1>2, <1>6, <1>10

\* Bytes are scanned one after the other, from either end, and in parts.
LEMMA ScannedNothing ==
  ASSUME NEW p \in Parsers
  PROVE  Modes!ScannedAll(p, <<>>) = p
<1>1. <<>> \in Seq(Bytes) /\ Len(<<>>) = 0
  OBVIOUS
<1>2. PICK f \in [0..Len(<<>>) -> Parsers] :
        Rounds(Scans, p, <<>>, f) /\ Modes!ScannedAll(p, <<>>) = f[Len(<<>>)]
  BY <1>1, ScannedAllRuns
<1> QED BY <1>1, <1>2 DEF Rounds

LEMMA ScannedLast ==
  ASSUME NEW p \in Parsers, NEW s \in Seq(Bytes), NEW b \in Bytes
  PROVE  /\ Modes!ScannedAll(p, s) \in Parsers
         /\ Modes!ScannedAll(p, Append(s, b)) = Modes!Scanned(Modes!ScannedAll(p, s), b)
<1> DEFINE t == Append(s, b)
<1>0. /\ t \in Seq(Bytes) /\ Len(s) \in Nat /\ Len(t) = Len(s) + 1
      /\ t[Len(t)] = b /\ \A i \in 1..Len(s) : t[i] = s[i]
  OBVIOUS
<1>1. PICK f \in [0..Len(s) -> Parsers] :
        Rounds(Scans, p, s, f) /\ Modes!ScannedAll(p, s) = f[Len(s)]
  BY ScannedAllRuns
<1> HIDE DEF t
<1>2. PICK g \in [0..Len(t) -> Parsers] :
        Rounds(Scans, p, t, g) /\ Modes!ScannedAll(p, t) = g[Len(t)]
  BY <1>0, ScannedAllRuns
<1>3. Rounds(Scans, p, s, g)
  BY <1>0, <1>2 DEF Rounds
<1>4. f[Len(s)] = g[Len(s)]
  BY <1>0, <1>1, <1>3, LoopIsUnique
<1>5. g[Len(t)] = Scans[g[Len(s)]][b]
  BY <1>0, <1>2 DEF Rounds
<1>6. f[Len(s)] \in Parsers
  BY <1>0, <1>1
<1> QED BY <1>1, <1>2, <1>4, <1>5, <1>6 DEF t, Scans

LEMMA ScannedFirst ==
  ASSUME NEW p \in Parsers, NEW s \in Seq(Bytes), s # <<>>
  PROVE  /\ Head(s) \in Bytes /\ Tail(s) \in Seq(Bytes)
         /\ Modes!ScannedAll(p, s) = Modes!ScannedAll(Modes!Scanned(p, Head(s)), Tail(s))
<1> DEFINE t == Tail(s)
<1> DEFINE q == Modes!Scanned(p, Head(s))
<1>0. /\ t \in Seq(Bytes) /\ Len(t) \in Nat /\ Len(s) = Len(t) + 1 /\ Head(s) = s[1]
      /\ Head(s) \in Bytes /\ \A i \in 1..Len(t) : t[i] = s[i + 1]
  OBVIOUS
<1>1. q \in Parsers
  BY <1>0, ScannedIsTyped
<1>2. PICK f \in [0..Len(s) -> Parsers] :
        Rounds(Scans, p, s, f) /\ Modes!ScannedAll(p, s) = f[Len(s)]
  BY ScannedAllRuns
<1>3. f[1] = q
  BY <1>0, <1>2 DEF Rounds, Scans
<1> HIDE DEF t, q
<1>4. PICK g \in [0..Len(t) -> Parsers] :
        Rounds(Scans, q, t, g) /\ Modes!ScannedAll(q, t) = g[Len(t)]
  BY <1>0, <1>1, ScannedAllRuns
<1> DEFINE h == [i \in 0..Len(t) |-> f[i + 1]]
<1>5. Rounds(Scans, q, t, h)
  <2>1. h[0] = q
    BY <1>0, <1>3
  <2>2. ASSUME NEW i \in 1..Len(t) PROVE h[i] = Scans[h[i - 1]][t[i]]
    <3>1. f[i + 1] = Scans[f[i]][s[i + 1]]
      BY <1>0, <1>2 DEF Rounds
    <3> QED BY <1>0, <3>1
  <2> QED BY <2>1, <2>2 DEF Rounds
<1>6. h[Len(t)] = g[Len(t)]
  <2> HIDE DEF h
  <2> QED BY <1>0, <1>4, <1>5, LoopIsUnique
<1>7. h[Len(t)] = f[Len(s)]
  BY <1>0
<1> QED BY <1>0, <1>2, <1>4, <1>6, <1>7 DEF t, q

LEMMA ScannedParts ==
  ASSUME NEW p \in Parsers, NEW s \in Seq(Bytes), NEW u \in Seq(Bytes)
  PROVE  /\ s \o u \in Seq(Bytes)
         /\ Modes!ScannedAll(p, s \o u) = Modes!ScannedAll(Modes!ScannedAll(p, s), u)
<1> DEFINE t == s \o u
<1>0. /\ t \in Seq(Bytes) /\ Len(s) \in Nat /\ Len(u) \in Nat /\ Len(t) = Len(s) + Len(u)
      /\ \A i \in 1..Len(s) : t[i] = s[i]
      /\ \A i \in 1..Len(u) : t[Len(s) + i] = u[i]
  OBVIOUS
<1>1. PICK f \in [0..Len(s) -> Parsers] :
        Rounds(Scans, p, s, f) /\ Modes!ScannedAll(p, s) = f[Len(s)]
  BY ScannedAllRuns
<1> HIDE DEF t
<1>2. PICK g \in [0..Len(t) -> Parsers] :
        Rounds(Scans, p, t, g) /\ Modes!ScannedAll(p, t) = g[Len(t)]
  BY <1>0, ScannedAllRuns
<1> DEFINE q == f[Len(s)]
<1>3. q \in Parsers
  <2>1. Len(s) \in 0..Len(s)
    BY <1>0
  <2> QED BY <1>1, <2>1
<1>4. q = g[Len(s)]
  <2>1. Rounds(Scans, p, s, g)
    BY <1>0, <1>2 DEF Rounds
  <2>2. \A i \in 0..Len(s) : f[i] = g[i]
    BY <1>0, <1>1, <2>1, LoopIsUnique
  <2> QED BY <1>0, <2>2
<1> HIDE DEF q
<1>5. PICK e \in [0..Len(u) -> Parsers] :
        Rounds(Scans, q, u, e) /\ Modes!ScannedAll(q, u) = e[Len(u)]
  BY <1>3, ScannedAllRuns
<1> DEFINE h == [i \in 0..Len(u) |-> g[Len(s) + i]]
<1>6. Rounds(Scans, q, u, h)
  <2>1. h[0] = q
    BY <1>0, <1>4
  <2>2. ASSUME NEW i \in 1..Len(u) PROVE h[i] = Scans[h[i - 1]][u[i]]
    <3>1. Len(s) + i \in 1..Len(t) /\ (Len(s) + i) - 1 = Len(s) + (i - 1)
      BY <1>0
    <3>2. g[Len(s) + i] = Scans[g[Len(s) + (i - 1)]][u[i]]
      BY <1>0, <1>2, <3>1 DEF Rounds
    <3> QED BY <1>0, <3>2
  <2> QED BY <2>1, <2>2 DEF Rounds
<1>7. h[Len(u)] = e[Len(u)]
  <2> HIDE DEF h
  <2>1. \A i \in 0..Len(u) : h[i] = e[i]
    BY <1>0, <1>5, <1>6, LoopIsUnique
  <2> QED BY <1>0, <2>1
<1>8. h[Len(u)] = g[Len(t)]
  BY <1>0
<1> QED BY <1>0, <1>1, <1>2, <1>5, <1>7, <1>8 DEF t, q

-----------------------------------------------------------------------------
\* What the scanner makes of a sequence.
NoMark == ""
At(st, pr, ps, m) == [state |-> st, private |-> pr, params |-> ps, modes |-> m]

\* The bytes are of kinds the scanner tells apart.
LEMMA TokensApart ==
  /\ Modes!Marks \cap (Modes!Digits \cup Modes!Finals \cup Modes!Intermediates \cup Modes!Controls) = {}
  /\ Modes!Digits \cap (Modes!Finals \cup Modes!Intermediates \cup Modes!Controls) = {}
  /\ Modes!Names \subseteq Modes!Digits /\ DOMAIN Numbers \subseteq Modes!Digits
  /\ ";" \in Modes!Digits
BY TerminalAssumption
   DEF Modes!ModesAssumption, Modes!Marks, Modes!Digits, Modes!Finals, Modes!Intermediates,
       Modes!Controls, Modes!Names, Modes!Flags, Modes!Mouse, Modes!MouseExt

LEMMA AtIsTyped ==
  ASSUME NEW st \in {"normal", "esc", "csi"}, NEW pr \in Modes!Marks \cup {NoMark},
         NEW ps \in Seq(Modes!Digits), NEW m \in Known
  PROVE  At(st, pr, ps, m) \in Parsers
BY DEF At, Parsers, NoMark

WithState(p, x) == [p EXCEPT !.state = x]
WithPrivate(p, x) == [p EXCEPT !.private = x]
WithParam(p, x) == [p EXCEPT !.params = Append(@, x)]
WithModes(p, x) == [p EXCEPT !.modes = x]

LEMMA AtChanges ==
  ASSUME NEW st, NEW pr, NEW ps, NEW m, NEW x
  PROVE  /\ WithState(At(st, pr, ps, m), x) = At(x, pr, ps, m)
         /\ WithPrivate(At(st, pr, ps, m), x) = At(st, x, ps, m)
         /\ WithParam(At(st, pr, ps, m), x) = At(st, pr, Append(ps, x), m)
         /\ WithModes(At(st, pr, ps, m), x) = At(st, pr, ps, x)
<1>1. WithState(At(st, pr, ps, m), x) = At(x, pr, ps, m)
  BY DEF At, WithState
<1>2. WithPrivate(At(st, pr, ps, m), x) = At(st, x, ps, m)
  BY DEF At, WithPrivate
<1>3. WithParam(At(st, pr, ps, m), x) = At(st, pr, Append(ps, x), m)
  <2> DEFINE y == Append(ps, x)
  <2>1. WithParam(At(st, pr, ps, m), x) = [At(st, pr, ps, m) EXCEPT !.params = y]
    BY DEF At, WithParam
  <2> HIDE DEF y
  <2>2. [At(st, pr, ps, m) EXCEPT !.params = y] = At(st, pr, y, m)
    BY DEF At
  <2> QED BY <2>1, <2>2 DEF y
<1>4. WithModes(At(st, pr, ps, m), x) = At(st, pr, ps, x)
  BY DEF At, WithModes
<1> QED BY <1>1, <1>2, <1>3, <1>4

LEMMA AtParts ==
  ASSUME NEW st, NEW pr, NEW ps, NEW m
  PROVE  /\ At(st, pr, ps, m).state = st /\ At(st, pr, ps, m).private = pr
         /\ At(st, pr, ps, m).params = ps /\ At(st, pr, ps, m).modes = m
BY DEF At

LEMMA BaseIsTyped ==
  ASSUME NEW m \in Known
  PROVE  Base(m) \in Parsers /\ Base(m) = At("normal", NoMark, <<>>, m)
<1>1. <<>> \in Seq(Modes!Digits)
  OBVIOUS
<1>2. Base(m) = At("normal", NoMark, <<>>, m)
  BY DEF Base, At, NoMark
<1> QED BY <1>1, <1>2, AtIsTyped

LEMMA ReadsBetween ==
  ASSUME NEW m \in Known, NEW b
  PROVE  /\ b = "esc" => Modes!Scanned(Base(m), b) = At("esc", NoMark, <<>>, m)
         /\ b # "esc" => Modes!Scanned(Base(m), b) = Base(m)
<1>1. Base(m).state = "normal"
  BY DEF Base
<1>2. WithState(Base(m), "esc") = At("esc", NoMark, <<>>, m)
  BY BaseIsTyped, AtChanges
<1>3. Modes!Scanned(Base(m), b) = IF b = "esc" THEN WithState(Base(m), "esc") ELSE Base(m)
  BY <1>1 DEF Modes!Scanned, WithState
<1> QED BY <1>2, <1>3

LEMMA ReadsEscape ==
  ASSUME NEW m \in Known, NEW b
  PROVE  /\ b = "[" => Modes!Scanned(At("esc", NoMark, <<>>, m), b) = At("csi", NoMark, <<>>, m)
         /\ b # "[" => Modes!Scanned(At("esc", NoMark, <<>>, m), b) = Base(m)
<1> DEFINE p == At("esc", NoMark, <<>>, m)
<1>1. p.state = "esc" /\ p.modes = m
  BY AtParts
<1>2. WithState(p, "csi") = At("csi", NoMark, <<>>, m)
  BY AtChanges
<1>3. p \in Parsers
  <2>1. <<>> \in Seq(Modes!Digits)
    OBVIOUS
  <2> QED BY <2>1, AtIsTyped
<1> HIDE DEF p
<1>4. Modes!Over(p) = Base(m)
  BY <1>1, <1>3, OverIs
<1>5. Modes!Scanned(p, b) = IF b = "[" THEN WithState(p, "csi") ELSE Modes!Over(p)
  BY <1>1 DEF Modes!Scanned, WithState
<1> QED BY <1>2, <1>4, <1>5 DEF p

\* Inside a sequence: a mark, a parameter, its last byte, or one that breaks it off.
LEMMA ReadsInside ==
  ASSUME NEW p \in Parsers, p.state = "csi", NEW b
  PROVE  /\ b \in Modes!Marks /\ p.private = NoMark /\ p.params = <<>>
              => Modes!Scanned(p, b) = WithPrivate(p, b)
         /\ b \in Modes!Digits => Modes!Scanned(p, b) = WithParam(p, b)
         /\ b \in Modes!Finals => Modes!Scanned(p, b) = Base(Modes!Dispatch(p, b))
         /\ b \in Modes!Intermediates => Modes!Scanned(p, b) = p
         /\ b \in Modes!Controls => Modes!Scanned(p, b) = Base(p.modes)
<1>1. b \in Modes!Finals => b \notin Modes!Intermediates
  BY DEF Modes!Finals, Modes!Intermediates
<1>2. b \in Modes!Controls => b \notin Modes!Intermediates \cup Modes!Finals
  BY DEF Modes!Finals, Modes!Intermediates, Modes!Controls
<1>3. Modes!Over(p) = Base(p.modes)
  BY OverIs
<1>4. WithModes(Modes!Over(p), Modes!Dispatch(p, b)) = Base(Modes!Dispatch(p, b))
  <2>1. Modes!Dispatch(p, b) \in Known /\ p.modes \in Known
    BY DispatchIsTyped, ParamsAreBytes
  <2> QED BY <1>3, <2>1, BaseIsTyped, AtChanges
<1>5. CASE b \in Modes!Marks
  <2>1. b \notin Modes!Digits \cup Modes!Finals \cup Modes!Intermediates \cup Modes!Controls
    BY <1>5, TokensApart
  <2> QED BY <1>5, <2>1 DEF Modes!Scanned, WithPrivate, NoMark
<1>6. CASE b \in Modes!Digits
  <2>1. b \notin Modes!Marks \cup Modes!Finals \cup Modes!Intermediates \cup Modes!Controls
    BY <1>6, TokensApart
  <2> QED BY <1>6, <2>1 DEF Modes!Scanned, WithParam
<1>7. CASE b \in Modes!Finals
  <2>1. b \notin Modes!Marks \cup Modes!Digits \cup Modes!Intermediates \cup Modes!Controls
    BY <1>1, <1>2, <1>7, TokensApart
  <2>2. Modes!Scanned(p, b) = WithModes(Modes!Over(p), Modes!Dispatch(p, b))
    BY <1>7, <2>1 DEF Modes!Scanned, WithModes
  <2> QED BY <1>4, <1>7, <2>1, <2>2
<1>8. CASE b \in Modes!Intermediates
  <2>1. b \notin Modes!Marks \cup Modes!Digits \cup Modes!Finals \cup Modes!Controls
    BY <1>1, <1>2, <1>8, TokensApart
  <2> QED BY <1>8, <2>1 DEF Modes!Scanned
<1>9. CASE b \in Modes!Controls
  <2>1. b \notin Modes!Marks \cup Modes!Digits \cup Modes!Finals \cup Modes!Intermediates
    BY <1>2, <1>9, TokensApart
  <2>2. Modes!Scanned(p, b) = Modes!Over(p)
    BY <2>1 DEF Modes!Scanned
  <2> QED BY <1>3, <1>9, <2>1, <2>2
<1> QED BY <1>5, <1>6, <1>7, <1>8, <1>9

\* A sequence opens: what comes after "esc [" is read inside it.
LEMMA ReadsOpening ==
  ASSUME NEW m \in Known, NEW s \in Seq(Bytes)
  PROVE  LET t == <<"esc", "[">> \o s
         IN  /\ t \in Seq(Bytes)
             /\ Modes!ScannedAll(Base(m), t) = Modes!ScannedAll(At("csi", NoMark, <<>>, m), s)
<1> DEFINE u == <<"esc", "[">>
<1>1. u \in Seq(Bytes)
  <2>1. "esc" \in Bytes /\ "[" \in Bytes
    BY DEF Bytes, Modes!Controls, Modes!Finals
  <2> QED BY <2>1
<1>2. u # <<>> /\ Head(u) = "esc" /\ Tail(u) = <<"[">>
  OBVIOUS
<1>3. <<"[">> # <<>> /\ Head(<<"[">>) = "[" /\ Tail(<<"[">>) = <<>>
  OBVIOUS
<1>4. <<>> \in Seq(Modes!Digits)
  OBVIOUS
<1>5. At("esc", NoMark, <<>>, m) \in Parsers /\ At("csi", NoMark, <<>>, m) \in Parsers
  BY <1>4, AtIsTyped
<1>6. Modes!ScannedAll(Base(m), u) = Modes!ScannedAll(At("esc", NoMark, <<>>, m), <<"[">>)
  <2>1. Modes!ScannedAll(Base(m), u) = Modes!ScannedAll(Modes!Scanned(Base(m), Head(u)), Tail(u))
    BY <1>1, <1>2, BaseIsTyped, ScannedFirst
  <2>2. Modes!Scanned(Base(m), "esc") = At("esc", NoMark, <<>>, m)
    BY ReadsBetween
  <2> HIDE DEF u
  <2> QED BY <1>2, <2>1, <2>2
<1>7. <<"[">> \in Seq(Bytes)
  BY <1>1, <1>2, BaseIsTyped, ScannedFirst
<1>8. Modes!ScannedAll(At("esc", NoMark, <<>>, m), <<"[">>) = Modes!ScannedAll(At("csi", NoMark, <<>>, m), <<>>)
  <2>1. Modes!ScannedAll(At("esc", NoMark, <<>>, m), <<"[">>)
          = Modes!ScannedAll(Modes!Scanned(At("esc", NoMark, <<>>, m), "["), <<>>)
    BY <1>3, <1>5, <1>7, ScannedFirst
  <2> QED BY <2>1, ReadsEscape
<1>9. Modes!ScannedAll(Base(m), u) = At("csi", NoMark, <<>>, m)
  BY <1>5, <1>6, <1>8, ScannedNothing
<1> HIDE DEF u
<1>10. Modes!ScannedAll(Base(m), u \o s) = Modes!ScannedAll(At("csi", NoMark, <<>>, m), s) /\ u \o s \in Seq(Bytes)
  <2>1. Modes!ScannedAll(Base(m), u \o s) = Modes!ScannedAll(Modes!ScannedAll(Base(m), u), s)
    <3> HIDE DEF u
    <3> QED BY <1>1, BaseIsTyped, ScannedParts
  <2> QED BY <1>1, <1>9, <2>1, BaseIsTyped, ScannedParts
<1> QED BY <1>10 DEF u

\* The byte b of a sequence whose parameters so far are ps, and what comes after it.
LEMMA ReadsOn ==
  ASSUME NEW m \in Known, NEW pr \in Modes!Marks \cup {NoMark}, NEW ps \in Seq(Modes!Digits),
         NEW s \in Seq(Bytes), s # <<>>
  PROVE  LET p == At("csi", pr, ps, m)
             b == Head(s)
         IN  /\ b \in Modes!Marks /\ pr = NoMark /\ ps = <<>> =>
                  Modes!ScannedAll(p, s) = Modes!ScannedAll(At("csi", b, ps, m), Tail(s))
             /\ b \in Modes!Digits =>
                  Modes!ScannedAll(p, s) = Modes!ScannedAll(At("csi", pr, Append(ps, b), m), Tail(s))
             /\ b \in Modes!Finals =>
                  Modes!ScannedAll(p, s) = Modes!ScannedAll(Base(Modes!Dispatch(p, b)), Tail(s))
             /\ b \in Modes!Intermediates => Modes!ScannedAll(p, s) = Modes!ScannedAll(p, Tail(s))
             /\ b \in Modes!Controls => Modes!ScannedAll(p, s) = Modes!ScannedAll(Base(m), Tail(s))
<1> DEFINE p == At("csi", pr, ps, m)
<1> DEFINE b == Head(s)
<1>1. p \in Parsers
  BY AtIsTyped
<1>2. p.state = "csi" /\ p.private = pr /\ p.params = ps /\ p.modes = m
  BY AtParts
<1>3. WithPrivate(p, b) = At("csi", b, ps, m) /\ WithParam(p, b) = At("csi", pr, Append(ps, b), m)
  BY AtChanges
<1> HIDE DEF p, b
<1>4. Modes!ScannedAll(p, s) = Modes!ScannedAll(Modes!Scanned(p, b), Tail(s))
  BY <1>1, ScannedFirst DEF b
<1>5. /\ b \in Modes!Marks /\ pr = NoMark /\ ps = <<>> => Modes!Scanned(p, b) = At("csi", b, ps, m)
      /\ b \in Modes!Digits => Modes!Scanned(p, b) = At("csi", pr, Append(ps, b), m)
      /\ b \in Modes!Finals => Modes!Scanned(p, b) = Base(Modes!Dispatch(p, b))
      /\ b \in Modes!Intermediates => Modes!Scanned(p, b) = p
      /\ b \in Modes!Controls => Modes!Scanned(p, b) = Base(m)
  BY <1>1, <1>2, <1>3, ReadsInside
<1> QED BY <1>4, <1>5 DEF p, b

LEMMA ReadsMark ==
  ASSUME NEW m \in Known, NEW b \in Modes!Marks, NEW s \in Seq(Bytes), s # <<>>, Head(s) = b
  PROVE  Modes!ScannedAll(At("csi", NoMark, <<>>, m), s) = Modes!ScannedAll(At("csi", b, <<>>, m), Tail(s))
<1>1. <<>> \in Seq(Modes!Digits)
  OBVIOUS
<1> QED BY <1>1, ReadsOn

LEMMA ReadsFirst ==
  ASSUME NEW m \in Known, NEW pr \in Modes!Marks \cup {NoMark}, NEW b \in Modes!Digits,
         NEW s \in Seq(Bytes), s # <<>>, Head(s) = b
  PROVE  Modes!ScannedAll(At("csi", pr, <<>>, m), s) = Modes!ScannedAll(At("csi", pr, <<b>>, m), Tail(s))
<1>1. <<>> \in Seq(Modes!Digits) /\ Append(<<>>, b) = <<b>>
  OBVIOUS
<1>2. Modes!ScannedAll(At("csi", pr, <<>>, m), s)
        = Modes!ScannedAll(At("csi", pr, Append(<<>>, b), m), Tail(s))
  BY <1>1, ReadsOn
<1> QED BY <1>1, <1>2

LEMMA ReadsParam ==
  ASSUME NEW m \in Known, NEW pr \in Modes!Marks \cup {NoMark}, NEW ps \in Seq(Modes!Digits),
         NEW b \in Modes!Digits, NEW s \in Seq(Bytes), s # <<>>, Head(s) = b
  PROVE  Modes!ScannedAll(At("csi", pr, ps, m), s) = Modes!ScannedAll(At("csi", pr, Append(ps, b), m), Tail(s))
BY ReadsOn

LEMMA ReadsFinal ==
  ASSUME NEW m \in Known, NEW pr \in Modes!Marks \cup {NoMark}, NEW ps \in Seq(Modes!Digits),
         NEW b \in Modes!Finals, NEW s \in Seq(Bytes), s # <<>>, Head(s) = b, Tail(s) = <<>>
  PROVE  LET k == Modes!Dispatch(At("csi", pr, ps, m), b)
         IN  k \in Known /\ Modes!ScannedAll(At("csi", pr, ps, m), s) = Base(k)
<1> DEFINE p == At("csi", pr, ps, m)
<1> DEFINE k == Modes!Dispatch(p, b)
<1>1. k \in Known
  BY AtIsTyped, DispatchIsTyped
<1>2. Head(s) \in Modes!Finals =>
        Modes!ScannedAll(p, s) = Modes!ScannedAll(Base(Modes!Dispatch(p, Head(s))), Tail(s))
  BY ReadsOn
<1>3. Modes!ScannedAll(p, s) = Modes!ScannedAll(Base(k), <<>>)
  <2> HIDE DEF p
  <2> QED BY <1>2
<1> HIDE DEF p, k
<1>4. Modes!ScannedAll(p, s) = Base(k)
  BY <1>1, <1>3, BaseIsTyped, ScannedNothing
<1> QED BY <1>1, <1>4 DEF p, k

LEMMA ReadsControl ==
  ASSUME NEW m \in Known, NEW pr \in Modes!Marks \cup {NoMark}, NEW ps \in Seq(Modes!Digits),
         NEW b \in Modes!Controls, NEW s \in Seq(Bytes), s # <<>>, Head(s) = b, Tail(s) = <<>>
  PROVE  Modes!ScannedAll(At("csi", pr, ps, m), s) = Base(m)
<1> DEFINE p == At("csi", pr, ps, m)
<1>1. Head(s) \in Modes!Controls => Modes!ScannedAll(p, s) = Modes!ScannedAll(Base(m), Tail(s))
  BY ReadsOn
<1> HIDE DEF p
<1>2. Modes!ScannedAll(p, s) = Modes!ScannedAll(Base(m), <<>>)
  BY <1>1
<1>3. Modes!ScannedAll(Base(m), <<>>) = Base(m)
  BY BaseIsTyped, ScannedNothing
<1> QED BY <1>2, <1>3 DEF p

LEMMA Singles ==
  ASSUME NEW B, NEW a \in B
  PROVE  /\ <<a>> \in Seq(B) /\ <<a>> # <<>> /\ Head(<<a>>) = a /\ Tail(<<a>>) = <<>>
         /\ Append(<<>>, a) = <<a>> /\ Len(<<a>>) = 1
OBVIOUS

LEMMA SameSeq ==
  ASSUME NEW B, NEW u \in Seq(B), NEW v \in Seq(B), Len(u) = Len(v), \A i \in 1..Len(u) : u[i] = v[i]
  PROVE  u = v
OBVIOUS

LEMMA Pairs ==
  ASSUME NEW B, NEW a \in B, NEW b \in B
  PROVE  /\ <<a, b>> \in Seq(B) /\ <<a, b>> # <<>> /\ Head(<<a, b>>) = a /\ Tail(<<a, b>>) = <<b>>
         /\ Append(<<a>>, b) = <<a, b>> /\ Len(<<a, b>>) = 2
<1>1. <<a, b>> \in Seq(B) /\ <<a, b>> # <<>> /\ Len(<<a, b>>) = 2
  OBVIOUS
<1>2. Head(<<a, b>>) = a
  OBVIOUS
<1>3. Tail(<<a, b>>) = <<b>>
  OBVIOUS
<1>4. Append(<<a>>, b) = <<a, b>>
  <2> DEFINE u == Append(<<a>>, b)
  <2>1. u \in Seq(B) /\ Len(u) = 2
    OBVIOUS
  <2>2. u[1] = a /\ u[2] = b
    OBVIOUS
  <2>3. \A i \in 1..2 : u[i] = <<a, b>>[i]
    <3> HIDE DEF u
    <3> QED BY <2>2
  <2> HIDE DEF u
  <2>4. u = <<a, b>>
    BY <1>1, <2>1, <2>3, SameSeq
  <2> QED BY <2>4 DEF u
<1> QED BY <1>1, <1>2, <1>3, <1>4

LEMMA AppendsThird ==
  ASSUME NEW B, NEW a \in B, NEW b \in B, NEW c \in B
  PROVE  Append(<<a, b>>, c) = <<a, b, c>>
<1> DEFINE u == Append(<<a, b>>, c)
<1>1. u \in Seq(B) /\ Len(u) = 3
  OBVIOUS
<1>2. u[1] = a /\ u[2] = b /\ u[3] = c
  OBVIOUS
<1>3. \A i \in 1..3 : u[i] = <<a, b, c>>[i]
  <2> HIDE DEF u
  <2> QED BY <1>2
<1>4. <<a, b, c>> \in Seq(B) /\ Len(<<a, b, c>>) = 3
  OBVIOUS
<1> HIDE DEF u
<1>5. u = <<a, b, c>>
  BY <1>1, <1>3, <1>4, SameSeq
<1> QED BY <1>5 DEF u

LEMMA Triples ==
  ASSUME NEW B, NEW a \in B, NEW b \in B, NEW c \in B
  PROVE  /\ <<a, b, c>> \in Seq(B) /\ <<a, b, c>> # <<>> /\ Len(<<a, b, c>>) = 3
         /\ Head(<<a, b, c>>) = a /\ Tail(<<a, b, c>>) = <<b, c>>
         /\ <<a, b, c>>[1] = a /\ <<a, b, c>>[2] = b /\ <<a, b, c>>[3] = c
<1>1. <<a, b, c>> \in Seq(B) /\ <<a, b, c>> # <<>> /\ Len(<<a, b, c>>) = 3
  OBVIOUS
<1>2. Head(<<a, b, c>>) = a
  OBVIOUS
<1>3. Tail(<<a, b, c>>) = <<b, c>>
  OBVIOUS
<1>5. <<a, b, c>>[1] = a /\ <<a, b, c>>[2] = b /\ <<a, b, c>>[3] = c
  OBVIOUS
<1> QED BY <1>1, <1>2, <1>3, <1>5

LEMMA SetsOne ==
  ASSUME NEW m \in Known, NEW n \in Bytes, NEW set \in BOOLEAN
  PROVE  Modes!SetModes(m, <<n>>, set) = Modes!SetMode(m, n, set)
<1> DEFINE ns == <<n>>
<1>1. ns \in Seq(Bytes) /\ Len(ns) = 1 /\ ns[1] = n
  OBVIOUS
<1> HIDE DEF ns
<1>2. PICK f \in [0..Len(ns) -> Known] :
        Rounds(Sets(set), m, ns, f) /\ Modes!SetModes(m, ns, set) = f[Len(ns)]
  BY <1>1, SetModesRuns
<1>3. f[0] = m /\ f[1] = Sets(set)[m][n]
  BY <1>1, <1>2 DEF Rounds
<1> QED BY <1>1, <1>2, <1>3 DEF Sets, ns

LEMMA SetsTwo ==
  ASSUME NEW m \in Known, NEW a \in Modes!Names, NEW b \in Modes!Names, NEW set \in BOOLEAN
  PROVE  Modes!SetModes(m, <<a, ";", b>>, set) = Modes!SetMode(Modes!SetMode(m, a, set), b, set)
<1> DEFINE ns == <<a, ";", b>>
<1> DEFINE k == Modes!SetMode(m, a, set)
<1>1. a \in Bytes /\ b \in Bytes /\ ";" \in Bytes
  BY TokensApart DEF Bytes
<1>2. ns \in Seq(Bytes) /\ Len(ns) = 3 /\ ns[1] = a /\ ns[2] = ";" /\ ns[3] = b
  BY <1>1, Triples
<1>3. k \in Known
  BY SetModeIsTyped
<1>4. Modes!SetMode(k, ";", set) = k
  <2>1. /\ Modes!Flag(";") \notin Modes!Flags /\ ";" \notin Modes!Mouse
        /\ ";" \notin Modes!MouseExt
    BY DEF Modes!Flag, Modes!Flags, Modes!Mouse, Modes!MouseExt
  <2> HIDE DEF k
  <2>2. ";" \notin Modes!Mouse \cup Modes!MouseExt
    BY <2>1
  <2> QED BY <2>1, <2>2 DEF Modes!SetMode
<1> HIDE DEF ns
<1>5. PICK f \in [0..Len(ns) -> Known] :
        Rounds(Sets(set), m, ns, f) /\ Modes!SetModes(m, ns, set) = f[Len(ns)]
  BY <1>2, SetModesRuns
<1>6. f[0] = m /\ f[1] = Sets(set)[f[0]][a] /\ f[2] = Sets(set)[f[1]][";"] /\ f[3] = Sets(set)[f[2]][b]
  <2>1. \A i \in 1..3 : f[i] = Sets(set)[f[i - 1]][ns[i]]
    BY <1>2, <1>5 DEF Rounds
  <2>2. f[1] = Sets(set)[f[0]][a]
    <3>1. 1 \in 1..3 /\ 1 - 1 = 0
      OBVIOUS
    <3> QED BY <1>2, <2>1, <3>1
  <2>3. f[2] = Sets(set)[f[1]][";"]
    <3>1. 2 \in 1..3 /\ 2 - 1 = 1
      OBVIOUS
    <3> QED BY <1>2, <2>1, <3>1
  <2>4. f[3] = Sets(set)[f[2]][b]
    <3>1. 3 \in 1..3 /\ 3 - 1 = 2
      OBVIOUS
    <3> QED BY <1>2, <2>1, <3>1
  <2> QED BY <1>5, <2>2, <2>3, <2>4 DEF Rounds
<1>7. f[1] = k
  BY <1>1, <1>6 DEF Sets
<1> HIDE DEF k
<1>8. f[2] = k
  BY <1>1, <1>3, <1>4, <1>6, <1>7 DEF Sets
<1>9. f[3] = Modes!SetMode(k, b, set)
  BY <1>1, <1>3, <1>6, <1>8 DEF Sets
<1> QED BY <1>2, <1>5, <1>9 DEF ns, k

LEMMA ReadsPrivate ==
  ASSUME NEW m \in Known, NEW n \in Modes!Names, NEW final \in {"h", "l"}
  PROVE  /\ Modes!Private(n, final) \in Seq(Bytes)
         /\ Modes!ScannedAll(Base(m), Modes!Private(n, final)) = Base(Modes!SetMode(m, n, final = "h"))
<1>1. n \in Modes!Digits /\ n \in Bytes
  BY TokensApart DEF Bytes
<1>2. "?" \in Modes!Marks /\ "?" \in Bytes /\ final \in Modes!Finals /\ final \in Bytes
  BY DEF Bytes, Modes!Marks, Modes!Finals
<1>3. <<>> \in Seq(Modes!Digits) /\ Append(<<>>, n) = <<n>> /\ <<n>> \in Seq(Modes!Digits)
  BY <1>1, Singles
<1> DEFINE s3 == <<"?", n, final>>
<1> DEFINE s2 == <<n, final>>
<1> DEFINE s1 == <<final>>
<1>4. /\ s3 \in Seq(Bytes) /\ s3 # <<>> /\ Head(s3) = "?" /\ Tail(s3) = s2
      /\ s2 \in Seq(Bytes) /\ s2 # <<>> /\ Head(s2) = n /\ Tail(s2) = s1
      /\ s1 \in Seq(Bytes) /\ s1 # <<>> /\ Head(s1) = final /\ Tail(s1) = <<>>
  BY <1>1, <1>2, Singles, Pairs, Triples
<1>5. Modes!Private(n, final) = <<"esc", "[">> \o s3
  BY DEF Modes!Private
<1> HIDE DEF s1, s2, s3
<1>6. /\ Modes!Private(n, final) \in Seq(Bytes)
      /\ Modes!ScannedAll(Base(m), Modes!Private(n, final))
           = Modes!ScannedAll(At("csi", NoMark, <<>>, m), s3)
  BY <1>4, <1>5, ReadsOpening
<1>7. Modes!ScannedAll(At("csi", NoMark, <<>>, m), s3) = Modes!ScannedAll(At("csi", "?", <<>>, m), s2)
  BY <1>2, <1>4, ReadsMark
<1>8. Modes!ScannedAll(At("csi", "?", <<>>, m), s2) = Modes!ScannedAll(At("csi", "?", <<n>>, m), s1)
  <2>1. "?" \in Modes!Marks \cup {NoMark}
    BY <1>2
  <2> QED BY <1>1, <1>4, <2>1, ReadsFirst
<1> DEFINE p == At("csi", "?", <<n>>, m)
<1>9. Modes!ScannedAll(p, s1) = Base(Modes!Dispatch(p, final))
  <2>1. "?" \in Modes!Marks \cup {NoMark}
    BY <1>2
  <2>2. ASSUME NEW ps \in Seq(Modes!Digits)
        PROVE  Modes!ScannedAll(At("csi", "?", ps, m), s1) = Base(Modes!Dispatch(At("csi", "?", ps, m), final))
    BY <1>2, <1>4, <2>1, ReadsFinal
  <2> QED BY <1>3, <2>2
<1>10. p.private = "?" /\ p.params = <<n>> /\ p.modes = m
  BY AtParts
<1> HIDE DEF p
<1>11. Modes!Dispatch(p, final) = Modes!SetMode(m, n, final = "h")
  BY <1>1, <1>10, SetsOne DEF Modes!Dispatch
<1> QED BY <1>6, <1>7, <1>8, <1>9, <1>11 DEF p

LEMMA Quads ==
  ASSUME NEW B, NEW a \in B, NEW b \in B, NEW c \in B, NEW d \in B
  PROVE  /\ <<a, b, c, d>> \in Seq(B) /\ <<a, b, c, d>> # <<>> /\ Len(<<a, b, c, d>>) = 4
         /\ Head(<<a, b, c, d>>) = a /\ Tail(<<a, b, c, d>>) = <<b, c, d>>
<1>1. <<a, b, c, d>> \in Seq(B) /\ <<a, b, c, d>> # <<>> /\ Len(<<a, b, c, d>>) = 4
  OBVIOUS
<1>2. Head(<<a, b, c, d>>) = a
  OBVIOUS
<1>3. Tail(<<a, b, c, d>>) = <<b, c, d>>
  OBVIOUS
<1> QED BY <1>1, <1>2, <1>3

\* Two numbers or names, and what ends the sequence.
LEMMA ReadsThree ==
  ASSUME NEW m \in Known, NEW pr \in Modes!Marks \cup {NoMark}, NEW a \in Modes!Digits,
         NEW b \in Modes!Digits, NEW c \in Modes!Digits, NEW final \in Modes!Finals
  PROVE  LET k == Modes!Dispatch(At("csi", pr, <<a, b, c>>, m), final)
         IN  /\ k \in Known /\ <<a, b, c, final>> \in Seq(Bytes)
             /\ Modes!ScannedAll(At("csi", pr, <<>>, m), <<a, b, c, final>>) = Base(k)
<1> DEFINE s4 == <<a, b, c, final>>
<1> DEFINE s3 == <<b, c, final>>
<1> DEFINE s2 == <<c, final>>
<1> DEFINE s1 == <<final>>
<1> DEFINE p1 == <<a>>
<1> DEFINE p2 == <<a, b>>
<1> DEFINE p3 == <<a, b, c>>
<1>1. a \in Bytes /\ b \in Bytes /\ c \in Bytes /\ final \in Bytes
  BY DEF Bytes
<1>2. s4 \in Seq(Bytes) /\ s4 # <<>> /\ Head(s4) = a /\ Tail(s4) = s3
  BY <1>1, Quads
<1>3. s3 \in Seq(Bytes) /\ s3 # <<>> /\ Head(s3) = b /\ Tail(s3) = s2
  BY <1>1, Triples
<1>4. s2 \in Seq(Bytes) /\ s2 # <<>> /\ Head(s2) = c /\ Tail(s2) = s1
  BY <1>1, Pairs
<1>5. s1 \in Seq(Bytes) /\ s1 # <<>> /\ Head(s1) = final /\ Tail(s1) = <<>>
  BY <1>1, Singles
<1>6. p1 \in Seq(Modes!Digits) /\ p2 \in Seq(Modes!Digits) /\ p3 \in Seq(Modes!Digits)
  BY Singles, Pairs, Triples
<1>7. Append(p1, b) = p2 /\ Append(p2, c) = p3
  <2>1. Append(p1, b) = p2
    BY Pairs
  <2>2. Append(p2, c) = p3
    BY AppendsThird
  <2> QED BY <2>1, <2>2
<1>8. Modes!ScannedAll(At("csi", pr, <<>>, m), s4) = Modes!ScannedAll(At("csi", pr, p1, m), s3)
  <2> HIDE DEF s4, s3
  <2> QED BY <1>2, ReadsFirst
<1> HIDE DEF s1, s2, s3, s4, p1, p2, p3
<1>9. Modes!ScannedAll(At("csi", pr, p1, m), s3) = Modes!ScannedAll(At("csi", pr, p2, m), s2)
  <2>1. Modes!ScannedAll(At("csi", pr, p1, m), s3) = Modes!ScannedAll(At("csi", pr, Append(p1, b), m), s2)
    BY <1>3, <1>6, ReadsParam
  <2> QED BY <1>7, <2>1
<1>10. Modes!ScannedAll(At("csi", pr, p2, m), s2) = Modes!ScannedAll(At("csi", pr, p3, m), s1)
  <2>1. Modes!ScannedAll(At("csi", pr, p2, m), s2) = Modes!ScannedAll(At("csi", pr, Append(p2, c), m), s1)
    BY <1>4, <1>6, ReadsParam
  <2> QED BY <1>7, <2>1
<1>11. /\ Modes!Dispatch(At("csi", pr, p3, m), final) \in Known
       /\ Modes!ScannedAll(At("csi", pr, p3, m), s1) = Base(Modes!Dispatch(At("csi", pr, p3, m), final))
  BY <1>5, <1>6, ReadsFinal
<1> QED BY <1>2, <1>8, <1>9, <1>10, <1>11 DEF s4, p3

LEMMA ReadsMarked ==
  ASSUME NEW m \in Known, NEW mark \in Modes!Marks, NEW a \in Modes!Digits,
         NEW b \in Modes!Digits, NEW c \in Modes!Digits, NEW final \in Modes!Finals
  PROVE  LET k == Modes!Dispatch(At("csi", mark, <<a, b, c>>, m), final)
         IN  /\ k \in Known /\ <<mark, a, b, c, final>> \in Seq(Bytes)
             /\ Modes!ScannedAll(At("csi", NoMark, <<>>, m), <<mark, a, b, c, final>>) = Base(k)
<1> DEFINE s4 == <<a, b, c, final>>
<1> DEFINE s5 == <<mark, a, b, c, final>>
<1>1. mark \in Bytes /\ a \in Bytes /\ b \in Bytes /\ c \in Bytes /\ final \in Bytes
  BY DEF Bytes
<1>2. s5 \in Seq(Bytes) /\ s5 # <<>>
  BY <1>1
<1>3. Head(s5) = mark
  OBVIOUS
<1>4. Tail(s5) = s4
  OBVIOUS
<1>5. Modes!ScannedAll(At("csi", NoMark, <<>>, m), s5) = Modes!ScannedAll(At("csi", mark, <<>>, m), s4)
  <2> HIDE DEF s4, s5
  <2> QED BY <1>2, <1>3, <1>4, ReadsMark
<1>6. LET k == Modes!Dispatch(At("csi", mark, <<a, b, c>>, m), final)
      IN  k \in Known /\ Modes!ScannedAll(At("csi", mark, <<>>, m), s4) = Base(k)
  BY ReadsThree
<1> HIDE DEF s4
<1> QED BY <1>2, <1>5, <1>6 DEF s5

LEMMA Opened1 ==
  ASSUME NEW a
  PROVE  <<"esc", "[", a>> = <<"esc", "[">> \o <<a>>
OBVIOUS

LEMMA Opened3 ==
  ASSUME NEW a, NEW b, NEW c
  PROVE  <<"esc", "[", a, b, c>> = <<"esc", "[">> \o <<a, b, c>>
OBVIOUS

LEMMA Opened4 ==
  ASSUME NEW a, NEW b, NEW c, NEW d
  PROVE  <<"esc", "[", a, b, c, d>> = <<"esc", "[">> \o <<a, b, c, d>>
OBVIOUS

LEMMA Opened5 ==
  ASSUME NEW a, NEW b, NEW c, NEW d, NEW e
  PROVE  <<"esc", "[", a, b, c, d, e>> = <<"esc", "[">> \o <<a, b, c, d, e>>
OBVIOUS

Semi == ";"
Query == "?"

LEMMA ReadsPair ==
  ASSUME NEW m \in Known, NEW a \in Modes!Names, NEW b \in Modes!Names, NEW final \in {"h", "l"}
  PROVE  LET s == <<"esc", "[", "?", a, ";", b, final>>
             set == final = "h"
         IN  /\ s \in Seq(Bytes)
             /\ Modes!ScannedAll(Base(m), s)
                  = Base(Modes!SetMode(Modes!SetMode(m, a, set), b, set))
<1> DEFINE ps == <<a, Semi, b>>
<1> DEFINE s5 == <<Query, a, Semi, b, final>>
<1> DEFINE s == <<"esc", "[", Query, a, Semi, b, final>>
<1>1. a \in Modes!Digits /\ b \in Modes!Digits /\ Semi \in Modes!Digits
  BY TokensApart DEF Semi
<1>2. Query \in Modes!Marks /\ final \in Modes!Finals
  BY DEF Modes!Marks, Modes!Finals, Query
<1>3. LET k == Modes!Dispatch(At("csi", Query, ps, m), final)
      IN  s5 \in Seq(Bytes) /\ Modes!ScannedAll(At("csi", NoMark, <<>>, m), s5) = Base(k)
  BY <1>1, <1>2, ReadsMarked
<1>4. s = <<"esc", "[">> \o s5
  BY Opened5
<1>5. Modes!SetModes(m, ps, final = "h")
        = Modes!SetMode(Modes!SetMode(m, a, final = "h"), b, final = "h")
  BY SetsTwo DEF Semi
<1> HIDE DEF s, s5, ps
<1> DEFINE p == At("csi", Query, ps, m)
<1>6. p.private = Query /\ p.params = ps /\ p.modes = m
  BY AtParts
<1> HIDE DEF p
<1>7. s \in Seq(Bytes) /\ Modes!ScannedAll(Base(m), s) = Modes!ScannedAll(At("csi", NoMark, <<>>, m), s5)
  BY <1>3, <1>4, ReadsOpening
<1>8. Modes!Dispatch(p, final) = Modes!SetModes(m, ps, final = "h")
  BY <1>6 DEF Modes!Dispatch, Query
<1>9. /\ s \in Seq(Bytes)
      /\ Modes!ScannedAll(Base(m), s) = Base(Modes!SetMode(Modes!SetMode(m, a, final = "h"), b, final = "h"))
  BY <1>3, <1>5, <1>7, <1>8 DEF p
<1> QED BY <1>9 DEF s, Semi, Query

WithRegion(m, r) == [m EXCEPT !.region = r]

LEMMA WithRegionIs ==
  ASSUME NEW m \in Known, NEW r \in {Modes!Full} \cup (Rows \X Rows)
  PROVE  /\ WithRegion(m, r) \in Known /\ WithRegion(m, r).on = m.on
         /\ WithRegion(m, r).mouse = m.mouse /\ WithRegion(m, r).ext = m.ext
         /\ WithRegion(m, r).region = r
BY DEF WithRegion, Known

LEMMA DispatchRegion ==
  ASSUME NEW p, p.private = NoMark
  PROVE  Modes!Dispatch(p, "r") = WithRegion(p.modes, Modes!Region(p.params))
BY DEF Modes!Dispatch, NoMark, WithRegion

LEMMA ReadsMargins ==
  ASSUME NEW m \in Known, NEW a \in DOMAIN Numbers, NEW b \in DOMAIN Numbers
  PROVE  LET s == <<"esc", "[", a, ";", b, "r">>
         IN  /\ s \in Seq(Bytes)
             /\ Modes!Region(<<a, ";", b>>) = <<Numbers[a], Numbers[b]>>
             /\ Modes!ScannedAll(Base(m), s) = Base(WithRegion(m, <<Numbers[a], Numbers[b]>>))
<1> DEFINE Down == "r"
<1> DEFINE ps == <<a, Semi, b>>
<1> DEFINE s4 == <<a, Semi, b, Down>>
<1> DEFINE s == <<"esc", "[", a, Semi, b, Down>>
<1>1. a \in Modes!Digits /\ b \in Modes!Digits /\ Semi \in Modes!Digits
  BY TokensApart DEF Semi
<1>2. Down \in Modes!Finals /\ NoMark \in Modes!Marks \cup {NoMark}
  BY DEF Modes!Finals
<1> HIDE DEF Down
<1>3. LET k == Modes!Dispatch(At("csi", NoMark, ps, m), Down)
      IN  s4 \in Seq(Bytes) /\ Modes!ScannedAll(At("csi", NoMark, <<>>, m), s4) = Base(k)
  BY <1>1, <1>2, ReadsThree
<1>4. s = <<"esc", "[">> \o s4
  BY Opened4
<1>5. Modes!Region(ps) = <<Numbers[a], Numbers[b]>>
  <2>1. Len(ps) = 3 /\ ps[1] = a /\ ps[3] = b
    BY <1>1, Triples
  <2> HIDE DEF ps
  <2> QED BY <2>1 DEF Modes!Region
<1> HIDE DEF s, s4, ps
<1> DEFINE p == At("csi", NoMark, ps, m)
<1>6. p.private = NoMark /\ p.params = ps /\ p.modes = m
  BY AtParts
<1> HIDE DEF p
<1>7. s \in Seq(Bytes) /\ Modes!ScannedAll(Base(m), s) = Modes!ScannedAll(At("csi", NoMark, <<>>, m), s4)
  BY <1>3, <1>4, ReadsOpening
<1>8. Modes!Dispatch(p, Down) = WithRegion(m, <<Numbers[a], Numbers[b]>>)
  BY <1>5, <1>6, DispatchRegion DEF Down
<1>9. s \in Seq(Bytes) /\ Modes!ScannedAll(Base(m), s) = Base(WithRegion(m, <<Numbers[a], Numbers[b]>>))
  BY <1>3, <1>7, <1>8 DEF p
<1> QED BY <1>5, <1>9 DEF s, ps, Semi, Down

\* The other sequences: margins that are taken away, and three that set nothing.
LEMMA ReadsUnset ==
  ASSUME NEW m \in Known
  PROVE  /\ <<"esc", "[", "r">> \in Seq(Bytes)
         /\ Modes!ScannedAll(Base(m), <<"esc", "[", "r">>) = Base(WithRegion(m, Modes!Full))
<1> DEFINE Down == "r"
<1> DEFINE s == <<"esc", "[", Down>>
<1>1. Down \in Modes!Finals /\ Down \in Bytes /\ NoMark \in Modes!Marks \cup {NoMark}
  BY DEF Modes!Finals, Bytes
<1>2. <<>> \in Seq(Modes!Digits)
  OBVIOUS
<1> HIDE DEF Down
<1>3. <<Down>> \in Seq(Bytes) /\ <<Down>> # <<>> /\ Head(<<Down>>) = Down /\ Tail(<<Down>>) = <<>>
  BY <1>1, Singles
<1> DEFINE p == At("csi", NoMark, <<>>, m)
<1>4. p.private = NoMark /\ p.params = <<>> /\ p.modes = m
  BY AtParts
<1>5. p \in Parsers /\ p.state = "csi"
  <2>1. p \in Parsers
    BY <1>2, AtIsTyped
  <2>2. p.state = "csi"
    BY AtParts
  <2> QED BY <2>1, <2>2
<1>6. s = <<"esc", "[">> \o <<Down>>
  BY Opened1
<1> HIDE DEF s, p
<1>7. Modes!Dispatch(p, Down) = WithRegion(m, Modes!Full)
  <2>1. Modes!Region(<<>>) = Modes!Full
    BY DEF Modes!Region
  <2> QED BY <1>4, <2>1, DispatchRegion DEF Down
<1>8. Modes!Scanned(p, Down) = Base(WithRegion(m, Modes!Full))
  BY <1>1, <1>5, <1>7, ReadsInside
<1>9. Modes!ScannedAll(p, <<Down>>) = Modes!ScannedAll(Base(WithRegion(m, Modes!Full)), <<>>)
  <2>1. Modes!ScannedAll(p, <<Down>>) = Modes!ScannedAll(Modes!Scanned(p, Down), Tail(<<Down>>))
    BY <1>3, <1>5, ScannedFirst
  <2> QED BY <1>3, <1>8, <2>1
<1>10. Modes!ScannedAll(p, <<Down>>) = Base(WithRegion(m, Modes!Full))
  BY <1>9, WithRegionIs, BaseIsTyped, ScannedNothing
<1>11. s \in Seq(Bytes) /\ Modes!ScannedAll(Base(m), s) = Modes!ScannedAll(p, <<Down>>)
  BY <1>3, <1>6, ReadsOpening DEF p
<1>12. s \in Seq(Bytes) /\ Modes!ScannedAll(Base(m), s) = Base(WithRegion(m, Modes!Full))
  BY <1>10, <1>11
<1> QED BY <1>12 DEF s, Down

LEMMA ReadsSaved ==
  ASSUME NEW m \in Known
  PROVE  <<"esc", "7">> \in Seq(Bytes) /\ Modes!ScannedAll(Base(m), <<"esc", "7">>) = Base(m)
<1> DEFINE b == "7"
<1> DEFINE a == "esc"
<1> DEFINE s == <<a, b>>
<1> DEFINE t == <<b>>
<1>1. a \in Bytes /\ b \in Bytes
  BY DEF Bytes, Modes!Controls, Modes!Digits, Modes!Names, Modes!Flags
<1>2. <<>> \in Seq(Modes!Digits)
  OBVIOUS
<1> DEFINE p == At("esc", NoMark, <<>>, m)
<1>3. Modes!Scanned(Base(m), a) = p /\ Modes!Scanned(p, b) = Base(m)
  BY ReadsBetween, ReadsEscape
<1>4. p \in Parsers
  BY <1>2, AtIsTyped
<1> HIDE DEF p, a, b
<1>5. s \in Seq(Bytes) /\ s # <<>> /\ Head(s) = a /\ Tail(s) = t
  BY <1>1, Pairs
<1>6. t \in Seq(Bytes) /\ t # <<>> /\ Head(t) = b /\ Tail(t) = <<>>
  BY <1>1, Singles
<1> HIDE DEF s, t
<1>7. Modes!ScannedAll(Base(m), s) = Modes!ScannedAll(Modes!Scanned(Base(m), a), t)
  BY <1>5, BaseIsTyped, ScannedFirst
<1>8. Modes!ScannedAll(p, t) = Modes!ScannedAll(Modes!Scanned(p, b), <<>>)
  BY <1>4, <1>6, ScannedFirst
<1>9. s \in Seq(Bytes) /\ Modes!ScannedAll(Base(m), s) = Base(m)
  BY <1>3, <1>5, <1>7, <1>8, BaseIsTyped, ScannedNothing
<1> QED BY <1>9 DEF s, a, b

LEMMA ReadsAsked ==
  ASSUME NEW m \in Known
  PROVE  /\ <<"esc", "[", ">", "25", "$", "q">> \in Seq(Bytes)
         /\ Modes!ScannedAll(Base(m), <<"esc", "[", ">", "25", "$", "q">>) = Base(m)
<1> DEFINE a == ">"
<1> DEFINE b == "25"
<1> DEFINE c == "$"
<1> DEFINE d == "q"
<1>1. a \in Modes!Marks /\ b \in Modes!Digits /\ c \in Modes!Intermediates /\ d \in Modes!Finals
  BY DEF Modes!Marks, Modes!Digits, Modes!Names, Modes!Flags, Modes!Intermediates, Modes!Finals
<1>2. a \in Bytes /\ b \in Bytes /\ c \in Bytes /\ d \in Bytes
  BY <1>1 DEF Bytes
<1>3. a # "?" /\ a # NoMark
  BY DEF NoMark
<1> HIDE DEF a, b, c, d
<1> DEFINE s4 == <<a, b, c, d>>
<1> DEFINE s3 == <<b, c, d>>
<1> DEFINE s2 == <<c, d>>
<1> DEFINE s1 == <<d>>
<1> DEFINE s == <<"esc", "[", a, b, c, d>>
<1>4. s4 \in Seq(Bytes) /\ s4 # <<>> /\ Head(s4) = a /\ Tail(s4) = s3
  BY <1>2, Quads
<1>5. s3 \in Seq(Bytes) /\ s3 # <<>> /\ Head(s3) = b /\ Tail(s3) = s2
  BY <1>2, Triples
<1>6. s2 \in Seq(Bytes) /\ s2 # <<>> /\ Head(s2) = c /\ Tail(s2) = s1
  BY <1>2, Pairs
<1>7. s1 \in Seq(Bytes) /\ s1 # <<>> /\ Head(s1) = d /\ Tail(s1) = <<>>
  BY <1>2, Singles
<1>8. <<b>> \in Seq(Modes!Digits)
  BY <1>1, Singles
<1>9. s = <<"esc", "[">> \o s4
  BY Opened4
<1> HIDE DEF s, s1, s2, s3, s4
<1> DEFINE p == At("csi", a, <<b>>, m)
<1>10. p.private = a /\ p.modes = m
  BY AtParts
<1>11. Modes!ScannedAll(At("csi", NoMark, <<>>, m), s4) = Modes!ScannedAll(At("csi", a, <<>>, m), s3)
  BY <1>1, <1>4, ReadsMark
<1>12. Modes!ScannedAll(At("csi", a, <<>>, m), s3) = Modes!ScannedAll(p, s2)
  BY <1>1, <1>5, ReadsFirst
<1>13. Modes!ScannedAll(p, s2) = Modes!ScannedAll(p, s1)
  BY <1>1, <1>6, <1>8, ReadsOn
<1>14. Modes!ScannedAll(p, s1) = Base(Modes!Dispatch(p, d))
  BY <1>1, <1>7, <1>8, ReadsFinal
<1> HIDE DEF p
<1>15. Modes!Dispatch(p, d) = m
  BY <1>3, <1>10 DEF Modes!Dispatch, NoMark
<1>16. s \in Seq(Bytes) /\ Modes!ScannedAll(Base(m), s) = Modes!ScannedAll(At("csi", NoMark, <<>>, m), s4)
  BY <1>4, <1>9, ReadsOpening
<1>17. s \in Seq(Bytes) /\ Modes!ScannedAll(Base(m), s) = Base(m)
  BY <1>11, <1>12, <1>13, <1>14, <1>15, <1>16
<1> QED BY <1>17 DEF s, a, b, c, d

LEMMA ReadsBroken ==
  ASSUME NEW m \in Known
  PROVE  /\ <<"esc", "[", "?", "25", "lf">> \in Seq(Bytes)
         /\ Modes!ScannedAll(Base(m), <<"esc", "[", "?", "25", "lf">>) = Base(m)
<1> DEFINE a == "?"
<1> DEFINE b == "25"
<1> DEFINE c == "lf"
<1>1. a \in Modes!Marks /\ b \in Modes!Digits /\ c \in Modes!Controls
  BY DEF Modes!Marks, Modes!Digits, Modes!Names, Modes!Flags, Modes!Controls
<1>2. a \in Bytes /\ b \in Bytes /\ c \in Bytes
  BY <1>1 DEF Bytes
<1> HIDE DEF a, b, c
<1> DEFINE s3 == <<a, b, c>>
<1> DEFINE s2 == <<b, c>>
<1> DEFINE s1 == <<c>>
<1> DEFINE s == <<"esc", "[", a, b, c>>
<1>5. s3 \in Seq(Bytes) /\ s3 # <<>> /\ Head(s3) = a /\ Tail(s3) = s2
  BY <1>2, Triples
<1>6. s2 \in Seq(Bytes) /\ s2 # <<>> /\ Head(s2) = b /\ Tail(s2) = s1
  BY <1>2, Pairs
<1>7. s1 \in Seq(Bytes) /\ s1 # <<>> /\ Head(s1) = c /\ Tail(s1) = <<>>
  BY <1>2, Singles
<1>8. <<b>> \in Seq(Modes!Digits)
  BY <1>1, Singles
<1>9. s = <<"esc", "[">> \o s3
  BY Opened3
<1> HIDE DEF s, s1, s2, s3
<1> DEFINE p == At("csi", a, <<b>>, m)
<1>11. Modes!ScannedAll(At("csi", NoMark, <<>>, m), s3) = Modes!ScannedAll(At("csi", a, <<>>, m), s2)
  BY <1>1, <1>5, ReadsMark
<1>12. Modes!ScannedAll(At("csi", a, <<>>, m), s2) = Modes!ScannedAll(p, s1)
  BY <1>1, <1>6, ReadsFirst
<1>13. Modes!ScannedAll(p, s1) = Base(m)
  BY <1>1, <1>7, <1>8, ReadsControl
<1> HIDE DEF p
<1>14. s \in Seq(Bytes) /\ Modes!ScannedAll(Base(m), s) = Modes!ScannedAll(At("csi", NoMark, <<>>, m), s3)
  BY <1>5, <1>9, ReadsOpening
<1>15. s \in Seq(Bytes) /\ Modes!ScannedAll(Base(m), s) = Base(m)
  BY <1>11, <1>12, <1>13, <1>14
<1> QED BY <1>15 DEF s, a, b, c

-----------------------------------------------------------------------------
\* What a whole sequence says, and what the scanner knows when it has read it.
Named == Modes!Flags \cup Modes!Mouse \cup Modes!MouseExt

Said(s, names, final) ==
  /\ Len(s) >= 5 /\ s[3] = "?" /\ Modes!Last(s) = final
  /\ \E k \in DOMAIN s : Modes!Flag(s[k]) \in names

\* The sequence speaks of the modes N, one of each group, and only there begins one.
Speech(s, N, set) ==
  /\ s \in Seq(Bytes) /\ s # <<>> /\ s[1] = "esc" /\ \A i \in 2..Len(s) : s[i] # "esc"
  /\ N \subseteq Modes!Names
  /\ \A a, b \in N : a = b \/ Modes!Group(a) # Modes!Group(b)
  /\ \A names \in SUBSET Named, final \in {"h", "l"} :
       Said(s, names, final) <=> ((final = "h") = set /\ \E n \in N : Modes!Flag(n) \in names)

MarginsOf(s, r) ==
  IF Modes!Last(s) = "r" THEN Modes!Region(SubSeq(s, 3, Len(s) - 1)) ELSE r

Heard(m, k, s, N, set) ==
  /\ \A f \in Modes!Flags : f \in k.on <=> IF \E n \in N : Modes!Flag(n) = f THEN set ELSE f \in m.on
  /\ \A n \in N \cap Modes!Mouse : k.mouse = Modes!Choose(m.mouse, n, set)
  /\ N \cap Modes!Mouse = {} => k.mouse = m.mouse
  /\ \A n \in N \cap Modes!MouseExt : k.ext = Modes!Choose(m.ext, n, set)
  /\ N \cap Modes!MouseExt = {} => k.ext = m.ext
  /\ k.region = MarginsOf(s, m.region)

Reads(s, N, set) ==
  /\ Speech(s, N, set)
  /\ \A m \in Known : \E k \in Known :
       Modes!ScannedAll(Base(m), s) = Base(k) /\ Heard(m, k, s, N, set)

LEMMA SetModeSets ==
  ASSUME NEW m \in Known, NEW n, NEW set \in BOOLEAN
  PROVE  LET k == Modes!SetMode(m, n, set)
         IN  /\ \A f \in Modes!Flags : f \in k.on <=> IF Modes!Flag(n) = f THEN set ELSE f \in m.on
             /\ k.mouse = IF n \in Modes!Mouse THEN Modes!Choose(m.mouse, n, set) ELSE m.mouse
             /\ k.ext = IF n \in Modes!MouseExt THEN Modes!Choose(m.ext, n, set) ELSE m.ext
             /\ k.region = m.region
<1> DEFINE k == Modes!SetMode(m, n, set)
<1>1. CASE Modes!Flag(n) \in Modes!Flags
  <2> DEFINE on == IF set THEN m.on \cup {Modes!Flag(n)} ELSE m.on \ {Modes!Flag(n)}
  <2>1. k = [m EXCEPT !.on = on]
    BY <1>1, SetModeIs
  <2>2. n \notin Modes!Mouse /\ n \notin Modes!MouseExt
    BY <1>1, NamesApart
  <2> HIDE DEF on, k
  <2>3. k.on = on /\ k.mouse = m.mouse /\ k.ext = m.ext /\ k.region = m.region
    BY <2>1 DEF Known
  <2>4. \A f \in Modes!Flags : f \in on <=> IF Modes!Flag(n) = f THEN set ELSE f \in m.on
    BY DEF on
  <2> QED BY <2>2, <2>3, <2>4 DEF k
<1>2. CASE n \in Modes!Mouse
  <2> DEFINE c == Modes!Choose(m.mouse, n, set)
  <2>1. k = [m EXCEPT !.mouse = c]
    BY <1>2, SetModeIs
  <2>2. Modes!Flag(n) \notin Modes!Flags /\ n \notin Modes!MouseExt
    BY <1>2, NamesApart
  <2> HIDE DEF c, k
  <2>3. k.mouse = c /\ k.on = m.on /\ k.ext = m.ext /\ k.region = m.region
    BY <2>1 DEF Known
  <2> QED BY <1>2, <2>2, <2>3 DEF k, c
<1>3. CASE n \in Modes!MouseExt
  <2> DEFINE c == Modes!Choose(m.ext, n, set)
  <2>1. k = [m EXCEPT !.ext = c]
    BY <1>3, SetModeIs
  <2>2. Modes!Flag(n) \notin Modes!Flags /\ n \notin Modes!Mouse
    BY <1>3, NamesApart
  <2> HIDE DEF c, k
  <2>3. k.ext = c /\ k.on = m.on /\ k.mouse = m.mouse /\ k.region = m.region
    BY <2>1 DEF Known
  <2> QED BY <1>3, <2>2, <2>3 DEF k, c
<1>4. CASE Modes!Flag(n) \notin Modes!Flags /\ n \notin Modes!Mouse \cup Modes!MouseExt
  <2>1. k = m
    BY <1>4, SetModeIs
  <2> HIDE DEF k
  <2> QED BY <1>4, <2>1 DEF k
<1> QED BY <1>1, <1>2, <1>3, <1>4

LEMMA NamesAreTold ==
  /\ \A t \in {"esc", "[", "?", ";", "h", "l"} : Modes!Flag(t) \notin Named
  /\ \A n \in Modes!Names : n \notin {"esc", "[", "?", ";", "h", "l", "r"}
<1> USE DEF Modes!Names, Modes!Flags, Modes!Mouse, Modes!MouseExt
<1>1. \A t \in {"esc", "[", "?", ";", "h", "l"} : Modes!Flag(t) = t
  BY DEF Modes!Flag
<1>2. \A t \in {"esc", "[", "?", ";", "h", "l"} : t \notin Named
  BY DEF Named
<1>3. \A n \in Modes!Names : n \notin {"esc", "[", "?", ";", "h", "l", "r"}
  OBVIOUS
<1> QED BY <1>1, <1>2, <1>3

LEMMA Fives ==
  ASSUME NEW a, NEW b, NEW c, NEW d, NEW e
  PROVE  LET s == <<a, b, c, d, e>>
         IN  /\ Len(s) = 5 /\ DOMAIN s = 1..5 /\ s # <<>>
             /\ s[1] = a /\ s[2] = b /\ s[3] = c /\ s[4] = d /\ s[5] = e
             /\ Modes!Last(s) = e
<1> DEFINE s == <<a, b, c, d, e>>
<1>1. Len(s) = 5 /\ DOMAIN s = 1..5 /\ s # <<>>
  OBVIOUS
<1>2. s[1] = a /\ s[2] = b /\ s[3] = c /\ s[4] = d /\ s[5] = e
  OBVIOUS
<1> HIDE DEF s
<1>3. Modes!Last(s) = e
  BY <1>1, <1>2 DEF Modes!Last
<1> QED BY <1>1, <1>2, <1>3 DEF s

\* One name.
LEMMA OneIsSpoken ==
  ASSUME NEW n \in Modes!Names, NEW final \in {"h", "l"}
  PROVE  Reads(Modes!Private(n, final), {n}, final = "h")
<1> DEFINE s == Modes!Private(n, final)
<1> DEFINE set == final = "h"
<1>1. /\ Len(s) = 5 /\ DOMAIN s = 1..5 /\ s # <<>>
      /\ s[1] = "esc" /\ s[2] = "[" /\ s[3] = "?" /\ s[4] = n /\ s[5] = final
      /\ Modes!Last(s) = final
  BY Fives DEF Modes!Private
<1>2. \A m \in Known : Modes!ScannedAll(Base(m), s) = Base(Modes!SetMode(m, n, set))
  BY ReadsPrivate
<1>3. s \in Seq(Bytes)
  <2>1. Modes!Defaults \in Known
    BY DEF Known, Modes!Defaults, Modes!Flags
  <2> QED BY <2>1, ReadsPrivate
<1> HIDE DEF s
<1>4. ASSUME NEW names \in SUBSET Named, NEW f \in {"h", "l"}
      PROVE  Said(s, names, f) <=> ((f = "h") = set /\ \E a \in {n} : Modes!Flag(a) \in names)
  <2>1. \A i \in DOMAIN s : Modes!Flag(s[i]) \in names <=> i = 4 /\ Modes!Flag(n) \in names
    <3>1. \A t \in {"esc", "[", "?", final} : Modes!Flag(t) \notin names
      BY NamesAreTold
    <3> QED BY <1>1, <3>1
  <2>2. (\E i \in DOMAIN s : Modes!Flag(s[i]) \in names) <=> Modes!Flag(n) \in names
    BY <1>1, <2>1
  <2>3. Modes!Last(s) = f <=> (f = "h") = set
    BY <1>1
  <2> HIDE DEF set
  <2> QED BY <1>1, <2>2, <2>3 DEF Said
<1>5. \A i \in 2..Len(s) : s[i] # "esc"
  <2>1. n # "esc" /\ final # "esc"
    BY NamesAreTold
  <2>2. \A i \in 2..5 : i = 2 \/ i = 3 \/ i = 4 \/ i = 5
    OBVIOUS
  <2>3. s[2] # "esc" /\ s[3] # "esc" /\ s[4] # "esc" /\ s[5] # "esc"
    BY <1>1, <2>1
  <2> QED BY <1>1, <2>2, <2>3
<1>6. Speech(s, {n}, set)
  BY <1>1, <1>3, <1>4, <1>5 DEF Speech
<1>7. ASSUME NEW m \in Known
      PROVE  Heard(m, Modes!SetMode(m, n, set), s, {n}, set)
  <2>1. MarginsOf(s, m.region) = m.region
    BY <1>1 DEF MarginsOf
  <2> HIDE DEF set
  <2>2. set \in BOOLEAN
    BY DEF set
  <2> QED BY <2>1, <2>2, SetModeSets DEF Heard
<1>8. \A m \in Known : Modes!SetMode(m, n, set) \in Known
  BY SetModeIsTyped
<1>9. Reads(s, {n}, set)
  <2> HIDE DEF set
  <2> QED BY <1>2, <1>6, <1>7, <1>8 DEF Reads
<1> QED BY <1>9 DEF s

\* Two names, of different groups.
LEMMA TwoAreSpoken ==
  ASSUME NEW a \in Modes!Names, NEW b \in Modes!Names, Modes!Group(a) # Modes!Group(b),
         NEW final \in {"h", "l"}
  PROVE  Reads(<<"esc", "[", "?", a, ";", b, final>>, {a, b}, final = "h")
<1> DEFINE s == <<"esc", "[", "?", a, ";", b, final>>
<1> DEFINE set == final = "h"
<1>1. /\ Len(s) = 7 /\ DOMAIN s = 1..7 /\ s # <<>>
      /\ s[1] = "esc" /\ s[2] = "[" /\ s[3] = "?" /\ s[4] = a /\ s[5] = ";" /\ s[6] = b /\ s[7] = final
      /\ Modes!Last(s) = final
  <2>1. Len(s) = 7 /\ DOMAIN s = 1..7 /\ s # <<>>
    OBVIOUS
  <2>2. /\ s[1] = "esc" /\ s[2] = "[" /\ s[3] = "?" /\ s[4] = a /\ s[5] = ";"
        /\ s[6] = b /\ s[7] = final
    OBVIOUS
  <2> HIDE DEF s
  <2> QED BY <2>1, <2>2 DEF Modes!Last
<1>2. \A m \in Known : Modes!ScannedAll(Base(m), s) = Base(Modes!SetMode(Modes!SetMode(m, a, set), b, set))
  BY ReadsPair
<1>3. s \in Seq(Bytes)
  <2>1. Modes!Defaults \in Known
    BY DEF Known, Modes!Defaults, Modes!Flags
  <2> QED BY <2>1, ReadsPair
<1> HIDE DEF s
<1>4. ASSUME NEW names \in SUBSET Named, NEW f \in {"h", "l"}
      PROVE  Said(s, names, f) <=> ((f = "h") = set /\ \E n \in {a, b} : Modes!Flag(n) \in names)
  <2>1. \A i \in DOMAIN s : Modes!Flag(s[i]) \in names
                              <=> (i = 4 /\ Modes!Flag(a) \in names) \/ (i = 6 /\ Modes!Flag(b) \in names)
    <3>1. \A t \in {"esc", "[", "?", ";", final} : Modes!Flag(t) \notin names
      BY NamesAreTold
    <3>2. \A i \in DOMAIN s : i = 4 \/ i = 6 \/ s[i] \in {"esc", "[", "?", ";", final}
      <4>1. \A i \in 1..7 : i = 1 \/ i = 2 \/ i = 3 \/ i = 4 \/ i = 5 \/ i = 6 \/ i = 7
        OBVIOUS
      <4> QED BY <1>1, <4>1
    <3>3. s[4] = a /\ s[6] = b
      BY <1>1
    <3>4. \A i \in DOMAIN s : i = 4 => i # 6
      OBVIOUS
    <3> QED BY <3>1, <3>2, <3>3, <3>4
  <2>2. (\E i \in DOMAIN s : Modes!Flag(s[i]) \in names)
          <=> \E n \in {a, b} : Modes!Flag(n) \in names
    <3>1. 4 \in DOMAIN s /\ 6 \in DOMAIN s
      <4>1. DOMAIN s = 1..7
        BY <1>1
      <4> QED BY <4>1
    <3>2. (\E i \in DOMAIN s : Modes!Flag(s[i]) \in names)
            <=> Modes!Flag(a) \in names \/ Modes!Flag(b) \in names
      BY <2>1, <3>1
    <3> QED BY <3>2
  <2>3. Modes!Last(s) = f <=> (f = "h") = set
    <3>1. Modes!Last(s) = final
      BY <1>1
    <3> QED BY <3>1
  <2> HIDE DEF set
  <2>4. Len(s) >= 5 /\ s[3] = "?"
    <3>1. Len(s) = 7
      BY <1>1
    <3>2. s[3] = "?"
      BY <1>1
    <3>3. Len(s) >= 5
      BY <3>1
    <3> QED BY <3>2, <3>3
  <2> QED BY <2>2, <2>3, <2>4 DEF Said
<1>5. \A i \in 2..Len(s) : s[i] # "esc"
  <2>1. a # "esc" /\ b # "esc" /\ final # "esc"
    BY NamesAreTold
  <2>2. \A i \in 2..7 : i = 2 \/ i = 3 \/ i = 4 \/ i = 5 \/ i = 6 \/ i = 7
    OBVIOUS
  <2>3. s[2] # "esc" /\ s[3] # "esc" /\ s[4] # "esc" /\ s[5] # "esc" /\ s[6] # "esc" /\ s[7] # "esc"
    BY <1>1, <2>1
  <2> QED BY <1>1, <2>2, <2>3
<1>6. Speech(s, {a, b}, set)
  BY <1>1, <1>3, <1>4, <1>5 DEF Speech
<1>7. ASSUME NEW m \in Known
      PROVE  LET k == Modes!SetMode(Modes!SetMode(m, a, set), b, set)
             IN  k \in Known /\ Heard(m, k, s, {a, b}, set)
  <2>1. MarginsOf(s, m.region) = m.region
    BY <1>1 DEF MarginsOf
  <2> HIDE DEF set
  <2>2. set \in BOOLEAN
    BY DEF set
  <2> DEFINE l == Modes!SetMode(m, a, set)
  <2> DEFINE k == Modes!SetMode(l, b, set)
  <2>3. l \in Known /\ k \in Known
    BY <2>2, SetModeIsTyped
  <2>4. /\ \A f \in Modes!Flags : f \in l.on <=> IF Modes!Flag(a) = f THEN set ELSE f \in m.on
        /\ l.mouse = IF a \in Modes!Mouse THEN Modes!Choose(m.mouse, a, set) ELSE m.mouse
        /\ l.ext = IF a \in Modes!MouseExt THEN Modes!Choose(m.ext, a, set) ELSE m.ext
        /\ l.region = m.region
    BY <2>2, SetModeSets
  <2> HIDE DEF l
  <2>5. /\ \A f \in Modes!Flags : f \in k.on <=> IF Modes!Flag(b) = f THEN set ELSE f \in l.on
        /\ k.mouse = IF b \in Modes!Mouse THEN Modes!Choose(l.mouse, b, set) ELSE l.mouse
        /\ k.ext = IF b \in Modes!MouseExt THEN Modes!Choose(l.ext, b, set) ELSE l.ext
        /\ k.region = l.region
    BY <2>2, <2>3, SetModeSets
  <2> HIDE DEF k
  <2>6. ~(a \in Modes!Mouse /\ b \in Modes!Mouse) /\ ~(a \in Modes!MouseExt /\ b \in Modes!MouseExt)
    BY NamesApart DEF Modes!Group
  <2>7. \A f \in Modes!Flags : f \in k.on <=> IF \E n \in {a, b} : Modes!Flag(n) = f THEN set ELSE f \in m.on
    BY <2>4, <2>5
  <2>8. /\ \A n \in {a, b} \cap Modes!Mouse : k.mouse = Modes!Choose(m.mouse, n, set)
        /\ {a, b} \cap Modes!Mouse = {} => k.mouse = m.mouse
    BY <2>4, <2>5, <2>6
  <2>9. /\ \A n \in {a, b} \cap Modes!MouseExt : k.ext = Modes!Choose(m.ext, n, set)
        /\ {a, b} \cap Modes!MouseExt = {} => k.ext = m.ext
    BY <2>4, <2>5, <2>6
  <2>10. Heard(m, k, s, {a, b}, set)
    BY <2>1, <2>4, <2>5, <2>7, <2>8, <2>9 DEF Heard
  <2> QED BY <2>3, <2>10 DEF k, l
<1>8. Reads(s, {a, b}, set)
  <2> HIDE DEF set
  <2>1. ASSUME NEW m \in Known
        PROVE  \E k \in Known : Modes!ScannedAll(Base(m), s) = Base(k) /\ Heard(m, k, s, {a, b}, set)
    BY <1>2, <1>7
  <2> QED BY <1>6, <2>1 DEF Reads
<1> QED BY <1>8 DEF s

\* No name: margins, and what sets nothing.
LEMMA NoneIsSpoken ==
  ASSUME NEW s \in Seq(Bytes), s # <<>>, s[1] = "esc", \A i \in 2..Len(s) : s[i] # "esc",
         Len(s) >= 5 /\ s[3] = "?" => Modes!Last(s) \notin {"h", "l"}
  PROVE  Speech(s, {}, FALSE)
<1>1. \A names \in SUBSET Named, final \in {"h", "l"} : ~Said(s, names, final)
  BY DEF Said
<1> QED BY <1>1 DEF Speech

LEMMA NoneIsHeard ==
  ASSUME NEW s, NEW m \in Known, NEW r \in {Modes!Full} \cup (Rows \X Rows), MarginsOf(s, m.region) = r
  PROVE  WithRegion(m, r) \in Known /\ Heard(m, WithRegion(m, r), s, {}, FALSE)
BY WithRegionIs DEF Heard

LEMMA SameRegion ==
  ASSUME NEW m \in Known
  PROVE  WithRegion(m, m.region) = m
BY DEF WithRegion, Known

LEMMA NothingIsSet ==
  ASSUME NEW s \in Seq(Bytes), s # <<>>, s[1] = "esc", \A i \in 2..Len(s) : s[i] # "esc",
         Len(s) >= 5 /\ s[3] = "?" => Modes!Last(s) \notin {"h", "l"}, Modes!Last(s) # "r",
         \A m \in Known : Modes!ScannedAll(Base(m), s) = Base(m)
  PROVE  Reads(s, {}, FALSE)
<1>1. Speech(s, {}, FALSE)
  BY NoneIsSpoken
<1>2. ASSUME NEW m \in Known PROVE Heard(m, m, s, {}, FALSE)
  <2>1. m.region \in {Modes!Full} \cup (Rows \X Rows)
    BY DEF Known
  <2>2. MarginsOf(s, m.region) = m.region
    BY DEF MarginsOf
  <2> QED BY <2>1, <2>2, NoneIsHeard, SameRegion
<1> QED BY <1>1, <1>2 DEF Reads

LEMMA SavedIsRead == Reads(<<"esc", "7">>, {}, FALSE)
<1> DEFINE s == <<"esc", "7">>
<1>1. Len(s) = 2 /\ s # <<>>
  OBVIOUS
<1>2. s[1] = "esc" /\ s[2] = "7"
  OBVIOUS
<1>3. s \in Seq(Bytes)
  <2>1. Modes!Defaults \in Known
    BY DEF Known, Modes!Defaults, Modes!Flags
  <2> QED BY <2>1, ReadsSaved
<1>4. \A m \in Known : Modes!ScannedAll(Base(m), s) = Base(m)
  BY ReadsSaved
<1> HIDE DEF s
<1>5. Modes!Last(s) = "7"
  BY <1>1, <1>2 DEF Modes!Last
<1>6. ~(Len(s) >= 5)
  BY <1>1
<1>7. \A i \in 2..Len(s) : s[i] # "esc"
  <2>1. \A i \in 2..Len(s) : i = 2
    BY <1>1
  <2> QED BY <1>2, <2>1
<1>8. Modes!Last(s) # "r"
  BY <1>5
<1>9. Reads(s, {}, FALSE)
  BY <1>1, <1>2, <1>3, <1>4, <1>6, <1>7, <1>8, NothingIsSet
<1> QED BY <1>9 DEF s

LEMMA AskedIsRead == Reads(<<"esc", "[", ">", "25", "$", "q">>, {}, FALSE)
<1> DEFINE s == <<"esc", "[", ">", "25", "$", "q">>
<1>1. Len(s) = 6 /\ s # <<>>
  OBVIOUS
<1>2. s[1] = "esc" /\ s[2] = "[" /\ s[3] = ">" /\ s[4] = "25" /\ s[5] = "$" /\ s[6] = "q"
  OBVIOUS
<1>3. s \in Seq(Bytes)
  <2>1. Modes!Defaults \in Known
    BY DEF Known, Modes!Defaults, Modes!Flags
  <2> QED BY <2>1, ReadsAsked
<1>4. \A m \in Known : Modes!ScannedAll(Base(m), s) = Base(m)
  BY ReadsAsked
<1> HIDE DEF s
<1>5. Modes!Last(s) = "q"
  BY <1>1, <1>2 DEF Modes!Last
<1>6. s[3] # "?"
  BY <1>2
<1>7. \A i \in 2..Len(s) : s[i] # "esc"
  <2>1. \A i \in 2..Len(s) : i = 2 \/ i = 3 \/ i = 4 \/ i = 5 \/ i = 6
    BY <1>1
  <2> QED BY <1>2, <2>1
<1>8. Modes!Last(s) # "r"
  BY <1>5
<1>9. Reads(s, {}, FALSE)
  BY <1>1, <1>2, <1>3, <1>4, <1>6, <1>7, <1>8, NothingIsSet
<1> QED BY <1>9 DEF s

LEMMA BrokenIsRead == Reads(<<"esc", "[", "?", "25", "lf">>, {}, FALSE)
<1> DEFINE s == <<"esc", "[", "?", "25", "lf">>
<1>1. Len(s) = 5 /\ s # <<>>
  OBVIOUS
<1>2. s[1] = "esc" /\ s[2] = "[" /\ s[3] = "?" /\ s[4] = "25" /\ s[5] = "lf"
  OBVIOUS
<1>3. s \in Seq(Bytes)
  <2>1. Modes!Defaults \in Known
    BY DEF Known, Modes!Defaults, Modes!Flags
  <2> QED BY <2>1, ReadsBroken
<1>4. \A m \in Known : Modes!ScannedAll(Base(m), s) = Base(m)
  BY ReadsBroken
<1> HIDE DEF s
<1>5. Modes!Last(s) = "lf"
  BY <1>1, <1>2 DEF Modes!Last
<1>6. Modes!Last(s) \notin {"h", "l"}
  BY <1>5
<1>7. \A i \in 2..Len(s) : s[i] # "esc"
  <2>1. \A i \in 2..Len(s) : i = 2 \/ i = 3 \/ i = 4 \/ i = 5
    BY <1>1
  <2> QED BY <1>2, <2>1
<1>8. Modes!Last(s) # "r"
  BY <1>5
<1>9. Reads(s, {}, FALSE)
  BY <1>1, <1>2, <1>3, <1>4, <1>6, <1>7, <1>8, NothingIsSet
<1> QED BY <1>9 DEF s

LEMMA UnsetIsRead == Reads(<<"esc", "[", "r">>, {}, FALSE)
<1> DEFINE s == <<"esc", "[", "r">>
<1>1. Len(s) = 3 /\ s # <<>>
  OBVIOUS
<1>2. s[1] = "esc" /\ s[2] = "[" /\ s[3] = "r"
  OBVIOUS
<1>3. s \in Seq(Bytes)
  <2>1. Modes!Defaults \in Known
    BY DEF Known, Modes!Defaults, Modes!Flags
  <2> QED BY <2>1, ReadsUnset
<1>4. \A m \in Known : Modes!ScannedAll(Base(m), s) = Base(WithRegion(m, Modes!Full))
  BY ReadsUnset
<1>5. SubSeq(s, 3, 2) = <<>>
  OBVIOUS
<1> HIDE DEF s
<1>6. Modes!Last(s) = "r"
  BY <1>1, <1>2 DEF Modes!Last
<1>7. \A i \in 2..Len(s) : s[i] # "esc"
  <2>1. \A i \in 2..Len(s) : i = 2 \/ i = 3
    BY <1>1
  <2> QED BY <1>2, <2>1
<1>8. \A r : MarginsOf(s, r) = Modes!Full
  <2>1. Len(s) - 1 = 2
    BY <1>1
  <2>2. Modes!Region(<<>>) = Modes!Full
    BY DEF Modes!Region
  <2> QED BY <1>5, <1>6, <2>1, <2>2 DEF MarginsOf
<1>9. Speech(s, {}, FALSE)
  <2>1. ~(Len(s) >= 5)
    BY <1>1
  <2> QED BY <1>1, <1>2, <1>3, <1>7, <2>1, NoneIsSpoken
<1>10. Reads(s, {}, FALSE)
  BY <1>4, <1>8, <1>9, NoneIsHeard DEF Reads
<1> QED BY <1>10 DEF s

LEMMA Middle ==
  ASSUME NEW B, NEW s \in Seq(B), Len(s) = 6
  PROVE  LET u == SubSeq(s, 3, 5)
         IN  /\ u \in Seq(B) /\ Len(u) = 3 /\ u[1] = s[3] /\ u[2] = s[4] /\ u[3] = s[5]
             /\ s[3] \in B /\ s[4] \in B /\ s[5] \in B
<1>0. \A i \in 1..6 : s[i] \in B
  <2>1. \A i \in 1..Len(s) : s[i] \in B
    BY ElementOfSeq
  <2> QED BY <2>1
<1>1. s[3] \in B /\ s[4] \in B /\ s[5] \in B
  BY <1>0
<1> DEFINE u == SubSeq(s, 3, 5)
<1>2. u \in Seq(B) /\ Len(u) = 5 - 3 + 1 /\ \A i \in 1..(5 - 3 + 1) : u[i] = s[3 + i - 1]
  <2>1. \A i \in 3..5 : s[i] \in B
    BY <1>0
  <2> QED BY <2>1, SubSeqProperties
<1> HIDE DEF u
<1>3. Len(u) = 3 /\ u[1] = s[3] /\ u[2] = s[4] /\ u[3] = s[5]
  BY <1>2
<1> QED BY <1>1, <1>2, <1>3

LEMMA MarginsAreRead ==
  ASSUME NEW a \in DOMAIN Numbers, NEW b \in DOMAIN Numbers
  PROVE  Reads(<<"esc", "[", a, ";", b, "r">>, {}, FALSE)
<1> DEFINE s == <<"esc", "[", a, ";", b, "r">>
<1> DEFINE r == <<Numbers[a], Numbers[b]>>
<1>1. Len(s) = 6 /\ s # <<>>
  OBVIOUS
<1>2. s[1] = "esc" /\ s[2] = "[" /\ s[3] = a /\ s[4] = ";" /\ s[5] = b /\ s[6] = "r"
  OBVIOUS
<1>3. \A m \in Known : Modes!ScannedAll(Base(m), s) = Base(WithRegion(m, r))
  BY ReadsMargins
<1>4. s \in Seq(Bytes) /\ Modes!Region(<<a, ";", b>>) = r
  <2>1. Modes!Defaults \in Known
    BY DEF Known, Modes!Defaults, Modes!Flags
  <2> QED BY <2>1, ReadsMargins
<1>5. SubSeq(s, 3, 5) = <<a, ";", b>>
  <2> DEFINE B == Bytes
  <2> DEFINE u == SubSeq(s, 3, 5)
  <2> DEFINE v == <<s[3], s[4], s[5]>>
  <2>1. <<a, ";", b>> = v
    BY <1>2
  <2> HIDE DEF s
  <2>2. s \in Seq(B)
    BY <1>4
  <2>3. u \in Seq(B) /\ Len(u) = 3 /\ u[1] = s[3] /\ u[2] = s[4] /\ u[3] = s[5]
    BY <1>1, <2>2, Middle
  <2>4. v \in Seq(B) /\ Len(v) = 3 /\ v[1] = s[3] /\ v[2] = s[4] /\ v[3] = s[5]
    <3>1. s[3] \in B /\ s[4] \in B /\ s[5] \in B
      BY <1>1, <2>2, Middle
    <3> HIDE DEF B
    <3> QED BY <3>1, Triples
  <2> HIDE DEF u, v, B
  <2>5. \A i \in 1..3 : u[i] = v[i]
    <3>2. \A i \in 1..3 : i = 1 \/ i = 2 \/ i = 3
      OBVIOUS
    <3> QED BY <2>3, <2>4, <3>2
  <2>6. u = v
    BY <2>3, <2>4, <2>5, SameSeq
  <2> QED BY <2>1, <2>6 DEF u
<1>6. r \in Rows \X Rows
  BY DEF Rows
<1> HIDE DEF s, r
<1>7. Modes!Last(s) = "r"
  BY <1>1, <1>2 DEF Modes!Last
<1>8. a # "esc" /\ b # "esc" /\ a # "?"
  <2>1. "esc" \in Modes!Controls /\ "?" \in Modes!Marks
    BY DEF Modes!Controls, Modes!Marks
  <2> QED BY <2>1, TokensApart
<1>9. \A i \in 2..Len(s) : s[i] # "esc"
  <2>1. \A i \in 2..Len(s) : i = 2 \/ i = 3 \/ i = 4 \/ i = 5 \/ i = 6
    BY <1>1
  <2> QED BY <1>2, <1>8, <2>1
<1>10. \A q : MarginsOf(s, q) = r
  <2>1. Len(s) - 1 = 5
    BY <1>1
  <2> QED BY <1>4, <1>5, <1>7, <2>1 DEF MarginsOf
<1>11. Speech(s, {}, FALSE)
  BY <1>1, <1>2, <1>4, <1>8, <1>9, NoneIsSpoken
<1>12. Reads(s, {}, FALSE)
  BY <1>3, <1>6, <1>10, <1>11, NoneIsHeard DEF Reads
<1> QED BY <1>12 DEF s

LEMMA WholeIsRead ==
  ASSUME NEW s \in Modes!Whole
  PROVE  \E N \in SUBSET Modes!Names, set \in BOOLEAN : Reads(s, N, set)
<1>0. {} \in SUBSET Modes!Names /\ FALSE \in BOOLEAN
  OBVIOUS
<1>1. CASE s \in Modes!OneMode
  <2>1. PICK n \in Modes!Names, final \in {"h", "l"} : s = Modes!Private(n, final)
    BY <1>1 DEF Modes!OneMode
  <2>2. Reads(s, {n}, final = "h")
    BY <2>1, OneIsSpoken
  <2>3. {n} \in SUBSET Modes!Names /\ (final = "h") \in BOOLEAN
    OBVIOUS
  <2> QED BY <2>2, <2>3
<1>2. CASE s \in Modes!TwoModes
  <2> DEFINE P == {t \in Modes!Names \X Modes!Names \X {"h", "l"} : Modes!Group(t[1]) # Modes!Group(t[2])}
  <2>1. PICK t \in P : s = <<"esc", "[", "?", t[1], ";", t[2], t[3]>>
    BY <1>2 DEF Modes!TwoModes
  <2>2. PICK a \in Modes!Names, b \in Modes!Names, final \in {"h", "l"} :
          t[1] = a /\ t[2] = b /\ t[3] = final /\ Modes!Group(a) # Modes!Group(b)
    <3>1. t \in P
      OBVIOUS
    <3>2. t \in Modes!Names \X Modes!Names \X {"h", "l"} /\ Modes!Group(t[1]) # Modes!Group(t[2])
      BY <3>1
    <3> QED BY <3>2
  <2>3. s = <<"esc", "[", "?", a, ";", b, final>>
    BY <2>1, <2>2
  <2>4. Reads(s, {a, b}, final = "h")
    BY <2>2, <2>3, TwoAreSpoken
  <2>5. {a, b} \in SUBSET Modes!Names /\ (final = "h") \in BOOLEAN
    OBVIOUS
  <2> QED BY <2>4, <2>5
<1>3. CASE s \in Modes!InOrder
  <2> DEFINE P == {ns \in (DOMAIN Numbers) \X (DOMAIN Numbers) : Numbers[ns[1]] < Numbers[ns[2]]}
  <2>1. PICK ns \in P : s = <<"esc", "[", ns[1], ";", ns[2], "r">>
    BY <1>3 DEF Modes!InOrder
  <2>2. PICK a \in DOMAIN Numbers, b \in DOMAIN Numbers : ns[1] = a /\ ns[2] = b
    <3>1. ns \in P
      OBVIOUS
    <3>2. ns \in (DOMAIN Numbers) \X (DOMAIN Numbers)
      BY <3>1
    <3> QED BY <3>2
  <2>3. s = <<"esc", "[", a, ";", b, "r">>
    BY <2>1, <2>2
  <2> QED BY <1>0, <2>3, MarginsAreRead
<1>4. CASE s \in {<<"esc", "[", "r">>, <<"esc", "7">>, <<"esc", "[", ">", "25", "$", "q">>,
                  <<"esc", "[", "?", "25", "lf">>}
  BY <1>0, <1>4, UnsetIsRead, SavedIsRead, AskedIsRead, BrokenIsRead
<1> QED BY <1>1, <1>2, <1>3, <1>4 DEF Modes!Whole

-----------------------------------------------------------------------------
\* What the program asked for, by what it has written: w.  The last sequence of a
\* kind is the new one, or what it was before.
Latest(at) == CHOOSE i \in at : \A j \in at : j <= i
SaidAt(w, names, final) == {i \in DOMAIN w : Said(w[i], names, final)}
LastOf(w, names, final) ==
  IF SaidAt(w, names, final) = {} THEN 0 ELSE Latest(SaidAt(w, names, final))

MarginsAt(w) == {i \in DOMAIN w : Modes!Last(w[i]) = "r"}
LastMargins(w) == Latest(MarginsAt(w))
MarginsIn(w) ==
  IF MarginsAt(w) = {} THEN Modes!Full
  ELSE LET s == w[LastMargins(w)] IN Modes!Region(SubSeq(s, 3, Len(s) - 1))

SetIn(w, n) == LastOf(w, {n}, "h") > LastOf(w, {n}, "l")

\* Of a group, c is on, and no other.
ChosenIn(w, group, c) ==
  /\ c \in group => SetIn(w, c) /\ LastOf(w, group, "h") = LastOf(w, {c}, "h")
  /\ \A n \in group : n # c => ~(SetIn(w, n) /\ LastOf(w, group, "h") = LastOf(w, {n}, "h"))

Agrees(w, m) ==
  /\ \A f \in Modes!Flags :
       f \in m.on <=> SetIn(w, f) \/ (f \in Modes!Defaults.on /\ LastOf(w, {f}, "l") = 0)
  /\ ChosenIn(w, Modes!Mouse, m.mouse) /\ ChosenIn(w, Modes!MouseExt, m.ext)
  /\ m.region = MarginsIn(w)

Counted(w) ==
  /\ \A names \in SUBSET Named, final \in {"h", "l"} : LastOf(w, names, final) \in 0..Len(w)
  /\ MarginsAt(w) # {} => LastMargins(w) \in MarginsAt(w)

LEMMA Appended ==
  ASSUME NEW S, NEW w \in Seq(S), NEW s \in S
  PROVE  LET v == Append(w, s)
         IN  /\ Len(w) \in Nat /\ DOMAIN w = 1..Len(w) /\ v \in Seq(S)
             /\ Len(v) = Len(w) + 1 /\ DOMAIN v = 1..Len(w) + 1
             /\ v[Len(w) + 1] = s /\ \A i \in DOMAIN w : v[i] = w[i]
OBVIOUS

LEMMA LastGrows ==
  ASSUME NEW S, NEW w \in Seq(S), NEW s \in S, NEW names, NEW final
  PROVE  LastOf(Append(w, s), names, final)
           = IF Said(s, names, final) THEN Len(w) + 1 ELSE LastOf(w, names, final)
<1> DEFINE v == Append(w, s)
<1> DEFINE at == SaidAt(w, names, final)
<1> DEFINE to == SaidAt(v, names, final)
<1>1. /\ Len(w) \in Nat /\ DOMAIN w = 1..Len(w)
      /\ Len(v) = Len(w) + 1 /\ DOMAIN v = 1..Len(w) + 1
      /\ v[Len(w) + 1] = s /\ \A i \in DOMAIN w : v[i] = w[i]
  BY Appended
<1> HIDE DEF v
<1>2. CASE Said(s, names, final)
  <2>1. Len(w) + 1 \in to /\ \A j \in to : j \in Int /\ j <= Len(w) + 1
    BY <1>1, <1>2 DEF SaidAt
  <2>2. \A i \in to : (\A j \in to : j <= i) => i = Len(w) + 1
    BY <1>1, <2>1
  <2> DEFINE x == Latest(to)
  <2> HIDE DEF to
  <2>3. x \in to /\ \A j \in to : j <= x
    BY <2>1 DEF Latest
  <2> HIDE DEF x
  <2>4. x = Len(w) + 1
    BY <2>2, <2>3
  <2>5. to # {}
    BY <2>1
  <2> QED BY <1>2, <2>4, <2>5 DEF LastOf, to, v, x
<1>3. CASE ~Said(s, names, final)
  <2>1. to = at
    BY <1>1, <1>3 DEF SaidAt
  <2> QED BY <1>3, <2>1 DEF LastOf, v
<1> QED BY <1>2, <1>3

LEMMA MarginsGrow ==
  ASSUME NEW S, NEW w \in Seq(S), NEW s \in S, MarginsAt(w) # {} => LastMargins(w) \in MarginsAt(w)
  PROVE  LET v == Append(w, s)
         IN  /\ MarginsAt(v) # {} => LastMargins(v) \in MarginsAt(v)
             /\ MarginsIn(v) = MarginsOf(s, MarginsIn(w))
<1> DEFINE v == Append(w, s)
<1>1. /\ Len(w) \in Nat /\ DOMAIN w = 1..Len(w)
      /\ Len(v) = Len(w) + 1 /\ DOMAIN v = 1..Len(w) + 1
      /\ v[Len(w) + 1] = s /\ \A i \in DOMAIN w : v[i] = w[i]
  BY Appended
<1> HIDE DEF v
<1>2. CASE Modes!Last(s) = "r"
  <2>1. Len(w) + 1 \in MarginsAt(v) /\ \A j \in MarginsAt(v) : j \in Int /\ j <= Len(w) + 1
    BY <1>1, <1>2 DEF MarginsAt
  <2>2. \A i \in MarginsAt(v) : (\A j \in MarginsAt(v) : j <= i) => i = Len(w) + 1
    BY <1>1, <2>1
  <2>3. LastMargins(v) \in MarginsAt(v) /\ \A j \in MarginsAt(v) : j <= LastMargins(v)
    BY <2>1 DEF LastMargins, Latest
  <2>4. LastMargins(v) = Len(w) + 1
    BY <2>2, <2>3
  <2>5. MarginsIn(v) = Modes!Region(SubSeq(s, 3, Len(s) - 1))
    BY <1>1, <2>1, <2>4 DEF MarginsIn
  <2> QED BY <1>2, <2>3, <2>5 DEF MarginsOf, v
<1>3. CASE Modes!Last(s) # "r"
  <2>1. MarginsAt(v) = MarginsAt(w)
    BY <1>1, <1>3 DEF MarginsAt
  <2>2. LastMargins(v) = LastMargins(w)
    BY <2>1 DEF LastMargins
  <2>3. MarginsAt(w) # {} => v[LastMargins(v)] = w[LastMargins(w)]
    BY <1>1, <2>2 DEF MarginsAt
  <2>4. MarginsIn(v) = MarginsIn(w)
    BY <2>1, <2>3 DEF MarginsIn
  <2> QED BY <1>3, <2>1, <2>2, <2>4 DEF MarginsOf, v
<1> QED BY <1>2, <1>3

\* Speaking of a mode is speaking of its name.
LEMMA Tells ==
  ASSUME NEW n, NEW group \in {Modes!Mouse, Modes!MouseExt}
  PROVE  /\ Modes!Flag(n) \in group <=> n \in group
         /\ \A y \in group : Modes!Flag(n) = y <=> n = y
         /\ group \in SUBSET Named /\ "0" \notin group
<1>1. "1049" \notin group /\ "47" \notin group /\ "1047" \notin group /\ "0" \notin group
  BY DEF Modes!Mouse, Modes!MouseExt
<1>2. group \in SUBSET Named
  BY DEF Named
<1>3. Modes!Flag(n) = n \/ (Modes!Flag(n) = "1049" /\ n \in {"47", "1047"})
  BY DEF Modes!Flag
<1> QED BY <1>1, <1>2, <1>3

\* The words of a group grow, and the choice with them.
LEMMA ChoiceGrows ==
  ASSUME NEW group \in {Modes!Mouse, Modes!MouseExt}, NEW S, NEW w \in Seq(S), NEW s \in S,
         NEW N, NEW set \in BOOLEAN, Speech(s, N, set), Counted(w),
         NEW c \in group \cup {"0"}, ChosenIn(w, group, c), NEW d,
         \A n \in N \cap group : d = Modes!Choose(c, n, set), N \cap group = {} => d = c
  PROVE  ChosenIn(Append(w, s), group, d)
<1> DEFINE v == Append(w, s)
<1>1. Len(w) \in Nat
  BY Appended
<1>2. ASSUME NEW y \in group
      PROVE  /\ \A final \in {"h", "l"} : LastOf(w, {y}, final) \in 0..Len(w) /\ LastOf(w, group, final) \in 0..Len(w)
             /\ LastOf(v, {y}, "h") = IF set /\ y \in N THEN Len(w) + 1 ELSE LastOf(w, {y}, "h")
             /\ LastOf(v, {y}, "l") = IF ~set /\ y \in N THEN Len(w) + 1 ELSE LastOf(w, {y}, "l")
  <2>1. {y} \in SUBSET Named /\ group \in SUBSET Named
    BY Tells
  <2>2. (\E n \in N : Modes!Flag(n) \in {y}) <=> y \in N
    BY Tells
  <2>3. Said(s, {y}, "h") <=> (set /\ y \in N)
    BY <2>1, <2>2 DEF Speech
  <2>4. Said(s, {y}, "l") <=> (~set /\ y \in N)
    BY <2>1, <2>2 DEF Speech
  <2> QED BY <2>1, <2>3, <2>4, LastGrows DEF Counted
<1>3. LastOf(v, group, "h") = IF set /\ N \cap group # {} THEN Len(w) + 1 ELSE LastOf(w, group, "h")
  <2>1. group \in SUBSET Named
    BY Tells
  <2>2. (\E n \in N : Modes!Flag(n) \in group) <=> N \cap group # {}
    BY Tells
  <2>3. Said(s, group, "h") <=> (set /\ N \cap group # {})
    BY <2>1, <2>2 DEF Speech
  <2> QED BY <2>3, LastGrows
<1>4. "0" \notin group
  BY Tells
<1>5. \A a, b \in N \cap group : a = b
  <2>1. \A a \in group : Modes!Group(a) = group
    BY NamesApart DEF Modes!Group
  <2> QED BY <2>1 DEF Speech
<1> HIDE DEF v
<1>6. CASE N \cap group = {}
  <2>1. \A y \in group : y \notin N
    BY <1>6
  <2>2. \A y \in group : SetIn(v, y) <=> SetIn(w, y)
    BY <1>2, <2>1 DEF SetIn
  <2>3. /\ LastOf(v, group, "h") = LastOf(w, group, "h")
        /\ \A y \in group : LastOf(v, {y}, "h") = LastOf(w, {y}, "h")
    BY <1>2, <1>3, <1>6, <2>1
  <2> QED BY <1>6, <2>2, <2>3 DEF ChosenIn, v
<1>7. ASSUME NEW n \in N \cap group PROVE ChosenIn(v, group, d)
  <2>0. n \in group /\ n \in N /\ N \cap group # {}
    OBVIOUS
  <2>1. \A y \in group : y \in N <=> y = n
    BY <1>5
  <2>2. d = Modes!Choose(c, n, set)
    OBVIOUS
  <2>3. CASE set
    <3>1. d = n
      BY <2>2, <2>3 DEF Modes!Choose
    <3>2. SetIn(v, n) /\ LastOf(v, group, "h") = LastOf(v, {n}, "h")
      <4>1. LastOf(v, {n}, "h") = Len(w) + 1 /\ LastOf(v, group, "h") = Len(w) + 1
        BY <1>2, <1>3, <2>0, <2>3
      <4>2. LastOf(v, {n}, "l") \in 0..Len(w)
        BY <1>2, <2>0, <2>3
      <4> QED BY <1>1, <4>1, <4>2 DEF SetIn
    <3>3. \A y \in group : y # n => LastOf(v, group, "h") # LastOf(v, {y}, "h")
      <4>1. LastOf(v, group, "h") = Len(w) + 1
        BY <1>3, <2>3
      <4>2. \A y \in group : y # n => LastOf(v, {y}, "h") \in 0..Len(w)
        BY <1>2, <2>1
      <4> QED BY <1>1, <4>1, <4>2
    <3> QED BY <3>1, <3>2, <3>3 DEF ChosenIn
  <2>4. CASE ~set
    <3>1. d = IF c = n THEN "0" ELSE c
      BY <2>2, <2>4 DEF Modes!Choose
    <3>2. /\ LastOf(v, group, "h") = LastOf(w, group, "h")
          /\ \A y \in group : LastOf(v, {y}, "h") = LastOf(w, {y}, "h")
      BY <1>2, <1>3, <2>4
    <3>3. ~SetIn(v, n)
      <4>1. LastOf(v, {n}, "l") = Len(w) + 1 /\ LastOf(v, {n}, "h") \in 0..Len(w)
        BY <1>2, <2>0, <2>4
      <4> QED BY <1>1, <4>1 DEF SetIn
    <3>4. \A y \in group : y # n => (SetIn(v, y) <=> SetIn(w, y))
      BY <1>2, <2>1, <2>4 DEF SetIn
    <3> QED BY <1>4, <3>1, <3>2, <3>3, <3>4 DEF ChosenIn
  <2> QED BY <2>3, <2>4
<1> QED BY <1>6, <1>7 DEF v

LEMMA WordsGrow ==
  ASSUME NEW S, NEW w \in Seq(S), NEW s \in S, NEW N, NEW set \in BOOLEAN, Speech(s, N, set),
         Counted(w), NEW m \in Known, NEW k, Agrees(w, m), Heard(m, k, s, N, set)
  PROVE  Agrees(Append(w, s), k) /\ Counted(Append(w, s))
<1> DEFINE v == Append(w, s)
<1>1. Len(w) \in Nat /\ Len(v) = Len(w) + 1
  BY Appended
<1>2. MarginsIn(v) = MarginsOf(s, MarginsIn(w)) /\ (MarginsAt(v) # {} => LastMargins(v) \in MarginsAt(v))
  BY MarginsGrow DEF Counted
<1>3. \A names \in SUBSET Named, final \in {"h", "l"} :
        LastOf(v, names, final) = IF (final = "h") = set /\ \E n \in N : Modes!Flag(n) \in names
                                  THEN Len(w) + 1 ELSE LastOf(w, names, final)
  BY LastGrows DEF Speech
<1>4. ChosenIn(v, Modes!Mouse, k.mouse)
  <2>1. m.mouse \in Modes!Mouse \cup {"0"}
    BY DEF Known
  <2> QED BY <2>1, ChoiceGrows DEF Agrees, Heard
<1>5. ChosenIn(v, Modes!MouseExt, k.ext)
  <2>1. m.ext \in Modes!MouseExt \cup {"0"}
    BY DEF Known
  <2> QED BY <2>1, ChoiceGrows DEF Agrees, Heard
<1> HIDE DEF v
<1>6. Counted(v)
  BY <1>1, <1>2, <1>3 DEF Counted
<1>7. ASSUME NEW f \in Modes!Flags
      PROVE  f \in k.on <=> SetIn(v, f) \/ (f \in Modes!Defaults.on /\ LastOf(v, {f}, "l") = 0)
  <2> DEFINE T == \E n \in N : Modes!Flag(n) = f
  <2>1. {f} \in SUBSET Named /\ ((\E n \in N : Modes!Flag(n) \in {f}) <=> T)
    BY DEF Named
  <2>2. LastOf(w, {f}, "h") \in 0..Len(w) /\ LastOf(w, {f}, "l") \in 0..Len(w)
    BY <2>1 DEF Counted
  <2>3. /\ LastOf(v, {f}, "h") = IF set /\ T THEN Len(w) + 1 ELSE LastOf(w, {f}, "h")
        /\ LastOf(v, {f}, "l") = IF ~set /\ T THEN Len(w) + 1 ELSE LastOf(w, {f}, "l")
    BY <1>3, <2>1
  <2>4. f \in k.on <=> IF T THEN set ELSE f \in m.on
    BY DEF Heard
  <2>5. f \in m.on <=> SetIn(w, f) \/ (f \in Modes!Defaults.on /\ LastOf(w, {f}, "l") = 0)
    BY DEF Agrees
  <2> HIDE DEF T
  <2> QED BY <1>1, <2>2, <2>3, <2>4, <2>5 DEF SetIn
<1>8. k.region = MarginsIn(v)
  BY <1>2 DEF Agrees, Heard
<1> QED BY <1>4, <1>5, <1>6, <1>7, <1>8 DEF Agrees, v

LEMMA LastWordIs ==
  ASSUME NEW names, NEW final
  PROVE  Modes!LastWord(names, final) = LastOf(written, names, final)
<1> DEFINE at == {i \in DOMAIN written : Modes!Speaks(i, names, final)}
<1>1. at = SaidAt(written, names, final)
  BY DEF SaidAt, Said, Modes!Speaks
<1>2. Modes!LastWord(names, final) = IF at = {} THEN 0 ELSE Latest(at)
  BY DEF Latest, Modes!LastWord
<1> HIDE DEF at
<1> QED BY <1>1, <1>2 DEF LastOf

LEMMA ChosenIs ==
  ASSUME NEW group \in {Modes!Mouse, Modes!MouseExt}, NEW c \in group \cup {"0"}, ChosenIn(written, group, c)
  PROVE  Modes!Chosen(group) = c
<1> DEFINE on == {n \in group : Modes!SetLast(n) /\ Modes!LastWord(group, "h") = Modes!LastWord({n}, "h")}
<1>1. on = {n \in group : SetIn(written, n) /\ LastOf(written, group, "h") = LastOf(written, {n}, "h")}
  BY LastWordIs DEF SetIn, Modes!SetLast
<1>2. Modes!Chosen(group) = IF on = {} THEN "0" ELSE CHOOSE n \in on : TRUE
  BY DEF Modes!Chosen
<1>3. CASE c \in group
  <2>1. on = {c}
    BY <1>1, <1>3 DEF ChosenIn
  <2> HIDE DEF on
  <2> QED BY <1>2, <2>1
<1>4. CASE c \notin group
  <2>1. on = {} /\ c = "0"
    BY <1>1, <1>4 DEF ChosenIn
  <2> HIDE DEF on
  <2> QED BY <1>2, <2>1
<1> QED BY <1>3, <1>4

LEMMA MarginsAre == Modes!Margins = MarginsIn(written)
BY DEF Modes!Margins, MarginsIn, MarginsAt, LastMargins, Latest

\* Modes that agree with what was written are those the program asked for.
LEMMA AskedIs ==
  ASSUME NEW m \in Known, Agrees(written, m)
  PROVE  Modes!Asked = m
<1>1. /\ m.mouse \in Modes!Mouse \cup {"0"} /\ m.ext \in Modes!MouseExt \cup {"0"}
      /\ m.on \subseteq Modes!Flags
      /\ m = [on |-> m.on, mouse |-> m.mouse, ext |-> m.ext, region |-> m.region]
  BY DEF Known
<1>2. Modes!Chosen(Modes!Mouse) = m.mouse /\ Modes!Chosen(Modes!MouseExt) = m.ext
  BY <1>1, ChosenIs DEF Agrees
<1>3. Modes!Margins = m.region
  BY MarginsAre DEF Agrees
<1>4. {f \in Modes!Flags : Modes!SetLast(f) \/ (f \in Modes!Defaults.on /\ Modes!LastWord({f}, "l") = 0)} = m.on
  BY <1>1, LastWordIs DEF Agrees, SetIn, Modes!SetLast
<1> QED BY <1>1, <1>2, <1>3, <1>4 DEF Modes!Asked

LEMMA NothingWritten == Agrees(<<>>, Modes!Defaults) /\ Counted(<<>>) /\ Modes!Defaults \in Known
<1>1. \A names, final : LastOf(<<>>, names, final) = 0
  BY DEF LastOf, SaidAt
<1>2. MarginsAt(<<>>) = {}
  BY DEF MarginsAt
<1>3. Modes!Defaults \in Known
  BY DEF Known, Modes!Defaults, Modes!Flags
<1>4. Counted(<<>>)
  BY <1>1, <1>2 DEF Counted
<1>5. \A n : ~SetIn(<<>>, n)
  BY <1>1 DEF SetIn
<1>6. ChosenIn(<<>>, Modes!Mouse, "0") /\ ChosenIn(<<>>, Modes!MouseExt, "0")
  BY <1>5, Tells DEF ChosenIn
<1>7. Modes!Full = MarginsIn(<<>>)
  BY <1>2 DEF MarginsIn
<1>8. /\ Modes!Defaults.mouse = "0" /\ Modes!Defaults.ext = "0" /\ Modes!Defaults.region = Modes!Full
  BY DEF Modes!Defaults
<1> QED BY <1>1, <1>3, <1>4, <1>5, <1>6, <1>7, <1>8 DEF Agrees

-----------------------------------------------------------------------------
\* What a terminal makes of the modes a snapshot gives it.
LEMMA ReadsNext ==
  ASSUME NEW p \in Parsers, NEW x \in Seq(Bytes), NEW k \in Known, NEW y \in Seq(Bytes), NEW j,
         Modes!ScannedAll(p, x) = Base(k), Modes!ScannedAll(Base(k), y) = Base(j)
  PROVE  x \o y \in Seq(Bytes) /\ Modes!ScannedAll(p, x \o y) = Base(j)
BY ScannedParts

\* k is l, with the flag n as it is in m.
Took(l, k, m, n) ==
  /\ k \in Known /\ \A f \in Modes!Flags : f \in k.on <=> IF f = n THEN f \in m.on ELSE f \in l.on
  /\ k.mouse = l.mouse /\ k.ext = l.ext /\ k.region = l.region

LEMMA FlagIs ==
  ASSUME NEW n \in Modes!Flags
  PROVE  Modes!Flag(n) = n /\ n \in Modes!Names /\ n \notin Modes!Mouse /\ n \notin Modes!MouseExt
BY DEF Modes!Flag, Modes!Flags, Modes!Names, Modes!Mouse, Modes!MouseExt

LEMMA FlagSets ==
  ASSUME NEW l \in Known, NEW n \in Modes!Flags, NEW set \in BOOLEAN
  PROVE  LET k == Modes!SetMode(l, n, set)
         IN  /\ k \in Known /\ \A f \in Modes!Flags : f \in k.on <=> IF f = n THEN set ELSE f \in l.on
             /\ k.mouse = l.mouse /\ k.ext = l.ext /\ k.region = l.region
<1> DEFINE k == Modes!SetMode(l, n, set)
<1>1. k \in Known
  BY SetModeIsTyped
<1>2. Modes!Flag(n) = n /\ n \notin Modes!Mouse /\ n \notin Modes!MouseExt
  BY FlagIs
<1>3. /\ \A f \in Modes!Flags : f \in k.on <=> IF Modes!Flag(n) = f THEN set ELSE f \in l.on
      /\ k.mouse = IF n \in Modes!Mouse THEN Modes!Choose(l.mouse, n, set) ELSE l.mouse
      /\ k.ext = IF n \in Modes!MouseExt THEN Modes!Choose(l.ext, n, set) ELSE l.ext
      /\ k.region = l.region
  BY SetModeSets
<1> HIDE DEF k
<1>4. \A f \in Modes!Flags : f \in k.on <=> IF f = n THEN set ELSE f \in l.on
  BY <1>2, <1>3
<1>5. k.mouse = l.mouse /\ k.ext = l.ext /\ k.region = l.region
  BY <1>2, <1>3
<1> QED BY <1>1, <1>4, <1>5 DEF k

LEMMA TookIs ==
  ASSUME NEW l \in Known, NEW m \in Known, NEW n \in Modes!Flags, NEW set \in BOOLEAN, set <=> n \in m.on
  PROVE  Took(l, Modes!SetMode(l, n, set), m, n)
<1> DEFINE k == Modes!SetMode(l, n, set)
<1>1. /\ k \in Known /\ \A f \in Modes!Flags : f \in k.on <=> IF f = n THEN set ELSE f \in l.on
      /\ k.mouse = l.mouse /\ k.ext = l.ext /\ k.region = l.region
  BY FlagSets
<1> HIDE DEF k
<1>2. Took(l, k, m, n)
  BY <1>1 DEF Took
<1> QED BY <1>2 DEF k

LEMMA SwitchedIsRead ==
  ASSUME NEW l \in Known, NEW m \in Known, NEW n \in Modes!Flags
  PROVE  /\ Modes!Switched(m, n) \in Seq(Bytes)
         /\ \E k : Took(l, k, m, n) /\ Modes!ScannedAll(Base(l), Modes!Switched(m, n)) = Base(k)
<1> DEFINE final == IF n \in m.on THEN "h" ELSE "l"
<1> DEFINE k == Modes!SetMode(l, n, final = "h")
<1>1. final \in {"h", "l"} /\ (final = "h") = (n \in m.on) /\ (final = "h") \in BOOLEAN
  OBVIOUS
<1>2. Modes!Switched(m, n) = Modes!Private(n, final)
  BY DEF Modes!Switched
<1> HIDE DEF final
<1>3. Modes!Switched(m, n) \in Seq(Bytes) /\ Modes!ScannedAll(Base(l), Modes!Switched(m, n)) = Base(k)
  BY <1>1, <1>2, FlagIs, ReadsPrivate
<1>4. Took(l, k, m, n)
  BY <1>1, TookIs
<1> QED BY <1>3, <1>4

LEMMA IfOnIsRead ==
  ASSUME NEW l \in Known, NEW m \in Known, NEW n \in Modes!Flags, n \notin l.on
  PROVE  /\ Modes!IfOn(m, n) \in Seq(Bytes)
         /\ \E k : Took(l, k, m, n) /\ Modes!ScannedAll(Base(l), Modes!IfOn(m, n)) = Base(k)
<1>1. CASE n \in m.on
  <2> DEFINE set == "h" = "h"
  <2> DEFINE k == Modes!SetMode(l, n, set)
  <2>1. Modes!IfOn(m, n) = Modes!Private(n, "h")
    BY <1>1 DEF Modes!IfOn
  <2>2. Modes!IfOn(m, n) \in Seq(Bytes) /\ Modes!ScannedAll(Base(l), Modes!IfOn(m, n)) = Base(k)
    BY <2>1, FlagIs, ReadsPrivate
  <2>3. set = TRUE
    OBVIOUS
  <2> HIDE DEF set
  <2>4. Took(l, k, m, n)
    BY <1>1, <2>3, TookIs
  <2> QED BY <2>2, <2>4
<1>2. CASE n \notin m.on
  <2>1. Modes!IfOn(m, n) = <<>> /\ <<>> \in Seq(Bytes)
    BY <1>2 DEF Modes!IfOn
  <2>2. Modes!ScannedAll(Base(l), Modes!IfOn(m, n)) = Base(l)
    BY <2>1, BaseIsTyped, ScannedNothing
  <2>3. Took(l, l, m, n)
    BY <1>2 DEF Took
  <2> QED BY <2>1, <2>2, <2>3
<1> QED BY <1>1, <1>2

LEMMA IfNot0IsRead ==
  ASSUME NEW l \in Known, NEW n \in Modes!Mouse \cup Modes!MouseExt \cup {"0"}
  PROVE  /\ Modes!IfNot0(n) \in Seq(Bytes)
         /\ LET k == IF n = "0" THEN l ELSE Modes!SetMode(l, n, TRUE)
            IN  k \in Known /\ Modes!ScannedAll(Base(l), Modes!IfNot0(n)) = Base(k)
<1>1. CASE n = "0"
  <2>1. Modes!IfNot0(n) = <<>> /\ <<>> \in Seq(Bytes)
    BY <1>1 DEF Modes!IfNot0
  <2>2. Modes!ScannedAll(Base(l), Modes!IfNot0(n)) = Base(l)
    BY <2>1, BaseIsTyped, ScannedNothing
  <2> QED BY <1>1, <2>1, <2>2
<1>2. CASE n # "0"
  <2>1. n \in Modes!Names
    BY <1>2 DEF Modes!Names
  <2> DEFINE set == "h" = "h"
  <2>2. Modes!IfNot0(n) = Modes!Private(n, "h")
    BY <1>2 DEF Modes!IfNot0
  <2>3. /\ Modes!IfNot0(n) \in Seq(Bytes)
        /\ Modes!ScannedAll(Base(l), Modes!IfNot0(n)) = Base(Modes!SetMode(l, n, set))
    BY <2>1, <2>2, ReadsPrivate
  <2>4. set = TRUE
    OBVIOUS
  <2> HIDE DEF set
  <2> QED BY <1>2, <2>3, <2>4, SetModeIsTyped
<1> QED BY <1>1, <1>2

\* l with one of the modes of a group that was off, or with none.
Turned(l, n) == IF n = "0" THEN l ELSE Modes!SetMode(l, n, TRUE)

LEMMA MouseIsOn ==
  ASSUME NEW l \in Known, l.mouse = "0", NEW n \in Modes!Mouse \cup {"0"}
  PROVE  /\ Turned(l, n).mouse = n /\ Turned(l, n).ext = l.ext /\ Turned(l, n).region = l.region
         /\ \A f \in Modes!Flags : f \in Turned(l, n).on <=> f \in l.on
<1>1. CASE n = "0"
  BY <1>1 DEF Turned
<1>2. CASE n # "0"
  <2>1. n \in Modes!Mouse /\ Turned(l, n) = Modes!SetMode(l, n, TRUE)
    BY <1>2 DEF Turned
  <2>2. n \notin Modes!MouseExt /\ Modes!Flag(n) \notin Modes!Flags
    BY <2>1, NamesApart
  <2>3. Modes!Choose(l.mouse, n, TRUE) = n
    BY DEF Modes!Choose
  <2> DEFINE k == Modes!SetMode(l, n, TRUE)
  <2>4. /\ \A f \in Modes!Flags : f \in k.on <=> IF Modes!Flag(n) = f THEN TRUE ELSE f \in l.on
        /\ k.mouse = IF n \in Modes!Mouse THEN Modes!Choose(l.mouse, n, TRUE) ELSE l.mouse
        /\ k.ext = IF n \in Modes!MouseExt THEN Modes!Choose(l.ext, n, TRUE) ELSE l.ext
        /\ k.region = l.region
    BY SetModeSets
  <2> HIDE DEF k
  <2>5. k.mouse = n /\ k.ext = l.ext /\ \A f \in Modes!Flags : f \in k.on <=> f \in l.on
    BY <2>1, <2>2, <2>3, <2>4
  <2> QED BY <2>1, <2>4, <2>5 DEF k
<1> QED BY <1>1, <1>2

LEMMA ExtIsOn ==
  ASSUME NEW l \in Known, l.ext = "0", NEW n \in Modes!MouseExt \cup {"0"}
  PROVE  /\ Turned(l, n).mouse = l.mouse /\ Turned(l, n).ext = n /\ Turned(l, n).region = l.region
         /\ \A f \in Modes!Flags : f \in Turned(l, n).on <=> f \in l.on
<1>1. CASE n = "0"
  BY <1>1 DEF Turned
<1>2. CASE n # "0"
  <2>1. n \in Modes!MouseExt /\ Turned(l, n) = Modes!SetMode(l, n, TRUE)
    BY <1>2 DEF Turned
  <2>2. n \notin Modes!Mouse /\ Modes!Flag(n) \notin Modes!Flags
    BY <2>1, NamesApart
  <2>3. Modes!Choose(l.ext, n, TRUE) = n
    BY DEF Modes!Choose
  <2> DEFINE k == Modes!SetMode(l, n, TRUE)
  <2>4. /\ \A f \in Modes!Flags : f \in k.on <=> IF Modes!Flag(n) = f THEN TRUE ELSE f \in l.on
        /\ k.mouse = IF n \in Modes!Mouse THEN Modes!Choose(l.mouse, n, TRUE) ELSE l.mouse
        /\ k.ext = IF n \in Modes!MouseExt THEN Modes!Choose(l.ext, n, TRUE) ELSE l.ext
        /\ k.region = l.region
    BY SetModeSets
  <2> HIDE DEF k
  <2>5. k.ext = n /\ k.mouse = l.mouse /\ \A f \in Modes!Flags : f \in k.on <=> f \in l.on
    BY <2>1, <2>2, <2>3, <2>4
  <2> QED BY <2>1, <2>4, <2>5 DEF k
<1> QED BY <1>1, <1>2

\* Modes with the same parts are the same.
LEMMA SameModes ==
  ASSUME NEW k \in Known, NEW m \in Known, k.mouse = m.mouse, k.ext = m.ext, k.region = m.region,
         \A f \in Modes!Flags : f \in k.on <=> f \in m.on
  PROVE  k = m
<1>1. k.on \subseteq Modes!Flags /\ m.on \subseteq Modes!Flags
  BY DEF Known
<1>2. k.on = m.on
  BY <1>1
<1>3. /\ k = [on |-> k.on, mouse |-> k.mouse, ext |-> k.ext, region |-> k.region]
      /\ m = [on |-> m.on, mouse |-> m.mouse, ext |-> m.ext, region |-> m.region]
  BY DEF Known
<1> QED BY <1>2, <1>3

LEMMA RowsAreNat == Rows \subseteq Nat \ {0} /\ Heights \subseteq Rows /\ Heights # {}
<1>1. \A n \in DOMAIN Numbers : Numbers[n] \in Nat \ {0}
  BY TerminalAssumption DEF Modes!ModesAssumption
<1>2. Heights # {} /\ Heights \subseteq Rows
  BY TerminalAssumption DEF Modes!ModesAssumption, Rows
<1> QED BY <1>1, <1>2 DEF Rows

LEMMA ClampIsTyped ==
  ASSUME NEW r \in {Modes!Full} \cup (Rows \X Rows), NEW n \in Rows
  PROVE  /\ Modes!Clamp(r, n) \in {Modes!Full} \cup (Rows \X Rows)
         /\ Modes!Clamp(Modes!Clamp(r, n), n) = Modes!Clamp(r, n)
<1>1. CASE r = Modes!Full
  BY <1>1 DEF Modes!Clamp
<1>2. CASE r # Modes!Full
  <2>1. PICK a \in Rows, b \in Rows : r = <<a, b>>
    BY <1>2
  <2> DEFINE top == Modes!Most(1, Modes!Least(n, a))
  <2> DEFINE low == Modes!Most(top, Modes!Least(n, b))
  <2>2. \A u, v : <<u, v>> # Modes!Full /\ <<u, v>>[1] = u /\ <<u, v>>[2] = v
    BY DEF Modes!Full
  <2>3. Modes!Clamp(r, n) = <<top, low>>
    BY <2>1, <2>2 DEF Modes!Clamp
  <2>4. a \in Nat \ {0} /\ b \in Nat \ {0} /\ n \in Nat \ {0}
    BY RowsAreNat
  <2>5. top \in {n, a} /\ low \in {n, a, b}
    BY <2>4 DEF Modes!Most, Modes!Least
  <2>6. /\ Modes!Most(1, Modes!Least(n, top)) = top
        /\ Modes!Most(top, Modes!Least(n, low)) = low
    BY <2>4 DEF Modes!Most, Modes!Least
  <2> HIDE DEF top, low
  <2>7. Modes!Clamp(<<top, low>>, n) = <<top, low>>
    BY <2>2, <2>6 DEF Modes!Clamp
  <2> QED BY <2>3, <2>5, <2>7
<1> QED BY <1>1, <1>2

LEMMA BoundsAreRead ==
  ASSUME NEW l \in Known, NEW r \in {Modes!Full} \cup (Rows \X Rows)
  PROVE  /\ Modes!Bounds(r) \in Seq(Bytes)
         /\ Modes!ScannedAll(Base(l), Modes!Bounds(r)) = Base(WithRegion(l, r))
<1>1. CASE r = Modes!Full
  BY <1>1, ReadsUnset DEF Modes!Bounds
<1>2. CASE r # Modes!Full
  <2>1. \A i \in Rows : Modes!Token(i) \in DOMAIN Numbers /\ Numbers[Modes!Token(i)] = i
    BY DEF Rows, Modes!Token
  <2>2. PICK a \in Rows, b \in Rows : r = <<a, b>> /\ r[1] = a /\ r[2] = b
    BY <1>2
  <2> DEFINE x == Modes!Token(a)
  <2> DEFINE y == Modes!Token(b)
  <2>3. x \in DOMAIN Numbers /\ y \in DOMAIN Numbers /\ Numbers[x] = a /\ Numbers[y] = b
    BY <2>1
  <2>4. Modes!Bounds(r) = <<"esc", "[", x, ";", y, "r">>
    BY <1>2, <2>2 DEF Modes!Bounds
  <2> HIDE DEF x, y
  <2>5. /\ <<"esc", "[", x, ";", y, "r">> \in Seq(Bytes)
        /\ Modes!ScannedAll(Base(l), <<"esc", "[", x, ";", y, "r">>)
             = Base(WithRegion(l, <<Numbers[x], Numbers[y]>>))
    BY <2>3, ReadsMargins
  <2> QED BY <2>2, <2>3, <2>4, <2>5
<1> QED BY <1>1, <1>2

LEMMA EmitIsRead ==
  ASSUME NEW m \in Known, NEW n \in Rows
  PROVE  LET k == WithRegion(m, Modes!Clamp(m.region, n))
         IN  /\ k \in Known /\ Modes!Emit(m, n) \in Seq(Bytes)
             /\ Modes!ScannedAll(Modes!Fresh, Modes!Emit(m, n)) = Base(k)
<1> DEFINE r == Modes!Clamp(m.region, n)
<1> DEFINE p == Base(Modes!Defaults)
<1>0. Modes!Fresh = p /\ p \in Parsers /\ Modes!Defaults \in Known
  BY NothingWritten, BaseIsTyped DEF Modes!Fresh, Base
<1>1. r \in {Modes!Full} \cup (Rows \X Rows)
  <2>1. m.region \in {Modes!Full} \cup (Rows \X Rows)
    BY DEF Known
  <2> QED BY <2>1, ClampIsTyped
<1> DEFINE F1 == Modes!Switched(m, "1049")
<1> DEFINE F2 == Modes!Switched(m, "7")
<1> DEFINE F3 == Modes!Switched(m, "25")
<1> DEFINE F4 == Modes!IfOn(m, "2004")
<1> DEFINE F5 == Modes!IfOn(m, "1004")
<1> DEFINE F6 == Modes!IfOn(m, "2031")
<1> DEFINE F7 == Modes!IfNot0(m.mouse)
<1> DEFINE F8 == Modes!IfNot0(m.ext)
<1> DEFINE B == Modes!Bounds(r)
<1>2. Modes!Emit(m, n) = F1 \o B \o F2 \o F3 \o F4 \o F5 \o F6 \o F7 \o F8
  BY DEF Modes!Emit
<1>3. {"7", "25", "1004", "1049", "2004", "2031"} = Modes!Flags
  BY DEF Modes!Flags
<1> HIDE DEF r, p
<1>4. F1 \in Seq(Bytes) /\ \E k : Took(Modes!Defaults, k, m, "1049") /\ Modes!ScannedAll(p, F1) = Base(k)
  BY <1>0, <1>3, SwitchedIsRead DEF p
<1>5. PICK k1 : Took(Modes!Defaults, k1, m, "1049") /\ Modes!ScannedAll(p, F1) = Base(k1)
  BY <1>4
<1> DEFINE k2 == WithRegion(k1, r)
<1>6. /\ k2 \in Known /\ B \in Seq(Bytes) /\ Modes!ScannedAll(Base(k1), B) = Base(k2)
      /\ k2.on = k1.on /\ k2.mouse = k1.mouse /\ k2.ext = k1.ext /\ k2.region = r
  BY <1>1, <1>5, BoundsAreRead, WithRegionIs DEF Took
<1> HIDE DEF k2
<1>7. F2 \in Seq(Bytes) /\ \E k : Took(k2, k, m, "7") /\ Modes!ScannedAll(Base(k2), F2) = Base(k)
  BY <1>3, <1>6, SwitchedIsRead
<1>8. PICK k3 : Took(k2, k3, m, "7") /\ Modes!ScannedAll(Base(k2), F2) = Base(k3)
  BY <1>7
<1>9. F3 \in Seq(Bytes) /\ \E k : Took(k3, k, m, "25") /\ Modes!ScannedAll(Base(k3), F3) = Base(k)
  BY <1>3, <1>8, SwitchedIsRead DEF Took
<1>10. PICK k4 : Took(k3, k4, m, "25") /\ Modes!ScannedAll(Base(k3), F3) = Base(k4)
  BY <1>9
<1>11. "2004" \notin k4.on /\ "1004" \notin k4.on /\ "2031" \notin k4.on
  BY <1>3, <1>5, <1>6, <1>8, <1>10 DEF Took, Modes!Defaults
<1>12. F4 \in Seq(Bytes) /\ \E k : Took(k4, k, m, "2004") /\ Modes!ScannedAll(Base(k4), F4) = Base(k)
  BY <1>3, <1>10, <1>11, IfOnIsRead DEF Took
<1>13. PICK k5 : Took(k4, k5, m, "2004") /\ Modes!ScannedAll(Base(k4), F4) = Base(k5)
  BY <1>12
<1>14. "1004" \notin k5.on /\ "2031" \notin k5.on
  BY <1>3, <1>11, <1>13 DEF Took
<1>15. F5 \in Seq(Bytes) /\ \E k : Took(k5, k, m, "1004") /\ Modes!ScannedAll(Base(k5), F5) = Base(k)
  BY <1>3, <1>13, <1>14, IfOnIsRead DEF Took
<1>16. PICK k6 : Took(k5, k6, m, "1004") /\ Modes!ScannedAll(Base(k5), F5) = Base(k6)
  BY <1>15
<1>17. "2031" \notin k6.on
  BY <1>3, <1>14, <1>16 DEF Took
<1>18. F6 \in Seq(Bytes) /\ \E k : Took(k6, k, m, "2031") /\ Modes!ScannedAll(Base(k6), F6) = Base(k)
  BY <1>3, <1>16, <1>17, IfOnIsRead DEF Took
<1>19. PICK k7 : Took(k6, k7, m, "2031") /\ Modes!ScannedAll(Base(k6), F6) = Base(k7)
  BY <1>18
<1> DEFINE k8 == Turned(k7, m.mouse)
<1> DEFINE k9 == Turned(k8, m.ext)
<1>20. m.mouse \in Modes!Mouse \cup {"0"} /\ m.ext \in Modes!MouseExt \cup {"0"} /\ k7 \in Known
  BY <1>19 DEF Known, Took
<1>21. F7 \in Seq(Bytes) /\ k8 \in Known /\ Modes!ScannedAll(Base(k7), F7) = Base(k8)
  BY <1>20, IfNot0IsRead DEF Turned
<1>22. k7.mouse = "0" /\ k7.ext = "0" /\ k7.region = r
  BY <1>5, <1>6, <1>8, <1>10, <1>13, <1>16, <1>19 DEF Took, Modes!Defaults
<1>23. /\ k8.mouse = m.mouse /\ k8.ext = k7.ext /\ k8.region = k7.region
       /\ \A f \in Modes!Flags : f \in k8.on <=> f \in k7.on
  BY <1>20, <1>22, MouseIsOn
<1> HIDE DEF k8
<1>24. F8 \in Seq(Bytes) /\ k9 \in Known /\ Modes!ScannedAll(Base(k8), F8) = Base(k9)
  BY <1>20, <1>21, IfNot0IsRead DEF Turned
<1>25. /\ k9.mouse = k8.mouse /\ k9.ext = m.ext /\ k9.region = k8.region
       /\ \A f \in Modes!Flags : f \in k9.on <=> f \in k8.on
  BY <1>20, <1>21, <1>22, <1>23, ExtIsOn
<1> HIDE DEF k9
<1>26. \A f \in Modes!Flags : f \in k7.on <=> f \in m.on
  <2> TAKE f \in Modes!Flags
  <2>1. f \in {"7", "25", "1004", "1049", "2004", "2031"}
    BY <1>3
  <2> QED BY <2>1, <1>5, <1>6, <1>8, <1>10, <1>13, <1>16, <1>19 DEF Took
<1>27. k9 = WithRegion(m, r)
  <2>1. /\ WithRegion(m, r) \in Known /\ WithRegion(m, r).on = m.on
        /\ WithRegion(m, r).mouse = m.mouse /\ WithRegion(m, r).ext = m.ext
        /\ WithRegion(m, r).region = r
    BY <1>1, WithRegionIs
  <2>2. \A f \in Modes!Flags : f \in k9.on <=> f \in m.on
    BY <1>23, <1>25, <1>26
  <2> QED BY <1>22, <1>23, <1>24, <1>25, <2>1, <2>2, SameModes
<1>28. {k1, k2, k3, k4, k5, k6, k7, k8, k9} \subseteq Known
  BY <1>5, <1>6, <1>8, <1>10, <1>13, <1>16, <1>19, <1>21, <1>24 DEF Took
<1> HIDE DEF F1, F2, F3, F4, F5, F6, F7, F8, B
<1> DEFINE X2 == F1 \o B
<1> DEFINE X3 == X2 \o F2
<1> DEFINE X4 == X3 \o F3
<1> DEFINE X5 == X4 \o F4
<1> DEFINE X6 == X5 \o F5
<1> DEFINE X7 == X6 \o F6
<1> DEFINE X8 == X7 \o F7
<1> DEFINE X9 == X8 \o F8
<1>29. Modes!Emit(m, n) = X9
  BY <1>2
<1>32. X2 \in Seq(Bytes) /\ Modes!ScannedAll(p, X2) = Base(k2)
  BY <1>0, <1>4, <1>5, <1>6, <1>28, ReadsNext
<1> HIDE DEF X2
<1>33. X3 \in Seq(Bytes) /\ Modes!ScannedAll(p, X3) = Base(k3)
  BY <1>0, <1>32, <1>7, <1>8, <1>28, ReadsNext
<1> HIDE DEF X3
<1>34. X4 \in Seq(Bytes) /\ Modes!ScannedAll(p, X4) = Base(k4)
  BY <1>0, <1>33, <1>9, <1>10, <1>28, ReadsNext
<1> HIDE DEF X4
<1>35. X5 \in Seq(Bytes) /\ Modes!ScannedAll(p, X5) = Base(k5)
  BY <1>0, <1>34, <1>12, <1>13, <1>28, ReadsNext
<1> HIDE DEF X5
<1>36. X6 \in Seq(Bytes) /\ Modes!ScannedAll(p, X6) = Base(k6)
  BY <1>0, <1>35, <1>15, <1>16, <1>28, ReadsNext
<1> HIDE DEF X6
<1>37. X7 \in Seq(Bytes) /\ Modes!ScannedAll(p, X7) = Base(k7)
  BY <1>0, <1>36, <1>18, <1>19, <1>28, ReadsNext
<1> HIDE DEF X7
<1>38. X8 \in Seq(Bytes) /\ Modes!ScannedAll(p, X8) = Base(k8)
  BY <1>0, <1>37, <1>21, <1>28, ReadsNext
<1> HIDE DEF X8
<1>39. X9 \in Seq(Bytes) /\ Modes!ScannedAll(p, X9) = Base(k9)
  BY <1>0, <1>38, <1>24, <1>28, ReadsNext
<1> HIDE DEF X9
<1> QED BY <1>0, <1>24, <1>27, <1>29, <1>39 DEF r

-----------------------------------------------------------------------------
\* Two parsers that stand at the same place stay together, and whatever holds of
\* their modes and is kept by a change made to both.
Kept(A) ==
  /\ \A t, s \in Known, n \in Bytes, set \in BOOLEAN :
       <<t, s>> \in A => <<Modes!SetMode(t, n, set), Modes!SetMode(s, n, set)>> \in A
  /\ \A t, s \in Known, r \in {Modes!Full} \cup (Rows \X Rows) :
       <<t, s>> \in A => <<WithRegion(t, r), WithRegion(s, r)>> \in A

LEMMA PlacesAre ==
  ASSUME NEW p, NEW q
  PROVE  Modes!Place(p) = Modes!Place(q)
           <=> p.state = q.state /\ p.private = q.private /\ p.params = q.params
BY DEF Modes!Place

LEMMA BasesAre ==
  ASSUME NEW m, NEW k
  PROVE  Modes!Place(Base(m)) = Modes!Place(Base(k)) /\ Base(m).modes = m
BY DEF Modes!Place, Base

LEMMA DispatchInStep ==
  ASSUME NEW A, Kept(A), NEW p \in Parsers, NEW q \in Parsers, Modes!Place(p) = Modes!Place(q),
         <<p.modes, q.modes>> \in A, NEW b
  PROVE  <<Modes!Dispatch(p, b), Modes!Dispatch(q, b)>> \in A
<1>1. q.private = p.private /\ q.params = p.params
  BY PlacesAre
<1>2. p.params \in Seq(Bytes) /\ p.modes \in Known /\ q.modes \in Known
  BY ParamsAreBytes
<1> DEFINE set == b = "h"
<1>3. set \in BOOLEAN
  OBVIOUS
<1> HIDE DEF set
<1>4. <<Modes!SetModes(p.modes, p.params, set), Modes!SetModes(q.modes, p.params, set)>> \in A
  <2>1. \A t, s \in Known, n \in Bytes :
          <<t, s>> \in A => <<Modes!SetMode(t, n, set), Modes!SetMode(s, n, set)>> \in A
    BY <1>3 DEF Kept
  <2> QED BY <1>2, <1>3, <2>1, SetModesInStep
<1>5. \A r \in {Modes!Full} \cup (Rows \X Rows) : <<WithRegion(p.modes, r), WithRegion(q.modes, r)>> \in A
  BY <1>2 DEF Kept
<1>6. <<WithRegion(p.modes, Modes!Region(p.params)), WithRegion(q.modes, Modes!Region(p.params))>> \in A
  BY <1>2, <1>5, RegionIsTyped
<1>7. ASSUME NEW x, x.private = p.private, x.params = p.params
      PROVE  Modes!Dispatch(x, b) =
               IF p.private = "?" /\ b \in {"h", "l"} THEN Modes!SetModes(x.modes, p.params, set)
               ELSE IF p.private = "" /\ b = "r" THEN WithRegion(x.modes, Modes!Region(p.params))
               ELSE x.modes
  BY <1>7 DEF Modes!Dispatch, WithRegion, set
<1>8. CASE p.private = "?" /\ b \in {"h", "l"}
  BY <1>1, <1>4, <1>7, <1>8
<1>9. CASE ~(p.private = "?" /\ b \in {"h", "l"}) /\ p.private = "" /\ b = "r"
  BY <1>1, <1>6, <1>7, <1>9
<1>10. CASE ~(p.private = "?" /\ b \in {"h", "l"}) /\ ~(p.private = "" /\ b = "r")
  <2>1. Modes!Dispatch(p, b) = p.modes
    BY <1>7, <1>10
  <2>2. Modes!Dispatch(q, b) = q.modes
    BY <1>1, <1>7, <1>10
  <2> QED BY <2>1, <2>2
<1> QED BY <1>8, <1>9, <1>10

\* Every byte changes a parser in one of these ways.
LEMMA ScannedIs ==
  ASSUME NEW p \in Parsers, NEW b \in Bytes
  PROVE  Modes!Scanned(p, b) =
           IF p.state = "normal" THEN IF b = "esc" THEN WithState(p, "esc") ELSE p
           ELSE IF p.state = "esc" THEN IF b = "[" THEN WithState(p, "csi") ELSE Base(p.modes)
           ELSE IF b \in Modes!Marks /\ p.private = NoMark /\ p.params = <<>> THEN WithPrivate(p, b)
           ELSE IF b \in Modes!Digits THEN WithParam(p, b)
           ELSE IF b \in Modes!Finals THEN Base(Modes!Dispatch(p, b))
           ELSE IF b \in Modes!Intermediates THEN p
           ELSE Base(p.modes)
<1>1. p.state \in {"normal", "esc", "csi"}
  BY DEF Parsers
<1>2. Modes!Over(p) = Base(p.modes)
  BY OverIs
<1>3. CASE p.state = "normal"
  BY <1>3 DEF Modes!Scanned, WithState
<1>4. CASE p.state = "esc"
  BY <1>2, <1>4 DEF Modes!Scanned, WithState
<1>5. CASE p.state = "csi"
  <2>1. CASE b \in Modes!Marks /\ ~(p.private = NoMark /\ p.params = <<>>)
    <3>1. b \notin Modes!Digits \cup Modes!Finals \cup Modes!Intermediates
      BY <2>1, TokensApart
    <3>2. Modes!Scanned(p, b) = Modes!Over(p)
      BY <1>5, <2>1, <3>1 DEF Modes!Scanned, NoMark
    <3> QED BY <1>2, <1>5, <2>1, <3>1, <3>2
  <2>2. CASE ~(b \in Modes!Marks /\ ~(p.private = NoMark /\ p.params = <<>>))
    <3>1. b \in Modes!Marks \cup Modes!Digits \cup Modes!Finals \cup Modes!Intermediates \cup Modes!Controls
      BY DEF Bytes
    <3>2. b \in Modes!Controls => b \notin Modes!Digits \cup Modes!Finals \cup Modes!Intermediates
      BY TokensApart DEF Modes!Controls, Modes!Finals, Modes!Intermediates
    <3> QED BY <1>5, <2>2, <3>1, <3>2, ReadsInside
  <2> QED BY <2>1, <2>2
<1> QED BY <1>1, <1>3, <1>4, <1>5

LEMMA ChangesKeep ==
  ASSUME NEW p \in Parsers, NEW q \in Parsers, Modes!Place(p) = Modes!Place(q), NEW x
  PROVE  /\ Modes!Place(WithState(p, x)) = Modes!Place(WithState(q, x))
         /\ Modes!Place(WithPrivate(p, x)) = Modes!Place(WithPrivate(q, x))
         /\ Modes!Place(WithParam(p, x)) = Modes!Place(WithParam(q, x))
         /\ WithState(p, x).modes = p.modes /\ WithPrivate(p, x).modes = p.modes
         /\ WithParam(p, x).modes = p.modes
<1>1. \A z \in Parsers : z = At(z.state, z.private, z.params, z.modes)
  <2> HIDE DEF Known
  <2> TAKE z \in Parsers
  <2>1. z = [state |-> z.state, private |-> z.private, params |-> z.params, modes |-> z.modes]
    BY DEF Parsers
  <2> QED BY <2>1 DEF At
<1>2. PICK st, pr, ps, m, k : p = At(st, pr, ps, m) /\ q = At(st, pr, ps, k)
  <2>1. q.state = p.state /\ q.private = p.private /\ q.params = p.params
    BY PlacesAre
  <2>2. p = At(p.state, p.private, p.params, p.modes)
    BY <1>1
  <2>3. q = At(p.state, p.private, p.params, q.modes)
    BY <1>1, <2>1
  <2> QED BY <2>2, <2>3
<1>3. /\ WithState(p, x) = At(x, pr, ps, m) /\ WithState(q, x) = At(x, pr, ps, k)
      /\ WithPrivate(p, x) = At(st, x, ps, m) /\ WithPrivate(q, x) = At(st, x, ps, k)
      /\ WithParam(p, x) = At(st, pr, Append(ps, x), m) /\ WithParam(q, x) = At(st, pr, Append(ps, x), k)
  BY <1>2, AtChanges
<1>4. \A a, c, d, u, v : Modes!Place(At(a, c, d, u)) = Modes!Place(At(a, c, d, v)) /\ At(a, c, d, u).modes = u
  BY DEF At, Modes!Place
<1>5. /\ Modes!Place(WithState(p, x)) = Modes!Place(WithState(q, x))
      /\ Modes!Place(WithPrivate(p, x)) = Modes!Place(WithPrivate(q, x))
      /\ Modes!Place(WithParam(p, x)) = Modes!Place(WithParam(q, x))
  BY <1>3, <1>4
<1>6. p.modes = m
  BY <1>2, <1>4
<1> QED BY <1>3, <1>4, <1>5, <1>6

LEMMA ScannedInStep ==
  ASSUME NEW A, Kept(A), NEW p \in Parsers, NEW q \in Parsers, Modes!Place(p) = Modes!Place(q),
         <<p.modes, q.modes>> \in A, NEW b \in Bytes
  PROVE  /\ Modes!Place(Modes!Scanned(p, b)) = Modes!Place(Modes!Scanned(q, b))
         /\ <<Modes!Scanned(p, b).modes, Modes!Scanned(q, b).modes>> \in A
<1>1. q.state = p.state /\ q.private = p.private /\ q.params = p.params
  BY PlacesAre
<1> DEFINE u == Modes!Scanned(p, b)
<1> DEFINE v == Modes!Scanned(q, b)
<1>2. u = IF p.state = "normal" THEN IF b = "esc" THEN WithState(p, "esc") ELSE p
          ELSE IF p.state = "esc" THEN IF b = "[" THEN WithState(p, "csi") ELSE Base(p.modes)
          ELSE IF b \in Modes!Marks /\ p.private = NoMark /\ p.params = <<>> THEN WithPrivate(p, b)
          ELSE IF b \in Modes!Digits THEN WithParam(p, b)
          ELSE IF b \in Modes!Finals THEN Base(Modes!Dispatch(p, b))
          ELSE IF b \in Modes!Intermediates THEN p
          ELSE Base(p.modes)
  BY ScannedIs
<1>3. v = IF p.state = "normal" THEN IF b = "esc" THEN WithState(q, "esc") ELSE q
          ELSE IF p.state = "esc" THEN IF b = "[" THEN WithState(q, "csi") ELSE Base(q.modes)
          ELSE IF b \in Modes!Marks /\ p.private = NoMark /\ p.params = <<>> THEN WithPrivate(q, b)
          ELSE IF b \in Modes!Digits THEN WithParam(q, b)
          ELSE IF b \in Modes!Finals THEN Base(Modes!Dispatch(q, b))
          ELSE IF b \in Modes!Intermediates THEN q
          ELSE Base(q.modes)
  BY <1>1, ScannedIs
<1> DEFINE Good(x, y) == Modes!Place(x) = Modes!Place(y) /\ <<x.modes, y.modes>> \in A
<1>4. Good(p, q)
  OBVIOUS
<1>5. Good(Base(p.modes), Base(q.modes))
  BY BasesAre
<1>6. Good(Base(Modes!Dispatch(p, b)), Base(Modes!Dispatch(q, b)))
  BY BasesAre, DispatchInStep
<1>8. Good(WithState(p, "esc"), WithState(q, "esc")) /\ Good(WithState(p, "csi"), WithState(q, "csi"))
  BY ChangesKeep
<1>9. Good(WithPrivate(p, b), WithPrivate(q, b)) /\ Good(WithParam(p, b), WithParam(q, b))
  BY ChangesKeep
<1> HIDE DEF u, v, Good
<1>10. Good(u, v)
  <2>1. CASE p.state = "normal"
    BY <1>2, <1>3, <1>4, <1>8, <2>1
  <2>2. CASE p.state = "esc"
    BY <1>2, <1>3, <1>5, <1>8, <2>2
  <2>3. CASE p.state # "normal" /\ p.state # "esc"
    BY <1>2, <1>3, <1>4, <1>5, <1>6, <1>9, <2>3
  <2> QED BY <2>1, <2>2, <2>3
<1> QED BY <1>10 DEF Good, u, v

\* A terminal that was given the modes m and followed some of the bytes: each of
\* its modes is as it was given, or as the scanner's is that followed them all; a
\* mode that excludes others may besides be off, unless the scanner's is as given.
Trails(c, m, s) == c \in {m, s, "0"} /\ (m = s => c = s)

Follows(m, t, s) ==
  /\ \A f \in Modes!Flags : (f \in t.on <=> f \in m.on) \/ (f \in t.on <=> f \in s.on)
  /\ Trails(t.mouse, m.mouse, s.mouse) /\ Trails(t.ext, m.ext, s.ext)
  /\ t.region \in {m.region, s.region}

\* Two states of the modes that a terminal of this height shows alike.
Like(h, t, s) ==
  /\ \A f \in Modes!Flags : f \in t.on <=> f \in s.on
  /\ t.mouse = s.mouse /\ t.ext = s.ext /\ Modes!Clamp(t.region, h) = Modes!Clamp(s.region, h)

Following(m) == {d \in Known \X Known : Follows(m, d[1], d[2])}
Likes(h) == {d \in Known \X Known : Like(h, d[1], d[2])}

LEMMA TrailsOn ==
  ASSUME NEW c, NEW m, NEW s, Trails(c, m, s), NEW n, NEW set \in BOOLEAN
  PROVE  Trails(Modes!Choose(c, n, set), m, Modes!Choose(s, n, set))
BY DEF Trails, Modes!Choose

LEMMA FollowingIsKept ==
  ASSUME NEW m \in Known
  PROVE  Kept(Following(m)) /\ \A t, s \in Known : <<t, s>> \in Following(m) <=> Follows(m, t, s)
<1>1. \A t, s \in Known : <<t, s>> \in Following(m) <=> Follows(m, t, s)
  BY DEF Following
<1>2. ASSUME NEW t \in Known, NEW s \in Known, Follows(m, t, s), NEW n \in Bytes, NEW set \in BOOLEAN
      PROVE  Follows(m, Modes!SetMode(t, n, set), Modes!SetMode(s, n, set))
  <2> DEFINE u == Modes!SetMode(t, n, set)
  <2> DEFINE v == Modes!SetMode(s, n, set)
  <2>1. /\ \A f \in Modes!Flags : f \in u.on <=> IF Modes!Flag(n) = f THEN set ELSE f \in t.on
        /\ u.mouse = IF n \in Modes!Mouse THEN Modes!Choose(t.mouse, n, set) ELSE t.mouse
        /\ u.ext = IF n \in Modes!MouseExt THEN Modes!Choose(t.ext, n, set) ELSE t.ext
        /\ u.region = t.region
    BY SetModeSets
  <2>2. /\ \A f \in Modes!Flags : f \in v.on <=> IF Modes!Flag(n) = f THEN set ELSE f \in s.on
        /\ v.mouse = IF n \in Modes!Mouse THEN Modes!Choose(s.mouse, n, set) ELSE s.mouse
        /\ v.ext = IF n \in Modes!MouseExt THEN Modes!Choose(s.ext, n, set) ELSE s.ext
        /\ v.region = s.region
    BY SetModeSets
  <2> HIDE DEF u, v
  <2>3. \A f \in Modes!Flags : (f \in u.on <=> f \in m.on) \/ (f \in u.on <=> f \in v.on)
    BY <1>2, <2>1, <2>2 DEF Follows
  <2>4. Trails(u.mouse, m.mouse, v.mouse)
    BY <1>2, <2>1, <2>2, TrailsOn DEF Follows
  <2>5. Trails(u.ext, m.ext, v.ext)
    BY <1>2, <2>1, <2>2, TrailsOn DEF Follows
  <2>6. u.region \in {m.region, v.region}
    BY <1>2, <2>1, <2>2 DEF Follows
  <2>7. Follows(m, u, v)
    BY <2>3, <2>4, <2>5, <2>6 DEF Follows
  <2> QED BY <2>7 DEF u, v
<1>3. ASSUME NEW t \in Known, NEW s \in Known, Follows(m, t, s), NEW r \in {Modes!Full} \cup (Rows \X Rows)
      PROVE  Follows(m, WithRegion(t, r), WithRegion(s, r))
  <2>1. /\ WithRegion(t, r).on = t.on /\ WithRegion(t, r).mouse = t.mouse
        /\ WithRegion(t, r).ext = t.ext /\ WithRegion(t, r).region = r
    BY WithRegionIs
  <2>2. /\ WithRegion(s, r).on = s.on /\ WithRegion(s, r).mouse = s.mouse
        /\ WithRegion(s, r).ext = s.ext /\ WithRegion(s, r).region = r
    BY WithRegionIs
  <2> QED BY <1>3, <2>1, <2>2 DEF Follows
<1>4. \A t \in Known, n \in Bytes, set \in BOOLEAN : Modes!SetMode(t, n, set) \in Known
  BY SetModeIsTyped
<1>5. \A t \in Known, r \in {Modes!Full} \cup (Rows \X Rows) : WithRegion(t, r) \in Known
  BY WithRegionIs
<1>6. \A t, s \in Known, n \in Bytes, set \in BOOLEAN :
        <<t, s>> \in Following(m) => <<Modes!SetMode(t, n, set), Modes!SetMode(s, n, set)>> \in Following(m)
  BY <1>1, <1>2, <1>4
<1>7. \A t, s \in Known, r \in {Modes!Full} \cup (Rows \X Rows) :
        <<t, s>> \in Following(m) => <<WithRegion(t, r), WithRegion(s, r)>> \in Following(m)
  BY <1>1, <1>3, <1>5
<1> QED BY <1>1, <1>6, <1>7 DEF Kept

LEMMA LikesAreKept ==
  ASSUME NEW h
  PROVE  Kept(Likes(h)) /\ \A t, s \in Known : <<t, s>> \in Likes(h) <=> Like(h, t, s)
<1>1. \A t, s \in Known : <<t, s>> \in Likes(h) <=> Like(h, t, s)
  BY DEF Likes
<1>2. ASSUME NEW t \in Known, NEW s \in Known, Like(h, t, s), NEW n \in Bytes, NEW set \in BOOLEAN
      PROVE  Like(h, Modes!SetMode(t, n, set), Modes!SetMode(s, n, set))
  <2> DEFINE u == Modes!SetMode(t, n, set)
  <2> DEFINE v == Modes!SetMode(s, n, set)
  <2>1. /\ \A f \in Modes!Flags : f \in u.on <=> IF Modes!Flag(n) = f THEN set ELSE f \in t.on
        /\ u.mouse = IF n \in Modes!Mouse THEN Modes!Choose(t.mouse, n, set) ELSE t.mouse
        /\ u.ext = IF n \in Modes!MouseExt THEN Modes!Choose(t.ext, n, set) ELSE t.ext
        /\ u.region = t.region
    BY SetModeSets
  <2>2. /\ \A f \in Modes!Flags : f \in v.on <=> IF Modes!Flag(n) = f THEN set ELSE f \in s.on
        /\ v.mouse = IF n \in Modes!Mouse THEN Modes!Choose(s.mouse, n, set) ELSE s.mouse
        /\ v.ext = IF n \in Modes!MouseExt THEN Modes!Choose(s.ext, n, set) ELSE s.ext
        /\ v.region = s.region
    BY SetModeSets
  <2> HIDE DEF u, v
  <2>3. Like(h, u, v)
    BY <1>2, <2>1, <2>2 DEF Like
  <2> QED BY <2>3 DEF u, v
<1>3. ASSUME NEW t \in Known, NEW s \in Known, Like(h, t, s), NEW r \in {Modes!Full} \cup (Rows \X Rows)
      PROVE  Like(h, WithRegion(t, r), WithRegion(s, r))
  <2>1. /\ WithRegion(t, r).on = t.on /\ WithRegion(t, r).mouse = t.mouse
        /\ WithRegion(t, r).ext = t.ext /\ WithRegion(t, r).region = r
    BY WithRegionIs
  <2>2. /\ WithRegion(s, r).on = s.on /\ WithRegion(s, r).mouse = s.mouse
        /\ WithRegion(s, r).ext = s.ext /\ WithRegion(s, r).region = r
    BY WithRegionIs
  <2> QED BY <1>3, <2>1, <2>2 DEF Like
<1>4. \A t \in Known, n \in Bytes, set \in BOOLEAN : Modes!SetMode(t, n, set) \in Known
  BY SetModeIsTyped
<1>5. \A t \in Known, r \in {Modes!Full} \cup (Rows \X Rows) : WithRegion(t, r) \in Known
  BY WithRegionIs
<1>6. \A t, s \in Known, n \in Bytes, set \in BOOLEAN :
        <<t, s>> \in Likes(h) => <<Modes!SetMode(t, n, set), Modes!SetMode(s, n, set)>> \in Likes(h)
  BY <1>1, <1>2, <1>4
<1>7. \A t, s \in Known, r \in {Modes!Full} \cup (Rows \X Rows) :
        <<t, s>> \in Likes(h) => <<WithRegion(t, r), WithRegion(s, r)>> \in Likes(h)
  BY <1>1, <1>3, <1>5
<1> QED BY <1>1, <1>6, <1>7 DEF Kept

\* A terminal given what the scanner knew, clamped to its height, shows it alike
\* when it has followed the bytes up to where the scanner stands.
LEMMA FollowingShowsAlike ==
  ASSUME NEW s \in Known, NEW t \in Known, NEW h \in Rows,
         Follows(WithRegion(s, Modes!Clamp(s.region, h)), t, s)
  PROVE  Like(h, t, s)
<1>1. s.region \in {Modes!Full} \cup (Rows \X Rows)
  BY DEF Known
<1> DEFINE r == Modes!Clamp(s.region, h)
<1>2. r \in {Modes!Full} \cup (Rows \X Rows) /\ Modes!Clamp(r, h) = r
  BY <1>1, ClampIsTyped
<1>3. Follows(WithRegion(s, r), t, s)
  OBVIOUS
<1>4. r = Modes!Clamp(s.region, h)
  OBVIOUS
<1> HIDE DEF r
<1>5. /\ WithRegion(s, r).on = s.on /\ WithRegion(s, r).mouse = s.mouse
      /\ WithRegion(s, r).ext = s.ext /\ WithRegion(s, r).region = r
  BY <1>2, WithRegionIs
<1> QED BY <1>2, <1>3, <1>4, <1>5 DEF Follows, Trails, Like

-----------------------------------------------------------------------------
\* The inductive invariant.
Streamed ==
  /\ written \in Seq(Sequences) /\ rest \in Seq(Bytes) /\ \A i \in 1..Len(rest) : rest[i] # "esc"
  /\ scan \in Parsers /\ term \in Parsers /\ pending \in Seq(Bytes)
  /\ rows \in Heights /\ height \in Heights \cup {0} /\ (client = "live" => height \in Heights)
  /\ client \in {"away", "draining", "live"} /\ cut \in BOOLEAN /\ restarts \in 0..MaxRestarts

\* The end of the sequence leaves the scanner between two, where it may be already.
Between(p) == p = Base(p.modes)
Ends == Between(scan) \/ Between(Modes!ScannedAll(scan, rest))

\* What the scanner knows at the end of the sequence is what the program asked for.
Knows(w, p, b, n) == Counted(w) /\ (n = 0 => Agrees(w, Modes!ScannedAll(p, b).modes))
Agreed == Knows(written, scan, rest, restarts)

\* The buffered bytes take a terminal to where the scanner is, whatever modes it is
\* given first, if there is the start of a sequence among them.
Drains(m, t, p) == t = Base(m) \/ (Modes!Place(t) = Modes!Place(p) /\ Follows(m, t.modes, p.modes))
Buffered == client = "draining" => \A m \in Known : Drains(m, Modes!ScannedAll(Base(m), pending), scan)

\* A terminal whose snapshot fell between two bytes of no sequence is where the
\* scanner is.
Together(h, t, p) == Modes!Place(t) = Modes!Place(p) /\ Like(h, t.modes, p.modes)
Shows == client = "live" /\ ~cut => Together(height, term, scan)

ModesInv == Streamed /\ Ends /\ Agreed /\ Buffered /\ Shows

LEMMA FreshIs == Modes!Fresh = Base(Modes!Defaults) /\ Modes!Fresh \in Parsers /\ Between(Modes!Fresh)
<1>1. Modes!Fresh = Base(Modes!Defaults)
  BY DEF Modes!Fresh, Base
<1>2. Base(Modes!Defaults).modes = Modes!Defaults
  BY DEF Base
<1> QED BY <1>1, <1>2, NothingWritten, BaseIsTyped DEF Between

LEMMA InitModes == Modes!Init => ModesInv
<1> SUFFICES ASSUME Modes!Init PROVE ModesInv
  OBVIOUS
<1>1. /\ written = <<>> /\ rest = <<>> /\ scan = Modes!Fresh /\ rows \in Heights /\ restarts = 0
      /\ client = "away" /\ pending = <<>> /\ term = Modes!Fresh /\ height = 0 /\ cut = FALSE
  BY DEF Modes!Init
<1>2. Streamed
  <2>1. <<>> \in Seq(Sequences) /\ <<>> \in Seq(Bytes) /\ Len(<<>>) = 0
    OBVIOUS
  <2>2. restarts \in 0..MaxRestarts
    <3>1. {MaxSequences, MaxRestarts} \subseteq Nat
      BY TerminalAssumption DEF Modes!ModesAssumption
    <3> QED BY <1>1, <3>1
  <2>3. \A i \in 1..Len(rest) : rest[i] # "esc"
    BY <1>1, <2>1
  <2> HIDE DEF Parsers, Bytes
  <2> QED BY <1>1, <2>1, <2>2, <2>3, FreshIs DEF Streamed
<1>3. Ends
  BY <1>1, FreshIs DEF Ends
<1>4. Agreed
  <2>1. Modes!ScannedAll(scan, rest) = Base(Modes!Defaults)
    BY <1>1, FreshIs, ScannedNothing
  <2>2. Base(Modes!Defaults).modes = Modes!Defaults
    BY BasesAre
  <2>3. Agrees(written, Modes!ScannedAll(scan, rest).modes)
    BY <1>1, <2>1, <2>2, NothingWritten
  <2>4. Counted(written)
    BY <1>1, NothingWritten
  <2> QED BY <2>3, <2>4 DEF Agreed, Knows
<1>5. Buffered /\ Shows
  BY <1>1 DEF Buffered, Shows
<1> QED BY <1>2, <1>3, <1>4, <1>5 DEF ModesInv

\* The program begins a sequence.
LEMMA Begins ==
  ASSUME NEW p \in Parsers, Between(p), NEW s \in Sequences, NEW w \in Seq(Sequences), NEW n,
         Knows(w, p, <<>>, n)
  PROVE  /\ Head(s) \in Bytes /\ Tail(s) \in Seq(Bytes) /\ \A i \in 1..Len(Tail(s)) : Tail(s)[i] # "esc"
         /\ Between(Modes!ScannedAll(Modes!Scanned(p, Head(s)), Tail(s)))
         /\ Knows(Append(w, s), Modes!Scanned(p, Head(s)), Tail(s), n)
<1>1. s \in Modes!Whole
  BY TerminalAssumption DEF Modes!ModesAssumption
<1>2. PICK N \in SUBSET Modes!Names, set \in BOOLEAN : Reads(s, N, set)
  BY <1>1, WholeIsRead
<1> DEFINE m == p.modes
<1>3. m \in Known /\ p = Base(m)
  BY ParamsAreBytes DEF Between
<1> HIDE DEF m
<1>4. PICK k \in Known : Modes!ScannedAll(Base(m), s) = Base(k) /\ Heard(m, k, s, N, set)
  BY <1>2, <1>3 DEF Reads
<1>5. Speech(s, N, set)
  BY <1>2 DEF Reads
<1>6. s \in Seq(Bytes) /\ s # <<>> /\ \A i \in 2..Len(s) : s[i] # "esc"
  BY <1>5 DEF Speech
<1>7. /\ Head(s) \in Bytes /\ Tail(s) \in Seq(Bytes)
      /\ Modes!ScannedAll(Modes!Scanned(p, Head(s)), Tail(s)) = Base(k)
  BY <1>3, <1>4, <1>6, ScannedFirst
<1>8. \A i \in 1..Len(Tail(s)) : Tail(s)[i] # "esc"
  <2>1. Len(s) \in Nat /\ Len(Tail(s)) = Len(s) - 1 /\ \A i \in 1..Len(s) - 1 : Tail(s)[i] = s[i + 1]
    BY <1>6
  <2> TAKE i \in 1..Len(Tail(s))
  <2>2. i + 1 \in 2..Len(s) /\ Tail(s)[i] = s[i + 1]
    BY <2>1
  <2> QED BY <1>6, <2>2
<1>9. Base(k).modes = k
  BY BasesAre
<1>10. Between(Base(k))
  BY <1>9 DEF Between
<1>11. Counted(w) /\ (n = 0 => Agrees(w, m))
  <2>1. Modes!ScannedAll(p, <<>>) = p
    BY ScannedNothing
  <2> QED BY <2>1 DEF Knows, m
<1>12. Counted(Append(w, s))
  <2>1. \A names \in SUBSET Named, final \in {"h", "l"} :
          LastOf(Append(w, s), names, final) \in 0..Len(Append(w, s))
    <3>1. Len(w) \in Nat /\ Len(Append(w, s)) = Len(w) + 1
      BY Appended
    <3>2. \A names \in SUBSET Named, final \in {"h", "l"} :
            LastOf(Append(w, s), names, final) \in {Len(w) + 1, LastOf(w, names, final)}
      BY <1>5, <1>11, LastGrows DEF Speech, Counted
    <3> QED BY <1>11, <3>1, <3>2 DEF Counted
  <2>2. MarginsAt(Append(w, s)) # {} => LastMargins(Append(w, s)) \in MarginsAt(Append(w, s))
    BY <1>11, MarginsGrow DEF Counted
  <2> QED BY <2>1, <2>2 DEF Counted
<1>13. n = 0 => Agrees(Append(w, s), k)
  BY <1>3, <1>4, <1>5, <1>11, WordsGrow
<1> QED BY <1>7, <1>8, <1>9, <1>10, <1>12, <1>13 DEF Knows

\* The program goes on with a sequence.
LEMMA GoesOn ==
  ASSUME NEW p \in Parsers, NEW s \in Seq(Bytes), s # <<>>, \A i \in 1..Len(s) : s[i] # "esc",
         Between(p) \/ Between(Modes!ScannedAll(p, s)), NEW w, NEW n, Knows(w, p, s, n)
  PROVE  LET q == Modes!Scanned(p, Head(s))
         IN  /\ Head(s) \in Bytes /\ Head(s) # "esc"
             /\ Tail(s) \in Seq(Bytes) /\ \A i \in 1..Len(Tail(s)) : Tail(s)[i] # "esc"
             /\ Between(q) \/ Between(Modes!ScannedAll(q, Tail(s)))
             /\ Knows(w, q, Tail(s), n)
<1> DEFINE q == Modes!Scanned(p, Head(s))
<1>1. /\ Head(s) \in Bytes /\ Tail(s) \in Seq(Bytes)
      /\ Modes!ScannedAll(p, s) = Modes!ScannedAll(q, Tail(s))
  BY ScannedFirst
<1>2. /\ Len(s) \in Nat /\ Len(s) >= 1 /\ Head(s) = s[1] /\ Len(Tail(s)) = Len(s) - 1
      /\ \A i \in 1..Len(s) - 1 : Tail(s)[i] = s[i + 1]
  OBVIOUS
<1>3. Head(s) # "esc"
  BY <1>2
<1>4. \A i \in 1..Len(Tail(s)) : Tail(s)[i] # "esc"
  <2> TAKE i \in 1..Len(Tail(s))
  <2>1. i + 1 \in 1..Len(s) /\ Tail(s)[i] = s[i + 1]
    BY <1>2
  <2> QED BY <2>1
<1>5. Between(p) => q = p
  <2>1. p.modes \in Known
    BY ParamsAreBytes
  <2> QED BY <1>3, <2>1, ReadsBetween DEF Between
<1> HIDE DEF q
<1>6. Between(q) \/ Between(Modes!ScannedAll(q, Tail(s)))
  BY <1>1, <1>5
<1>7. Knows(w, q, Tail(s), n)
  BY <1>1 DEF Knows
<1> QED BY <1>1, <1>3, <1>4, <1>6, <1>7 DEF q

\* The bytes in a buffer, and the terminal, go with the scanner.
LEMMA DrainsOn ==
  ASSUME NEW m \in Known, NEW t \in Parsers, NEW p \in Parsers, Drains(m, t, p), NEW b \in Bytes,
         b = "esc" => Between(p)
  PROVE  Drains(m, Modes!Scanned(t, b), Modes!Scanned(p, b))
<1>1. t.modes \in Known /\ p.modes \in Known
  BY ParamsAreBytes
<1>2. CASE t = Base(m) /\ b # "esc"
  BY <1>2, ReadsBetween DEF Drains
<1>3. CASE t = Base(m) /\ b = "esc"
  <2>1. Modes!Scanned(t, b) = At("esc", NoMark, <<>>, m)
    BY <1>3, ReadsBetween
  <2>2. Modes!Scanned(p, b) = At("esc", NoMark, <<>>, p.modes)
    BY <1>1, <1>3, ReadsBetween DEF Between
  <2>3. \A a, c, d, u, v : Modes!Place(At(a, c, d, u)) = Modes!Place(At(a, c, d, v)) /\ At(a, c, d, u).modes = u
    BY DEF At, Modes!Place
  <2>4. Follows(m, m, p.modes)
    BY DEF Follows, Trails
  <2> QED BY <2>1, <2>2, <2>3, <2>4 DEF Drains
<1>4. CASE Modes!Place(t) = Modes!Place(p) /\ Follows(m, t.modes, p.modes)
  <2>1. Kept(Following(m)) /\ <<t.modes, p.modes>> \in Following(m)
    BY <1>1, <1>4, FollowingIsKept
  <2>2. /\ Modes!Place(Modes!Scanned(t, b)) = Modes!Place(Modes!Scanned(p, b))
        /\ <<Modes!Scanned(t, b).modes, Modes!Scanned(p, b).modes>> \in Following(m)
    BY <1>4, <2>1, ScannedInStep
  <2>3. Modes!Scanned(t, b).modes \in Known /\ Modes!Scanned(p, b).modes \in Known
    BY ScannedIsTyped, ParamsAreBytes
  <2>4. Follows(m, Modes!Scanned(t, b).modes, Modes!Scanned(p, b).modes)
    BY <2>2, <2>3, FollowingIsKept
  <2> QED BY <2>2, <2>4 DEF Drains
<1> QED BY <1>2, <1>3, <1>4 DEF Drains

LEMMA StaysTogether ==
  ASSUME NEW h, NEW t \in Parsers, NEW p \in Parsers, Together(h, t, p), NEW b \in Bytes
  PROVE  Together(h, Modes!Scanned(t, b), Modes!Scanned(p, b))
<1>1. t.modes \in Known /\ p.modes \in Known
  BY ParamsAreBytes
<1>2. Kept(Likes(h)) /\ <<t.modes, p.modes>> \in Likes(h) /\ Modes!Place(t) = Modes!Place(p)
  BY <1>1, LikesAreKept DEF Together
<1>3. /\ Modes!Place(Modes!Scanned(t, b)) = Modes!Place(Modes!Scanned(p, b))
      /\ <<Modes!Scanned(t, b).modes, Modes!Scanned(p, b).modes>> \in Likes(h)
  BY <1>2, ScannedInStep
<1>4. Modes!Scanned(t, b).modes \in Known /\ Modes!Scanned(p, b).modes \in Known
  BY ScannedIsTyped, ParamsAreBytes
<1>5. Like(h, Modes!Scanned(t, b).modes, Modes!Scanned(p, b).modes)
  BY <1>3, <1>4, LikesAreKept
<1> QED BY <1>3, <1>5 DEF Together

\* A terminal that was drained stands where the scanner does only if it shows the
\* same.
LEMMA DrainedShows ==
  ASSUME NEW h \in Rows, NEW p \in Parsers, NEW t \in Parsers,
         Drains(WithRegion(p.modes, Modes!Clamp(p.modes.region, h)), t, p), Modes!Place(t) = Modes!Place(p)
  PROVE  Together(h, t, p)
<1> DEFINE k == WithRegion(p.modes, Modes!Clamp(p.modes.region, h))
<1>1. t.modes \in Known /\ p.modes \in Known
  BY ParamsAreBytes
<1>2. Follows(k, t.modes, p.modes)
  <2> HIDE DEF k
  <2>1. CASE t = Base(k)
    <3>1. t.modes = k
      BY <2>1, BasesAre
    <3>2. Follows(k, k, p.modes)
      BY DEF Follows, Trails
    <3> QED BY <3>1, <3>2
  <2>2. CASE t # Base(k)
    <3>1. Drains(k, t, p)
      BY DEF k
    <3> QED BY <2>2, <3>1 DEF Drains
  <2> QED BY <2>1, <2>2
<1>3. Like(h, t.modes, p.modes)
  BY <1>1, <1>2, FollowingShowsAlike
<1> QED BY <1>3 DEF Together

LEMMA WritesKeeps == ModesInv /\ Modes!Writes => ModesInv'
<1> SUFFICES ASSUME ModesInv, Modes!Writes PROVE ModesInv'
  OBVIOUS
<1>1. PICK s \in IF rest # <<>> THEN {rest} ELSE Sequences :
        /\ written' = IF rest = <<>> THEN Append(written, s) ELSE written
        /\ rest' = Tail(s)
        /\ scan' = Modes!Scanned(scan, Head(s))
        /\ pending' = IF client = "draining" THEN Append(pending, Head(s)) ELSE pending
        /\ term' = IF client = "live" THEN Modes!Scanned(term, Head(s)) ELSE term
        /\ UNCHANGED <<rows, restarts, client, height, cut>>
  BY DEF Modes!Writes
<1>2. /\ written \in Seq(Sequences) /\ rest \in Seq(Bytes) /\ \A i \in 1..Len(rest) : rest[i] # "esc"
      /\ scan \in Parsers /\ term \in Parsers /\ pending \in Seq(Bytes)
  BY DEF ModesInv, Streamed
<1>3. Between(scan) \/ Between(Modes!ScannedAll(scan, rest))
  BY DEF ModesInv, Ends
<1>4. Knows(written, scan, rest, restarts)
  BY DEF ModesInv, Agreed
<1>5. rest = <<>> => Between(scan)
  BY <1>2, <1>3, ScannedNothing
<1> DEFINE b == Head(s)
<1>6. /\ b \in Bytes /\ (b = "esc" => Between(scan)) /\ written' \in Seq(Sequences)
      /\ Tail(s) \in Seq(Bytes) /\ \A i \in 1..Len(Tail(s)) : Tail(s)[i] # "esc"
      /\ Between(scan') \/ Between(Modes!ScannedAll(scan', Tail(s)))
      /\ Knows(written', scan', Tail(s), restarts)
  <2>1. CASE rest = <<>>
    <3>1. s \in Sequences /\ written' = Append(written, s) /\ Between(scan)
      BY <1>1, <1>5, <2>1
    <3>2. Append(written, s) \in Seq(Sequences)
      BY <1>2, <3>1
    <3>3. Knows(written, scan, <<>>, restarts)
      BY <1>4, <2>1
    <3>4. /\ b \in Bytes /\ Tail(s) \in Seq(Bytes) /\ \A i \in 1..Len(Tail(s)) : Tail(s)[i] # "esc"
          /\ Between(Modes!ScannedAll(Modes!Scanned(scan, b), Tail(s)))
          /\ Knows(Append(written, s), Modes!Scanned(scan, b), Tail(s), restarts)
      BY <1>2, <3>1, <3>3, Begins
    <3> QED BY <1>1, <3>1, <3>2, <3>4
  <2>2. CASE rest # <<>>
    <3>1. s = rest /\ written' = written
      BY <1>1, <2>2
    <3>2. /\ b \in Bytes /\ b # "esc"
          /\ Tail(s) \in Seq(Bytes) /\ \A i \in 1..Len(Tail(s)) : Tail(s)[i] # "esc"
          /\ Between(Modes!Scanned(scan, b)) \/ Between(Modes!ScannedAll(Modes!Scanned(scan, b), Tail(s)))
          /\ Knows(written, Modes!Scanned(scan, b), Tail(s), restarts)
      BY <1>2, <1>3, <1>4, <2>2, <3>1, GoesOn
    <3> QED BY <1>1, <1>2, <3>1, <3>2
  <2> QED BY <2>1, <2>2
<1> HIDE DEF b
<1>7. /\ scan' = Modes!Scanned(scan, b) /\ rest' = Tail(s)
      /\ pending' = IF client = "draining" THEN Append(pending, b) ELSE pending
      /\ term' = IF client = "live" THEN Modes!Scanned(term, b) ELSE term
      /\ client' = client /\ cut' = cut /\ height' = height /\ rows' = rows /\ restarts' = restarts
  BY <1>1 DEF b
<1>8. Streamed'
  <2>1. scan' \in Parsers /\ term' \in Parsers
    BY <1>2, <1>6, <1>7, ScannedIsTyped
  <2>2. pending' \in Seq(Bytes)
    BY <1>2, <1>6, <1>7
  <2>3. /\ rows' \in Heights /\ height' \in Heights \cup {0} /\ (client' = "live" => height' \in Heights)
        /\ client' \in {"away", "draining", "live"} /\ cut' \in BOOLEAN /\ restarts' \in 0..MaxRestarts
    BY <1>7 DEF ModesInv, Streamed
  <2>4. rest' \in Seq(Bytes) /\ \A i \in 1..Len(rest') : rest'[i] # "esc"
    BY <1>6, <1>7
  <2> QED BY <1>6, <2>1, <2>2, <2>3, <2>4 DEF Streamed
<1>9. Ends'
  BY <1>6, <1>7 DEF Ends
<1>10. Agreed'
  BY <1>6, <1>7 DEF Agreed
<1>11. Buffered'
  <2>1. SUFFICES ASSUME client = "draining", NEW m \in Known
                 PROVE  Drains(m, Modes!ScannedAll(Base(m), pending'), scan')
    BY <1>7 DEF Buffered
  <2>2. Drains(m, Modes!ScannedAll(Base(m), pending), scan)
    BY <2>1 DEF ModesInv, Buffered
  <2>3. /\ Modes!ScannedAll(Base(m), pending) \in Parsers
        /\ Modes!ScannedAll(Base(m), Append(pending, b)) = Modes!Scanned(Modes!ScannedAll(Base(m), pending), b)
    BY <1>2, <1>6, BaseIsTyped, ScannedLast
  <2>4. pending' = Append(pending, b)
    BY <1>7, <2>1
  <2> QED BY <1>2, <1>6, <1>7, <2>2, <2>3, <2>4, DrainsOn
<1>12. Shows'
  <2>1. SUFFICES ASSUME client = "live", ~cut PROVE Together(height, term', scan')
    BY <1>7 DEF Shows
  <2>2. Together(height, term, scan)
    BY <2>1 DEF ModesInv, Shows
  <2> QED BY <1>2, <1>6, <1>7, <2>1, <2>2, StaysTogether
<1> QED BY <1>8, <1>9, <1>10, <1>11, <1>12 DEF ModesInv

LEMMA HelloKeeps == ASSUME NEW h \in Heights PROVE ModesInv /\ Modes!Hello(h) => ModesInv'
<1> SUFFICES ASSUME ModesInv, Modes!Hello(h) PROVE ModesInv'
  OBVIOUS
<1>1. /\ client' = "draining" /\ rows' = h /\ height' = 0
      /\ pending' = <<>> /\ term' = Modes!Fresh /\ cut' = FALSE
      /\ written' = written /\ rest' = rest /\ scan' = scan /\ restarts' = restarts
  BY DEF Modes!Hello, Modes!program
<1>2. Streamed'
  <2>1. <<>> \in Seq(Bytes)
    OBVIOUS
  <2>2. Streamed
    BY DEF ModesInv
  <2> QED BY <1>1, <2>1, <2>2, FreshIs DEF Streamed
<1>3. Ends' /\ Agreed'
  BY <1>1 DEF ModesInv, Ends, Agreed
<1>4. Buffered'
  <2>1. \A m \in Known : Modes!ScannedAll(Base(m), <<>>) = Base(m)
    BY BaseIsTyped, ScannedNothing
  <2>2. \A m \in Known : Drains(m, Modes!ScannedAll(Base(m), pending'), scan')
    BY <1>1, <2>1 DEF Drains
  <2> QED BY <2>2 DEF Buffered
<1>5. Shows'
  BY <1>1 DEF Shows
<1> QED BY <1>2, <1>3, <1>4, <1>5 DEF ModesInv

LEMMA ResizedKeeps == ASSUME NEW h \in Heights PROVE ModesInv /\ Modes!Resized(h) => ModesInv'
<1> SUFFICES ASSUME ModesInv, Modes!Resized(h) PROVE ModesInv'
  OBVIOUS
<1>1. /\ rows' = h /\ client' = client /\ height' = height
      /\ pending' = pending /\ term' = term /\ cut' = cut
      /\ written' = written /\ rest' = rest /\ scan' = scan /\ restarts' = restarts
  BY DEF Modes!Resized, Modes!program, Modes!browser
<1>2. Streamed'
  <2>1. Streamed
    BY DEF ModesInv
  <2> QED BY <1>1, <2>1 DEF Streamed
<1> QED BY <1>1, <1>2 DEF ModesInv, Ends, Agreed, Buffered, Shows

LEMMA SnapshotKeeps == ModesInv /\ Modes!Snapshot => ModesInv'
<1> SUFFICES ASSUME ModesInv, Modes!Snapshot PROVE ModesInv'
  OBVIOUS
<1>1. /\ client = "draining" /\ client' = "live"
      /\ term' = Modes!ScannedAll(Modes!ScannedAll(Modes!Fresh, Modes!Emit(scan.modes, rows)), pending)
      /\ cut' = (Modes!Place(term') # Modes!Place(scan))
      /\ height' = rows /\ pending' = <<>>
      /\ written' = written /\ rest' = rest /\ scan' = scan /\ rows' = rows /\ restarts' = restarts
  BY DEF Modes!Snapshot, Modes!program, Modes!server
<1>2. Streamed
  BY DEF ModesInv
<1>3. scan \in Parsers /\ scan.modes \in Known /\ rows \in Heights /\ rows \in Rows /\ pending \in Seq(Bytes)
  BY <1>2, ParamsAreBytes, RowsAreNat DEF Streamed
<1> DEFINE k == WithRegion(scan.modes, Modes!Clamp(scan.modes.region, rows))
<1>4. k \in Known /\ Modes!ScannedAll(Modes!Fresh, Modes!Emit(scan.modes, rows)) = Base(k)
  BY <1>3, EmitIsRead
<1>5. term' \in Parsers
  <2> HIDE DEF k
  <2>1. PICK b : b \in Bytes
    BY DEF Bytes, Modes!Controls
  <2>2. Base(k) \in Parsers /\ term' = Modes!ScannedAll(Base(k), pending)
    BY <1>1, <1>4, BaseIsTyped
  <2> QED BY <1>3, <2>1, <2>2, ScannedLast
<1>6. Drains(k, term', scan)
  <2> HIDE DEF k
  <2> QED BY <1>1, <1>4 DEF ModesInv, Buffered
<1>7. Streamed'
  <2>1. <<>> \in Seq(Bytes) /\ cut' \in BOOLEAN
    BY <1>1
  <2> QED BY <1>1, <1>2, <1>3, <1>5, <2>1 DEF Streamed
<1>8. Ends' /\ Agreed' /\ Buffered'
  BY <1>1 DEF ModesInv, Ends, Agreed, Buffered
<1>9. Shows'
  <2>1. SUFFICES ASSUME Modes!Place(term') = Modes!Place(scan) PROVE Together(rows, term', scan)
    BY <1>1 DEF Shows
  <2> QED BY <1>3, <1>5, <1>6, <2>1, DrainedShows
<1> QED BY <1>7, <1>8, <1>9 DEF ModesInv

LEMMA LeavesKeeps == ModesInv /\ Modes!Leaves => ModesInv'
<1> SUFFICES ASSUME ModesInv, Modes!Leaves PROVE ModesInv'
  OBVIOUS
<1>1. /\ client' = "away" /\ pending' = <<>> /\ term' = Modes!Fresh /\ height' = 0 /\ cut' = FALSE
      /\ written' = written /\ rest' = rest /\ scan' = scan /\ rows' = rows /\ restarts' = restarts
  BY DEF Modes!Leaves, Modes!program, Modes!server
<1>2. Streamed'
  <2>1. <<>> \in Seq(Bytes)
    OBVIOUS
  <2>2. Streamed
    BY DEF ModesInv
  <2> QED BY <1>1, <2>1, <2>2, FreshIs DEF Streamed
<1> QED BY <1>1, <1>2 DEF ModesInv, Ends, Agreed, Buffered, Shows

\* The scanner that comes back is between two sequences, and stays there to the end
\* of the one that was cut off.
LEMMA RestartsKeeps == ModesInv /\ Modes!Restarts => ModesInv'
<1> SUFFICES ASSUME ModesInv, Modes!Restarts PROVE ModesInv'
  OBVIOUS
<1>1. /\ restarts < MaxRestarts /\ restarts' = restarts + 1 /\ scan' = Modes!Fresh
      /\ client' = "away" /\ pending' = <<>> /\ term' = Modes!Fresh /\ height' = 0 /\ cut' = FALSE
      /\ written' = written /\ rest' = rest /\ rows' = rows
  BY DEF Modes!Restarts, Modes!program
<1>2. Streamed
  BY DEF ModesInv
<1>3. restarts' \in 0..MaxRestarts /\ restarts' # 0
  <2>1. MaxRestarts \in Nat
    <3>1. {MaxSequences, MaxRestarts} \subseteq Nat
      BY TerminalAssumption DEF Modes!ModesAssumption
    <3> QED BY <3>1
  <2>2. restarts \in 0..MaxRestarts
    BY <1>2 DEF Streamed
  <2> QED BY <1>1, <2>1, <2>2
<1>4. Streamed'
  <2>1. <<>> \in Seq(Bytes)
    OBVIOUS
  <2> QED BY <1>1, <1>2, <1>3, <2>1, FreshIs DEF Streamed
<1>5. Ends'
  BY <1>1, FreshIs DEF Ends
<1>6. Agreed'
  BY <1>1, <1>3 DEF ModesInv, Agreed, Knows
<1>7. Buffered' /\ Shows'
  BY <1>1 DEF Buffered, Shows
<1> QED BY <1>4, <1>5, <1>6, <1>7 DEF ModesInv

LEMMA RestKeeps == ModesInv /\ UNCHANGED modesVars => ModesInv'
BY DEF modesVars, ModesInv, Streamed, Ends, Agreed, Buffered, Shows

LEMMA NextKeeps == ModesInv /\ [TerminalNext]_<<shown, vars, modesVars>> => ModesInv'
<1> SUFFICES ASSUME ModesInv, [TerminalNext]_<<shown, vars, modesVars>> PROVE ModesInv'
  OBVIOUS
<1>1. UNCHANGED modesVars \/ Modes!Next
  BY DEF TerminalNext
<1>2. CASE UNCHANGED modesVars
  BY <1>2, RestKeeps
<1>3. CASE Modes!Next
  BY <1>3, WritesKeeps, SnapshotKeeps, LeavesKeeps, RestartsKeeps, HelloKeeps, ResizedKeeps DEF Modes!Next
<1> QED BY <1>1, <1>2, <1>3

LEMMA KnownAreModes == Known \subseteq Modes!Modes /\ Parsers \subseteq Modes!Parser
<1>1. Rows \subseteq Nat
  BY RowsAreNat
<1>2. {Modes!Full} \cup (Rows \X Rows) \subseteq {Modes!Full} \cup (Nat \X Nat)
  BY <1>1
<1>3. Known \subseteq Modes!Modes
  BY <1>2 DEF Known, Modes!Modes
<1> HIDE DEF Known
<1>4. Parsers \subseteq Modes!Parser
  BY <1>3 DEF Parsers, Modes!Parser
<1> QED BY <1>3, <1>4

LEMMA ModesReach == ModesInv => Modes!ModesReachClient
<1> SUFFICES ASSUME ModesInv, client = "live", ~cut
             PROVE  /\ Modes!Shown(term.modes) = Modes!Shown(scan.modes)
                    /\ rest = <<>> /\ restarts = 0 => Modes!Shown(term.modes) = Modes!Shown(Modes!Asked)
  BY DEF Modes!ModesReachClient
<1>1. Streamed /\ Like(height, term.modes, scan.modes)
  BY DEF ModesInv, Shows, Together
<1>2. /\ term.modes \in Known /\ scan.modes \in Known /\ scan \in Parsers /\ height \in Rows
  BY <1>1, ParamsAreBytes, RowsAreNat DEF Streamed
<1>3. \A m : Modes!Shown(m) = WithRegion(m, Modes!Clamp(m.region, height))
  BY DEF Modes!Shown, WithRegion
<1>4. ASSUME NEW m \in Known
      PROVE  LET k == WithRegion(m, Modes!Clamp(m.region, height))
             IN  /\ k \in Known /\ k.on = m.on /\ k.mouse = m.mouse /\ k.ext = m.ext
                 /\ k.region = Modes!Clamp(m.region, height)
  <2>1. m.region \in {Modes!Full} \cup (Rows \X Rows)
    BY DEF Known
  <2> QED BY <1>2, <2>1, ClampIsTyped, WithRegionIs
<1>5. Modes!Shown(term.modes) = Modes!Shown(scan.modes)
  <2> DEFINE t == WithRegion(term.modes, Modes!Clamp(term.modes.region, height))
  <2> DEFINE s == WithRegion(scan.modes, Modes!Clamp(scan.modes.region, height))
  <2>1. /\ t \in Known /\ t.on = term.modes.on /\ t.mouse = term.modes.mouse
        /\ t.ext = term.modes.ext /\ t.region = Modes!Clamp(term.modes.region, height)
    BY <1>2, <1>4
  <2>2. /\ s \in Known /\ s.on = scan.modes.on /\ s.mouse = scan.modes.mouse
        /\ s.ext = scan.modes.ext /\ s.region = Modes!Clamp(scan.modes.region, height)
    BY <1>2, <1>4
  <2> HIDE DEF t, s
  <2>3. t = s
    BY <1>1, <2>1, <2>2, SameModes DEF Like
  <2> QED BY <1>3, <2>3 DEF t, s
<1>6. rest = <<>> /\ restarts = 0 => Modes!Asked = scan.modes
  <2> SUFFICES ASSUME rest = <<>>, restarts = 0 PROVE Modes!Asked = scan.modes
    OBVIOUS
  <2>1. Agrees(written, Modes!ScannedAll(scan, rest).modes)
    BY DEF ModesInv, Agreed, Knows
  <2>2. Modes!ScannedAll(scan, rest) = scan
    BY <1>2, ScannedNothing
  <2> QED BY <1>2, <2>1, <2>2, AskedIs
<1> QED BY <1>5, <1>6

-----------------------------------------------------------------------------
(* The theorems.                                                           *)

\* What the server keeps of a run's stream and of its modes, and what a terminal
\* of the browser keeps of them, has its type (logs/registry.ts, screen.ts,
\* api/ws.ts).
THEOREM TerminalsAreTyped == TerminalSpec => []TerminalTypeOK
<1>1. TerminalInit => ModesInv
  BY InitModes DEF TerminalInit
<1>2. ModesInv /\ [TerminalNext]_<<shown, vars, modesVars>> => ModesInv'
  BY NextKeeps
<1>3. ModesInv => Modes!TypeOK
  BY KnownAreModes DEF ModesInv, Streamed, Modes!TypeOK
<1>4. TypeOK /\ Held /\ Modes!TypeOK => TerminalTypeOK
  BY DEF TerminalTypeOK
<1>5. TerminalSpec => []Modes!TypeOK
  BY <1>1, <1>2, <1>3, PTL DEF TerminalSpec
<1> QED BY <1>4, <1>5, StreamsAreTyped, PTL

\* Unless its snapshot fell into a sequence, a terminal that is connected has the
\* modes the scanner knows (scan() and emit() of logs/screen.ts), clamped to the
\* size of the snapshot; between two sequences those are what the program asked
\* for, unless the server was restarted.  For all sequences of the grammar, any
\* rows and heights, and any number of sequences, snapshots and restarts.
THEOREM ModesReachTerminals == TerminalSpec => []ModesReachClient
<1>1. TerminalInit => ModesInv
  BY InitModes DEF TerminalInit
<1>2. ModesInv /\ [TerminalNext]_<<shown, vars, modesVars>> => ModesInv'
  BY NextKeeps
<1>3. ModesInv => ModesReachClient
  BY ModesReach DEF ModesReachClient
<1> QED BY <1>1, <1>2, <1>3, PTL DEF TerminalSpec

===============================================================================
