----------------------------- MODULE MCShellStream -----------------------------
(***************************************************************************)
(* ShellStream on small instances.                                         *)
(***************************************************************************)
EXTENDS ShellStream

\* Objects and connections are interchangeable.  Safety runs only.
Symmetry == Permutations(Channels) \cup Permutations(Screens)
              \cup Permutations(Sockets) \cup Permutations(Writers)

\* What an object held before it was let go of is overwritten when its name is
\* used again, so states that differ only there are one.  Safety runs only.
Canonical ==
  <<log, registry, rebuild, sockets, lives,
    {c \in ended : ~ChannelUnused(c)},
    [x \in Screens |-> IF ScreenUnused(x) THEN <<>> ELSE drawn[x]]>>

===============================================================================
