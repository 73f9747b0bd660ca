------------------------------ MODULE MCTerminal -------------------------------
(***************************************************************************)
(* What a terminal of the browser is sent, on small instances: the chunks  *)
(* of ShellStream and the modes of ScreenModes.  They are the same bytes   *)
(* seen twice, as what is drawn and as what is set, and neither module     *)
(* reads the other's state: a behaviour shows one, and the other rests.    *)
(***************************************************************************)
EXTENDS MCShellStream

CONSTANTS Heights, Numbers, Sequences, MaxSequences, MaxRestarts  \* ScreenModes

VARIABLES
  shown,  \* the component whose steps the behaviour shows
  written, rest, scan, rows, client, pending, term, height, cut, restarts

Modes == INSTANCE ScreenModes

ASSUME TerminalAssumption == Modes!ModesAssumption

modesVars == <<written, rest, scan, rows, client, pending, term, height, cut, restarts>>

TerminalInit ==
  /\ shown \in {"chunks", "modes"}
  /\ Init /\ Modes!Init /\ (shown = "chunks" => rows = CHOOSE h \in Heights : TRUE)

TerminalNext ==
  \/ shown = "chunks" /\ Next /\ UNCHANGED <<shown, modesVars>>
  \/ shown = "modes" /\ Modes!Next /\ UNCHANGED <<shown, vars>>

TerminalSpec == TerminalInit /\ [][TerminalNext]_<<shown, vars, modesVars>>

CanonicalTerminal == <<shown, Canonical, modesVars>>

-----------------------------------------------------------------------------
\* The instance: rows, and a program that writes one or two sequences of each kind.
RowNumbers == "1" :> 1 @@ "2" :> 2 @@ "3" :> 3 @@ "9" :> 9

Spoken ==
  { <<"esc", "[", "?", "25", "l">>, <<"esc", "[", "?", "47", "h">>,
    <<"esc", "[", "?", "1049", "l">>, <<"esc", "[", "?", "2004", "h">>,
    <<"esc", "[", "?", "1002", "h">>, <<"esc", "[", "?", "1000", "l">>,
    <<"esc", "[", "?", "1000", ";", "1006", "h">>,
    <<"esc", "[", "2", ";", "9", "r">>, <<"esc", "[", "r">>,
    <<"esc", "7">>, <<"esc", "[", ">", "25", "$", "q">>, <<"esc", "[", "?", "25", "lf">> }

-----------------------------------------------------------------------------
\* Both have states of their type.
TerminalTypeOK == TypeOK /\ Modes!TypeOK

\* A terminal of the browser has the modes that the program in the container set.
ModesReachClient == shown = "modes" => Modes!ModesReachClient

===============================================================================
