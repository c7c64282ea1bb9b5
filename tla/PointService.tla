---------------------------- MODULE PointService ----------------------------
(***************************************************************************)
(* What a writable point promises its user: the device executes commands,  *)
(* one after the other, each one a command that the point had since the    *)
(* last restart, and the report on the point is what the device holds when *)
(* it is made. An outcome that cannot be reported is not passed off as     *)
(* reported. There is no priority array, no poll and no lock here;         *)
(* PointWrite is shown to implement this.                                  *)
(***************************************************************************)
CONSTANTS
  Values,  \* values of commands and of the device
  None     \* no command, no report

VARIABLES
  effect,    \* effect[v]: what the device makes of command v; never changes
  hides,     \* <<v, w>>: a report of v may be left for w; never changes
  command,   \* what the user wants
  underway,  \* commands on their way to the device
  turn,      \* free, written (the device has executed a command and its answer
             \* is awaited), lost (no command was executed, nor is answered)
  device,    \* what the device holds
  report,    \* what is known of it; None after a fault
  untold     \* the report may be older than the last command executed

vars == <<effect, hides, command, underway, turn, device, report, untold>>

Commands == Values \cup {None}

Init ==
  /\ effect \in [Commands -> Values]
  /\ hides \subseteq Values \X Values
  /\ command \in Commands
  /\ underway = {}
  /\ turn = "free"
  /\ device \in Values
  /\ report \in {None, device}
  /\ untold = FALSE

\* The user changes the command.
Ask ==
  /\ command' \in Commands
  /\ UNCHANGED <<underway, turn, device, report, untold, effect, hides>>

\* The command of now goes on its way, be it a second time.
Take ==
  /\ underway' = underway \cup {command}
  /\ UNCHANGED <<command, turn, device, report, untold, effect, hides>>

\* v, or one of several of v, is no longer on its way.
Leaves(v) ==
  /\ v \in underway
  /\ underway' \in {underway, underway \ {v}}

\* The device executes v.
Execute(v) ==
  /\ turn = "free"
  /\ Leaves(v)
  /\ turn' = "written"
  /\ device' = effect[v]
  /\ UNCHANGED <<command, report, untold, effect, hides>>

\* v does not reach the device, which is noticed later or at once.
Lose(v) ==
  /\ turn = "free"
  /\ Leaves(v)
  /\ turn' \in {"lost", "free"}
  /\ UNCHANGED <<command, device, report, untold, effect, hides>>

\* The answer: the report is what the device holds, or stays if that is close.
Answer ==
  /\ turn = "written"
  /\ turn' = "free"
  /\ \/ report' = device
     \/ <<report, device>> \in hides /\ report' = report
  /\ untold' = FALSE
  /\ UNCHANGED <<command, underway, device, effect, hides>>

\* No answer.
Fault ==
  /\ turn # "free"
  /\ turn' = "free"
  /\ report' = None
  /\ untold' = FALSE
  /\ UNCHANGED <<command, underway, device, effect, hides>>

\* No report: what an executed command did is untold.
Silence ==
  /\ turn' = "free"
  /\ untold' = (untold \/ turn = "written")
  /\ UNCHANGED <<command, device, report, effect, hides>>

\* The outcome of one command cannot be reported.
Unreported ==
  /\ turn # "free"
  /\ Silence
  /\ UNCHANGED underway

\* A restart forgets what was under way.
Restart ==
  /\ Silence
  /\ underway' = {}

Next ==
  \/ Ask \/ Take
  \/ \E v \in underway : Execute(v) \/ Lose(v)
  \/ Answer \/ Fault \/ Unreported \/ Restart

Spec == Init /\ [][Next]_vars
=============================================================================
