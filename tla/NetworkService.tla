--------------------------- MODULE NetworkService ---------------------------
(***************************************************************************)
(* What the polling service promises its user for each network, in terms   *)
(* of nothing but the network: once enabled it gets one poller, which      *)
(* polls it round after round until the user disables, edits or deletes    *)
(* it. There is no scheduler, no registry and no connection here;          *)
(* ModbusPolling is shown to implement this.                               *)
(***************************************************************************)
CONSTANT Networks

VARIABLES
  phase,   \* phase[n]: what the user sees of network n
  failed   \* has an exception ended a loop of the service?

vars == <<phase, failed>>

Phases ==
  { "absent", "off",                   \* not created, not enabled yet
    "waiting",                         \* enabled, and nobody polls it
    "starting", "polling", "asleep",   \* its only poller: before its first
                                       \* round, in a round, between rounds
    "released" }                       \* disabled, edited or deleted

Init ==
  /\ phase \in [Networks -> {"absent", "off", "waiting"}]
  /\ failed = FALSE

Goes(n, from, to) ==
  /\ phase[n] \in from
  /\ phase' = [phase EXCEPT ![n] = to]

Create(n)    == Goes(n, {"absent"}, "off") \/ Goes(n, {"absent"}, "waiting")
Enable(n)    == Goes(n, {"off"}, "waiting")
StartPoll(n) == Goes(n, {"waiting"}, "starting")
Poll(n)      == Goes(n, {"starting", "asleep"}, "polling")
Sleep(n)     == Goes(n, {"polling"}, "asleep")
Release(n)   == Goes(n, Phases, "released")

Serve(n) ==
  \/ Create(n) \/ Enable(n)
  \/ StartPoll(n) \/ Poll(n) \/ Sleep(n)
  \/ Release(n)

\* An exception leaves a network without its poller, or ends something else.
Fail(n) == failed' = TRUE /\ Goes(n, {"starting", "polling", "asleep"}, "waiting")
Break   == failed' = TRUE /\ UNCHANGED phase

Next ==
  \/ (\E n \in Networks : Serve(n)) /\ UNCHANGED failed
  \/ \E n \in Networks : Fail(n)
  \/ Break

SafeSpec == Init /\ [][Next]_vars

\* A network that is enabled gets its poller, and the poller goes on from each
\* of its phases to the next; only a release puts an end to it, or an
\* exception, after which only SafeSpec is promised. (These are the
\* consequences of weak fairness of StartPoll, Poll and Sleep, stated without
\* ENABLED, which cannot be evaluated under a refinement mapping.)
Served ==
  \A n \in Networks :
    /\ phase[n] = "waiting" ~> phase[n] # "waiting" \/ failed
    /\ phase[n] = "starting" ~> phase[n] # "starting" \/ failed
    /\ phase[n] = "polling" ~> phase[n] # "polling" \/ failed
    /\ phase[n] = "asleep" ~> phase[n] # "asleep" \/ failed

Spec == SafeSpec /\ Served
=============================================================================
