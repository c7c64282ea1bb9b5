-------------------------- MODULE MCModbusPolling --------------------------
(***************************************************************************)
(* ModbusPolling on small instances. Connections and greenlets are named   *)
(* by CHOOSE, so that they are not symmetric; what their names hide is     *)
(* factored out by View instead.                                           *)
(***************************************************************************)
EXTENDS ModbusPolling

\* What still matters of a reference to a connection: under which network it
\* is registered, or whose it was.
Reference(c) ==
  IF c = None THEN <<"none">>
  ELSE IF \E n \in Networks : registry[n] = c
       THEN <<"registered", CHOOSE n \in Networks : registry[n] = c>>
       ELSE IF c \in temp THEN <<"temp">> ELSE <<"dropped", conn[c].owner>>

ViewOf(t) ==
  <<pc[t], net[t], Reference(client[t]), Reference(born[t]), client[t] = born[t]>>

ViewOfRest ==
  << [n \in Networks |-> IF Exists(n) THEN <<status[n], params[n]>> ELSE <<status[n]>>],
     [n \in Networks |-> <<disturbances[n], seen[n]>>], edits, sched, todo,
     [n \in Networks |-> IF registry[n] = None THEN <<>> ELSE <<conn[registry[n]]>>],
     Cardinality(temp),
     [r \in Requests |-> Reference(reqConn[r])] >>

\* Two states with the same view differ in the names of connections and
\* greenlets and in what dropped connections last held, and in nothing a later
\* step or a property reads (live greenlets of a network differ in born; only
\* a name that is free matters to an allocation, and there are enough). No
\* property checked under View reads failed.
View == <<ViewOfRest, {ViewOf(t) : t \in {u \in Threads : Live(u)}}>>

\* For liveness the greenlets, which fairness is about, keep their names.
LivenessView == <<ViewOfRest, failed, [t \in Threads |-> ViewOf(t)]>>
=============================================================================
