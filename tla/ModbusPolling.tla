--------------------------- MODULE ModbusPolling ---------------------------
(***************************************************************************)
(* One Modbus driver (RtuPolling or TcpPolling): the scheduler greenlet,   *)
(* the registry of connections, one polling greenlet per started network,  *)
(* the manual polls and the REST calls that change the networks.           *)
(*                                                                         *)
(* Everything runs in one process under gevent's monkey.patch_all: a       *)
(* greenlet gives way only where it waits (socket or serial I/O, sleep,    *)
(* Thread.start), so an action is what a greenlet does between two waits.  *)
(* The scheduler's stretch between two waits handles several networks; it  *)
(* is a sequence of steps during which (sched = "round") no other greenlet *)
(* moves.                                                                  *)
(***************************************************************************)
EXTENDS Integers, FiniteSets

CONSTANTS
  Networks,   \* rows of the networks table, past and future (uuids)
  ConnKeys,   \* values of the parameters that make a connection_key
  Conns,      \* identities of ModbusRegistryConnection objects (recycled)
  Threads,    \* identities of polling greenlets (recycled)
  Requests,   \* greenlets that serve a manual poll
  None,
  DriverOn,   \* is the driver enabled in the settings (setting.drivers)?
  MayFail,    \* may an exception leave a try-less part of a loop (besides
              \* that of a deleted row)?
  MaxEdits,   \* bound: disables and parameter edits in all
  MaxTemp     \* bound: connections of non-existing networks at a time

ASSUME SetsAssumption ==
  /\ None \notin Networks \cup ConnKeys \cup Conns \cup Threads
  /\ Conns # {} /\ ConnKeys # {}
ASSUME BoundsAssumption ==
  /\ MaxEdits \in Nat /\ MaxTemp \in Nat
  /\ DriverOn \in BOOLEAN /\ MayFail \in BOOLEAN

VARIABLES
  status,     \* status[n]: the row is absent, enabled, disabled or deleted
  params,     \* params[n]: the row's connection parameters
  disturbances, \* disturbances[n]: how often n was disabled or edited (history)
  edits,      \* how often that happened in all (counted for the bound)
  registry,   \* registry[n]: the connection registered under n's uuid
  temp,       \* the connections registered under a fresh shortuuid
  conn,       \* conn[c]: network, connection_key and is_running of object c
  sched,      \* where the scheduler is
  todo,       \* networks of its snapshot it has not handled yet
  seen,       \* seen[n]: n's parameters in the snapshot (None: not in it)
  pc,         \* pc[t]: where polling greenlet t is
  net,        \* net[t]: its network
  client,     \* client[t]: the connection it uses in its current round
  born,       \* born[t]: the connection it was started for (history)
  reqConn,    \* reqConn[r]: the connection request r polls with
  failed      \* has an exception of MayFail happened? (history)

rowVars   == <<status, params, disturbances, edits>>
regVars   == <<registry, temp, conn>>
schedVars == <<sched, todo, seen>>
thrVars   == <<pc, net, client, born>>
vars      == <<rowVars, regVars, schedVars, thrVars, reqConn, failed>>

Status   == {"absent", "enabled", "disabled", "deleted"}
SchedPc  == {"off", "asleep", "round", "handover"}
ThreadPc == {"idle", "starting", "polling", "asleep"}
Connection == [owner : Networks \cup {None}, key : ConnKeys, running : BOOLEAN]

TypeOK ==
  /\ status \in [Networks -> Status]
  /\ params \in [Networks -> ConnKeys]
  /\ disturbances \in [Networks -> Nat]
  /\ edits \in 0..MaxEdits
  /\ registry \in [Networks -> Conns \cup {None}]
  /\ temp \in SUBSET Conns
  /\ conn \in [Conns -> Connection]
  /\ sched \in SchedPc
  /\ todo \in SUBSET Networks
  /\ seen \in [Networks -> ConnKeys \cup {None}]
  /\ pc \in [Threads -> ThreadPc]
  /\ net \in [Threads -> Networks \cup {None}]
  /\ client \in [Threads -> Conns \cup {None}]
  /\ born \in [Threads -> Conns \cup {None}]
  /\ reqConn \in [Requests -> Conns \cup {None}]
  /\ failed \in BOOLEAN

-----------------------------------------------------------------------------
disturbed    == {n \in Networks : disturbances[n] > 0}
Exists(n)    == status[n] \in {"enabled", "disabled"}
Live(t)      == pc[t] # "idle"
Polls(t, n)  == pc[t] = "polling" /\ net[t] = n

\* No registry entry, greenlet or request refers to c: the object is garbage
\* (its socket is closed by the collector) and c can name a new one.
Free(c) ==
  /\ \A n \in Networks : registry[n] # c
  /\ c \notin temp
  /\ \A t \in Threads : client[t] # c /\ born[t] # c
  /\ \A r \in Requests : reqConn[r] # c

\* Objects are indistinguishable, so a new one may be any free identity.
NewConn   == CHOOSE c \in Conns : Free(c)
NewThread == CHOOSE t \in Threads : pc[t] = "idle"
CanAllocate == \E c \in Conns : Free(c)

AnyKey == CHOOSE k \in ConnKeys : TRUE
Fresh(n, k) == [owner |-> n, key |-> k, running |-> FALSE]

\* add_connection: the entry of n is closed and dropped if there is one, and
\* replaced by a connection that nobody polls yet.
AddConnection(n, k) ==
  /\ CanAllocate
  /\ registry' = [registry EXCEPT ![n] = NewConn]
  /\ conn' = [conn EXCEPT ![NewConn] = Fresh(n, k)]
  /\ temp' = temp

Current(n, k) == registry[n] # None /\ conn[registry[n]].key = k

\* Mutated forms (NAME_bug): a definition as a likely bug would have it. No
\* specification uses them; each shows which bug a property would reveal.
AddEditAndGet_alwaysAdds(n, k) == AddConnection(n, k)
AddEditAndGet_ignoresEdit(n, k) ==
  IF registry[n] # None THEN UNCHANGED regVars ELSE AddConnection(n, k)
AddEditAndGet_keyedByParams(n, k) ==
  IF \E m \in Networks : Current(m, k)
  THEN /\ registry' = [registry EXCEPT ![n] = registry[CHOOSE m \in Networks : Current(m, k)]]
       /\ UNCHANGED <<conn, temp>>
  ELSE AddConnection(n, k)

\* add_edit_and_get_connection; its result is registry'[n].
AddEditAndGet(n, k) ==
  IF Current(n, k) THEN UNCHANGED regVars ELSE AddConnection(n, k)

\* At start-up the database holds anything; register() opens a connection for
\* the networks that have a TCP device, enabled or not.
InitConn(c) ==
  IF \E n \in Networks : registry[n] = c
  THEN LET n == CHOOSE m \in Networks : registry[m] = c IN Fresh(n, params[n])
  ELSE Fresh(None, AnyKey)

Init ==
  /\ status \in [Networks -> {"absent", "enabled", "disabled"}]
  /\ params \in [Networks -> ConnKeys]
  /\ disturbances = [n \in Networks |-> 0]
  /\ edits = 0
  /\ temp = {}
  /\ registry \in [Networks -> Conns \cup {None}]
  /\ \A n \in Networks : registry[n] # None => Exists(n) /\ DriverOn
  /\ \A m, n \in Networks : m # n /\ registry[m] # None => registry[m] # registry[n]
  /\ conn = [c \in Conns |-> InitConn(c)]
  /\ sched = IF DriverOn THEN "asleep" ELSE "off"
  /\ todo = {}
  /\ seen = [n \in Networks |-> None]
  /\ pc = [t \in Threads |-> "idle"]
  /\ net = [t \in Threads |-> None]
  /\ client = [t \in Threads |-> None]
  /\ born = [t \in Threads |-> None]
  /\ reqConn = [r \in Requests |-> None]
  /\ failed = FALSE

-----------------------------------------------------------------------------
(* The scheduler: __poll, __poll_network and the sleep of polling.         *)

\* sleep(2) is over; __get_all_networks reads the enabled networks.
SchedSnapshot ==
  /\ sched = "asleep"
  /\ sched' = "round"
  /\ todo' = {n \in Networks : status[n] = "enabled"}
  /\ seen' = [n \in Networks |-> IF status[n] = "enabled" THEN params[n] ELSE None]
  /\ UNCHANGED <<rowVars, regVars, thrVars, reqConn, failed>>

ThreadNeeded_onlyForNewConnection(n) == registry'[n] # registry[n]

\* The test of is_running on the connection just got.
ThreadNeeded(n) == ~conn'[registry'[n]].running

\* __poll_network(n), with the parameters of the snapshot. FlaskThread.start
\* waits until the new greenlet runs.
SchedNetwork(n) ==
  /\ sched = "round"
  /\ n \in todo
  /\ todo' = todo \ {n}
  /\ AddEditAndGet(n, seen[n])
  /\ IF ~ThreadNeeded(n)
     THEN UNCHANGED <<sched, thrVars>>
     ELSE /\ \E t \in Threads : pc[t] = "idle"
          /\ pc' = [pc EXCEPT ![NewThread] = "starting"]
          /\ net' = [net EXCEPT ![NewThread] = n]
          /\ born' = [born EXCEPT ![NewThread] = registry'[n]]
          /\ client' = client
          /\ sched' = "handover"
  /\ UNCHANGED <<rowVars, seen, reqConn, failed>>

\* The new greenlet has run up to its first wait (or its end).
SchedResume ==
  /\ sched = "handover"
  /\ \A t \in Threads : pc[t] # "starting"
  /\ sched' = "round"
  /\ UNCHANGED <<rowVars, regVars, todo, seen, thrVars, reqConn, failed>>

Removal(keep) ==
  /\ sched = "round"
  /\ todo = {}
  /\ registry' = [n \in Networks |-> IF n \in keep THEN registry[n] ELSE None]
  /\ seen' = [n \in Networks |-> None]
  /\ sched' = "asleep"
  /\ UNCHANGED <<rowVars, conn, todo, thrVars, reqConn, failed>>

SchedCleanup_keepsNetworks == Removal(Networks) /\ temp' = {}
SchedCleanup_keepsTemp ==
  Removal({n \in Networks : seen[n] # None}) /\ UNCHANGED temp
SchedCleanup_clearsAll ==
  Removal({n \in Networks : temp = {} /\ seen[n] # None}) /\ temp' = {}

\* Every registered key that the snapshot lacks is closed and removed; the
\* commit expires the snapshot; the scheduler sleeps.
SchedCleanup == Removal({n \in Networks : seen[n] # None}) /\ temp' = {}

\* An exception in __poll (a null rtu_parity, say) ends the only scheduler.
SchedDies ==
  /\ MayFail
  /\ sched = "round"
  /\ sched' = "off"
  /\ failed' = TRUE
  /\ UNCHANGED <<rowVars, regVars, todo, seen, thrVars, reqConn>>

-----------------------------------------------------------------------------
(* A polling greenlet: __poll_network_thread.                              *)

AtTop(t) == pc[t] \in {"starting", "asleep"} /\ sched # "round"

ThreadEnds(t) ==
  /\ pc' = [pc EXCEPT ![t] = "idle"]
  /\ net' = [net EXCEPT ![t] = None]
  /\ client' = [client EXCEPT ![t] = None]
  /\ born' = [born EXCEPT ![t] = None]
  /\ UNCHANGED <<rowVars, regVars, schedVars, reqConn>>

ThreadPolls_flagNotSet(t) ==
  /\ AtTop(t)
  /\ registry[net[t]] # None
  /\ status[net[t]] = "enabled"
  /\ client' = [client EXCEPT ![t] = registry[net[t]]]
  /\ pc' = [pc EXCEPT ![t] = "polling"]
  /\ UNCHANGED <<rowVars, regVars, schedVars, net, born, reqConn, failed>>

\* The loop's top up to the first request of the round: the connection is
\* registered, the network is enabled; is_running is set.
ThreadPolls(t) ==
  /\ AtTop(t)
  /\ registry[net[t]] # None
  /\ status[net[t]] = "enabled"
  /\ conn' = [conn EXCEPT ![registry[net[t]]].running = TRUE]
  /\ client' = [client EXCEPT ![t] = registry[net[t]]]
  /\ pc' = [pc EXCEPT ![t] = "polling"]
  /\ UNCHANGED <<rowVars, registry, temp, schedVars, net, born, reqConn, failed>>

ThreadNoConnection(t) ==
  /\ AtTop(t)
  /\ registry[net[t]] = None
  /\ ThreadEnds(t)
  /\ UNCHANGED failed

\* The network is disabled or deleted. is_running stays as it is.
ThreadNotFound(t) ==
  /\ AtTop(t)
  /\ registry[net[t]] # None
  /\ status[net[t]] # "enabled"
  /\ ThreadEnds(t)
  /\ UNCHANGED failed

\* The round is over, completed or cut short by an exception that is logged;
\* the greenlet sleeps polling_interval_runtime.
ThreadRoundDone(t) ==
  /\ pc[t] = "polling"
  /\ sched # "round"
  /\ pc' = [pc EXCEPT ![t] = "asleep"]
  /\ client' = [client EXCEPT ![t] = None]
  /\ UNCHANGED <<rowVars, regVars, schedVars, net, born, reqConn, failed>>

ThreadRoundGone_onAnyException(t) ==
  pc[t] = "polling" /\ sched # "round" /\ ThreadEnds(t) /\ UNCHANGED failed

\* The network's row went during the round: reading polling_interval_runtime
\* after the commit raises ObjectDeletedError outside the try.
ThreadRoundGone(t) ==
  /\ pc[t] = "polling"
  /\ sched # "round"
  /\ status[net[t]] = "deleted"
  /\ ThreadEnds(t)
  /\ UNCHANGED failed

\* Any other exception at lines 71, 75 and 84 (a null rtu_parity or interval,
\* a session left unusable by a flush of a deleted device).
ThreadDies(t) ==
  /\ MayFail
  /\ Live(t)
  /\ sched # "round"
  /\ ThreadEnds(t)
  /\ failed' = TRUE

-----------------------------------------------------------------------------
(* Requests: manual polls, and the REST calls on networks.                 *)

ManualPoll_withoutRow(r, n) ==
  /\ sched # "round"
  /\ reqConn[r] = None
  /\ status[n] # "absent"
  /\ AddEditAndGet(n, params[n])
  /\ reqConn' = [reqConn EXCEPT ![r] = registry'[n]]
  /\ UNCHANGED <<rowVars, schedVars, thrVars, failed>>

\* poll_point: the network of an existing point, whether it is enabled or not.
ManualPoll(r, n) ==
  /\ sched # "round"
  /\ reqConn[r] = None
  /\ Exists(n)
  /\ AddEditAndGet(n, params[n])
  /\ reqConn' = [reqConn EXCEPT ![r] = registry'[n]]
  /\ UNCHANGED <<rowVars, schedVars, thrVars, failed>>

\* poll_point_not_existing: registered under a key made up for the call, so
\* its connection_key is never compared with another.
TempPoll(r) ==
  /\ sched # "round"
  /\ reqConn[r] = None
  /\ CanAllocate
  /\ Cardinality(temp) < MaxTemp
  /\ temp' = temp \cup {NewConn}
  /\ conn' = [conn EXCEPT ![NewConn] = Fresh(None, AnyKey)]
  /\ reqConn' = [reqConn EXCEPT ![r] = NewConn]
  /\ UNCHANGED <<rowVars, registry, schedVars, thrVars, failed>>

\* The poll of the request is answered or has timed out.
RequestEnd(r) ==
  /\ sched # "round"
  /\ reqConn[r] # None
  /\ reqConn' = [reqConn EXCEPT ![r] = None]
  /\ UNCHANGED <<rowVars, regVars, schedVars, thrVars, failed>>

\* POST or PUT of a new network, enabled or not.
CreateNetwork(n, k, s) ==
  /\ sched # "round"
  /\ status[n] = "absent"
  /\ status' = [status EXCEPT ![n] = s]
  /\ params' = [params EXCEPT ![n] = k]
  /\ UNCHANGED <<disturbances, edits, regVars, schedVars, thrVars, reqConn, failed>>

EnableNetwork(n) ==
  /\ sched # "round"
  /\ status[n] = "disabled"
  /\ status' = [status EXCEPT ![n] = "enabled"]
  /\ UNCHANGED <<params, disturbances, edits, regVars, schedVars, thrVars, reqConn, failed>>

DisableNetwork(n) ==
  /\ sched # "round"
  /\ status[n] = "enabled"
  /\ edits < MaxEdits
  /\ status' = [status EXCEPT ![n] = "disabled"]
  /\ disturbances' = [disturbances EXCEPT ![n] = @ + 1]
  /\ edits' = edits + 1
  /\ UNCHANGED <<params, regVars, schedVars, thrVars, reqConn, failed>>

\* PUT or PATCH of the connection parameters; the registry is not told.
EditNetwork(n, k) ==
  /\ sched # "round"
  /\ Exists(n)
  /\ params[n] # k
  /\ edits < MaxEdits
  /\ params' = [params EXCEPT ![n] = k]
  /\ disturbances' = [disturbances EXCEPT ![n] = @ + 1]
  /\ edits' = edits + 1
  /\ UNCHANGED <<status, regVars, schedVars, thrVars, reqConn, failed>>

DeleteNetwork(n) ==
  /\ sched # "round"
  /\ Exists(n)
  /\ status' = [status EXCEPT ![n] = "deleted"]
  /\ UNCHANGED <<params, disturbances, edits, regVars, schedVars, thrVars, reqConn, failed>>

-----------------------------------------------------------------------------
SchedStep ==
  \/ SchedSnapshot
  \/ \E n \in Networks : SchedNetwork(n)
  \/ SchedResume
  \/ SchedCleanup

ThreadStep(t) ==
  \/ ThreadPolls(t)
  \/ ThreadNoConnection(t)
  \/ ThreadNotFound(t)
  \/ ThreadRoundDone(t)
  \/ ThreadRoundGone(t)

PollRequest(r) ==
  \/ \E n \in Networks : ManualPoll(r, n)
  \/ TempPoll(r)

NetworkRequest(n) ==
  \/ \E k \in ConnKeys, s \in {"enabled", "disabled"} : CreateNetwork(n, k, s)
  \/ EnableNetwork(n)
  \/ DisableNetwork(n)
  \/ \E k \in ConnKeys : EditNetwork(n, k)
  \/ DeleteNetwork(n)

Next ==
  \/ SchedStep
  \/ SchedDies
  \/ \E t \in Threads : ThreadStep(t) \/ ThreadDies(t)
  \/ \E r \in Requests : PollRequest(r) \/ RequestEnd(r)
  \/ \E n \in Networks : NetworkRequest(n)

Spec == Init /\ [][Next]_vars

\* Sleeps end and every Modbus request is answered or times out, so each
\* greenlet goes on. A greenlet is only held up while the scheduler's stretch
\* runs (sched = "round"), which recurs: strong fairness, that the hub runs a
\* greenlet whose wait is over when the scheduler gives way.
FairSpec ==
  /\ Spec
  /\ WF_vars(SchedStep)
  /\ \A t \in Threads : SF_vars(ThreadStep(t))
  /\ \A r \in Requests : SF_vars(RequestEnd(r))

-----------------------------------------------------------------------------
(* Safety.                                                                 *)

\* The is_running flag, set by the new greenlet and read by the scheduler,
\* never lets two greenlets be started for one connection object
\* (modbus_polling.py:60, :87).
OneThreadPerConnection ==
  \A t, u \in Threads : t # u /\ Live(t) /\ Live(u) => born[t] # born[u]

Greenlets(n) == {t \in Threads : net[t] = n}

\* A network has one polling greenlet, and at most two more for each time that
\* it was disabled or its connection parameters were edited (an outdated
\* snapshot brings back the old parameters, and a greenlet for them), whatever
\* happens to the other networks, and however manual polls fall into a round
\* of the scheduler (modbus_polling.py:58-62, :71-78).
GreenletsBounded ==
  \A n \in Networks : Cardinality(Greenlets(n)) <= 1 + 2 * disturbances[n]

\* In particular a network that nobody disturbed never has a second one.
UndisturbedOneThread ==
  \A t, u \in Threads :
    t # u /\ Live(t) /\ Live(u) /\ net[t] = net[u] => net[t] \in disturbed

\* n has a connection marked as running, and no greenlet.
Orphaned(n) ==
  /\ registry[n] # None
  /\ conn[registry[n]].running
  /\ \A t \in Threads : net[t] # n

\* As long as no exception has ended a greenlet, an enabled network whose
\* connection is marked as running has a greenlet, unless it was disabled in
\* between (modbus_polling.py:75-78 leaves is_running set).
UndisturbedNotOrphaned ==
  \A n \in Networks :
    status[n] = "enabled" /\ n \notin disturbed /\ ~failed => ~Orphaned(n)

\* A poll uses the client of its own network: the registry never hands one
\* network's connection to another one's greenlet, although connections are
\* replaced and removed while others hold them.
OwnNetworkClient ==
  \A t \in Threads : pc[t] = "polling" => conn[client[t]].owner = net[t]

\* The connection of an undisturbed network that is being polled is neither
\* closed nor replaced: not by the clean-up, nor by a manual poll, nor by the
\* scheduler with an outdated snapshot.
UndisturbedKeepsConnection ==
  [][\A n \in Networks :
       /\ status[n] = "enabled"
       /\ n \notin disturbed
       /\ \E t \in Threads : net[t] = n
       => registry'[n] = registry[n]]_vars

\* No connection of n is registered or held by a greenlet or a request.
Released(n) == \A c \in Conns : conn[c].owner = n => Free(c)

\* Once the scheduler has done with a deleted network and nothing holds its
\* connections, none is opened again: not by a greenlet that was started with
\* an outdated snapshot, a manual poll or a request that goes on
\* (modbus_polling.py:42-50, :70-78, :210-217).
DeletedStaysReleased ==
  [][\A n \in Networks :
       status[n] = "deleted" /\ n \notin todo /\ Released(n) => Released(n)']_vars

-----------------------------------------------------------------------------
(* Liveness, under FairSpec.                                               *)

\* Once a network is deleted, its connections are closed and dropped for good
\* and its greenlets end, whatever they were doing (modbus_polling.py:52-55,
\* :72-78, :84); only a scheduler that an exception ended leaves them open.
DeletedNetworkReleased ==
  \A n \in Networks : status[n] = "deleted" ~> []Released(n) \/ sched = "off"

\* The connections opened for polls of non-existing points are closed again
\* (CHANGELOG.md:3, "Fix: Too many open files issues"), unless an exception
\* ended the scheduler.
TempConnectionsReclaimed == temp # {} ~> temp = {} \/ sched = "off"

\* When a network stays enabled and its parameters stay as they are, its
\* registered connection ends up with these parameters, and every greenlet
\* that polls it with that connection: an outdated snapshot or an old greenlet
\* does not bring the old parameters back for ever. Exceptions that end
\* greenlets change nothing in that; one that ends the scheduler does.
ParametersAdopted ==
  \A n \in Networks : \A k \in ConnKeys :
    <>[](status[n] = "enabled" /\ params[n] = k) =>
      \/ <>[](/\ Current(n, k)
              /\ \A t \in Threads : Polls(t, n) => client[t] = registry[n])
      \/ <>(sched = "off")

\* A network that stays enabled is polled again and again, once exceptions
\* outside a try have stopped, whatever they ended before: unless its
\* connection has its present parameters, is marked as running and has no
\* greenlet, so that an edit of them brings the network back; or unless the
\* scheduler is gone and no greenlet of the network outlived it. Nothing else
\* starves a network, neither the others nor the manual polls
\* (modbus_polling.py:38-43, :58-62, :69-84).
StarvedOnlyIfOrphaned ==
  \A n \in Networks : \A k \in ConnKeys :
    /\ <>[](status[n] = "enabled" /\ params[n] = k)
    /\ <>[][\A t \in Threads : ~ThreadDies(t)]_vars
    => \/ []<>(\E t \in Threads : Polls(t, n))
       \/ <>[](Orphaned(n) /\ Current(n, k))
       \/ <>[](sched = "off" /\ Greenlets(n) = {})

-----------------------------------------------------------------------------
(* The promise to the user, network by network, and how it is kept.        *)

\* What the user sees of n. A network that was disabled or edited is out of
\* the promise for good (an old greenlet may stay beside the new one, or the
\* flag without a greenlet); before that, the greenlets of n are its poller.
PhaseOf(n) ==
  LET pollers == Greenlets(n) IN
  CASE n \in disturbed \/ status[n] = "deleted" -> "released"
    [] n \notin disturbed /\ status[n] = "absent" -> "absent"
    [] n \notin disturbed /\ status[n] = "disabled" -> "off"
    [] n \notin disturbed /\ status[n] = "enabled" ->
         IF pollers = {} THEN "waiting"
         ELSE IF \E t \in pollers : pollers = {t}
              THEN pc[CHOOSE t \in pollers : TRUE]
              ELSE "doubled"   \* not a phase of the service

Service == INSTANCE NetworkService WITH phase <- [n \in Networks |-> PhaseOf(n)]

\* Every step is one that NetworkService allows a single network, or none: a
\* greenlet that goes through its rounds is only ended by an exception, and
\* only then, or after the user's own steps, gets a successor
\* (modbus_polling.py:39-92).
StepsServe == Service!SafeSpec

\* The driver, enabled, implements NetworkService: the scheduler starts exactly
\* one greenlet for a network that is enabled, whatever manual poll registers
\* its connection meanwhile, and that greenlet gets no second one beside it and
\* ends only by an exception, until the user disables, edits or deletes the
\* network; and until a first exception the network never stays in a phase for
\* ever (modbus_polling.py:39-92).
ServesNetworks == Service!Spec

-----------------------------------------------------------------------------
(* What the docstring of __poll_network_thread says, "Poll connection      *)
(* points on a thread" (modbus_polling.py:65-67), and the code does not    *)
(* keep.                                                                   *)

\* When a network stays enabled with the same parameters, at most one greenlet
\* polls it in the end.
OneThreadWhenSettled ==
  \A n \in Networks : \A k \in ConnKeys :
    <>[](status[n] = "enabled" /\ params[n] = k) =>
      <>[](\A t, u \in Threads : t # u /\ net[t] = n => net[u] # n)

\* The points of a network that stays enabled are polled again and again.
EnabledNetworkPolled ==
  \A n \in Networks :
    <>[](status[n] = "enabled") => []<>(\E t \in Threads : Polls(t, n))
=============================================================================
