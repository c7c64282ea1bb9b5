----------------------- MODULE ModbusPolling_proofs -----------------------
(***************************************************************************)
(* Theorems about ModbusPolling, for any sets of networks, connections,    *)
(* greenlets and requests and any bounds.                                  *)
(***************************************************************************)
EXTENDS ModbusPolling, FiniteSetTheorems, TLAPS

USE DEF disturbed

LEMMA NewConnFree ==
  ASSUME CanAllocate
  PROVE  NewConn \in Conns /\ Free(NewConn)
BY DEF CanAllocate, NewConn

LEMMA NewThreadIdle ==
  ASSUME \E t \in Threads : pc[t] = "idle"
  PROVE  NewThread \in Threads /\ pc[NewThread] = "idle"
BY DEF NewThread

LEMMA AnyKeyType == AnyKey \in ConnKeys
BY SetsAssumption DEF AnyKey

\* What add_edit_and_get_connection may do to the registry.
LEMMA AddEditAndGetEffect ==
  ASSUME TypeOK, NEW n \in Networks, NEW k \in ConnKeys, AddEditAndGet(n, k)
  PROVE  \E c \in Conns :
           /\ registry' = [registry EXCEPT ![n] = c]
           /\ temp' = temp
           /\ \/ Current(n, k) /\ c = registry[n] /\ conn' = conn
              \/ /\ ~Current(n, k) /\ Free(c)
                 /\ conn' = [conn EXCEPT ![c] = Fresh(n, k)]
<1>1. CASE Current(n, k)
  <2>1. registry[n] \in Conns /\ registry' = registry /\ temp' = temp /\ conn' = conn
    BY <1>1 DEF TypeOK, Current, AddEditAndGet, regVars
  <2>2. registry' = [registry EXCEPT ![n] = registry[n]]
    BY <2>1 DEF TypeOK
  <2> QED BY <1>1, <2>1, <2>2
<1>2. CASE ~Current(n, k)
  <2>1. AddConnection(n, k)
    BY <1>2 DEF AddEditAndGet
  <2> QED BY <1>2, <2>1, NewConnFree DEF AddConnection
<1> QED BY <1>1, <1>2

LEMMA AddEditAndGetType ==
  ASSUME TypeOK, NEW n \in Networks, NEW k \in ConnKeys, AddEditAndGet(n, k)
  PROVE  /\ registry' \in [Networks -> Conns \cup {None}]
         /\ temp' \in SUBSET Conns
         /\ conn' \in [Conns -> Connection]
         /\ registry'[n] \in Conns
<1>1. PICK c \in Conns :
        /\ registry' = [registry EXCEPT ![n] = c]
        /\ temp' = temp
        /\ \/ Current(n, k) /\ c = registry[n] /\ conn' = conn
           \/ /\ ~Current(n, k) /\ Free(c)
              /\ conn' = [conn EXCEPT ![c] = Fresh(n, k)]
  BY AddEditAndGetEffect
<1>2. Fresh(n, k) \in Connection
  BY DEF Fresh, Connection
<1> QED BY <1>1, <1>2 DEF TypeOK

-----------------------------------------------------------------------------
\* The snapshot holds the parameters of every network still to be handled.
SnapshotInv == \A n \in todo : seen[n] # None

\* Exactly the live greenlets have a network.
NetInv == \A t \in Threads : Live(t) <=> net[t] # None

TypeInv == TypeOK /\ SnapshotInv /\ NetInv

LEMMA TypeInit == Init => TypeInv
<1> SUFFICES ASSUME Init PROVE TypeInv
  OBVIOUS
<1>1. conn \in [Conns -> Connection]
  <2>1. \A c \in Conns : InitConn(c) \in Connection
    <3> SUFFICES ASSUME NEW c \in Conns PROVE InitConn(c) \in Connection
      OBVIOUS
    <3>1. CASE \E n \in Networks : registry[n] = c
      <4>1. (CHOOSE m \in Networks : registry[m] = c) \in Networks
        BY <3>1
      <4>2. params \in [Networks -> ConnKeys]
        BY DEF Init
      <4> QED BY <3>1, <4>1, <4>2 DEF InitConn, Fresh, Connection
    <3>2. CASE ~ \E n \in Networks : registry[n] = c
      BY <3>2, AnyKeyType DEF InitConn, Fresh, Connection
    <3> QED BY <3>1, <3>2
  <2> QED BY <2>1 DEF Init
<1>2. status \in [Networks -> Status] /\ sched \in SchedPc
  BY BoundsAssumption DEF Init, Status, SchedPc
<1>3. pc \in [Threads -> ThreadPc] /\ edits \in 0..MaxEdits
  BY BoundsAssumption DEF Init, ThreadPc
<1> QED BY <1>1, <1>2, <1>3 DEF Init, TypeInv, TypeOK, SnapshotInv, NetInv, Live

LEMMA TypeStep == TypeInv /\ [Next]_vars => TypeInv'
<1> SUFFICES ASSUME TypeInv, [Next]_vars PROVE TypeInv'
  OBVIOUS
<1> USE SetsAssumption DEF TypeInv, TypeOK, SnapshotInv, NetInv, Live
<1>1. CASE SchedSnapshot
  BY <1>1 DEF SchedSnapshot, SchedPc, rowVars, regVars, thrVars
<1>2. ASSUME NEW n \in Networks, SchedNetwork(n) PROVE TypeInv'
  <2>1. seen[n] \in ConnKeys /\ AddEditAndGet(n, seen[n])
    BY <1>2 DEF SchedNetwork
  <2>2. /\ registry' \in [Networks -> Conns \cup {None}]
        /\ temp' \in SUBSET Conns
        /\ conn' \in [Conns -> Connection]
        /\ registry'[n] \in Conns
    BY <2>1, AddEditAndGetType
  <2>3. CASE ThreadNeeded(n)
    <3>1. NewThread \in Threads
      BY <1>2, <2>3, NewThreadIdle DEF SchedNetwork
    <3> QED BY <1>2, <2>2, <2>3, <3>1
            DEF SchedNetwork, SchedPc, ThreadPc, rowVars
  <2>4. CASE ~ThreadNeeded(n)
    BY <1>2, <2>2, <2>4 DEF SchedNetwork, rowVars, thrVars
  <2> QED BY <2>3, <2>4
<1>3. CASE SchedResume
  BY <1>3 DEF SchedResume, SchedPc, rowVars, regVars, thrVars
<1>4. CASE SchedCleanup
  BY <1>4 DEF SchedCleanup, Removal, SchedPc, rowVars, thrVars
<1>5. CASE SchedDies
  BY <1>5 DEF SchedDies, SchedPc, rowVars, regVars, thrVars
<1>6. ASSUME NEW t \in Threads, ThreadEnds(t), failed' \in BOOLEAN PROVE TypeInv'
  BY <1>6 DEF ThreadEnds, ThreadPc, rowVars, regVars, schedVars
<1>7. ASSUME NEW t \in Threads, ThreadStep(t) \/ ThreadDies(t) PROVE TypeInv'
  <2>1. CASE ThreadPolls(t)
    <3> DEFINE c == registry[net[t]]
    <3>1. net[t] \in Networks
      BY <2>1 DEF ThreadPolls, AtTop
    <3>2. c \in Conns
      BY <2>1, <3>1 DEF ThreadPolls
    <3>3. conn[c] \in Connection
      BY <3>2
    <3>4. [conn[c] EXCEPT !.running = TRUE] \in Connection
      BY <3>3 DEF Connection
    <3>5. /\ conn' = [conn EXCEPT ![c] = [conn[c] EXCEPT !.running = TRUE]]
          /\ client' = [client EXCEPT ![t] = c]
          /\ pc' = [pc EXCEPT ![t] = "polling"]
          /\ pc[t] # "idle"
      BY <2>1 DEF ThreadPolls, AtTop
    <3> HIDE DEF c
    <3>6. conn' \in [Conns -> Connection] /\ client' \in [Threads -> Conns \cup {None}]
      BY <3>2, <3>4, <3>5
    <3>7. pc' \in [Threads -> ThreadPc]
      BY <3>5 DEF ThreadPc
    <3> QED BY <2>1, <3>5, <3>6, <3>7 DEF ThreadPolls, rowVars, schedVars
  <2>2. CASE ThreadRoundDone(t)
    BY <2>2 DEF ThreadRoundDone, ThreadPc, rowVars, regVars, schedVars
  <2>3. CASE ThreadNoConnection(t) \/ ThreadNotFound(t) \/ ThreadRoundGone(t)
                \/ ThreadDies(t)
    BY <2>3, <1>6 DEF ThreadNoConnection, ThreadNotFound, ThreadRoundGone, ThreadDies
  <2> QED BY <1>7, <2>1, <2>2, <2>3 DEF ThreadStep
<1>8. ASSUME NEW r \in Requests, PollRequest(r) \/ RequestEnd(r) PROVE TypeInv'
  <2>1. ASSUME NEW n \in Networks, ManualPoll(r, n) PROVE TypeInv'
    <3>1. /\ registry' \in [Networks -> Conns \cup {None}]
          /\ temp' \in SUBSET Conns
          /\ conn' \in [Conns -> Connection]
          /\ registry'[n] \in Conns
      BY <2>1, AddEditAndGetType DEF ManualPoll
    <3> QED BY <2>1, <3>1 DEF ManualPoll, rowVars, schedVars, thrVars
  <2>2. CASE TempPoll(r)
    <3>1. NewConn \in Conns /\ Fresh(None, AnyKey) \in Connection
      BY <2>2, NewConnFree, AnyKeyType DEF TempPoll, Fresh, Connection
    <3> QED BY <2>2, <3>1 DEF TempPoll, rowVars, schedVars, thrVars
  <2>3. CASE RequestEnd(r)
    BY <2>3 DEF RequestEnd, rowVars, regVars, schedVars, thrVars
  <2> QED BY <1>8, <2>1, <2>2, <2>3 DEF PollRequest
<1>9. ASSUME NEW n \in Networks, NetworkRequest(n) PROVE TypeInv'
  <2>1. UNCHANGED <<regVars, schedVars, thrVars, reqConn, failed>>
    BY <1>9 DEF NetworkRequest, CreateNetwork, EnableNetwork, DisableNetwork,
                EditNetwork, DeleteNetwork
  <2>2. status' \in [Networks -> Status] /\ params' \in [Networks -> ConnKeys]
    BY <1>9 DEF NetworkRequest, CreateNetwork, EnableNetwork, DisableNetwork,
                EditNetwork, DeleteNetwork, Status
  <2>3. disturbances' \in [Networks -> Nat] /\ edits' \in 0..MaxEdits
    BY <1>9, BoundsAssumption
       DEF NetworkRequest, CreateNetwork, EnableNetwork, DisableNetwork,
                EditNetwork, DeleteNetwork
  <2> QED BY <2>1, <2>2, <2>3 DEF regVars, schedVars, thrVars
<1>10. CASE UNCHANGED vars
  BY <1>10 DEF vars, rowVars, regVars, schedVars, thrVars
<1> QED BY <1>1, <1>2, <1>3, <1>4, <1>5, <1>7, <1>8, <1>9, <1>10 DEF Next, SchedStep

\* Every variable keeps its type: in particular the scheduler never looks up a
\* connection with a parameter set that its snapshot does not hold
\* (modbus_polling.py:45-50).
THEOREM TypeCorrect == Spec => []TypeOK
<1>1. TypeInv => TypeOK
  BY DEF TypeInv
<1> QED BY <1>1, TypeInit, TypeStep, PTL DEF Spec

-----------------------------------------------------------------------------
(* What a step does to the connections and to the registry.                *)

\* A connection that something refers to keeps its network and its key, and
\* is_running is never reset.
ConnKept ==
  \A c \in Conns : ~Free(c) =>
    /\ conn'[c].owner = conn[c].owner
    /\ conn'[c].key = conn[c].key
    /\ conn[c].running => conn'[c].running

\* An entry of the registry stays, is removed, or gets a new connection.
RegistryMoves ==
  \A n \in Networks :
    \/ registry'[n] = registry[n]
    \/ registry'[n] = None
    \/ /\ registry'[n] \in Conns
       /\ Free(registry'[n])
       /\ conn'[registry'[n]].owner = n
       /\ ~conn'[registry'[n]].running
       /\ temp' = temp

TempMoves == \A c \in temp' : c \in temp \/ (Free(c) /\ registry' = registry)

Moves == ConnKept /\ RegistryMoves /\ TempMoves

LEMMA MovesUnchanged == UNCHANGED regVars => Moves
BY DEF regVars, Moves, ConnKept, RegistryMoves, TempMoves

LEMMA MovesAdd ==
  ASSUME TypeOK, NEW n \in Networks, NEW k \in ConnKeys, AddEditAndGet(n, k)
  PROVE  Moves
<1>1. PICK c \in Conns :
        /\ registry' = [registry EXCEPT ![n] = c]
        /\ temp' = temp
        /\ \/ Current(n, k) /\ c = registry[n] /\ conn' = conn
           \/ /\ ~Current(n, k) /\ Free(c)
              /\ conn' = [conn EXCEPT ![c] = Fresh(n, k)]
  BY AddEditAndGetEffect
<1>2. CASE Current(n, k)
  BY <1>1, <1>2 DEF Moves, ConnKept, RegistryMoves, TempMoves, TypeOK
<1>3. CASE ~Current(n, k)
  <2>1. Free(c) /\ conn' = [conn EXCEPT ![c] = Fresh(n, k)]
    BY <1>1, <1>3
  <2>2. ConnKept
    BY <2>1 DEF ConnKept, TypeOK
  <2>3. conn'[c].owner = n /\ ~conn'[c].running /\ registry'[n] = c
    BY <1>1, <2>1 DEF Fresh, TypeOK
  <2>4. RegistryMoves
    BY <1>1, <2>1, <2>3 DEF RegistryMoves, TypeOK
  <2>5. TempMoves
    BY <1>1 DEF TempMoves
  <2> QED BY <2>2, <2>4, <2>5 DEF Moves
<1> QED BY <1>2, <1>3

LEMMA MovesStep == TypeInv /\ [Next]_vars => Moves
<1> SUFFICES ASSUME TypeInv, [Next]_vars PROVE Moves
  OBVIOUS
<1> USE DEF TypeInv
<1>1. CASE SchedSnapshot
  BY <1>1, MovesUnchanged DEF SchedSnapshot
<1>2. ASSUME NEW n \in Networks, SchedNetwork(n) PROVE Moves
  <2>1. seen[n] \in ConnKeys /\ AddEditAndGet(n, seen[n])
    BY <1>2 DEF SchedNetwork, SnapshotInv, TypeOK
  <2> QED BY <2>1, MovesAdd
<1>3. CASE SchedResume
  BY <1>3, MovesUnchanged DEF SchedResume
<1>4. CASE SchedCleanup
  BY <1>4 DEF SchedCleanup, Removal, Moves, ConnKept, RegistryMoves, TempMoves
<1>5. CASE SchedDies
  BY <1>5, MovesUnchanged DEF SchedDies
<1>6. ASSUME NEW t \in Threads, ThreadStep(t) \/ ThreadDies(t) PROVE Moves
  <2>1. CASE ThreadPolls(t)
    <3>1. registry' = registry /\ temp' = temp
      BY <2>1 DEF ThreadPolls
    <3>2. ConnKept
      BY <2>1 DEF ThreadPolls, ConnKept, TypeOK, Connection
    <3> QED BY <3>1, <3>2 DEF Moves, RegistryMoves, TempMoves
  <2>2. CASE ~ThreadPolls(t)
    BY <1>6, <2>2, MovesUnchanged
       DEF ThreadStep, ThreadNoConnection, ThreadNotFound, ThreadRoundDone,
           ThreadRoundGone, ThreadDies, ThreadEnds
  <2> QED BY <2>1, <2>2
<1>7. ASSUME NEW r \in Requests, PollRequest(r) \/ RequestEnd(r) PROVE Moves
  <2>1. ASSUME NEW n \in Networks, ManualPoll(r, n) PROVE Moves
    BY <2>1, MovesAdd DEF ManualPoll, TypeOK
  <2>2. CASE TempPoll(r)
    <3>1. NewConn \in Conns /\ Free(NewConn)
      BY <2>2, NewConnFree DEF TempPoll
    <3>2. /\ registry' = registry
          /\ temp' = temp \cup {NewConn}
          /\ conn' = [conn EXCEPT ![NewConn] = Fresh(None, AnyKey)]
      BY <2>2 DEF TempPoll
    <3>3. ConnKept
      BY <3>1, <3>2 DEF ConnKept, TypeOK
    <3>4. TempMoves
      BY <3>1, <3>2 DEF TempMoves
    <3> QED BY <3>2, <3>3, <3>4 DEF Moves, RegistryMoves
  <2>3. CASE RequestEnd(r)
    BY <2>3, MovesUnchanged DEF RequestEnd
  <2> QED BY <1>7, <2>1, <2>2, <2>3 DEF PollRequest
<1>8. ASSUME NEW n \in Networks, NetworkRequest(n) PROVE Moves
  BY <1>8, MovesUnchanged
     DEF NetworkRequest, CreateNetwork, EnableNetwork, DisableNetwork,
         EditNetwork, DeleteNetwork
<1>9. CASE UNCHANGED vars
  BY <1>9, MovesUnchanged DEF vars
<1> QED BY <1>1, <1>2, <1>3, <1>4, <1>5, <1>6, <1>7, <1>8, <1>9 DEF Next, SchedStep

-----------------------------------------------------------------------------
(* One greenlet per connection.                                            *)

\* A registered connection belongs to the network it is registered under.
OwnerInv ==
  \A n \in Networks : registry[n] # None =>
    conn[registry[n]].owner = n /\ registry[n] \notin temp

\* A greenlet was started for, and polls with, connections of its network.
ThreadInv ==
  \A t \in Threads :
    /\ Live(t) => born[t] \in Conns /\ conn[born[t]].owner = net[t]
    /\ pc[t] = "polling" => client[t] \in Conns /\ conn[client[t]].owner = net[t]

\* The scheduler waits for the one greenlet it has started.
HandoverInv ==
  /\ \A t \in Threads : pc[t] = "starting" => sched = "handover"
  /\ \A t, u \in Threads : pc[t] = "starting" /\ pc[u] = "starting" => t = u

\* Once a greenlet is past its start, the connection it was started for is
\* marked as running or is no longer the registered one.
FlagInv ==
  \A t \in Threads :
    pc[t] \in {"polling", "asleep"} /\ registry[net[t]] = born[t] =>
      conn[born[t]].running

ConnInv ==
  TypeInv /\ OwnerInv /\ ThreadInv /\ HandoverInv /\ FlagInv /\ OneThreadPerConnection

LEMMA ConnInit == Init => ConnInv
<1> SUFFICES ASSUME Init PROVE ConnInv
  OBVIOUS
<1>1. \A t \in Threads : pc[t] = "idle"
  BY DEF Init
<1>2. OwnerInv
  <2> SUFFICES ASSUME NEW n \in Networks, registry[n] # None
               PROVE  conn[registry[n]].owner = n /\ registry[n] \notin temp
    BY DEF OwnerInv
  <2>1. registry[n] \in Conns /\ temp = {}
    BY DEF Init
  <2>2. (CHOOSE m \in Networks : registry[m] = registry[n]) = n
    BY DEF Init
  <2>3. conn[registry[n]].owner = n
    BY <2>1, <2>2 DEF Init, InitConn, Fresh
  <2> QED BY <2>1, <2>3
<1> QED BY <1>1, <1>2, TypeInit
        DEF ConnInv, ThreadInv, HandoverInv, FlagInv, OneThreadPerConnection, Live

LEMMA OwnerStep == ConnInv /\ [Next]_vars => OwnerInv'
<1> SUFFICES ASSUME ConnInv, [Next]_vars,
                    NEW n \in Networks, registry'[n] # None
             PROVE  conn'[registry'[n]].owner = n /\ registry'[n] \notin temp'
  BY DEF OwnerInv
<1>1. Moves
  BY MovesStep DEF ConnInv
<1>2. CASE registry'[n] = registry[n]
  <2>1. registry[n] \in Conns /\ ~Free(registry[n])
    BY <1>2 DEF ConnInv, TypeInv, TypeOK, Free
  <2> QED BY <1>1, <1>2, <2>1 DEF ConnInv, OwnerInv, Moves, ConnKept, TempMoves
<1>3. CASE registry'[n] # registry[n]
  <2>1. /\ Free(registry'[n])
        /\ conn'[registry'[n]].owner = n
        /\ temp' = temp
    BY <1>1, <1>3 DEF Moves, RegistryMoves
  <2> QED BY <2>1 DEF Free
<1> QED BY <1>2, <1>3

\* A greenlet that a step leaves alone keeps what it has been promised.
LEMMA ThreadKept ==
  ASSUME ConnInv, Moves, NEW t \in Threads,
         pc'[t] = pc[t], net'[t] = net[t], client'[t] = client[t], born'[t] = born[t]
  PROVE  /\ Live(t)' => born'[t] \in Conns /\ conn'[born'[t]].owner = net'[t]
         /\ pc'[t] = "polling" => client'[t] \in Conns /\ conn'[client'[t]].owner = net'[t]
         /\ pc'[t] \in {"polling", "asleep"} /\ registry'[net'[t]] = born'[t] =>
              conn'[born'[t]].running
<1>1. Live(t) => born[t] \in Conns /\ ~Free(born[t]) /\ net[t] \in Networks
  BY DEF ConnInv, ThreadInv, TypeInv, TypeOK, NetInv, Free
<1>2. pc[t] = "polling" => client[t] \in Conns /\ ~Free(client[t])
  BY DEF ConnInv, ThreadInv, Free
<1>3. Live(t) /\ registry'[net[t]] = born[t] => registry[net[t]] = born[t]
  BY <1>1, SetsAssumption DEF Moves, RegistryMoves
<1> QED BY <1>1, <1>2, <1>3 DEF ConnInv, ThreadInv, FlagInv, Live, Moves, ConnKept

ThreadsInv == ThreadInv /\ HandoverInv /\ FlagInv /\ OneThreadPerConnection

\* A step that moves no greenlet, and the scheduler only while none starts.
LEMMA ThreadsIdle ==
  ASSUME ConnInv, Moves, UNCHANGED thrVars,
         sched' = sched \/ \A t \in Threads : pc[t] # "starting"
  PROVE  ThreadsInv'
<1>1. pc' = pc /\ net' = net /\ client' = client /\ born' = born
  BY DEF thrVars
<1>2. ThreadInv' /\ FlagInv'
  BY <1>1, ThreadKept DEF ThreadInv, FlagInv
<1>3. HandoverInv' /\ OneThreadPerConnection'
  BY <1>1 DEF ConnInv, HandoverInv, OneThreadPerConnection, Live
<1> QED BY <1>2, <1>3 DEF ThreadsInv

LEMMA ThreadsEnd ==
  ASSUME ConnInv, Moves, NEW t \in Threads, ThreadEnds(t)
  PROVE  ThreadsInv'
<1>1. /\ pc' = [pc EXCEPT ![t] = "idle"]
      /\ net' = [net EXCEPT ![t] = None]
      /\ client' = [client EXCEPT ![t] = None]
      /\ born' = [born EXCEPT ![t] = None]
      /\ sched' = sched
  BY DEF ThreadEnds, schedVars
<1>2. pc'[t] = "idle"
  BY <1>1 DEF ConnInv, TypeInv, TypeOK
<1>3. \A u \in Threads : u # t =>
        pc'[u] = pc[u] /\ net'[u] = net[u] /\ client'[u] = client[u] /\ born'[u] = born[u]
  BY <1>1 DEF ConnInv, TypeInv, TypeOK
<1>4. ThreadInv' /\ FlagInv'
  BY <1>2, <1>3, ThreadKept DEF ThreadInv, FlagInv, Live
<1>5. HandoverInv' /\ OneThreadPerConnection'
  BY <1>1, <1>2, <1>3 DEF ConnInv, HandoverInv, OneThreadPerConnection, Live
<1> QED BY <1>4, <1>5 DEF ThreadsInv

\* The start of a greenlet for n, with the connection just got.
LEMMA ThreadsStart ==
  ASSUME ConnInv, Moves, NEW n \in Networks, SchedNetwork(n), ThreadNeeded(n)
  PROVE  ThreadsInv'
<1> DEFINE t == NewThread
           c == registry'[n]
<1>1. t \in Threads /\ pc[t] = "idle"
  BY NewThreadIdle DEF SchedNetwork
<1> HIDE DEF t
<1>2. /\ pc' = [pc EXCEPT ![t] = "starting"]
      /\ net' = [net EXCEPT ![t] = n]
      /\ born' = [born EXCEPT ![t] = c]
      /\ client' = client
      /\ sched = "round" /\ sched' = "handover"
      /\ ~conn'[c].running
  BY DEF SchedNetwork, ThreadNeeded, t
<1>3. seen[n] \in ConnKeys /\ AddEditAndGet(n, seen[n])
  BY DEF SchedNetwork, ConnInv, TypeInv, TypeOK, SnapshotInv
<1>4. PICK d \in Conns :
        /\ registry' = [registry EXCEPT ![n] = d]
        /\ temp' = temp
        /\ \/ Current(n, seen[n]) /\ d = registry[n] /\ conn' = conn
           \/ /\ ~Current(n, seen[n]) /\ Free(d)
              /\ conn' = [conn EXCEPT ![d] = Fresh(n, seen[n])]
  BY <1>3, AddEditAndGetEffect DEF ConnInv, TypeInv
<1>5. c = d /\ c \in Conns
  BY <1>4 DEF ConnInv, TypeInv, TypeOK
<1>6. conn'[c].owner = n
  BY <1>4, <1>5 DEF ConnInv, OwnerInv, Fresh, Current, TypeInv, TypeOK
<1>7. pc'[t] = "starting" /\ net'[t] = n /\ born'[t] = c
  BY <1>1, <1>2 DEF ConnInv, TypeInv, TypeOK
<1>8. \A u \in Threads : u # t =>
        pc'[u] = pc[u] /\ net'[u] = net[u] /\ client'[u] = client[u] /\ born'[u] = born[u]
  BY <1>2 DEF ConnInv, TypeInv, TypeOK
<1>9. \A u \in Threads : pc[u] # "starting"
  BY <1>2 DEF ConnInv, HandoverInv
<1>10. ThreadInv' /\ FlagInv'
  BY <1>5, <1>6, <1>7, <1>8, ThreadKept DEF ThreadInv, FlagInv, Live
<1>11. HandoverInv'
  BY <1>2, <1>7, <1>8, <1>9 DEF HandoverInv
<1>12. \A u \in Threads : Live(u) => born[u] # c
  <2> SUFFICES ASSUME NEW u \in Threads, Live(u), born[u] = c PROVE FALSE
    OBVIOUS
  <2>1. CASE Current(n, seen[n])
    <3>1. c = registry[n] /\ conn' = conn
      BY <1>4, <1>5, <2>1 DEF Free, Current
    <3>2. net[u] = n
      BY <3>1, <1>6 DEF ConnInv, ThreadInv
    <3>3. pc[u] \in {"polling", "asleep"}
      BY <1>9 DEF Live, ConnInv, TypeInv, TypeOK, ThreadPc
    <3> QED BY <1>2, <3>1, <3>2, <3>3 DEF ConnInv, FlagInv
  <2>2. CASE ~Current(n, seen[n])
    BY <1>4, <1>5, <2>2 DEF Free
  <2> QED BY <2>1, <2>2
<1>13. OneThreadPerConnection'
  BY <1>7, <1>8, <1>12 DEF ConnInv, OneThreadPerConnection, Live
<1> QED BY <1>10, <1>11, <1>13 DEF ThreadsInv

LEMMA ThreadsPolls ==
  ASSUME ConnInv, Moves, NEW t \in Threads, ThreadPolls(t)
  PROVE  ThreadsInv'
<1> DEFINE c == registry[net[t]]
<1>1. net[t] \in Networks /\ c \in Conns
  BY DEF ThreadPolls, AtTop, ConnInv, TypeInv, TypeOK, NetInv, Live
<1>2. /\ conn' = [conn EXCEPT ![c] = [conn[c] EXCEPT !.running = TRUE]]
      /\ client' = [client EXCEPT ![t] = c]
      /\ pc' = [pc EXCEPT ![t] = "polling"]
      /\ pc[t] # "idle"
      /\ registry' = registry /\ net' = net /\ born' = born /\ sched' = sched
  BY DEF ThreadPolls, AtTop, schedVars
<1>3. conn'[c].running /\ conn'[c].owner = net[t]
  <2>1. conn[c] \in Connection /\ conn[c].owner = net[t]
    BY <1>1, SetsAssumption DEF ConnInv, OwnerInv, TypeInv, TypeOK
  <2>2. conn'[c] = [conn[c] EXCEPT !.running = TRUE]
    BY <1>1, <1>2 DEF ConnInv, TypeInv, TypeOK
  <2> QED BY <2>1, <2>2 DEF Connection
<1> HIDE DEF c
<1>4. \A u \in Threads : u # t =>
        pc'[u] = pc[u] /\ net'[u] = net[u] /\ client'[u] = client[u] /\ born'[u] = born[u]
  BY <1>2 DEF ConnInv, TypeInv, TypeOK
<1>5. pc'[t] = "polling" /\ client'[t] = c /\ net'[t] = net[t] /\ born'[t] = born[t]
  BY <1>2 DEF ConnInv, TypeInv, TypeOK
<1>6. Live(t) /\ ~Free(born[t]) /\ born[t] \in Conns /\ conn[born[t]].owner = net[t]
  <2>1. born[t] \in Conns /\ conn[born[t]].owner = net[t]
    BY <1>2 DEF Live, ConnInv, ThreadInv
  <2> QED BY <1>2, <2>1 DEF Live, Free
<1>7. conn'[born[t]].owner = net[t]
  BY <1>6 DEF Moves, ConnKept
<1>8. ThreadInv'
  BY <1>1, <1>3, <1>4, <1>5, <1>6, <1>7, ThreadKept DEF ThreadInv
<1>9. FlagInv'
  <2>1. registry'[net'[t]] = born'[t] => conn'[born'[t]].running
    BY <1>2, <1>3, <1>5 DEF c
  <2> QED BY <1>4, <2>1, ThreadKept DEF FlagInv
<1>10. HandoverInv' /\ OneThreadPerConnection'
  BY <1>2, <1>4, <1>5 DEF ConnInv, HandoverInv, OneThreadPerConnection, Live
<1> QED BY <1>8, <1>9, <1>10 DEF ThreadsInv

LEMMA ThreadsRoundDone ==
  ASSUME ConnInv, Moves, NEW t \in Threads, ThreadRoundDone(t)
  PROVE  ThreadsInv'
<1>1. /\ pc[t] = "polling"
      /\ pc' = [pc EXCEPT ![t] = "asleep"]
      /\ client' = [client EXCEPT ![t] = None]
      /\ registry' = registry /\ conn' = conn /\ net' = net /\ born' = born
      /\ sched' = sched
  BY DEF ThreadRoundDone, regVars, schedVars
<1>2. \A u \in Threads : u # t => pc'[u] = pc[u] /\ client'[u] = client[u]
  BY <1>1 DEF ConnInv, TypeInv, TypeOK
<1>3. pc'[t] = "asleep" /\ Live(t)
  BY <1>1 DEF Live, ConnInv, TypeInv, TypeOK
<1>4. ThreadInv' /\ FlagInv'
  BY <1>1, <1>2, <1>3 DEF ConnInv, ThreadInv, FlagInv, Live
<1>5. HandoverInv' /\ OneThreadPerConnection'
  BY <1>1, <1>2, <1>3 DEF ConnInv, HandoverInv, OneThreadPerConnection, Live
<1> QED BY <1>4, <1>5 DEF ThreadsInv

LEMMA ThreadsStep == ConnInv /\ [Next]_vars => ThreadsInv'
<1> SUFFICES ASSUME ConnInv, [Next]_vars PROVE ThreadsInv'
  OBVIOUS
<1>0. Moves
  BY MovesStep DEF ConnInv
<1>1. (\A t \in Threads : pc[t] # "starting") \/ sched = "handover"
  BY DEF ConnInv, HandoverInv
<1>2. CASE SchedSnapshot \/ SchedResume \/ SchedCleanup \/ SchedDies
  BY <1>0, <1>1, <1>2, ThreadsIdle
     DEF SchedSnapshot, SchedResume, SchedCleanup, Removal, SchedDies
<1>3. ASSUME NEW n \in Networks, SchedNetwork(n) PROVE ThreadsInv'
  <2>1. CASE ThreadNeeded(n)
    BY <1>0, <1>3, <2>1, ThreadsStart
  <2>2. CASE ~ThreadNeeded(n)
    <3>1. UNCHANGED <<sched, thrVars>>
      BY <1>3, <2>2 DEF SchedNetwork
    <3> QED BY <1>0, <3>1, ThreadsIdle
  <2> QED BY <2>1, <2>2
<1>4. ASSUME NEW t \in Threads, ThreadStep(t) \/ ThreadDies(t) PROVE ThreadsInv'
  BY <1>0, <1>4, ThreadsPolls, ThreadsRoundDone, ThreadsEnd
     DEF ThreadStep, ThreadNoConnection, ThreadNotFound, ThreadRoundGone, ThreadDies
<1>5. ASSUME NEW r \in Requests, PollRequest(r) \/ RequestEnd(r) PROVE ThreadsInv'
  <2>1. UNCHANGED <<schedVars, thrVars>>
    BY <1>5 DEF PollRequest, ManualPoll, TempPoll, RequestEnd
  <2> QED BY <1>0, <2>1, ThreadsIdle DEF schedVars
<1>6. ASSUME NEW n \in Networks, NetworkRequest(n) PROVE ThreadsInv'
  <2>1. UNCHANGED <<schedVars, thrVars>>
    BY <1>6 DEF NetworkRequest, CreateNetwork, EnableNetwork, DisableNetwork,
                EditNetwork, DeleteNetwork
  <2> QED BY <1>0, <2>1, ThreadsIdle DEF schedVars
<1>7. CASE UNCHANGED vars
  BY <1>0, <1>7, ThreadsIdle DEF vars, schedVars
<1> QED BY <1>2, <1>3, <1>4, <1>5, <1>6, <1>7 DEF Next, SchedStep

LEMMA ConnStep == ConnInv /\ [Next]_vars => ConnInv'
BY TypeStep, OwnerStep, ThreadsStep DEF ConnInv, ThreadsInv

\* Two greenlets are never started for one connection object: is_running, set
\* by the new greenlet before its first wait, is enough for the scheduler's
\* test (modbus_polling.py:60, :87).
THEOREM OneThread == Spec => []OneThreadPerConnection
<1>1. ConnInv => OneThreadPerConnection
  BY DEF ConnInv
<1> QED BY <1>1, ConnInit, ConnStep, PTL DEF Spec

\* A greenlet polls with a client of its own network (modbus_registry.py:52-65).
THEOREM OwnClient == Spec => []OwnNetworkClient
<1>1. ConnInv => OwnNetworkClient
  BY DEF ConnInv, ThreadInv, OwnNetworkClient
<1> QED BY <1>1, ConnInit, ConnStep, PTL DEF Spec

-----------------------------------------------------------------------------
(* Deleted networks.                                                       *)

\* A connection got for another network is none of n's.
LEMMA OthersGet ==
  ASSUME TypeOK, NEW m \in Networks, NEW k \in ConnKeys, AddEditAndGet(m, k),
         NEW n \in Networks, m # n, Released(n), NEW c \in Conns, conn'[c].owner = n
  PROVE  /\ Free(c) /\ temp' = temp /\ registry'[m] # c
         /\ \A x \in Networks : registry'[x] # c
<1>1. PICK d \in Conns :
        /\ registry' = [registry EXCEPT ![m] = d]
        /\ temp' = temp
        /\ \/ Current(m, k) /\ d = registry[m] /\ conn' = conn
           \/ /\ ~Current(m, k) /\ Free(d)
              /\ conn' = [conn EXCEPT ![d] = Fresh(m, k)]
  BY AddEditAndGetEffect
<1>2. CASE Current(m, k) /\ d = registry[m] /\ conn' = conn
  <2>1. Free(c)
    BY <1>2 DEF Released
  <2> QED BY <1>1, <1>2, <2>1 DEF Free, TypeOK
<1>3. CASE Free(d) /\ conn' = [conn EXCEPT ![d] = Fresh(m, k)]
  <2>1. c # d
    BY <1>3 DEF Fresh, TypeOK
  <2>2. Free(c)
    BY <1>3, <2>1 DEF Released, TypeOK
  <2> QED BY <1>1, <2>1, <2>2 DEF Free, TypeOK
<1> QED BY <1>1, <1>2, <1>3

LEMMA ReleasedKept ==
  ASSUME ConnInv, [Next]_vars, NEW n \in Networks,
         status[n] = "deleted", n \notin todo, Released(n)
  PROVE  Released(n)'
<1> USE DEF ConnInv, TypeInv
<1> SUFFICES ASSUME NEW c \in Conns, conn'[c].owner = n PROVE Free(c)'
  BY DEF Released
<1>1. CASE UNCHANGED <<regVars, thrVars, reqConn>>
  <2>1. Free(c)
    BY <1>1 DEF Released, regVars
  <2> QED BY <1>1, <2>1 DEF Free, regVars, thrVars
<1>2. ASSUME NEW m \in Networks, SchedNetwork(m) PROVE Free(c)'
  <2>1. m # n /\ seen[m] \in ConnKeys /\ AddEditAndGet(m, seen[m])
    BY <1>2 DEF SchedNetwork, SnapshotInv, TypeOK
  <2>2. Free(c) /\ temp' = temp /\ registry'[m] # c /\ \A x \in Networks : registry'[x] # c
    BY <2>1, OthersGet
  <2>3. /\ client' = client /\ reqConn' = reqConn
        /\ \A t \in Threads : born'[t] = born[t] \/ born'[t] = registry'[m]
    BY <1>2 DEF SchedNetwork, thrVars, TypeOK
  <2> QED BY <2>2, <2>3 DEF Free
<1>3. CASE SchedCleanup
  <2>1. Free(c)
    BY <1>3 DEF SchedCleanup, Removal, Released
  <2>2. /\ UNCHANGED <<thrVars, reqConn>> /\ temp' = {}
        /\ \A x \in Networks : registry'[x] \in {registry[x], None}
    BY <1>3 DEF SchedCleanup, Removal
  <2> QED BY <2>1, <2>2, SetsAssumption DEF Free, thrVars
<1>4. ASSUME NEW t \in Threads, ThreadPolls(t) PROVE Free(c)'
  <2> DEFINE d == registry[net[t]]
  <2>1. net[t] \in Networks /\ d \in Conns /\ conn[d].owner = net[t]
    BY <1>4 DEF ThreadPolls, AtTop, TypeOK, NetInv, Live, OwnerInv
  <2>2. conn' = [conn EXCEPT ![d] = [conn[d] EXCEPT !.running = TRUE]]
    BY <1>4 DEF ThreadPolls
  <2>3. conn'[c].owner = conn[c].owner
    BY <2>1, <2>2 DEF TypeOK, Connection
  <2>4. Free(c) /\ d # c
    <3>1. Free(c)
      BY <2>3 DEF Released
    <3> QED BY <2>1, <3>1 DEF Free
  <2>5. /\ UNCHANGED <<registry, temp, born, reqConn>>
        /\ \A u \in Threads : client'[u] \in {client[u], d}
    BY <1>4 DEF ThreadPolls, TypeOK
  <2> QED BY <2>4, <2>5 DEF Free
<1>5. ASSUME NEW t \in Threads, ThreadEnds(t) \/ ThreadRoundDone(t) PROVE Free(c)'
  <2>1. Free(c)
    BY <1>5 DEF ThreadEnds, ThreadRoundDone, Released, regVars
  <2>2. /\ UNCHANGED <<regVars, reqConn>>
        /\ \A u \in Threads : client'[u] \in {client[u], None} /\ born'[u] \in {born[u], None}
    BY <1>5 DEF ThreadEnds, ThreadRoundDone, TypeOK
  <2> QED BY <2>1, <2>2, SetsAssumption DEF Free, regVars
<1>6. ASSUME NEW r \in Requests, NEW m \in Networks, ManualPoll(r, m) PROVE Free(c)'
  <2>1. m # n /\ params[m] \in ConnKeys /\ AddEditAndGet(m, params[m])
    BY <1>6 DEF ManualPoll, Exists, TypeOK
  <2>2. Free(c) /\ temp' = temp /\ registry'[m] # c /\ \A x \in Networks : registry'[x] # c
    BY <2>1, OthersGet
  <2>3. UNCHANGED thrVars /\ \A q \in Requests : reqConn'[q] \in {reqConn[q], registry'[m]}
    BY <1>6 DEF ManualPoll, TypeOK
  <2> QED BY <2>2, <2>3 DEF Free, thrVars
<1>7. ASSUME NEW r \in Requests, TempPoll(r) PROVE Free(c)'
  <2>1. NewConn \in Conns
    BY <1>7, NewConnFree DEF TempPoll
  <2>2. conn' = [conn EXCEPT ![NewConn] = Fresh(None, AnyKey)]
    BY <1>7 DEF TempPoll
  <2>3. c # NewConn
    BY <2>1, <2>2, SetsAssumption DEF Fresh, TypeOK
  <2>4. Free(c)
    BY <2>2, <2>3 DEF Released, TypeOK
  <2>5. /\ UNCHANGED <<registry, thrVars>> /\ temp' = temp \cup {NewConn}
        /\ \A q \in Requests : reqConn'[q] \in {reqConn[q], NewConn}
    BY <1>7 DEF TempPoll, TypeOK
  <2> QED BY <2>3, <2>4, <2>5 DEF Free, thrVars
<1>8. ASSUME NEW r \in Requests, RequestEnd(r) PROVE Free(c)'
  <2>1. Free(c)
    BY <1>8 DEF RequestEnd, Released, regVars
  <2>2. /\ UNCHANGED <<regVars, thrVars>>
        /\ \A q \in Requests : reqConn'[q] \in {reqConn[q], None}
    BY <1>8 DEF RequestEnd, TypeOK
  <2> QED BY <2>1, <2>2, SetsAssumption DEF Free, regVars, thrVars
<1>9. CASE SchedSnapshot \/ SchedResume \/ SchedDies \/ UNCHANGED vars
  BY <1>1, <1>9 DEF SchedSnapshot, SchedResume, SchedDies, vars
<1>10. ASSUME NEW m \in Networks, NetworkRequest(m) PROVE Free(c)'
  BY <1>1, <1>10 DEF NetworkRequest, CreateNetwork, EnableNetwork, DisableNetwork,
                     EditNetwork, DeleteNetwork
<1>11. ASSUME NEW t \in Threads, ThreadStep(t) \/ ThreadDies(t) PROVE Free(c)'
  BY <1>4, <1>5, <1>11 DEF ThreadStep, ThreadNoConnection, ThreadNotFound,
                           ThreadRoundGone, ThreadDies
<1> QED BY <1>2, <1>3, <1>6, <1>7, <1>8, <1>9, <1>10, <1>11 DEF Next, SchedStep, PollRequest

\* Nothing opens a connection of a deleted network again once the last one is
\* dropped and no snapshot holds it (modbus_polling.py:42-50, :70-78, :210-217).
THEOREM StaysReleased == Spec => DeletedStaysReleased
<1>1. ConnInv /\ [Next]_vars =>
        [\A n \in Networks :
           status[n] = "deleted" /\ n \notin todo /\ Released(n) => Released(n)']_vars
  BY ReleasedKept
<1> QED BY <1>1, ConnInit, ConnStep, PTL DEF Spec, DeletedStaysReleased

-----------------------------------------------------------------------------
(* Networks that were never disabled or edited.                            *)

Lasting == {"enabled", "deleted"}

\* The snapshot of an undisturbed network is not outdated.
FreshSnapshotInv ==
  \A n \in Networks \ disturbed :
    seen[n] # None => seen[n] = params[n] /\ status[n] \in Lasting

\* A greenlet of an undisturbed network polls with the connection it was
\* started for, which stays registered until the network is deleted; the
\* scheduler's snapshot has the network.
Settled(t, n) ==
  /\ status[n] \in Lasting
  /\ \/ registry[n] = born[t] /\ conn[born[t]].key = params[n]
     \/ registry[n] = None /\ status[n] = "deleted" /\ n \notin todo
  /\ sched \in {"round", "handover"} /\ status[n] = "enabled" => seen[n] # None

SettledInv ==
  \A t \in Threads : Live(t) /\ net[t] \notin disturbed => Settled(t, net[t])

UndisturbedInv ==
  ConnInv /\ FreshSnapshotInv /\ SettledInv /\ UndisturbedOneThread

\* Rows of undisturbed networks only come into being, get enabled, or go.
RowMoves ==
  /\ disturbed \subseteq disturbed'
  /\ \A n \in Networks \ disturbed' :
       /\ status'[n] # status[n] =>
            \/ status[n] = "absent"
            \/ status[n] = "disabled"
            \/ status'[n] = "deleted"
       /\ status[n] = "deleted" => status'[n] = "deleted"
       /\ status[n] # "absent" => params'[n] = params[n]

LEMMA RowStep == TypeOK /\ [Next]_vars => RowMoves
<1> SUFFICES ASSUME TypeOK, [Next]_vars PROVE RowMoves
  OBVIOUS
<1>1. CASE UNCHANGED rowVars
  BY <1>1 DEF rowVars, RowMoves
<1>2. ASSUME NEW n \in Networks, NetworkRequest(n) PROVE RowMoves
  <2>1. ASSUME NEW k \in ConnKeys, NEW s, CreateNetwork(n, k, s) PROVE RowMoves
    BY <2>1 DEF CreateNetwork, RowMoves, TypeOK
  <2>2. CASE EnableNetwork(n)
    BY <2>2 DEF EnableNetwork, RowMoves, TypeOK
  <2>3. CASE DisableNetwork(n)
    BY <2>3 DEF DisableNetwork, RowMoves, TypeOK
  <2>4. ASSUME NEW k \in ConnKeys, EditNetwork(n, k) PROVE RowMoves
    BY <2>4 DEF EditNetwork, RowMoves, TypeOK
  <2>5. CASE DeleteNetwork(n)
    BY <2>5 DEF DeleteNetwork, RowMoves, TypeOK, Exists
  <2> QED BY <1>2, <2>1, <2>2, <2>3, <2>4, <2>5 DEF NetworkRequest
<1> QED
  BY <1>1, <1>2
     DEF Next, SchedStep, SchedSnapshot, SchedNetwork, SchedResume, SchedCleanup,
         Removal, SchedDies, ThreadStep, ThreadPolls, ThreadNoConnection,
         ThreadNotFound, ThreadRoundDone, ThreadRoundGone, ThreadDies, ThreadEnds,
         PollRequest, ManualPoll, TempPoll, RequestEnd, vars

LEMMA UndisturbedInit == Init => UndisturbedInv
BY ConnInit DEF Init, UndisturbedInv, FreshSnapshotInv, SettledInv,
                UndisturbedOneThread, Live

LEMMA FreshSnapshotStep == UndisturbedInv /\ [Next]_vars => FreshSnapshotInv'
<1> SUFFICES ASSUME UndisturbedInv, [Next]_vars PROVE FreshSnapshotInv'
  OBVIOUS
<1> USE DEF UndisturbedInv, ConnInv, TypeInv
<1>1. RowMoves
  BY RowStep
<1>2. CASE SchedSnapshot
  BY <1>2 DEF SchedSnapshot, FreshSnapshotInv, Lasting, rowVars, TypeOK
<1>3. CASE UNCHANGED seen
  BY <1>1, <1>3 DEF FreshSnapshotInv, RowMoves, Lasting
<1>4. CASE SchedCleanup
  BY <1>4 DEF SchedCleanup, Removal, FreshSnapshotInv
<1> QED
  BY <1>2, <1>3, <1>4
     DEF Next, SchedStep, SchedNetwork, SchedResume, SchedDies, ThreadStep,
         ThreadPolls, ThreadNoConnection, ThreadNotFound, ThreadRoundDone,
         ThreadRoundGone, ThreadDies, ThreadEnds, PollRequest, ManualPoll, TempPoll,
         RequestEnd, NetworkRequest, CreateNetwork, EnableNetwork, DisableNetwork,
         EditNetwork, DeleteNetwork, vars, schedVars

\* The connection of a greenlet's undisturbed network stays registered, unless
\* the network is deleted and the clean-up finds it gone from the snapshot.
LEMMA ConnectionStays ==
  ASSUME UndisturbedInv, [Next]_vars,
         NEW t \in Threads, Live(t), net[t] \notin disturbed
  PROVE  \/ registry'[net[t]] = registry[net[t]]
         \/ /\ registry'[net[t]] = None /\ status[net[t]] = "deleted"
            /\ todo' = {} /\ status' = status
<1> DEFINE n == net[t]
<1> USE DEF UndisturbedInv, ConnInv, TypeInv
<1>1. n \in Networks \ disturbed /\ Settled(t, n)
  BY DEF TypeOK, NetInv, SettledInv
<1>2. ASSUME NEW m \in Networks, NEW k \in ConnKeys, AddEditAndGet(m, k),
             m = n => k = params[n] /\ registry[n] = born[t]
      PROVE  registry'[n] = registry[n]
  <2>1. PICK c \in Conns :
          /\ registry' = [registry EXCEPT ![m] = c]
          /\ Current(m, k) => c = registry[m]
    BY <1>2, AddEditAndGetEffect
  <2>2. CASE m = n
    <3>1. born[t] \in Conns /\ conn[born[t]].key = params[n]
      <4>1. born[t] \in Conns
        BY DEF ThreadInv
      <4> QED BY <1>1, <1>2, <2>2, <4>1, SetsAssumption DEF Settled
    <3>2. Current(m, k)
      BY <1>2, <2>2, <3>1, SetsAssumption DEF Current
    <3> QED BY <1>1, <2>1, <2>2, <3>2 DEF TypeOK
  <2>3. CASE m # n
    BY <1>1, <2>1, <2>3 DEF TypeOK
  <2> QED BY <2>2, <2>3
<1>3. ASSUME NEW m \in Networks, SchedNetwork(m) PROVE registry'[n] = registry[n]
  <2>1. m \in todo /\ seen[m] \in ConnKeys /\ AddEditAndGet(m, seen[m])
    BY <1>3 DEF SchedNetwork, TypeOK, SnapshotInv
  <2>2. m = n => seen[m] = params[n] /\ registry[n] = born[t]
    BY <1>1, <2>1 DEF FreshSnapshotInv, Settled, SnapshotInv
  <2> QED BY <1>2, <2>1, <2>2
<1>4. CASE SchedCleanup
  <2>1. /\ sched = "round" /\ todo = {} /\ todo' = {} /\ status' = status
        /\ registry' = [m \in Networks |-> IF seen[m] # None THEN registry[m] ELSE None]
    BY <1>4 DEF SchedCleanup, Removal, rowVars
  <2> QED BY <1>1, <2>1 DEF Settled, Lasting
<1>5. ASSUME NEW r \in Requests, NEW m \in Networks, ManualPoll(r, m)
      PROVE  registry'[n] = registry[n]
  <2>1. params[m] \in ConnKeys /\ AddEditAndGet(m, params[m]) /\ Exists(m)
    BY <1>5 DEF ManualPoll, TypeOK
  <2>2. m = n => registry[n] = born[t]
    BY <1>1, <2>1 DEF Settled, Exists
  <2> QED BY <1>2, <2>1, <2>2
<1>6. CASE UNCHANGED registry
  BY <1>6
<1> QED
  BY <1>3, <1>4, <1>5, <1>6
     DEF Next, SchedStep, SchedSnapshot, SchedResume, SchedDies, ThreadStep,
         ThreadPolls, ThreadNoConnection, ThreadNotFound, ThreadRoundDone,
         ThreadRoundGone, ThreadDies, ThreadEnds, PollRequest, TempPoll,
         RequestEnd, NetworkRequest, CreateNetwork, EnableNetwork, DisableNetwork,
         EditNetwork, DeleteNetwork, vars, regVars

\* A greenlet that is live after a step was so before, or was just started.
ThreadMoves ==
  \A t \in Threads : Live(t)' =>
    \/ Live(t) /\ net'[t] = net[t] /\ born'[t] = born[t]
    \/ \E n \in Networks :
         /\ SchedNetwork(n) /\ ThreadNeeded(n)
         /\ t = NewThread /\ net'[t] = n /\ born'[t] = registry'[n]

LEMMA ThreadMovesStep == TypeInv /\ [Next]_vars => ThreadMoves
<1> SUFFICES ASSUME TypeInv, [Next]_vars PROVE ThreadMoves
  OBVIOUS
<1> USE DEF TypeInv, TypeOK, Live
<1>1. CASE UNCHANGED thrVars
  BY <1>1 DEF thrVars, ThreadMoves
<1>2. ASSUME NEW n \in Networks, SchedNetwork(n) PROVE ThreadMoves
  <2>1. CASE ThreadNeeded(n)
    BY <1>2, <2>1, NewThreadIdle DEF SchedNetwork, ThreadMoves
  <2>2. CASE ~ThreadNeeded(n)
    BY <1>2, <2>2, <1>1 DEF SchedNetwork
  <2> QED BY <2>1, <2>2
<1>3. ASSUME NEW t \in Threads, ThreadStep(t) \/ ThreadDies(t) PROVE ThreadMoves
  <2>1. CASE ThreadPolls(t)
    BY <2>1 DEF ThreadPolls, AtTop, ThreadMoves
  <2>2. CASE ThreadRoundDone(t)
    BY <2>2 DEF ThreadRoundDone, ThreadMoves
  <2>3. CASE ThreadEnds(t)
    BY <2>3 DEF ThreadEnds, ThreadMoves
  <2> QED BY <1>3, <2>1, <2>2, <2>3
          DEF ThreadStep, ThreadNoConnection, ThreadNotFound, ThreadRoundGone, ThreadDies
<1> QED
  BY <1>1, <1>2, <1>3
     DEF Next, SchedStep, SchedSnapshot, SchedResume, SchedCleanup, Removal,
         SchedDies, PollRequest, ManualPoll, TempPoll, RequestEnd, NetworkRequest,
         CreateNetwork, EnableNetwork, DisableNetwork, EditNetwork, DeleteNetwork,
         vars

\* The scheduler takes a snapshot, works it off, or forgets it.
SchedMoves ==
  \/ /\ sched' \in {"round", "handover"} => sched \in {"round", "handover"}
     /\ seen' = seen /\ todo' \subseteq todo
  \/ SchedSnapshot
  \/ sched' = "asleep" /\ todo' = {}

LEMMA SchedMovesStep == [Next]_vars => SchedMoves
<1> SUFFICES ASSUME [Next]_vars PROVE SchedMoves
  OBVIOUS
<1>1. CASE UNCHANGED schedVars
  BY <1>1 DEF schedVars, SchedMoves
<1>2. ASSUME NEW n \in Networks, SchedNetwork(n) PROVE SchedMoves
  BY <1>2 DEF SchedNetwork, SchedMoves
<1>3. CASE SchedResume \/ SchedDies
  BY <1>3 DEF SchedResume, SchedDies, SchedMoves
<1>4. CASE SchedCleanup
  BY <1>4 DEF SchedCleanup, Removal, SchedMoves
<1>5. CASE SchedSnapshot
  BY <1>5 DEF SchedMoves
<1> QED
  BY <1>1, <1>2, <1>3, <1>4, <1>5
     DEF Next, SchedStep, ThreadStep, ThreadPolls, ThreadNoConnection,
         ThreadNotFound, ThreadRoundDone, ThreadRoundGone, ThreadDies, ThreadEnds,
         PollRequest, ManualPoll, TempPoll, RequestEnd, NetworkRequest,
         CreateNetwork, EnableNetwork, DisableNetwork, EditNetwork, DeleteNetwork,
         vars

\* A greenlet just started for n: the connection has the parameters of n, and
\* no greenlet of n was there before.
LEMMA StartedSettled ==
  ASSUME UndisturbedInv, [Next]_vars, NEW n \in Networks \ disturbed,
         SchedNetwork(n), ThreadNeeded(n)
  PROVE  /\ registry'[n] \in Conns /\ conn'[registry'[n]].key = params[n]
         /\ status[n] \in Lasting /\ seen[n] # None
         /\ \A u \in Threads : Live(u) => net[u] # n
<1> USE DEF UndisturbedInv, ConnInv, TypeInv
<1>1. n \in todo /\ seen[n] \in ConnKeys /\ AddEditAndGet(n, seen[n])
  BY DEF SchedNetwork, TypeOK, SnapshotInv
<1>2. seen[n] = params[n] /\ status[n] \in Lasting /\ seen[n] # None
  BY <1>1, SetsAssumption DEF FreshSnapshotInv
<1>3. PICK c \in Conns :
        /\ registry' = [registry EXCEPT ![n] = c]
        /\ \/ Current(n, seen[n]) /\ c = registry[n] /\ conn' = conn
           \/ /\ ~Current(n, seen[n]) /\ Free(c)
              /\ conn' = [conn EXCEPT ![c] = Fresh(n, seen[n])]
  BY <1>1, AddEditAndGetEffect
<1>4. registry'[n] = c /\ conn'[c].key = seen[n]
  BY <1>3 DEF TypeOK, Current, Fresh
<1>5. \A u \in Threads : Live(u) => net[u] # n
  <2> SUFFICES ASSUME NEW u \in Threads, Live(u), net[u] = n PROVE FALSE
    OBVIOUS
  <2>1. registry[n] = born[u] /\ conn[born[u]].key = params[n]
    BY <1>1 DEF SettledInv, Settled
  <2>2. born[u] \in Conns
    BY DEF ThreadInv
  <2>3. Current(n, seen[n])
    BY <1>2, <2>1, <2>2, SetsAssumption DEF Current
  <2>4. conn' = conn /\ registry'[n] = born[u]
    BY <1>3, <1>4, <2>1, <2>3
  <2>5. pc[u] \in {"polling", "asleep"}
    BY DEF Live, TypeOK, ThreadPc, HandoverInv, SchedNetwork
  <2> QED BY <2>1, <2>4, <2>5 DEF FlagInv, ThreadNeeded
<1> QED BY <1>2, <1>3, <1>4, <1>5

LEMMA SettledStep == UndisturbedInv /\ [Next]_vars => SettledInv'
<1> SUFFICES ASSUME UndisturbedInv, [Next]_vars,
                    NEW t \in Threads, Live(t)', net'[t] \notin disturbed'
             PROVE  Settled(t, net[t])'
  BY DEF SettledInv
<1> USE DEF UndisturbedInv, ConnInv, TypeInv
<1>1. RowMoves /\ ThreadMoves /\ SchedMoves /\ Moves
  BY RowStep, ThreadMovesStep, SchedMovesStep, MovesStep
<1>2. CASE Live(t) /\ net'[t] = net[t] /\ born'[t] = born[t]
  <2> DEFINE n == net[t]
  <2>1. n \in Networks \ disturbed' /\ n \in Networks \ disturbed
    BY <1>1, <1>2 DEF RowMoves, TypeOK, NetInv
  <2>2. Settled(t, n)
    BY <1>2, <2>1 DEF SettledInv
  <2>3. /\ status'[n] \in Lasting /\ params'[n] = params[n]
        /\ status[n] = "deleted" => status'[n] = "deleted"
    BY <1>1, <2>1, <2>2 DEF RowMoves, Settled, Lasting
  <2>4. born[t] \in Conns /\ ~Free(born[t])
    BY <1>2 DEF ThreadInv, Free
  <2>5. conn'[born[t]].key = conn[born[t]].key
    BY <1>1, <2>4 DEF Moves, ConnKept
  <2>6. \/ registry'[n] = born[t] /\ conn'[born[t]].key = params'[n]
        \/ registry'[n] = None /\ status'[n] = "deleted" /\ n \notin todo'
    <3>1. CASE registry'[n] = registry[n] /\ registry[n] = born[t]
      BY <2>2, <2>3, <2>4, <2>5, <3>1, SetsAssumption DEF Settled
    <3>2. CASE registry'[n] = registry[n] /\ registry[n] # born[t]
      <4>1. registry[n] = None /\ status[n] = "deleted" /\ n \notin todo
        BY <2>2, <3>2 DEF Settled
      <4>2. n \notin todo'
        BY <1>1, <4>1 DEF SchedMoves, SchedSnapshot
      <4> QED BY <2>3, <3>2, <4>1, <4>2
    <3>3. CASE registry'[n] # registry[n]
      BY <1>2, <2>1, <2>3, <3>3, ConnectionStays
    <3> QED BY <3>1, <3>2, <3>3
  <2>7. sched' \in {"round", "handover"} /\ status'[n] = "enabled" => seen'[n] # None
    <3> SUFFICES ASSUME sched' \in {"round", "handover"}, status'[n] = "enabled"
                 PROVE  seen'[n] # None
      OBVIOUS
    <3>1. status[n] = "enabled"
      BY <2>2, <2>3 DEF Settled, Lasting
    <3>2. CASE SchedSnapshot
      BY <2>1, <3>1, <3>2, SetsAssumption DEF SchedSnapshot, TypeOK
    <3> QED BY <1>1, <2>2, <3>1, <3>2 DEF SchedMoves, Settled
  <2> QED BY <1>2, <2>3, <2>6, <2>7 DEF Settled
<1>3. ASSUME NEW n \in Networks, SchedNetwork(n), ThreadNeeded(n),
             net'[t] = n, born'[t] = registry'[n]
      PROVE  Settled(t, net[t])'
  <2>1. UNCHANGED rowVars /\ seen' = seen
    BY <1>3 DEF SchedNetwork
  <2>2. n \in Networks \ disturbed
    BY <1>3, <2>1 DEF rowVars
  <2> QED BY <1>3, <2>1, <2>2, StartedSettled DEF Settled, rowVars
<1> QED BY <1>1, <1>2, <1>3 DEF ThreadMoves

LEMMA UndisturbedOneStep == UndisturbedInv /\ [Next]_vars => UndisturbedOneThread'
<1> SUFFICES ASSUME UndisturbedInv, [Next]_vars,
                    NEW t \in Threads, NEW u \in Threads, t # u,
                    Live(t)', Live(u)', net'[t] = net'[u], net'[t] \notin disturbed'
             PROVE  FALSE
  BY DEF UndisturbedOneThread
<1> USE DEF UndisturbedInv, ConnInv, TypeInv
<1>1. RowMoves /\ ThreadMoves
  BY RowStep, ThreadMovesStep
<1>2. net'[t] \notin disturbed
  BY <1>1 DEF RowMoves
<1>3. ASSUME NEW v \in Threads, NEW w \in Threads, v # w, net'[v] = net'[w],
             net'[v] \notin disturbed, Live(w)',
             NEW n \in Networks, SchedNetwork(n), ThreadNeeded(n),
             v = NewThread, net'[v] = n
      PROVE  FALSE
  <2>1. Live(w) /\ net[w] = n
    BY <1>1, <1>3 DEF ThreadMoves
  <2> QED BY <1>3, <2>1, StartedSettled
<1> QED BY <1>1, <1>2, <1>3 DEF ThreadMoves, UndisturbedOneThread

LEMMA UndisturbedStep == UndisturbedInv /\ [Next]_vars => UndisturbedInv'
BY ConnStep, FreshSnapshotStep, SettledStep, UndisturbedOneStep DEF UndisturbedInv

\* A network that is never disabled and whose parameters are never edited has
\* at most one polling greenlet (modbus_polling.py:58-62), however the
\* scheduler, the greenlets, the manual polls and the requests on the other
\* networks interleave, and even when greenlets or the scheduler die.
THEOREM UndisturbedOne == Spec => []UndisturbedOneThread
<1>1. UndisturbedInv => UndisturbedOneThread
  BY DEF UndisturbedInv
<1> QED BY <1>1, UndisturbedInit, UndisturbedStep, PTL DEF Spec

\* The connection of such a network is not closed under its greenlet, nor
\* replaced (modbus_polling.py:52-55, modbus_registry.py:56-65).
THEOREM UndisturbedKeeps == Spec => UndisturbedKeepsConnection
<1>1. UndisturbedInv /\ [Next]_vars =>
        [\A n \in Networks :
           /\ status[n] = "enabled"
           /\ n \notin disturbed
           /\ \E t \in Threads : net[t] = n
           => registry'[n] = registry[n]]_vars
  <2> SUFFICES ASSUME UndisturbedInv, [Next]_vars, NEW n \in Networks,
                      status[n] = "enabled", n \notin disturbed,
                      NEW t \in Threads, net[t] = n
               PROVE  registry'[n] = registry[n]
    OBVIOUS
  <2>1. Live(t)
    BY SetsAssumption DEF UndisturbedInv, ConnInv, TypeInv, NetInv
  <2> QED BY <2>1, ConnectionStays
<1> QED BY <1>1, UndisturbedInit, UndisturbedStep, PTL
        DEF Spec, UndisturbedKeepsConnection

-----------------------------------------------------------------------------
(* No orphan without a disable.                                            *)

TendedInv ==
  \A n \in Networks \ disturbed :
    /\ ~failed /\ status[n] # "deleted"
    /\ registry[n] # None /\ conn[registry[n]].running
    => \E t \in Threads : net[t] = n

\* The registered connection of n becomes running only by a greenlet of n.
LEMMA FlagSet ==
  ASSUME ConnInv, [Next]_vars, NEW n \in Networks, registry[n] # None,
         registry'[n] = registry[n],
         conn'[registry[n]].running, ~conn[registry[n]].running
  PROVE  \E t \in Threads : net'[t] = n
<1> USE DEF ConnInv, TypeInv
<1>1. registry[n] \in Conns /\ ~Free(registry[n])
  BY DEF TypeOK, Free
<1>2. CASE UNCHANGED conn
  BY <1>2
<1>3. ASSUME NEW m \in Networks, NEW k \in ConnKeys, AddEditAndGet(m, k) PROVE FALSE
  <2>1. PICK c \in Conns :
          conn' = conn \/ (Free(c) /\ conn' = [conn EXCEPT ![c] = Fresh(m, k)])
    BY <1>3, AddEditAndGetEffect
  <2> QED BY <1>1, <2>1 DEF TypeOK
<1>4. ASSUME NEW m \in Networks, SchedNetwork(m) PROVE FALSE
  BY <1>3, <1>4 DEF SchedNetwork, SnapshotInv, TypeOK
<1>5. ASSUME NEW r \in Requests, NEW m \in Networks, ManualPoll(r, m) PROVE FALSE
  BY <1>3, <1>5 DEF ManualPoll, TypeOK
<1>6. ASSUME NEW r \in Requests, TempPoll(r) PROVE FALSE
  BY <1>1, <1>6, NewConnFree DEF TempPoll, TypeOK
<1>7. ASSUME NEW t \in Threads, ThreadPolls(t) PROVE net'[t] = n
  <2>1. net[t] \in Networks /\ registry[net[t]] \in Conns /\ net'[t] = net[t]
    BY <1>7 DEF ThreadPolls, AtTop, NetInv, Live, TypeOK
  <2>2. conn' = [conn EXCEPT ![registry[net[t]]].running = TRUE]
    BY <1>7 DEF ThreadPolls
  <2>3. registry[net[t]] = registry[n]
    BY <1>1, <2>1, <2>2 DEF TypeOK
  <2> QED BY <2>1, <2>3, SetsAssumption DEF OwnerInv
<1> QED
  BY <1>2, <1>4, <1>5, <1>6, <1>7
     DEF Next, SchedStep, SchedSnapshot, SchedResume, SchedCleanup, Removal,
         SchedDies, ThreadStep, ThreadNoConnection, ThreadNotFound,
         ThreadRoundDone, ThreadRoundGone, ThreadDies, ThreadEnds, PollRequest,
         RequestEnd, NetworkRequest, CreateNetwork, EnableNetwork, DisableNetwork,
         EditNetwork, DeleteNetwork, vars, regVars

\* A greenlet of an undisturbed network that is registered does not end.
LEMMA GreenletStays ==
  ASSUME UndisturbedInv, [Next]_vars, ~failed',
         NEW t \in Threads, net[t] # None, net[t] \notin disturbed,
         status[net[t]] # "deleted", registry[net[t]] # None
  PROVE  net'[t] = net[t]
<1> USE DEF UndisturbedInv, ConnInv, TypeInv
<1>1. Live(t) /\ status[net[t]] = "enabled"
  BY DEF NetInv, SettledInv, Settled, Lasting
<1>2. ASSUME NEW u \in Threads, ThreadStep(u) \/ ThreadDies(u) PROVE net'[t] = net[t]
  BY <1>1, <1>2
     DEF ThreadStep, ThreadPolls, ThreadNoConnection, ThreadNotFound,
         ThreadRoundDone, ThreadRoundGone, ThreadDies, ThreadEnds, TypeOK
<1>3. ASSUME NEW n \in Networks, SchedNetwork(n) PROVE net'[t] = net[t]
  BY <1>1, <1>3, NewThreadIdle DEF SchedNetwork, Live, TypeOK, thrVars
<1> QED
  BY <1>2, <1>3
     DEF Next, SchedStep, SchedSnapshot, SchedResume, SchedCleanup, Removal,
         SchedDies, PollRequest, ManualPoll, TempPoll, RequestEnd, NetworkRequest,
         CreateNetwork, EnableNetwork, DisableNetwork, EditNetwork, DeleteNetwork,
         vars, thrVars

\* What has failed stays so.
LEMMA FailedStays == failed /\ [Next]_vars => failed'
BY DEF Next, SchedStep, SchedSnapshot, SchedNetwork, SchedResume, SchedCleanup,
       Removal, SchedDies, ThreadStep, ThreadPolls, ThreadNoConnection,
       ThreadNotFound, ThreadRoundDone, ThreadRoundGone, ThreadDies, PollRequest,
       ManualPoll, TempPoll, RequestEnd, NetworkRequest, CreateNetwork,
       EnableNetwork, DisableNetwork, EditNetwork, DeleteNetwork, vars

LEMMA TendedInit == Init => TendedInv
<1> SUFFICES ASSUME Init, NEW n \in Networks, registry[n] # None
             PROVE  ~conn[registry[n]].running
  BY DEF TendedInv
<1>1. registry[n] \in Conns
  BY DEF Init
<1> QED BY <1>1 DEF Init, InitConn, Fresh

LEMMA TendedStep == UndisturbedInv /\ TendedInv /\ [Next]_vars => TendedInv'
<1> SUFFICES ASSUME UndisturbedInv, TendedInv, [Next]_vars,
                    NEW n \in Networks, n \notin disturbed', ~failed',
                    status'[n] # "deleted",
                    registry'[n] # None, conn'[registry'[n]].running
             PROVE  \E t \in Threads : net'[t] = n
  BY DEF TendedInv
<1> USE DEF UndisturbedInv, ConnInv, TypeInv
<1>1. RowMoves /\ Moves
  BY RowStep, MovesStep
<1>2. n \notin disturbed /\ status[n] # "deleted" /\ ~failed
  BY <1>1, FailedStays DEF RowMoves
<1>3. registry'[n] = registry[n]
  BY <1>1 DEF Moves, RegistryMoves
<1>4. CASE conn[registry[n]].running
  <2>1. PICK t \in Threads : net[t] = n
    BY <1>2, <1>3, <1>4 DEF TendedInv
  <2>2. net'[t] = n
    BY <1>2, <1>3, <2>1, GreenletStays, SetsAssumption
  <2> QED BY <2>2
<1>5. CASE ~conn[registry[n]].running
  BY <1>3, <1>5, FlagSet
<1> QED BY <1>4, <1>5

\* Until an exception ends a loop, an enabled network that was never disabled
\* or edited is not left marked as running without a greenlet (modbus_polling.py:60,
\* :75-78, :87): it cannot be starved.
THEOREM NotOrphaned == Spec => []UndisturbedNotOrphaned
<1>1. TypeInv /\ TendedInv => UndisturbedNotOrphaned
  BY DEF TendedInv, UndisturbedNotOrphaned, Orphaned
<1>2. UndisturbedInv => TypeInv
  BY DEF UndisturbedInv, ConnInv
<1> QED BY <1>1, <1>2, UndisturbedInit, UndisturbedStep, TendedInit, TendedStep, PTL
        DEF Spec

-----------------------------------------------------------------------------
(* A bound on the greenlets of a network.                                  *)

\* n's registered connection has its parameters, and a greenlet that polls
\* with it or will in its first round: the scheduler needs no new one.
Covered(n) ==
  /\ Current(n, params[n])
  /\ \/ conn[registry[n]].running
     \/ \E t \in Threads : net[t] = n /\ pc[t] = "starting"

UpToDate(n) == seen[n] = params[n]

\* How many greenlets the scheduler may yet start for n when nobody disturbs
\* it: one for the parameters of the snapshot in hand, and one for those of a
\* later snapshot when they differ.
Starts(n) ==
  IF n \in todo
  THEN (IF UpToDate(n) /\ Covered(n) THEN 0 ELSE 1)
     + (IF status[n] = "deleted" \/ (status[n] = "enabled" /\ UpToDate(n))
        THEN 0 ELSE 1)
  ELSE IF \/ status[n] = "deleted"
          \/ /\ status[n] = "enabled" /\ Covered(n)
             /\ sched \in {"round", "handover"} => seen[n] # None
       THEN 0 ELSE 1

\* The greenlets there are and those yet to come are within the bound.
Budget(n) ==
  /\ IsFiniteSet(Greenlets(n))
  /\ Cardinality(Greenlets(n)) + Starts(n) <= 1 + 2 * disturbances[n]

\* A round works off a snapshot of networks that existed.
TodoInv ==
  /\ sched = "asleep" => todo = {}
  /\ \A n \in todo : status[n] # "absent"

BudgetInv == ConnInv /\ TodoInv /\ \A n \in Networks : Budget(n)

LEMMA BudgetInit == Init => BudgetInv
<1> SUFFICES ASSUME Init PROVE BudgetInv
  OBVIOUS
<1>1. TodoInv
  BY DEF Init, TodoInv
<1>2. ASSUME NEW n \in Networks PROVE Budget(n)
  <2>1. Greenlets(n) = {}
    BY SetsAssumption DEF Init, Greenlets
  <2>2. IsFiniteSet(Greenlets(n)) /\ Cardinality(Greenlets(n)) = 0
    BY <2>1, FS_EmptySet
  <2>3. Starts(n) \in {0, 1} /\ disturbances[n] = 0
    BY DEF Init, Starts
  <2> QED BY <2>2, <2>3 DEF Budget
<1> QED BY <1>1, <1>2, ConnInit DEF BudgetInv

LEMMA TodoStep == TypeOK /\ TodoInv /\ [Next]_vars => TodoInv'
<1> SUFFICES ASSUME TypeOK, TodoInv, [Next]_vars PROVE TodoInv'
  OBVIOUS
<1>1. CASE UNCHANGED rowVars
  <2>1. CASE SchedSnapshot
    BY <1>1, <2>1 DEF SchedSnapshot, TodoInv, rowVars
  <2>2. CASE ~SchedSnapshot
    <3>1. (sched' = "asleep" => sched = "asleep" \/ todo = {}) /\ todo' \subseteq todo
      BY <2>2
         DEF Next, SchedStep, SchedNetwork, SchedResume, SchedCleanup, Removal,
             SchedDies, ThreadStep, ThreadPolls, ThreadNoConnection,
             ThreadNotFound, ThreadRoundDone, ThreadRoundGone, ThreadDies,
             ThreadEnds, PollRequest, ManualPoll, TempPoll, RequestEnd,
             NetworkRequest, CreateNetwork, EnableNetwork, DisableNetwork,
             EditNetwork, DeleteNetwork, vars, schedVars
    <3> QED BY <1>1, <3>1 DEF TodoInv, rowVars
  <2> QED BY <2>1, <2>2
<1>2. ASSUME NEW n \in Networks, NetworkRequest(n) PROVE TodoInv'
  <2>1. sched' = sched /\ todo' = todo
    BY <1>2 DEF NetworkRequest, CreateNetwork, EnableNetwork, DisableNetwork,
                EditNetwork, DeleteNetwork, schedVars
  <2>2. \A m \in Networks : status'[m] = "absent" => status[m] = "absent"
    BY <1>2 DEF NetworkRequest, CreateNetwork, EnableNetwork, DisableNetwork,
                EditNetwork, DeleteNetwork, TypeOK
  <2> QED BY <2>1, <2>2 DEF TodoInv, TypeOK
<1> QED
  BY <1>1, <1>2
     DEF Next, SchedStep, SchedSnapshot, SchedNetwork, SchedResume, SchedCleanup,
         Removal, SchedDies, ThreadStep, ThreadPolls, ThreadNoConnection,
         ThreadNotFound, ThreadRoundDone, ThreadRoundGone, ThreadDies, ThreadEnds,
         PollRequest, ManualPoll, TempPoll, RequestEnd, vars

\* Steps that neither start nor end a greenlet of n.
LEMMA BudgetKept ==
  ASSUME TypeOK, NEW n \in Networks, Budget(n), Greenlets(n)' = Greenlets(n),
         disturbances'[n] = disturbances[n], Starts(n)' <= Starts(n)
  PROVE  Budget(n)'
<1>1. Cardinality(Greenlets(n)) \in Nat
  BY FS_CardinalityType DEF Budget
<1>2. Starts(n) \in Nat /\ Starts(n)' \in Nat /\ disturbances[n] \in Nat
  BY DEF Starts, TypeOK
<1> QED BY <1>1, <1>2 DEF Budget

\* Steps that do not touch what n's start depends on, or only cover n.
LEMMA StartsKept ==
  ASSUME NEW n \in Networks,
         status'[n] = status[n], params'[n] = params[n], seen'[n] = seen[n],
         n \in todo' <=> n \in todo,
         sched' \in {"round", "handover"} => sched \in {"round", "handover"},
         Covered(n) => Covered(n)'
  PROVE  Starts(n)' <= Starts(n)
BY DEF Starts, UpToDate

\* n stays covered while its entry in the registry stays, and each greenlet
\* that starts goes on starting or marks the connection as running.
LEMMA CoveredKept ==
  ASSUME TypeOK, ConnKept, NEW n \in Networks,
         params'[n] = params[n], registry'[n] = registry[n],
         \A t \in Threads : net[t] = n /\ pc[t] = "starting" =>
           (net'[t] = n /\ pc'[t] = "starting") \/ conn'[registry[n]].running,
         Covered(n)
  PROVE  Covered(n)'
<1>1. registry[n] \in Conns /\ ~Free(registry[n])
  BY DEF Covered, Current, TypeOK, Free
<1> QED BY <1>1 DEF Covered, Current, ConnKept

\* The manual poll and the scheduler leave the entry of n alone when they are
\* about another network, or find the parameters they ask for.
LEMMA EntryKept ==
  ASSUME TypeOK, NEW n \in Networks, NEW m \in Networks, NEW k \in ConnKeys,
         AddEditAndGet(m, k), m = n => Current(n, k)
  PROVE  registry'[n] = registry[n]
<1>1. PICK c \in Conns :
        /\ registry' = [registry EXCEPT ![m] = c]
        /\ Current(m, k) => c = registry[m]
  BY AddEditAndGetEffect
<1> QED BY <1>1 DEF TypeOK

\* The scheduler has n in hand: a start, if there is one, was accounted for.
LEMMA BudgetHandled ==
  ASSUME ConnInv, NEW n \in Networks, Budget(n), SchedNetwork(n)
  PROVE  Budget(n)'
<1> USE DEF ConnInv, TypeInv, TypeOK
<1>1. /\ sched = "round" /\ n \in todo /\ todo' = todo \ {n}
      /\ seen[n] \in ConnKeys /\ AddEditAndGet(n, seen[n])
      /\ status' = status /\ params' = params /\ seen' = seen
      /\ disturbances' = disturbances
  BY DEF SchedNetwork, SnapshotInv, rowVars
<1>2. PICK c \in Conns :
        /\ registry' = [registry EXCEPT ![n] = c]
        /\ \/ Current(n, seen[n]) /\ c = registry[n] /\ conn' = conn
           \/ /\ ~Current(n, seen[n]) /\ Free(c)
              /\ conn' = [conn EXCEPT ![c] = Fresh(n, seen[n])]
  BY <1>1, AddEditAndGetEffect
<1>3. registry'[n] = c /\ registry'[n] # None /\ conn'[c].key = seen[n]
  BY <1>2, SetsAssumption DEF Current, Fresh
<1>4. CASE ThreadNeeded(n)
  <2>1. NewThread \in Threads /\ pc[NewThread] = "idle"
    BY <1>4, NewThreadIdle DEF SchedNetwork
  <2>2. /\ net' = [net EXCEPT ![NewThread] = n]
        /\ pc' = [pc EXCEPT ![NewThread] = "starting"]
    BY <1>4 DEF SchedNetwork
  <2>3. NewThread \notin Greenlets(n)
    BY <2>1, SetsAssumption DEF Greenlets, NetInv, Live
  <2>4. Greenlets(n)' = Greenlets(n) \cup {NewThread}
    BY <2>1, <2>2 DEF Greenlets
  <2>5. /\ IsFiniteSet(Greenlets(n)')
        /\ Cardinality(Greenlets(n)') = Cardinality(Greenlets(n)) + 1
    BY <2>3, <2>4, FS_AddElement DEF Budget
  <2>6. ~(UpToDate(n) /\ Covered(n))
    <3> SUFFICES ASSUME UpToDate(n), Covered(n) PROVE FALSE
      OBVIOUS
    <3>1. conn[registry[n]].running
      BY <1>1 DEF Covered, HandoverInv
    <3> QED BY <1>2, <1>3, <1>4, <3>1 DEF Covered, UpToDate, ThreadNeeded
  <2>7. UpToDate(n) => Covered(n)'
    <3>1. pc'[NewThread] = "starting" /\ net'[NewThread] = n
      BY <2>1, <2>2
    <3> QED BY <1>1, <1>3, <2>1, <3>1 DEF UpToDate, Covered, Current
  <2>8. Starts(n)' + 1 <= Starts(n)
    BY <1>1, <2>6, <2>7, SetsAssumption DEF Starts, UpToDate
  <2>9. Cardinality(Greenlets(n)) \in Nat /\ Starts(n) \in Nat /\ Starts(n)' \in Nat
    BY FS_CardinalityType DEF Budget, Starts
  <2> QED BY <1>1, <2>5, <2>8, <2>9 DEF Budget
<1>5. CASE ~ThreadNeeded(n)
  <2>1. thrVars' = thrVars /\ sched' = sched
    BY <1>5 DEF SchedNetwork
  <2>2. Current(n, seen[n]) /\ conn' = conn /\ conn[registry[n]].running
    BY <1>2, <1>3, <1>5 DEF ThreadNeeded, Fresh
  <2>3. UpToDate(n) => Covered(n)'
    BY <1>1, <1>2, <1>3, <2>2 DEF UpToDate, Covered, Current
  <2>4. Starts(n)' <= Starts(n)
    BY <1>1, <2>3, SetsAssumption DEF Starts, UpToDate
  <2> QED BY <1>1, <2>1, <2>4, BudgetKept DEF thrVars, Greenlets
<1> QED BY <1>4, <1>5

\* A greenlet ends: one less, and the scheduler may have to start one for it.
LEMMA BudgetEnds ==
  ASSUME ConnInv, Moves, NEW n \in Networks, Budget(n),
         NEW t \in Threads, Live(t), ThreadEnds(t)
  PROVE  Budget(n)'
<1> USE DEF ConnInv, TypeInv, TypeOK
<1>1. /\ UNCHANGED <<status, params, disturbances, sched, todo, seen, registry, conn>>
      /\ pc' = [pc EXCEPT ![t] = "idle"]
      /\ net' = [net EXCEPT ![t] = None]
  BY DEF ThreadEnds, rowVars, regVars, schedVars
<1>2. CASE net[t] = n
  <2>1. t \in Greenlets(n) /\ Greenlets(n)' = Greenlets(n) \ {t}
    BY <1>1, <1>2, SetsAssumption DEF Greenlets
  <2>2. /\ IsFiniteSet(Greenlets(n)')
        /\ Cardinality(Greenlets(n)') = Cardinality(Greenlets(n)) - 1
    BY <2>1, FS_RemoveElement DEF Budget
  <2>3. Starts(n)' <= Starts(n) + 1
    BY <1>1 DEF Starts, UpToDate
  <2>4. Cardinality(Greenlets(n)) \in Nat /\ Starts(n) \in Nat /\ Starts(n)' \in Nat
    BY FS_CardinalityType DEF Budget, Starts
  <2> QED BY <1>1, <2>2, <2>3, <2>4 DEF Budget
<1>3. CASE net[t] # n
  <2>1. Greenlets(n)' = Greenlets(n)
    BY <1>1, <1>3, SetsAssumption DEF Greenlets
  <2>2. Covered(n) => Covered(n)'
    BY <1>1, <1>3, CoveredKept DEF Moves
  <2>3. Starts(n)' <= Starts(n)
    BY <1>1, <2>2, StartsKept
  <2> QED BY <1>1, <2>1, <2>3, BudgetKept
<1> QED BY <1>2, <1>3

\* The rounds of a greenlet: its first one covers its network as its start did.
LEMMA BudgetPolls ==
  ASSUME ConnInv, Moves, NEW n \in Networks, Budget(n),
         NEW t \in Threads, ThreadPolls(t) \/ ThreadRoundDone(t)
  PROVE  Budget(n)'
<1> USE DEF ConnInv, TypeInv, TypeOK
<1>1. UNCHANGED <<status, params, disturbances, sched, todo, seen, registry, net>>
  BY DEF ThreadPolls, ThreadRoundDone, rowVars, regVars, schedVars
<1>2. \A u \in Threads : net[u] = n /\ pc[u] = "starting" /\ registry[n] # None =>
        pc'[u] = "starting" \/ conn'[registry[n]].running
  <2>1. CASE ThreadRoundDone(t)
    BY <2>1 DEF ThreadRoundDone
  <2>2. CASE ThreadPolls(t)
    <3>1. registry[net[t]] \in Conns /\ pc' = [pc EXCEPT ![t] = "polling"]
      BY <2>2 DEF ThreadPolls, AtTop, NetInv, Live
    <3>2. conn' = [conn EXCEPT ![registry[net[t]]].running = TRUE]
      BY <2>2 DEF ThreadPolls
    <3>3. conn'[registry[net[t]]].running
      BY <3>1, <3>2 DEF Connection
    <3> QED BY <3>1, <3>3
  <2> QED BY <2>1, <2>2
<1>3. Covered(n) => Covered(n)'
  BY <1>1, <1>2, CoveredKept DEF Moves, Covered, Current
<1>4. Starts(n)' <= Starts(n)
  BY <1>1, <1>3, StartsKept
<1>5. Greenlets(n)' = Greenlets(n)
  BY <1>1 DEF Greenlets
<1> QED BY <1>1, <1>4, <1>5, BudgetKept

\* Steps of the scheduler that start nothing for n.
LEMMA BudgetSched ==
  ASSUME ConnInv, TodoInv, Moves, NEW n \in Networks, Budget(n),
         \/ SchedSnapshot \/ SchedResume \/ SchedCleanup \/ SchedDies
         \/ \E m \in Networks : m # n /\ SchedNetwork(m)
  PROVE  Budget(n)'
<1> USE DEF ConnInv, TypeInv, TypeOK
<1>1. UNCHANGED rowVars
  BY DEF SchedSnapshot, SchedResume, SchedCleanup, Removal, SchedDies, SchedNetwork
<1>2. Greenlets(n)' = Greenlets(n)
  <2>1. ASSUME NEW m \in Networks, m # n, SchedNetwork(m)
        PROVE  Greenlets(n)' = Greenlets(n)
    BY <2>1, NewThreadIdle, SetsAssumption
       DEF SchedNetwork, Greenlets, NetInv, Live, thrVars
  <2> QED BY <2>1 DEF SchedSnapshot, SchedResume, SchedCleanup, Removal, SchedDies,
                      Greenlets, thrVars
<1>3. Starts(n)' <= Starts(n)
  <2>1. CASE SchedSnapshot
    <3>1. sched = "asleep" /\ todo = {} /\ n \in todo' <=> status[n] = "enabled"
      BY <2>1 DEF SchedSnapshot, TodoInv
    <3>2. Covered(n)' <=> Covered(n)
      BY <1>1, <2>1 DEF SchedSnapshot, Covered, Current, rowVars, regVars, thrVars
    <3>3. status[n] = "enabled" => seen'[n] = params'[n]
      BY <1>1, <2>1 DEF SchedSnapshot, rowVars
    <3> QED BY <1>1, <2>1, <3>1, <3>2, <3>3, SetsAssumption
            DEF SchedSnapshot, Starts, UpToDate, rowVars
  <2>2. CASE SchedCleanup
    <3>1. /\ sched = "round" /\ sched' = "asleep" /\ todo = {} /\ todo' = {}
          /\ seen[n] # None => registry'[n] = registry[n]
          /\ conn' = conn /\ UNCHANGED thrVars
      BY <2>2 DEF SchedCleanup, Removal
    <3>2. seen[n] # None /\ Covered(n) => Covered(n)'
      BY <1>1, <3>1 DEF Covered, Current, rowVars, thrVars
    <3> QED BY <1>1, <3>1, <3>2 DEF Starts, rowVars
  <2>3. CASE SchedResume \/ SchedDies
    <3>1. Covered(n) => Covered(n)'
      BY <1>1, <2>3
         DEF SchedResume, SchedDies, Covered, Current, rowVars, regVars, thrVars
    <3> QED BY <1>1, <2>3, <3>1, StartsKept DEF SchedResume, SchedDies, rowVars
  <2>4. ASSUME NEW m \in Networks, m # n, SchedNetwork(m)
        PROVE  Starts(n)' <= Starts(n)
    <3>1. /\ sched = "round" /\ todo' = todo \ {m} /\ seen' = seen
          /\ seen[m] \in ConnKeys /\ AddEditAndGet(m, seen[m])
      BY <2>4 DEF SchedNetwork, SnapshotInv
    <3>2. registry'[n] = registry[n]
      BY <2>4, <3>1, EntryKept
    <3>3. \A t \in Threads : pc[t] # "starting"
      BY <3>1 DEF HandoverInv
    <3>4. Covered(n) => Covered(n)'
      BY <1>1, <3>2, <3>3, CoveredKept DEF Moves, rowVars
    <3> QED BY <1>1, <2>4, <3>1, <3>4, StartsKept DEF rowVars
  <2> QED BY <2>1, <2>2, <2>3, <2>4
<1> QED BY <1>1, <1>2, <1>3, BudgetKept DEF rowVars

\* Polls on request: a manual poll opens the connection of its network as the
\* scheduler would, and leaves its start to the scheduler.
LEMMA BudgetPollRequest ==
  ASSUME ConnInv, Moves, NEW n \in Networks, Budget(n),
         NEW r \in Requests, PollRequest(r) \/ RequestEnd(r)
  PROVE  Budget(n)'
<1> USE DEF ConnInv, TypeInv, TypeOK
<1>1. UNCHANGED <<rowVars, schedVars, thrVars>>
  BY DEF PollRequest, ManualPoll, TempPoll, RequestEnd
<1>2. Greenlets(n)' = Greenlets(n)
  BY <1>1 DEF Greenlets, thrVars
<1>3. Covered(n) => registry'[n] = registry[n]
  <2>1. ASSUME NEW m \in Networks, ManualPoll(r, m), Covered(n)
        PROVE  registry'[n] = registry[n]
    BY <2>1, EntryKept DEF ManualPoll, Covered
  <2> QED BY <2>1 DEF PollRequest, TempPoll, RequestEnd, regVars
<1>4. Covered(n) => Covered(n)'
  BY <1>1, <1>3, CoveredKept DEF Moves, rowVars, thrVars
<1>5. Starts(n)' <= Starts(n)
  BY <1>1, <1>4, StartsKept DEF rowVars, schedVars
<1> QED BY <1>1, <1>2, <1>5, BudgetKept DEF rowVars

\* A disable or an edit pays for the greenlets that it brings about.
LEMMA BudgetRequest ==
  ASSUME ConnInv, TodoInv, NEW n \in Networks, Budget(n),
         NEW m \in Networks, NetworkRequest(m)
  PROVE  Budget(n)'
<1> USE DEF ConnInv, TypeInv, TypeOK
<1>1. UNCHANGED <<regVars, schedVars, thrVars>>
  BY DEF NetworkRequest, CreateNetwork, EnableNetwork, DisableNetwork, EditNetwork,
         DeleteNetwork
<1>2. Greenlets(n)' = Greenlets(n)
  BY <1>1 DEF Greenlets, thrVars
<1>3. params'[n] = params[n] => (Covered(n)' <=> Covered(n))
  BY <1>1 DEF Covered, Current, regVars, thrVars
<1>4. CASE m # n
  <2>1. UNCHANGED <<status[n], params[n], disturbances[n]>>
    BY <1>4 DEF NetworkRequest, CreateNetwork, EnableNetwork, DisableNetwork,
                EditNetwork, DeleteNetwork
  <2> QED BY <1>1, <1>2, <1>3, <2>1, StartsKept, BudgetKept DEF schedVars
<1>5. CASE DisableNetwork(n) \/ \E k \in ConnKeys : EditNetwork(n, k)
  <2>1. disturbances'[n] = disturbances[n] + 1 /\ Starts(n)' <= Starts(n) + 2
    BY <1>5 DEF DisableNetwork, EditNetwork, Starts
  <2>2. Cardinality(Greenlets(n)) \in Nat /\ Starts(n) \in Nat /\ Starts(n)' \in Nat
    BY FS_CardinalityType DEF Budget, Starts
  <2> QED BY <1>2, <2>1, <2>2 DEF Budget
<1>6. ASSUME NEW k \in ConnKeys, NEW s \in {"enabled", "disabled"}, CreateNetwork(n, k, s)
      PROVE  Budget(n)'
  <2>1. status[n] = "absent" /\ n \notin todo /\ disturbances' = disturbances
    BY <1>6 DEF CreateNetwork, TodoInv
  <2>2. Starts(n)' <= Starts(n)
    BY <1>1, <2>1 DEF Starts, schedVars
  <2> QED BY <1>2, <2>1, <2>2, BudgetKept
<1>7. CASE EnableNetwork(n) \/ DeleteNetwork(n)
  <2>1. /\ params' = params /\ disturbances' = disturbances
        /\ status[n] \notin {"absent", "deleted"}
        /\ status[n] = "disabled" \/ status'[n] = "deleted"
    BY <1>7 DEF EnableNetwork, DeleteNetwork, Exists
  <2>2. Starts(n)' <= Starts(n)
    BY <1>1, <1>3, <2>1 DEF Starts, UpToDate, schedVars
  <2> QED BY <1>2, <2>1, <2>2, BudgetKept
<1> QED BY <1>4, <1>5, <1>6, <1>7 DEF NetworkRequest

LEMMA BudgetStep == BudgetInv /\ [Next]_vars => BudgetInv'
<1> SUFFICES ASSUME BudgetInv, [Next]_vars PROVE BudgetInv'
  OBVIOUS
<1> USE DEF BudgetInv
<1>1. ConnInv' /\ TodoInv' /\ Moves
  BY ConnStep, TodoStep, MovesStep DEF ConnInv, TypeInv
<1>2. ASSUME NEW n \in Networks PROVE Budget(n)'
  <2>1. ASSUME NEW m \in Networks, SchedNetwork(m) PROVE Budget(n)'
    BY <1>1, <2>1, BudgetHandled, BudgetSched
  <2>2. CASE SchedSnapshot \/ SchedResume \/ SchedCleanup \/ SchedDies
    BY <1>1, <2>2, BudgetSched
  <2>3. ASSUME NEW t \in Threads, ThreadStep(t) \/ ThreadDies(t) PROVE Budget(n)'
    <3>1. CASE ThreadPolls(t) \/ ThreadRoundDone(t)
      BY <1>1, <3>1, BudgetPolls
    <3>2. CASE Live(t) /\ ThreadEnds(t)
      BY <1>1, <3>2, BudgetEnds
    <3> QED BY <2>3, <3>1, <3>2
            DEF ThreadStep, ThreadNoConnection, ThreadNotFound, ThreadRoundGone,
                ThreadDies, AtTop, Live
  <2>4. ASSUME NEW r \in Requests, PollRequest(r) \/ RequestEnd(r) PROVE Budget(n)'
    BY <1>1, <2>4, BudgetPollRequest
  <2>5. ASSUME NEW m \in Networks, NetworkRequest(m) PROVE Budget(n)'
    BY <2>5, BudgetRequest
  <2>6. CASE UNCHANGED vars
    <3>1. Greenlets(n)' = Greenlets(n) /\ Starts(n)' = Starts(n)
      BY <2>6 DEF vars, rowVars, regVars, schedVars, thrVars, Greenlets, Starts,
                  UpToDate, Covered, Current
    <3> QED BY <2>6, <3>1 DEF Budget, vars, rowVars
  <2> QED BY <2>1, <2>2, <2>3, <2>4, <2>5, <2>6 DEF Next, SchedStep
<1> QED BY <1>1, <1>2

\* A network never has more greenlets than one and two for each time that it
\* was disabled or edited (modbus_polling.py:58-62, :71-78): whatever the other
\* networks go through, however often greenlets and the scheduler die, and
\* however requests fall between the steps, greenlets do not pile up.
THEOREM GreenletsBound == Spec => []GreenletsBounded
<1>1. BudgetInv => GreenletsBounded
  <2> SUFFICES ASSUME BudgetInv, NEW n \in Networks
               PROVE  Cardinality(Greenlets(n)) <= 1 + 2 * disturbances[n]
    BY DEF GreenletsBounded
  <2>1. Budget(n) /\ disturbances[n] \in Nat
    BY DEF BudgetInv, ConnInv, TypeInv, TypeOK
  <2>2. Cardinality(Greenlets(n)) \in Nat /\ Starts(n) \in Nat
    BY <2>1, FS_CardinalityType DEF Budget, Starts
  <2> QED BY <2>1, <2>2 DEF Budget
<1> QED BY <1>1, BudgetInit, BudgetStep, PTL DEF Spec

-----------------------------------------------------------------------------
(* The driver implements NetworkService.                                   *)

\* What the refinement mapping says of n, case by case.
PhaseFacts(n) ==
  /\ n \in disturbed \/ status[n] = "deleted" => PhaseOf(n) = "released"
  /\ n \notin disturbed =>
       /\ status[n] = "absent" => PhaseOf(n) = "absent"
       /\ status[n] = "disabled" => PhaseOf(n) = "off"
       /\ status[n] = "enabled" =>
            /\ (\A t \in Threads : net[t] # n) => PhaseOf(n) = "waiting"
            /\ \A t \in Threads : net[t] = n => PhaseOf(n) = pc[t]
  /\ PhaseOf(n) \in Service!Phases

PhaseInv == \A n \in Networks : PhaseFacts(n)

LEMMA PhaseHolds == UndisturbedInv => PhaseInv
<1> SUFFICES ASSUME UndisturbedInv, NEW n \in Networks PROVE PhaseFacts(n)
  BY DEF PhaseInv
<1> USE DEF UndisturbedInv, ConnInv, TypeInv, TypeOK, NetInv, Greenlets
<1>1. CASE n \in disturbed \/ status[n] = "deleted"
  BY <1>1 DEF PhaseOf, PhaseFacts, Service!Phases
<1>2. CASE n \notin disturbed /\ status[n] = "absent"
  BY <1>2 DEF PhaseOf, PhaseFacts, Service!Phases
<1>3. CASE n \notin disturbed /\ status[n] = "disabled"
  BY <1>3 DEF PhaseOf, PhaseFacts, Service!Phases
<1>4. CASE n \notin disturbed /\ status[n] = "enabled"
  <2> DEFINE pollers == Greenlets(n)
  <2>1. CASE pollers = {}
    <3>1. PhaseOf(n) = "waiting"
      BY <1>4, <2>1 DEF PhaseOf
    <3> QED BY <1>4, <2>1, <3>1 DEF PhaseFacts, Service!Phases
  <2>2. ASSUME NEW t \in pollers PROVE PhaseFacts(n)
    <3>1. t \in Threads /\ net[t] = n /\ pc[t] # "idle"
      BY SetsAssumption DEF Live
    <3>2. pollers = {t}
      BY <1>4, <3>1, SetsAssumption DEF UndisturbedOneThread, Live
    <3>3. (CHOOSE u \in pollers : TRUE) = t
      BY <3>2
    <3>4. PhaseOf(n) = pc[t]
      BY <1>4, <3>2, <3>3 DEF PhaseOf
    <3>5. pc[t] \in {"starting", "polling", "asleep"}
      BY <3>1 DEF ThreadPc
    <3>6. \A u \in Threads : net[u] = n => u = t
      BY <3>2
    <3> QED BY <1>4, <3>1, <3>4, <3>5, <3>6 DEF PhaseFacts, Service!Phases
  <2> QED BY <2>1, <2>2
<1>5. status[n] \in Status
  OBVIOUS
<1> QED BY <1>1, <1>2, <1>3, <1>4, <1>5 DEF Status

\* Nothing in the mapping depends on more than the row and the greenlets of n.
LEMMA PhaseKept ==
  ASSUME UndisturbedInv, PhaseInv, PhaseInv', NEW n \in Networks,
         status'[n] = status[n], n \in disturbed' <=> n \in disturbed,
         \A t \in Threads : net[t] = n \/ net'[t] = n =>
           net'[t] = net[t] /\ pc'[t] = pc[t]
  PROVE  PhaseOf(n)' = PhaseOf(n)
<1> USE DEF UndisturbedInv, ConnInv, TypeInv, TypeOK
<1>1. PhaseFacts(n) /\ PhaseFacts(n)'
  BY DEF PhaseInv
<1>2. status[n] \in {"absent", "enabled", "disabled", "deleted"}
  BY DEF Status
<1>3. CASE n \notin disturbed /\ status[n] = "enabled"
  <2>1. CASE \A t \in Threads : net[t] # n
    BY <1>1, <1>3, <2>1 DEF PhaseFacts
  <2>2. ASSUME NEW t \in Threads, net[t] = n PROVE PhaseOf(n)' = PhaseOf(n)
    BY <1>1, <1>3, <2>2 DEF PhaseFacts
  <2> QED BY <2>1, <2>2
<1> QED BY <1>1, <1>2, <1>3 DEF PhaseFacts

LEMMA OneNetworkMoves ==
  ASSUME NEW m \in Networks, NEW from, NEW to,
         PhaseOf(m) \in from, PhaseOf(m)' = to,
         \A n \in Networks : n # m => PhaseOf(n)' = PhaseOf(n)
  PROVE  Service!Goes(m, from, to)
BY DEF Service!Goes

\* Every network keeps its phase.
Stutters == \A n \in Networks : PhaseOf(n)' = PhaseOf(n)

ServiceStep == Stutters \/ \E n \in Networks : Service!Serve(n)

LEMMA ReleasedStays ==
  ASSUME PhaseInv, PhaseInv', NEW m \in Networks,
         m \in disturbed \/ status[m] = "deleted",
         m \in disturbed' \/ status'[m] = "deleted",
         \A n \in Networks : n # m => PhaseOf(n)' = PhaseOf(n)
  PROVE  Stutters
BY DEF Stutters, PhaseInv, PhaseFacts

LEMMA ReleaseStep ==
  ASSUME PhaseInv, PhaseInv', NEW m \in Networks,
         m \in disturbed' \/ status'[m] = "deleted",
         \A n \in Networks : n # m => PhaseOf(n)' = PhaseOf(n)
  PROVE  ServiceStep
<1>1. PhaseOf(m) \in Service!Phases /\ PhaseOf(m)' = "released"
  BY DEF PhaseInv, PhaseFacts
<1>2. Service!Release(m)
  BY <1>1, OneNetworkMoves DEF Service!Release
<1> QED BY <1>2 DEF ServiceStep, Service!Serve

\* A network without a row, or not enabled yet, has no greenlet.
LEMMA NoGreenletYet ==
  ASSUME UndisturbedInv, NEW n \in Networks, n \notin disturbed, status[n] \notin Lasting,
         NEW t \in Threads
  PROVE  net[t] # n
BY SetsAssumption
   DEF UndisturbedInv, ConnInv, TypeInv, NetInv, SettledInv, Settled

\* The steps of the scheduler: the network in hand may get its poller.
LEMMA ServiceSchedules ==
  ASSUME UndisturbedInv, PhaseInv, PhaseInv', [Next]_vars,
         NEW m \in Networks, SchedNetwork(m)
  PROVE  ServiceStep
<1> USE DEF UndisturbedInv, ConnInv, TypeInv, TypeOK, NetInv
<1>1. UNCHANGED rowVars
  BY DEF SchedNetwork
<1>2. CASE ~ThreadNeeded(m)
  <2>1. UNCHANGED thrVars
    BY <1>2 DEF SchedNetwork
  <2>2. Stutters
    BY <1>1, <2>1, PhaseKept DEF rowVars, thrVars, Stutters
  <2> QED BY <2>2 DEF ServiceStep
<1>3. CASE ThreadNeeded(m)
  <2>1. NewThread \in Threads /\ pc[NewThread] = "idle"
    BY <1>3, NewThreadIdle DEF SchedNetwork
  <2>2. net[NewThread] = None
    BY <2>1 DEF Live
  <2>3. /\ net' = [net EXCEPT ![NewThread] = m]
        /\ pc' = [pc EXCEPT ![NewThread] = "starting"]
    BY <1>3 DEF SchedNetwork
  <2>4. \A n \in Networks : n # m => PhaseOf(n)' = PhaseOf(n)
    BY <1>1, <2>1, <2>2, <2>3, PhaseKept, SetsAssumption DEF rowVars
  <2>5. CASE m \in disturbed \/ status[m] = "deleted"
    BY <1>1, <2>4, <2>5, ReleasedStays DEF rowVars, ServiceStep
  <2>6. CASE m \notin disturbed /\ status[m] # "deleted"
    <3>1. status[m] = "enabled" /\ \A u \in Threads : Live(u) => net[u] # m
      BY <1>3, <2>6, StartedSettled DEF Lasting
    <3>2. \A u \in Threads : net[u] # m
      BY <3>1, SetsAssumption
    <3>3. PhaseOf(m) = "waiting"
      BY <2>6, <3>1, <3>2 DEF PhaseInv, PhaseFacts
    <3>4. net'[NewThread] = m /\ pc'[NewThread] = "starting"
      BY <2>1, <2>3
    <3>5. m \notin disturbed' /\ status'[m] = "enabled"
      BY <1>1, <2>6, <3>1 DEF rowVars
    <3>6. PhaseOf(m)' = "starting"
      BY <2>1, <3>4, <3>5 DEF PhaseInv, PhaseFacts
    <3>7. Service!StartPoll(m)
      BY <2>4, <3>3, <3>6, OneNetworkMoves DEF Service!StartPoll
    <3> QED BY <3>7 DEF ServiceStep, Service!Serve
  <2> QED BY <2>5, <2>6
<1> QED BY <1>2, <1>3

\* The steps of a greenlet move its network from phase to phase.
LEMMA ServicePolls ==
  ASSUME UndisturbedInv, PhaseInv, PhaseInv',
         NEW t \in Threads, ThreadStep(t)
  PROVE  ServiceStep
<1> USE DEF UndisturbedInv, ConnInv, TypeInv, TypeOK, NetInv
<1>1. UNCHANGED rowVars
  BY DEF ThreadStep, ThreadPolls, ThreadNoConnection, ThreadNotFound,
         ThreadRoundDone, ThreadRoundGone, ThreadEnds
<1>2. Live(t)
  BY DEF ThreadStep, ThreadPolls, ThreadNoConnection, ThreadNotFound,
         ThreadRoundDone, ThreadRoundGone, AtTop, Live
<1>3. PICK m \in Networks : net[t] = m
  BY <1>2
<1>4. /\ \A u \in Threads : u # t => net'[u] = net[u] /\ pc'[u] = pc[u]
      /\ net'[t] \in {m, None}
  BY <1>3 DEF ThreadStep, ThreadPolls, ThreadNoConnection, ThreadNotFound,
         ThreadRoundDone, ThreadRoundGone, ThreadEnds
<1>5. \A n \in Networks : n # m => PhaseOf(n)' = PhaseOf(n)
  BY <1>1, <1>3, <1>4, PhaseKept, SetsAssumption DEF rowVars
<1>6. CASE m \in disturbed \/ status[m] = "deleted"
  BY <1>1, <1>3, <1>5, <1>6, ReleasedStays DEF rowVars, ServiceStep
<1>7. CASE m \notin disturbed /\ status[m] # "deleted"
  <2>1. status[m] = "enabled" /\ registry[m] # None
    BY <1>2, <1>3, <1>7, SetsAssumption DEF SettledInv, Settled, Lasting, ThreadInv
  <2>2. ThreadPolls(t) \/ ThreadRoundDone(t)
    BY <1>3, <2>1
       DEF ThreadStep, ThreadNoConnection, ThreadNotFound, ThreadRoundGone
  <2>3. net'[t] = m
    BY <1>3, <2>2 DEF ThreadPolls, ThreadRoundDone
  <2>4. PhaseOf(m) = pc[t] /\ PhaseOf(m)' = pc'[t]
    BY <1>1, <1>3, <1>7, <2>1, <2>3 DEF rowVars, PhaseInv, PhaseFacts
  <2>5. CASE ThreadPolls(t)
    <3>1. pc[t] \in {"starting", "asleep"} /\ pc'[t] = "polling"
      BY <2>5 DEF ThreadPolls, AtTop
    <3>2. Service!Poll(m)
      BY <1>3, <1>5, <2>4, <3>1, OneNetworkMoves DEF Service!Poll
    <3> QED BY <1>3, <3>2 DEF ServiceStep, Service!Serve
  <2>6. CASE ThreadRoundDone(t)
    <3>1. pc[t] = "polling" /\ pc'[t] = "asleep"
      BY <2>6 DEF ThreadRoundDone
    <3>2. Service!Sleep(m)
      BY <1>3, <1>5, <2>4, <3>1, OneNetworkMoves DEF Service!Sleep
    <3> QED BY <1>3, <3>2 DEF ServiceStep, Service!Serve
  <2> QED BY <2>2, <2>5, <2>6
<1> QED BY <1>6, <1>7

\* An exception ends a greenlet: its network waits for another one.
LEMMA ServiceFails ==
  ASSUME UndisturbedInv, UndisturbedInv', PhaseInv, PhaseInv',
         NEW t \in Threads, ThreadDies(t)
  PROVE  Stutters \/ \E n \in Networks : Service!Fail(n)
<1> USE DEF UndisturbedInv, ConnInv, TypeInv, TypeOK, NetInv
<1>1. failed' = TRUE /\ Live(t) /\ UNCHANGED rowVars
  BY DEF ThreadDies, ThreadEnds
<1>2. PICK m \in Networks : net[t] = m
  BY <1>1
<1>3. /\ \A u \in Threads : u # t => net'[u] = net[u] /\ pc'[u] = pc[u]
      /\ net'[t] = None
  BY <1>2 DEF ThreadDies, ThreadEnds
<1>4. \A n \in Networks : n # m => PhaseOf(n)' = PhaseOf(n)
  BY <1>1, <1>2, <1>3, PhaseKept, SetsAssumption DEF rowVars
<1>5. CASE m \in disturbed \/ status[m] = "deleted"
  BY <1>1, <1>2, <1>4, <1>5, ReleasedStays DEF rowVars
<1>6. CASE m \notin disturbed /\ status[m] # "deleted"
  <2>1. status[m] = "enabled"
    BY <1>1, <1>2, <1>6 DEF SettledInv, Settled, Lasting
  <2>2. \A u \in Threads : net[u] = m => u = t
    BY <1>1, <1>2, <1>6, SetsAssumption DEF UndisturbedOneThread
  <2>3. \A u \in Threads : net'[u] # m
    BY <1>2, <1>3, <2>2, SetsAssumption
  <2>4. m \notin disturbed' /\ status'[m] = "enabled"
    BY <1>1, <1>6, <2>1 DEF rowVars
  <2>5. PhaseOf(m) = pc[t] /\ PhaseOf(m)' = "waiting"
    BY <1>2, <1>6, <2>1, <2>3, <2>4 DEF PhaseInv, PhaseFacts
  <2>6. pc[t] \in {"starting", "polling", "asleep"}
    BY <1>1 DEF Live, ThreadPc
  <2>7. Service!Fail(m)
    BY <1>1, <1>4, <2>5, <2>6, OneNetworkMoves DEF Service!Fail
  <2> QED BY <1>2, <2>7
<1> QED BY <1>5, <1>6

\* The REST calls create, enable or release the network they are about.
LEMMA ServiceAsked ==
  ASSUME UndisturbedInv, PhaseInv, PhaseInv', [Next]_vars,
         NEW m \in Networks, NetworkRequest(m)
  PROVE  ServiceStep
<1> USE DEF UndisturbedInv, ConnInv, TypeInv, TypeOK
<1>1. UNCHANGED thrVars
  BY DEF NetworkRequest, CreateNetwork, EnableNetwork, DisableNetwork, EditNetwork,
         DeleteNetwork
<1>2. \A n \in Networks : n # m =>
        status'[n] = status[n] /\ (n \in disturbed' <=> n \in disturbed)
  BY DEF NetworkRequest, CreateNetwork, EnableNetwork, DisableNetwork, EditNetwork,
         DeleteNetwork
<1>3. \A n \in Networks : n # m => PhaseOf(n)' = PhaseOf(n)
  BY <1>1, <1>2, PhaseKept DEF thrVars
<1>4. CASE m \in disturbed
  <2>1. m \in disturbed'
    BY <1>4, RowStep DEF RowMoves
  <2> QED BY <1>3, <1>4, <2>1, ReleasedStays DEF ServiceStep
<1>5. CASE DisableNetwork(m) \/ (\E k \in ConnKeys : EditNetwork(m, k))
            \/ DeleteNetwork(m)
  <2>1. m \in disturbed' \/ status'[m] = "deleted"
    BY <1>5 DEF DisableNetwork, EditNetwork, DeleteNetwork
  <2> QED BY <1>3, <2>1, ReleaseStep
<1>6. ASSUME m \notin disturbed, NEW k \in ConnKeys, NEW s \in {"enabled", "disabled"},
             CreateNetwork(m, k, s)
      PROVE  ServiceStep
  <2>1. status[m] = "absent" /\ status'[m] = s /\ m \notin disturbed'
    BY <1>6 DEF CreateNetwork
  <2>2. \A t \in Threads : net'[t] # m
    BY <1>1, <1>6, <2>1, NoGreenletYet DEF thrVars, Lasting
  <2>3. PhaseOf(m) = "absent" /\ PhaseOf(m)' = IF s = "enabled" THEN "waiting" ELSE "off"
    BY <1>6, <2>1, <2>2 DEF PhaseInv, PhaseFacts
  <2>4. Service!Create(m)
    BY <1>3, <2>3, OneNetworkMoves DEF Service!Create
  <2> QED BY <2>4 DEF ServiceStep, Service!Serve
<1>7. ASSUME m \notin disturbed, EnableNetwork(m) PROVE ServiceStep
  <2>1. status[m] = "disabled" /\ status'[m] = "enabled" /\ m \notin disturbed'
    BY <1>7 DEF EnableNetwork
  <2>2. \A t \in Threads : net'[t] # m
    BY <1>1, <1>7, <2>1, NoGreenletYet DEF thrVars, Lasting
  <2>3. PhaseOf(m) = "off" /\ PhaseOf(m)' = "waiting"
    BY <1>7, <2>1, <2>2 DEF PhaseInv, PhaseFacts
  <2>4. Service!Enable(m)
    BY <1>3, <2>3, OneNetworkMoves DEF Service!Enable
  <2> QED BY <2>4 DEF ServiceStep, Service!Serve
<1> QED BY <1>4, <1>5, <1>6, <1>7 DEF NetworkRequest

LEMMA ServiceFollows ==
  UndisturbedInv /\ UndisturbedInv' /\ PhaseInv /\ PhaseInv' /\ [Next]_vars
    => \/ ServiceStep /\ UNCHANGED failed
       \/ (Stutters \/ \E n \in Networks : Service!Fail(n)) /\ failed' = TRUE
<1> SUFFICES ASSUME UndisturbedInv, UndisturbedInv', PhaseInv, PhaseInv', [Next]_vars
             PROVE  \/ ServiceStep /\ UNCHANGED failed
                    \/ /\ Stutters \/ \E n \in Networks : Service!Fail(n)
                       /\ failed' = TRUE
  OBVIOUS
<1>1. ASSUME UNCHANGED rowVars, UNCHANGED thrVars PROVE Stutters
  BY <1>1, PhaseKept DEF rowVars, thrVars, Stutters
<1>2. ASSUME NEW n \in Networks, SchedNetwork(n) PROVE ServiceStep /\ UNCHANGED failed
  BY <1>2, ServiceSchedules DEF SchedNetwork
<1>3. ASSUME NEW t \in Threads, ThreadStep(t) PROVE ServiceStep /\ UNCHANGED failed
  BY <1>3, ServicePolls
     DEF ThreadStep, ThreadPolls, ThreadNoConnection, ThreadNotFound,
         ThreadRoundDone, ThreadRoundGone
<1>4. ASSUME NEW n \in Networks, NetworkRequest(n) PROVE ServiceStep /\ UNCHANGED failed
  BY <1>4, ServiceAsked
     DEF NetworkRequest, CreateNetwork, EnableNetwork, DisableNetwork, EditNetwork,
         DeleteNetwork
<1>5. ASSUME NEW t \in Threads, ThreadDies(t)
      PROVE  (Stutters \/ \E n \in Networks : Service!Fail(n)) /\ failed' = TRUE
  BY <1>5, ServiceFails DEF ThreadDies
<1>6. CASE SchedDies
  BY <1>1, <1>6 DEF SchedDies
<1>7. CASE \/ SchedSnapshot \/ SchedResume \/ SchedCleanup
           \/ \E r \in Requests : PollRequest(r) \/ RequestEnd(r)
           \/ UNCHANGED vars
  <2>1. UNCHANGED <<rowVars, thrVars, failed>>
    BY <1>7 DEF SchedSnapshot, SchedResume, SchedCleanup, Removal, PollRequest,
                ManualPoll, TempPoll, RequestEnd, vars
  <2> QED BY <1>1, <2>1 DEF ServiceStep
<1> QED BY <1>2, <1>3, <1>4, <1>5, <1>6, <1>7 DEF Next, SchedStep

LEMMA ServiceInit == Init /\ PhaseInv => Service!Init
<1> SUFFICES ASSUME Init, PhaseInv, NEW n \in Networks
             PROVE  PhaseOf(n) \in {"absent", "off", "waiting"}
  BY DEF Service!Init, Init
<1>1. n \notin disturbed /\ status[n] \in {"absent", "enabled", "disabled"}
  BY DEF Init
<1>2. \A t \in Threads : net[t] # n
  BY SetsAssumption DEF Init
<1> QED BY <1>1, <1>2 DEF PhaseInv, PhaseFacts

\* Every step of the driver is, seen network by network, a step of
\* NetworkService or none at all (modbus_polling.py:39-92): a network that is
\* left alone never gets a second greenlet, and loses the one it has only to an
\* exception, whatever the others go through.
THEOREM ServesSafely == Spec => StepsServe
<1>1. Init => Service!Init
  BY UndisturbedInit, PhaseHolds, ServiceInit
<1>2. UndisturbedInv /\ UndisturbedInv' /\ PhaseInv /\ PhaseInv' /\ [Next]_vars
        => [Service!Next]_Service!vars
  <2>1. Stutters => UNCHANGED [n \in Networks |-> PhaseOf(n)]
    BY DEF Stutters
  <2>2. Stutters /\ UNCHANGED failed => UNCHANGED Service!vars
    BY <2>1 DEF Service!vars
  <2>3. Stutters /\ failed' = TRUE => Service!Break
    BY <2>1 DEF Service!Break
  <2> QED BY <2>2, <2>3, ServiceFollows DEF ServiceStep, Service!Next
<1> QED BY <1>1, <1>2, UndisturbedInit, UndisturbedStep, PhaseHolds, PTL
        DEF Spec, StepsServe, Service!SafeSpec
=============================================================================
