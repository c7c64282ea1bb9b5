----------------------------- MODULE PollRound -----------------------------
(***************************************************************************)
(* The rounds of one network's polling greenlet over the devices of the    *)
(* network (__poll_network_devices), the ping of a device, the fault flags *)
(* of network and devices (__poll_point), manual polls that set the same   *)
(* flags, and REST calls on devices meanwhile.                             *)
(*                                                                         *)
(* Each greenlet has an SQLAlchemy session of its own. A row that the      *)
(* session has loaded is not read again until the session's next commit,   *)
(* which expires all of them; cache[p] holds the fault flags of the rows   *)
(* that p's session has loaded. To read a deleted row that is not loaded   *)
(* raises ObjectDeletedError, to update one that is loaded StaleDataError. *)
(***************************************************************************)
EXTENDS Integers

CONSTANTS
  Devices,     \* rows of the devices table, in the order of the query
  HasPing,     \* devices with a ping_point
  Polls,       \* requests for the points of a device in a round
  Broken,      \* requests <<d, k>> whose answer raises (cannot be decoded)
  Unstored,    \* requests whose answer cannot be stored (its value_operation
               \* raises); the last of a device, as the next update would
               \* refresh the session
  Manual,      \* greenlets that serve a manual poll
  Poller,      \* the greenlet of the network
  Net,         \* the network's own row
  MaxChanges,  \* bound: changes of link, devices and rows in all
  None

Rows == Devices \cup {Net}
Pollers == Manual \cup {Poller}

ASSUME RoundAssumption ==
  /\ Devices \subseteq Nat /\ HasPing \subseteq Devices
  /\ Polls \in Nat \ {0} /\ Broken \subseteq Devices \X (1..Polls)
  /\ Unstored \subseteq Devices \X {Polls}
  /\ Poller \notin Manual
  /\ Net \notin Devices /\ None \notin Devices /\ None \notin Devices \X (1..Polls)
  /\ MaxChanges \in Nat

VARIABLES
  link,     \* can a connection to the network be made?
  open,     \* is the client's socket or port open?
  online,   \* online[d]: does device d answer?
  status,   \* status[d]: absent, enabled, disabled, deleted
  fault,    \* fault[r]: the fault column of the network and the devices
  cache,    \* cache[p]: the fault flags p's session has loaded
  at,       \* where the greenlet is: in a ping or poll, the sleep after it,
            \* asleep between rounds, dead
  todo,     \* devices that follow in its round
  asks,     \* asks[m]: the device and request of a manual poll
  changes   \* counter for the bound

envVars == <<link, online, changes>>
vars == <<envVars, open, status, fault, cache, at, todo, asks>>

PartialFlags == UNION {[R -> BOOLEAN] : R \in SUBSET Rows}

TypeOK ==
  /\ link \in BOOLEAN /\ open \in BOOLEAN
  /\ online \in [Devices -> BOOLEAN]
  /\ status \in [Devices -> {"absent", "enabled", "disabled", "deleted"}]
  /\ fault \in [Rows -> BOOLEAN]
  /\ cache \in [Pollers -> PartialFlags]
  /\ at \in [pc : {"asleep", "ping", "poll", "pause", "dead"},
             dev : Devices \cup {None}, req : 0..Polls]
  /\ todo \in SUBSET Devices
  /\ asks \in [Manual -> (Devices \X (1..Polls)) \cup {None}]
  /\ changes \in 0..MaxChanges

-----------------------------------------------------------------------------
(* Sessions.                                                               *)

\* After a commit nothing is loaded.
NoRows == [r \in {} |-> FALSE]

\* The rows R are read in a session that has loaded c, with f in the table.
See(c, f, R) ==
  [r \in DOMAIN c \cup R |-> IF r \in DOMAIN c THEN c[r] ELSE f[r]]

Seen(c, f, r) == See(c, f, {r})[r]

Deleted(d) == status[d] = "deleted"

\* Reading d's row raises ObjectDeletedError.
Gone(c, d) == Deleted(d) /\ d \notin DOMAIN c

Verdict(f, c, end) == [fault |-> f, cache |-> c, end |-> end]

ConnJudged_setsDevice(c, d) ==
  LET f == [fault EXCEPT ![d] = TRUE]
  IN  IF Gone(c, d) THEN Verdict(fault, c, "gone")
      ELSE Verdict(f, See(NoRows, f, {Net, d}), "conn")

\* __poll_point after a ConnectionException: the network's flag is set unless
\* it is seen as set; the elif reads the device's.
ConnJudged(c, d) ==
  LET set == ~Seen(c, fault, Net)
      f   == IF set THEN [fault EXCEPT ![Net] = TRUE] ELSE fault
      c1  == See(IF set THEN NoRows ELSE c, f, {Net})
  IN  IF Gone(c1, d) THEN Verdict(f, c1, "gone")
      ELSE Verdict(f, See(c1, f, {d}), "conn")

IOJudged_keepsNet(c, d) ==
  IF Gone(c, d) THEN Verdict(fault, c, "gone")
  ELSE IF Deleted(d) /\ ~c[d] THEN Verdict(fault, c, "stale")
  ELSE Verdict([fault EXCEPT ![d] = TRUE], NoRows, "io")

\* After a ModbusIOException: the device's flag is set, the network's cleared.
IOJudged(c, d) ==
  LET set == ~Seen(c, fault, d)
      f   == IF set THEN [fault EXCEPT ![d] = TRUE] ELSE fault
      c1  == IF set THEN NoRows ELSE See(c, f, {d})
  IN  IF Gone(c, d) THEN Verdict(fault, c, "gone")
      ELSE IF set /\ Deleted(d) THEN Verdict(fault, c, "stale")
      ELSE IF Seen(c1, f, Net)
           THEN Verdict([f EXCEPT ![Net] = FALSE], NoRows, "io")
           ELSE Verdict(f, See(c1, f, {Net, d}), "io")

OkJudged_keepsDevice(c, d) ==
  IF Seen(c, fault, Net)
  THEN Verdict([fault EXCEPT ![Net] = FALSE], NoRows, "ok")
  ELSE IF Gone(c, d) THEN Verdict(fault, c, "gone")
  ELSE Verdict(fault, See(c, fault, {Net, d}), "ok")

\* After an answer: the network's flag is cleared, or else the device's.
OkJudged(c, d) ==
  IF Seen(c, fault, Net)
  THEN Verdict([fault EXCEPT ![Net] = FALSE], NoRows, "ok")
  ELSE IF Gone(c, d) THEN Verdict(fault, c, "gone")
  ELSE IF ~Seen(c, fault, d) THEN Verdict(fault, See(c, fault, {Net, d}), "ok")
  ELSE IF Deleted(d) THEN Verdict(fault, c, "stale")
  ELSE Verdict([fault EXCEPT ![d] = FALSE], NoRows, "ok")

-----------------------------------------------------------------------------
(* Requests.                                                               *)

\* What a request k (0: the ping) to device d meets. A failure closes the
\* client; the next request opens it again if it can.
Outcome(d, k) ==
  CASE ~link /\ ~open           -> "conn"
    [] ~link /\ open            -> "io"
    [] link /\ ~online[d]       -> "io"
    [] link /\ online[d]        -> IF <<d, k>> \in Broken THEN "exc" ELSE "ok"

\* The store update of an answer or an I/O error commits; a ping has none, and
\* an exception before the update is swallowed.
StoreUpdated_uncommitted(c, d, k) == c
StoreUpdated(c, d, k) ==
  IF k = 0 \/ (Outcome(d, k) = "ok" /\ <<d, k>> \in Unstored) THEN c ELSE NoRows

Judged(c, d, k) ==
  CASE Outcome(d, k) = "conn" -> ConnJudged(c, d)
    [] Outcome(d, k) = "io"   -> IOJudged(StoreUpdated(c, d, k), d)
    [] Outcome(d, k) = "ok"   -> OkJudged(StoreUpdated(c, d, k), d)
    [] Outcome(d, k) = "exc"  -> Verdict(fault, c, "exc")

-----------------------------------------------------------------------------
(* The greenlet.                                                           *)

Position(pc, d, k) == [pc |-> pc, dev |-> d, req |-> k]
Place(position, rest, c) == [at |-> position, todo |-> rest, cache |-> c]
Asleep == Position("asleep", None, 0)

\* The round is over and commits; an exception leaves it without. The sleep
\* begins by reading the network's interval, which loads its row for the next
\* round.
RoundLeft(c) == Place(Asleep, {}, See(c, fault', {Net}))
RoundOver == RoundLeft(NoRows)

\* The turn of the next device of rest. A loaded device that was deleted has
\* no points any more.
Turn(rest, c) ==
  LET empty == {d \in rest : Deleted(d) /\ d \in DOMAIN c /\ d \notin HasPing}
      left  == rest \ empty
      d     == CHOOSE x \in left : \A y \in left : x <= y
  IN  IF left = {} THEN RoundOver
      ELSE IF Gone(c, d) THEN RoundLeft(c)
      ELSE Place(IF d \in HasPing THEN Position("ping", d, 0) ELSE Position("poll", d, 1),
                 left \ {d}, See(c, fault', {d}))

Onward_retries(d, k, c) ==
  IF k = Polls \/ Deleted(d) THEN Turn(todo, c)
  ELSE Place(Position("poll", d, IF k # 0 /\ fault'[d] THEN k ELSE k + 1), todo,
             See(c, fault', {d}))

\* After request k to device d: its next request or the next device. The
\* points of a deleted device are deleted too: the query after the ping finds
\* none, and to read one later, as the store update of request k has
\* committed, raises ObjectDeletedError.
Onward(d, k, c) ==
  IF k < Polls /\ (Gone(c, d) \/ (k # 0 /\ Deleted(d))) THEN RoundLeft(c)
  ELSE IF k = Polls \/ Deleted(d) THEN Turn(todo, c)
  ELSE Place(Position("poll", d, k + 1), todo, See(c, fault', {d}))

GoTo(place) ==
  /\ at' = place.at
  /\ todo' = place.todo
  /\ cache' = [cache EXCEPT ![Poller] = place.cache]

Init ==
  /\ link \in BOOLEAN /\ open = FALSE
  /\ online \in [Devices -> BOOLEAN]
  /\ status \in [Devices -> {"absent", "enabled", "disabled"}]
  /\ fault \in [Rows -> BOOLEAN]
  /\ \A d \in Devices : status[d] = "absent" => ~fault[d]
  /\ cache = [p \in Pollers |-> NoRows]
  /\ at = Asleep
  /\ todo = {}
  /\ asks = [m \in Manual |-> None]
  /\ changes = 0

\* polling_interval_runtime is over: the network and its devices are queried,
\* which does not refresh rows that are loaded.
RoundStart ==
  /\ at.pc = "asleep"
  /\ UNCHANGED <<envVars, open, status, fault, asks>>
  /\ LET list == {d \in Devices : status[d] = "enabled"}
     IN  GoTo(Turn(list, See(cache[Poller], fault, list \cup {Net})))

\* The request of the greenlet ends as o; the flags are set.
Hears(o) ==
  /\ at.pc \in {"ping", "poll"}
  /\ Judged(cache[Poller], at.dev, at.req).end = o
  /\ fault' = Judged(cache[Poller], at.dev, at.req).fault
  /\ open' = (Outcome(at.dev, at.req) \in {"ok", "exc"})
  /\ UNCHANGED <<envVars, status, asks>>

Loaded == Judged(cache[Poller], at.dev, at.req).cache

\* The sleep of point_interval_ms_between_points begins.
HearsOk ==
  /\ Hears("ok")
  /\ GoTo(Place([at EXCEPT !.pc = "pause"], todo, See(Loaded, fault', {Net})))

PauseOver ==
  /\ at.pc = "pause"
  /\ UNCHANGED <<envVars, open, status, fault, asks>>
  /\ GoTo(Onward(at.dev, at.req, cache[Poller]))

HearsIOError_endsRound == Hears("io") /\ GoTo(RoundOver)

\* A silent device: after a ping it is passed over, after the request for a
\* point its next request follows at once.
HearsIOError ==
  /\ Hears("io")
  /\ GoTo(IF at.pc = "ping" THEN Turn(todo, Loaded)
          ELSE Onward(at.dev, at.req, Loaded))

\* No connection: after a ping the next device is tried, after the request
\* for a point the round is over.
HearsNothing ==
  /\ Hears("conn")
  /\ GoTo(IF at.pc = "ping" THEN Turn(todo, Loaded) ELSE RoundOver)

\* ObjectDeletedError is swallowed, the network's error with it.
HearsGone ==
  /\ Hears("gone")
  /\ GoTo(Onward(at.dev, at.req, Loaded))

\* Any other exception ends the round without a commit.
HearsGarbage ==
  /\ Hears("exc")
  /\ GoTo(RoundLeft(Loaded))

\* StaleDataError leaves a session that raises until it is rolled back, which
\* nobody does: the next access to the database ends the greenlet.
HearsStale ==
  /\ Hears("stale")
  /\ GoTo(Place(Position("dead", None, 0), {}, Loaded))

-----------------------------------------------------------------------------
(* Manual polls and REST calls.                                            *)

ManualPoll(m, d, k) ==
  /\ asks[m] = None
  /\ status[d] \in {"enabled", "disabled"}
  /\ asks' = [asks EXCEPT ![m] = <<d, k>>]
  /\ cache' = [cache EXCEPT ![m] = See(NoRows, fault, {Net, d})]
  /\ UNCHANGED <<envVars, open, status, fault, at, todo>>

\* The request ends, with it the session.
ManualEnd(m) ==
  /\ asks[m] # None
  /\ fault' = Judged(cache[m], asks[m][1], asks[m][2]).fault
  /\ open' = (Outcome(asks[m][1], asks[m][2]) \in {"ok", "exc"})
  /\ cache' = [cache EXCEPT ![m] = NoRows]
  /\ asks' = [asks EXCEPT ![m] = None]
  /\ UNCHANGED <<envVars, status, at, todo>>

Change == changes < MaxChanges /\ changes' = changes + 1

LinkChanges ==
  /\ Change
  /\ link' = ~link
  /\ UNCHANGED <<online, open, status, fault, cache, at, todo, asks>>

DeviceChanges(d) ==
  /\ Change
  /\ online' = [online EXCEPT ![d] = ~online[d]]
  /\ UNCHANGED <<link, open, status, fault, cache, at, todo, asks>>

\* POST or PUT, PUT or PATCH of enable, DELETE.
SetDevice(d, s) ==
  /\ Change
  /\ status[d] # "deleted" /\ s # status[d] /\ s # "absent"
  /\ status[d] = "absent" => s # "deleted"
  /\ status' = [status EXCEPT ![d] = s]
  /\ fault' = [fault EXCEPT ![d] = fault[d] /\ s # "deleted"]
  /\ UNCHANGED <<link, online, open, cache, at, todo, asks>>

-----------------------------------------------------------------------------
GreenletStep ==
  \/ RoundStart
  \/ PauseOver
  \/ HearsOk
  \/ HearsIOError
  \/ HearsNothing
  \/ HearsGone
  \/ HearsGarbage
  \/ HearsStale

Next ==
  \/ GreenletStep
  \/ \E m \in Manual :
       \/ \E d \in Devices, k \in 1..Polls : ManualPoll(m, d, k)
       \/ ManualEnd(m)
  \/ LinkChanges
  \/ \E d \in Devices :
       \/ DeviceChanges(d)
       \/ \E s \in {"enabled", "disabled", "deleted"} : SetDevice(d, s)

Spec == Init /\ [][Next]_vars

\* Sleeps end, and a request is answered or times out.
FairSpec ==
  /\ Spec
  /\ WF_vars(GreenletStep)
  /\ \A m \in Manual : WF_vars(ManualEnd(m))

-----------------------------------------------------------------------------
\* The greenlet only ends when a device is deleted between the reading of its
\* flag and the setting of it, in a session that was not refreshed: by a ping,
\* or by a request whose answer could not be stored (modbus_polling.py:240-248,
\* poll.py:147-151). Never by another deletion, a lost connection or an answer
\* that cannot be decoded.
OnlyUnrefreshedKills ==
  at.pc = "dead" =>
    \E d \in Devices : Deleted(d) /\ (d \in HasPing \/ <<d, Polls>> \in Unstored)

\* An answer or an I/O error of a request for a point shows that the network
\* is reachable: it leaves the network's flag cleared, although other polls set
\* it while this one waited, since the store update before it has refreshed
\* the session (modbus_polling.py:244-245, model_point_store.py:80). Only an
\* answer that could not be stored may go by an outdated flag (poll.py:147).
ContactClearsNetwork ==
  [][/\ at.pc = "poll"
     /\ HearsIOError \/ (HearsOk /\ <<at.dev, at.req>> \notin Unstored)
     => ~fault'[Net]]_vars

InRound == at.pc \in {"ping", "poll", "pause"}

\* What ends a round before its last device.
Cut ==
  \/ HearsNothing \/ HearsGarbage
  \/ \E d \in todo \cup {at.dev} : Deleted(d)

\* The requests of a round follow each other in order, none is made twice, and
\* a device of the round is only passed over when it was deleted: silent
\* devices, swallowed errors and devices that go during a request lead on to
\* the next request or device, and the rest of a round is only given up when a
\* connection fails, an answer cannot be decoded or a device of the round was
\* deleted (modbus_polling.py:86-105).
RoundInOrder ==
  [][InRound =>
       /\ \A d \in todo \ todo' :
            at'.dev = d \/ Deleted(d) \/ (at'.dev = None /\ Cut)
       /\ at'.dev \notin {at.dev, None} => at'.dev \in todo /\ at.dev < at'.dev
       /\ at'.dev = at.dev /\ at' # at =>
            at'.req > at.req \/ (at'.req = at.req /\ at'.pc = "pause")]_vars

Alive == at.pc # "dead"
Enabled(d) == status[d] = "enabled"

\* Nothing before device d's turn makes a round end early.
Unobstructed(d) ==
  Alive /\ \A e \in Devices : e < d /\ Enabled(e) => \A k \in 1..Polls : <<e, k>> \notin Broken

\* As long as connections can be made, every enabled device is polled or
\* pinged again and again, whether the others answer or not, unless an earlier
\* one gives an answer that cannot be decoded (modbus_polling.py:82).
EveryDeviceTried ==
  \A d \in Devices :
    <>[](link /\ Enabled(d) /\ Unobstructed(d)) => []<>(at.dev = d)

\* When a device answers from some time on, its flag and the network's end up
\* cleared, although one answer clears only one of them and manual polls and
\* outdated sessions set them meanwhile (modbus_polling.py:244-248).
FaultsCleared ==
  \A d \in Devices :
    <>[](/\ link /\ Enabled(d) /\ online[d] /\ Unobstructed(d)
         /\ <<d, 1>> \notin Broken)
      => <>[](~fault[d] /\ ~fault[Net])

\* A device that stays silent ends up flagged; and so does the network, when no
\* connection can be made for good.
FaultsRaised ==
  \A d \in Devices :
    /\ <>[](link /\ Enabled(d) /\ ~online[d] /\ Unobstructed(d)) => <>[]fault[d]
    /\ <>[](~link /\ Enabled(d) /\ Alive) => <>[]fault[Net]
=============================================================================
