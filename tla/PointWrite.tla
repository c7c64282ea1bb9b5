----------------------------- MODULE PointWrite -----------------------------
(***************************************************************************)
(* One writable point: its priority array, the value the device holds and  *)
(* the value the point store holds, with the polling greenlet, manual      *)
(* polls, value writes and edits of the point over REST, I/O errors,       *)
(* answers that cannot be stored and restarts of the process.              *)
(*                                                                         *)
(* The command is the first value of the priority array that is not null.  *)
(* A poll takes it, waits for the client's transaction lock, writes it to  *)
(* the device and puts what the device answers into the point store.       *)
(***************************************************************************)
EXTENDS Integers

CONSTANTS
  Values,       \* values of the priority array and of the device: whole
                \* numbers that the point's registers can hold, 0 is one
  Setups,       \* points, devices and bounds to look at
  Manual,       \* manual polls that may be under way
  Poller,       \* the greenlet of the network
  None          \* null

Pollers == Manual \cup {Poller}

\* kind: holding registers, a coil (WRITE_COIL) or several (WRITE_COILS). once:
\* write_value_once. grouped: the device supports_multiple_rw. shown[v]: v
\* scaled, operated on and rounded (the "value"), None if the value_operation
\* cannot be applied to v. lowest: the lowest priority (16 in the code, 1 is
\* the highest). fallbacks, max_faults, max_crashes: bounds of the run, the
\* first one on the fallback values that requests give.
Setup == [kind : {"register", "coil", "coils"}, once : BOOLEAN, grouped : BOOLEAN,
          shown : [Values -> Int \cup {None}], cov_threshold : Nat,
          lowest : Nat \ {0}, fallbacks : SUBSET (Values \cup {None}),
          max_faults : Nat, max_crashes : Nat]

ASSUME WriteAssumption ==
  /\ Values \subseteq Nat /\ 0 \in Values
  /\ Setups \subseteq Setup
  /\ \A s \in Setups : s.kind # "register" => 1 \in Values
  /\ Poller \notin Manual
  /\ None \notin Int /\ None \notin Pollers

VARIABLES
  setup,           \* the point and its device; never changes
  priority_array,  \* priority_array_write
  fallback_value,
  point_store,     \* value, value_original, fault
  device,          \* what the coil or the registers hold
  pc,              \* idle, listed, waiting, sent, unheard
  write_value,     \* the command a poll took
  lock,            \* who has the client's transaction lock
  faults, crashes, \* counters for the bounds
  untold           \* only for the properties: the device executed a write whose
                   \* outcome the store was not told, nor that of a later one

rowVars == <<priority_array, fallback_value>>
pollVars == <<pc, write_value, lock>>
boundVars == <<faults, crashes>>
vars == <<setup, rowVars, point_store, device, pollVars, boundVars, untold>>

Priorities == 1..setup.lowest

Store == [value : Int \cup {None}, value_original : Values \cup {None}, fault : BOOLEAN]

TypeOK ==
  /\ setup \in Setups
  /\ priority_array \in [Priorities -> Values \cup {None}]
  /\ fallback_value \in Values \cup {None}
  /\ point_store \in Store
  /\ device \in Values
  /\ pc \in [Pollers -> {"idle", "listed", "waiting", "sent", "unheard"}]
  /\ write_value \in [Pollers -> Values \cup {None}]
  /\ lock \in Pollers \cup {None}
  /\ faults \in 0..setup.max_faults /\ crashes \in 0..setup.max_crashes
  /\ untold \in BOOLEAN

-----------------------------------------------------------------------------
\* get_highest_priority_value_from_priority_array.
Highest(a) ==
  LET set == {p \in Priorities : a[p] # None}
  IN  IF set = {} THEN None ELSE a[CHOOSE p \in set : \A q \in set : p <= q]

Command == Highest(priority_array)

\* What is written for a command; a null is written as 0.
Payload(v) == IF v = None THEN 0 ELSE v

\* What the device makes of it.
Echo(v) == IF setup.kind # "register" /\ Payload(v) # 0 THEN 1 ELSE Payload(v)

\* What poll p then gets: of WRITE_COIL the state of the coil, of the other
\* requests what was written. The greenlet writes neighbouring coils of a
\* device with multiple r/w as one WRITE_COILS.
Answers(p, v) ==
  IF setup.kind # "coil" THEN {Payload(v)}
  ELSE IF setup.grouped /\ p = Poller THEN {Echo(v), Payload(v)}
  ELSE {Echo(v)}

WithFallback_never(a) == a

\* PriorityArrayModel.check_self: an array of nulls gets the fallback value.
WithFallback(a) ==
  IF Highest(a) = None THEN [a EXCEPT ![setup.lowest] = fallback_value] ELSE a

\* The priorities of a that are given replace those of the array.
Overwritten(a) ==
  WithFallback([p \in Priorities |-> IF p \in DOMAIN a THEN a[p] ELSE priority_array[p]])

Distance(x, y) == IF x < y THEN y - x ELSE x - y

\* The WHERE of PointStoreModel.update does not match: value and
\* value_original stay as they are.
Masked(s, v) ==
  /\ s.value # None /\ setup.shown[v] # None
  /\ ~s.fault
  /\ Distance(s.value, setup.shown[v]) < setup.cov_threshold \/ s.value = setup.shown[v]

Stored(v) == [value |-> setup.shown[v], value_original |-> v, fault |-> FALSE]

Init ==
  /\ setup \in Setups
  /\ priority_array \in [Priorities -> Values \cup {None}]
  /\ fallback_value \in setup.fallbacks
  /\ Command = None => fallback_value = None
  /\ device \in {Echo(v) : v \in Values}
  /\ \/ point_store = [value |-> None, value_original |-> None, fault |-> FALSE]
     \/ \E p \in Pollers, v \in Values :
          \E a \in Answers(p, v) :
            Echo(v) = device /\ setup.shown[a] # None /\ point_store = Stored(a)
  /\ pc = [p \in Pollers |-> "idle"]
  /\ write_value = [p \in Pollers |-> None]
  /\ lock = None
  /\ faults = 0 /\ crashes = 0
  /\ untold = FALSE

-----------------------------------------------------------------------------
(* Requests.                                                               *)

\* PATCH of the point's value, at some priorities; null relinquishes one.
WriteValue(a) ==
  /\ priority_array' = Overwritten(a)
  /\ UNCHANGED <<setup, fallback_value, point_store, device, pollVars, boundVars, untold>>

\* PUT or PATCH of the point with a priority_array_write a (of no priorities if
\* it is not part of the request) and a fallback_value f (the one it has, in a
\* PATCH without). The array is checked against the fallback value from before
\* the request, and is committed first: the other attributes may be refused.
\* Without a, a command that is null or 0 is taken for a missing one, and so is
\* an f of 0.
PatchPoint(a, f) ==
  /\ fallback_value' \in {f, fallback_value}
  /\ priority_array' =
       IF DOMAIN a # {} THEN Overwritten(a)
       ELSE IF Command \in {None, 0}
       THEN WithFallback([priority_array EXCEPT
              ![setup.lowest] = IF f \in {None, 0} THEN fallback_value ELSE f])
       ELSE priority_array
  /\ UNCHANGED <<setup, point_store, device, pollVars, boundVars, untold>>

-----------------------------------------------------------------------------
(* Polls.                                                                  *)

ToBeWritten_ignoresFault ==
  Command # None /\ ~(setup.once /\ point_store.value_original = Command)

ToBeWritten_comparesValue ==
  Command # None /\ ~(setup.once /\ ~point_store.fault /\ point_store.value = Command)

\* is_point_to_be_written.
ToBeWritten ==
  /\ Command # None
  /\ ~(setup.once /\ ~point_store.fault /\ point_store.value_original = Command)

\* poll_point takes the command, whatever was tested before.
Take(p) ==
  /\ pc' = [pc EXCEPT ![p] = "waiting"]
  /\ write_value' = [write_value EXCEPT ![p] = Command]
  /\ UNCHANGED <<setup, rowVars, point_store, device, lock, boundVars, untold>>

PollCheck_always ==
  /\ pc[Poller] = "idle"
  /\ ~setup.grouped
  /\ Take(Poller)

\* A device without multiple r/w: the test and the poll follow each other.
PollCheck ==
  /\ pc[Poller] = "idle"
  /\ ~setup.grouped
  /\ ToBeWritten
  /\ Take(Poller)

\* A device with multiple r/w: the lists of all points are made first.
PollList ==
  /\ pc[Poller] = "idle"
  /\ setup.grouped
  /\ ToBeWritten
  /\ pc' = [pc EXCEPT ![Poller] = "listed"]
  /\ UNCHANGED <<setup, rowVars, point_store, device, write_value, lock, boundVars, untold>>

\* The turn of the point comes after other requests; its row is read again.
PollListed ==
  /\ pc[Poller] = "listed"
  /\ Take(Poller)

ManualPoll(p) ==
  /\ p \in Manual
  /\ pc[p] = "idle"
  /\ Take(p)

Send_withoutLock(p) ==
  /\ pc[p] = "waiting"
  /\ lock' = p
  /\ pc' = [pc EXCEPT ![p] = "sent"]
  /\ device' = Echo(write_value[p])
  /\ UNCHANGED <<setup, rowVars, point_store, write_value, boundVars, untold>>

\* The transaction lock is taken and the device executes the write.
Send(p) ==
  /\ pc[p] = "waiting"
  /\ lock = None
  /\ lock' = p
  /\ pc' = [pc EXCEPT ![p] = "sent"]
  /\ device' = Echo(write_value[p])
  /\ UNCHANGED <<setup, rowVars, point_store, write_value, boundVars, untold>>

\* The write does not reach the device, or is refused by it.
SendUnheard(p) ==
  /\ pc[p] = "waiting"
  /\ lock = None
  /\ faults < setup.max_faults
  /\ lock' = p
  /\ pc' = [pc EXCEPT ![p] = "unheard"]
  /\ UNCHANGED <<setup, rowVars, point_store, device, write_value, boundVars, untold>>

Done(p) ==
  /\ pc' = [pc EXCEPT ![p] = "idle"]
  /\ write_value' = [write_value EXCEPT ![p] = None]

\* A poll ends with an error, and the store is not touched.
Untouched(p) ==
  /\ faults < setup.max_faults
  /\ faults' = faults + 1
  /\ Done(p)
  /\ UNCHANGED <<setup, rowVars, point_store, device, crashes>>

\* ConnectionException or an exception of the write's encoding: nothing was
\* sent, the round or the request ends.
NoConnection(p) ==
  /\ pc[p] = "waiting"
  /\ lock = None
  /\ Untouched(p)
  /\ UNCHANGED <<lock, untold>>

\* The store is not told what became of the write.
NotTold(p) ==
  /\ lock' = None
  /\ untold' = (untold \/ pc[p] = "sent")

\* ConnectionException after the request went out: the socket is closed before
\* the answer. The device may have executed the write.
ConnectionLost(p) ==
  /\ pc[p] \in {"sent", "unheard"}
  /\ Untouched(p)
  /\ NotTold(p)

\* The device answers; update_point_value stores the answer unless it is
\* masked by the threshold or the rounding.
AnswerOk(p) ==
  /\ pc[p] = "sent"
  /\ lock' = None
  /\ Done(p)
  /\ \E a \in Answers(p, write_value[p]) :
       /\ setup.shown[a] # None
       /\ point_store' = IF Masked(point_store, a) THEN point_store ELSE Stored(a)
  /\ untold' = FALSE
  /\ UNCHANGED <<setup, rowVars, device, boundVars>>

\* update_point_value raises on an answer, or the database on anything that is
\* to be stored: the exception is logged, and the store stays as it is.
AnswerUnstored(p) ==
  \/ /\ pc[p] = "sent"
     /\ \E a \in Answers(p, write_value[p]) : setup.shown[a] = None
     /\ Done(p)
     /\ NotTold(p)
     /\ UNCHANGED <<setup, rowVars, point_store, device, boundVars>>
  \/ /\ pc[p] \in {"sent", "unheard"}
     /\ Untouched(p)
     /\ NotTold(p)

AnswerFault_notStored(p) ==
  /\ pc[p] \in {"sent", "unheard"}
  /\ Untouched(p)
  /\ lock' = None
  /\ untold' = FALSE

\* ModbusIOException (no answer in time, or an error): the store is marked.
AnswerFault(p) ==
  /\ pc[p] \in {"sent", "unheard"}
  /\ faults < setup.max_faults
  /\ faults' = faults + 1
  /\ lock' = None
  /\ Done(p)
  /\ point_store' = [point_store EXCEPT !.fault = TRUE]
  /\ untold' = FALSE
  /\ UNCHANGED <<setup, rowVars, device, crashes>>

\* The process ends and starts again; the rows are in the database.
Crash ==
  /\ crashes < setup.max_crashes
  /\ crashes' = crashes + 1
  /\ pc' = [p \in Pollers |-> "idle"]
  /\ write_value' = [p \in Pollers |-> None]
  /\ lock' = None
  /\ untold' = (untold \/ \E p \in Pollers : pc[p] = "sent")
  /\ UNCHANGED <<setup, rowVars, point_store, device, faults>>

-----------------------------------------------------------------------------
\* Values for some of the priorities.
Writes(D) == [D -> Values \cup {None}]

Request ==
  \E D \in SUBSET Priorities : \E a \in Writes(D) :
    \/ D # {} /\ WriteValue(a)
    \/ \E f \in setup.fallbacks : PatchPoint(a, f)

Answer(p) == AnswerOk(p) \/ AnswerUnstored(p) \/ AnswerFault(p) \/ ConnectionLost(p)

Step(p) ==
  \/ Send(p)
  \/ SendUnheard(p)
  \/ NoConnection(p)
  \/ Answer(p)

Next ==
  \/ Request
  \/ PollCheck \/ PollList \/ PollListed
  \/ \E p \in Manual : ManualPoll(p)
  \/ \E p \in Pollers : Step(p)
  \/ Crash

Spec == Init /\ [][Next]_vars

\* The greenlet goes on with its rounds, a poll is answered or times out, and
\* one that waits for the lock gets it in the end (waiters are queued).
FairSpec ==
  /\ Spec
  /\ WF_vars(PollCheck \/ PollList) /\ WF_vars(PollListed)
  /\ \A p \in Pollers :
       SF_vars(Send(p) \/ SendUnheard(p) \/ NoConnection(p))
       /\ WF_vars(Answer(p))

-----------------------------------------------------------------------------
\* Unless the outcome of a write could not be stored (untold), a store without
\* fault tells what the device holds, up to the rounding and the threshold:
\* lost requests, lost answers, polls that overtake each other and restarts
\* included. One write that is stored makes up for one that was not.
StoreTellsDevice ==
  /\ ~untold /\ lock = None
  /\ ~point_store.fault /\ point_store.value # None
  => \E v \in Values : Echo(v) = device /\ Masked(point_store, v)

\* A request to a point that has a fallback value leaves it with a command,
\* whatever it writes and even if it takes the fallback value away. So only a
\* request that gives a point its fallback value can leave a fallback value
\* without a command, and no longer than until the next request
\* (point_singular.py:40-50, model_priority_array.py:44-48).
FallbackTakesOver ==
  [][fallback_value # None /\ rowVars' # rowVars => Command' # None]_vars

\* A command that stays as it is reaches the device in the end and stays. With
\* write_value_once, is_point_to_be_written skips it for good if it equals the
\* store's value_original, and that may be of an older write: after an outcome
\* that was not stored, or if the rounding or the threshold masked the value
\* that is there (modbus_polling.py:260-267).
CommandReachesDevice ==
  \A v \in Values :
    <>[](Command = v) =>
      <>[](\/ device = Echo(v)
           \/ /\ setup.once /\ ~point_store.fault /\ point_store.value_original = v
              /\ untold \/ \E w \in Values : Echo(w) = device /\ Masked(Stored(v), w))

\* The rounding and the threshold hide no difference.
NothingHidden == \A v, w \in Values : Masked(Stored(v), w) => v = w

\* Every answer is the state of the device.
AnswersState == \A p \in Pollers, v \in Values : Answers(p, v) = {Echo(v)}

\* With write_value_once, and where nothing is hidden, the greenlet does not
\* write a value that the device already holds, unless a fault is on record,
\* an outcome was not stored or a poll is under way (CHANGELOG.md:13, "Fix:
\* write_value_once").
WrittenOnce ==
  [][/\ setup.once /\ NothingHidden /\ AnswersState
     /\ lock = None /\ ~untold
     /\ pc[Poller] = "idle" /\ pc'[Poller] # "idle"
     /\ ~point_store.fault /\ point_store.value # None
     => device # Command]_vars

\* Nor does it leave out a value that the device does not hold: where nothing
\* is hidden and no outcome is missing, what is_point_to_be_written skips is
\* there, whatever lost writes, lost answers, restarts and manual polls came
\* before (modbus_polling.py:260-267).
SkippedOnlyIfThere ==
  /\ setup.once /\ NothingHidden
  /\ lock = None /\ ~untold
  /\ Command # None /\ ~ToBeWritten
  => device = Echo(Command)

-----------------------------------------------------------------------------
(* The promise to the user of the point, and how it is kept.               *)

Effect == [v \in Values \cup {None} |-> Echo(v)]

\* <<v, w>>: a store that tells of v may be left as it is for w.
Hides ==
  {<<Echo(q[1]), Echo(q[2])>> : q \in {q \in Values \X Values : Masked(Stored(q[1]), q[2])}}

Waiting  == {p \in Pollers : pc[p] = "waiting"}
Underway == {write_value[p] : p \in Waiting}

\* Where the one poll is that talks to the device.
Turn ==
  IF \E p \in Pollers : pc[p] = "sent" THEN "written"
  ELSE IF \E p \in Pollers : pc[p] = "unheard" THEN "lost"
  ELSE "free"

\* The contents that the store tells of; a fault puts it out of date, although
\* the last value stays in it.
Report ==
  IF point_store.fault \/ point_store.value = None
  THEN None ELSE Echo(point_store.value_original)

Service == INSTANCE PointService WITH
  effect <- Effect, hides <- Hides, command <- Command, underway <- Underway,
  turn <- Turn, report <- Report

\* However the greenlet, the manual polls, the requests, faults, outcomes that
\* are not stored and restarts interleave, the device is only given commands
\* that the point had since the last restart, one at a time, and what an answer
\* puts into the store is what the device holds at that moment: no poll reports
\* the write of another, and an old report stands after a write only if it is
\* still true or if the outcome is marked as untold (poll.py:63-157,
\* model_point_store.py:48-79).
ServesPoint == Service!Spec
=============================================================================
