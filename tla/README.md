# Verification of the Rubix Modbus driver

TLA+ models of `nubeio-rubix-app-modbus-py` (the Python service under
`src/`), TLC runs on small instances and TLAPS proofs for all values of the
constants. Source positions below are relative to `src/src/`.

## 1. The system

The service polls Modbus devices over RTU and TCP, keeps the last value of
every point in SQLite, writes commands to writable points, publishes values
over MQTT and copies them to mapped points of other services. It is **one
process under gevent** (`run.py` patches everything): REST requests, the
schedulers, one polling greenlet per network and the MQTT threads are
greenlets of one hub, and a greenlet gives way only where it waits for a
socket, a serial port, a sleep, a lock or the start of a thread. SQLite and
the MQTT client's queue never make a greenlet wait. Each greenlet has an
SQLAlchemy session of its own, whose loaded rows live until its next commit.

| Component | State | Operations | Talks to |
|---|---|---|---|
| Scheduler (`services/polling/modbus_polling.py:35-62`) | snapshot of the enabled networks | every 2 s: register connections, start missing greenlets, remove connections of other keys | registry, polling greenlets |
| Connection registry (`services/modbus_registry.py`, `modbus_{rtu,tcp}_registry.py`) | key -> client, `connection_key`, `is_running` | add, edit and get; remove; start-up registration | scheduler, greenlets, manual polls |
| Polling greenlet of a network (`modbus_polling.py:64-105`) | current connection, round | rounds over devices and points; `is_running := True` | registry, devices, fault flags |
| Grouped polling (`modbus_polling.py:106-170`, `poll.py:16-94`) | list, `i`, `last_point`, `response_size`, `arr_ind` | gather adjacent points, one request for each group, take its response apart | device, point stores |
| Single polling (`poll.py:97-223`, `functions.py`) | command taken, transaction lock | read or write one point, store the answer | device, point store |
| Fault flags (`modbus_polling.py:219-258`) | `fault` of networks and devices | set and cleared after each request | REST clients |
| Priority array (`models/model_priority_array.py`, `resources/point/point_value_writer.py`) | 16 priorities, fallback value | value writes, edits | polling |
| Point store (`models/model_point_store.py`) | `value`, `value_original`, `fault` | conditional update | MQTT, mappings |
| Row of a point (`models/model_point.py`) | function code, type, length, byte order, ranges | `check_self` adjusts them on every edit, `update` scales the store anew | priority array, point store, polling |
| Network, device, point resources (`resources/`) | rows | POST, PUT, PATCH, DELETE, manual polls | all of the above |
| Mappings (`models/model_mapping.py`, `resources/mapping/`) | uuid, name and state of each mapped point | create, delete, update of all states, sync of values | generic and BACnet services |
| MQTT (`services/mqtt_client/`, `services/mqtt_republish.py`) | retained messages at the broker | publish on change, clear on deletion, clear unknown topics now and then | broker |
| Data types (`services/polling/function_utils.py`) | none | packing and unpacking of registers | polling |
| Start-up, settings, system resources, schemas | configuration | none that changes state later | |

What makes it hard:

- the scheduler, the greenlets and the manual polls share the registry, and
  each keeps a reference to a connection over a wait;
- `is_running` is set by one greenlet and read by another, and never reset;
- the grouping loop combines the end of the list, the response limit and the
  adjacency of points, and goes on after a failed request;
- commands are tested, taken, sent, answered and stored at different times,
  with a threshold and a rounding that leave the store behind the device, and
  an answer may reach the service and still not be stored;
- flags are tested on rows that a session loaded before the request, and a
  response is taken apart by rows that are loaded again in the midst of it;
- an edit of a point is several commits, and the row it leaves decides what
  registers are asked for and what their contents mean;
- messages and requests to other services arrive late, in any order, or not.

What makes each component correct is stated by its properties (section 3).
`PROJECT.json` lists the hazards line by line with the properties that would
show them.

## 2. Modules

| Module | Models | Proofs |
|---|---|---|
| `ModbusPolling` (`MCModbusPolling`) | scheduler, registry, greenlets by network, manual polls, edits of networks | `ModbusPolling_proofs` |
| `NetworkService` | what polling promises a network; `ModbusPolling` implements it | in `ModbusPolling_proofs` |
| `PollRound` (`MCPollRound`) | the rounds of one greenlet over its devices, fault flags and sessions | `PollRound_proofs` |
| `AggregatePoll` (`MCAggregatePoll`) | one pass of the grouping loop over a sorted list, and each response taken apart | `AggregatePoll_proofs` |
| `PointWrite` (`MCPointWrite`) | one writable point: priority array, polls, device, store | `PointWrite_proofs` |
| `PointService` | what a writable point promises its user; `PointWrite` implements it | in `PointWrite_proofs` |
| `Registers` | data types, byte and word orders: packing and unpacking of registers | in `PointRow_proofs` |
| `PointRow` (`MCPointRow`) | one point's row and store under edits, polls and restarts; extends `Registers` | `PointRow_proofs` |
| `Mqtt` | retained messages and the listener that clears them | `Mqtt_proofs` |
| `Mapping` | the sync with mapped points and the update of their states | `Mapping_proofs` |

The components meet at these seams: a `ThreadPolls` ... `ThreadRoundDone` of
`ModbusPolling` is a round of `PollRound`; a request of `PollRound` is either a
request of `AggregatePoll`'s pass or a poll of `PointWrite`; the register that
`AggregatePoll` finds for a point is what `PointRow` decodes; an answer that
`PointWrite` does not store is one of `Unstored` in `PollRound`; `AnswerOk` of
`PointWrite` is where `Mqtt!Poll` and `Mapping!PointUpdated` start.

Definitions named `Name_bug` are mutated forms of `Name`. No specification
uses them; each shows a bug that a property reveals.

### ModbusPolling

An action is what a greenlet does between two waits. The scheduler handles
several networks in one stretch without a wait, so its stretch is a sequence
of steps with `sched = "round"` during which no other greenlet moves;
`Thread.start` does wait (gevent's start waits for the started event), hence
`"handover"`.

- `registry[n]`, `temp`, `conn[c]` are the registry's dictionary (the fresh
  keys of polls of non-existing points in `temp`), with owner,
  `connection_key` and `is_running` of each object. Connection and greenlet
  identities are recycled when nothing refers to them.
- `SchedSnapshot`, `SchedNetwork`, `SchedResume`, `SchedCleanup` are `__poll`
  and `__poll_network`; `ThreadPolls`, `ThreadNoConnection`, `ThreadNotFound`,
  `ThreadRoundDone`, `ThreadRoundGone` are the loop of
  `__poll_network_thread`; `SchedDies` and `ThreadDies` are exceptions outside
  its `try`.
- `ManualPoll`, `TempPoll`, `RequestEnd`, and `CreateNetwork` to
  `DeleteNetwork` are REST requests. A round is one step from first request to
  last; its inside is `PollRound`.
- `disturbances` and `edits` record the past: how often each network was
  disabled or edited (`disturbed` is the set of those that were), and how often
  any was, which `MaxEdits` bounds. No guard but that of the edits reads them.
  `failed` records whether an exception (`SchedDies`, `ThreadDies`) has ended a
  loop; no guard reads it.

**NetworkService** is the abstract specification: each network by itself, in one
of seven phases, with one poller from its enabling until the user disables,
edits or deletes it, or (`Fail(n)`) an exception ends the poller
and leaves the network waiting for another one; `Break` is an exception that ends
anything else, and both set `failed`. `PhaseOf(n)` is the refinement
mapping; a network with two greenlets would be "doubled", which is no phase.
`Served` demands that no phase
between enabling and release lasts for ever, until a first exception. This is what weak fairness of the
abstract steps amounts to here, stated with leads-to, because ENABLED of an
abstract step is not defined by substitution. The run checks
`ServesNetworks == Service!Spec`.

### AggregatePoll

`Gather` passes a point that is not the last of its group; `FlushOk`,
`FlushIOError`, `FlushGone` (an I/O error, and a point was deleted) and
`FlushLost` are the outcomes of a request, which waits: meanwhile `Edit` may
change one row of the list. A response is then taken apart point by point
(`TakePoint`) with `arr_ind`, as `poll.py:57-91` does: the commit for a point
expires the session's rows, so that from then on the length of a point is the
one the row has now (`session`, `Extent`). `TakenApart` also covers a point
that is deleted meanwhile; `Abort` is any other exception. `place[j]` says which register the
value of point `j` came from or went to; `log` records the requests with the
rows they were made for. `kind` tells a list of reads, whose data are taken
apart by `register_length`, from one of writes, whose values were put together
by the width of `data_type`. A `register_length` of zero and edits of register
or function code during a pass are left out.

### PointWrite

The command is the first value of `priority_array` that is not null.
`WriteValue(a)` and `PatchPoint(a, f)` are the REST requests. The second one may
carry a priority array `a`, a fallback value `f` and other attributes: the array
is checked against the fallback value from *before* the request and committed
first, and the attributes may then be refused (`point_singular.py:40-50`); its
tests for truth take 0 for null.

`PollCheck` (single polling) tests and takes the command at once, `PollList` and
`PollListed` (grouped polling) at different times. `Send` and `SendUnheard` take
the client's transaction lock and reach the device or not. A poll then ends in
one step, as nothing waits between the answer and the commit:

| Outcome | Store | Code |
|---|---|---|
| `AnswerOk` | the answer, unless `Masked` (the WHERE clause of the update) hides it | `model_point_store.py:48-67` |
| `AnswerFault` | marked as faulty (`ModbusIOException`) | `poll.py:136-143` |
| `AnswerUnstored` | as it was: `update_point_value` or the database raised, which is logged | `poll.py:87-91`, `145-150` |
| `ConnectionLost` | as it was: `ConnectionException` after the request went out | `modbus_polling.py:235` |
| `NoConnection` | as it was: nothing was sent | `modbus_polling.py:235` |
| `Crash` | as it was | |

Three of them may leave a device that has changed behind a store that does not
know of it and shows no fault. `untold` records this, for the properties only: a
write was executed, and neither its outcome nor that of a later write was
stored. `shown[v]` stands for scale, value operation and rounding: any
function of the value, undefined where the operation cannot be applied. `Answers` is
what a write returns: the state of the coil for WRITE_COIL, what was written
for all others, WRITE_COILS included (`functions.py:114-119`). `Values` are whole
numbers that the registers can hold; fractions and overflow are in `PointRow`. Edits of
the threshold and the rounding themselves are left out, and so are RAW points of
several registers: their single write returns nothing, so that they are always
at fault. `setup` is the point a behaviour is about; it never changes.

**PointService** is the abstract specification: the user asks for a command, the
command of the moment goes on its way (`Take`), the device executes one command
at a time and its answer makes the report what the device holds then. The
mapping: `Effect` is what the device makes of a value (`Echo`), `Hides` which
values the store does not tell apart (`Masked`), `Underway` the commands of the
polls that wait for the lock, `Turn` where the one poll stands that holds it, and
`Report` the store's `value_original`, none at a fault. Several polls may carry
the same command, so that a command leaves `underway` or stays. What it rules out:
a poll that reports another poll's write, an old report that stands after a
fault or an answered write without `untold`, a command from before a restart or
one that the point never had. `Unreported` and `Restart` are the only steps that
set `untold`, and they set it whenever a command was executed.

### Registers and PointRow

`Registers` translates `function_utils.py`: `WordsOf` splits a value into words
of two bytes (`Base` is the number of byte values, 256 in the code), `Ordered`
puts bytes and words into one of the four orders (an operation that is its own
inverse), `Build` and `Convert` pack and unpack. Values are counted in halves, so
that the cutting of fractions can be seen. What the bits of a float mean is a parameter.

`PointRow` is one point: `CheckSelf` is the adjustment of `check_self`, by the
function code and length from before it; `Patch` an edit, `PatchCut` and
`PatchCutInCheck` an edit that a restart ends between its commits (the second
one inside `check_self`, whose deletion of the priority array commits a row that
is adjusted by half). `Valid` is the validation attribute by attribute.

A poll is two steps: `Request(p)` loads the row that it asks and decodes by
(`loaded[p]`), and the answer comes later, while edits go on. `ReadAlone` and
`WriteAlone` are the answers for the point by itself, `ReadInGroup`,
`WriteInGroup` and `WriteCoilInGroup` those in a group, where `k` registers of
other points come first. By itself, and for the first of a group, the answer is
decoded and scaled by the loaded row (`model_point.py:161`); later points of a
group may have their row loaded again (`Decoding`). `PollFault` is an I/O error
and `PollLost` an end without anything stored. The division in `Scaled` is the
integer one.

### PollRound

`cache[p]` holds the fault flags that the session of greenlet `p` has loaded;
`See` adds what is loaded by a read, `NoRows` is a session after a commit.
`ConnJudged`, `IOJudged` and `OkJudged` are `__poll_point`'s treatment of the
three outcomes, including what happens when the device's row is gone
(`ObjectDeletedError`, swallowed) or loaded but gone (`StaleDataError`, which
leaves the session unusable and ends the greenlet). `RoundLeft`
is the sleep between two rounds, before which the network's row is loaded
again. `RoundStart`, `PauseOver`
and the `Hears` actions walk the greenlet over devices and requests in the
order of the query. One client is shared by all polls; a failed request closes
it. `Unstored` are requests whose answer cannot be stored: the
exception is logged, nothing is committed, and the flags are judged by the rows
the session had before. Points are only counted (`Polls`), and what a request is about is in
`AggregatePoll` and `PointWrite`. The network's own row is never deleted here
(that is in `ModbusPolling`), and devices are ordered by their number however
they are created.

### Mqtt

Topics are records of kind, uuid and names; network and device are one level,
as both only contribute a name and cascade on deletion. `Publish` is
`publish_point_cov`: dropped without a connection, the `value` topic skipped
for a fault. `inbox` holds the retained messages the broker has sent to the
listener, which `OnMessage` takes in any order and as late as it likes;
`Unknown` is the test of the listener. `missed` records the points with a
dropped message or a changed name since their last publication.

### Mapping

`PointUpdated` is an update of the store that spawns a request;
`calls[<<u, v>>]` counts the requests under way that carry `v` to point `u`,
and `Answered` takes them in any order. `UpdateRequest`, `Found`, `NotFound`,
`FoundByName`, `NotFoundByName` and `Lost` are the loop of
`update_mapping_state`, split where it waits for the other service. That the
loop also waits for the answer to the value it sends is left out (the model
allows more orders than the code). `disturbed` records the mappings with a
request that failed or met another one. Points that are written send their
priority array instead of their value and are not modelled.

## 3. Runs

All with TLC, breadth-first and complete for the bounds given.

| Run | Instance | States | What it shows |
|---|---|---|---|
| `polling_safety` | 2 networks, 2 parameter sets, 1 request, 1 edit, exceptions anywhere | 1 541 000 | `OneThreadPerConnection`, `GreenletsBounded`, `OwnNetworkClient`, `UndisturbedKeepsConnection`, `DeletedStaysReleased` |
| `polling_liveness` | 1 network, 2 edits, exceptions anywhere, `FairSpec` | 53 000 | `UndisturbedNotOrphaned`, `DeletedNetworkReleased`, `TempConnectionsReclaimed`, `ParametersAdopted`, `StarvedOnlyIfOrphaned`, `ServesNetworks` |
| `aggregate` | every sorted list of up to 3 points in 4 registers, lengths 1 and 2, limit 4, one edit | 6 140 000 | `RequestsContiguous`, `RequestsWithinLimit`, `EveryPointRequested`, `NoNeedlessSplit`, `OwnRegister` |
| `write` | 7 points: a register with 2 priorities; one in a group with a threshold and an error; a coil by itself with 2 errors, in a group, and several; 2 registers written once that are rounded (with a restart) or divided; 1 manual poll, `FairSpec` | 112 000 | `StoreTellsDevice`, `SkippedOnlyIfThere`, `FallbackTakesOver`, `WrittenOnce`, `CommandReachesDevice`, `ServesPoint` |
| `point` | 2 first rows, 25 edits of one attribute or range, 2 of them also during a request, 4 commands, 2 memories, 1 poll at a time, 1 restart | 291 000 | `ArrayIffWritable`, `EditsSettle`, `GroupReadsAlone`, `GroupWritesAlone`, `WrittenReadsBack`, `RangesOrdered`, `StoreShowsRow` |
| `round` | 2 devices (one pinged, with an answer that cannot be stored; one with an answer that cannot be decoded), 2 requests each, 1 manual poll, 2 changes, `FairSpec` | 204 000 | `OnlyUnrefreshedKills`, `ContactClearsNetwork`, `RoundInOrder`, `EveryDeviceTried`, `FaultsCleared`, `FaultsRaised` |
| `mqtt` | 2 points, 2 names, 2 device names, 4 changes, `FairSpec` | 188 000 | `PublishedIsShown`, `UnknownCleared` |
| `mapping` | 2 mappings, 2 points, 2 names, 5 changes, `FairSpec` | 292 000 | `NewestShown`, `RepairedByUpdates`, `MarkedByUpdates` |
| `finding_...` | four runs that end in a counterexample | | section 6 |

The type invariants (`TypeOK`) are not among the properties: they are theorems of
every module.

Why the bounds are enough:

- *polling*: the hazards need one network that is edited and one that is not,
  an outdated snapshot and one request that holds a connection. One edit is
  enough to set two greenlets against each other, and the second of
  `polling_liveness` allows the disable and the enable, or an edit back. There
  are so many connections and greenlets that an allocation never fails
  because none is free, except for temporary ones (`MaxTemp`). The `VIEW`
  removes the names of connections and greenlets and what dropped connections
  last held; two states with the same view have the same steps up to names.
  `polling_liveness` keeps the greenlets' names, which fairness is about.
  No run uses symmetry: connections and greenlets are named by `CHOOSE`.
- *aggregate*: three points give a group, a gap and a point after a failure,
  and an edited one before and after another in a response; a limit of 4 is
  reached by two points of length 2, as 253 is by many. The finding needs six
  registers and no edit. The proofs cover the rest.
- *write*: two priorities are needed for a relinquished command that
  uncovers another, one manual poll for an overtaking write, two errors for a
  lost write followed by a lost answer, one for an answer that is not stored.
  Where `lowest` is 1 a command and its fallback are one slot, which is enough
  where no property is about fallback; `fallbacks` bounds the fallback values
  that requests give to a null and one value for each point.
- *point*: bytes are one bit, words hold 0 to 3 and pairs of them 0 to 15, so
  that sign, overflow, both orders and fractions all occur. Lengths 0 to 2 are
  those that the code distinguishes. Edits of single attributes lead to every
  row; one restart is all that two commits of an edit allow to matter. A poll
  may come at any row; `Overtaking` bounds the edits that come during its
  request to one of the ranges and one of the function code, which is what its
  answer could go wrong by. The proofs cover other bytes, rows, edits and any
  number of polls.
- *round*: two devices give one before and one after; a ping point and an
  answer that cannot be stored are what makes the first differ. Two changes are
  a deletion and a loss of the link, or a loss and a return. All initial flags and devices are covered.
- *mqtt*: two points are needed for a name that passes from one to the other,
  four changes for add, rename, disconnect and delete.
- *mapping*: five changes are two mappings, a deletion, a point that takes the
  deleted one's name, and one update of a value. `MaxCalls = 1` bounds equal
  requests; different values overtake each other.

Deadlock is checked in `point`, `mqtt`, `mapping` and the polling findings. The other configurations say why the system may stop there.

### Fairness

- `ModbusPolling`: `WF(SchedStep)`, `SF(ThreadStep(t))`, `SF(RequestEnd(r))`.
  Sleeps end, requests are answered or time out, and the hub runs a greenlet
  whose wait is over as soon as the scheduler gives way. Strong fairness only
  bridges the scheduler's stretches, during which no other greenlet is enabled.
- `PointWrite`: weak fairness of the greenlet's next poll and of answers
  (the client has a timeout); strong fairness of getting the lock, whose
  waiters are queued. Nothing makes manual polls, writes or errors happen.
- `PollRound`: weak fairness of the greenlet and of the end of a manual poll.
- `Mqtt`: weak fairness of the timer of the subscription and of the delivery of
  each message; none of the connection, so that the liveness properties assume
  that it lasts.
- `Mapping`: weak fairness of the update loop's next step and of each answer;
  none of the update request, which somebody has to make.

## 4. Proofs

`tlapm` checks every leaf; constants are arbitrary sets and numbers that meet
the named assumptions at the head of each module (disjointness of the model
values, bounds that are natural numbers, 0 among the values, ...). No theorem
assumes fairness; the bounds of the guards are arbitrary naturals.

- **ModbusPolling_proofs**. `TypeInv` adds to the types that networks still to
  handle are in the snapshot and that exactly the live greenlets have a
  network. `ConnInv` is what makes `OneThreadPerConnection` and
  `OwnNetworkClient` inductive: a registered connection belongs to its network
  (`OwnerInv`), a greenlet was started for and polls with connections of its
  network (`ThreadInv`), the scheduler waits for the one greenlet that is
  starting (`HandoverInv`), and a greenlet past its start has marked its
  connection, or it is no longer the registered one (`FlagInv`). The
  properties of undisturbed networks need in addition that the snapshot has
  their current parameters (`FreshSnapshotInv`) and that their greenlet goes
  with the registered connection (`SettledInv`); together they are
  `UndisturbedInv`. `NotOrphaned` needs `TendedInv`: a connection marked as
  running has a greenlet, until something has `failed`.

  `GreenletsBound` (at most `1 + 2 * disturbances[n]` greenlets) is about disturbed
  networks too, where the number alone is not inductive: a greenlet may start long
  after the edit that causes it. `BudgetInv` therefore adds `Starts(n)`, how
  many greenlets the scheduler may yet start if nobody disturbs `n` again: one
  for the parameters of the snapshot in hand, unless it is `Covered`, and one
  for a later snapshot with other parameters. A start takes one from `Starts`,
  every other step of the scheduler, the greenlets and the requests keeps it or
  lowers it, and a disable or an edit raises it by two at most.
  That the factor is 2 and not 1 is no slack of the proof: TLC shows three
  greenlets after one edit that, with a manual poll, falls into the start of
  another network's greenlet. The manual poll registers the new parameters, the
  scheduler those of its snapshot once more, and the next round the new ones.

  `StaysReleased` says that a deleted network without connections keeps
  none once the scheduler has handled it: the snapshot is the only thing that
  could bring them back, and a manual poll of the network finds no row.

  `ServesSafely` is the safety part of the refinement: initial phases are
  initial, and every step of the driver is a step of `NetworkService` for one
  network or leaves all phases alone. It rests on `UndisturbedInv` and on
  `PhaseInv`, that an undisturbed network's phase is what its only greenlet's
  `pc` says. It holds with exceptions as well, which are steps of `Fail` or
  `Break`.
- **AggregatePoll_proofs**. `LogInv` says what the recorded requests are and that
  the rows differ from those of the request under way in the edited one only.
  `PendingInv` relates `response_size` to the registers between `last_point` and
  `i` as long as no request failed; `SplitInv` relates the last request to the
  one being gathered. `CoverInv` says that every point before `last_point` has had
  its request; `OrderInv` that the points of a request without an I/O
  error lie before those of all later requests, which is why `EveryPoint` also
  rules out that an answered request is repeated, in passes that are aborted too. For
  `OwnRegisters`, `IndexInv` says that `arr_ind` leads to the register of the
  point whose value is next: one step of the loop at a time, by the adjacency
  of the points in a request (`TakeIndex`), so that no sum over the points of a
  request is needed.
- **PointWrite_proofs**. `LockInv` ties the lock to the one poll that is sent;
  `SentInv` says what the device holds while it is; with both
  `StoreTellsDevice` is inductive (`TellInv`): whatever leaves the store behind
  the device sets `untold`, and every outcome that is stored clears it. `OnceOnly`, an
  action property, adds `ShownInv`: the store's value is always that of its
  value_original. `SkippedIsThere` is the other side of it: what
  `write_value_once` leaves out is there, because where nothing is hidden the
  value of the store determines the device and a fault makes the command be
  written again. `Fallback` follows from the requests alone: whichever array a
  request commits was checked against the fallback value from before it.
  `PointServed` is the refinement of `PointService`, action by action; it needs
  `LockInv` and `SentInv` for the answers, that no two polls are at the device at
  a time, and `ShownInv` for the report.
- **PointRow_proofs**. `Inv` is the types, the ranges of the row and of the rows
  that polls have loaded, the priority array, that a row is what `check_self` has
  left (`Checked`, as long as there was no restart) and that a shown value has an
  original. `StoreShows` is an action property: an edit scales the value anew
  (`PatchShows`), and an answer is stored by the ranges of the loaded row, which are
  those of the row unless the poll is `Overtaken` (`SameRanges`, `PollShows`). The other
  properties follow from `Inv` by what the operators do: unpacking reverses
  packing for every type, byte order and number of byte values (`DivModUnique` and
  what follows from it), and three applications of `CheckSelf` settle a row.
- **PollRound_proofs**. The inductive invariant is the type invariant, the
  place of the greenlet (a ping only at a device with a ping point, a poll at
  one of its requests) and `OnlyUnrefreshedKills` itself (`PollInv`).
  `ContactClears` is an action property: the session has just committed, so the
  flag it tests is the one in the table. `InOrder` adds `OrderInv`, that the devices
  still to come are after the greenlet's own, and that none is left outside a
  round. Each way to go on (`NextTurn`) takes the lowest of the devices left that
  has something to poll, which exists by `LowestExists`; a device may only be left
  behind if it is deleted.
- **Mqtt_proofs**. `ShownInv` is the types, that points exist only below an
  existing device, and `PublishedIsShown`.
- **Mapping_proofs**. `NewestInv` is the types with the loop standing at a
  mapping, that no two mappings lead to one point (`Separate`), and
  `TrackInv`: an undisturbed mapped point has its value shown or is the target
  of exactly one request, with that value. `FirstExists` (a set of numbers has
  a first) gives the loop its next mapping.

Every invariant and every action property that a run checks is proved, and so
are the two refinements, as far as they are about safety (for `ServesPoint` that is
all of it). Only model-checked are the liveness properties, the liveness part of
`ServesNetworks` included: fairness and `ENABLED` are out of the prover's reach.

## 5. Choices worth knowing

- A write of a null command reaches the device as 0 (`poll.py:118`). Manual
  polls do that, and grouped polling does when the command is relinquished
  between test and turn (`PollListed`).
- `CommandReachesDevice` leaves one way out: with `write_value_once`, the command
  is skipped for good when it equals the store's `value_original` and that
  belongs to an older write. This happens when the rounding or the threshold does not
  tell the device's value from the command (`model_point_store.py:61-65`), and after an
  `untold` write: a restart before the store update, an answer that could not be
  stored, a connection lost after the request went out. Without
  `write_value_once` the command is written in every round. No comment or
  document says what should happen, so that this is not listed as a finding; the
  properties say `untold` where the code gives no more.
- A request that takes away a command and sets a fallback value at the same time
  (PATCH `{priority_array_write: {_16: null}, fallback_value: 5}`) leaves a
  fallback value without a command, as the array is checked against the old fallback
  value. The next request to the point mends it, which is what `FallbackTakesOver`
  says.
- `StoreShowsRow` names the two steps that leave a store of other ranges than
  the row's: a restart between the commits of an edit, and the end of a poll
  whose ranges were edited during its request. What the second one leaves
  is corrected by the next answer, unless the threshold hides the difference, or by
  the next edit.
- A greenlet or scheduler that an exception ends is not started again;
  `StarvedOnlyIfOrphaned` says what that costs: an edit of the parameters
  brings back a network whose greenlet died, nothing one without a greenlet whose
  scheduler did; greenlets that run outlive the scheduler. The other liveness
  properties name a dead scheduler as their only way out.
- `OwnRegister` allows an edit during a request to lead the later points of that
  response to wrong registers: their values are right again in the next round.
- A point of `register_length` 0, a DIGITAL point on registers and a DOUBLE are
  treated differently alone and in a group; `GroupReadsAlone` says which rows it
  is about. A single register is written big-endian whatever the point's byte
  order (`functions.py:142`), and in a group with it: `GroupWritesAlone` says that
  the bytes are then swapped and nothing else differs.
- The row of a point is judged by the function code it had before its
  adjustment, so that an unrelated edit may change it again; `EditsSettle` says
  after how many edits this ends.
- An edit that raises both ends of a range is refused when the new minimum
  exceeds the old maximum (`model_point.py:88`); the order of the two matters.
- `TempConnectionsReclaimed` needs the scheduler. When the driver is switched
  off in the settings, no scheduler runs and the connections of polls of
  non-existing points are kept.
- A PATCH that sets `fallback_value` to null writes the old fallback value
  into priority 16 when the command is null or 0 (`point_singular.py:45`); the
  model has this (`PatchPoint`).
- Deleting a device while it is pinged, or while an answer is awaited that then
  cannot be stored, ends the network's greenlet when the request would set or
  clear its flag; with `is_running` left set the network is orphaned in the sense
  of `ModbusPolling`. `OnlyUnrefreshedKills` says that nothing else does.
- An undecodable answer of one point ends the round for all points and devices
  after it, in every round; `EveryDeviceTried` is about the devices before it,
  which are still tried in every round, and about all devices otherwise
  (`Unobstructed`).
- A mapping whose point's name now belongs to the point of another mapping
  makes `update_mapping_state` fail for all mappings after it; this is what
  `Conflict` excludes.
- Two requests for a mapped point that overtake each other, or one that fails,
  leave it with an older value until the next change; this is what `disturbed`
  excludes.
- A point that is deleted during an earlier request of its pass ends the pass
  (`Abort`), which `EveryPointRequested` excludes; the next round queries the
  points anew.
- A device that is renamed or deleted publishes nothing; its messages under
  the old names stay until the listener finds them unknown.

## 6. Where the code departs from its comments

- `finding_two_threads`: after an edit of the connection parameters the
  scheduler starts a second greenlet while the first adopts the new connection;
  both go on for ever (`modbus_polling.py:60`, docstring at 65-67).
- `finding_starved`: a network that is disabled and enabled again within one
  scheduler interval loses its greenlet with `is_running` left set and is never
  polled again (`modbus_polling.py:76`).
- `finding_gap_after_error`: after a `ModbusIOException` the failed points stay
  at the head of the next group, adjacent or not (`modbus_polling.py:167`,
  comment at 147-151).
- `finding_old_name`: when a point is renamed and another takes its old name,
  the retained message under the first one's uuid and old name is never cleared
  (`mqtt_listener.py:110`, docstring at 92-94).

## 7. Not modelled, and what could follow

Not modelled:

- REST schemas and routes, settings and start-up, system resources, logging,
  migrations and deployment files: declarations, configuration and I/O.
- `value_operation` and rounding: an arbitrary function of the value in
  `PointWrite`, left out in `PointRow`.
- `value_raw`, which no other state depends on. The slice of a RAW point in a
  group ends at `register_length` (`poll.py:71`), so that its `value_raw` is
  wrong there.
- SQLite's write lock, held by `update_mapping_state` while it waits for another
  service (`mapping.py:79`): it blocks the thread of all greenlets until it times
  out, during which none of the models has a step.
- PATCH of a mapping, and the priority arrays that mapped writable points send.
- Edits of a point's register or function code during a pass of the grouping
  loop, tags, and the sync requests of `point_sync.py`.

What could follow, in this order: the composition of `PollRound` with
`AggregatePoll` (a round whose requests are a pass's), and PATCH of mappings with
stale copies.
