--------------------------- MODULE AggregatePoll ---------------------------
(***************************************************************************)
(* One pass of the aggregate read/write loop over the points of one        *)
(* function code list of a device (__poll_network_devices, lines 136-170), *)
(* with the requests it sends (poll_point, poll_point_aggregate).          *)
(*                                                                         *)
(* The list has been sorted by register. The loop walks through it and     *)
(* flushes the points since last_point as one request when the list ends,  *)
(* the response would grow too large or the next point is not adjacent.    *)
(* The rows of the points may be edited while a request is under way.      *)
(***************************************************************************)
EXTENDS Integers, Sequences

CONSTANTS
  Registers,  \* registers of points
  Lengths,    \* register_length of points
  Widths,     \* registers (or coils) that a point's value packs to (writes)
  MaxPoints,  \* bound: points in the list
  MaxEdits,   \* bound: edits of points during the pass
  Limit,      \* response size limit (253 in the code)
  None        \* a point's value was not transferred

ASSUME AggregateAssumption ==
  /\ Registers \subseteq Nat /\ Lengths \subseteq Nat \ {0} /\ Widths \subseteq Nat
  /\ MaxPoints \in Nat /\ MaxEdits \in Nat /\ Limit \in Nat
  /\ None \notin Nat

VARIABLES
  kind,           \* "read" or "write": which of the lists it is
  points,         \* the sorted list, with the rows as they are now
  i,              \* the point the loop is at (1-based)
  last_point,     \* first point not yet flushed (1-based)
  response_size,  \* registers gathered since the last successful request
  log,            \* the requests made
  at,             \* the point of the last request whose value is next
  arr_ind,        \* where in the data its value begins
  session,        \* the rows the session has loaded: a commit expires them
  place,          \* place[j]: register that j's value came from, or went to
  edits,          \* counter for the bound
  pc

vars == <<kind, points, i, last_point, response_size, log, at, arr_ind, session,
          place, edits, pc>>

Point == [register : Registers, register_length : Lengths, width : Widths]
Outcome == {"ok", "io", "lost"}

\* A request is for rows[from..to] as they were; edited is the point whose row
\* changed while it was under way, or 0.
Request == [from : Nat, to : Nat, outcome : Outcome, rows : Seq(Point), edited : Nat]

\* Values are only packed in writes.
IsRow(p) == kind = "read" => p.width = p.register_length

\* Sorted by register. The points of a device with the same function code have
\* different registers; a list of writes holds two function codes.
IsPointList(s) ==
  /\ \A j \in 1..Len(s) - 1 :
       \/ s[j].register < s[j + 1].register
       \/ kind = "write" /\ s[j].register = s[j + 1].register
  /\ \A j \in 1..Len(s) : IsRow(s[j])

TypeOK ==
  /\ kind \in {"read", "write"}
  /\ points \in Seq(Point)
  /\ i \in 1..Len(points) + 1
  /\ last_point \in 1..i
  /\ response_size \in Nat
  /\ log \in Seq(Request)
  /\ at \in 1..i + 1 /\ arr_ind \in Nat /\ session \in {"loaded", "expired"}
  /\ place \in [1..Len(points) -> Nat \cup {None}]
  /\ edits \in 0..MaxEdits
  /\ pc \in {"looping", "answered", "done", "aborted"}

Init ==
  /\ kind \in {"read", "write"}
  /\ \E n \in 0..MaxPoints : points \in [1..n -> Point]
  /\ IsPointList(points)
  /\ i = 1 /\ last_point = 1 /\ response_size = 0
  /\ log = <<>>
  /\ at = 1 /\ arr_ind = 0 /\ session = "loaded"
  /\ place = [j \in 1..Len(points) |-> None]
  /\ edits = 0
  /\ pc = "looping"

-----------------------------------------------------------------------------
\* First register after a point.
NextReg(p) == p.register + p.register_length

Adjacent(list, j) == list[j + 1].register = NextReg(list[j])

ReachesLimit(size) == size + points[i + 1].register_length >= Limit

Flushes_ignoresGap(size) == i < Len(points) => ReachesLimit(size)

Flushes_ignoresLimit(size) == i < Len(points) => ~Adjacent(points, i)

Flushes_ignoresEnd(size) == i < Len(points) /\ (ReachesLimit(size) \/ ~Adjacent(points, i))

Flushes_everyPoint(size) == TRUE

\* End of list, response size limit reached, or the next point is not
\* continuous from the current point.
Flushes(size) == i < Len(points) => ReachesLimit(size) \/ ~Adjacent(points, i)

\* The loop passes a point that is not the last of its request.
Gather ==
  /\ pc = "looping"
  /\ i <= Len(points)
  /\ LET size == response_size + points[i].register_length IN
       /\ ~Flushes(size)
       /\ response_size' = size
  /\ i' = i + 1
  /\ UNCHANGED <<kind, points, last_point, log, at, arr_ind, session, place, edits, pc>>

\* While the greenlet waits for the answer, or before the next point, a REST
\* request may give point e another register_length or data_type.
Edit(e) ==
  \/ e = 0 /\ UNCHANGED <<points, edits>>
  \/ /\ e > 0
     /\ edits < MaxEdits
     /\ edits' = edits + 1
     /\ \E p \in Point :
          /\ p.register = points[e].register /\ p # points[e] /\ IsRow(p)
          /\ points' = [points EXCEPT ![e] = p]

Send(outcome) ==
  /\ pc = "looping"
  /\ i <= Len(points)
  /\ Flushes(response_size + points[i].register_length)
  /\ \E e \in 0..Len(points) :
       /\ log' = Append(log, [from |-> last_point, to |-> i, outcome |-> outcome,
                              rows |-> points, edited |-> e])
       /\ Edit(e)
  /\ UNCHANGED kind

\* The device answers.
FlushOk ==
  /\ Send("ok")
  /\ pc' = "answered"
  /\ at' = last_point /\ arr_ind' = 0 /\ session' = "loaded"
  /\ UNCHANGED <<i, last_point, response_size, place>>

\* Points last_point..k are marked as faulty.
Withdrawn(k) == [j \in 1..Len(points) |-> IF j \in last_point..k THEN None ELSE place[j]]

\* ModbusIOException: the points are marked as faulty; neither last_point nor
\* response_size is touched.
FlushIOError ==
  /\ Send("io")
  /\ place' = Withdrawn(i)
  /\ i' = i + 1
  /\ response_size' = response_size + points[i].register_length
  /\ UNCHANGED <<last_point, at, arr_ind, session, pc>>

\* As before, but one of the points was deleted meanwhile: after the commit for
\* the first one reading it raises ObjectDeletedError, which replaces the I/O
\* error, and the loop goes on as after a success.
FlushGone ==
  /\ Send("io")
  /\ \E k \in last_point..i - 1 : place' = Withdrawn(k)
  /\ i' = i + 1 /\ last_point' = i + 1 /\ response_size' = 0
  /\ UNCHANGED <<at, arr_ind, session, pc>>

\* ConnectionException returns from the round.
FlushLost ==
  /\ Send("lost")
  /\ pc' = "aborted"
  /\ UNCHANGED <<i, last_point, response_size, at, arr_ind, session, place>>

-----------------------------------------------------------------------------
(* Taking the answer apart, point by point (poll_point_aggregate).         *)

Answered == log[Len(log)]

Extent_rereadsAll(j) ==
  IF kind = "read" THEN points[j].register_length ELSE Answered.rows[j].width

\* Registers that point j takes up in the data. Reads are taken apart by
\* register_length, of a row that the session may have to load again; writes
\* were put together by data_type before they were sent.
Extent(j) ==
  CASE kind = "write" -> Answered.rows[j].width
    [] kind = "read" /\ session = "expired" -> points[j].register_length
    [] OTHER -> Answered.rows[j].register_length

\* One point. The update of its store commits, unless the store cannot be
\* updated (an error that is logged).
TakePoint ==
  /\ pc = "answered"
  /\ at <= i
  /\ place' = [place EXCEPT ![at] = Answered.rows[last_point].register + arr_ind]
  /\ arr_ind' = arr_ind + Extent(at)
  /\ at' = at + 1
  /\ session' \in {session, "expired"}
  /\ UNCHANGED <<kind, points, i, last_point, response_size, log, edits, pc>>

\* All points are done, or one was deleted meanwhile: ObjectDeletedError ends
\* the handling of the response, and the loop goes on as after a success.
TakenApart ==
  /\ pc = "answered"
  /\ pc' = "looping"
  /\ i' = i + 1 /\ last_point' = i + 1 /\ response_size' = 0
  /\ at' = 1 /\ arr_ind' = 0 /\ session' = "loaded"
  /\ UNCHANGED <<kind, points, log, place, edits>>

\* Any other exception, say one in the decoding of a point, leaves the round;
\* so does ObjectDeletedError when the loop reads a point that was deleted
\* during an earlier request.
Abort ==
  /\ pc = "answered" \/ (pc = "looping" /\ i <= Len(points) /\ log # <<>>)
  /\ pc' = "aborted"
  /\ UNCHANGED <<kind, points, i, last_point, response_size, log, at, arr_ind, session,
                 place, edits>>

\* The pass is over (the next list follows).
Finish ==
  /\ pc = "looping"
  /\ i > Len(points)
  /\ pc' = "done"
  /\ UNCHANGED <<kind, points, i, last_point, response_size, log, at, arr_ind, session,
                 place, edits>>

Next ==
  \/ Gather
  \/ FlushOk
  \/ FlushIOError
  \/ FlushGone
  \/ FlushLost
  \/ TakePoint
  \/ TakenApart
  \/ Abort
  \/ Finish

Spec == Init /\ [][Next]_vars

-----------------------------------------------------------------------------
\* No request has failed before request k.
Clean(k) == \A m \in 1..k - 1 : log[m].outcome # "io"
CleanSoFar == Clean(Len(log) + 1)

Contiguous(r) == \A j \in r.from..r.to - 1 : Adjacent(r.rows, j)

\* Until a request fails, a request is for points that are adjacent when it is
\* made, whatever was edited during earlier ones (modbus_polling.py:147-153).
RequestsContiguous == \A k \in 1..Len(log) : Clean(k) => Contiguous(log[k])

\* Until a request fails, a request for several points stays below the limit.
RequestsWithinLimit ==
  \A k \in 1..Len(log) :
    LET r == log[k]
    IN  Clean(k) /\ r.from < r.to => NextReg(r.rows[r.to]) - r.rows[r.from].register < Limit

\* A pass that is not aborted makes a request for every point, failures or
\* not; and in any pass a point is only requested again after an I/O error, so
\* that no answered read or write is repeated (modbus_polling.py:154-168).
EveryPointRequested ==
  \A j \in 1..Len(points) :
    LET hits == {k \in 1..Len(log) : j \in log[k].from..log[k].to}
    IN  /\ pc = "done" => hits # {}
        /\ \A k, m \in hits : k < m => log[k].outcome = "io"

\* Until a request fails, points are not split over two requests without need:
\* they are not adjacent, together they reach the limit, or one was edited.
NoNeedlessSplit ==
  \A k \in 1..Len(log) - 1 :
    LET r == log[k] next == log[k + 1]
    IN  Clean(k + 1) /\ r.edited = 0 =>
          \/ ~Adjacent(next.rows, r.to)
          \/ NextReg(next.rows[next.from]) - r.rows[r.from].register >= Limit

\* Until a request fails, the value of a point is read from, or written to,
\* the point's own register; for writes as long as every data_type packs to
\* register_length registers. An edit during the request only harms the points
\* that come after the edited one in this request, and none if that is the
\* first: its row is read again too late (poll.py:57-74, function_utils.py:104-111).
OwnRegister ==
  \A k \in 1..Len(log) :
    LET r == log[k]
    IN  /\ Clean(k + 1)
        /\ kind = "write" => \A j \in r.from..r.to : r.rows[j].width = r.rows[j].register_length
        => \A j \in r.from..r.to :
             kind = "write" \/ r.edited \notin r.from + 1..j - 1 =>
               place[j] \in {None, r.rows[j].register}

\* The comment at modbus_polling.py:147-151: a request ends where "next point is
\* not continuous from current point". Not kept after a ModbusIOException.
RequestsAlwaysContiguous == \A k \in 1..Len(log) : Contiguous(log[k])
=============================================================================
