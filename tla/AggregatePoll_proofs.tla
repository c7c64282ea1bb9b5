----------------------- MODULE AggregatePoll_proofs -----------------------
(***************************************************************************)
(* Theorems about AggregatePoll, for lists of any length, any limit and    *)
(* any number of edits.                                                    *)
(***************************************************************************)
EXTENDS AggregatePoll, TLAPS

\* What the log says, and what is known while a response is taken apart.
LogInv ==
  /\ \A k \in 1..Len(log) :
       /\ log[k].from \in 1..log[k].to
       /\ log[k].to \in 1..Len(points)
       /\ Len(log[k].rows) = Len(points)
  /\ pc = "answered" =>
       /\ Len(log) > 0 /\ i <= Len(points)
       /\ Answered.from = last_point /\ Answered.to = i
       /\ at \in last_point..i + 1
       /\ session = "expired" => at > last_point
       /\ \A j \in 1..Len(points) : j # Answered.edited => points[j] = Answered.rows[j]

TypeInv == TypeOK /\ LogInv

LEMMA PointType ==
  ASSUME NEW p \in Point
  PROVE  /\ p.register \in Nat /\ p.register_length \in Nat /\ p.width \in Nat
         /\ NextReg(p) = p.register + p.register_length
         /\ NextReg(p) \in Nat
<1>1. Registers \subseteq Nat /\ Lengths \subseteq Nat /\ Widths \subseteq Nat
  BY AggregateAssumption
<1>2. p.register \in Nat /\ p.register_length \in Nat /\ p.width \in Nat
  BY <1>1 DEF Point
<1> QED BY <1>2 DEF NextReg

\* Every flush appends one request to the log, and changes one row at most.
LEMMA SendEffect ==
  ASSUME TypeOK, NEW o \in Outcome, Send(o)
  PROVE  /\ pc = "looping" /\ kind' = kind
         /\ i \in 1..Len(points) /\ last_point \in 1..i /\ Len(points) \in Nat
         /\ Flushes(response_size + points[i].register_length)
         /\ log' \in Seq(Request) /\ Len(log) \in Nat
         /\ Len(log') = Len(log) + 1
         /\ \A k \in 1..Len(log) : log'[k] = log[k]
         /\ log'[Len(log) + 1].from = last_point
         /\ log'[Len(log) + 1].to = i
         /\ log'[Len(log) + 1].outcome = o
         /\ log'[Len(log) + 1].rows = points
         /\ points' \in Seq(Point) /\ Len(points') = Len(points)
         /\ \A j \in 1..Len(points) : j # log'[Len(log) + 1].edited => points'[j] = points[j]
         /\ log'[Len(log) + 1].edited = 0 => points' = points
         /\ edits' \in 0..MaxEdits
<1>1. /\ i \in 1..Len(points) /\ last_point \in 1..i /\ Len(points) \in Nat
      /\ log \in Seq(Request) /\ Len(log) \in Nat
      /\ points \in Seq(Point) /\ edits \in 0..MaxEdits /\ MaxEdits \in Nat
  BY AggregateAssumption DEF TypeOK, Send
<1>2. PICK e \in 0..Len(points) :
        /\ log' = Append(log, [from |-> last_point, to |-> i, outcome |-> o,
                               rows |-> points, edited |-> e])
        /\ Edit(e)
  BY DEF Send
<1> DEFINE r == [from |-> last_point, to |-> i, outcome |-> o, rows |-> points, edited |-> e]
<1>3. r \in Request
  BY <1>1 DEF Request
<1>4. r.from = last_point /\ r.to = i /\ r.outcome = o /\ r.rows = points /\ r.edited = e
  OBVIOUS
<1> HIDE DEF r
<1>5. /\ log' \in Seq(Request) /\ Len(log') = Len(log) + 1
      /\ \A k \in 1..Len(log) : log'[k] = log[k]
      /\ log'[Len(log) + 1] = r
  BY <1>1, <1>2, <1>3 DEF r
<1>6. /\ points' \in Seq(Point) /\ Len(points') = Len(points)
      /\ \A j \in 1..Len(points) : j # e => points'[j] = points[j]
      /\ e = 0 => points' = points
      /\ edits' \in 0..MaxEdits
  <2>1. CASE e = 0
    BY <1>1, <1>2, <2>1 DEF Edit
  <2>2. CASE e > 0
    <3>1. PICK p \in Point : points' = [points EXCEPT ![e] = p]
      BY <1>2, <2>2 DEF Edit
    <3>2. edits' = edits + 1 /\ edits < MaxEdits
      BY <1>2, <2>2 DEF Edit
    <3> QED BY <1>1, <2>2, <3>1, <3>2
  <2> QED BY <1>2, <2>1, <2>2
<1> QED BY <1>1, <1>4, <1>5, <1>6 DEF Send

LEMMA SendType ==
  ASSUME TypeInv, NEW o \in Outcome, Send(o),
         i' = i \/ i' = i + 1,
         last_point' = last_point \/ (i' = i + 1 /\ last_point' = i + 1),
         response_size' \in Nat,
         at' = at \/ at' = last_point, arr_ind' \in Nat, session' \in {"loaded", "expired"},
         place' \in [1..Len(points) -> Nat \cup {None}],
         pc' \in {"looping", "answered", "aborted"},
         pc' = "answered" =>
           i' = i /\ last_point' = last_point /\ at' = last_point /\ session' = "loaded"
  PROVE  TypeInv'
<1> DEFINE n == Len(log) + 1
<1>1. /\ i \in 1..Len(points) /\ last_point \in 1..i /\ Len(points) \in Nat
      /\ log' \in Seq(Request) /\ Len(log) \in Nat /\ Len(log') = n
      /\ \A k \in 1..Len(log) : log'[k] = log[k]
      /\ log'[n].from = last_point /\ log'[n].to = i /\ log'[n].rows = points
      /\ points' \in Seq(Point) /\ Len(points') = Len(points)
      /\ \A j \in 1..Len(points) : j # log'[n].edited => points'[j] = points[j]
      /\ edits' \in 0..MaxEdits /\ kind' = kind
  BY SendEffect DEF TypeInv
<1>2. n \in Nat /\ n > 0
  BY <1>1
<1> HIDE DEF n
<1>3. i' \in 1..Len(points) + 1 /\ last_point' \in 1..i' /\ at' \in 1..i' + 1
  <2>1. at \in 1..i + 1
    BY DEF TypeInv, TypeOK
  <2>2. i \in Nat /\ last_point \in Nat /\ at \in Nat
    BY <1>1, <2>1
  <2>3. i' \in 1..Len(points) + 1 /\ last_point' \in 1..i'
    BY <1>1, <2>2
  <2>4. at' \in 1..i' + 1
    BY <1>1, <2>1, <2>2
  <2> QED BY <2>3, <2>4
<1>4. TypeOK'
  <2>1. /\ i' \in 1..Len(points') + 1
        /\ place' \in [1..Len(points') -> Nat \cup {None}]
    BY <1>1, <1>3
  <2>2. kind' \in {"read", "write"}
    BY <1>1 DEF TypeInv, TypeOK
  <2> QED BY <1>1, <1>3, <2>1, <2>2 DEF TypeOK
<1>5. ASSUME NEW k \in 1..Len(log')
      PROVE  /\ log'[k].from \in 1..log'[k].to
             /\ log'[k].to \in 1..Len(points')
             /\ Len(log'[k].rows) = Len(points')
  <2>1. CASE k \in 1..Len(log)
    BY <1>1, <2>1 DEF TypeInv, LogInv
  <2>2. CASE k = n
    BY <1>1, <2>2
  <2> QED BY <1>1, <2>1, <2>2 DEF n
<1>6. Answered' = log'[n]
  BY <1>1 DEF Answered
<1>7. ASSUME pc' = "answered"
      PROVE  /\ Len(log') > 0 /\ i' <= Len(points')
             /\ Answered'.from = last_point' /\ Answered'.to = i'
             /\ at' \in last_point'..i' + 1
             /\ session' = "expired" => at' > last_point'
             /\ \A j \in 1..Len(points') : j # Answered'.edited => points'[j] = Answered'.rows[j]
  BY <1>1, <1>2, <1>6, <1>7
<1>8. LogInv'
  BY <1>5, <1>7 DEF LogInv
<1> QED BY <1>4, <1>8 DEF TypeInv

LEMMA TypeInit == Init => TypeInv
<1> SUFFICES ASSUME Init PROVE TypeInv
  OBVIOUS
<1>1. points \in Seq(Point)
  BY AggregateAssumption DEF Init
<1>2. Len(points) \in Nat /\ Len(log) = 0
  BY <1>1 DEF Init
<1>3. TypeOK
  BY <1>1, <1>2, AggregateAssumption DEF Init, TypeOK
<1>4. LogInv
  BY <1>2 DEF Init, LogInv
<1> QED BY <1>3, <1>4 DEF TypeInv

\* Where the next value of a response may begin.
LEMMA ExtentType ==
  ASSUME TypeInv, pc = "answered", at <= i
  PROVE  /\ at \in 1..Len(points) /\ at \in last_point..i
         /\ Answered \in Request /\ Answered = log[Len(log)] /\ Len(log) \in 1..Len(log)
         /\ Len(Answered.rows) = Len(points) /\ Len(points) \in Nat
         /\ \A j \in 1..Len(points) : points[j] \in Point /\ Answered.rows[j] \in Point
         /\ Extent(at) \in Nat
<1>1. /\ i \in 1..Len(points) /\ last_point \in 1..i /\ at \in last_point..i + 1
      /\ Len(points) \in Nat /\ Len(log) \in Nat /\ Len(log) > 0
      /\ log \in Seq(Request) /\ points \in Seq(Point)
  BY DEF TypeInv, TypeOK, LogInv
<1>2. at \in 1..Len(points) /\ at \in last_point..i
  BY <1>1
<1>3. Len(log) \in 1..Len(log) /\ Answered = log[Len(log)] /\ Answered \in Request
  BY <1>1 DEF Answered
<1>4. Len(Answered.rows) = Len(points) /\ Answered.rows \in Seq(Point)
  BY <1>3 DEF TypeInv, LogInv, Request
<1>5. \A j \in 1..Len(points) : points[j] \in Point /\ Answered.rows[j] \in Point
  BY <1>1, <1>4
<1>6. points[at] \in Point /\ Answered.rows[at] \in Point
  BY <1>2, <1>5
<1>7. Extent(at) \in Nat
  BY <1>6, PointType DEF Extent
<1> QED BY <1>1, <1>2, <1>3, <1>4, <1>5, <1>7

LEMMA TypeStep == TypeInv /\ [Next]_vars => TypeInv'
<1> SUFFICES ASSUME TypeInv, [Next]_vars PROVE TypeInv'
  OBVIOUS
<1>0. Len(points) \in Nat /\ points \in Seq(Point) /\ None \notin Nat
  BY AggregateAssumption DEF TypeInv, TypeOK
<1>1. CASE Gather
  <2>1. i \in 1..Len(points) /\ i # Len(points) /\ pc = "looping"
    BY <1>0, <1>1 DEF Gather, Flushes, TypeInv, TypeOK
  <2>2. points[i] \in Point
    BY <1>0, <2>1
  <2>3. response_size' \in Nat
    BY <1>1, <2>2, PointType DEF Gather, TypeInv, TypeOK
  <2>4. i' \in 1..Len(points) + 1 /\ last_point \in 1..i' /\ at \in 1..i' + 1
    BY <1>0, <1>1, <2>1 DEF Gather, TypeInv, TypeOK
  <2>5. TypeOK'
    BY <1>1, <2>3, <2>4 DEF Gather, TypeInv, TypeOK
  <2> QED BY <1>1, <2>1, <2>5 DEF Gather, TypeInv, LogInv
<1>2. CASE FlushOk
  <2>1. "ok" \in Outcome /\ Send("ok") /\ last_point \in Nat
    BY <1>2 DEF FlushOk, Outcome, TypeInv, TypeOK
  <2> QED BY <1>2, <2>1, SendType DEF FlushOk, TypeInv, TypeOK
<1>3. CASE FlushIOError
  <2>1. "io" \in Outcome /\ Send("io") /\ pc' = "looping"
    BY <1>3 DEF FlushIOError, Outcome, Send
  <2>2. i \in 1..Len(points) /\ points[i] \in Point
    BY <1>0, <2>1, SendEffect DEF TypeInv
  <2>3. response_size' \in Nat
    BY <1>3, <2>2, PointType DEF FlushIOError, TypeInv, TypeOK
  <2>4. place' \in [1..Len(points) -> Nat \cup {None}]
    BY <1>3 DEF FlushIOError, Withdrawn, TypeInv, TypeOK
  <2> QED BY <1>3, <2>1, <2>3, <2>4, SendType DEF FlushIOError, TypeInv, TypeOK
<1>10. CASE FlushGone
  <2>1. "io" \in Outcome /\ Send("io") /\ pc' = "looping"
    BY <1>10 DEF FlushGone, Outcome, Send
  <2>2. place' \in [1..Len(points) -> Nat \cup {None}]
    BY <1>10 DEF FlushGone, Withdrawn, TypeInv, TypeOK
  <2> QED BY <1>10, <2>1, <2>2, SendType DEF FlushGone, TypeInv, TypeOK
<1>4. CASE FlushLost
  <2>1. "lost" \in Outcome /\ Send("lost")
    BY <1>4 DEF FlushLost, Outcome
  <2> QED BY <1>4, <2>1, SendType DEF FlushLost, TypeInv, TypeOK
<1>5. CASE TakePoint
  <2>1. pc = "answered" /\ at <= i
    BY <1>5 DEF TakePoint
  <2>2. /\ at \in 1..Len(points) /\ at \in last_point..i
        /\ \A j \in 1..Len(points) : Answered.rows[j] \in Point
        /\ Extent(at) \in Nat
    BY <2>1, ExtentType
  <2>3. last_point \in 1..Len(points) /\ i \in Nat /\ last_point \in Nat /\ arr_ind \in Nat
    BY <2>1, <2>2, <1>0 DEF TypeInv, TypeOK, LogInv
  <2>4. Answered.rows[last_point].register + arr_ind \in Nat
    BY <2>2, <2>3, PointType
  <2>5. place' \in [1..Len(points) -> Nat \cup {None}]
    BY <1>5, <2>2, <2>4 DEF TakePoint, TypeInv, TypeOK
  <2>6. /\ arr_ind' \in Nat /\ at' \in 1..i + 1 /\ at' \in last_point..i + 1
        /\ at' > last_point /\ session' \in {"loaded", "expired"}
    BY <1>5, <2>2, <2>3 DEF TakePoint, TypeInv, TypeOK
  <2>7. TypeOK'
    BY <1>5, <2>5, <2>6 DEF TakePoint, TypeInv, TypeOK
  <2> QED BY <1>5, <2>6, <2>7 DEF TakePoint, TypeInv, LogInv, Answered
<1>6. CASE TakenApart
  <2>1. i \in 1..Len(points)
    BY <1>0, <1>6 DEF TakenApart, TypeInv, TypeOK, LogInv
  <2> QED BY <1>6, <2>1 DEF TakenApart, TypeInv, TypeOK, LogInv
<1>7. CASE Abort
  <2>1. TypeOK'
    BY <1>7 DEF Abort, TypeInv, TypeOK
  <2>2. LogInv'
    BY <1>7 DEF Abort, TypeInv, LogInv
  <2> QED BY <2>1, <2>2 DEF TypeInv
<1>8. CASE Finish
  BY <1>8 DEF Finish, TypeInv, TypeOK, LogInv
<1>9. CASE UNCHANGED vars
  <2>1. TypeOK'
    BY <1>9 DEF vars, TypeInv, TypeOK
  <2>2. LogInv'
    BY <1>9 DEF vars, TypeInv, LogInv, Answered
  <2> QED BY <2>1, <2>2 DEF TypeInv
<1> QED BY <1>1, <1>2, <1>3, <1>4, <1>5, <1>6, <1>7, <1>8, <1>9, <1>10 DEF Next

\* The variables keep their types (the loop of modbus_polling.py:136-170): the
\* indexes stay in the list, and last_point never passes the loop's position.
THEOREM TypeCorrect == Spec => []TypeOK
<1>1. TypeInv => TypeOK
  BY DEF TypeInv
<1> QED BY <1>1, TypeInit, TypeStep, PTL DEF Spec

-----------------------------------------------------------------------------
\* Until a request fails, the points since last_point are adjacent, and
\* response_size is what they take up, with room for the point at i.
PendingInv ==
  CleanSoFar /\ pc = "looping" =>
    /\ \A j \in last_point..i - 1 : Adjacent(points, j)
    /\ last_point = i => response_size = 0
    /\ last_point < i =>
         /\ i <= Len(points)
         /\ response_size = NextReg(points[i - 1]) - points[last_point].register
         /\ response_size + points[i].register_length < Limit

\* The last request ended where it did for a reason, if no row has changed.
SplitInv ==
  CleanSoFar /\ pc \in {"looping", "answered"} /\ Len(log) > 0 =>
    LET r == log[Len(log)]
    IN  /\ pc = "looping" => last_point = r.to + 1
        /\ r.edited = 0 /\ r.to < Len(points) =>
             \/ ~Adjacent(points, r.to)
             \/ NextReg(points[r.to + 1]) - r.rows[r.from].register >= Limit

RequestInv ==
  /\ RequestsContiguous
  /\ RequestsWithinLimit
  /\ NoNeedlessSplit
  /\ PendingInv
  /\ SplitInv

\* Requests already made stay clean, or not.
LEMMA SendClean ==
  ASSUME TypeOK, NEW o \in Outcome, Send(o)
  PROVE  /\ \A k \in 1..Len(log) + 1 : Clean(k)' <=> Clean(k)
         /\ \A k : k = Len(log) + 1 => (Clean(k) <=> CleanSoFar)
         /\ CleanSoFar' <=> CleanSoFar /\ o # "io"
<1>1. /\ Len(log') = Len(log) + 1
      /\ \A k \in 1..Len(log) : log'[k] = log[k]
      /\ log'[Len(log) + 1].outcome = o
      /\ Len(log) \in Nat
  BY SendEffect
<1>2. ASSUME NEW k \in 1..Len(log) + 1 PROVE Clean(k)' <=> Clean(k)
  <2>1. \A m \in 1..k - 1 : log'[m] = log[m]
    BY <1>1
  <2> QED BY <2>1 DEF Clean
<1>3. \A k : k = Len(log) + 1 => (Clean(k) <=> CleanSoFar)
  BY DEF CleanSoFar
<1>4. CleanSoFar' <=> \A m \in 1..Len(log) + 1 : log'[m].outcome # "io"
  BY <1>1 DEF CleanSoFar, Clean
<1>5. CleanSoFar <=> \A m \in 1..Len(log) : log[m].outcome # "io"
  BY <1>1 DEF CleanSoFar, Clean
<1> QED BY <1>1, <1>2, <1>3, <1>4, <1>5

\* What response_size grows to at i is what last_point..i take up.
LEMMA SizeAtFlush ==
  ASSUME TypeOK, PendingInv, CleanSoFar, pc = "looping", i \in 1..Len(points)
  PROVE  response_size + points[i].register_length =
           NextReg(points[i]) - points[last_point].register
<1>1. last_point \in 1..i /\ last_point \in 1..Len(points) /\ points \in Seq(Point)
  BY DEF TypeOK
<1>2. points[i] \in Point /\ points[last_point] \in Point
  BY <1>1
<1>3. /\ points[i].register \in Nat /\ points[i].register_length \in Nat
      /\ NextReg(points[i]) = points[i].register + points[i].register_length
      /\ points[last_point].register \in Nat
  BY <1>2, PointType
<1>4. CASE last_point = i
  BY <1>3, <1>4 DEF PendingInv
<1>5. CASE last_point < i
  <2>1. i - 1 \in last_point..i - 1 /\ i - 1 \in 1..Len(points) /\ (i - 1) + 1 = i
    BY <1>1, <1>5
  <2>2. points[i].register = NextReg(points[i - 1])
    BY <2>1 DEF PendingInv, Adjacent
  <2>3. response_size = NextReg(points[i - 1]) - points[last_point].register
    BY <1>5 DEF PendingInv
  <2>4. points[i - 1] \in Point
    BY <1>1, <2>1
  <2>5. NextReg(points[i - 1]) \in Nat
    BY <2>4, PointType
  <2> QED BY <1>3, <2>2, <2>3, <2>5
<1> QED BY <1>1, <1>4, <1>5

LEMMA SendRequests ==
  ASSUME TypeInv, RequestInv, NEW o \in Outcome, Send(o)
  PROVE  RequestsContiguous' /\ RequestsWithinLimit' /\ NoNeedlessSplit'
<1> DEFINE n == Len(log) + 1
<1>1. /\ i \in 1..Len(points) /\ last_point \in 1..i /\ pc = "looping"
      /\ Len(log') = n /\ n \in Nat /\ n = Len(log) + 1 /\ Len(log) \in Nat /\ Len(points) \in Nat
      /\ \A k \in 1..Len(log) : log'[k] = log[k]
      /\ log'[n].from = last_point /\ log'[n].to = i /\ log'[n].rows = points
  BY SendEffect DEF TypeInv
<1>2. /\ \A k \in 1..Len(log) + 1 : Clean(k)' <=> Clean(k)
      /\ \A k : k = n => (Clean(k) <=> CleanSoFar)
  BY SendClean DEF TypeInv
<1>3. \A k \in 1..Len(log') : k \in 1..Len(log) \/ k = n
  BY <1>1
<1> HIDE DEF n
<1>4. RequestsContiguous'
  <2> SUFFICES ASSUME NEW k \in 1..Len(log'), Clean(k)'
               PROVE  Contiguous(log'[k])
    BY DEF RequestsContiguous, Contiguous, Adjacent, NextReg
  <2>1. CASE k \in 1..Len(log)
    BY <1>1, <1>2, <2>1 DEF RequestInv, RequestsContiguous
  <2>2. CASE k = n
    <3>1. \A j \in last_point..i - 1 : Adjacent(points, j)
      BY <1>1, <1>2, <2>2 DEF RequestInv, PendingInv
    <3> QED BY <1>1, <2>2, <3>1 DEF Contiguous
  <2> QED BY <1>3, <2>1, <2>2
<1>5. RequestsWithinLimit'
  <2> SUFFICES ASSUME NEW k \in 1..Len(log'), Clean(k)', log'[k].from < log'[k].to
               PROVE  NextReg(log'[k].rows[log'[k].to])
                        - log'[k].rows[log'[k].from].register < Limit
    BY DEF RequestsWithinLimit, NextReg
  <2>1. CASE k \in 1..Len(log)
    BY <1>1, <1>2, <2>1 DEF RequestInv, RequestsWithinLimit
  <2>2. CASE k = n
    <3>1. CleanSoFar /\ last_point < i
      BY <1>1, <1>2, <2>2
    <3>2. response_size + points[i].register_length =
            NextReg(points[i]) - points[last_point].register
      BY <1>1, <3>1, SizeAtFlush DEF RequestInv, TypeInv
    <3>3. response_size + points[i].register_length < Limit
      BY <1>1, <3>1 DEF RequestInv, PendingInv
    <3> QED BY <1>1, <2>2, <3>2, <3>3
  <2> QED BY <1>3, <2>1, <2>2
<1>6. NoNeedlessSplit'
  <2> SUFFICES ASSUME NEW k \in 1..Len(log') - 1, Clean(k + 1)', log'[k].edited = 0
               PROVE  \/ ~Adjacent(log'[k + 1].rows, log'[k].to)
                      \/ NextReg(log'[k + 1].rows[log'[k + 1].from])
                           - log'[k].rows[log'[k].from].register >= Limit
    BY DEF NoNeedlessSplit, Adjacent, NextReg
  <2>1. k \in 1..Len(log) /\ k + 1 \in 1..Len(log') /\ log'[k] = log[k]
    BY <1>1
  <2>2. CASE k + 1 \in 1..Len(log)
    <3>1. k \in 1..Len(log) - 1 /\ Clean(k + 1) /\ log'[k + 1] = log[k + 1]
      BY <1>1, <1>2, <2>1, <2>2
    <3> QED BY <2>1, <3>1 DEF RequestInv, NoNeedlessSplit
  <2>3. CASE k + 1 = n
    <3>1. CleanSoFar /\ k = Len(log) /\ Len(log) > 0
      BY <1>1, <1>2, <2>1, <2>3
    <3>2. last_point = log[k].to + 1 /\ log[k].to \in Nat /\ log[k].to < Len(points)
      BY <1>1, <2>1, <3>1 DEF RequestInv, SplitInv, TypeInv, LogInv
    <3>3. \/ ~Adjacent(points, log[k].to)
          \/ NextReg(points[last_point]) - log[k].rows[log[k].from].register >= Limit
      BY <1>1, <2>1, <3>1, <3>2 DEF RequestInv, SplitInv
    <3> QED BY <1>1, <2>1, <2>3, <3>3
  <2> QED BY <1>3, <2>1, <2>2, <2>3
<1> QED BY <1>4, <1>5, <1>6

\* A request that was answered, or lost, ended where it did for a reason.
LEMMA SendSplit ==
  ASSUME TypeInv, RequestInv, NEW o \in Outcome, Send(o), pc' # "looping"
  PROVE  SplitInv'
<1> DEFINE n == Len(log) + 1
<1>1. /\ i \in 1..Len(points) /\ last_point \in 1..i /\ Len(points) \in Nat
      /\ pc = "looping" /\ Flushes(response_size + points[i].register_length)
      /\ Len(log') = n /\ log'[n].from = last_point /\ log'[n].to = i
      /\ log'[n].rows = points /\ Len(points') = Len(points)
      /\ log'[n].edited = 0 => points' = points
      /\ points \in Seq(Point)
  BY SendEffect DEF TypeInv, TypeOK
<1> HIDE DEF n
<1>2. CleanSoFar' => CleanSoFar
  BY SendClean DEF TypeInv
<1> SUFFICES ASSUME CleanSoFar', log'[n].edited = 0, i < Len(points), Adjacent(points, i)
             PROVE  NextReg(points[i + 1]) - points[last_point].register >= Limit
  BY <1>1 DEF SplitInv, Adjacent, NextReg
<1>3. response_size + points[i].register_length =
        NextReg(points[i]) - points[last_point].register
  BY <1>1, <1>2, SizeAtFlush DEF RequestInv, TypeInv
<1>4. response_size + points[i].register_length + points[i + 1].register_length >= Limit
  BY <1>1 DEF Flushes, ReachesLimit
<1>5. points[i] \in Point /\ points[i + 1] \in Point /\ points[last_point] \in Point
  BY <1>1
<1>6. /\ NextReg(points[i + 1]) = points[i + 1].register + points[i + 1].register_length
      /\ points[i + 1].register = NextReg(points[i])
      /\ points[i + 1].register_length \in Nat /\ NextReg(points[i]) \in Nat
      /\ points[last_point].register \in Nat
  BY <1>5, PointType DEF Adjacent
<1> QED BY <1>3, <1>4, <1>6

LEMMA RequestInit == Init => RequestInv
<1> SUFFICES ASSUME Init PROVE RequestInv
  OBVIOUS
<1>1. Len(log) = 0 /\ last_point = 1 /\ i = 1
  BY DEF Init
<1> QED BY <1>1 DEF Init, RequestInv, RequestsContiguous, RequestsWithinLimit,
                    NoNeedlessSplit, PendingInv, SplitInv

LEMMA RequestStep == TypeInv /\ RequestInv /\ [Next]_vars => RequestInv'
<1> SUFFICES ASSUME TypeInv, RequestInv, [Next]_vars PROVE RequestInv'
  OBVIOUS
<1>0. Len(points) \in Nat /\ points \in Seq(Point)
  BY DEF TypeInv, TypeOK
<1>1. ASSUME UNCHANGED <<points, log>>
      PROVE  /\ RequestsContiguous' /\ RequestsWithinLimit' /\ NoNeedlessSplit'
             /\ CleanSoFar' <=> CleanSoFar
  BY <1>1 DEF RequestInv, RequestsContiguous, RequestsWithinLimit, NoNeedlessSplit,
              Clean, CleanSoFar, Contiguous, Adjacent, NextReg
<1>2. CASE Gather
  <2>1. /\ i \in 1..Len(points) /\ last_point \in 1..i /\ pc = "looping"
        /\ i' = i + 1 /\ UNCHANGED <<points, log, last_point, pc>>
        /\ response_size' = response_size + points[i].register_length
        /\ i < Len(points) /\ Adjacent(points, i)
        /\ ~(response_size' + points[i + 1].register_length >= Limit)
    BY <1>0, <1>2 DEF Gather, Flushes, ReachesLimit, TypeInv, TypeOK
  <2>2. SplitInv'
    BY <1>1, <2>1 DEF RequestInv, SplitInv, Adjacent, NextReg
  <2>3. ASSUME CleanSoFar
        PROVE  response_size' = NextReg(points[i]) - points[last_point].register
    BY <2>1, <2>3, SizeAtFlush DEF RequestInv, TypeInv
  <2>4. response_size' \in Nat /\ points[i + 1].register_length \in Nat
    <3>1. points[i] \in Point /\ points[i + 1] \in Point /\ response_size \in Nat
      BY <1>0, <2>1 DEF TypeInv, TypeOK
    <3> QED BY <2>1, <3>1, PointType
  <2>5. response_size' + points[i + 1].register_length < Limit
    BY <2>1, <2>4, AggregateAssumption
  <2>6. ASSUME CleanSoFar, NEW j \in last_point..i PROVE Adjacent(points, j)
    BY <2>1, <2>6 DEF RequestInv, PendingInv
  <2>7. PendingInv'
    <3>1. i' - 1 = i /\ last_point # i' /\ i' <= Len(points)
      BY <2>1
    <3> QED BY <1>1, <2>1, <2>3, <2>5, <2>6, <3>1 DEF PendingInv, Adjacent, NextReg
  <2> QED BY <1>1, <2>1, <2>2, <2>7 DEF RequestInv
<1>3. CASE FlushOk
  <2>1. Send("ok") /\ "ok" \in Outcome /\ pc' = "answered"
    BY <1>3 DEF FlushOk, Outcome
  <2>2. PendingInv'
    BY <2>1 DEF PendingInv
  <2> QED BY <2>1, <2>2, SendRequests, SendSplit DEF RequestInv
<1>4. CASE FlushIOError \/ FlushGone
  <2>1. Send("io") /\ "io" \in Outcome
    BY <1>4 DEF FlushIOError, FlushGone, Outcome
  <2>2. ~CleanSoFar'
    BY <2>1, SendClean DEF TypeInv
  <2> QED BY <2>1, <2>2, SendRequests DEF RequestInv, PendingInv, SplitInv
<1>5. CASE FlushLost
  <2>1. Send("lost") /\ "lost" \in Outcome /\ pc' = "aborted"
    BY <1>5 DEF FlushLost, Outcome
  <2>2. PendingInv'
    BY <2>1 DEF PendingInv
  <2> QED BY <2>1, <2>2, SendRequests, SendSplit DEF RequestInv
<1>6. CASE TakePoint \/ Abort \/ Finish \/ UNCHANGED vars
  <2>1. UNCHANGED <<points, log, i, last_point, response_size>>
    BY <1>6 DEF TakePoint, Abort, Finish, vars
  <2>2. pc' = pc \/ pc' \in {"aborted", "done"}
    BY <1>6 DEF TakePoint, Abort, Finish, vars
  <2>3. PendingInv' /\ SplitInv'
    BY <1>1, <2>1, <2>2 DEF RequestInv, PendingInv, SplitInv, Adjacent, NextReg
  <2> QED BY <1>1, <2>1, <2>3 DEF RequestInv
<1>7. CASE TakenApart
  <2>1. /\ UNCHANGED <<points, log>> /\ pc = "answered" /\ pc' = "looping"
        /\ i' = i + 1 /\ last_point' = i + 1 /\ response_size' = 0
    BY <1>7 DEF TakenApart
  <2>2. i \in 1..Len(points) /\ log[Len(log)].to = i
    BY <1>0, <2>1 DEF TypeInv, TypeOK, LogInv, Answered
  <2>3. PendingInv'
    BY <2>1, <2>2 DEF PendingInv
  <2>4. SplitInv'
    BY <1>1, <2>1, <2>2 DEF RequestInv, SplitInv, Adjacent, NextReg
  <2> QED BY <1>1, <2>1, <2>3, <2>4 DEF RequestInv
<1> QED BY <1>2, <1>3, <1>4, <1>5, <1>6, <1>7 DEF Next

LEMMA RequestsAlways == Spec => [](TypeInv /\ RequestInv)
BY TypeInit, TypeStep, RequestInit, RequestStep, PTL DEF Spec

\* Until a request fails, a request is for points that are adjacent when it is
\* made: the test at modbus_polling.py:152-153 is enough for lists of any length
\* and any edits.
THEOREM Contiguity == Spec => []RequestsContiguous
BY RequestsAlways, PTL DEF RequestInv

\* Until a request fails, a request for several points stays below the limit:
\* response_size (modbus_polling.py:142) is the size of the request.
THEOREM WithinLimit == Spec => []RequestsWithinLimit
BY RequestsAlways, PTL DEF RequestInv

\* Until a request fails, points that fit in one request are not split, unless
\* one was edited.
THEOREM NoSplit == Spec => []NoNeedlessSplit
BY RequestsAlways, PTL DEF RequestInv

-----------------------------------------------------------------------------
Covered(j) == \E k \in 1..Len(log) : j \in log[k].from..log[k].to

\* Points before last_point have had their request, and at the end all have.
CoverInv ==
  /\ \A j \in 1..last_point - 1 : Covered(j)
  /\ i > Len(points) => \A j \in 1..Len(points) : Covered(j)
  /\ pc = "done" => i > Len(points)

\* The points of a request without an I/O error lie before those of all later
\* ones, and before last_point once it is over.
OrderInv ==
  /\ \A k \in 1..Len(log) :
       log[k].outcome # "io" /\ (k < Len(log) \/ pc \in {"looping", "done"}) =>
         log[k].to < last_point
  /\ \A k, m \in 1..Len(log) :
       k < m /\ log[k].outcome # "io" => log[k].to < log[m].from

LEMMA RequestType ==
  ASSUME TypeInv, NEW k \in 1..Len(log)
  PROVE  /\ log[k].from \in Nat /\ log[k].to \in Nat
         /\ log[k].from \in 1..log[k].to /\ log[k].to \in 1..Len(points)
<1>1. log[k] \in Request
  BY DEF TypeInv, TypeOK
<1> QED BY <1>1 DEF Request, TypeInv, LogInv

LEMMA CoverInit == Init => CoverInv /\ OrderInv
<1> SUFFICES ASSUME Init PROVE CoverInv /\ OrderInv
  OBVIOUS
<1>1. Len(log) = 0 /\ last_point = 1 /\ i = 1 /\ pc = "looping"
  BY DEF Init
<1>2. Len(points) \in Nat
  BY TypeInit DEF TypeInv, TypeOK
<1> QED BY <1>1, <1>2 DEF CoverInv, OrderInv

\* A request covers its points, and those covered stay so.
LEMMA SendCovers ==
  ASSUME TypeOK, NEW o \in Outcome, Send(o)
  PROVE  \A j \in Nat : Covered(j) \/ j \in last_point..i => Covered(j)'
<1>1. /\ i \in 1..Len(points) /\ last_point \in 1..i
      /\ Len(log') = Len(log) + 1 /\ Len(log) \in Nat
      /\ \A k \in 1..Len(log) : log'[k] = log[k]
      /\ log'[Len(log) + 1].from = last_point /\ log'[Len(log) + 1].to = i
  BY SendEffect
<1> SUFFICES ASSUME NEW j \in Nat, Covered(j) \/ j \in last_point..i
             PROVE  Covered(j)'
  OBVIOUS
<1>2. CASE Covered(j)
  <2>1. PICK k \in 1..Len(log) : j \in log[k].from..log[k].to
    BY <1>2 DEF Covered
  <2>2. k \in 1..Len(log') /\ log'[k] = log[k]
    BY <1>1
  <2> QED BY <2>1, <2>2 DEF Covered
<1>3. CASE j \in last_point..i
  <2>1. Len(log) + 1 \in 1..Len(log')
    BY <1>1
  <2> QED BY <1>1, <1>3, <2>1 DEF Covered
<1> QED BY <1>2, <1>3

LEMMA SendCover ==
  ASSUME TypeInv, CoverInv, NEW o \in Outcome, Send(o),
         i' = i \/ i' = i + 1, last_point' = last_point \/ last_point' = i + 1, pc' # "done"
  PROVE  CoverInv'
<1>1. /\ i \in 1..Len(points) /\ last_point \in 1..i
      /\ Len(points') = Len(points) /\ Len(points) \in Nat
  BY SendEffect DEF TypeInv
<1>2. \A j \in 1..i : Covered(j)'
  <2> SUFFICES ASSUME NEW j \in 1..i PROVE Covered(j)'
    OBVIOUS
  <2>1. j \in 1..last_point - 1 \/ j \in last_point..i
    BY <1>1
  <2>2. j \in Nat
    BY <1>1
  <2> QED BY <2>1, <2>2, SendCovers DEF CoverInv, TypeInv
<1>3. i' > Len(points') => i = Len(points)
  BY <1>1
<1>4. \A j \in 1..last_point' - 1 : Covered(j)'
  BY <1>1, <1>2
<1>5. i' > Len(points') => \A j \in 1..Len(points') : Covered(j)'
  BY <1>1, <1>2, <1>3
<1> QED BY <1>4, <1>5 DEF CoverInv

LEMMA SendOrder ==
  ASSUME TypeInv, OrderInv, NEW o \in Outcome, Send(o),
         last_point' = last_point \/ last_point' = i + 1,
         pc' \in {"looping", "done"} => o = "io"
  PROVE  OrderInv'
<1> DEFINE n == Len(log) + 1
<1>1. /\ pc = "looping" /\ i \in 1..Len(points) /\ last_point \in 1..i
      /\ Len(log') = n /\ n \in Nat /\ Len(log) \in Nat /\ n = Len(log) + 1
      /\ \A k \in 1..Len(log) : log'[k] = log[k]
      /\ log'[n].from = last_point /\ log'[n].to = i /\ log'[n].outcome = o
  BY SendEffect DEF TypeInv
<1>2. \A k \in 1..Len(log') : k \in 1..Len(log) \/ k = n
  BY <1>1
<1> HIDE DEF n
<1>3. ASSUME NEW k \in 1..Len(log), log'[k].outcome # "io"
      PROVE  log'[k] = log[k] /\ log[k].to < last_point /\ log[k].to \in Nat
  BY <1>1, <1>3, RequestType DEF OrderInv
<1>4. ASSUME NEW k \in 1..Len(log'), log'[k].outcome # "io",
             k < Len(log') \/ pc' \in {"looping", "done"}
      PROVE  log'[k].to < last_point'
  <2>1. CASE k \in 1..Len(log)
    <3>1. log[k].to < last_point /\ log'[k] = log[k] /\ log[k].to \in Nat
      BY <1>3, <1>4, <2>1
    <3> QED BY <1>1, <3>1
  <2>2. CASE k = n
    BY <1>1, <1>4, <2>2
  <2> QED BY <1>2, <2>1, <2>2
<1>5. ASSUME NEW k \in 1..Len(log'), NEW m \in 1..Len(log'), k < m, log'[k].outcome # "io"
      PROVE  log'[k].to < log'[m].from
  <2>1. k \in 1..Len(log)
    BY <1>1, <1>5
  <2>2. CASE m \in 1..Len(log)
    BY <1>1, <1>3, <1>5, <2>1, <2>2 DEF OrderInv
  <2>3. CASE m = n
    BY <1>1, <1>3, <1>5, <2>1, <2>3
  <2> QED BY <1>2, <2>2, <2>3
<1> QED BY <1>4, <1>5 DEF OrderInv

LEMMA CoverStep ==
  TypeInv /\ CoverInv /\ OrderInv /\ [Next]_vars => CoverInv' /\ OrderInv'
<1> SUFFICES ASSUME TypeInv, CoverInv, OrderInv, [Next]_vars
             PROVE  CoverInv' /\ OrderInv'
  OBVIOUS
<1>1. CASE Gather
  <2>1. /\ i' = i + 1 /\ pc' = pc /\ pc = "looping"
        /\ UNCHANGED <<points, last_point, log>>
        /\ i < Len(points) /\ i \in Nat /\ Len(points) \in Nat
    BY <1>1 DEF Gather, Flushes, TypeInv, TypeOK
  <2>2. ~(i' > Len(points))
    BY <2>1
  <2> QED BY <2>1, <2>2 DEF CoverInv, OrderInv, Covered, Clean
<1>2. CASE FlushOk
  BY <1>2, SendCover, SendOrder DEF FlushOk, Outcome
<1>3. CASE FlushIOError
  <2>1. pc' = "looping"
    BY <1>3 DEF FlushIOError, Send
  <2> QED BY <1>3, <2>1, SendCover, SendOrder DEF FlushIOError, Outcome
<1>8. CASE FlushGone
  <2>1. pc' = "looping"
    BY <1>8 DEF FlushGone, Send
  <2> QED BY <1>8, <2>1, SendCover, SendOrder DEF FlushGone, Outcome
<1>4. CASE FlushLost
  BY <1>4, SendCover, SendOrder DEF FlushLost, Outcome
<1>5. CASE TakePoint \/ Abort \/ UNCHANGED vars
  <2>1. UNCHANGED <<points, log, i, last_point>> /\ (pc' = pc \/ pc' = "aborted")
    BY <1>5 DEF TakePoint, Abort, vars
  <2> QED BY <2>1 DEF CoverInv, OrderInv, Covered, Clean
<1>6. CASE Finish
  BY <1>6 DEF Finish, CoverInv, OrderInv, Covered, Clean
<1>7. CASE TakenApart
  <2>1. /\ UNCHANGED <<points, log>> /\ pc = "answered" /\ pc' = "looping"
        /\ i' = i + 1 /\ last_point' = i + 1
    BY <1>7 DEF TakenApart
  <2>2. /\ i \in 1..Len(points) /\ last_point \in 1..i /\ Len(log) \in 1..Len(log)
        /\ log[Len(log)].from = last_point /\ log[Len(log)].to = i
        /\ Len(points) \in Nat
    BY <2>1 DEF TypeInv, TypeOK, LogInv, Answered
  <2>3. \A j \in 1..i : Covered(j)
    <3> SUFFICES ASSUME NEW j \in 1..i PROVE Covered(j)
      OBVIOUS
    <3>1. j \in 1..last_point - 1 \/ j \in last_point..i
      BY <2>2
    <3> QED BY <2>2, <3>1 DEF CoverInv, Covered
  <2>4. CoverInv'
    BY <2>1, <2>2, <2>3 DEF CoverInv, Covered
  <2>5. ASSUME NEW k \in 1..Len(log), log[k].outcome # "io" PROVE log[k].to < i + 1
    <3>1. log[k].to \in Nat
      BY RequestType
    <3>2. CASE k < Len(log)
      BY <2>2, <2>5, <3>1, <3>2 DEF OrderInv
    <3>3. CASE k = Len(log)
      BY <2>2, <3>3
    <3> QED BY <2>2, <3>2, <3>3
  <2>6. OrderInv'
    BY <2>1, <2>5 DEF OrderInv
  <2> QED BY <2>4, <2>6
<1> QED BY <1>1, <1>2, <1>3, <1>4, <1>5, <1>6, <1>7, <1>8 DEF Next

LEMMA CoverSuffices == TypeInv /\ CoverInv /\ OrderInv => EveryPointRequested
<1> SUFFICES ASSUME TypeInv, CoverInv, OrderInv, NEW j \in 1..Len(points)
             PROVE  LET hits == {k \in 1..Len(log) : j \in log[k].from..log[k].to}
                    IN  /\ pc = "done" => hits # {}
                        /\ \A k, m \in hits : k < m => log[k].outcome = "io"
  BY DEF EveryPointRequested
<1> DEFINE hits == {k \in 1..Len(log) : j \in log[k].from..log[k].to}
<1>1. pc = "done" => hits # {}
  BY DEF CoverInv, Covered
<1>2. ASSUME NEW k \in hits, NEW m \in hits, k < m, log[k].outcome # "io" PROVE FALSE
  <2>1. log[k].to < log[m].from
    BY <1>2 DEF OrderInv
  <2>2. /\ log[k].to \in Nat /\ log[m].from \in Nat
        /\ j <= log[k].to /\ log[m].from <= j
    BY RequestType
  <2> QED BY <2>1, <2>2
<1> QED BY <1>1, <1>2

LEMMA CoverAlways == Spec => [](CoverInv /\ OrderInv)
BY TypeInit, TypeStep, CoverInit, CoverStep, PTL DEF Spec

\* A pass that is not aborted makes a request for every point, and another one
\* only after an I/O error: the loop drops no point and repeats no answered
\* request, whatever the gaps, the limit, the edits and the errors
\* (modbus_polling.py:141-170).
THEOREM EveryPoint == Spec => []EveryPointRequested
BY TypeInit, TypeStep, CoverAlways, CoverSuffices, PTL DEF Spec

-----------------------------------------------------------------------------
\* Points that were not asked for have no value, up to the first failure.
AwaitedInv ==
  CleanSoFar =>
    /\ pc = "looping" => \A j \in last_point..Len(points) : place[j] = None
    /\ pc = "answered" => \A j \in at..Len(points) : place[j] = None

\* The request says where its values belong, if nothing was edited before j.
Addresses(r, j) ==
  /\ kind = "write" => \A h \in r.from..r.to : r.rows[h].width = r.rows[h].register_length
  /\ kind = "write" \/ r.edited \notin r.from + 1..j - 1

\* arr_ind leads to the register of the point whose value is next.
IndexInv ==
  pc = "answered" /\ CleanSoFar /\ at <= i /\ Addresses(Answered, at) =>
    Answered.rows[last_point].register + arr_ind = Answered.rows[at].register

OwnInv == AwaitedInv /\ IndexInv /\ OwnRegister

LEMMA OwnInit == Init => OwnInv
<1> SUFFICES ASSUME Init PROVE OwnInv
  OBVIOUS
<1>1. Len(log) = 0 /\ last_point = 1 /\ pc = "looping"
  BY DEF Init
<1> QED BY <1>1 DEF Init, OwnInv, AwaitedInv, IndexInv, OwnRegister

\* A request does not touch values, or withdraws those of its own points.
LEMMA SendOwn ==
  ASSUME TypeInv, OrderInv, OwnInv, NEW o \in Outcome, Send(o),
         \A j \in 1..Len(points) : place'[j] = place[j] \/ (o = "io" /\ place'[j] = None)
  PROVE  OwnRegister'
<1> DEFINE n == Len(log) + 1
<1>1. /\ pc = "looping" /\ i \in 1..Len(points) /\ last_point \in 1..i
      /\ Len(log') = n /\ n \in Nat /\ Len(log) \in Nat /\ n = Len(log) + 1
      /\ Len(points) \in Nat /\ kind' = kind
      /\ \A k \in 1..Len(log) : log'[k] = log[k]
      /\ log'[n].from = last_point /\ log'[n].to = i
  BY SendEffect DEF TypeInv
<1>2. /\ \A k \in 1..Len(log) + 1 : Clean(k)' <=> Clean(k)
      /\ \A k : k = n => (Clean(k + 1)' <=> CleanSoFar')
      /\ CleanSoFar' => CleanSoFar /\ o # "io"
  <2>1. \A k : k = n => (Clean(k + 1)' <=> CleanSoFar')
    BY <1>1 DEF CleanSoFar
  <2> QED BY <2>1, SendClean DEF TypeInv
<1>3. \A k \in 1..Len(log') : k \in 1..Len(log) \/ k = n
  BY <1>1
<1> HIDE DEF n
<1> SUFFICES ASSUME NEW k \in 1..Len(log'), Clean(k + 1)', NEW j \in log'[k].from..log'[k].to,
                    kind = "write" => \A h \in log'[k].from..log'[k].to :
                                        log'[k].rows[h].width = log'[k].rows[h].register_length,
                    kind = "write" \/ log'[k].edited \notin log'[k].from + 1..j - 1
             PROVE  place'[j] \in {None, log'[k].rows[j].register}
  BY <1>1 DEF OwnRegister
<1>4. CASE k \in 1..Len(log)
  <2>1. log'[k] = log[k] /\ k + 1 \in 1..Len(log) + 1
    BY <1>1, <1>4
  <2>2. Clean(k + 1)
    BY <1>2, <2>1
  <2>3. j \in 1..Len(points)
    BY <1>1, <1>4, <2>1, RequestType
  <2>4. place[j] \in {None, log[k].rows[j].register}
    BY <1>4, <2>1, <2>2 DEF OwnInv, OwnRegister
  <2> QED BY <2>1, <2>3, <2>4
<1>5. CASE k = n
  <2>1. CleanSoFar /\ o # "io"
    BY <1>2, <1>5
  <2>2. j \in last_point..Len(points) /\ j \in 1..Len(points)
    BY <1>1, <1>5
  <2> QED BY <1>1, <2>1, <2>2 DEF OwnInv, AwaitedInv
<1> QED BY <1>3, <1>4, <1>5

\* A row that the response is taken apart with too late is the only one that
\* may lead arr_ind astray.
LEMMA TakeIndex ==
  ASSUME TypeInv, RequestsContiguous, IndexInv, pc = "answered", CleanSoFar,
         at + 1 <= i, Addresses(Answered, at + 1)
  PROVE  Answered.rows[last_point].register + arr_ind + Extent(at)
           = Answered.rows[at + 1].register
<1>1. /\ at \in Nat /\ at <= i /\ i \in Nat /\ last_point \in Nat
      /\ at \in 1..Len(points) /\ at + 1 \in 1..Len(points) /\ at \in last_point..i
      /\ Answered.from = last_point /\ Answered.to = i
      /\ session = "expired" => at > last_point
      /\ \A j \in 1..Len(points) : j # Answered.edited => points[j] = Answered.rows[j]
      /\ kind \in {"read", "write"} /\ Len(points) \in Nat
  BY DEF TypeInv, TypeOK, LogInv
<1>2. /\ Answered = log[Len(log)] /\ Len(log) \in 1..Len(log)
      /\ \A j \in 1..Len(points) : Answered.rows[j] \in Point
  BY <1>1, ExtentType
<1>3. Clean(Len(log))
  BY <1>2 DEF CleanSoFar, Clean
<1>4. Adjacent(Answered.rows, at)
  <2>1. Contiguous(Answered)
    BY <1>2, <1>3 DEF RequestsContiguous
  <2>2. at \in Answered.from..Answered.to - 1
    BY <1>1
  <2> QED BY <2>1, <2>2 DEF Contiguous
<1>5. Answered.rows[last_point].register + arr_ind = Answered.rows[at].register
  <2>1. Addresses(Answered, at)
    BY <1>1 DEF Addresses
  <2> QED BY <1>1, <2>1 DEF IndexInv
<1>6. Extent(at) = Answered.rows[at].register_length
  <2>1. CASE kind = "write"
    BY <1>1, <2>1 DEF Extent, Addresses
  <2>2. CASE kind = "read" /\ session = "expired"
    <3>1. at \in last_point + 1..at + 1 - 1
      BY <1>1, <2>2
    <3>2. Answered.edited # at
      BY <1>1, <2>2, <3>1 DEF Addresses
    <3> QED BY <1>1, <2>2, <3>2 DEF Extent
  <2>3. CASE kind = "read" /\ session # "expired"
    BY <2>3 DEF Extent
  <2> QED BY <1>1, <2>1, <2>2, <2>3
<1>7. Answered.rows[at] \in Point /\ Answered.rows[at + 1] \in Point
  BY <1>1, <1>2
<1> QED BY <1>4, <1>5, <1>6, <1>7, PointType DEF Adjacent

\* Taking a value keeps what earlier requests have left, and puts this one where
\* it belongs.
LEMMA TakeOwn ==
  ASSUME TypeInv, OrderInv, OwnInv, TakePoint
  PROVE  OwnRegister'
<1>1. /\ pc = "answered" /\ at <= i /\ UNCHANGED <<kind, log>>
      /\ place' = [place EXCEPT ![at] = Answered.rows[last_point].register + arr_ind]
  BY DEF TakePoint
<1>2. /\ at \in 1..Len(points) /\ at \in last_point..i
      /\ Answered = log[Len(log)] /\ Len(log) \in 1..Len(log)
  BY <1>1, ExtentType
<1>3. DOMAIN place = 1..Len(points) /\ last_point \in Nat
  BY DEF TypeInv, TypeOK
<1> SUFFICES ASSUME NEW k \in 1..Len(log), Clean(k + 1), NEW j \in log[k].from..log[k].to,
                    kind = "write" => \A h \in log[k].from..log[k].to :
                                        log[k].rows[h].width = log[k].rows[h].register_length,
                    kind = "write" \/ log[k].edited \notin log[k].from + 1..j - 1
             PROVE  place'[j] \in {None, log[k].rows[j].register}
  BY <1>1 DEF OwnRegister, Clean
<1>4. j \in 1..Len(points)
  BY <1>2, RequestType
<1>8. log[k].outcome # "io"
  BY DEF Clean
<1>5. place[j] \in {None, log[k].rows[j].register}
  BY DEF OwnInv, OwnRegister
<1>6. CASE j # at
  BY <1>1, <1>3, <1>4, <1>5, <1>6
<1>7. CASE j = at
  <2>1. k = Len(log)
    <3>1. ~(k < Len(log))
      <4>1. k < Len(log) => log[k].to < last_point
        <5>1. k < Len(log) => log[k].to < log[Len(log)].from
          BY <1>2, <1>8 DEF OrderInv
        <5> QED BY <1>1, <1>2, <5>1 DEF TypeInv, LogInv
      <4> QED BY <1>2, <1>3, <1>7, <4>1, RequestType
    <3> QED BY <3>1, <1>2
  <2>2. CleanSoFar /\ Addresses(Answered, at)
    BY <1>2, <1>7, <2>1 DEF CleanSoFar, Addresses
  <2>3. Answered.rows[last_point].register + arr_ind = Answered.rows[at].register
    BY <1>1, <2>2 DEF OwnInv, IndexInv
  <2> QED BY <1>1, <1>2, <1>3, <1>7, <2>1, <2>3
<1> QED BY <1>6, <1>7

LEMMA OwnStep ==
  TypeInv /\ RequestInv /\ OrderInv /\ OwnInv /\ [Next]_vars => OwnInv'
<1> SUFFICES ASSUME TypeInv, RequestInv, OrderInv, OwnInv, [Next]_vars PROVE OwnInv'
  OBVIOUS
<1>0. Len(points) \in Nat /\ i \in Nat /\ last_point \in 1..i
  BY DEF TypeInv, TypeOK
<1>1. CASE Gather
  <2>1. /\ UNCHANGED <<kind, points, last_point, log, at, arr_ind, place, pc>>
        /\ pc = "looping"
    BY <1>1 DEF Gather
  <2>2. AwaitedInv' /\ IndexInv'
    BY <2>1 DEF OwnInv, AwaitedInv, IndexInv, CleanSoFar, Clean
  <2>3. OwnRegister'
    BY <2>1 DEF OwnInv, OwnRegister, Clean
  <2> QED BY <2>2, <2>3 DEF OwnInv
<1>2. CASE FlushOk
  <2>1. /\ Send("ok") /\ "ok" \in Outcome /\ pc' = "answered"
        /\ UNCHANGED <<i, last_point, place>> /\ at' = last_point /\ arr_ind' = 0
    BY <1>2 DEF FlushOk, Outcome
  <2>2. /\ pc = "looping" /\ i \in 1..Len(points) /\ Len(points') = Len(points)
        /\ points \in Seq(Point) /\ Answered'.rows = points
    BY <2>1, SendEffect DEF TypeInv, TypeOK, Answered
  <2>3. CleanSoFar' => CleanSoFar
    BY <2>1, SendClean DEF TypeInv
  <2>4. AwaitedInv'
    BY <2>1, <2>2, <2>3 DEF OwnInv, AwaitedInv
  <2>5. IndexInv'
    <3>1. points[last_point] \in Point
      BY <1>0, <2>2
    <3> QED BY <2>1, <2>2, <3>1, PointType DEF IndexInv
  <2>6. OwnRegister'
    BY <2>1, SendOwn
  <2> QED BY <2>4, <2>5, <2>6 DEF OwnInv
<1>3. CASE FlushIOError \/ FlushGone
  <2>1. /\ Send("io") /\ "io" \in Outcome
        /\ \A j \in 1..Len(points) : place'[j] = place[j] \/ place'[j] = None
    BY <1>3 DEF FlushIOError, FlushGone, Withdrawn, Outcome
  <2>2. ~CleanSoFar'
    BY <2>1, SendClean DEF TypeInv
  <2>3. OwnRegister'
    BY <2>1, SendOwn
  <2> QED BY <2>2, <2>3 DEF OwnInv, AwaitedInv, IndexInv
<1>4. CASE FlushLost
  <2>1. /\ Send("lost") /\ "lost" \in Outcome /\ place' = place /\ pc' = "aborted"
    BY <1>4 DEF FlushLost, Outcome
  <2>2. OwnRegister'
    BY <2>1, SendOwn
  <2> QED BY <2>1, <2>2 DEF OwnInv, AwaitedInv, IndexInv
<1>5. CASE TakePoint
  <2>1. /\ pc = "answered" /\ pc' = pc /\ at <= i /\ at' = at + 1
        /\ UNCHANGED <<kind, points, i, last_point, log>>
        /\ arr_ind' = arr_ind + Extent(at)
        /\ place' = [place EXCEPT ![at] = Answered.rows[last_point].register + arr_ind]
    BY <1>5 DEF TakePoint
  <2>2. /\ at \in 1..Len(points) /\ Extent(at) \in Nat /\ arr_ind \in Nat
        /\ DOMAIN place = 1..Len(points)
    BY <2>1, ExtentType DEF TypeInv, TypeOK
  <2>3. Answered' = Answered /\ (CleanSoFar' <=> CleanSoFar)
    BY <2>1 DEF Answered, CleanSoFar, Clean
  <2>4. AwaitedInv'
    <3> SUFFICES ASSUME CleanSoFar, NEW j \in at + 1..Len(points)
                 PROVE  place'[j] = None
      BY <2>1, <2>3 DEF AwaitedInv
    <3>1. j \in at..Len(points) /\ j # at /\ j \in 1..Len(points)
      BY <2>2
    <3> QED BY <2>1, <2>2, <3>1 DEF OwnInv, AwaitedInv
  <2>5. IndexInv'
    <3> SUFFICES ASSUME CleanSoFar, at + 1 <= i, Addresses(Answered, at + 1)
                 PROVE  Answered.rows[last_point].register + (arr_ind + Extent(at))
                          = Answered.rows[at + 1].register
      BY <2>1, <2>3 DEF IndexInv, Addresses
    <3>1. Answered.rows[last_point].register + arr_ind + Extent(at)
            = Answered.rows[at + 1].register
      BY <2>1, TakeIndex DEF RequestInv, OwnInv
    <3>2. Answered.rows[last_point].register \in Nat
      <4>1. last_point \in 1..Len(points) /\ Answered.rows[last_point] \in Point
        BY <1>0, <2>1, <2>2, ExtentType DEF TypeInv, LogInv
      <4> QED BY <4>1, PointType
    <3> QED BY <2>2, <3>1, <3>2
  <2>6. OwnRegister'
    BY <1>5, TakeOwn
  <2> QED BY <2>4, <2>5, <2>6 DEF OwnInv
<1>6. CASE TakenApart
  <2>1. /\ UNCHANGED <<kind, points, log, place>> /\ pc = "answered" /\ pc' = "looping"
        /\ last_point' = i + 1 /\ at \in 1..i + 1
    BY <1>6 DEF TakenApart, TypeInv, TypeOK
  <2>2. AwaitedInv'
    <3> SUFFICES ASSUME CleanSoFar, NEW j \in i + 1..Len(points)
                 PROVE  place[j] = None
      BY <2>1 DEF AwaitedInv, CleanSoFar, Clean
    <3>1. j \in at..Len(points)
      BY <1>0, <2>1
    <3> QED BY <2>1, <3>1 DEF OwnInv, AwaitedInv
  <2>3. IndexInv'
    BY <2>1 DEF IndexInv
  <2>4. OwnRegister'
    BY <2>1 DEF OwnInv, OwnRegister, Clean
  <2> QED BY <2>2, <2>3, <2>4 DEF OwnInv
<1>7. CASE Abort \/ Finish \/ UNCHANGED vars
  <2>1. /\ UNCHANGED <<kind, points, i, last_point, log, at, arr_ind, place>>
        /\ pc' = pc \/ pc' \in {"aborted", "done"}
    BY <1>7 DEF Abort, Finish, vars
  <2>2. AwaitedInv' /\ IndexInv'
    BY <2>1 DEF OwnInv, AwaitedInv, IndexInv, CleanSoFar, Clean, Addresses, Answered
  <2>3. OwnRegister'
    BY <2>1 DEF OwnInv, OwnRegister, Clean
  <2> QED BY <2>2, <2>3 DEF OwnInv
<1> QED BY <1>1, <1>2, <1>3, <1>4, <1>5, <1>6, <1>7 DEF Next

\* Until a request fails, the value of a point is read from, or written to, the
\* point's own register, for lists of any length and any edits: only an edit of
\* an earlier point of the same response, read again too late, leads elsewhere
\* (poll.py:57-74).
THEOREM OwnRegisters == Spec => []OwnRegister
<1>1. OwnInv => OwnRegister
  BY DEF OwnInv
<1> QED BY <1>1, TypeInit, TypeStep, RequestsAlways, CoverAlways, OwnInit, OwnStep, PTL
         DEF Spec
=============================================================================
