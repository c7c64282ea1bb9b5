-------------------------- MODULE PointWrite_proofs --------------------------
(***************************************************************************)
(* Theorems about PointWrite, for any values, priorities and thresholds    *)
(* and any number of manual polls.                                         *)
(***************************************************************************)
EXTENDS PointWrite, WellFoundedInduction, TLAPS

LEMMA SetupType ==
  ASSUME setup \in Setups
  PROVE  /\ setup.once \in BOOLEAN /\ setup.grouped \in BOOLEAN
         /\ setup.shown \in [Values -> Int \cup {None}] /\ setup.cov_threshold \in Nat
         /\ setup.lowest \in Nat \ {0} /\ setup.fallbacks \subseteq Values \cup {None}
         /\ setup.max_faults \in Nat /\ setup.max_crashes \in Nat
         /\ setup.kind # "register" => 1 \in Values
         /\ Priorities \subseteq Nat /\ setup.lowest \in Priorities
<1>1. setup \in Setup /\ (setup.kind # "register" => 1 \in Values)
  BY WriteAssumption
<1>2. setup.lowest \in Nat \ {0}
  BY <1>1 DEF Setup
<1>3. Priorities \subseteq Nat /\ setup.lowest \in Priorities
  BY <1>2 DEF Priorities
<1> QED BY <1>1, <1>2, <1>3 DEF Setup

\* Every nonempty set of priorities has a highest one.
LEMMA HighestExists ==
  ASSUME setup \in Setups, NEW S \in SUBSET Priorities, S # {}
  PROVE  \E p \in S : \A q \in S : p <= q
<1>1. S \subseteq Nat
  BY SetupType
<1>2. \E p \in S : \A q \in S : ~ (<<q, p>> \in OpToRel(<, Nat))
  BY <1>1, NatLessThanWellFounded, WFMin
<1>3. PICK p \in S : \A q \in S : ~ (<<q, p>> \in OpToRel(<, Nat))
  BY <1>2
<1>4. \A q \in S : q < p => <<q, p>> \in OpToRel(<, Nat)
  BY <1>1 DEF OpToRel
<1>5. \A q \in S : ~ (q < p)
  BY <1>3, <1>4
<1>6. p \in Nat /\ \A q \in S : q \in Nat
  BY <1>1
<1>7. \A q \in S : p <= q
  BY <1>5, <1>6
<1> QED BY <1>7

LEMMA HighestType ==
  ASSUME setup \in Setups, NEW a \in [Priorities -> Values \cup {None}]
  PROVE  /\ Highest(a) \in Values \cup {None}
         /\ Highest(a) = None <=> \A p \in Priorities : a[p] = None
<1> DEFINE set == {p \in Priorities : a[p] # None}
<1>1. CASE set = {}
  <2>1. Highest(a) = None
    BY <1>1 DEF Highest
  <2> QED BY <1>1, <2>1
<1>2. CASE set # {}
  <2>1. \E p \in set : \A q \in set : p <= q
    BY <1>2, HighestExists
  <2>2. (CHOOSE p \in set : \A q \in set : p <= q) \in set
    BY <2>1
  <2>3. Highest(a) = a[CHOOSE p \in set : \A q \in set : p <= q]
    BY <1>2 DEF Highest
  <2> QED BY <2>2, <2>3
<1> QED BY <1>1, <1>2

LEMMA CommandType ==
  ASSUME setup \in Setups, priority_array \in [Priorities -> Values \cup {None}]
  PROVE  Command \in Values \cup {None}
BY HighestType DEF Command

\* The command after a step is that of the new array.
LEMMA CommandPrimed == setup' = setup => Command' = Highest(priority_array')
BY DEF Command, Highest, Priorities

LEMMA EchoType ==
  ASSUME setup \in Setups, NEW v \in Values \cup {None} PROVE Echo(v) \in Values
BY WriteAssumption, SetupType DEF Echo, Payload

\* Whatever form an answer has, it tells what the write made of the device.
LEMMA AnswerTells ==
  ASSUME setup \in Setups, NEW p \in Pollers, NEW v \in Values \cup {None},
         NEW a \in Answers(p, v)
  PROVE  a \in Values /\ Echo(a) = Echo(v)
<1>1. Payload(v) \in Values /\ Echo(v) \in Values
  BY WriteAssumption, EchoType DEF Payload
<1>2. Payload(v) # None /\ Echo(v) # None
  <2>1. \A x \in Values : x \in Int
    BY WriteAssumption
  <2> QED BY <1>1, <2>1, WriteAssumption
<1>3. Echo(Payload(v)) = Echo(v)
  BY <1>2 DEF Echo, Payload
<1>4. Echo(Echo(v)) = Echo(v)
  BY <1>2 DEF Echo, Payload
<1>5. a \in {Payload(v), Echo(v)}
  BY DEF Answers
<1> QED BY <1>1, <1>3, <1>4, <1>5

LEMMA StoredType ==
  ASSUME setup \in Setups, NEW v \in Values, setup.shown[v] # None
  PROVE  Stored(v) \in Store
BY WriteAssumption, SetupType DEF Stored, Store

LEMMA WithFallbackType ==
  ASSUME setup \in Setups, NEW a \in [Priorities -> Values \cup {None}],
         fallback_value \in Values \cup {None}
  PROVE  /\ WithFallback(a) \in [Priorities -> Values \cup {None}]
         /\ Highest(WithFallback(a)) = None => fallback_value = None
<1>1. CASE Highest(a) = None
  <2>1. /\ WithFallback(a) = [a EXCEPT ![setup.lowest] = fallback_value]
        /\ WithFallback(a) \in [Priorities -> Values \cup {None}]
        /\ WithFallback(a)[setup.lowest] = fallback_value
    BY <1>1, SetupType DEF WithFallback
  <2> QED BY <2>1, SetupType, HighestType
<1>2. CASE Highest(a) # None
  BY <1>2 DEF WithFallback
<1> QED BY <1>1, <1>2

LEMMA OverwrittenType ==
  ASSUME setup \in Setups, priority_array \in [Priorities -> Values \cup {None}],
         fallback_value \in Values \cup {None},
         NEW D \in SUBSET Priorities, NEW a \in Writes(D)
  PROVE  /\ Overwritten(a) \in [Priorities -> Values \cup {None}]
         /\ Highest(Overwritten(a)) = None => fallback_value = None
<1> DEFINE b == [p \in Priorities |->
                   IF p \in DOMAIN a THEN a[p] ELSE priority_array[p]]
<1>1. b \in [Priorities -> Values \cup {None}]
  BY DEF Writes
<1>2. Overwritten(a) = WithFallback(b)
  BY DEF Overwritten
<1> HIDE DEF b
<1> QED BY <1>1, <1>2, WithFallbackType

-----------------------------------------------------------------------------
LEMMA TypeInit == Init => TypeOK
<1> SUFFICES ASSUME Init PROVE TypeOK
  OBVIOUS
<1>1. [value |-> None, value_original |-> None, fault |-> FALSE] \in Store
  BY DEF Store
<1>2. device \in Values
  BY EchoType DEF Init
<1>3. point_store \in Store
  BY <1>1, AnswerTells, StoredType DEF Init
<1>4. 0 \in 0..setup.max_faults /\ 0 \in 0..setup.max_crashes
  BY SetupType DEF Init
<1>5. fallback_value \in Values \cup {None}
  BY SetupType DEF Init
<1> QED BY <1>2, <1>3, <1>4, <1>5 DEF Init, TypeOK

LEMMA RequestType == TypeOK /\ Request => TypeOK'
<1> SUFFICES ASSUME TypeOK, NEW D \in SUBSET Priorities, NEW a \in Writes(D),
                    WriteValue(a) \/ \E f \in Values \cup {None} : PatchPoint(a, f)
             PROVE  TypeOK'
  BY SetupType DEF Request, TypeOK
<1>0. Overwritten(a) \in [Priorities -> Values \cup {None}]
  BY OverwrittenType DEF TypeOK
<1>1. CASE WriteValue(a)
  <2>1. priority_array' \in [Priorities -> Values \cup {None}]
    BY <1>0, <1>1 DEF WriteValue
  <2> QED BY <1>1, <2>1 DEF WriteValue, TypeOK, Priorities, pollVars, boundVars
<1>2. ASSUME NEW f \in Values \cup {None}, PatchPoint(a, f) PROVE TypeOK'
  <2>1. [priority_array EXCEPT ![setup.lowest] = IF f \in {None, 0} THEN fallback_value ELSE f]
          \in [Priorities -> Values \cup {None}]
    BY DEF TypeOK
  <2>2. priority_array' \in [Priorities -> Values \cup {None}]
    BY <1>0, <1>2, <2>1, WithFallbackType DEF PatchPoint, TypeOK
  <2>3. fallback_value' \in Values \cup {None}
    BY <1>2 DEF PatchPoint, TypeOK
  <2> QED BY <1>2, <2>2, <2>3 DEF PatchPoint, TypeOK, Priorities, pollVars, boundVars
<1> QED BY <1>1, <1>2

LEMMA TypeStep == TypeOK /\ [Next]_vars => TypeOK'
<1> SUFFICES ASSUME TypeOK, [Next]_vars PROVE TypeOK'
  OBVIOUS
<1> USE DEF TypeOK, Priorities
<1>1. CASE Request
  BY <1>1, RequestType
<1>2. ASSUME NEW p \in Pollers, Take(p) PROVE TypeOK'
  BY <1>2, CommandType DEF Take, rowVars, boundVars
<1>3. CASE PollCheck \/ PollListed
  BY <1>2, <1>3 DEF PollCheck, PollListed, Pollers
<1>4. CASE PollList
  BY <1>4 DEF PollList, rowVars, boundVars
<1>5. ASSUME NEW p \in Manual, ManualPoll(p) PROVE TypeOK'
  BY <1>2, <1>5 DEF ManualPoll, Pollers
<1>6. ASSUME NEW p \in Pollers, Step(p) PROVE TypeOK'
  <2>1. Echo(write_value[p]) \in Values
    BY EchoType
  <2>2. faults < setup.max_faults => faults + 1 \in 0..setup.max_faults
    BY SetupType
  <2>3. CASE Send(p)
    BY <2>1, <2>3 DEF Send, rowVars, boundVars
  <2>4. CASE SendUnheard(p)
    BY <2>4 DEF SendUnheard, rowVars, boundVars
  <2>5. CASE NoConnection(p)
    BY <2>2, <2>5 DEF NoConnection, Untouched, Done, rowVars
  <2>6. CASE AnswerOk(p)
    <3>1. PICK a \in Answers(p, write_value[p]) :
            /\ setup.shown[a] # None
            /\ point_store' = IF Masked(point_store, a) THEN point_store ELSE Stored(a)
      BY <2>6 DEF AnswerOk
    <3>2. point_store' \in Store
      BY <3>1, AnswerTells, StoredType
    <3> QED BY <2>6, <3>2 DEF AnswerOk, Done, rowVars, boundVars
  <2>7. CASE AnswerFault(p)
    <3>1. point_store' \in Store
      BY <2>7 DEF AnswerFault, Store
    <3> QED BY <2>2, <2>7, <3>1 DEF AnswerFault, Done, rowVars
  <2>8. CASE AnswerUnstored(p) \/ ConnectionLost(p)
    BY <2>2, <2>8
       DEF AnswerUnstored, ConnectionLost, Untouched, NotTold, Done, rowVars, boundVars
  <2> QED BY <1>6, <2>3, <2>4, <2>5, <2>6, <2>7, <2>8 DEF Step, Answer
<1>7. CASE Crash
  <2>1. crashes + 1 \in 0..setup.max_crashes
    BY <1>7, SetupType DEF Crash
  <2> QED BY <1>7, <2>1 DEF Crash, rowVars
<1>8. CASE UNCHANGED vars
  BY <1>8 DEF vars, rowVars, pollVars, boundVars
<1> QED BY <1>1, <1>3, <1>4, <1>5, <1>6, <1>7, <1>8 DEF Next

\* The variables keep their types: in particular the command that a poll takes,
\* null included, always becomes a value for the device (poll.py:118 "or 0").
THEOREM TypeCorrect == Spec => []TypeOK
BY TypeInit, TypeStep, PTL DEF Spec

-----------------------------------------------------------------------------
\* The polls that talk to the device are inside the transaction lock.
LockInv == \A p \in Pollers : pc[p] \in {"sent", "unheard"} => lock = p

\* Until the answer is handled, the device holds what was written.
SentInv == \A p \in Pollers : pc[p] = "sent" => device = Echo(write_value[p])

\* Nobody has written what the store may not be told.
Told == ~untold /\ \A p \in Pollers : pc[p] # "sent"

Tells(store, d) ==
  ~store.fault /\ store.value # None => \E v \in Values : Echo(v) = d /\ Masked(store, v)

TellInv == LockInv /\ SentInv /\ (Told => Tells(point_store, device))

LEMMA StoredTells ==
  ASSUME setup \in Setups, NEW v \in Values, setup.shown[v] # None
  PROVE  Masked(Stored(v), v)
BY WriteAssumption, SetupType DEF Masked, Stored

LEMMA TellsDevice == TypeOK /\ TellInv => StoreTellsDevice
BY WriteAssumption DEF TellInv, LockInv, Told, Tells, StoreTellsDevice

\* What the store tells depends on the store, the device and the setup only.
LEMMA TellsKept ==
  ASSUME setup' = setup, point_store' = point_store, device' = device,
         Tells(point_store, device)
  PROVE  Tells(point_store, device)'
BY DEF Tells, Masked, Echo, Payload, Distance

LEMMA TellInit == Init => TellInv
<1> SUFFICES ASSUME Init PROVE TellInv
  OBVIOUS
<1>1. LockInv /\ SentInv
  BY DEF Init, LockInv, SentInv
<1>2. CASE point_store.value = None
  BY <1>1, <1>2 DEF TellInv, Tells
<1>3. ASSUME NEW p \in Pollers, NEW v \in Values, NEW a \in Answers(p, v),
             Echo(v) = device, setup.shown[a] # None, point_store = Stored(a)
      PROVE  Tells(point_store, device)
  BY <1>3, AnswerTells, StoredTells DEF Init, Tells
<1> QED BY <1>1, <1>2, <1>3 DEF Init, TellInv

LEMMA TellStep == TypeOK /\ TellInv /\ [Next]_vars => TellInv'
<1> SUFFICES ASSUME TypeOK, TellInv, [Next]_vars PROVE TellInv'
  OBVIOUS
<1>0. None \notin Pollers
  BY WriteAssumption
<1>k. ASSUME UNCHANGED <<setup, point_store, device>>, Told' => Told
      PROVE  Told' => Tells(point_store, device)'
  BY <1>k, TellsKept DEF TellInv
<1> USE DEF TellInv, LockInv, SentInv, Echo, Payload, Pollers
<1>1. CASE Request
  <2>1. UNCHANGED <<setup, point_store, device, pollVars, boundVars, untold>>
    BY <1>1 DEF Request, WriteValue, PatchPoint
  <2> QED BY <1>k, <2>1 DEF pollVars, boundVars, Told
<1>2. ASSUME NEW p \in Pollers, pc[p] # "sent", Take(p) PROVE TellInv'
  BY <1>2, <1>k DEF Take, boundVars, TypeOK, Told
<1>3. CASE PollCheck \/ PollListed
  BY <1>2, <1>3 DEF PollCheck, PollListed, Pollers
<1>4. CASE PollList
  BY <1>4, <1>k DEF PollList, boundVars, TypeOK, Told
<1>5. ASSUME NEW p \in Manual, ManualPoll(p) PROVE TellInv'
  BY <1>2, <1>5 DEF ManualPoll, Pollers
<1>6. ASSUME NEW p \in Pollers, Step(p) PROVE TellInv'
  <2>1. CASE Send(p)
    <3>1. ~Told'
      BY <2>1 DEF Send, TypeOK, Told
    <3> QED BY <1>0, <2>1, <3>1 DEF Send, boundVars, TypeOK
  <2>2. CASE SendUnheard(p)
    BY <1>0, <1>k, <2>2 DEF SendUnheard, boundVars, TypeOK, Told
  <2>3. CASE NoConnection(p)
    BY <1>k, <2>3 DEF NoConnection, Untouched, Done, TypeOK, Told
  <2>a. ASSUME pc[p] \in {"sent", "unheard"}, Done(p), lock' = None,
               UNCHANGED <<setup, device>>
        PROVE  LockInv' /\ SentInv'
    <3>1. lock = p /\ \A q \in Pollers : q # p => pc[q] \notin {"sent", "unheard"}
      BY <2>a
    <3> QED BY <2>a, <3>1 DEF Done, TypeOK
  <2>4. CASE AnswerOk(p)
    <3>1. PICK a \in Answers(p, write_value[p]) :
            /\ setup.shown[a] # None
            /\ point_store' = IF Masked(point_store, a) THEN point_store ELSE Stored(a)
      BY <2>4 DEF AnswerOk
    <3>3. setup \in Setups /\ UNCHANGED <<setup, device>>
      BY <2>4 DEF AnswerOk, TypeOK
    <3> HIDE DEF Echo, Payload
    <3>2. a \in Values /\ Echo(a) = device
      <4>1. device = Echo(write_value[p]) /\ write_value[p] \in Values \cup {None}
        BY <2>4 DEF AnswerOk, TypeOK
      <4> QED BY <3>1, <3>3, <4>1, AnswerTells
    <3>4. Tells(point_store', device)
      BY <3>1, <3>2, <3>3, StoredTells DEF Tells
    <3>5. Tells(point_store, device)'
      BY <3>3, <3>4 DEF Tells, Masked, Echo, Payload, Distance
    <3> QED BY <2>4, <2>a, <3>5 DEF AnswerOk
  <2>5. CASE AnswerFault(p)
    <3>1. point_store'.fault
      BY <2>5 DEF AnswerFault, TypeOK, Store
    <3> QED BY <2>5, <2>a, <3>1 DEF AnswerFault, Tells
  <2>6. CASE AnswerUnstored(p) \/ ConnectionLost(p)
    <3>1. /\ pc[p] \in {"sent", "unheard"} /\ Done(p) /\ NotTold(p)
          /\ UNCHANGED <<setup, point_store, device>>
      BY <2>6 DEF AnswerUnstored, ConnectionLost, Untouched
    <3>2. Told' => Told
      BY <3>1 DEF Done, NotTold, TypeOK, Told
    <3> QED BY <1>k, <2>a, <3>1, <3>2 DEF NotTold
  <2> QED BY <1>6, <2>1, <2>2, <2>3, <2>4, <2>5, <2>6 DEF Step, Answer
<1>7. CASE Crash
  BY <1>7, <1>k DEF Crash, TypeOK, Told
<1>8. CASE UNCHANGED vars
  BY <1>8, <1>k DEF vars, pollVars, boundVars, Told
<1> QED BY <1>1, <1>3, <1>4, <1>5, <1>6, <1>7, <1>8 DEF Next

\* Unless the outcome of a write could not be stored, a store without fault
\* tells what the device holds, up to the rounding and the threshold, for any
\* number of manual polls next to the greenlet, and across restarts
\* (poll.py:97-157, model_point_store.py:48-79).
THEOREM StoreTells == Spec => []StoreTellsDevice
BY TellsDevice, TypeInit, TypeStep, TellInit, TellStep, PTL DEF Spec

-----------------------------------------------------------------------------
\* A request to a point that has a fallback value leaves it with a command,
\* whatever it writes (model_priority_array.py:44-48, point_singular.py:40-50).
THEOREM Fallback == Spec => FallbackTakesOver
<1>1. TypeOK /\ [Next]_vars =>
        (fallback_value # None /\ rowVars' # rowVars => Command' # None)
  <2> SUFFICES ASSUME TypeOK, Next, fallback_value # None, rowVars' # rowVars
               PROVE  Command' # None
    BY DEF vars
  <2>1. ASSUME NEW p \in Pollers PROVE ~Step(p)
    BY DEF Step, Send, SendUnheard, NoConnection, Untouched, Answer, AnswerOk,
           AnswerUnstored, AnswerFault, ConnectionLost
  <2>2. Request
    BY <2>1 DEF Next, PollCheck, PollList, PollListed, ManualPoll, Take, Crash
  <2>3. PICK D \in SUBSET Priorities : \E a \in Writes(D) :
          WriteValue(a) \/ \E f \in Values \cup {None} : PatchPoint(a, f)
    BY <2>2, SetupType DEF Request, TypeOK
  <2>4. PICK a \in Writes(D) :
          WriteValue(a) \/ \E f \in Values \cup {None} : PatchPoint(a, f)
    BY <2>3
  <2>5. Command' = Highest(priority_array')
    BY <2>4, CommandPrimed DEF WriteValue, PatchPoint
  <2>6. Highest(Overwritten(a)) # None
    BY OverwrittenType DEF TypeOK
  <2>7. CASE WriteValue(a)
    BY <2>5, <2>6, <2>7 DEF WriteValue
  <2>8. ASSUME NEW f \in Values \cup {None}, PatchPoint(a, f) PROVE Command' # None
    <3>1. CASE DOMAIN a # {}
      BY <2>5, <2>6, <2>8, <3>1 DEF PatchPoint
    <3>2. CASE DOMAIN a = {} /\ Command \in {None, 0}
      <4> DEFINE b == [priority_array EXCEPT ![setup.lowest] =
                         IF f \in {None, 0} THEN fallback_value ELSE f]
      <4>1. b \in [Priorities -> Values \cup {None}]
        BY DEF TypeOK
      <4>2. priority_array' = WithFallback(b)
        BY <2>8, <3>2 DEF PatchPoint
      <4> HIDE DEF b
      <4> QED BY <2>5, <4>1, <4>2, WithFallbackType DEF TypeOK
    <3>3. CASE DOMAIN a = {} /\ Command \notin {None, 0}
      <4>1. priority_array' = priority_array
        BY <2>8, <3>3 DEF PatchPoint
      <4> QED BY <2>5, <3>3, <4>1 DEF Command
    <3> QED BY <3>1, <3>2, <3>3
  <2> QED BY <2>4, <2>7, <2>8
<1> QED BY <1>1, TypeInit, TypeStep, PTL DEF Spec, FallbackTakesOver

-----------------------------------------------------------------------------
\* The value of the store is always that of its value_original, and that is
\* an answer to some command.
ShownInv ==
  \/ point_store.value = None /\ point_store.value_original = None
  \/ /\ point_store.value_original \in Values
     /\ point_store.value = setup.shown[point_store.value_original]
     /\ point_store.value # None
     /\ \E p \in Pollers, v \in Values : point_store.value_original \in Answers(p, v)

\* A null is answered as a 0.
LEMMA AnswerToValue ==
  ASSUME setup \in Setups, NEW p \in Pollers, NEW v \in Values \cup {None},
         NEW a \in Answers(p, v)
  PROVE  \E w \in Values : a \in Answers(p, w)
<1>1. Payload(v) \in Values
  BY WriteAssumption DEF Payload
<1>2. Payload(Payload(v)) = Payload(v)
  BY WriteAssumption DEF Payload
<1>3. Answers(p, v) = Answers(p, Payload(v))
  BY <1>2 DEF Answers, Echo
<1> QED BY <1>1, <1>3

LEMMA ShownInit == Init => ShownInv
<1> SUFFICES ASSUME Init PROVE ShownInv
  OBVIOUS
<1>1. ASSUME NEW p \in Pollers, NEW v \in Values, NEW a \in Answers(p, v),
             setup.shown[a] # None, point_store = Stored(a)
      PROVE  ShownInv
  <2>1. a \in Values
    BY <1>1, AnswerTells DEF Init
  <2>2. /\ point_store.value_original = a /\ point_store.value = setup.shown[a]
    BY <1>1 DEF Stored
  <2> QED BY <1>1, <2>1, <2>2 DEF ShownInv
<1>2. CASE point_store = [value |-> None, value_original |-> None, fault |-> FALSE]
  BY <1>2 DEF ShownInv
<1> QED BY <1>1, <1>2 DEF Init

LEMMA ShownStep == TypeOK /\ ShownInv /\ [Next]_vars => ShownInv'
<1> SUFFICES ASSUME TypeOK, ShownInv, [Next]_vars PROVE ShownInv'
  OBVIOUS
<1>1. CASE UNCHANGED <<setup, point_store>>
  BY <1>1 DEF ShownInv, Answers, Echo
<1>2. CASE Request
  BY <1>1, <1>2 DEF Request, WriteValue, PatchPoint
<1>3. CASE PollCheck \/ PollList \/ PollListed \/ Crash
  BY <1>1, <1>3 DEF PollCheck, PollList, PollListed, Crash, Take
<1>4. ASSUME NEW p \in Manual, ManualPoll(p) PROVE ShownInv'
  BY <1>1, <1>4 DEF ManualPoll, Take
<1>5. ASSUME NEW p \in Pollers, Step(p) PROVE ShownInv'
  <2>1. CASE \/ Send(p) \/ SendUnheard(p) \/ NoConnection(p)
             \/ AnswerUnstored(p) \/ ConnectionLost(p)
    BY <1>1, <2>1 DEF Send, SendUnheard, NoConnection, AnswerUnstored, ConnectionLost,
                      Untouched
  <2>2. CASE AnswerOk(p)
    <3>1. PICK a \in Answers(p, write_value[p]) :
            /\ setup.shown[a] # None
            /\ point_store' = IF Masked(point_store, a) THEN point_store ELSE Stored(a)
      BY <2>2 DEF AnswerOk
    <3>2. setup' = setup /\ setup \in Setups /\ write_value[p] \in Values \cup {None}
      BY <2>2 DEF AnswerOk, TypeOK
    <3>3. a \in Values /\ \E w \in Values : a \in Answers(p, w)
      BY <3>1, <3>2, AnswerTells, AnswerToValue
    <3>4. CASE Masked(point_store, a)
      BY <1>1, <3>1, <3>2, <3>4
    <3>5. CASE ~Masked(point_store, a)
      <4>1. point_store'.value_original = a /\ point_store'.value = setup.shown[a]
        BY <3>1, <3>5 DEF Stored
      <4>2. \E q \in Pollers, w \in Values : point_store'.value_original \in Answers(q, w)
        BY <3>3, <4>1
      <4>3. \A q, w : Answers(q, w)' = Answers(q, w)
        BY <3>2 DEF Answers, Echo
      <4> QED BY <3>1, <3>2, <3>3, <4>1, <4>2, <4>3 DEF ShownInv, Answers, Echo
    <3> QED BY <3>4, <3>5
  <2>3. CASE AnswerFault(p)
    <3>1. /\ setup' = setup
          /\ point_store'.value = point_store.value
          /\ point_store'.value_original = point_store.value_original
      BY <2>3 DEF AnswerFault, TypeOK, Store
    <3> QED BY <3>1 DEF ShownInv, Answers, Echo
  <2> QED BY <1>5, <2>1, <2>2, <2>3 DEF Step, Answer
<1>6. CASE UNCHANGED vars
  BY <1>1, <1>6 DEF vars
<1> QED BY <1>2, <1>3, <1>4, <1>5, <1>6 DEF Next

\* What a store without fault tells of: one value, where nothing is hidden.
LEMMA TellsOriginal ==
  ASSUME TypeOK, TellInv, ShownInv, NothingHidden, lock = None, ~untold,
         ~point_store.fault, point_store.value # None
  PROVE  /\ point_store.value_original \in Values
         /\ Echo(point_store.value_original) = device
<1>1. PICK v \in Values : Echo(v) = device /\ Masked(point_store, v)
  BY TellsDevice DEF StoreTellsDevice
<1>2. point_store.value_original \in Values
  BY DEF ShownInv
<1>3. Masked(Stored(point_store.value_original), v)
  BY <1>1 DEF Masked, Stored, ShownInv
<1> QED BY <1>1, <1>2, <1>3 DEF NothingHidden

\* With write_value_once the greenlet writes no value that the device holds,
\* for any scaling and threshold that hide no difference, whatever manual
\* polls, lost answers and restarts came before (modbus_polling.py:260-267).
THEOREM OnceOnly == Spec => WrittenOnce
<1>1. TypeOK /\ TellInv /\ ShownInv /\ [Next]_vars =>
        (/\ setup.once /\ NothingHidden /\ AnswersState
         /\ lock = None /\ ~untold
         /\ pc[Poller] = "idle" /\ pc'[Poller] # "idle"
         /\ ~point_store.fault /\ point_store.value # None
         => device # Command)
  <2> SUFFICES ASSUME TypeOK, TellInv, ShownInv, [Next]_vars,
                      setup.once, NothingHidden, AnswersState, lock = None, ~untold,
                      pc[Poller] = "idle", pc'[Poller] # "idle",
                      ~point_store.fault, point_store.value # None
               PROVE  device # Command
    OBVIOUS
  <2>1. ToBeWritten
    <3>1. Poller \in Pollers /\ \A p \in Manual : p \in Pollers /\ p # Poller
      BY WriteAssumption DEF Pollers
    <3>2. ~Request /\ ~PollListed /\ ~Crash /\ ~UNCHANGED vars
      BY <3>1 DEF Request, WriteValue, PatchPoint, PollListed, Crash, vars, pollVars
    <3>3. \A p \in Manual : ~ManualPoll(p)
      BY <3>1 DEF ManualPoll, Take, TypeOK
    <3>4. ASSUME NEW p \in Pollers PROVE ~Step(p)
      BY <3>1 DEF Step, Send, SendUnheard, NoConnection, Answer, AnswerOk, AnswerFault,
                  AnswerUnstored, ConnectionLost, Untouched, Done, TypeOK
    <3> QED BY <3>2, <3>3, <3>4 DEF Next, PollCheck, PollList
  <2>2. Echo(point_store.value_original) = device /\ point_store.value_original \in Values
    BY TellsOriginal
  <2>3. PICK p \in Pollers, v \in Values : point_store.value_original \in Answers(p, v)
    BY DEF ShownInv
  <2>4. point_store.value_original = Echo(v)
    BY <2>3 DEF AnswersState
  <2>5. Echo(point_store.value_original) = Echo(v)
    BY <2>3, AnswerTells DEF TypeOK
  <2>6. point_store.value_original = device
    BY <2>2, <2>4, <2>5
  <2> QED BY <2>1, <2>6 DEF ToBeWritten
<1> QED BY <1>1, TypeInit, TypeStep, TellInit, TellStep, ShownInit, ShownStep, PTL
       DEF Spec, WrittenOnce

\* What the greenlet skips with write_value_once is there: a lost write or
\* answer leaves a fault, so that a command gets lost for good only through an
\* outcome that could not be stored (modbus_polling.py:260-267).
THEOREM SkippedIsThere == Spec => []SkippedOnlyIfThere
<1>1. TypeOK /\ TellInv /\ ShownInv => SkippedOnlyIfThere
  <2> SUFFICES ASSUME TypeOK, TellInv, ShownInv,
                      setup.once, NothingHidden, lock = None, ~untold,
                      Command # None, ~ToBeWritten
               PROVE  device = Echo(Command)
    BY DEF SkippedOnlyIfThere
  <2>1. ~point_store.fault /\ point_store.value_original = Command
    BY DEF ToBeWritten
  <2>2. point_store.value # None
    BY <2>1 DEF ShownInv
  <2> QED BY <2>1, <2>2, TellsOriginal
<1> QED BY <1>1, TypeInit, TypeStep, TellInit, TellStep, ShownInit, ShownStep, PTL
       DEF Spec

-----------------------------------------------------------------------------
(* The point implements PointService.                                      *)

LEMMA FixedKept ==
  ASSUME setup' = setup PROVE Effect' = Effect /\ Hides' = Hides
BY DEF Effect, Hides, Echo, Payload, Masked, Stored, Distance

\* The lock is held by the one poll that talks to the device.
LEMMA TurnOf ==
  ASSUME TypeOK, LockInv
  PROVE  /\ lock = None => Turn = "free"
         /\ \A p \in Pollers :
              /\ pc[p] = "sent" => Turn = "written"
              /\ pc[p] = "unheard" => Turn = "lost"
BY WriteAssumption DEF Turn, LockInv

LEMMA FreeAgain ==
  ASSUME LockInv', lock' = None PROVE Turn' = "free"
BY WriteAssumption DEF Turn, LockInv

LEMMA ReportKept ==
  ASSUME setup' = setup, point_store' = point_store PROVE Report' = Report
BY DEF Report, Echo

\* The conditional update of the store, in terms of the report.
LEMMA MaskedReport ==
  ASSUME TypeOK, ShownInv, NEW a \in Values, Masked(point_store, a)
  PROVE  <<Report, Echo(a)>> \in Hides
<1>1. ~point_store.fault /\ point_store.value # None
  BY DEF Masked
<1>2. /\ Report = Echo(point_store.value_original)
      /\ point_store.value_original \in Values
  BY <1>1 DEF Report, ShownInv
<1>3. Masked(Stored(point_store.value_original), a)
  BY <1>1 DEF Masked, Stored, ShownInv
<1>4. <<point_store.value_original, a>> \in
        {q \in Values \X Values : Masked(Stored(q[1]), q[2])}
  BY <1>2, <1>3
<1> QED BY <1>2, <1>4 DEF Hides

\* A poll that stops waiting takes its command off the way, unless another one
\* waits with the same.
LEMMA LeavesWay ==
  ASSUME TypeOK, NEW p \in Pollers, pc[p] = "waiting", pc'[p] # "waiting",
         \A q \in Pollers : q # p => pc'[q] = pc[q] /\ write_value'[q] = write_value[q]
  PROVE  Service!Leaves(write_value[p])
<1>1. Waiting' = Waiting \ {p} /\ p \in Waiting /\ Waiting \subseteq Pollers
  BY DEF Waiting
<1>2. Underway' = {write_value[q] : q \in Waiting \ {p}}
  BY <1>1 DEF Underway
<1>3. write_value[p] \in Underway
  BY <1>1 DEF Underway
<1>4. CASE \E q \in Waiting \ {p} : write_value[q] = write_value[p]
  <2>1. Underway' = Underway
    BY <1>1, <1>2, <1>4 DEF Underway
  <2> QED BY <1>3, <2>1 DEF Service!Leaves
<1>5. CASE ~ \E q \in Waiting \ {p} : write_value[q] = write_value[p]
  <2>1. Underway' = Underway \ {write_value[p]}
    BY <1>1, <1>2, <1>5 DEF Underway
  <2> QED BY <1>3, <2>1 DEF Service!Leaves
<1> QED BY <1>4, <1>5

\* Steps of a poll that does not wait leave the others on their way.
LEMMA StaysOnWay ==
  ASSUME NEW p \in Pollers, pc[p] # "waiting", pc'[p] # "waiting",
         \A q \in Pollers : q # p => pc'[q] = pc[q] /\ write_value'[q] = write_value[q]
  PROVE  Underway' = Underway
<1>1. Waiting' = Waiting /\ p \notin Waiting
  BY DEF Waiting
<1> QED BY <1>1 DEF Underway, Waiting

PointInv == TypeOK /\ TellInv /\ ShownInv

LEMMA PointInit == Init => PointInv
BY TypeInit, TellInit, ShownInit DEF PointInv

LEMMA PointInvStep == PointInv /\ [Next]_vars => PointInv'
BY TypeStep, TellStep, ShownStep DEF PointInv

LEMMA ServiceInit == Init => Service!Init
<1> SUFFICES ASSUME Init PROVE Service!Init
  OBVIOUS
<1>1. TypeOK
  BY TypeInit
<1>2. Effect \in [Values \cup {None} -> Values]
  BY <1>1, EchoType DEF Effect, TypeOK
<1>3. Underway = {} /\ Turn = "free"
  BY DEF Init, Underway, Waiting, Turn
<1>4. Report \in {None, device}
  <2>1. ASSUME NEW p \in Pollers, NEW v \in Values, NEW a \in Answers(p, v),
               Echo(v) = device, point_store = Stored(a)
        PROVE  Report \in {None, device}
    BY <2>1, AnswerTells DEF Init, Report, Stored
  <2> QED BY <2>1 DEF Init, Report
<1>5. Hides \subseteq Values \X Values
  <2>1. \A q \in Values \X Values : Echo(q[1]) \in Values /\ Echo(q[2]) \in Values
    BY EchoType DEF Init
  <2> QED BY <2>1 DEF Hides
<1>6. untold = FALSE
  BY DEF Init
<1> QED BY <1>1, <1>2, <1>3, <1>4, <1>5, <1>6, CommandType
        DEF Service!Init, Service!Commands, TypeOK

\* A poll takes the command.
LEMMA ServiceTakes ==
  ASSUME PointInv, NEW p \in Pollers, pc[p] \in {"idle", "listed"}, Take(p)
  PROVE  Service!Take
<1> USE DEF PointInv, TypeOK
<1>1. UNCHANGED <<setup, priority_array, point_store, device, untold>>
  BY DEF Take, rowVars
<1>2. Waiting' = Waiting \cup {p} /\ p \notin Waiting
  BY DEF Take, Waiting
<1>3. write_value' = [write_value EXCEPT ![p] = Command]
  BY DEF Take
<1>4. Underway' = Underway \cup {Command}
  <2>1. \A q \in Waiting : q \in Pollers /\ write_value'[q] = write_value[q]
    BY <1>2, <1>3 DEF Waiting
  <2>2. write_value'[p] = Command
    BY <1>3
  <2> QED BY <1>2, <2>1, <2>2 DEF Underway
<1>5. Turn' = Turn
  BY DEF Take, Turn
<1>6. Command' = Command
  BY <1>1, CommandPrimed DEF Command
<1> QED BY <1>1, <1>4, <1>5, <1>6, FixedKept, ReportKept DEF Service!Take

\* The steps of a poll under way.
LEMMA ServicePolls ==
  ASSUME PointInv, PointInv', NEW p \in Pollers, Step(p)
  PROVE  Service!Next
<1> USE DEF PointInv, TypeOK, TellInv
<1>0. Step(p) => \/ Send(p) \/ SendUnheard(p) \/ NoConnection(p) \/ AnswerOk(p)
                   \/ AnswerFault(p) \/ AnswerUnstored(p) \/ ConnectionLost(p)
  BY DEF Step, Answer
<1>1. UNCHANGED <<setup, priority_array>>
  BY <1>0 DEF Send, SendUnheard, NoConnection, AnswerOk, AnswerFault, AnswerUnstored,
              ConnectionLost, Untouched, rowVars
<1>2. Command' = Command /\ Effect' = Effect /\ Hides' = Hides
  BY <1>1, CommandPrimed, FixedKept DEF Command
<1>3. \A q \in Pollers : q # p => pc'[q] = pc[q] /\ write_value'[q] = write_value[q]
  BY <1>0 DEF Send, SendUnheard, NoConnection, AnswerOk, AnswerFault, AnswerUnstored,
              ConnectionLost, Untouched, Done
<1>4. CASE Send(p)
  <2>1. pc[p] = "waiting" /\ lock = None /\ pc'[p] = "sent"
    BY <1>4 DEF Send
  <2>2. Turn = "free" /\ Turn' = "written"
    BY <2>1, TurnOf DEF Turn
  <2>3. Service!Leaves(write_value[p])
    BY <1>3, <2>1, LeavesWay
  <2>4. device' = Effect[write_value[p]] /\ Report' = Report /\ untold' = untold
    BY <1>4, ReportKept DEF Send, Effect
  <2>5. Service!Execute(write_value[p])
    BY <1>2, <2>2, <2>3, <2>4 DEF Service!Execute
  <2> QED BY <2>3, <2>5 DEF Service!Next, Service!Leaves
<1>5. CASE SendUnheard(p) \/ NoConnection(p)
  <2>1. /\ pc[p] = "waiting" /\ lock = None
        /\ pc'[p] = "unheard" \/ (pc'[p] # "waiting" /\ lock' = None)
    BY <1>5 DEF SendUnheard, NoConnection, Untouched, Done
  <2>2. Turn = "free" /\ Turn' \in {"lost", "free"}
    <3>1. Turn = "free" /\ (lock' = None => Turn' = "free")
      BY <2>1, TurnOf, FreeAgain
    <3>2. pc'[p] = "unheard" => Turn' = "lost"
      <4>1. ASSUME NEW q \in Pollers, pc'[q] = "sent", pc'[p] = "unheard" PROVE FALSE
        BY <4>1 DEF LockInv
      <4> QED BY <4>1 DEF Turn
    <3> QED BY <2>1, <3>1, <3>2
  <2>3. Service!Leaves(write_value[p])
    BY <1>3, <2>1, LeavesWay
  <2>4. UNCHANGED <<device, untold>> /\ Report' = Report
    BY <1>5, ReportKept DEF SendUnheard, NoConnection, Untouched
  <2>5. Service!Lose(write_value[p])
    BY <1>2, <2>2, <2>3, <2>4 DEF Service!Lose
  <2> QED BY <2>3, <2>5 DEF Service!Next, Service!Leaves
<1>6. CASE AnswerOk(p)
  <2>1. pc[p] = "sent" /\ lock' = None /\ pc'[p] = "idle" /\ device' = device
    BY <1>6 DEF AnswerOk, Done
  <2>2. Turn = "written" /\ Turn' = "free"
    BY <2>1, TurnOf, FreeAgain
  <2>3. Underway' = Underway
    BY <1>3, <2>1, StaysOnWay
  <2>4. PICK a \in Answers(p, write_value[p]) :
          /\ setup.shown[a] # None
          /\ point_store' = IF Masked(point_store, a) THEN point_store ELSE Stored(a)
    BY <1>6 DEF AnswerOk
  <2>5. a \in Values /\ Echo(a) = device
    BY <2>1, <2>4, AnswerTells DEF SentInv
  <2>6. \/ Report' = device
        \/ <<Report, device>> \in Hides /\ Report' = Report
    <3>1. CASE Masked(point_store, a)
      BY <1>1, <2>4, <2>5, <3>1, MaskedReport, ReportKept
    <3>2. CASE ~Masked(point_store, a)
      <4>1. /\ ~point_store'.fault /\ point_store'.value # None
            /\ point_store'.value_original = a
        BY <2>4, <3>2 DEF Stored
      <4>2. Report' = Echo(a)
        BY <1>1, <4>1 DEF Report, Echo, Payload
      <4> QED BY <2>5, <4>2
    <3> QED BY <3>1, <3>2
  <2>7. untold' = FALSE
    BY <1>6 DEF AnswerOk
  <2>8. Service!Answer
    BY <1>2, <2>1, <2>2, <2>3, <2>6, <2>7 DEF Service!Answer
  <2> QED BY <2>8 DEF Service!Next
<1>7. CASE AnswerFault(p)
  <2>1. /\ pc[p] \in {"sent", "unheard"} /\ lock' = None /\ pc'[p] = "idle"
        /\ device' = device /\ untold' = FALSE /\ point_store'.fault
    BY <1>7 DEF AnswerFault, Done, Store
  <2>2. Turn # "free" /\ Turn' = "free"
    <3>1. Turn # "free"
      BY <2>1 DEF Turn
    <3> QED BY <2>1, <3>1, FreeAgain
  <2>3. Underway' = Underway
    BY <1>3, <2>1, StaysOnWay
  <2>4. Service!Fault
    BY <1>2, <2>1, <2>2, <2>3 DEF Service!Fault, Report
  <2> QED BY <2>4 DEF Service!Next
<1>8. CASE AnswerUnstored(p) \/ ConnectionLost(p)
  <2>1. /\ pc[p] \in {"sent", "unheard"} /\ pc'[p] = "idle" /\ NotTold(p)
        /\ UNCHANGED <<point_store, device>>
    BY <1>8 DEF AnswerUnstored, ConnectionLost, Untouched, Done
  <2>2. Turn # "free" /\ Turn' = "free" /\ (Turn = "written" <=> pc[p] = "sent")
    BY <2>1, TurnOf, FreeAgain DEF NotTold
  <2>3. Underway' = Underway
    BY <1>3, <2>1, StaysOnWay
  <2>4. untold' = (untold \/ Turn = "written")
    BY <2>1, <2>2 DEF NotTold
  <2>5. Service!Unreported
    BY <1>1, <1>2, <2>1, <2>2, <2>3, <2>4, ReportKept
       DEF Service!Unreported, Service!Silence
  <2> QED BY <2>5 DEF Service!Next
<1> QED BY <1>0, <1>4, <1>5, <1>6, <1>7, <1>8

LEMMA ServiceFollows ==
  PointInv /\ PointInv' /\ [Next]_vars => [Service!Next]_(Service!vars)
<1> SUFFICES ASSUME PointInv, PointInv', [Next]_vars
             PROVE  Service!Next \/ UNCHANGED Service!vars
  OBVIOUS
<1> USE DEF PointInv
<1>1. CASE Request
  <2>1. UNCHANGED <<setup, point_store, device, pc, write_value, untold>>
    BY <1>1 DEF Request, WriteValue, PatchPoint, pollVars
  <2>2. Command' \in Values \cup {None}
    <3>1. /\ setup \in Setups /\ setup' = setup
          /\ priority_array' \in [Priorities -> Values \cup {None}]
      BY <2>1 DEF TypeOK, Priorities
    <3> QED BY <3>1, HighestType, CommandPrimed
  <2>3. UNCHANGED <<Underway, Turn, Report>>
    BY <2>1, ReportKept DEF Underway, Waiting, Turn
  <2>4. Service!Ask
    BY <2>1, <2>2, <2>3, FixedKept DEF Service!Ask, Service!Commands
  <2> QED BY <2>4 DEF Service!Next
<1>2. CASE PollCheck \/ PollListed
  <2>1. Poller \in Pollers /\ pc[Poller] \in {"idle", "listed"} /\ Take(Poller)
    BY <1>2 DEF PollCheck, PollListed, Pollers
  <2> QED BY <2>1, ServiceTakes DEF Service!Next
<1>3. CASE PollList
  <2>1. Poller \in Pollers /\ pc[Poller] = "idle" /\ pc' = [pc EXCEPT ![Poller] = "listed"]
    BY <1>3 DEF PollList, Pollers
  <2>2. UNCHANGED <<setup, priority_array, point_store, device, write_value, untold>>
    BY <1>3 DEF PollList, rowVars
  <2>3. Waiting' = Waiting /\ Turn' = Turn
    BY <2>1 DEF Waiting, Turn, TypeOK
  <2>4. Command' = Command
    BY <2>2, CommandPrimed DEF Command
  <2> QED BY <2>2, <2>3, <2>4, FixedKept, ReportKept DEF Service!vars, Underway
<1>4. ASSUME NEW p \in Manual, ManualPoll(p) PROVE Service!Next
  BY <1>4, ServiceTakes DEF ManualPoll, Pollers, Service!Next
<1>5. ASSUME NEW p \in Pollers, Step(p) PROVE Service!Next
  BY <1>5, ServicePolls
<1>6. CASE Crash
  <2>1. UNCHANGED <<setup, priority_array, point_store, device>>
    BY <1>6 DEF Crash, rowVars
  <2>2. Underway' = {} /\ Turn' = "free"
    BY <1>6 DEF Crash, Underway, Waiting, Turn
  <2>5. untold' = (untold \/ Turn = "written")
    BY <1>6 DEF Crash, Turn
  <2>3. Command' = Command
    BY <2>1, CommandPrimed DEF Command
  <2>4. Service!Restart
    BY <2>1, <2>2, <2>3, <2>5, FixedKept, ReportKept DEF Service!Restart, Service!Silence
  <2> QED BY <2>4 DEF Service!Next
<1>7. CASE UNCHANGED vars
  <2>1. UNCHANGED <<setup, priority_array, point_store, device, pc, write_value, untold>>
    BY <1>7 DEF vars, rowVars, pollVars
  <2>2. Command' = Command
    BY <2>1, CommandPrimed DEF Command
  <2> QED BY <2>1, <2>2, FixedKept, ReportKept
          DEF Service!vars, Underway, Waiting, Turn
<1> QED BY <1>1, <1>2, <1>3, <1>4, <1>5, <1>6, <1>7 DEF Next

\* The point implements PointService, for any values, priorities, thresholds
\* and number of manual polls: the device gets commands that the point had
\* since the last restart, one at a time, each answer is reported before the
\* next command is executed, and an outcome that cannot be reported is marked
\* (poll.py:97-157, model_point_store.py:48-79).
THEOREM PointServed == Spec => ServesPoint
BY PointInit, PointInvStep, ServiceInit, ServiceFollows, PTL
   DEF Spec, ServesPoint, Service!Spec
=============================================================================
