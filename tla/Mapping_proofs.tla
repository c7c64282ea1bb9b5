--------------------------- MODULE Mapping_proofs ---------------------------
(***************************************************************************)
(* Theorems about Mapping, for any mappings, points, names and values.     *)
(***************************************************************************)
EXTENDS Mapping, WellFoundedInduction, TLAPS

\* The loop always has a next mapping while some are left.
LEMMA FirstExists ==
  ASSUME NEW S \in SUBSET Nat, S # {}
  PROVE  \E x \in S : \A y \in S : x <= y
<1> DEFINE Below == {ss \in Nat \X Nat : ss[1] < ss[2]}
<1>1. IsWellFoundedOn(Below, Nat)
  BY NatLessThanWellFounded DEF OpToRel
<1> HIDE DEF Below
<1>2. PICK x \in S : \A y \in S : ~(<<y, x>> \in Below)
  BY <1>1, WFMin
<1>3. \A y \in S : ~(y < x)
  BY <1>2 DEF Below
<1> QED BY <1>3

HasMapping == updater.waits # "nothing" => updater.at \in Mappings
TypeInv == TypeOK /\ HasMapping

UpdaterType == [at : Mappings \cup {Absent}, waits : {"nothing", "uuid", "name"},
                todo : SUBSET Mappings]

LEMMA TurnType ==
  ASSUME NEW rest \in SUBSET Mappings
  PROVE  /\ Turn(rest) \in UpdaterType
         /\ Turn(rest).waits # "nothing" => Turn(rest).at \in Mappings
<1> DEFINE m == CHOOSE x \in rest : \A y \in rest : x <= y
<1>1. Idle \in UpdaterType /\ Idle.waits = "nothing"
  BY DEF Idle, UpdaterType
<1>2. CASE rest = {} \/ ~Present(m)
  BY <1>1, <1>2 DEF Turn
<1>3. CASE ~(rest = {} \/ ~Present(m))
  <2>1. m \in rest
    BY <1>3, FirstExists, MappingAssumption
  <2> HIDE DEF m
  <2>2. [at |-> m, waits |-> "uuid", todo |-> rest \ {m}] \in UpdaterType
    BY <2>1 DEF UpdaterType
  <2>3. Turn(rest) = [at |-> m, waits |-> "uuid", todo |-> rest \ {m}]
    BY <1>3 DEF Turn, m
  <2> QED BY <2>1, <2>2, <2>3
<1> QED BY <1>2, <1>3

LEMMA SendType ==
  ASSUME TypeOK, NEW S \in SUBSET Mappings, NEW r, NEW v, Send(S, r, v)
  PROVE  /\ calls' \in [Uuids \X Values -> 0..MaxCalls]
         /\ disturbed' \in SUBSET Mappings
<1> DEFINE sent == {<<r[m].uuid, v[m]>> : m \in S}
<1>1. /\ \A x \in sent : calls[x] < MaxCalls
      /\ calls' = [x \in DOMAIN calls |-> IF x \in sent THEN calls[x] + 1 ELSE calls[x]]
      /\ disturbed' \subseteq disturbed \cup S
  BY DEF Send
<1> HIDE DEF sent
<1>2. calls \in [Uuids \X Values -> 0..MaxCalls] /\ disturbed \in SUBSET Mappings
  BY DEF TypeOK
<1>3. \A x \in Uuids \X Values : calls'[x] \in 0..MaxCalls
  BY <1>1, <1>2, MappingAssumption
<1> QED BY <1>1, <1>2, <1>3

\* The updater's mapping is one, and its row is a row.
LEMMA AtType ==
  ASSUME TypeInv, NEW w, w # "nothing", Waits(w)
  PROVE  updater.at \in Mappings /\ At \in Rows
BY DEF TypeInv, TypeOK, HasMapping, Waits, Present, At

LEMMA SettledType ==
  ASSUME TypeInv, updater.at \in Mappings, NEW r \in Rows, Settled(r)
  PROVE  /\ row' \in [Mappings -> Rows \cup {Absent}]
         /\ updater' \in UpdaterType /\ HasMapping'
         /\ calls' \in [Uuids \X Values -> 0..MaxCalls]
         /\ disturbed' \in SUBSET Mappings
<1>1. updater.todo \in SUBSET Mappings
  BY DEF TypeInv, TypeOK
<1>2. updater' \in UpdaterType /\ HasMapping'
  BY <1>1, TurnType DEF Settled, HasMapping
<1>3. {updater.at} \in SUBSET Mappings /\ Send({updater.at}, row', value)
  BY DEF Settled
<1>4. calls' \in [Uuids \X Values -> 0..MaxCalls] /\ disturbed' \in SUBSET Mappings
  BY <1>3, SendType DEF TypeInv
<1> QED BY <1>2, <1>4 DEF Settled, TypeInv, TypeOK

LEMMA TypeInit == Init => TypeInv
<1> SUFFICES ASSUME Init PROVE TypeInv
  OBVIOUS
<1>1. calls \in [Uuids \X Values -> 0..MaxCalls] /\ changes \in 0..MaxChanges
  BY MappingAssumption DEF Init
<1> QED BY <1>1 DEF Init, TypeInv, TypeOK, HasMapping, Idle, Values

LEMMA TypeNext == TypeInv /\ [Next]_vars => TypeInv'
<1> SUFFICES ASSUME TypeInv, [Next]_vars PROVE TypeInv'
  OBVIOUS
<1> USE DEF TypeInv
<1>t. TypeOK /\ HasMapping
  OBVIOUS
<1>c. ASSUME Change PROVE changes' \in 0..MaxChanges
  BY <1>t, <1>c, MappingAssumption DEF Change, TypeOK
<1>1. ASSUME NEW m \in Mappings, NEW v \in Values, NEW f \in BOOLEAN, PointUpdated(m, v, f)
      PROVE  TypeInv'
  <2>1. calls' \in [Uuids \X Values -> 0..MaxCalls] /\ disturbed' \in SUBSET Mappings
    <3>1. CASE Mapped(m)
      BY <1>1, <3>1, SendType DEF PointUpdated
    <3>2. CASE ~Mapped(m)
      BY <1>1, <3>2 DEF PointUpdated, TypeOK
    <3> QED BY <3>1, <3>2
  <2>2. value' \in [Mappings -> Values] /\ fault' \in [Mappings -> BOOLEAN]
    BY <1>1 DEF PointUpdated, TypeOK
  <2> QED BY <1>1, <1>c, <2>1, <2>2 DEF PointUpdated, TypeOK, HasMapping
<1>2. ASSUME NEW m \in Mappings, NEW u \in Uuids, CreateMapping(m, u)
      PROVE  TypeInv'
  <2>1. {m} \in SUBSET Mappings /\ Send({m}, row', value)
    BY <1>2 DEF CreateMapping
  <2>2. calls' \in [Uuids \X Values -> 0..MaxCalls] /\ disturbed' \in SUBSET Mappings
    BY <2>1, SendType
  <2>3. [uuid |-> u, name |-> remote[u], state |-> "MAPPED"] \in Rows
    BY <1>2 DEF CreateMapping, There, Rows
  <2>4. row' \in [Mappings -> Rows \cup {Absent}]
    BY <1>2, <2>3 DEF CreateMapping, TypeOK
  <2> QED BY <1>2, <1>c, <2>2, <2>4 DEF CreateMapping, TypeOK, HasMapping, store
<1>3. ASSUME NEW m \in Mappings, DeleteMapping(m)
      PROVE  TypeInv'
  BY <1>3, <1>c DEF DeleteMapping, TypeOK, HasMapping, store
<1>4. CASE SyncAll
  <2>1. {m \in Mappings : Mapped(m)} \in SUBSET Mappings
    OBVIOUS
  <2>2. Send({m \in Mappings : Mapped(m)}, row, value)
    BY <1>4 DEF SyncAll
  <2>3. calls' \in [Uuids \X Values -> 0..MaxCalls] /\ disturbed' \in SUBSET Mappings
    BY <2>1, <2>2, SendType
  <2> QED BY <1>4, <1>c, <2>3 DEF SyncAll, TypeOK, HasMapping, store
<1>5. CASE UpdateRequest
  <2>1. updater' \in UpdaterType /\ HasMapping'
    BY <1>5, TurnType DEF UpdateRequest, HasMapping
  <2> QED BY <1>5, <2>1 DEF UpdateRequest, TypeOK, UpdaterType, store
<1>6. CASE Lost
  BY <1>6 DEF Lost, TypeOK, HasMapping, store, Idle
<1>7. CASE Found
  <2>1. updater.at \in Mappings /\ At \in Rows
    BY <1>7, AtType DEF Found
  <2>2. remote[At.uuid] \in Names
    BY <1>7 DEF Found, There
  <2>3. [At EXCEPT !.name = remote[At.uuid], !.state = "MAPPED"] \in Rows
    BY <2>1, <2>2 DEF Rows
  <2>4. Settled([At EXCEPT !.name = remote[At.uuid], !.state = "MAPPED"])
    BY <1>7 DEF Found
  <2>5. /\ row' \in [Mappings -> Rows \cup {Absent}]
        /\ updater' \in UpdaterType /\ HasMapping'
        /\ calls' \in [Uuids \X Values -> 0..MaxCalls]
        /\ disturbed' \in SUBSET Mappings
    BY <2>1, <2>3, <2>4, SettledType
  <2> QED BY <1>7, <2>5 DEF Found, TypeOK, UpdaterType, store
<1>8. CASE NotFound
  <2>1. updater.at \in Mappings
    BY <1>8, AtType DEF NotFound
  <2> QED BY <1>8, <2>1 DEF NotFound, TypeOK, HasMapping, store
<1>9. ASSUME NEW u \in Uuids, FoundByName(u)
      PROVE  TypeInv'
  <2>1. updater.at \in Mappings /\ At \in Rows
    BY <1>9, AtType DEF FoundByName
  <2>2. CASE Taken(u, updater.at)
    BY <1>9, <2>2 DEF FoundByName, TypeOK, HasMapping, store, Idle
  <2>3. CASE ~Taken(u, updater.at)
    <3>1. [At EXCEPT !.uuid = u, !.state = "MAPPED"] \in Rows
      BY <2>1 DEF Rows
    <3>2. Settled([At EXCEPT !.uuid = u, !.state = "MAPPED"])
      BY <1>9, <2>3 DEF FoundByName
    <3>3. /\ row' \in [Mappings -> Rows \cup {Absent}]
          /\ updater' \in UpdaterType /\ HasMapping'
          /\ calls' \in [Uuids \X Values -> 0..MaxCalls]
          /\ disturbed' \in SUBSET Mappings
      BY <2>1, <3>1, <3>2, SettledType
    <3> QED BY <1>9, <3>3 DEF FoundByName, TypeOK, UpdaterType, store
  <2> QED BY <2>2, <2>3
<1>10. CASE NotFoundByName
  <2>1. updater.at \in Mappings /\ At \in Rows
    BY <1>10, AtType DEF NotFoundByName
  <2>2. [row[updater.at] EXCEPT !.state = "BROKEN"] \in Rows
    BY <2>1 DEF At, Rows
  <2>3. row' \in [Mappings -> Rows \cup {Absent}]
    BY <1>10, <2>1, <2>2 DEF NotFoundByName, TypeOK
  <2>4. updater.todo \in SUBSET Mappings
    BY DEF TypeOK
  <2>5. updater' \in UpdaterType /\ HasMapping'
    BY <1>10, <2>4, TurnType DEF NotFoundByName, HasMapping
  <2> QED BY <1>10, <2>3, <2>5 DEF NotFoundByName, TypeOK, UpdaterType, store
<1>11. ASSUME NEW u \in Uuids, NEW v \in Values, Answered(u, v)
       PROVE  TypeInv'
  <2>1. calls' \in [Uuids \X Values -> 0..MaxCalls]
    BY <1>11, MappingAssumption DEF Answered, TypeOK
  <2> QED BY <1>11, <2>1 DEF Answered, TypeOK, HasMapping, store
<1>12. ASSUME NEW u \in Uuids, NEW n \in Names \cup {Deleted}, SetRemote(u, n)
       PROVE  TypeInv'
  BY <1>12, <1>c DEF SetRemote, TypeOK, HasMapping, store
<1>13. CASE UpOrDown
  BY <1>13, <1>c DEF UpOrDown, TypeOK, HasMapping, store
<1>14. CASE UNCHANGED vars
  BY <1>14 DEF vars, store, TypeOK, HasMapping
<1> QED
  BY <1>1, <1>2, <1>3, <1>4, <1>5, <1>6, <1>7, <1>8, <1>9, <1>10, <1>11, <1>12, <1>13, <1>14
  DEF Next, UpdaterStep

\* The store, the rows of the mappings, what the other service was sent, the
\* requests under way and the progress of the update loop keep their types.
THEOREM TypeCorrect == Spec => []TypeOK
<1>1. Spec => []TypeInv
  BY TypeInit, TypeNext, PTL DEF Spec
<1>2. TypeInv => TypeOK
  BY DEF TypeInv
<1> QED BY <1>1, <1>2, PTL

-----------------------------------------------------------------------------
\* No two mappings lead to the same point, and an undisturbed mapped one has
\* its value shown or has one request for its point under way, with that value
\* (or, while the Modbus point has a fault, with some value).
Separate ==
  \A m, o \in Mappings :
    Present(m) /\ Present(o) /\ row[m].uuid = row[o].uuid => m = o
OnlyCall(u, p) == \A v \in Values : calls[<<u, v>>] = IF v = p THEN 1 ELSE 0
Tracked(m) ==
  \E p \in Values :
    /\ fault[m] \/ p = value[m]
    /\ \/ OnlyCall(row[m].uuid, p)
       \/ ~Busy(row[m].uuid) /\ shown[row[m].uuid] = p
TrackInv == \A m \in Mappings \ disturbed : Mapped(m) => Tracked(m)
NewestInv == TypeInv /\ Separate /\ TrackInv

\* The point of a mapped row.
LEMMA RowType ==
  ASSUME TypeOK, NEW m \in Mappings, Present(m)
  PROVE  row[m].uuid \in Uuids
BY DEF TypeOK, Present, Rows

\* What is not sent anything stays tracked.
LEMMA KeepTracks ==
  ASSUME NewestInv, UNCHANGED <<calls, shown>>,
         \A m \in Mappings \ disturbed' :
           Mapped(m)' => /\ m \notin disturbed /\ Mapped(m) /\ row'[m] = row[m]
                         /\ value'[m] = value[m] /\ fault'[m] = fault[m]
  PROVE  TrackInv'
<1> SUFFICES ASSUME NEW m \in Mappings, m \notin disturbed', Mapped(m)'
             PROVE  Tracked(m)'
  BY DEF TrackInv
<1>1. /\ m \notin disturbed /\ Mapped(m) /\ row'[m] = row[m]
      /\ value'[m] = value[m] /\ fault'[m] = fault[m]
  OBVIOUS
<1>2. Tracked(m)
  BY <1>1 DEF NewestInv, TrackInv
<1> QED BY <1>1, <1>2 DEF Tracked, OnlyCall, Busy, Values

\* What is sent its value becomes tracked unless something else is under way.
LEMMA SendTracks ==
  ASSUME NewestInv, TypeOK', Separate', shown' = shown,
         NEW S \in SUBSET Mappings, NEW v \in [Mappings -> Values],
         Send(S, row', v),
         \A m \in S : Present(m)' /\ (fault'[m] \/ v[m] = value'[m]),
         \A m \in Mappings \ S :
           Mapped(m)' => /\ Mapped(m) /\ row'[m] = row[m]
                         /\ value'[m] = value[m] /\ fault'[m] = fault[m]
  PROVE  TrackInv'
<1> DEFINE sent == {<<row'[m].uuid, v[m]>> : m \in S}
<1>1. /\ calls' = [x \in DOMAIN calls |-> IF x \in sent THEN calls[x] + 1 ELSE calls[x]]
      /\ disturbed' = {m \in disturbed \cup S : m \in S => Busy(row'[m].uuid)}
  BY DEF Send
<1>2. \A x \in sent : \E o \in S : x = <<row'[o].uuid, v[o]>>
  OBVIOUS
<1>3. \A o \in S : <<row'[o].uuid, v[o]>> \in sent
  OBVIOUS
<1> HIDE DEF sent
<1>4. calls \in [Uuids \X Values -> 0..MaxCalls]
  BY DEF NewestInv, TypeInv, TypeOK
<1> SUFFICES ASSUME NEW m \in Mappings, m \notin disturbed', Mapped(m)'
             PROVE  Tracked(m)'
  BY DEF TrackInv
<1>p. Present(m)'
  BY DEF Mapped
<1>5. PICK u \in Uuids : u = row'[m].uuid
  BY <1>p DEF TypeOK, Present, Rows
<1>6. \A o \in S : row'[o].uuid = u => o = m
  BY <1>p, <1>5 DEF Separate
<1>7. CASE m \in S
  <2>1. ~Busy(u)
    BY <1>1, <1>5, <1>7
  <2>2. \A x \in Values : calls[<<u, x>>] = 0
    BY <1>4, <1>5, <2>1, MappingAssumption DEF Busy
  <2>3. \A x \in Values : <<u, x>> \in sent <=> x = v[m]
    BY <1>2, <1>3, <1>5, <1>6, <1>7
  <2>4. \A x \in Values : calls'[<<u, x>>] = IF x = v[m] THEN 1 ELSE 0
    BY <1>1, <1>4, <1>5, <2>2, <2>3
  <2>5. v[m] \in Values /\ (fault'[m] \/ v[m] = value'[m])
    BY <1>7
  <2> QED BY <1>5, <2>4, <2>5 DEF Tracked, OnlyCall, Values
<1>8. CASE m \notin S
  <2>1. m \notin disturbed
    BY <1>1, <1>8
  <2>2. /\ Mapped(m) /\ row[m].uuid = u
        /\ value'[m] = value[m] /\ fault'[m] = fault[m]
    BY <1>5, <1>8
  <2>3. \A x \in Values : <<u, x>> \notin sent
    BY <1>2, <1>6, <1>8
  <2>4. \A x \in Values : calls'[<<u, x>>] = calls[<<u, x>>]
    BY <1>1, <1>4, <1>5, <2>3
  <2>5. PICK p \in Values :
          /\ fault[m] \/ p = value[m]
          /\ OnlyCall(u, p) \/ (~Busy(u) /\ shown[u] = p)
    BY <2>1, <2>2 DEF NewestInv, TrackInv, Tracked
  <2>6. OnlyCall(u, p)' \/ (~Busy(u)' /\ shown'[u] = p)
    BY <2>4, <2>5 DEF OnlyCall, Busy, Values
  <2> QED BY <1>5, <2>2, <2>5, <2>6 DEF Tracked, Values
<1> QED BY <1>7, <1>8

\* An answer settles what is tracked: it is the only one.
LEMMA AnsweredTracks ==
  ASSUME NewestInv, NEW u \in Uuids, NEW v \in Values, Answered(u, v)
  PROVE  TrackInv'
<1>1. calls \in [Uuids \X Values -> 0..MaxCalls] /\ shown \in [Uuids -> Values]
  BY DEF NewestInv, TypeInv, TypeOK
<1>2. /\ calls[<<u, v>>] > 0
      /\ calls' = [calls EXCEPT ![<<u, v>>] = @ - 1]
      /\ row' = row /\ value' = value /\ fault' = fault
      /\ disturbed \subseteq disturbed'
  BY DEF Answered, store
<1> SUFFICES ASSUME NEW m \in Mappings, m \notin disturbed', Mapped(m)'
             PROVE  Tracked(m)'
  BY DEF TrackInv
<1>3. Mapped(m) /\ Present(m)
  BY <1>2 DEF Mapped, Present
<1>4. PICK w \in Uuids : w = row[m].uuid
  BY <1>3, RowType DEF NewestInv, TypeInv
<1>5. PICK p \in Values :
        /\ fault[m] \/ p = value[m]
        /\ OnlyCall(w, p) \/ (~Busy(w) /\ shown[w] = p)
  BY <1>2, <1>3, <1>4 DEF NewestInv, TrackInv, Tracked
<1>6. CASE w # u
  <2>1. \A x \in Values : calls'[<<w, x>>] = calls[<<w, x>>]
    BY <1>1, <1>2, <1>4, <1>6
  <2>2. shown'[w] = shown[w]
    BY <1>1, <1>4, <1>6 DEF Answered
  <2>3. OnlyCall(w, p)' \/ (~Busy(w)' /\ shown'[w] = p)
    BY <1>5, <2>1, <2>2 DEF OnlyCall, Busy, Values
  <2> QED BY <1>2, <1>4, <1>5, <2>3 DEF Tracked, Values
<1>7. CASE w = u
  <2>1. shown'[u] = v
    <3>1. up /\ There(u)
      BY <1>3, <1>4, <1>7 DEF Answered
    <3> QED BY <1>1, <3>1 DEF Answered
  <2>2. OnlyCall(u, p) /\ v = p
    BY <1>2, <1>5, <1>7 DEF Busy, OnlyCall
  <2>3. \A x \in Values : calls'[<<u, x>>] = 0
    BY <1>1, <1>2, <2>2 DEF OnlyCall
  <2>4. ~Busy(u)'
    <3> SUFFICES ASSUME NEW x \in Values, calls'[<<u, x>>] > 0 PROVE FALSE
      BY DEF Busy, Values
    <3>1. calls'[<<u, x>>] = 0
      BY <2>3
    <3> QED BY <3>1
  <2> QED BY <1>2, <1>4, <1>5, <1>7, <2>1, <2>2, <2>4 DEF Tracked, Values
<1> QED BY <1>6, <1>7

LEMMA TrackInit == Init => NewestInv
<1> SUFFICES ASSUME Init PROVE NewestInv
  OBVIOUS
<1>1. TypeInv
  BY TypeInit
<1>2. \A m \in Mappings : ~Present(m)
  BY DEF Init, Present
<1> QED BY <1>1, <1>2 DEF NewestInv, Separate, TrackInv, Mapped

\* A mapping that is settled gets a point that no other one has.
LEMMA SettledSeparates ==
  ASSUME NewestInv, updater.at \in Mappings, NEW r \in Rows, Settled(r),
         ~Taken(r.uuid, updater.at)
  PROVE  Separate'
<1>1. row' = [row EXCEPT ![updater.at] = r] /\ row \in [Mappings -> Rows \cup {Absent}]
  BY DEF Settled, NewestInv, TypeInv, TypeOK
<1>2. \A o \in Mappings : Present(o) /\ o # updater.at => row[o].uuid # r.uuid
  BY DEF Taken
<1>3. Separate
  BY DEF NewestInv
<1> QED BY <1>1, <1>2, <1>3 DEF Separate, Present

LEMMA SettledTracks ==
  ASSUME NewestInv, TypeOK', Separate', updater.at \in Mappings, NEW r \in Rows,
         Settled(r), UNCHANGED <<store, shown>>
  PROVE  TrackInv'
<1>1. /\ row' = [row EXCEPT ![updater.at] = r]
      /\ Send({updater.at}, row', value)
      /\ row \in [Mappings -> Rows \cup {Absent}]
      /\ value \in [Mappings -> Values]
      /\ value' = value /\ fault' = fault /\ shown' = shown
  BY DEF Settled, NewestInv, TypeInv, TypeOK, store
<1>2. \A m \in {updater.at} : Present(m)' /\ (fault'[m] \/ value[m] = value'[m])
  BY <1>1, MappingAssumption DEF Present
<1>3. \A m \in Mappings \ {updater.at} :
        Mapped(m)' => /\ Mapped(m) /\ row'[m] = row[m]
                      /\ value'[m] = value[m] /\ fault'[m] = fault[m]
  BY <1>1 DEF Mapped, Present
<1>4. {updater.at} \in SUBSET Mappings
  OBVIOUS
<1> HIDE DEF Mapped
<1> QED BY <1>1, <1>2, <1>3, <1>4, SendTracks

LEMMA TrackNext == NewestInv /\ [Next]_vars => NewestInv'
<1> SUFFICES ASSUME NewestInv, [Next]_vars PROVE Separate' /\ TrackInv'
  BY TypeNext DEF NewestInv
<1>t. TypeOK /\ TypeInv /\ TypeOK'
  BY TypeNext DEF NewestInv, TypeInv
<1>s. ASSUME \A m \in Mappings : Present(m)' => Present(m) /\ row'[m].uuid = row[m].uuid
      PROVE  Separate'
  BY <1>s DEF NewestInv, Separate
<1>1. ASSUME NEW m \in Mappings, NEW v \in Values, NEW f \in BOOLEAN, PointUpdated(m, v, f)
      PROVE  Separate' /\ TrackInv'
  <2>1. /\ row' = row /\ shown' = shown
        /\ value' = [value EXCEPT ![m] = v] /\ fault' = [fault EXCEPT ![m] = f]
    BY <1>1 DEF PointUpdated
  <2>2. Separate'
    BY <2>1, <1>s DEF Present
  <2>3. CASE Mapped(m)
    <3> DEFINE sent == [value' EXCEPT ![m] = IF f THEN Null ELSE v]
    <3>1. sent \in [Mappings -> Values]
      BY <1>t DEF TypeOK, Values
    <3>2. Send({m}, row', sent)
      BY <1>1, <2>1, <2>3 DEF PointUpdated
    <3>3. sent[m] = IF f THEN Null ELSE v
      BY <1>t DEF TypeOK
    <3>4. \A o \in {m} : Present(o)' /\ (fault'[o] \/ sent[o] = value'[o])
      BY <1>t, <2>1, <2>3, <3>3 DEF TypeOK, Present, Mapped
    <3>5. \A o \in Mappings \ {m} :
            Mapped(o)' => /\ Mapped(o) /\ row'[o] = row[o]
                          /\ value'[o] = value[o] /\ fault'[o] = fault[o]
      BY <1>t, <2>1 DEF TypeOK, Mapped, Present
    <3>6. {m} \in SUBSET Mappings
      OBVIOUS
    <3> HIDE DEF sent
    <3> QED BY <1>t, <2>1, <2>2, <3>1, <3>2, <3>4, <3>5, <3>6, SendTracks
  <2>4. CASE ~Mapped(m)
    <3>1. UNCHANGED <<calls, shown>> /\ disturbed' = disturbed
      BY <1>1, <2>4 DEF PointUpdated
    <3>2. \A o \in Mappings \ disturbed' :
            Mapped(o)' => /\ o \notin disturbed /\ Mapped(o) /\ row'[o] = row[o]
                          /\ value'[o] = value[o] /\ fault'[o] = fault[o]
      BY <1>t, <2>1, <2>4, <3>1 DEF TypeOK, Mapped, Present
    <3> QED BY <2>2, <3>1, <3>2, KeepTracks
  <2> QED BY <2>2, <2>3, <2>4
<1>2. ASSUME NEW m \in Mappings, NEW u \in Uuids, CreateMapping(m, u)
      PROVE  Separate' /\ TrackInv'
  <2>1. /\ row' = [row EXCEPT ![m] = [uuid |-> u, name |-> remote[u], state |-> "MAPPED"]]
        /\ Send({m}, row', value)
        /\ value' = value /\ fault' = fault /\ shown' = shown
        /\ row \in [Mappings -> Rows \cup {Absent}] /\ value \in [Mappings -> Values]
    BY <1>2, <1>t DEF CreateMapping, store, TypeOK
  <2>2. Separate'
    <3>1. \A o \in Mappings : Present(o) /\ o # m => row[o].uuid # u
      BY <1>2 DEF CreateMapping, Taken
    <3> QED BY <2>1, <3>1 DEF NewestInv, Separate, Present
  <2>3. \A o \in {m} : Present(o)' /\ (fault'[o] \/ value[o] = value'[o])
    <3>1. row'[m] \in Rows
      BY <1>2, <2>1 DEF CreateMapping, There, Rows
    <3> QED BY <2>1, <3>1, MappingAssumption DEF Present
  <2>4. \A o \in Mappings \ {m} :
          Mapped(o)' => /\ Mapped(o) /\ row'[o] = row[o]
                        /\ value'[o] = value[o] /\ fault'[o] = fault[o]
    BY <2>1 DEF Mapped, Present
  <2>5. {m} \in SUBSET Mappings
    OBVIOUS
  <2> QED BY <1>t, <2>1, <2>2, <2>3, <2>4, <2>5, SendTracks
<1>3. ASSUME NEW m \in Mappings, DeleteMapping(m)
      PROVE  Separate' /\ TrackInv'
  <2>1. /\ row' = [row EXCEPT ![m] = Absent] /\ row \in [Mappings -> Rows \cup {Absent}]
        /\ disturbed' = disturbed \ {m}
        /\ value' = value /\ fault' = fault /\ UNCHANGED <<calls, shown>>
    BY <1>3, <1>t DEF DeleteMapping, store, TypeOK
  <2>2. \A o \in Mappings : Present(o)' => o # m /\ Present(o) /\ row'[o] = row[o]
    BY <2>1 DEF Present
  <2>3. \A o \in Mappings \ disturbed' :
          Mapped(o)' => /\ o \notin disturbed /\ Mapped(o) /\ row'[o] = row[o]
                        /\ value'[o] = value[o] /\ fault'[o] = fault[o]
    BY <2>1, <2>2 DEF Mapped
  <2> QED BY <2>1, <2>2, <2>3, <1>s, KeepTracks
<1>4. CASE SyncAll
  <2> DEFINE S == {m \in Mappings : Mapped(m)}
  <2>1. /\ row' = row /\ value' = value /\ fault' = fault /\ shown' = shown
        /\ Send(S, row', value) /\ value \in [Mappings -> Values]
    BY <1>4, <1>t DEF SyncAll, store, TypeOK
  <2>2. Separate'
    BY <2>1, <1>s DEF Present
  <2>3. \A o \in S : Present(o)' /\ (fault'[o] \/ value[o] = value'[o])
    BY <2>1 DEF Mapped, Present
  <2>4. \A o \in Mappings \ S :
          Mapped(o)' => /\ Mapped(o) /\ row'[o] = row[o]
                        /\ value'[o] = value[o] /\ fault'[o] = fault[o]
    BY <2>1 DEF Mapped, Present
  <2>5. S \in SUBSET Mappings
    OBVIOUS
  <2> HIDE DEF S
  <2> QED BY <1>t, <2>1, <2>2, <2>3, <2>4, <2>5, SendTracks
<1>5. ASSUME UNCHANGED <<store, row, shown, calls, disturbed>>
      PROVE  Separate' /\ TrackInv'
  <2>1. /\ value' = value /\ fault' = fault /\ row' = row /\ disturbed' = disturbed
        /\ UNCHANGED <<calls, shown>>
    BY <1>5 DEF store
  <2>2. \A o \in Mappings \ disturbed' :
          Mapped(o)' => /\ o \notin disturbed /\ Mapped(o) /\ row'[o] = row[o]
                        /\ value'[o] = value[o] /\ fault'[o] = fault[o]
    BY <2>1 DEF Mapped, Present
  <2> QED BY <2>1, <2>2, <1>s, KeepTracks DEF Present
<1>6. CASE Found
  <2> DEFINE r == [At EXCEPT !.name = remote[At.uuid], !.state = "MAPPED"]
  <2>1. updater.at \in Mappings /\ At \in Rows /\ Present(updater.at)
    BY <1>6, <1>t, AtType DEF Found, Waits
  <2>2. remote[At.uuid] \in Names
    BY <1>6 DEF Found, There
  <2>3. r \in Rows /\ r.uuid = At.uuid
    BY <2>1, <2>2 DEF Rows
  <2>4. Settled(r) /\ UNCHANGED <<store, shown>>
    BY <1>6 DEF Found
  <2> HIDE DEF r
  <2>5. ~Taken(r.uuid, updater.at)
    BY <2>1, <2>3 DEF NewestInv, Separate, Taken, At
  <2> QED BY <1>t, <2>1, <2>3, <2>4, <2>5, SettledSeparates, SettledTracks
<1>7. ASSUME NEW u \in Uuids, FoundByName(u)
      PROVE  Separate' /\ TrackInv'
  <2>1. CASE Taken(u, updater.at)
    BY <1>5, <1>7, <2>1 DEF FoundByName
  <2>2. CASE ~Taken(u, updater.at)
    <3> DEFINE r == [At EXCEPT !.uuid = u, !.state = "MAPPED"]
    <3>1. updater.at \in Mappings /\ At \in Rows
      BY <1>7, <1>t, AtType DEF FoundByName
    <3>2. r \in Rows /\ r.uuid = u
      BY <3>1 DEF Rows
    <3>3. Settled(r) /\ UNCHANGED <<store, shown>>
      BY <1>7, <2>2 DEF FoundByName
    <3> HIDE DEF r
    <3> QED BY <1>t, <2>2, <3>1, <3>2, <3>3, SettledSeparates, SettledTracks
  <2> QED BY <2>1, <2>2
<1>8. CASE NotFoundByName
  <2>1. updater.at \in Mappings /\ At \in Rows /\ Present(updater.at)
    BY <1>8, <1>t, AtType DEF NotFoundByName, Waits
  <2>2. /\ row' = [row EXCEPT ![updater.at].state = "BROKEN"]
        /\ row \in [Mappings -> Rows \cup {Absent}] /\ disturbed' = disturbed
        /\ value' = value /\ fault' = fault /\ UNCHANGED <<calls, shown>>
    BY <1>8, <1>t DEF NotFoundByName, store, TypeOK
  <2>3. /\ \A o \in Mappings : o # updater.at => row'[o] = row[o]
        /\ row'[updater.at] = [row[updater.at] EXCEPT !.state = "BROKEN"]
    BY <2>1, <2>2
  <2>4. row'[updater.at].uuid = row[updater.at].uuid /\ row'[updater.at].state = "BROKEN"
    BY <2>1, <2>3 DEF At, Rows
  <2>5. Separate'
    BY <2>1, <2>3, <2>4, <1>s DEF Present
  <2>6. \A o \in Mappings \ disturbed' :
          Mapped(o)' => /\ o \notin disturbed /\ Mapped(o) /\ row'[o] = row[o]
                        /\ value'[o] = value[o] /\ fault'[o] = fault[o]
    BY <2>2, <2>3, <2>4 DEF Mapped, Present
  <2> QED BY <2>2, <2>5, <2>6, KeepTracks
<1>9. ASSUME NEW u \in Uuids, NEW v \in Values, Answered(u, v)
      PROVE  Separate' /\ TrackInv'
  <2>1. row' = row
    BY <1>9 DEF Answered
  <2>2. Separate'
    BY <2>1, <1>s DEF Present
  <2> QED BY <1>9, <2>2, AnsweredTracks
<1>10. CASE UpdateRequest
  BY <1>5, <1>10 DEF UpdateRequest
<1>11. CASE Lost
  BY <1>5, <1>11 DEF Lost
<1>12. CASE NotFound
  BY <1>5, <1>12 DEF NotFound
<1>13. ASSUME NEW u \in Uuids, NEW n \in Names \cup {Deleted}, SetRemote(u, n)
       PROVE  Separate' /\ TrackInv'
  BY <1>5, <1>13 DEF SetRemote
<1>14. CASE UpOrDown
  BY <1>5, <1>14 DEF UpOrDown
<1>15. CASE UNCHANGED vars
  BY <1>5, <1>15 DEF vars
<1> QED
  BY <1>1, <1>2, <1>3, <1>4, <1>6, <1>7, <1>8, <1>9, <1>10, <1>11, <1>12, <1>13, <1>14, <1>15
  DEF Next, UpdaterStep

\* Whenever nothing is under way to a mapped point, it was sent the value of its
\* Modbus point last, unless the last request for it failed or met another one.
THEOREM Newest == Spec => []NewestShown
<1>1. Spec => []NewestInv
  BY TrackInit, TrackNext, PTL DEF Spec
<1>2. NewestInv => NewestShown
  <2> SUFFICES ASSUME NewestInv, NEW m \in Mappings, m \notin disturbed,
                      Mapped(m), ~Busy(row[m].uuid), ~fault[m]
               PROVE  shown[row[m].uuid] = value[m]
    BY DEF NewestShown
  <2>1. PICK p \in Values :
          /\ p = value[m]
          /\ OnlyCall(row[m].uuid, p) \/ shown[row[m].uuid] = p
    BY DEF NewestInv, TrackInv, Tracked
  <2>2. ~OnlyCall(row[m].uuid, p)
    BY DEF OnlyCall, Busy
  <2> QED BY <2>1, <2>2
<1> QED BY <1>1, <1>2, PTL
=============================================================================
