---------------------------- MODULE Mqtt_proofs ----------------------------
(***************************************************************************)
(* Theorems about Mqtt, for any points, names and values.                  *)
(***************************************************************************)
EXTENDS Mqtt, TLAPS

Payloads == Values \cup {Fault, NoMessage}

LEMMA PublishType ==
  ASSUME TypeOK, NEW P \in SUBSET Points, NEW d, NEW names,
         NEW v \in [Points -> Values], NEW f \in [Points -> BOOLEAN],
         Publish(P, d, names, v, f)
  PROVE  retained' \in [Topics -> Payloads] /\ missed' \in SUBSET Points
<1>1. \A t \in Topics : t.point \in Points /\ retained[t] \in Payloads
  BY DEF TypeOK, Topics, Payloads
<1>2. \A t \in Topics : Payload(t, v[t.point], f[t.point], retained[t]) \in Payloads
  BY <1>1 DEF Payload, Payloads
<1>3. CASE connected
  BY <1>1, <1>2, <1>3 DEF Publish, TypeOK
<1>4. CASE ~connected
  BY <1>4 DEF Publish, TypeOK, Payloads
<1> QED BY <1>3, <1>4

LEMMA ClearType ==
  ASSUME TypeOK, NEW p \in Points
  PROVE  Clear(p) \in [Topics -> Payloads]
BY DEF TypeOK, Clear, Payloads

LEMMA TypeInit == Init => TypeOK
<1> SUFFICES ASSUME Init PROVE TypeOK
  OBVIOUS
<1>1. /\ name \in [Points -> PointNames \cup {New, Deleted}]
      /\ value \in [Points -> Values]
      /\ fault \in [Points -> BOOLEAN]
      /\ retained \in [Topics -> Values \cup {Fault, NoMessage}]
  BY DEF Init, Values
<1>2. changes \in 0..MaxChanges
  BY MqttAssumption DEF Init
<1> QED BY <1>1, <1>2 DEF Init, TypeOK

LEMMA TypeNext == TypeOK /\ [Next]_vars => TypeOK'
<1> SUFFICES ASSUME TypeOK, [Next]_vars PROVE TypeOK'
  OBVIOUS
<1> USE DEF Payloads
<1>2. ASSUME NEW p \in Points, NEW n \in PointNames, AddPoint(p, n)
      PROVE  TypeOK'
  <2>1. retained' \in [Topics -> Payloads] /\ missed' \in SUBSET Points
    BY <1>2, PublishType DEF AddPoint, TypeOK
  <2> QED BY <1>2, <2>1, MqttAssumption DEF AddPoint, TypeOK, Change, store
<1>3. ASSUME NEW p \in Points, NEW n \in PointNames, NEW v \in Values, EditPoint(p, n, v)
      PROVE  TypeOK'
  <2>1. value' \in [Points -> Values]
    BY <1>3 DEF EditPoint, TypeOK
  <2>2. retained' \in [Topics -> Payloads] /\ missed' \in SUBSET Points
    <3>1. CASE Publish({p}, device, name', value', fault)
      BY <2>1, <3>1, PublishType DEF TypeOK
    <3>2. CASE retained' = retained /\ missed' = missed \cup {p}
      BY <3>2 DEF TypeOK
    <3> QED BY <1>3, <3>1, <3>2 DEF EditPoint
  <2> QED BY <1>3, <2>1, <2>2, MqttAssumption DEF EditPoint, TypeOK, Change
<1>4. ASSUME NEW p \in Points, NEW v \in Values, NEW f \in BOOLEAN, Poll(p, v, f)
      PROVE  TypeOK'
  <2>1. value' \in [Points -> Values] /\ fault' \in [Points -> BOOLEAN]
    BY <1>4 DEF Poll, TypeOK
  <2>2. retained' \in [Topics -> Payloads] /\ missed' \in SUBSET Points
    BY <1>4, <2>1, PublishType DEF Poll, TypeOK
  <2> QED BY <1>4, <2>1, <2>2, MqttAssumption DEF Poll, TypeOK, Change
<1>5. ASSUME NEW p \in Points, DeletePoint(p)
      PROVE  TypeOK'
  <2>1. retained' \in [Topics -> Payloads]
    BY <1>5, ClearType DEF DeletePoint
  <2> QED BY <1>5, <2>1, MqttAssumption DEF DeletePoint, TypeOK, Change, store
<1>6. ASSUME NEW d \in DeviceNames, RenameDevice(d)
      PROVE  TypeOK'
  BY <1>6, MqttAssumption DEF RenameDevice, TypeOK, Change, store, Existing
<1>7. CASE DeleteDevice
  BY <1>7, MqttAssumption DEF DeleteDevice, TypeOK, Change, store
<1>8. CASE Connect \/ Disconnect \/ Restart \/ Resubscribe
  <2>1. Kept \in SUBSET Topics
    BY DEF Kept
  <2>2. inbox' \in SUBSET Topics /\ changes' \in 0..MaxChanges
    BY <1>8, <2>1, MqttAssumption
    DEF Connect, Disconnect, Restart, Resubscribe, TypeOK, Change
  <2> QED BY <1>8, <2>2 DEF Connect, Disconnect, Restart, Resubscribe, TypeOK, store
<1>9. CASE Republish
  <2>1. Existing \in SUBSET Points
    BY DEF Existing
  <2>2. retained' \in [Topics -> Payloads] /\ missed' \in SUBSET Points
    BY <1>9, <2>1, PublishType DEF Republish, TypeOK
  <2> QED BY <1>9, <2>2 DEF Republish, TypeOK, store
<1>10. ASSUME NEW t \in Topics, OnMessage(t)
       PROVE  TypeOK'
  BY <1>10 DEF OnMessage, TypeOK, store
<1>11. CASE UNCHANGED vars
  BY <1>11 DEF vars, store, TypeOK
<1> QED BY <1>2, <1>3, <1>4, <1>5, <1>6, <1>7, <1>8, <1>9, <1>10, <1>11 DEF Next, RestRequest

\* The types hold: a topic never holds anything but a payload of a point.
THEOREM TypeCorrect == Spec => []TypeOK
BY TypeInit, TypeNext, PTL DEF Spec

-----------------------------------------------------------------------------
(* PublishedIsShown. A step that publishes a set of points shows them, and *)
(* leaves the topics of all others alone.                                  *)

Shown(p) ==
  \A k \in Kinds : LET t == Topic(k, p, device, name[p])
                   IN  retained[t] = Payload(t, value[p], fault[p], retained[t])

LEMMA TopicType ==
  ASSUME NEW k \in Kinds, NEW p \in Points, NEW d \in DeviceNames, NEW n \in PointNames
  PROVE  /\ Topic(k, p, d, n) \in Topics
         /\ Topic(k, p, d, n).point = p /\ Topic(k, p, d, n).device = d
         /\ Topic(k, p, d, n).name = n /\ Topic(k, p, d, n).kind = k
BY DEF Topic, Topics

\* Points exist only while the device does.
DeviceInv == \A p \in Points : Exists(p) => device \in DeviceNames

ShownInv == TypeOK /\ DeviceInv /\ PublishedIsShown

\* A point that a step does not concern is shown as before.
LEMMA UnconcernedShown ==
  ASSUME NEW p \in Points, Shown(p), device' = device, name'[p] = name[p],
         value'[p] = value[p], fault'[p] = fault[p],
         \A k \in Kinds : retained'[Topic(k, p, device, name[p])]
                           = retained[Topic(k, p, device, name[p])]
  PROVE  Shown(p)'
<1> SUFFICES ASSUME NEW k \in Kinds
             PROVE  LET t == Topic(k, p, device', name'[p])
                    IN  retained'[t] = Payload(t, value'[p], fault'[p], retained'[t])
  BY DEF Shown
<1> DEFINE t == Topic(k, p, device, name[p])
<1>1. retained[t] = Payload(t, value[p], fault[p], retained[t])
  BY DEF Shown
<1> QED BY <1>1

LEMMA PublishedShown ==
  ASSUME TypeOK, NEW P \in SUBSET Points, Publish(P, device', name', value', fault'),
         NEW p \in Points, Exists(p)', device' \in DeviceNames, p \notin missed',
         p \notin P => /\ p \notin missed => Shown(p)
                      /\ device' = device /\ name'[p] = name[p]
                      /\ value'[p] = value[p] /\ fault'[p] = fault[p]
  PROVE  Shown(p)'
<1>1. name'[p] \in PointNames
  BY DEF Exists
<1>2. CASE p \in P
  <2>1. connected
    BY <1>2 DEF Publish
  <2> SUFFICES ASSUME NEW k \in Kinds
               PROVE  LET t == Topic(k, p, device', name'[p])
                      IN  retained'[t] = Payload(t, value'[p], fault'[p], retained'[t])
    BY DEF Shown
  <2> DEFINE t == Topic(k, p, device', name'[p])
  <2>2. t \in Topics /\ t.point = p /\ t.device = device' /\ t.name = name'[p]
    BY <1>1, TopicType
  <2> HIDE DEF t
  <2>3. retained'[t] = Payload(t, value'[p], fault'[p], retained[t])
    BY <1>2, <2>1, <2>2 DEF Publish
  <2>4. retained'[t] = Payload(t, value'[p], fault'[p], retained'[t])
    BY <2>3 DEF Payload
  <2> QED BY <2>4 DEF t
<1>3. CASE p \notin P
  <2>1. p \notin missed
    BY <1>3 DEF Publish
  <2>2. ASSUME NEW k \in Kinds
        PROVE  retained'[Topic(k, p, device, name[p])] = retained[Topic(k, p, device, name[p])]
    <3>1. /\ Topic(k, p, device, name[p]) \in Topics
          /\ Topic(k, p, device, name[p]).point = p
      BY <1>1, <1>3, TopicType
    <3> QED BY <1>3, <3>1 DEF Publish
  <2> QED BY <1>3, <2>1, <2>2, UnconcernedShown
<1> QED BY <1>2, <1>3

LEMMA ShownNext == ShownInv /\ [Next]_vars => ShownInv'
<1> SUFFICES ASSUME ShownInv, [Next]_vars PROVE ShownInv'
  OBVIOUS
<1>0. TypeOK /\ TypeOK' /\ \A p \in Points : Exists(p) /\ p \notin missed => Shown(p)
  BY TypeNext DEF ShownInv, PublishedIsShown, Shown, Existing
<1>10. DeviceInv'
  <2> SUFFICES ASSUME NEW p \in Points, Exists(p)' PROVE device' \in DeviceNames
    BY DEF DeviceInv
  <2>1. Exists(p) => device \in DeviceNames
    BY DEF ShownInv, DeviceInv
  <2>2. device # Deleted => device \in DeviceNames
    BY <1>0 DEF TypeOK
  <2>3. ASSUME NEW q \in Points, NEW n \in PointNames, AddPoint(q, n)
        PROVE  device' \in DeviceNames
    BY <2>2, <2>3 DEF AddPoint
  <2>4. ASSUME NEW q \in Points, NEW n \in PointNames, NEW v \in Values, EditPoint(q, n, v)
        PROVE  device' \in DeviceNames
    BY <1>0, <2>1, <2>4 DEF EditPoint, Exists, ShownInv, DeviceInv
  <2>5. ASSUME NEW q \in Points, DeletePoint(q)
        PROVE  device' \in DeviceNames
    BY <1>0, <2>5 DEF DeletePoint, Exists, ShownInv, DeviceInv
  <2>6. CASE \E d \in DeviceNames : RenameDevice(d)
    BY <2>6 DEF RenameDevice
  <2>7. CASE DeleteDevice
    BY <2>7, MqttAssumption DEF DeleteDevice, Exists
  <2>8. CASE UNCHANGED <<device, name>>
    BY <2>1, <2>8 DEF Exists
  <2> QED BY <2>3, <2>4, <2>5, <2>6, <2>7, <2>8
     DEF Next, RestRequest, Poll, Connect, Disconnect, Restart, Republish, Resubscribe, OnMessage, vars
<1> SUFFICES ASSUME NEW p \in Points, Exists(p)', p \notin missed' PROVE Shown(p)'
  BY <1>0, <1>10 DEF ShownInv, PublishedIsShown, Shown, Existing
<1>11. device' \in DeviceNames
  BY <1>10 DEF DeviceInv
<1>1. ASSUME NEW q \in Points, NEW n \in PointNames, AddPoint(q, n)
      PROVE  Shown(p)'
  <2>1. /\ device' = device /\ value' = value /\ fault' = fault
        /\ Publish({q}, device', name', value', fault')
    BY <1>1 DEF AddPoint, store
  <2>2. p # q => name'[p] = name[p] /\ Exists(p)
    BY <1>0, <1>1 DEF AddPoint, TypeOK, Exists
  <2> QED BY <1>0, <1>11, <2>1, <2>2, PublishedShown
<1>2. ASSUME NEW q \in Points, NEW n \in PointNames, NEW v \in Values, EditPoint(q, n, v)
      PROVE  Shown(p)'
  <2>1. device' = device /\ fault' = fault
    BY <1>2 DEF EditPoint
  <2>2. p # q => name'[p] = name[p] /\ value'[p] = value[p] /\ Exists(p)
    BY <1>0, <1>2 DEF EditPoint, TypeOK, Exists
  <2>3. CASE Publish({q}, device, name', value', fault)
    BY <1>0, <1>11, <2>1, <2>2, <2>3, PublishedShown
  <2>4. CASE retained' = retained /\ missed' = missed \cup {q}
    BY <1>0, <2>1, <2>2, <2>4, UnconcernedShown
  <2> QED BY <1>2, <2>3, <2>4 DEF EditPoint
<1>3. ASSUME NEW q \in Points, NEW v \in Values, NEW f \in BOOLEAN, Poll(q, v, f)
      PROVE  Shown(p)'
  <2>1. device' = device /\ name' = name /\ Publish({q}, device', name', value', fault')
    BY <1>3 DEF Poll
  <2>2. p # q => value'[p] = value[p] /\ fault'[p] = fault[p] /\ Exists(p)
    BY <1>0, <1>3 DEF Poll, TypeOK, Exists
  <2> QED BY <1>0, <1>11, <2>1, <2>2, PublishedShown
<1>4. ASSUME NEW q \in Points, DeletePoint(q)
      PROVE  Shown(p)'
  <2>1. p # q
    BY <1>0, <1>4, MqttAssumption DEF DeletePoint, TypeOK, Exists
  <2>2. /\ device' = device /\ value' = value /\ fault' = fault /\ name'[p] = name[p]
        /\ Exists(p) /\ p \notin missed /\ name[p] \in PointNames
    BY <1>0, <1>4, <2>1 DEF DeletePoint, TypeOK, Exists, store
  <2>3. ASSUME NEW k \in Kinds
        PROVE  retained'[Topic(k, p, device, name[p])] = retained[Topic(k, p, device, name[p])]
    <3> DEFINE t == Topic(k, p, device, name[p])
    <3>1. t \in Topics /\ t.point = p
      BY <1>11, <2>2, TopicType
    <3>2. t # Topic(t.kind, q, device, name[q])
      BY <2>1, <3>1 DEF Topic
    <3> QED BY <1>4, <3>1, <3>2 DEF DeletePoint, Clear
  <2> QED BY <1>0, <2>2, <2>3, UnconcernedShown
<1>5. ASSUME NEW d \in DeviceNames, RenameDevice(d)
      PROVE  Shown(p)'
  BY <1>5 DEF RenameDevice, Existing, Exists
<1>6. CASE DeleteDevice
  BY <1>6, MqttAssumption DEF DeleteDevice, Exists
<1>7. CASE Republish
  <2>1. /\ device' = device /\ name' = name /\ value' = value /\ fault' = fault
        /\ Publish(Existing, device', name', value', fault')
    BY <1>7 DEF Republish, store
  <2>2. Existing \in SUBSET Points
    BY DEF Existing
  <2>3. p \in Existing
    BY <2>1 DEF Existing, Exists
  <2> QED BY <1>0, <1>11, <2>1, <2>2, <2>3, PublishedShown
<1>8. ASSUME NEW t \in Topics, OnMessage(t)
      PROVE  Shown(p)'
  <2>1. /\ device' = device /\ name' = name /\ value' = value /\ fault' = fault
        /\ missed' = missed /\ Exists(p) /\ name[p] \in PointNames
    BY <1>8 DEF OnMessage, store, Exists
  <2>2. ASSUME NEW k \in Kinds
        PROVE  retained'[Topic(k, p, device, name[p])] = retained[Topic(k, p, device, name[p])]
    <3> DEFINE u == Topic(k, p, device, name[p])
    <3>1. u \in Topics /\ u.point = p /\ u.device = device /\ u.name = name[p]
      BY <1>11, <2>1, TopicType
    <3>2. ~Unknown(u)
      BY <2>1, <3>1 DEF Unknown, Existing
    <3> HIDE DEF u
    <3>3. retained'[u] = retained[u]
      BY <1>0, <1>8, <3>1, <3>2 DEF OnMessage, TypeOK
    <3> QED BY <3>3 DEF u
  <2> QED BY <1>0, <2>1, <2>2, UnconcernedShown
<1>9. CASE UNCHANGED <<device, name, store, retained, missed>>
  <2>1. /\ device' = device /\ name' = name /\ value' = value /\ fault' = fault
        /\ retained' = retained /\ missed' = missed
    BY <1>9 DEF store
  <2>2. Exists(p)
    BY <2>1 DEF Exists
  <2> QED BY <1>0, <2>1, <2>2, UnconcernedShown
<1> QED BY <1>1, <1>2, <1>3, <1>4, <1>5, <1>6, <1>7, <1>8, <1>9
   DEF Next, RestRequest, Connect, Disconnect, Restart, Resubscribe, vars

LEMMA ShownInit == Init => ShownInv
BY TypeInit, MqttAssumption DEF Init, ShownInv, DeviceInv, PublishedIsShown, Existing, Exists

\* What the broker keeps for a point that had no message dropped and no name
\* changed since its last publication is its value or fault: the listener, who
\* acts on messages of any age, clears none of these (mqtt_listener.py:108-114).
THEOREM PublishedStays == Spec => []PublishedIsShown
<1>1. ShownInv => PublishedIsShown
  BY DEF ShownInv
<1> QED BY ShownInit, ShownNext, <1>1, PTL DEF Spec
=============================================================================
