-------------------------------- MODULE Mqtt --------------------------------
(***************************************************************************)
(* The values of points as retained messages at an MQTT broker: what the   *)
(* driver publishes (mqtt_client.py), what it clears when a point is       *)
(* deleted, and the listener that now and then subscribes again to its own *)
(* topics and clears those of points that are no more (mqtt_listener.py).  *)
(*                                                                         *)
(* A topic is made of the point's uuid and the names at publication.       *)
(* Network and device are one level here: both only contribute a name and  *)
(* cascade when deleted. SQLite and the client's queue never make a        *)
(* greenlet wait, so a request or a message is handled in one step.        *)
(***************************************************************************)
EXTENDS Naturals

CONSTANTS
  Points,        \* uuids of points
  PointNames, DeviceNames,
  Readings,      \* values other than null
  Null, Fault,   \* the value of a new point; the payload of a fault
  New, Deleted,  \* names of points that do not exist (yet, any more)
  NoMessage,
  MaxChanges     \* bound: changes of rows, values and connection in all

Values == Readings \cup {Null}
Kinds == {"all", "value"}
Topics == [kind : Kinds, point : Points, device : DeviceNames, name : PointNames]

ASSUME MqttAssumption ==
  /\ Deleted \notin DeviceNames
  /\ {New, Deleted} \cap PointNames = {}
  /\ Null \notin Readings
  /\ Fault \notin Values /\ {NoMessage, Deleted} \cap (Values \cup {Fault}) = {}
  /\ MaxChanges \in Nat

VARIABLES
  device,      \* name of the device and its network, or Deleted
  name,        \* name[p]: name of the point, New or Deleted
  value,       \* value[p], fault[p]: the point's store
  fault,
  connected,   \* MqttClient().status()
  retained,    \* retained[t]: the message the broker keeps for t
  inbox,       \* topics whose retained messages are on the way to the listener
  republished, \* has MqttRepublish done its work since the start?
  missed,      \* points that had a message dropped or their topic renamed since
               \* they were last published (a record of the past)
  changes      \* counter for the bound

store == <<value, fault>>
vars == <<device, name, store, connected, retained, inbox, republished, missed, changes>>

TypeOK ==
  /\ device \in DeviceNames \cup {Deleted}
  /\ name \in [Points -> PointNames \cup {New, Deleted}]
  /\ value \in [Points -> Values]
  /\ fault \in [Points -> BOOLEAN]
  /\ connected \in BOOLEAN /\ republished \in BOOLEAN
  /\ retained \in [Topics -> Values \cup {Fault, NoMessage}]
  /\ inbox \in SUBSET Topics
  /\ missed \in SUBSET Points
  /\ changes \in 0..MaxChanges

-----------------------------------------------------------------------------
Exists(p) == name[p] \in PointNames
Existing == {p \in Points : Exists(p)}

Topic(k, p, d, n) == [kind |-> k, point |-> p, device |-> d, name |-> n]

\* The payload for topic t of a store with value v and fault f. The value
\* topic gets none when there is a fault.
Payload(t, v, f, old) ==
  IF ~f THEN v ELSE IF t.kind = "all" THEN Fault ELSE old

\* publish_point_cov for a set P of points: without a connection the messages
\* are dropped.
Publish(P, d, names, v, f) ==
  IF connected
  THEN /\ retained' = [t \in Topics |->
              IF t.point \in P /\ t.device = d /\ t.name = names[t.point]
              THEN Payload(t, v[t.point], f[t.point], retained[t]) ELSE retained[t]]
       /\ missed' = missed \ P
  ELSE /\ retained' = retained
       /\ missed' = missed \cup P

\* publish_point_cov with clear_value: the value topic of a faulty point stays.
Clear(p) ==
  [t \in Topics |->
     IF /\ connected
        /\ t = Topic(t.kind, p, device, name[p])
        /\ t.kind = "all" \/ ~fault[p]
     THEN NoMessage ELSE retained[t]]

Kept == {t \in Topics : retained[t] # NoMessage}

Unused(p, n) == \A q \in Points \ {p} : name[q] # n

Unknown_ofPoint(t) == ~Exists(t.point)

Unknown_anyName(t) ==
  ~Exists(t.point) \/ t.device # device \/ \E p \in Existing : name[p] # t.name

\* No such point, or no point with these names.
Unknown(t) ==
  ~Exists(t.point) \/ t.device # device \/ \A p \in Existing : name[p] # t.name

-----------------------------------------------------------------------------
Init ==
  /\ device \in DeviceNames
  /\ name = [p \in Points |-> New]
  /\ value = [p \in Points |-> Null]
  /\ fault = [p \in Points |-> FALSE]
  /\ connected = FALSE
  /\ retained = [t \in Topics |-> NoMessage]
  /\ inbox = {}
  /\ republished = FALSE
  /\ missed = {}
  /\ changes = 0

Change == changes < MaxChanges /\ changes' = changes + 1

AddPoint(p, n) ==
  /\ Change
  /\ name[p] = New /\ device # Deleted /\ Unused(p, n)
  /\ name' = [name EXCEPT ![p] = n]
  /\ Publish({p}, device, name', value, fault)
  /\ UNCHANGED <<device, store, connected, inbox, republished>>

\* PATCH or PUT: a new name, or a scale that changes the value. The value is
\* published when the store's update tells that it changed: not when there is a
\* fault, always when it is null.
EditPoint(p, n, v) ==
  /\ Change
  /\ Exists(p) /\ Unused(p, n) /\ <<n, v>> # <<name[p], value[p]>>
  /\ (fault[p] \/ value[p] = Null) => v = value[p]
  /\ v # Null \/ value[p] = Null
  /\ name' = [name EXCEPT ![p] = n]
  /\ value' = [value EXCEPT ![p] = v]
  /\ IF ~fault[p] /\ (v # value[p] \/ v = Null)
     THEN Publish({p}, device, name', value', fault)
     ELSE /\ retained' = retained
          /\ missed' = missed \cup {p}
  /\ UNCHANGED <<device, fault, connected, inbox, republished>>

\* A poll changes the store to value v or to a fault.
Poll(p, v, f) ==
  /\ Change
  /\ Exists(p) /\ <<v, f>> # <<value[p], fault[p]>>
  /\ f => v = value[p]
  /\ v # Null \/ f
  /\ value' = [value EXCEPT ![p] = v]
  /\ fault' = [fault EXCEPT ![p] = f]
  /\ Publish({p}, device, name, value', fault')
  /\ UNCHANGED <<device, name, connected, inbox, republished>>

DeletePoint(p) ==
  /\ Change
  /\ Exists(p)
  /\ retained' = Clear(p)
  /\ name' = [name EXCEPT ![p] = Deleted]
  /\ missed' = missed \ {p}
  /\ UNCHANGED <<device, store, connected, inbox, republished>>

\* Nothing is published or cleared when a device or network changes.
RenameDevice(d) ==
  /\ Change
  /\ device # Deleted /\ d # device
  /\ device' = d
  /\ missed' = Existing
  /\ UNCHANGED <<name, store, connected, retained, inbox, republished>>

DeleteDevice ==
  /\ Change
  /\ device # Deleted
  /\ device' = Deleted
  /\ name' = [p \in Points |-> IF Exists(p) THEN Deleted ELSE name[p]]
  /\ missed' = {}
  /\ UNCHANGED <<store, connected, retained, inbox, republished>>

-----------------------------------------------------------------------------
\* The subscription is made again whenever the client connects.
Connect ==
  /\ ~connected
  /\ connected' = TRUE
  /\ inbox' = Kept
  /\ UNCHANGED <<device, name, store, retained, republished, missed, changes>>

Disconnect ==
  /\ Change
  /\ connected
  /\ connected' = FALSE
  /\ inbox' = {}
  /\ UNCHANGED <<device, name, store, retained, republished, missed>>

Restart ==
  /\ Change
  /\ connected' = FALSE
  /\ inbox' = {}
  /\ republished' = FALSE
  /\ UNCHANGED <<device, name, store, retained, missed>>

\* Once connected after a start, all points are published.
Republish ==
  /\ connected /\ ~republished
  /\ republished' = TRUE
  /\ Publish(Existing, device, name, value, fault)
  /\ UNCHANGED <<device, name, store, connected, inbox, changes>>

\* retain_clear_interval is over: the broker sends all retained messages again.
Resubscribe ==
  /\ connected
  /\ inbox' = inbox \cup Kept
  /\ UNCHANGED <<device, name, store, connected, retained, republished, missed, changes>>

\* The listener handles a retained message.
OnMessage(t) ==
  /\ t \in inbox
  /\ inbox' = inbox \ {t}
  /\ retained' = IF Unknown(t) THEN [retained EXCEPT ![t] = NoMessage] ELSE retained
  /\ UNCHANGED <<device, name, store, connected, republished, missed, changes>>

-----------------------------------------------------------------------------
RestRequest ==
  \/ \E p \in Points :
       \/ \E n \in PointNames : AddPoint(p, n)
       \/ \E n \in PointNames, v \in Values : EditPoint(p, n, v)
       \/ DeletePoint(p)
  \/ \E d \in DeviceNames : RenameDevice(d)
  \/ DeleteDevice

Next ==
  \/ RestRequest
  \/ \E p \in Points, v \in Values, f \in BOOLEAN : Poll(p, v, f)
  \/ Connect
  \/ Disconnect
  \/ Restart
  \/ Republish
  \/ Resubscribe
  \/ \E t \in Topics : OnMessage(t)

Spec == Init /\ [][Next]_vars

\* The timer of the subscription, and the delivery of each message.
FairSpec ==
  /\ Spec
  /\ WF_vars(Resubscribe)
  /\ \A t \in Topics : WF_vars(OnMessage(t))

-----------------------------------------------------------------------------
\* The broker shows the value or the fault of every point that had no message
\* dropped and no name changed since it was published: no message that the
\* listener clears, however late, is one of these (mqtt_listener.py:108-114).
PublishedIsShown ==
  \A p \in Existing \ missed, k \in Kinds :
    LET t == Topic(k, p, device, name[p])
    IN  retained[t] = Payload(t, value[p], fault[p], retained[t])

\* As long as the client is connected, messages of deleted points, and those
\* with names that no point has, are cleared in the end: those whose deletion
\* was not published because of a fault or without a connection too
\* (mqtt_listener.py:57-67).
UnknownCleared ==
  \A t \in Topics :
    LET named == \E p \in Existing : t.device = device /\ t.name = name[p]
    IN  <>[]connected => []<>((Exists(t.point) /\ named) \/ retained[t] = NoMessage)

\* So are all messages under names that a point had before. The code only
\* clears those whose names no other point has taken.
OldNamesCleared ==
  \A t \in Topics :
    LET current == /\ Exists(t.point) /\ t.device = device /\ t.name = name[t.point]
    IN  <>[]connected => []<>(current \/ retained[t] = NoMessage)
=============================================================================
