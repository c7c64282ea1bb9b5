------------------------------ MODULE Mapping ------------------------------
(***************************************************************************)
(* Mappings of Modbus points to points of another service (generic or      *)
(* BACnet points): the requests that carry new values over, one greenlet   *)
(* each (model_point_store.py), and the request that examines all mappings *)
(* anew (update_mapping_state in mapping.py, model_mapping.py).            *)
(*                                                                         *)
(* A mapping stands for its Modbus point too, which has no other, is read  *)
(* (one that is written sends its priority array) and takes the mapping    *)
(* along when it is deleted.                                               *)
(***************************************************************************)
EXTENDS Naturals

CONSTANTS
  Mappings,    \* rows of mappings_mp_gbp, in the order of the query
  Uuids,       \* points of the other service
  Names,       \* their names
  Readings, Null,
  Absent, Deleted,
  MaxCalls,    \* bound: equal requests under way
  MaxChanges   \* bound: changes of points, values and rows in all

Values == Readings \cup {Null}
Rows == [uuid : Uuids, name : Names, state : {"MAPPED", "BROKEN"}]

ASSUME MappingAssumption ==
  /\ Mappings \subseteq Nat
  /\ Null \notin Readings
  /\ {Absent, Deleted} \cap Names = {}
  /\ Absent \notin Rows /\ Absent \notin Mappings
  /\ MaxCalls \in Nat \ {0} /\ MaxChanges \in Nat

VARIABLES
  value,     \* value[m], fault[m]: the store of the Modbus point
  fault,
  row,       \* row[m]: uuid and name of the mapped point, mapping_state
  remote,    \* remote[u]: name of the other service's point, if there is one
  shown,     \* shown[u]: the value it was sent last
  up,        \* does the other service answer?
  calls,     \* calls[<<u, v>>]: number of requests under way that carry v to u
  updater,   \* update_mapping_state: the mapping at hand, the answer it waits
             \* for, the mappings that follow
  disturbed, \* mappings with a request that failed or met another one since
             \* the last that did not (a record of the past)
  changes    \* counter for the bound

store == <<value, fault>>
vars == <<store, row, remote, shown, up, calls, updater, disturbed, changes>>

TypeOK ==
  /\ value \in [Mappings -> Values]
  /\ fault \in [Mappings -> BOOLEAN]
  /\ row \in [Mappings -> Rows \cup {Absent}]
  /\ remote \in [Uuids -> Names \cup {Absent, Deleted}]
  /\ shown \in [Uuids -> Values]
  /\ up \in BOOLEAN
  /\ calls \in [Uuids \X Values -> 0..MaxCalls]
  /\ updater \in [at : Mappings \cup {Absent}, waits : {"nothing", "uuid", "name"},
                  todo : SUBSET Mappings]
  /\ disturbed \in SUBSET Mappings
  /\ changes \in 0..MaxChanges

-----------------------------------------------------------------------------
Present(m) == row[m] # Absent
Mapped(m) == Present(m) /\ row[m].state = "MAPPED"
There(u) == remote[u] \in Names
Taken(u, m) == \E o \in Mappings \ {m} : Present(o) /\ row[o].uuid = u
Busy(u) == \E v \in Values : calls[<<u, v>>] > 0

\* The mappings S send the values v to the points of the rows r. That the
\* updater and a new mapping wait for the answer is left out.
Send(S, r, v) ==
  LET sent == {<<r[m].uuid, v[m]>> : m \in S}
  IN  /\ \A x \in sent : calls[x] < MaxCalls
      /\ calls' = [x \in DOMAIN calls |-> IF x \in sent THEN calls[x] + 1 ELSE calls[x]]
      /\ disturbed' = {m \in disturbed \cup S : m \in S => Busy(r[m].uuid)}

Idle == [at |-> Absent, waits |-> "nothing", todo |-> {}]

\* The loop goes on with the next mapping of rest. A row that was deleted since
\* raises an error that ends it.
Turn(rest) ==
  LET m == CHOOSE x \in rest : \A y \in rest : x <= y
  IN  IF rest = {} \/ ~Present(m) THEN Idle
      ELSE [at |-> m, waits |-> "uuid", todo |-> rest \ {m}]

-----------------------------------------------------------------------------
Init ==
  /\ value = [m \in Mappings |-> Null]
  /\ fault = [m \in Mappings |-> FALSE]
  /\ row = [m \in Mappings |-> Absent]
  /\ remote \in [Uuids -> Names \cup {Absent}]
  /\ \A u, w \in Uuids : remote[u] = remote[w] => u = w \/ remote[u] = Absent
  /\ shown = [u \in Uuids |-> Null]
  /\ up = TRUE
  /\ calls = [x \in Uuids \X Values |-> 0]
  /\ updater = Idle
  /\ disturbed = {}
  /\ changes = 0

Change == changes < MaxChanges /\ changes' = changes + 1

\* A poll changes the store. What is sent is the new store's value, and that of
\* a fault is null.
PointUpdated(m, v, f) ==
  /\ Change
  /\ <<v, f>> # <<value[m], fault[m]>>
  /\ IF f THEN v = value[m] ELSE v # Null
  /\ value' = [value EXCEPT ![m] = v]
  /\ fault' = [fault EXCEPT ![m] = f]
  /\ IF Mapped(m)
     THEN Send({m}, row, [value' EXCEPT ![m] = IF f THEN Null ELSE v])
     ELSE UNCHANGED <<calls, disturbed>>
  /\ UNCHANGED <<row, remote, shown, up, updater>>

\* A request reaches the other service or fails, in any order.
Answered(u, v) ==
  /\ calls[<<u, v>>] > 0
  /\ calls' = [calls EXCEPT ![<<u, v>>] = @ - 1]
  /\ IF up /\ There(u)
     THEN /\ shown' = [shown EXCEPT ![u] = v]
          /\ disturbed' = disturbed
     ELSE /\ shown' = shown
          /\ disturbed' = disturbed \cup {m \in Mappings : Present(m) /\ row[m].uuid = u}
  /\ UNCHANGED <<store, row, remote, up, updater, changes>>

\* sync_on_start, after a restart or when asked for.
SyncAll ==
  /\ Change
  /\ Send({m \in Mappings : Mapped(m)}, row, value)
  /\ UNCHANGED <<store, row, remote, shown, up, updater>>

CreateMapping(m, u) ==
  /\ Change
  /\ ~Present(m)
  /\ up /\ There(u) /\ ~Taken(u, m)
  /\ row' = [row EXCEPT ![m] = [uuid |-> u, name |-> remote[u], state |-> "MAPPED"]]
  /\ Send({m}, row', value)
  /\ UNCHANGED <<store, remote, shown, up, updater>>

DeleteMapping(m) ==
  /\ Change
  /\ Present(m)
  /\ row' = [row EXCEPT ![m] = Absent]
  /\ disturbed' = disturbed \ {m}
  /\ UNCHANGED <<store, remote, shown, up, calls, updater>>

-----------------------------------------------------------------------------
(* update_mapping_state.                                                   *)

UpdateRequest ==
  /\ updater.waits = "nothing"
  /\ updater' = Turn({m \in Mappings : Present(m)})
  /\ UNCHANGED <<store, row, remote, shown, up, calls, disturbed, changes>>

\* The mapping at hand was deleted while the updater waited.
Lost ==
  /\ updater.waits # "nothing" /\ ~Present(updater.at)
  /\ updater' = Idle
  /\ UNCHANGED <<store, row, remote, shown, up, calls, disturbed, changes>>

Waits(w) == updater.waits = w /\ Present(updater.at)
At == row[updater.at]

\* The mapping at hand is as in r, is committed and sends its value.
Settled(r) ==
  /\ row' = [row EXCEPT ![updater.at] = r]
  /\ updater' = Turn(updater.todo)
  /\ Send({updater.at}, row', value)

Found_keepsState ==
  /\ Waits("uuid") /\ up /\ There(At.uuid)
  /\ Settled([At EXCEPT !.name = remote[At.uuid]])
  /\ UNCHANGED <<store, remote, shown, up, changes>>

\* check_self finds the mapped point and its name.
Found ==
  /\ Waits("uuid") /\ up /\ There(At.uuid)
  /\ Settled([At EXCEPT !.name = remote[At.uuid], !.state = "MAPPED"])
  /\ UNCHANGED <<store, remote, shown, up, changes>>

\* It does not: set_uuid_with_name asks for the name.
NotFound ==
  /\ Waits("uuid") /\ ~(up /\ There(At.uuid))
  /\ updater' = [updater EXCEPT !.waits = "name"]
  /\ UNCHANGED <<store, row, remote, shown, up, calls, disturbed, changes>>

FoundByName_unsent(u) ==
  /\ Waits("name") /\ up /\ remote[u] = At.name
  /\ IF Taken(u, updater.at)
     THEN updater' = Idle /\ UNCHANGED row
     ELSE /\ row' = [row EXCEPT ![updater.at] = [At EXCEPT !.uuid = u, !.state = "MAPPED"]]
          /\ updater' = Turn(updater.todo)
  /\ UNCHANGED <<store, remote, shown, up, calls, disturbed, changes>>

\* Another point has the name. mapped_point_uuid is unique: when that point is
\* taken by another mapping, the commit fails and with it the whole request.
FoundByName(u) ==
  /\ Waits("name") /\ up /\ remote[u] = At.name
  /\ IF Taken(u, updater.at)
     THEN updater' = Idle /\ UNCHANGED <<row, calls, disturbed>>
     ELSE Settled([At EXCEPT !.uuid = u, !.state = "MAPPED"])
  /\ UNCHANGED <<store, remote, shown, up, changes>>

NotFoundByName_endsRequest ==
  /\ Waits("name") /\ (up => \A u \in Uuids : remote[u] # At.name)
  /\ updater' = Idle
  /\ UNCHANGED <<store, row, remote, shown, up, calls, disturbed, changes>>

\* Nor has any point the name: the mapping is broken and sends nothing.
NotFoundByName ==
  /\ Waits("name") /\ (up => \A u \in Uuids : remote[u] # At.name)
  /\ row' = [row EXCEPT ![updater.at].state = "BROKEN"]
  /\ updater' = Turn(updater.todo)
  /\ UNCHANGED <<store, remote, shown, up, calls, disturbed, changes>>

-----------------------------------------------------------------------------
(* The other service.                                                      *)

\* A point is added, renamed or deleted there; a uuid is never used again.
SetRemote(u, n) ==
  /\ Change
  /\ remote[u] # Deleted /\ n # remote[u]
  /\ remote[u] = Absent => n # Deleted
  /\ n = Deleted \/ \A w \in Uuids : remote[w] # n
  /\ remote' = [remote EXCEPT ![u] = n]
  /\ UNCHANGED <<store, row, shown, up, calls, updater, disturbed>>

UpOrDown ==
  /\ Change
  /\ up' = ~up
  /\ UNCHANGED <<store, row, remote, shown, calls, updater, disturbed>>

-----------------------------------------------------------------------------
UpdaterStep ==
  \/ Lost
  \/ Found
  \/ NotFound
  \/ \E u \in Uuids : FoundByName(u)
  \/ NotFoundByName

Next ==
  \/ \E m \in Mappings :
       \/ \E v \in Values, f \in BOOLEAN : PointUpdated(m, v, f)
       \/ \E u \in Uuids : CreateMapping(m, u)
       \/ DeleteMapping(m)
  \/ SyncAll
  \/ UpdateRequest
  \/ UpdaterStep
  \/ \E u \in Uuids, v \in Values : Answered(u, v)
  \/ \E u \in Uuids, n \in Names \cup {Deleted} : SetRemote(u, n)
  \/ UpOrDown

Spec == Init /\ [][Next]_vars

\* Every request is answered or fails.
FairSpec ==
  /\ Spec
  /\ WF_vars(UpdaterStep)
  /\ \A u \in Uuids, v \in Values : WF_vars(Answered(u, v))

-----------------------------------------------------------------------------
\* A mapped point has the value of its Modbus point whenever nothing is under
\* way to it, unless the last request for it failed or overlapped with another
\* one, or the Modbus point has a fault: also right after a mapping was
\* repaired (model_point_store.py:134-141, mapping.py:86-87).
NewestShown ==
  \A m \in Mappings \ disturbed :
    Mapped(m) /\ ~Busy(row[m].uuid) /\ ~fault[m] => shown[row[m].uuid] = value[m]

\* The point that m would be mapped to by its name.
Namesake(m, u) == ~There(row[m].uuid) /\ remote[u] = row[m].name

\* A mapping whose name leads to the point of another one makes the update
\* fail, for all mappings after it too.
Conflict(m) == Present(m) /\ \E u \in Uuids : Namesake(m, u) /\ Taken(u, m)

Unobstructed(m) == \A e \in Mappings : e <= m => ~Conflict(e)
Resolvable(m) == There(row[m].uuid) \/ \E u \in Uuids : Namesake(m, u)
Updated == []<>(updater.waits # "nothing")

\* Updates repair every mapping whose point is there under its uuid or name,
\* whatever becomes of the mappings before it, unless one has a conflict
\* (mapping.py:76-87).
RepairedByUpdates ==
  \A m \in Mappings :
    <>[](Present(m) /\ up /\ Unobstructed(m) /\ Resolvable(m)) /\ Updated => <>[]Mapped(m)

\* And they mark every mapping whose point is gone.
MarkedByUpdates ==
  \A m \in Mappings :
    <>[](Present(m) /\ up /\ Unobstructed(m) /\ ~Resolvable(m)) /\ Updated => <>[]~Mapped(m)
=============================================================================
