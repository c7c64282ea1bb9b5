------------------------------ MODULE PointRow ------------------------------
(***************************************************************************)
(* The row of a point and its store: creation and edits over REST with     *)
(* what PointModel.check_self makes of them, polls of the point alone or   *)
(* in a group with others, and restarts between the commits of an edit. A  *)
(* poll reads the row before its request and decodes and scales the answer *)
(* by what it read; edits may come in between.                             *)
(*                                                                         *)
(* What registers are asked for and what their contents mean depends on    *)
(* function_code, register_length and data_type, which edits change one    *)
(* by one; the ranges scale what was read. Commands and the priority array *)
(* are the subject of PointWrite; here the array exists or does not.       *)
(***************************************************************************)
EXTENDS Registers

CONSTANTS
  MaxLength,   \* largest register_length: 65535
  Rows,        \* rows that are created
  Edits,       \* edits: the attributes of a PATCH or PUT, as records
  CovThreshold, \* cov_threshold, in halves
  Commands,    \* values that are written, in halves
  Memories,    \* contents of the registers from the first of a group on
  Places,      \* registers of a group before those of the point
  Pollers,     \* the greenlet of the network and manual polls
  Overtaking,  \* bound: edits that come while a request is under way
  MaxCrashes,  \* bound: restarts
  None         \* null

ReadCoils == {"READ_COILS", "READ_DISCRETE_INPUTS"}
ReadRegisters == {"READ_HOLDING_REGISTERS", "READ_INPUT_REGISTERS"}
WriteCoils == {"WRITE_COIL", "WRITE_COILS"}
WriteRegisters == {"WRITE_REGISTER", "WRITE_REGISTERS"}
FunctionCodes == ReadCoils \cup ReadRegisters \cup WriteCoils \cup WriteRegisters

Bound == Int \cup {None}
Row == [function_code : FunctionCodes, data_type : DataTypes, register_length : 0..MaxLength,
        writable : BOOLEAN, data_endian : Endians,
        input_min : Bound, input_max : Bound, scale_min : Bound, scale_max : Bound]

\* What an attribute of an edit may be.
Allowed(a) == CASE a = "function_code" -> FunctionCodes
                [] a = "data_type" -> DataTypes
                [] a = "register_length" -> 0..MaxLength
                [] a = "writable" -> BOOLEAN
                [] a = "data_endian" -> Endians
                [] OTHER -> Bound

Rising(lower, upper) == None \notin {lower, upper} => lower <= upper

ASSUME RowAssumption ==
  /\ MaxLength \in Nat /\ MaxLength >= 2
  /\ \A r \in Rows : /\ r \in Row
                     /\ Rising(r.input_min, r.input_max)
                     /\ Rising(r.scale_min, r.scale_max)
  /\ \A e \in Edits : \A a \in DOMAIN e : e[a] \in Allowed(a)
  /\ Overtaking \subseteq Edits
  /\ CovThreshold \in Nat
  /\ Commands \subseteq Int
  /\ \A c \in Commands :
       /\ FloatBits(c) \in 0..Word * Word - 1
       /\ DoubleWords(c) \in Seq(Words) /\ Len(DoubleWords(c)) = 4
  /\ Places \subseteq Nat /\ 0 \in Places
  /\ \A m \in Memories, k \in Places :
       m \in Seq(Words) /\ Len(m) >= k + MaxLength /\ Len(m) >= k + 4
  /\ MaxCrashes \in Nat
  /\ None \notin Int

VARIABLES
  row,
  priority_array_write,  \* whether the point has a priority array
  point_store,           \* value, value_original, fault
  loaded,                \* loaded[p]: the row in the session of poll p, None
                         \* when no request of p is under way
  crashes                \* counter for the bound

vars == <<row, priority_array_write, point_store, loaded, crashes>>

Store == [value : Int \cup {None}, value_original : Int \cup {None}, fault : BOOLEAN]

TypeOK ==
  /\ row \in Row
  /\ priority_array_write \in BOOLEAN
  /\ point_store \in Store
  /\ loaded \in [Pollers -> Row \cup {None}]
  /\ crashes \in 0..MaxCrashes

-----------------------------------------------------------------------------
(* The row.                                                                *)

IsWritable(r) == r.function_code \in WriteCoils \cup WriteRegisters

Adjusted_oscillates(r) ==
  CASE r.function_code = "WRITE_COIL" /\ r.register_length >= 1 -> "WRITE_COILS"
    [] r.function_code = "WRITE_COILS" /\ r.register_length = 1 -> "WRITE_COIL"
    [] OTHER -> r.function_code

\* One coil or register, or several of them.
Adjusted(r) ==
  CASE r.function_code = "WRITE_COIL" /\ r.register_length > 1 -> "WRITE_COILS"
    [] r.function_code = "WRITE_COILS" /\ r.register_length = 1 -> "WRITE_COIL"
    [] r.function_code = "WRITE_REGISTER" /\ r.register_length > 1 -> "WRITE_REGISTERS"
    [] r.function_code = "WRITE_REGISTERS" /\ r.register_length = 1 -> "WRITE_REGISTER"
    [] OTHER -> r.function_code

\* The first part of check_self, up to the deletion of the array.
Marked(r) == [r EXCEPT !.writable = IsWritable(r),
                       !.function_code = Adjusted(r)]

CheckSelf_keepsLength(r) ==
  LET digital == r.function_code \in ReadCoils \cup {"WRITE_COIL"}
  IN  [Marked(r) EXCEPT !.data_type = IF digital THEN "DIGITAL" ELSE r.data_type,
                        !.register_length = IF digital THEN 1 ELSE r.register_length]

\* PointModel.check_self. The function code it judges the type and the length
\* by is the one before the adjustment.
CheckSelf(r) ==
  LET digital == r.function_code \in ReadCoils \cup {"WRITE_COIL"}
      type == IF digital THEN "DIGITAL" ELSE r.data_type
      length == CASE digital -> 1
                  [] type \in {"FLOAT", "INT32", "UINT32"} -> 2
                  [] OTHER -> r.register_length
  IN  [Marked(r) EXCEPT !.data_type = type, !.register_length = length]

Edited(r, e) == [a \in DOMAIN r |-> IF a \in DOMAIN e THEN e[a] ELSE r[a]]

Valid_ofEdit(r, e) ==
  LET new == Edited(r, e)
  IN  /\ "input_min" \in DOMAIN e /\ "input_max" \in DOMAIN e =>
           Rising(new.input_min, new.input_max)
      /\ "scale_min" \in DOMAIN e /\ "scale_max" \in DOMAIN e =>
           Rising(new.scale_min, new.scale_max)

\* The attributes are set one after the other, each minimum before its
\* maximum, and validated as they are set: a new minimum must not exceed the
\* old maximum, even if the same edit raises it.
Valid(r, e) ==
  LET new == Edited(r, e)
  IN  /\ "input_min" \in DOMAIN e => Rising(e.input_min, r.input_max)
      /\ "input_max" \in DOMAIN e => Rising(new.input_min, e.input_max)
      /\ "scale_min" \in DOMAIN e => Rising(e.scale_min, r.scale_max)
      /\ "scale_max" \in DOMAIN e => Rising(new.scale_min, e.scale_max)

-----------------------------------------------------------------------------
(* The store.                                                              *)

Smaller(x, y) == IF x < y THEN x ELSE y
Larger(x, y) == IF x < y THEN y ELSE x

\* apply_scale.
Scaled(r, v) ==
  LET scaled == ((v - r.input_min) * (r.scale_max - r.scale_min))
                  \div (r.input_max - r.input_min) + r.scale_min
      low == Smaller(r.scale_min, r.scale_max)
      high == Larger(r.scale_min, r.scale_max)
  IN  IF None \in {r.input_min, r.input_max, r.scale_min, r.scale_max} THEN v
      ELSE IF r.input_min = r.input_max \/ r.scale_min = r.scale_max THEN v
      ELSE Smaller(Larger(scaled, low), high)

Fresh(r, v) == [value |-> Scaled(r, v), value_original |-> v, fault |-> FALSE]

Answered_keepsValue(r, v) ==
  IF point_store.value_original = v
  THEN [point_store EXCEPT !.fault = FALSE]
  ELSE Fresh(r, v)

\* update_point_value of an answer, by the ranges of r: nothing is stored that
\* differs by less than the threshold, or not at all, from what is shown.
Answered(r, v) ==
  IF /\ ~point_store.fault /\ point_store.value # None
     /\ \/ point_store.value = Scaled(r, v)
        \/ Larger(point_store.value - Scaled(r, v), Scaled(r, v) - point_store.value)
             < CovThreshold
  THEN point_store
  ELSE Fresh(r, v)

\* PointModel.update scales value_original anew, unless a fault is on record.
Rescaled(r) ==
  IF point_store.fault THEN point_store
  ELSE [point_store EXCEPT !.value =
          IF @ = None THEN None ELSE Scaled(r, point_store.value_original)]

-----------------------------------------------------------------------------
(* Reading: what a memory of registers, or of coils, gives for the point   *)
(* when k others come before it in the group.                              *)

Bit(w) == IF w = 0 THEN 0 ELSE 1

\* The data of a response; coils come as bits.
Data(r, m) ==
  IF r.function_code \in ReadCoils THEN [i \in 1..Len(m) |-> Bit(m[i])] ELSE m

HasValue(r) == r.function_code \in ReadCoils \/ r.data_type # "DIGITAL"

\* The point by itself: read_digital, read_analogue.
AloneValue(r, m, k) ==
  LET data == SubSeq(Data(r, m), k + 1, k + DataLength(r.data_type, r.register_length))
  IN  IF r.function_code \in ReadCoils \/ r.data_type = "RAW" THEN 2 * data[1]
      ELSE Convert(r.data_type, r.data_endian, data)

GroupSlice_fromStart(r, data, k) == SubSeq(data, 1, r.register_length)

\* A RAW or DIGITAL value is one element, also of a point of length 0.
GroupSlice(r, data, k) ==
  LET length == IF r.data_type \in {"RAW", "DIGITAL"} THEN 1 ELSE r.register_length
  IN  SubSeq(data, k + 1, k + length)

Converts(r, slice) ==
  Len(slice) >= IF r.data_type \in {"RAW", "DIGITAL"} THEN 1 ELSE Taken(r.data_type)

\* The point in a group: poll_point_aggregate.
GroupValue(r, slice) ==
  IF r.data_type \in {"RAW", "DIGITAL"} THEN 2 * slice[1]
  ELSE Convert(r.data_type, r.data_endian, slice)

-----------------------------------------------------------------------------
(* Writing a command c, in halves.                                         *)

\* The point by itself: no error on the way to the device. A RAW value stays a
\* float, which the client refuses; WRITE_REGISTER takes a register as it is.
WritesAlone(r, c) ==
  CASE r.function_code = "WRITE_REGISTER" -> Cut(c) \in Words
    [] r.function_code = "WRITE_REGISTERS" ->
         r.data_type \notin {"RAW", "DIGITAL"} /\ Packs(r.data_type, Cut(c))
    [] OTHER -> TRUE

WrittenAlone(r, c) ==
  IF r.function_code = "WRITE_REGISTER" THEN <<Cut(c)>>
  ELSE Build(r.data_type, r.data_endian, c)

\* The point in a group: pack_point_write_registers.
WritesInGroup(r, c) == Packs(r.data_type, Cut(c))
WrittenInGroup(r, c) == Build(r.data_type, r.data_endian, c)

\* What a write by itself answers: the state of a coil, what was written to
\* several, or the command as it is.
AnswerAlone(r, c) ==
  CASE r.function_code = "WRITE_COIL" -> 2 * Bit(Cut(c))
    [] r.function_code = "WRITE_COILS" -> 2 * Cut(c)
    [] OTHER -> c

-----------------------------------------------------------------------------
(* Operations.                                                             *)

\* POST: the array is created with a writable point. The first row is valid.
Init ==
  /\ row \in {CheckSelf(r) : r \in Rows}
  /\ priority_array_write = row.writable
  /\ point_store = [value |-> None, value_original |-> None, fault |-> FALSE]
  /\ loaded = [p \in Pollers |-> None]
  /\ crashes = 0

Patch_keepsArray(e) ==
  /\ Valid(row, e)
  /\ row' = CheckSelf(Edited(row, e))
  /\ priority_array_write' = (priority_array_write \/ row'.writable)
  /\ point_store' = Rescaled(row')
  /\ UNCHANGED <<loaded, crashes>>

\* PUT or PATCH. check_self creates an array that is missing, with the fallback
\* value, and deletes one that is not needed. An edit that is refused (an invalid
\* attribute, a register that another point has) leaves all of this alone.
Patch(e) ==
  /\ Valid(row, e)
  /\ row' = CheckSelf(Edited(row, e))
  /\ priority_array_write' = row'.writable
  /\ point_store' = Rescaled(row')
  /\ UNCHANGED <<loaded, crashes>>

Restart ==
  /\ crashes < MaxCrashes
  /\ crashes' = crashes + 1
  /\ loaded' = [p \in Pollers |-> None]

\* The process ends between the commit of the row and that of the store.
PatchCut(e) ==
  /\ Restart
  /\ Valid(row, e)
  /\ row' = CheckSelf(Edited(row, e))
  /\ priority_array_write' = row'.writable
  /\ UNCHANGED point_store

\* The deletion of the array commits the session, and with it a row whose type
\* and length check_self has not adjusted yet; the process ends right then.
PatchCutInCheck(e) ==
  /\ Restart
  /\ Valid(row, e)
  /\ priority_array_write
  /\ ~IsWritable(Edited(row, e))
  /\ row' = Marked(Edited(row, e))
  /\ priority_array_write' = FALSE
  /\ UNCHANGED point_store

\* Poll p reads the row for a request that it sends, as a rule at once.
Request(p) ==
  /\ loaded[p] = None
  /\ loaded' = [loaded EXCEPT ![p] = row]
  /\ UNCHANGED <<row, priority_array_write, point_store, crashes>>

\* The request of p is over. The commit of the store expires the row.
Polled(p, store) ==
  /\ point_store' = store
  /\ loaded' = [loaded EXCEPT ![p] = None]
  /\ UNCHANGED <<row, priority_array_write, crashes>>

Faulty == [point_store EXCEPT !.fault = TRUE]

Asked(p, codes) == loaded[p] # None /\ loaded[p].function_code \in codes

\* The rows by which the answer for the point is decoded and scaled when k
\* registers of other points come before. Once one of those is stored, the row
\* is read again.
Decoding(p, k) == {loaded[p]} \cup (IF k = 0 THEN {} ELSE {row})

\* A point by itself; a register of type DIGITAL has no value ("Received not
\* numeric value").
ReadAlone(p, m, k) ==
  LET r == loaded[p]
  IN  /\ Asked(p, ReadCoils \cup ReadRegisters)
      /\ DataLength(r.data_type, r.register_length) > 0
      /\ Polled(p, IF HasValue(r) THEN Answered(r, AloneValue(r, m, k)) ELSE Faulty)

\* The point's part of the answer to a group.
StoresSlice(p, r, slice) ==
  /\ Converts(r, slice)
  /\ Polled(p, Answered(r, GroupValue(r, slice)))

\* A slice that is too short raises an error that ends the round.
ReadInGroup(p, m, k) ==
  /\ Asked(p, ReadCoils \cup ReadRegisters)
  /\ \E r \in Decoding(p, k) : StoresSlice(p, r, GroupSlice(r, Data(loaded[p], m), k))

WriteAlone(p, c) ==
  /\ Asked(p, WriteCoils \cup WriteRegisters)
  /\ WritesAlone(loaded[p], c)
  /\ Polled(p, Answered(loaded[p], AnswerAlone(loaded[p], c)))

\* The answer is what was packed, taken apart by register_length; m are the
\* words of the points before and after.
WriteInGroup(p, c, m, k) ==
  /\ Asked(p, WriteRegisters)
  /\ WritesInGroup(loaded[p], c)
  /\ \E r \in Decoding(p, k) :
       StoresSlice(p, r, GroupSlice(r, SubSeq(m, 1, k) \o WrittenInGroup(loaded[p], c) \o m, k))

\* Of coils, the answer is the commands as they are; one that is no word has
\* no value of another type.
WriteCoilInGroup(p, c, m, k) ==
  /\ Asked(p, WriteCoils)
  /\ \E r \in Decoding(p, k) :
       /\ r.data_type \in {"RAW", "DIGITAL"} \/ Cut(c) \in Words
       /\ StoresSlice(p, r, GroupSlice(r, <<Cut(c)>> \o m, 0))

\* ModbusIOException.
PollFault(p) ==
  /\ loaded[p] # None
  /\ Polled(p, Faulty)

\* The request ends without anything stored: it lost the connection, its answer
\* raised an exception, or the process ended.
PollLost(p) ==
  /\ loaded[p] # None
  /\ Polled(p, point_store)

Poll(p) ==
  \/ Request(p)
  \/ \E m \in Memories, k \in Places : ReadAlone(p, m, k) \/ ReadInGroup(p, m, k)
  \/ \E c \in Commands :
       \/ WriteAlone(p, c)
       \/ \E m \in Memories, k \in Places :
            WriteInGroup(p, c, m, k) \/ WriteCoilInGroup(p, c, m, k)
  \/ PollFault(p)
  \/ PollLost(p)

\* The edits looked at in this state.
Editing == IF \A p \in Pollers : loaded[p] = None THEN Edits ELSE Overtaking

Next ==
  \/ \E e \in Editing : Patch(e) \/ PatchCut(e) \/ PatchCutInCheck(e)
  \/ \E p \in Pollers : Poll(p)

Spec == Init /\ [][Next]_vars

-----------------------------------------------------------------------------
Settled == CheckSelf(row) = row

\* A value that a point accepts over REST is never dropped for want of a
\* priority array, and a point that is only read never keeps one, whatever the
\* order of edits and restarts (model_point.py:177-192, point_value_writer.py:27).
ArrayIffWritable ==
  row.writable = IsWritable(row) /\ priority_array_write = row.writable

\* check_self judges by the function code it is about to adjust, so that an edit
\* may leave a row that the next one changes again; three edits settle it.
EditsSettle ==
  LET r == CheckSelf(CheckSelf(CheckSelf(row))) IN CheckSelf(r) = r

\* A point that is read gets the same value by itself and in a group, at any
\* place of the group, unless a restart cut an edit. Two kinds of rows are left
\* out where it does not: a register_length of 0, and DIGITAL registers, which
\* only have a value in a group (poll.py:57-74, functions.py:29-44).
GroupReadsAlone ==
  /\ crashes = 0
  /\ row.function_code \in ReadCoils \cup ReadRegisters
  /\ row.register_length > 0
  /\ HasValue(row)
  => \A m \in Memories, k \in Places :
       LET slice == GroupSlice(row, Data(row, m), k)
       IN  Converts(row, slice) /\ GroupValue(row, slice) = AloneValue(row, m, k)

\* Types whose width is that of the row.
FullWidth(r) ==
  \/ r.data_type \in {"INT32", "UINT32", "FLOAT"}
  \/ r.data_type \in {"INT16", "UINT16"} /\ r.register_length = 1
BigEndianIfSingle(r) == r.function_code = "WRITE_REGISTER" => r.data_endian.bytes = "big"

\* Once settled, a point of a type with the width of its row writes exactly
\* register_length registers, the same by itself and in a group; but a single
\* register by itself is written without regard to the point's byte order,
\* which a group heeds (functions.py:141-147, function_utils.py:104-111).
GroupWritesAlone ==
  /\ Settled
  /\ row.function_code \in WriteRegisters
  /\ FullWidth(row)
  => \A c \in Commands :
       WritesAlone(row, c) /\ WritesInGroup(row, c) =>
         /\ Len(WrittenAlone(row, c)) = row.register_length
         /\ WrittenInGroup(row, c) =
              IF BigEndianIfSingle(row) THEN WrittenAlone(row, c)
              ELSE <<Swapped(WrittenAlone(row, c)[1])>>

\* The value is one of those that the type can hold.
Holds(type, c) ==
  IF type = "FLOAT" THEN FloatOf(FloatBits(c)) = c ELSE c % 2 = 0 /\ Packs(type, Cut(c))

\* By itself, such a point shows the command that its registers give when they
\* are read again, if its type can hold it; a single register only with
\* big-endian bytes (functions.py:141-153).
WrittenReadsBack ==
  /\ Settled
  /\ row.function_code \in WriteRegisters
  /\ FullWidth(row) /\ BigEndianIfSingle(row)
  => \A c \in Commands :
       WritesAlone(row, c) /\ Holds(row.data_type, c) =>
         AnswerAlone(row, c)
           = Convert(row.data_type, row.data_endian, WrittenAlone(row, c))

\* A store without fault shows value_original as the ranges of the row are.
Shows ==
  ~point_store.fault /\ point_store.value # None =>
    point_store.value = Scaled(row, point_store.value_original)

\* The ranges that a request under way read are no longer those of the row.
Overtaken(p) ==
  /\ loaded[p] # None
  /\ \E a \in {"input_min", "input_max", "scale_min", "scale_max"} : loaded[p][a] # row[a]

\* Only two steps leave a store that does not: a restart that cuts an edit, and
\* the end of a poll whose ranges were edited during its request. What they
\* leave lasts until the next edit at the latest; edits during a fault, answers
\* that the threshold hides and changes of the type leave nothing of the kind
\* (poll.py:109-157, model_point.py:154-166 and 236-242).
StoreShowsRow ==
  [][~Shows' => \/ crashes' # crashes
                \/ \E p \in Pollers : Overtaken(p) /\ loaded'[p] = None
                \/ ~Shows /\ row' = row]_vars

\* No sequence of edits makes a minimum exceed its maximum (model_point.py:87-109).
RangesOrdered ==
  Rising(row.input_min, row.input_max) /\ Rising(row.scale_min, row.scale_max)
=============================================================================
