----------------------------- MODULE MCPointRow -----------------------------
(***************************************************************************)
(* PointRow with bytes of one bit: registers hold 0 to 3, pairs of them 0  *)
(* to 15. Floats of 32 bits are the halves from -4 to 3 1/2.               *)
(***************************************************************************)
EXTENDS PointRow

Float(n) == n - 8
Bits(v) == IF v < -8 THEN 0 ELSE IF v > 7 THEN 15 ELSE v + 8
Half(w) == w
Double(v) == <<1, 2, 3, v % 4>>

BigLittle == [bytes |-> "big", words |-> "little"]

LittleBig == [bytes |-> "little", words |-> "big"]

\* Two rows as they may be created; the edits lead to all others.
First ==
  {[function_code |-> fc, data_type |-> "INT16", register_length |-> 1,
    writable |-> TRUE, data_endian |-> BigLittle,
    input_min |-> 0, input_max |-> 4, scale_min |-> 0, scale_max |-> 8] :
     fc \in {"READ_HOLDING_REGISTERS", "WRITE_REGISTER"}}

\* Edits of one attribute, and of both ends of a range.
SomeEdits ==
  {[function_code |-> fc] : fc \in FunctionCodes}
    \cup {[data_type |-> t] : t \in DataTypes}
    \cup {[register_length |-> n] : n \in 0..2}
    \cup {[data_endian |-> o] : o \in {BigLittle, LittleBig}}
    \cup {[input_min |-> None], [input_max |-> 4],
          [input_min |-> 8, input_max |-> 12], [scale_min |-> 12]}

\* Those that come during a request.
Meanwhile == {[input_min |-> None], [function_code |-> "WRITE_COIL"]}

Written == {-3, 0, 2, 10}

Contents == {<<1, 2, 3, 0, 1>>, <<3, 1, 0, 2, 0>>}
=============================================================================
