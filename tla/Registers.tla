----------------------------- MODULE Registers ------------------------------
(***************************************************************************)
(* How values become 16-bit registers and back (function_utils.py): data   *)
(* types, byte orders and word orders. A register is a word of two bytes;  *)
(* a byte has Base values: 256 in the code, 2 in the runs.                 *)
(*                                                                         *)
(* Values are counted in halves: a half stands for any fraction. int()     *)
(* cuts it off, and only the floating-point types keep it.                 *)
(***************************************************************************)
EXTENDS Integers, Sequences

CONSTANTS
  Base,           \* values of a byte
  FloatOf(_),     \* FloatOf(n): the float with the 32 bits n
  FloatBits(_),   \* FloatBits(v): the 32 bits of the float nearest to v
  HalfOf(_),      \* HalfOf(w): the 16-bit float with the bits w
  DoubleWords(_)  \* DoubleWords(v): the four words of v as a double

Word == Base * Base
Words == 0..Word - 1

ASSUME RegistersAssumption ==
  /\ Base \in Nat \ {0, 1}
  /\ \A n \in 0..Word * Word - 1 : FloatOf(n) \in Int
  /\ \A w \in Words : HalfOf(w) \in Int

DataTypes == {"RAW", "INT16", "UINT16", "INT32", "UINT32", "FLOAT", "DOUBLE", "DIGITAL"}

\* _mod_point_data_endian: the order of the bytes and that of the words.
Orders == {"big", "little"}
Endians == [bytes : Orders, words : Orders]

-----------------------------------------------------------------------------
\* _set_data_length: registers that a poll of one point asks for.
DataLength(type, length) ==
  LET least == CASE type = "RAW" -> 0
                 [] type \in {"DIGITAL", "INT16", "UINT16"} -> 1
                 [] type \in {"INT32", "UINT32", "FLOAT"} -> 2
                 [] type = "DOUBLE" -> 4
  IN  IF length >= least THEN length ELSE least

\* int() of a value, which cuts off its half.
Cut(v) == IF v >= 0 THEN v \div 2 ELSE -((-v) \div 2)

\* The numbers that struct packs for a type; it raises an error otherwise.
Packs(type, n) ==
  CASE type = "INT16" -> n \in -(Word \div 2)..Word \div 2 - 1
    [] type = "UINT16" -> n \in Words
    [] type = "INT32" -> n \in -((Word * Word) \div 2)..(Word * Word) \div 2 - 1
    [] type = "UINT32" -> n \in 0..Word * Word - 1
    [] OTHER -> TRUE

TwoWords_lowFirst(n) == <<n % Word, n \div Word>>

TwoWords(n) == <<n \div Word, n % Word>>

\* The words of a value, the high one first; RAW and DIGITAL have none.
WordsOf(type, v) ==
  CASE type \in {"INT16", "UINT16"} -> <<Cut(v) % Word>>
    [] type \in {"INT32", "UINT32"} -> TwoWords(Cut(v) % (Word * Word))
    [] type = "FLOAT" -> TwoWords(FloatBits(v))
    [] type = "DOUBLE" -> DoubleWords(v)
    [] OTHER -> <<>>

Swapped(w) == (w % Base) * Base + w \div Base

\* The words in the order of the registers, and the bytes in theirs. The same
\* for both ways: what is in order becomes registers, registers come in order.
Ordered(words, endian) ==
  [i \in 1..Len(words) |->
     LET w == IF endian.words = "little" THEN words[Len(words) + 1 - i] ELSE words[i]
     IN  IF endian.bytes = "little" THEN Swapped(w) ELSE w]

\* _builder_data_type.
Build(type, endian, v) == Ordered(WordsOf(type, v), endian)

-----------------------------------------------------------------------------
\* Words that convert_to_data_type takes from the front; a DOUBLE is taken for
\* a float of 16 bits (function_utils.py:79).
Taken(type) ==
  CASE type \in {"INT16", "UINT16", "DOUBLE"} -> 1
    [] type \in {"INT32", "UINT32", "FLOAT"} -> 2
    [] OTHER -> 0

Signed(n, size) == IF n < size \div 2 THEN n ELSE n - size

\* The value of words in order, in halves.
ValueOf(type, words) ==
  CASE type = "INT16" -> 2 * Signed(words[1], Word)
    [] type = "UINT16" -> 2 * words[1]
    [] type = "INT32" -> 2 * Signed(words[1] * Word + words[2], Word * Word)
    [] type = "UINT32" -> 2 * (words[1] * Word + words[2])
    [] type = "FLOAT" -> FloatOf(words[1] * Word + words[2])
    [] type = "DOUBLE" -> HalfOf(words[1])

\* convert_to_data_type of enough registers, for a type with a value.
Convert(type, endian, registers) ==
  ValueOf(type, Ordered(SubSeq(registers, 1, Taken(type)), endian))
=============================================================================
