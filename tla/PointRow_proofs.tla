-------------------------- MODULE PointRow_proofs --------------------------
(***************************************************************************)
(* What edits, polls and restarts make of a point's row and store, and what *)
(* registers make of its values, for bytes of any size, any rows, edits,   *)
(* commands and memories and any number of restarts.                       *)
(***************************************************************************)
EXTENDS PointRow, SequenceTheorems, TLAPS

LEMMA WordSize == Base \in Nat /\ Base >= 2 /\ Word \in Nat /\ Word >= 2
BY RegistersAssumption DEF Word

-----------------------------------------------------------------------------
(* Words and bytes.                                                        *)

LEMMA DivMod ==
  ASSUME NEW b \in Nat, b > 0, NEW n \in Int
  PROVE  /\ n \div b \in Int /\ n % b \in 0..b - 1
         /\ n = b * (n \div b) + (n % b)
OBVIOUS

LEMMA MulMonotone ==
  ASSUME NEW b \in Nat, NEW x \in Int, NEW y \in Int, x < y
  PROVE  b * x + b <= b * y
<1>1. b * (y - x - 1) >= 0
  <2>1. y - x - 1 \in Nat
    OBVIOUS
  <2> DEFINE d == y - x - 1
  <2>2. d \in Nat
    BY <2>1
  <2>3. b * d >= 0
    BY <2>2 DEF d
  <2> QED
    BY <2>3
<1> QED
  BY <1>1

\* A division with remainder has one result.
LEMMA DivModUnique ==
  ASSUME NEW b \in Nat, b > 0, NEW q \in Int, NEW r \in 0..b - 1
  PROVE  (b * q + r) \div b = q /\ (b * q + r) % b = r
<1> DEFINE n == b * q + r
           p == n \div b
           s == n % b
<1>0. b * q \in Int
  OBVIOUS
<1>1. n \in Int
  BY <1>0
<1>2. p \in Int /\ s \in 0..b - 1 /\ n = b * p + s
  BY <1>1, DivMod
<1> HIDE DEF p, s
<1>3. ~(p < q)
  BY <1>2, MulMonotone, b * p \in Int
<1>4. ~(q < p)
  BY <1>2, MulMonotone, b * p \in Int
<1>5. p = q
  BY <1>2, <1>3, <1>4
<1>6. s = r
  BY <1>2, <1>5
<1> QED
  BY <1>5, <1>6 DEF p, s

\* A quotient is below the bound that the number has in multiples.
LEMMA Quotient ==
  ASSUME NEW b \in Nat, b > 0, NEW n \in Nat, n < b * b
  PROVE  n \div b \in 0..b - 1
<1>1. /\ n \div b \in Int /\ n % b \in 0..b - 1
      /\ n = b * (n \div b) + (n % b)
  BY DivMod
<1> DEFINE q == n \div b
<1>2. q \in Int /\ n = b * q + (n % b)
  BY <1>1
<1> HIDE DEF q
<1>3. ~(q < 0)
  BY <1>1, <1>2, MulMonotone
<1>4. ~(b - 1 < q)
  <2> SUFFICES ASSUME b - 1 < q PROVE FALSE
    OBVIOUS
  <2>1. b * (b - 1) + b <= b * q
    BY <1>2, MulMonotone
  <2>2. b * (b - 1) + b = b * b
    OBVIOUS
  <2> QED
    BY <1>1, <1>2, <2>1, <2>2, b * q \in Int, b * b \in Int
<1> QED
  BY <1>2, <1>3, <1>4 DEF q

\* Swapping the bytes of a word gives a word, and doing it twice the first one.
LEMMA SwappedTwice ==
  ASSUME NEW w \in Words
  PROVE  Swapped(w) \in Words /\ Swapped(Swapped(w)) = w
<1> DEFINE high == w \div Base
           low == w % Base
<1>1. w \in Nat /\ w < Base * Base
  BY WordSize DEF Words, Word
<1>2. high \in 0..Base - 1 /\ low \in 0..Base - 1 /\ w = Base * high + low
  BY <1>1, WordSize, Quotient, DivMod
<1>3. Swapped(w) = Base * low + high
  BY <1>2, WordSize DEF Swapped
<1> HIDE DEF high, low
<1>4. Swapped(w) \div Base = low /\ Swapped(w) % Base = high
  BY <1>2, <1>3, WordSize, DivModUnique
<1>5. Base * low \in Nat /\ Base * low + Base <= Base * Base
  BY <1>2, WordSize, MulMonotone
<1>6. Swapped(w) \in Words
  BY <1>2, <1>3, <1>5, WordSize DEF Words, Word
<1>7. Swapped(Swapped(w)) = high * Base + low
  BY <1>4 DEF Swapped
<1> QED
  BY <1>2, <1>6, <1>7, WordSize

-----------------------------------------------------------------------------
(* Registers and values.                                                   *)

LEMMA OrderedProperties ==
  ASSUME NEW words \in Seq(Words), NEW endian \in Endians
  PROVE  /\ Ordered(words, endian) \in Seq(Words)
         /\ Len(Ordered(words, endian)) = Len(words)
         /\ \A i \in 1..Len(words) :
              Ordered(words, endian)[i] =
                LET w == IF endian.words = "little" THEN words[Len(words) + 1 - i] ELSE words[i]
                IN  IF endian.bytes = "little" THEN Swapped(w) ELSE w
<1> DEFINE w(i) == IF endian.words = "little" THEN words[Len(words) + 1 - i] ELSE words[i]
           s == Ordered(words, endian)
<1>1. Len(words) \in Nat
  BY LenProperties
<1>2. \A i \in 1..Len(words) : w(i) \in Words
  BY <1>1, ElementOfSeq
<1> HIDE DEF w
<1>3. s = [i \in 1..Len(words) |-> IF endian.bytes = "little" THEN Swapped(w(i)) ELSE w(i)]
  BY DEF Ordered, w
<1>4. s \in [1..Len(words) -> Words]
  BY <1>2, <1>3, SwappedTwice
<1>5. s \in Seq(Words) /\ Len(s) = Len(words)
  <2>1. s \in Seq(Words)
    BY <1>1, <1>4, SeqDef
  <2>2. DOMAIN s = 1..Len(words)
    BY <1>3
  <2> QED
    BY <1>1, <2>1, <2>2, LenProperties
<1> QED
  BY <1>3, <1>5 DEF w

\* What is in order for the registers is put in order by doing the same again.
LEMMA OrderedTwice ==
  ASSUME NEW words \in Seq(Words), NEW endian \in Endians
  PROVE  Ordered(Ordered(words, endian), endian) = words
<1> DEFINE s == Ordered(words, endian)
           t == Ordered(s, endian)
           n == Len(words)
<1>1. n \in Nat /\ s \in Seq(Words) /\ Len(s) = n /\ t \in Seq(Words) /\ Len(t) = n
  BY OrderedProperties, LenProperties
<1>2. \A i \in 1..n :
        s[i] = LET w == IF endian.words = "little" THEN words[n + 1 - i] ELSE words[i]
               IN  IF endian.bytes = "little" THEN Swapped(w) ELSE w
  BY OrderedProperties
<1>3. \A i \in 1..n :
        t[i] = LET w == IF endian.words = "little" THEN s[n + 1 - i] ELSE s[i]
               IN  IF endian.bytes = "little" THEN Swapped(w) ELSE w
  <2> HIDE DEF s
  <2> QED
    BY <1>1, OrderedProperties
<1>4. \A i \in 1..n : words[i] \in Words
  BY ElementOfSeq
<1> HIDE DEF s, t, n
<1>5. ASSUME NEW i \in 1..n PROVE t[i] = words[i]
  <2>1. n + 1 - i \in 1..n /\ n + 1 - (n + 1 - i) = i
    BY <1>1
  <2>2. words[i] \in Words
    BY <1>4
  <2>3. CASE endian.words = "little"
    <3>1. s[n + 1 - i] = IF endian.bytes = "little" THEN Swapped(words[i]) ELSE words[i]
      BY <1>2, <2>1, <2>3
    <3>2. t[i] = IF endian.bytes = "little" THEN Swapped(s[n + 1 - i]) ELSE s[n + 1 - i]
      BY <1>3, <2>3
    <3> QED
      BY <2>2, <3>1, <3>2, SwappedTwice
  <2>4. CASE endian.words # "little"
    <3>1. s[i] = IF endian.bytes = "little" THEN Swapped(words[i]) ELSE words[i]
      BY <1>2, <2>4
    <3>2. t[i] = IF endian.bytes = "little" THEN Swapped(s[i]) ELSE s[i]
      BY <1>3, <2>4
    <3> QED
      BY <2>2, <3>1, <3>2, SwappedTwice
  <2> QED
    BY <2>3, <2>4
<1>6. t = words
  BY <1>1, <1>5, SeqEqual DEF n
<1> QED
  BY <1>6 DEF s, t

LEMMA CutInt ==
  ASSUME NEW v \in Int
  PROVE  Cut(v) \in Int /\ (v % 2 = 0 => 2 * Cut(v) = v)
BY DEF Cut

LEMMA TwoWordsProperties ==
  ASSUME NEW n \in 0..Word * Word - 1
  PROVE  /\ TwoWords(n) \in Seq(Words) /\ Len(TwoWords(n)) = 2
         /\ TwoWords(n)[1] * Word + TwoWords(n)[2] = n
<1>1. n \in Nat /\ n < Word * Word /\ Word \in Nat /\ Word > 0
  BY WordSize
<1>2. n \div Word \in Words /\ n % Word \in Words
  BY <1>1, Quotient, DivMod DEF Words
<1>3. (n \div Word) * Word + (n % Word) = n
  BY <1>1, DivMod
<1> QED
  BY <1>2, <1>3 DEF TwoWords

\* A number modulo a size, taken as a signed one.
LEMMA SignedMod ==
  ASSUME NEW size \in Nat, size > 0, NEW n \in Int,
         n < 2 * size, -size <= n
  PROVE  n % size = IF n >= size THEN n - size ELSE IF n >= 0 THEN n ELSE n + size
<1>1. CASE n >= size
  <2>1. n - size \in 0..size - 1 /\ n = size * 1 + (n - size)
    BY <1>1
  <2> QED
    BY <1>1, <2>1, DivModUnique
<1>2. CASE n >= 0 /\ n < size
  <2>1. n \in 0..size - 1 /\ n = size * 0 + n
    BY <1>2
  <2> QED
    BY <1>2, <2>1, DivModUnique
<1>3. CASE n < 0
  <2>1. n + size \in 0..size - 1 /\ n = size * (-1) + (n + size)
    BY <1>3
  <2> QED
    BY <1>3, <2>1, DivModUnique
<1> QED
  BY <1>1, <1>2, <1>3

LEMMA SignedPacked ==
  ASSUME NEW size \in Nat, size > 1, NEW n \in -(size \div 2)..(size \div 2) - 1
  PROVE  n % size \in 0..size - 1 /\ Signed(n % size, size) = n
<1>1. n \in Int /\ -size <= n /\ n < size /\ 2 * (size \div 2) <= size
  OBVIOUS
<1>2. n % size = IF n >= 0 THEN n ELSE n + size
  BY <1>1, SignedMod
<1> QED
  BY <1>1, <1>2 DEF Signed

LEMMA WordsOfProperties ==
  ASSUME NEW type \in DataTypes, NEW c \in Int,
         FloatBits(c) \in 0..Word * Word - 1,
         DoubleWords(c) \in Seq(Words), Len(DoubleWords(c)) = 4
  PROVE  /\ WordsOf(type, c) \in Seq(Words)
         /\ Len(WordsOf(type, c)) = CASE type \in {"INT16", "UINT16"} -> 1
                                      [] type \in {"INT32", "UINT32", "FLOAT"} -> 2
                                      [] type = "DOUBLE" -> 4
                                      [] OTHER -> 0
<1>1. Cut(c) \in Int
  BY CutInt
<1>2. Cut(c) % Word \in Words
  BY <1>1, WordSize, DivMod DEF Words
<1>3. Word * Word \in Nat /\ Word * Word > 0
  BY WordSize
<1>4. Cut(c) % (Word * Word) \in 0..Word * Word - 1
  BY <1>1, <1>3, DivMod
<1>5. CASE type \in {"INT16", "UINT16"}
  BY <1>2, <1>5 DEF WordsOf
<1>6. CASE type \in {"INT32", "UINT32"}
  BY <1>4, <1>6, TwoWordsProperties DEF WordsOf
<1>7. CASE type = "FLOAT"
  BY <1>7, TwoWordsProperties DEF WordsOf
<1>8. CASE type = "DOUBLE"
  BY <1>8 DEF WordsOf
<1>9. CASE type \in {"RAW", "DIGITAL"}
  BY <1>9 DEF WordsOf
<1> QED
  BY <1>5, <1>6, <1>7, <1>8, <1>9 DEF DataTypes

LEMMA PairInt ==
  ASSUME NEW a \in Words, NEW b \in Words
  PROVE  a * Word + b \in 0..Word * Word - 1
<1>1. a \in Nat /\ b \in Nat /\ a < Word /\ b < Word /\ Word \in Nat
  BY WordSize DEF Words
<1>2. Word * a + Word <= Word * Word /\ Word * a \in Nat
  BY <1>1, MulMonotone
<1>3. a * Word = Word * a
  BY <1>1
<1> QED
  BY <1>1, <1>2, <1>3, Word * Word \in Nat

\* Enough words have a value.
LEMMA ValueInt ==
  ASSUME NEW type \in DataTypes \ {"RAW", "DIGITAL"}, NEW words \in Seq(Words),
         Len(words) >= Taken(type)
  PROVE  ValueOf(type, words) \in Int
<1>1. Len(words) \in Nat
  BY LenProperties
<1>2. CASE type \in {"INT16", "UINT16", "DOUBLE"}
  <2>1. words[1] \in Words
    BY <1>1, <1>2, ElementOfSeq DEF Taken
  <2>2. words[1] \in Int /\ HalfOf(words[1]) \in Int /\ Signed(words[1], Word) \in Int
    BY <2>1, WordSize, RegistersAssumption DEF Words, Signed
  <2> QED
    BY <1>2, <2>2 DEF ValueOf
<1>3. CASE type \in {"INT32", "UINT32", "FLOAT"}
  <2> DEFINE n == words[1] * Word + words[2]
  <2>1. words[1] \in Words /\ words[2] \in Words
    BY <1>1, <1>3, ElementOfSeq DEF Taken
  <2>2. n \in 0..Word * Word - 1
    BY <2>1, PairInt
  <2> HIDE DEF n
  <2>3. Word * Word \in Int
    BY WordSize
  <2>4. n \in Int /\ FloatOf(n) \in Int /\ Signed(n, Word * Word) \in Int
    BY <2>2, <2>3, RegistersAssumption DEF Signed
  <2> QED
    BY <1>3, <2>4 DEF ValueOf, n
<1> QED
  BY <1>2, <1>3 DEF DataTypes

LEMMA ConvertInt ==
  ASSUME NEW type \in DataTypes \ {"RAW", "DIGITAL"}, NEW endian \in Endians,
         NEW registers \in Seq(Words), Len(registers) >= Taken(type)
  PROVE  Convert(type, endian, registers) \in Int
<1> DEFINE s == SubSeq(registers, 1, Taken(type))
<1>1. Taken(type) \in {1, 2} /\ Len(registers) \in Nat
  BY LenProperties DEF Taken, DataTypes
<1>2. \A i \in 1..Taken(type) : registers[i] \in Words
  BY <1>1, ElementOfSeq
<1>3. s \in Seq(Words) /\ Len(s) = Taken(type)
  BY <1>1, <1>2, SubSeqProperties
<1> HIDE DEF s
<1>4. Ordered(s, endian) \in Seq(Words) /\ Len(Ordered(s, endian)) = Taken(type)
  BY <1>3, OrderedProperties
<1> QED
  BY <1>1, <1>4, ValueInt DEF Convert, s

\* What a type can hold comes back from the registers it was written to,
\* whatever their order.
LEMMA WordsBack ==
  ASSUME NEW type \in {"INT16", "UINT16", "INT32", "UINT32", "FLOAT"}, NEW c \in Int,
         FloatBits(c) \in 0..Word * Word - 1,
         Holds(type, c)
  PROVE  ValueOf(type, WordsOf(type, c)) = c
<1> DEFINE size == Word * Word
<1>1. Word \in Nat /\ Word > 1 /\ size \in Nat /\ size > 1
  <2>1. Word \in Nat /\ Word >= 2
    BY WordSize
  <2>2. Word * 1 + Word <= Word * Word
    BY <2>1, MulMonotone
  <2> QED
    BY <2>1, <2>2
<1>2. Cut(c) \in Int /\ (c % 2 = 0 => 2 * Cut(c) = c)
  BY CutInt
<1> HIDE DEF size
<1>3. CASE type = "INT16"
  <2>1. Cut(c) \in -(Word \div 2)..(Word \div 2) - 1 /\ 2 * Cut(c) = c
    BY <1>2, <1>3 DEF Holds, Packs
  <2>2. Signed(Cut(c) % Word, Word) = Cut(c)
    BY <1>1, <2>1, SignedPacked
  <2> QED
    BY <1>3, <2>1, <2>2 DEF ValueOf, WordsOf
<1>4. CASE type = "UINT16"
  <2>1. Cut(c) \in 0..Word - 1 /\ 2 * Cut(c) = c
    BY <1>2, <1>4 DEF Holds, Packs, Words
  <2>2. Cut(c) % Word = Cut(c)
    BY <1>1, <2>1
  <2> QED
    BY <1>4, <2>1, <2>2 DEF ValueOf, WordsOf
<1>5. CASE type \in {"INT32", "UINT32"}
  <2> DEFINE n == Cut(c) % size
             w == TwoWords(n)
  <2>1. n \in 0..size - 1
    BY <1>1, <1>2, DivMod
  <2>2. w[1] * Word + w[2] = n
    BY <2>1, TwoWordsProperties DEF size
  <2>3. WordsOf(type, c) = w
    BY <1>5 DEF WordsOf, size
  <2>4. 2 * Cut(c) = c
    BY <1>2, <1>5 DEF Holds
  <2>5. CASE type = "INT32"
    <3>1. Cut(c) \in -(size \div 2)..(size \div 2) - 1
      BY <1>2, <2>5 DEF Holds, Packs, size
    <3>2. Signed(n, size) = Cut(c)
      BY <1>1, <3>1, SignedPacked
    <3> HIDE DEF n, w
    <3> QED
      BY <2>2, <2>3, <2>4, <2>5, <3>2 DEF ValueOf, size
  <2>6. CASE type = "UINT32"
    <3>1. Cut(c) \in 0..size - 1
      BY <1>2, <2>6 DEF Holds, Packs, size
    <3>2. n = Cut(c)
      BY <1>1, <3>1
    <3> HIDE DEF n, w
    <3> QED
      BY <2>2, <2>3, <2>4, <2>6, <3>2 DEF ValueOf
  <2> QED
    BY <1>5, <2>5, <2>6
<1>6. CASE type = "FLOAT"
  <2>1. WordsOf(type, c) = TwoWords(FloatBits(c))
    BY <1>6 DEF WordsOf
  <2>2. ValueOf(type, WordsOf(type, c)) = FloatOf(FloatBits(c))
    BY <1>6, <2>1, TwoWordsProperties DEF ValueOf
  <2> QED
    BY <1>6, <2>2 DEF Holds
<1> QED
  BY <1>3, <1>4, <1>5, <1>6

LEMMA BuildProperties ==
  ASSUME NEW type \in DataTypes, NEW endian \in Endians, NEW c \in Commands
  PROVE  /\ Build(type, endian, c) \in Seq(Words)
         /\ Len(Build(type, endian, c)) = Len(WordsOf(type, c))
         /\ Len(Build(type, endian, c)) >= Taken(type)
<1>1. /\ c \in Int /\ FloatBits(c) \in 0..Word * Word - 1
      /\ DoubleWords(c) \in Seq(Words) /\ Len(DoubleWords(c)) = 4
  BY RowAssumption
<1>2. WordsOf(type, c) \in Seq(Words) /\ Len(WordsOf(type, c)) >= Taken(type)
  <2> DEFINE w == WordsOf(type, c)
  <2>1. w \in Seq(Words)
    BY <1>1, WordsOfProperties
  <2>2. Len(w) = CASE type \in {"INT16", "UINT16"} -> 1
                   [] type \in {"INT32", "UINT32", "FLOAT"} -> 2
                   [] type = "DOUBLE" -> 4
                   [] OTHER -> 0
    BY <1>1, WordsOfProperties
  <2> HIDE DEF w
  <2>3. Len(w) >= Taken(type)
    BY <2>2 DEF Taken, DataTypes
  <2> QED
    BY <2>1, <2>3 DEF w
<1> QED
  BY <1>2, OrderedProperties DEF Build

LEMMA RoundTrip ==
  ASSUME NEW type \in {"INT16", "UINT16", "INT32", "UINT32", "FLOAT"},
         NEW endian \in Endians, NEW c \in Commands, Holds(type, c)
  PROVE  Convert(type, endian, Build(type, endian, c)) = c
<1> DEFINE s == Build(type, endian, c)
<1>1. /\ c \in Int /\ FloatBits(c) \in 0..Word * Word - 1 /\ type \in DataTypes
      /\ DoubleWords(c) \in Seq(Words) /\ Len(DoubleWords(c)) = 4
  BY RowAssumption DEF DataTypes
<1>2. /\ WordsOf(type, c) \in Seq(Words)
      /\ Len(WordsOf(type, c)) = Taken(type)
  BY <1>1, WordsOfProperties DEF Taken
<1>3. s \in Seq(Words) /\ Len(s) = Taken(type)
  BY <1>1, <1>2, BuildProperties
<1>4. SubSeq(s, 1, Taken(type)) = s
  BY <1>3, SubSeqFull
<1>5. Ordered(s, endian) = WordsOf(type, c)
  BY <1>2, OrderedTwice DEF Build
<1> HIDE DEF s
<1>6. ValueOf(type, WordsOf(type, c)) = c
  BY <1>1, WordsBack
<1> QED
  BY <1>4, <1>5, <1>6 DEF Convert, s

-----------------------------------------------------------------------------
(* Rows.                                                                   *)

Ranges(r) == Rising(r.input_min, r.input_max) /\ Rising(r.scale_min, r.scale_max)

LEMMA MarkedRow ==
  ASSUME NEW r \in Row
  PROVE  /\ Marked(r) \in Row
         /\ Marked(r).writable = IsWritable(r)
         /\ Marked(r).function_code = Adjusted(r)
         /\ IsWritable(Marked(r)) = IsWritable(r)
         /\ Ranges(Marked(r)) = Ranges(r)
<1>1. Adjusted(r) \in FunctionCodes /\ IsWritable(r) \in BOOLEAN
  BY DEF Adjusted, Row, IsWritable, FunctionCodes, WriteCoils, WriteRegisters
<1>2. Marked(r) \in Row /\ Marked(r).writable = IsWritable(r)
      /\ Marked(r).function_code = Adjusted(r)
  BY <1>1 DEF Marked, Row
<1>3. Adjusted(r) \in WriteCoils \cup WriteRegisters <=> r.function_code \in WriteCoils \cup WriteRegisters
  BY DEF Adjusted, WriteCoils, WriteRegisters
<1>4. IsWritable(Marked(r)) = IsWritable(r)
  BY <1>2, <1>3 DEF IsWritable
<1>5. Ranges(Marked(r)) = Ranges(r)
  BY DEF Marked, Row, Ranges
<1> QED
  BY <1>2, <1>4, <1>5

LEMMA CheckSelfRow ==
  ASSUME NEW r \in Row
  PROVE  /\ CheckSelf(r) \in Row
         /\ CheckSelf(r).writable = IsWritable(r)
         /\ CheckSelf(r).function_code = Adjusted(r)
         /\ IsWritable(CheckSelf(r)) = IsWritable(r)
         /\ Ranges(CheckSelf(r)) = Ranges(r)
<1> DEFINE m == Marked(r)
           c == CheckSelf(r)
           digital == r.function_code \in ReadCoils \cup {"WRITE_COIL"}
           type == IF digital THEN "DIGITAL" ELSE r.data_type
           length == CASE digital -> 1
                       [] type \in {"FLOAT", "INT32", "UINT32"} -> 2
                       [] OTHER -> r.register_length
<1>1. /\ m \in Row /\ m.writable = IsWritable(r) /\ m.function_code = Adjusted(r)
      /\ IsWritable(m) = IsWritable(r) /\ Ranges(m) = Ranges(r)
  BY MarkedRow
<1>2. type \in DataTypes /\ length \in 0..MaxLength
  BY RowAssumption DEF Row, DataTypes
<1>3. c = [m EXCEPT !.data_type = type, !.register_length = length]
  BY DEF CheckSelf
<1> HIDE DEF m, c, type, length
<1>4. /\ c \in Row /\ c.writable = m.writable /\ c.function_code = m.function_code
      /\ Ranges(c) = Ranges(m)
  BY <1>1, <1>2, <1>3 DEF Row, Ranges
<1> QED
  BY <1>1, <1>4 DEF c, m, IsWritable

LEMMA EditedRow ==
  ASSUME NEW r \in Row, NEW e \in Edits
  PROVE  Edited(r, e) \in Row
<1>1. \A a \in DOMAIN e : e[a] \in Allowed(a)
  BY RowAssumption
<1>2. DOMAIN r = {"function_code", "data_type", "register_length", "writable", "data_endian",
                  "input_min", "input_max", "scale_min", "scale_max"}
  BY DEF Row
<1>3. \A a \in DOMAIN r : r[a] \in Allowed(a)
  BY <1>2 DEF Row, Allowed
<1> DEFINE n == Edited(r, e)
<1>4. DOMAIN n = DOMAIN r /\ \A a \in DOMAIN r : n[a] \in Allowed(a)
  BY <1>1, <1>3 DEF Edited
<1>5. n = [function_code |-> n.function_code, data_type |-> n.data_type,
           register_length |-> n.register_length, writable |-> n.writable,
           data_endian |-> n.data_endian, input_min |-> n.input_min,
           input_max |-> n.input_max, scale_min |-> n.scale_min, scale_max |-> n.scale_max]
  BY <1>2 DEF Edited
<1> HIDE DEF n
<1>6. /\ n.function_code \in FunctionCodes /\ n.data_type \in DataTypes
      /\ n.register_length \in 0..MaxLength /\ n.writable \in BOOLEAN
      /\ n.data_endian \in Endians /\ n.input_min \in Bound /\ n.input_max \in Bound
      /\ n.scale_min \in Bound /\ n.scale_max \in Bound
  <2>1. /\ n["function_code"] \in Allowed("function_code")
        /\ n["data_type"] \in Allowed("data_type")
        /\ n["register_length"] \in Allowed("register_length")
        /\ n["writable"] \in Allowed("writable")
        /\ n["data_endian"] \in Allowed("data_endian")
        /\ n["input_min"] \in Allowed("input_min")
        /\ n["input_max"] \in Allowed("input_max")
        /\ n["scale_min"] \in Allowed("scale_min")
        /\ n["scale_max"] \in Allowed("scale_max")
    BY <1>2, <1>4
  <2> QED
    BY <2>1 DEF Allowed
<1>7. n \in Row
  BY <1>5, <1>6 DEF Row
<1> QED
  BY <1>7 DEF n

\* CheckSelf, field by field.
LEMMA CheckSelfFields ==
  ASSUME NEW r \in Row
  PROVE  LET c == CheckSelf(r)
             digital == r.function_code \in ReadCoils \cup {"WRITE_COIL"}
         IN  /\ c.function_code = Adjusted(r)
             /\ c.data_type = IF digital THEN "DIGITAL" ELSE r.data_type
             /\ c.register_length = IF digital THEN 1
                                    ELSE IF r.data_type \in {"FLOAT", "INT32", "UINT32"} THEN 2
                                    ELSE r.register_length
             /\ c.writable = IsWritable(r)
             /\ c.data_endian = r.data_endian
             /\ c.input_min = r.input_min /\ c.input_max = r.input_max
             /\ c.scale_min = r.scale_min /\ c.scale_max = r.scale_max
BY DEF CheckSelf, Marked, Row

\* A row is settled if its length suits its function code and type.
LEMMA SettledRow ==
  ASSUME NEW r \in Row,
         r.writable = IsWritable(r),
         Adjusted(r) = r.function_code,
         r.function_code \in ReadCoils \cup {"WRITE_COIL"} =>
           r.data_type = "DIGITAL" /\ r.register_length = 1,
         r.data_type \in {"FLOAT", "INT32", "UINT32"} => r.register_length = 2
  PROVE  CheckSelf(r) = r
<1> DEFINE c == CheckSelf(r)
<1>1. /\ c \in Row
      /\ c.function_code = r.function_code /\ c.data_type = r.data_type
      /\ c.register_length = r.register_length /\ c.writable = r.writable
      /\ c.data_endian = r.data_endian
      /\ c.input_min = r.input_min /\ c.input_max = r.input_max
      /\ c.scale_min = r.scale_min /\ c.scale_max = r.scale_max
  BY CheckSelfRow, CheckSelfFields
<1> HIDE DEF c
<1>2. c = r
  BY <1>1 DEF Row
<1> QED
  BY <1>2 DEF c

\* Three edits settle any row: the first may shorten or lengthen it, which lets
\* the second adjust the function code, by which the third judges the type.
LEMMA ThreeSettle ==
  ASSUME NEW r \in Row
  PROVE  LET t == CheckSelf(CheckSelf(CheckSelf(r))) IN CheckSelf(t) = t
<1> DEFINE a == CheckSelf(r)
           b == CheckSelf(a)
           t == CheckSelf(b)
<1>1. a \in Row /\ b \in Row /\ t \in Row
  BY CheckSelfRow
<1>2. t.writable = IsWritable(t)
  BY <1>1, CheckSelfRow
<1>3. /\ a.function_code = Adjusted(r) /\ b.function_code = Adjusted(a)
      /\ t.function_code = Adjusted(b)
  BY <1>1, CheckSelfRow
<1>4. /\ a.data_type = IF r.function_code \in ReadCoils \cup {"WRITE_COIL"}
                       THEN "DIGITAL" ELSE r.data_type
      /\ b.data_type = IF a.function_code \in ReadCoils \cup {"WRITE_COIL"}
                       THEN "DIGITAL" ELSE a.data_type
      /\ t.data_type = IF b.function_code \in ReadCoils \cup {"WRITE_COIL"}
                       THEN "DIGITAL" ELSE b.data_type
  BY <1>1, CheckSelfFields
<1>5. /\ a.register_length = IF r.function_code \in ReadCoils \cup {"WRITE_COIL"} THEN 1
                             ELSE IF r.data_type \in {"FLOAT", "INT32", "UINT32"} THEN 2
                             ELSE r.register_length
      /\ b.register_length = IF a.function_code \in ReadCoils \cup {"WRITE_COIL"} THEN 1
                             ELSE IF a.data_type \in {"FLOAT", "INT32", "UINT32"} THEN 2
                             ELSE a.register_length
      /\ t.register_length = IF b.function_code \in ReadCoils \cup {"WRITE_COIL"} THEN 1
                             ELSE IF b.data_type \in {"FLOAT", "INT32", "UINT32"} THEN 2
                             ELSE b.register_length
  BY <1>1, CheckSelfFields
<1> HIDE DEF a, b, t
<1>6. /\ r.function_code \in FunctionCodes /\ a.function_code \in FunctionCodes
      /\ b.function_code \in FunctionCodes
      /\ r.register_length \in Nat /\ a.register_length \in Nat
      /\ b.register_length \in Nat /\ t.register_length \in Nat
  BY <1>1, RowAssumption DEF Row
<1>7. Adjusted(t) = t.function_code
  <2>0. /\ a.data_type \in {"FLOAT", "INT32", "UINT32"} => a.register_length = 2
        /\ b.data_type \in {"FLOAT", "INT32", "UINT32"} => b.register_length = 2
    BY <1>4, <1>5
  <2>1. CASE r.function_code \in ReadCoils \cup ReadRegisters
    BY <1>3, <2>1 DEF Adjusted, ReadCoils, ReadRegisters
  <2>2. CASE r.function_code \in WriteRegisters
    <3>1. b.function_code \in WriteRegisters
      BY <1>3, <2>2 DEF Adjusted, WriteRegisters
    <3>2. b.function_code \notin ReadCoils \cup {"WRITE_COIL"}
      BY <3>1 DEF WriteRegisters, ReadCoils
    <3>3. t.register_length = b.register_length
      BY <1>5, <2>0, <3>2
    <3>4. t.function_code = Adjusted(b)
      BY <1>3
    <3> QED
      BY <1>6, <3>1, <3>3, <3>4 DEF Adjusted, WriteRegisters
  <2>3. CASE r.function_code \in WriteCoils
    <3>1. a.function_code \in WriteCoils /\ b.function_code \in WriteCoils
      BY <1>3, <2>3 DEF Adjusted, WriteCoils
    <3>2. b.function_code = "WRITE_COIL" => b.register_length = 1
      <4>1. a.function_code = "WRITE_COIL" => b.register_length = 1
        BY <1>5
      <4>2. a.function_code = "WRITE_COILS" /\ b.function_code = "WRITE_COIL" =>
              a.register_length = 1
        BY <1>3 DEF Adjusted
      <4>3. a.function_code = "WRITE_COILS" /\ a.register_length = 1 =>
              b.register_length = 1
        BY <1>5, <2>0 DEF ReadCoils
      <4> QED
        BY <3>1, <4>1, <4>2, <4>3 DEF WriteCoils
    <3>3. b.function_code = "WRITE_COIL" => t.register_length = 1
      BY <1>5
    <3>4. b.function_code = "WRITE_COILS" => t.register_length = b.register_length
      BY <1>5, <2>0 DEF ReadCoils
    <3>5. t.function_code = Adjusted(b)
      BY <1>3
    <3>6. CASE b.function_code = "WRITE_COIL"
      BY <3>2, <3>3, <3>5, <3>6 DEF Adjusted
    <3>7. CASE b.function_code = "WRITE_COILS"
      BY <1>6, <3>4, <3>5, <3>7 DEF Adjusted
    <3> QED
      BY <3>1, <3>6, <3>7 DEF WriteCoils
  <2> QED
    BY <1>6, <2>1, <2>2, <2>3 DEF FunctionCodes
<1>8. t.function_code \in ReadCoils \cup {"WRITE_COIL"} =>
        t.data_type = "DIGITAL" /\ t.register_length = 1
  <2>1. CASE r.function_code \in ReadCoils
    BY <1>3, <1>4, <1>5, <2>1 DEF Adjusted, ReadCoils
  <2>2. CASE r.function_code \in ReadRegisters \cup WriteRegisters
    BY <1>3, <2>2 DEF Adjusted, ReadCoils, ReadRegisters, WriteRegisters
  <2>3. CASE r.function_code \in WriteCoils
    <3>1. /\ a.function_code \in WriteCoils /\ b.function_code \in WriteCoils
          /\ t.function_code \in WriteCoils
      BY <1>3, <2>3 DEF Adjusted, WriteCoils
    <3>2. b.function_code = "WRITE_COIL" =>
            t.data_type = "DIGITAL" /\ t.register_length = 1
      BY <1>4, <1>5
    <3>3. b.function_code = "WRITE_COILS" /\ t.function_code = "WRITE_COIL" =>
            b.register_length = 1 /\ t.register_length = b.register_length
              /\ a.function_code = "WRITE_COIL"
      BY <1>3, <1>4, <1>5, <1>6, <3>1 DEF Adjusted, WriteCoils, ReadCoils
    <3>4. a.function_code = "WRITE_COIL" /\ b.function_code = "WRITE_COILS" =>
            b.data_type = "DIGITAL" /\ t.data_type = "DIGITAL"
      BY <1>4
    <3>5. t.function_code \notin ReadCoils
      BY <3>1 DEF ReadCoils, WriteCoils
    <3> QED
      BY <3>1, <3>2, <3>3, <3>4, <3>5 DEF WriteCoils
  <2> QED
    BY <1>6, <2>1, <2>2, <2>3 DEF FunctionCodes
<1>9. t.data_type \in {"FLOAT", "INT32", "UINT32"} => t.register_length = 2
  BY <1>4, <1>5
<1>10. CheckSelf(t) = t
  BY <1>1, <1>2, <1>7, <1>8, <1>9, SettledRow
<1> QED
  BY <1>10 DEF t, b, a

-----------------------------------------------------------------------------
(* Values.                                                                 *)

LEMMA ScaledInt ==
  ASSUME NEW r \in Row, Ranges(r), NEW v \in Int
  PROVE  Scaled(r, v) \in Int
<1>1. CASE None \in {r.input_min, r.input_max, r.scale_min, r.scale_max}
  BY <1>1 DEF Scaled
<1>2. CASE r.input_min = r.input_max \/ r.scale_min = r.scale_max
  BY <1>2 DEF Scaled
<1>3. CASE /\ None \notin {r.input_min, r.input_max, r.scale_min, r.scale_max}
           /\ r.input_min # r.input_max /\ r.scale_min # r.scale_max
  <2>1. /\ r.input_min \in Int /\ r.input_max \in Int /\ r.input_min < r.input_max
        /\ r.scale_min \in Int /\ r.scale_max \in Int
    BY <1>3, RowAssumption DEF Row, Bound, Ranges, Rising
  <2> DEFINE span == r.input_max - r.input_min
             product == (v - r.input_min) * (r.scale_max - r.scale_min)
  <2>2. span \in Nat /\ span > 0 /\ product \in Int
    BY <2>1
  <2>3. product \div span \in Int
    BY <2>2, DivMod
  <2> HIDE DEF product, span
  <2>4. Scaled(r, v) \in {(product \div span) + r.scale_min,
                          Smaller(r.scale_min, r.scale_max), Larger(r.scale_min, r.scale_max)}
    BY <1>3, <2>1, <2>3 DEF Scaled, Smaller, Larger, product, span
  <2> QED
    BY <2>1, <2>3, <2>4 DEF Smaller, Larger
<1> QED
  BY <1>1, <1>2, <1>3

LEMMA DataProperties ==
  ASSUME NEW r \in Row, NEW m \in Memories, NEW k \in Places
  PROVE  /\ k \in Nat
         /\ \A i \in 1..MaxLength : Data(r, m)[k + i] \in Words
         /\ \A i \in 1..4 : Data(r, m)[k + i] \in Words
<1>1. /\ m \in Seq(Words) /\ Len(m) >= k + MaxLength /\ Len(m) >= k + 4 /\ k \in Nat
      /\ MaxLength \in Nat /\ Len(m) \in Nat
  BY RowAssumption, LenProperties
<1>2. \A i \in 1..Len(m) : m[i] \in Words
  BY <1>1, ElementOfSeq
<1>3. \A i \in 1..Len(m) : Data(r, m)[i] \in Words
  BY <1>2, WordSize DEF Data, Bit, Words
<1> QED
  BY <1>1, <1>3

LEMMA SliceProperties ==
  ASSUME NEW r \in Row, NEW m \in Memories, NEW k \in Places, NEW n \in Nat,
         n <= MaxLength \/ n <= 4
  PROVE  LET s == SubSeq(Data(r, m), k + 1, k + n)
         IN  /\ s \in Seq(Words) /\ Len(s) = n
             /\ \A i \in 1..n : s[i] = Data(r, m)[k + i]
<1> DEFINE d == Data(r, m)
           s == SubSeq(d, k + 1, k + n)
<1>1. k \in Nat /\ MaxLength \in Nat
  BY RowAssumption
<1>2. \A i \in 1..n : d[k + i] \in Words
  BY <1>1, DataProperties
<1> HIDE DEF d
<1>3. \A j \in k + 1..k + n : d[j] \in Words
  <2> SUFFICES ASSUME NEW j \in k + 1..k + n PROVE d[j] \in Words
    OBVIOUS
  <2>1. j - k \in 1..n /\ k + (j - k) = j
    BY <1>1
  <2> QED
    BY <1>2, <2>1
<1>4. k + 1 \in Int /\ k + n \in Int
  BY <1>1
<1>5. /\ s \in Seq(Words)
      /\ Len(s) = IF k + 1 <= k + n THEN (k + n) - (k + 1) + 1 ELSE 0
      /\ \A i \in 1..(k + n) - (k + 1) + 1 : s[i] = d[(k + 1) + i - 1]
  BY <1>3, <1>4, SubSeqProperties
<1>6. (k + n) - (k + 1) + 1 = n /\ \A i \in 1..n : (k + 1) + i - 1 = k + i
  BY <1>1
<1> HIDE DEF s
<1>7. Len(s) = n /\ \A i \in 1..n : s[i] = d[k + i]
  BY <1>1, <1>5, <1>6
<1> QED
  BY <1>5, <1>7 DEF s, d

LEMMA DataLengthProperties ==
  ASSUME NEW r \in Row
  PROVE  LET n == DataLength(r.data_type, r.register_length)
         IN  /\ n \in Nat /\ (n <= MaxLength \/ n <= 4)
             /\ n >= Taken(r.data_type)
             /\ n >= r.register_length
             /\ r.data_type = "DIGITAL" => n > 0
BY RowAssumption DEF DataLength, Taken, Row, DataTypes

LEMMA AloneInt ==
  ASSUME NEW r \in Row, NEW m \in Memories, NEW k \in Places, HasValue(r),
         DataLength(r.data_type, r.register_length) > 0
  PROVE  AloneValue(r, m, k) \in Int
<1> DEFINE n == DataLength(r.data_type, r.register_length)
           s == SubSeq(Data(r, m), k + 1, k + n)
<1>1. n \in Nat /\ (n <= MaxLength \/ n <= 4) /\ n >= Taken(r.data_type)
  BY DataLengthProperties
<1>2. s \in Seq(Words) /\ Len(s) = n
  BY <1>1, SliceProperties
<1>3. AloneValue(r, m, k) = IF r.function_code \in ReadCoils \/ r.data_type = "RAW"
                            THEN 2 * s[1] ELSE Convert(r.data_type, r.data_endian, s)
  BY DEF AloneValue
<1>4. n > 0
  OBVIOUS
<1> HIDE DEF n, s
<1>5. s[1] \in Words
  BY <1>1, <1>2, <1>4, ElementOfSeq
<1>6. s[1] \in Int
  BY <1>5, WordSize DEF Words
<1>7. CASE r.function_code \in ReadCoils \/ r.data_type = "RAW"
  BY <1>3, <1>6, <1>7
<1>8. CASE r.function_code \notin ReadCoils /\ r.data_type # "RAW"
  <2>1. r.data_type \in DataTypes \ {"RAW", "DIGITAL"} /\ r.data_endian \in Endians
    BY <1>8 DEF HasValue, Row
  <2> QED
    BY <1>1, <1>2, <1>3, <1>8, <2>1, ConvertInt
<1> QED
  BY <1>7, <1>8

LEMMA GroupInt ==
  ASSUME NEW r \in Row, NEW s \in Seq(Words), Converts(r, s)
  PROVE  GroupValue(r, s) \in Int
<1>1. Len(s) \in Nat
  BY LenProperties
<1>2. CASE r.data_type \in {"RAW", "DIGITAL"}
  <2>1. s[1] \in Words
    BY <1>1, <1>2, ElementOfSeq DEF Converts
  <2> QED
    BY <1>2, <2>1, WordSize DEF GroupValue, Words
<1>3. CASE r.data_type \notin {"RAW", "DIGITAL"}
  <2>1. r.data_type \in DataTypes \ {"RAW", "DIGITAL"} /\ r.data_endian \in Endians
        /\ Len(s) >= Taken(r.data_type)
    BY <1>3 DEF Row, Converts
  <2> QED
    BY <1>3, <2>1, ConvertInt DEF GroupValue
<1> QED
  BY <1>2, <1>3

LEMMA LongSlice ==
  ASSUME NEW r \in Row, NEW k \in Nat, NEW d \in Seq(Words), Len(d) >= k + MaxLength
  PROVE  GroupSlice(r, d, k) \in Seq(Words)
<1> DEFINE n == IF r.data_type \in {"RAW", "DIGITAL"} THEN 1 ELSE r.register_length
<1>1. n \in Nat /\ n <= MaxLength /\ MaxLength \in Nat /\ Len(d) \in Nat
  BY RowAssumption, LenProperties DEF Row
<1>2. GroupSlice(r, d, k) = SubSeq(d, k + 1, k + n)
  BY DEF GroupSlice
<1> HIDE DEF n
<1>3. \A i \in k + 1..k + n : d[i] \in Words
  <2> SUFFICES ASSUME NEW i \in k + 1..k + n PROVE d[i] \in Words
    OBVIOUS
  <2>1. i \in 1..Len(d)
    BY <1>1
  <2> QED
    BY <2>1, ElementOfSeq
<1>4. SubSeq(d, k + 1, k + n) \in Seq(Words)
  BY <1>1, <1>3, SubSeqProperties
<1> QED
  BY <1>2, <1>4

\* The answer to a written group, from the first of its registers on.
LEMMA WrittenSlice ==
  ASSUME NEW w \in Row, NEW r \in Row, NEW c \in Commands, NEW m \in Memories, NEW k \in Places
  PROVE  GroupSlice(r, SubSeq(m, 1, k) \o WrittenInGroup(w, c) \o m, k) \in Seq(Words)
<1> DEFINE a == SubSeq(m, 1, k)
           b == WrittenInGroup(w, c)
           d == a \o b \o m
<1>1. /\ m \in Seq(Words) /\ Len(m) >= k + MaxLength /\ Len(m) \in Nat
      /\ MaxLength \in Nat /\ k \in Nat
  BY RowAssumption, LenProperties
<1>2. b \in Seq(Words) /\ Len(b) \in Nat
  BY BuildProperties, LenProperties DEF WrittenInGroup, Row
<1>3. a \in Seq(Words) /\ Len(a) = k
  <2>1. \A i \in 1..k : m[i] \in Words
    <3> SUFFICES ASSUME NEW i \in 1..k PROVE m[i] \in Words
      OBVIOUS
    <3>1. i \in 1..Len(m)
      BY <1>1
    <3> QED
      BY <1>1, <3>1, ElementOfSeq
  <2> QED
    BY <1>1, <2>1, SubSeqProperties
<1> HIDE DEF a, b
<1>4. a \o b \in Seq(Words) /\ Len(a \o b) = k + Len(b)
  BY <1>1, <1>2, <1>3, ConcatProperties
<1>5. d \in Seq(Words) /\ Len(d) = (k + Len(b)) + Len(m)
  <2> DEFINE ab == a \o b
  <2>1. ab \in Seq(Words) /\ Len(ab) = k + Len(b)
    BY <1>4
  <2> HIDE DEF ab
  <2>2. ab \o m \in Seq(Words) /\ Len(ab \o m) = Len(ab) + Len(m)
    BY <1>1, <2>1, ConcatProperties
  <2> QED
    BY <2>1, <2>2 DEF ab
<1> HIDE DEF d
<1>6. Len(d) >= k + MaxLength
  BY <1>1, <1>2, <1>5
<1>7. GroupSlice(r, d, k) \in Seq(Words)
  BY <1>1, <1>5, <1>6, LongSlice
<1> QED
  BY <1>7 DEF d, a, b

\* The answer to written coils begins with the command, which is no word of
\* necessity.
LEMMA CoilInt ==
  ASSUME NEW r \in Row, NEW c \in Commands, NEW m \in Memories,
         r.data_type \in {"RAW", "DIGITAL"} \/ Cut(c) \in Words,
         Converts(r, GroupSlice(r, <<Cut(c)>> \o m, 0))
  PROVE  GroupValue(r, GroupSlice(r, <<Cut(c)>> \o m, 0)) \in Int
<1> DEFINE d == <<Cut(c)>> \o m
<1>1. /\ Cut(c) \in Int /\ m \in Seq(Words) /\ Len(m) \in Nat /\ 0 \in Nat
      /\ Len(m) >= MaxLength /\ MaxLength \in Nat
  <2>1. 0 \in Places /\ c \in Int
    BY RowAssumption
  <2>2. m \in Seq(Words) /\ Len(m) >= 0 + MaxLength /\ MaxLength \in Nat
    BY <2>1, RowAssumption
  <2> QED
    BY <2>1, <2>2, CutInt, LenProperties
<1>2. CASE r.data_type \in {"RAW", "DIGITAL"}
  <2>1. GroupSlice(r, d, 0) = SubSeq(d, 1, 1)
    BY <1>2 DEF GroupSlice
  <2>2. SubSeq(d, 1, 1)[1] = Cut(c)
    <3>1. m \in Seq(Int)
      BY <1>1, WordSize DEF Words
    <3>2. d \in Seq(Int) /\ Len(d) = 1 + Len(m) /\ d[1] = Cut(c)
      BY <1>1, <3>1
    <3> HIDE DEF d
    <3>3. \A i \in 1..1 : d[i] \in Int
      BY <1>1, <3>2
    <3>4. \A i \in 1..1 - 1 + 1 : SubSeq(d, 1, 1)[i] = d[1 + i - 1]
      BY <3>3, SubSeqProperties
    <3> QED
      BY <3>2, <3>4
  <2> QED
    BY <1>1, <1>2, <2>1, <2>2 DEF GroupValue
<1>3. CASE r.data_type \notin {"RAW", "DIGITAL"}
  <2>1. <<Cut(c)>> \in Seq(Words) /\ Len(<<Cut(c)>>) = 1
    BY <1>3
  <2>2. d \in Seq(Words) /\ Len(d) = 1 + Len(m)
    BY <1>1, <2>1, ConcatProperties
  <2> HIDE DEF d
  <2>3. GroupSlice(r, d, 0) \in Seq(Words)
    BY <1>1, <2>2, LongSlice
  <2> QED
    BY <2>3, GroupInt DEF d
<1> QED
  BY <1>2, <1>3

LEMMA AnswerInt ==
  ASSUME NEW r \in Row, NEW c \in Commands
  PROVE  AnswerAlone(r, c) \in Int
<1>1. c \in Int /\ Cut(c) \in Int
  BY RowAssumption, CutInt
<1> QED
  BY <1>1 DEF AnswerAlone, Bit

-----------------------------------------------------------------------------
(* The invariant: a row that no restart has left half edited came out of    *)
(* check_self, the ranges of the row and of those that requests under way   *)
(* read rise, and a store with a value has an original.                     *)

Checked == crashes = 0 => \E r \in Row : row = CheckSelf(r)
HasOriginal == point_store.value # None => point_store.value_original # None
LoadedRise == \A p \in Pollers : loaded[p] # None => Ranges(loaded[p])

Inv ==
  /\ TypeOK
  /\ RangesOrdered
  /\ ArrayIffWritable
  /\ Checked
  /\ HasOriginal
  /\ LoadedRise

\* An edit leaves valid ranges, whatever of them it sets.
LEMMA ValidRanges ==
  ASSUME NEW r \in Row, Ranges(r), NEW e \in Edits, Valid(r, e)
  PROVE  Ranges(Edited(r, e))
<1> DEFINE n == Edited(r, e)
<1>1. /\ n.input_min = IF "input_min" \in DOMAIN e THEN e["input_min"] ELSE r.input_min
      /\ n.input_max = IF "input_max" \in DOMAIN e THEN e["input_max"] ELSE r.input_max
      /\ n.scale_min = IF "scale_min" \in DOMAIN e THEN e["scale_min"] ELSE r.scale_min
      /\ n.scale_max = IF "scale_max" \in DOMAIN e THEN e["scale_max"] ELSE r.scale_max
  BY DEF Edited, Row
<1>2. /\ "input_min" \in DOMAIN e => Rising(e.input_min, r.input_max)
      /\ "input_max" \in DOMAIN e => Rising(n.input_min, e.input_max)
      /\ "scale_min" \in DOMAIN e => Rising(e.scale_min, r.scale_max)
      /\ "scale_max" \in DOMAIN e => Rising(n.scale_min, e.scale_max)
  BY DEF Valid
<1> HIDE DEF n
<1>3. Rising(n.input_min, n.input_max)
  BY <1>1, <1>2 DEF Ranges
<1>4. Rising(n.scale_min, n.scale_max)
  BY <1>1, <1>2 DEF Ranges
<1> QED
  BY <1>3, <1>4 DEF Ranges, n

LEMMA InitInv == Init => Inv
<1> SUFFICES ASSUME Init PROVE Inv
  OBVIOUS
<1>1. PICK r \in Rows : row = CheckSelf(r)
  BY DEF Init
<1>2. r \in Row /\ Ranges(r)
  BY RowAssumption DEF Ranges
<1>3. row \in Row /\ Ranges(row) /\ row.writable = IsWritable(row)
  BY <1>1, <1>2, CheckSelfRow
<1>4. TypeOK
  BY <1>3, RowAssumption DEF Init, TypeOK, Store, Row
<1>5. RangesOrdered /\ ArrayIffWritable /\ Checked
  BY <1>1, <1>2, <1>3 DEF Init, RangesOrdered, Ranges, ArrayIffWritable, Checked
<1>6. HasOriginal /\ LoadedRise
  BY DEF Init, HasOriginal, LoadedRise
<1> QED
  BY <1>4, <1>5, <1>6 DEF Inv

\* The end of a request, whatever it stores.
LEMMA PolledInv ==
  ASSUME Inv, NEW p \in Pollers, NEW store \in Store, Polled(p, store),
         store.value # None => store.value_original # None
  PROVE  Inv'
<1>1. /\ UNCHANGED <<row, priority_array_write, crashes>> /\ point_store' = store
      /\ loaded' = [loaded EXCEPT ![p] = None]
      /\ loaded \in [Pollers -> Row \cup {None}]
  BY DEF Polled, Inv, TypeOK
<1>2. TypeOK'
  BY <1>1 DEF Inv, TypeOK
<1>3. RangesOrdered' /\ ArrayIffWritable' /\ Checked' /\ HasOriginal'
  BY <1>1 DEF Inv, RangesOrdered, ArrayIffWritable, Checked, HasOriginal
<1>4. LoadedRise'
  BY <1>1 DEF Inv, LoadedRise
<1> QED
  BY <1>2, <1>3, <1>4 DEF Inv

LEMMA FaultyStore ==
  ASSUME Inv
  PROVE  /\ Faulty \in Store /\ Faulty.fault = TRUE
         /\ Faulty.value # None => Faulty.value_original # None
BY DEF Inv, TypeOK, Store, Faulty, HasOriginal

LEMMA FreshStore ==
  ASSUME NEW r \in Row, Ranges(r), NEW v \in Int
  PROVE  Fresh(r, v) \in Store /\ Fresh(r, v).value_original # None
<1>1. Scaled(r, v) \in Int
  BY ScaledInt
<1> QED
  BY <1>1, RowAssumption DEF Fresh, Store

LEMMA PatchInv ==
  ASSUME Inv, NEW e \in Edits, Patch(e)
  PROVE  Inv'
<1> DEFINE n == Edited(row, e)
<1>1. row \in Row /\ Ranges(row) /\ point_store \in Store /\ crashes \in 0..MaxCrashes
  BY DEF Inv, TypeOK, RangesOrdered, Ranges
<1>2. /\ row' = CheckSelf(n) /\ priority_array_write' = row'.writable
      /\ point_store' = Rescaled(row') /\ crashes' = crashes
      /\ loaded' = loaded /\ loaded \in [Pollers -> Row \cup {None}]
  BY DEF Patch, Inv, TypeOK
<1>3. n \in Row /\ Ranges(n)
  BY <1>1, EditedRow, ValidRanges DEF Patch
<1> HIDE DEF n
<1>4. row' \in Row /\ Ranges(row') /\ row'.writable = IsWritable(row')
  BY <1>2, <1>3, CheckSelfRow
<1>5. RangesOrdered' /\ ArrayIffWritable' /\ Checked' /\ LoadedRise'
  <2>1. RangesOrdered'
    BY <1>4 DEF RangesOrdered, Ranges
  <2>2. ArrayIffWritable'
    BY <1>2, <1>4 DEF ArrayIffWritable
  <2>3. Checked'
    BY <1>2, <1>3 DEF Checked
  <2>4. LoadedRise'
    BY DEF Patch, Inv, LoadedRise
  <2> QED
    BY <2>1, <2>2, <2>3, <2>4
<1>6. CASE point_store.fault \/ point_store.value = None
  <2>1. point_store' = point_store
    BY <1>1, <1>2, <1>6 DEF Rescaled, Store
  <2> QED
    BY <1>1, <1>2, <1>4, <1>5, <1>6, <2>1 DEF Inv, TypeOK, HasOriginal, Row
<1>7. CASE ~point_store.fault /\ point_store.value # None
  <2>1. point_store.value_original \in Int
    BY <1>1, <1>7 DEF Inv, HasOriginal, Store
  <2>2. /\ point_store'.value = Scaled(row', point_store.value_original)
        /\ point_store'.value_original = point_store.value_original
        /\ point_store'.fault = point_store.fault
        /\ Scaled(row', point_store.value_original) \in Int => point_store' \in Store
    BY <1>1, <1>2, <1>7 DEF Rescaled, Store
  <2>3. Scaled(row', point_store.value_original) \in Int
    BY <1>4, <2>1, ScaledInt
  <2>4. TypeOK'
    BY <1>1, <1>2, <1>4, <2>2, <2>3 DEF TypeOK, Row
  <2>5. HasOriginal'
    BY <2>1, <2>2, RowAssumption DEF HasOriginal
  <2> QED
    BY <1>5, <2>4, <2>5 DEF Inv
<1> QED
  BY <1>6, <1>7

\* Restarts during an edit: the store stays behind the row.
LEMMA CutInv ==
  ASSUME Inv, NEW e \in Edits, PatchCut(e) \/ PatchCutInCheck(e)
  PROVE  Inv'
<1> DEFINE n == Edited(row, e)
<1>1. /\ row \in Row /\ Ranges(row) /\ point_store \in Store /\ crashes \in 0..MaxCrashes
      /\ MaxCrashes \in Nat
  BY RowAssumption DEF Inv, TypeOK, RangesOrdered, Ranges
<1>2. /\ Valid(row, e) /\ crashes < MaxCrashes /\ crashes' = crashes + 1
      /\ point_store' = point_store
      /\ loaded' = [p \in Pollers |-> None]
  BY DEF PatchCut, PatchCutInCheck, Restart
<1>3. n \in Row /\ Ranges(n)
  BY <1>1, <1>2, EditedRow, ValidRanges
<1> HIDE DEF n
<1>4. /\ row' \in Row /\ Ranges(row') /\ row'.writable = IsWritable(row')
      /\ priority_array_write' = row'.writable
  <2>1. CASE PatchCut(e)
    BY <1>3, <2>1, CheckSelfRow DEF PatchCut, n
  <2>2. CASE PatchCutInCheck(e)
    <3>1. row' = Marked(n) /\ ~IsWritable(n) /\ priority_array_write' = FALSE
      BY <2>2 DEF PatchCutInCheck, n
    <3>2. IsWritable(n) \in BOOLEAN
      BY DEF IsWritable
    <3> QED
      BY <1>3, <3>1, <3>2, MarkedRow
  <2> QED
    BY <2>1, <2>2
<1>5. crashes' \in 1..MaxCrashes
  BY <1>1, <1>2
<1>6. TypeOK'
  BY <1>1, <1>2, <1>4, <1>5 DEF TypeOK, Row
<1>7. RangesOrdered' /\ ArrayIffWritable'
  BY <1>4 DEF RangesOrdered, Ranges, ArrayIffWritable
<1>8. Checked' /\ HasOriginal'
  BY <1>2, <1>5 DEF Inv, Checked, HasOriginal
<1>9. LoadedRise'
  BY <1>2 DEF LoadedRise, PatchCut, PatchCutInCheck, Restart
<1> QED
  BY <1>6, <1>7, <1>8, <1>9 DEF Inv

\* What a step of a poll does: its request begins, or it is over and stores a
\* fault, nothing, or a number scaled by the row it read or by the present one.
LEMMA PollStep ==
  ASSUME Inv, NEW p \in Pollers, Poll(p)
  PROVE  \/ Request(p)
         \/ /\ loaded[p] # None
            /\ \/ Polled(p, Faulty)
               \/ Polled(p, point_store)
               \/ \E r \in {loaded[p], row}, v \in Int : Polled(p, Answered(r, v))
<1> DEFINE Stores == \E r \in {loaded[p], row}, v \in Int : Polled(p, Answered(r, v))
<1>1. row \in Row /\ loaded[p] \in Row \cup {None}
  BY DEF Inv, TypeOK
<1>2. ASSUME NEW k \in Places, NEW r \in Decoding(p, k) PROVE r \in {loaded[p], row}
  BY <1>2 DEF Decoding
<1>3. CASE Request(p)
  BY <1>3
<1>4. ASSUME NEW m \in Memories, NEW k \in Places, ReadAlone(p, m, k)
      PROVE  loaded[p] # None /\ (Polled(p, Faulty) \/ Stores)
  <2>1. loaded[p] # None /\ loaded[p] \in Row
    BY <1>1, <1>4 DEF ReadAlone, Asked
  <2>2. CASE HasValue(loaded[p])
    <3>1. AloneValue(loaded[p], m, k) \in Int
      BY <1>4, <2>1, <2>2, AloneInt DEF ReadAlone
    <3>2. Polled(p, Answered(loaded[p], AloneValue(loaded[p], m, k)))
      BY <1>4, <2>2 DEF ReadAlone
    <3> QED
      BY <2>1, <3>1, <3>2
  <2>3. CASE ~HasValue(loaded[p])
    BY <1>4, <2>1, <2>3 DEF ReadAlone
  <2> QED
    BY <2>2, <2>3
<1>5. ASSUME NEW m \in Memories, NEW k \in Places, ReadInGroup(p, m, k)
      PROVE  loaded[p] # None /\ Stores
  <2>1. loaded[p] # None /\ loaded[p] \in Row
    BY <1>1, <1>5 DEF ReadInGroup, Asked
  <2>2. PICK r \in Decoding(p, k) : StoresSlice(p, r, GroupSlice(r, Data(loaded[p], m), k))
    BY <1>5 DEF ReadInGroup
  <2> DEFINE s == GroupSlice(r, Data(loaded[p], m), k)
             z == IF r.data_type \in {"RAW", "DIGITAL"} THEN 1 ELSE r.register_length
  <2>3. r \in {loaded[p], row} /\ r \in Row
    BY <1>1, <1>2, <2>1
  <2>4. z \in Nat /\ z <= MaxLength
    BY <2>3, RowAssumption DEF Row
  <2>5. s \in Seq(Words)
    BY <2>1, <2>4, SliceProperties DEF GroupSlice
  <2>6. Converts(r, s) /\ Polled(p, Answered(r, GroupValue(r, s)))
    BY <2>2 DEF StoresSlice
  <2>7. GroupValue(r, s) \in Int
    BY <2>3, <2>5, <2>6, GroupInt
  <2> QED
    BY <2>1, <2>3, <2>6, <2>7
<1>6. ASSUME NEW c \in Commands, WriteAlone(p, c)
      PROVE  loaded[p] # None /\ Stores
  <2>1. loaded[p] # None /\ loaded[p] \in Row
    BY <1>1, <1>6 DEF WriteAlone, Asked
  <2>2. AnswerAlone(loaded[p], c) \in Int
    BY <2>1, AnswerInt
  <2> QED
    BY <1>6, <2>1, <2>2 DEF WriteAlone
<1>7. ASSUME NEW c \in Commands, NEW m \in Memories, NEW k \in Places, WriteInGroup(p, c, m, k)
      PROVE  loaded[p] # None /\ Stores
  <2>1. loaded[p] # None /\ loaded[p] \in Row
    BY <1>1, <1>7 DEF WriteInGroup, Asked
  <2> DEFINE d == SubSeq(m, 1, k) \o WrittenInGroup(loaded[p], c) \o m
  <2>2. PICK r \in Decoding(p, k) : StoresSlice(p, r, GroupSlice(r, d, k))
    BY <1>7 DEF WriteInGroup
  <2>3. r \in {loaded[p], row} /\ r \in Row
    BY <1>1, <1>2, <2>1
  <2>4. GroupSlice(r, d, k) \in Seq(Words)
    BY <2>1, <2>3, WrittenSlice
  <2> HIDE DEF d
  <2>5. /\ Converts(r, GroupSlice(r, d, k))
        /\ Polled(p, Answered(r, GroupValue(r, GroupSlice(r, d, k))))
    BY <2>2 DEF StoresSlice
  <2>6. GroupValue(r, GroupSlice(r, d, k)) \in Int
    BY <2>3, <2>4, <2>5, GroupInt
  <2> QED
    BY <2>1, <2>3, <2>5, <2>6
<1>8. ASSUME NEW c \in Commands, NEW m \in Memories, NEW k \in Places,
             WriteCoilInGroup(p, c, m, k)
      PROVE  loaded[p] # None /\ Stores
  <2>1. loaded[p] # None /\ loaded[p] \in Row
    BY <1>1, <1>8 DEF WriteCoilInGroup, Asked
  <2> DEFINE d == <<Cut(c)>> \o m
  <2>2. PICK r \in Decoding(p, k) :
          /\ r.data_type \in {"RAW", "DIGITAL"} \/ Cut(c) \in Words
          /\ StoresSlice(p, r, GroupSlice(r, d, 0))
    BY <1>8 DEF WriteCoilInGroup
  <2>3. r \in {loaded[p], row} /\ r \in Row
    BY <1>1, <1>2, <2>1
  <2>4. /\ Converts(r, GroupSlice(r, d, 0))
        /\ Polled(p, Answered(r, GroupValue(r, GroupSlice(r, d, 0))))
    BY <2>2 DEF StoresSlice
  <2>5. GroupValue(r, GroupSlice(r, d, 0)) \in Int
    BY <2>2, <2>3, <2>4, CoilInt
  <2> QED
    BY <2>1, <2>3, <2>4, <2>5
<1>9. CASE PollFault(p)
  BY <1>9 DEF PollFault
<1>10. CASE PollLost(p)
  BY <1>10 DEF PollLost
<1> QED
  BY <1>3, <1>4, <1>5, <1>6, <1>7, <1>8, <1>9, <1>10 DEF Poll

LEMMA PollInv ==
  ASSUME Inv, NEW p \in Pollers, Poll(p)
  PROVE  Inv'
<1>1. /\ row \in Row /\ Ranges(row) /\ point_store \in Store
      /\ loaded \in [Pollers -> Row \cup {None}]
      /\ point_store.value # None => point_store.value_original # None
  BY DEF Inv, TypeOK, RangesOrdered, Ranges, HasOriginal
<1>2. CASE Request(p)
  <2>1. /\ loaded' = [loaded EXCEPT ![p] = row]
        /\ UNCHANGED <<row, priority_array_write, point_store, crashes>>
    BY <1>2 DEF Request
  <2>2. LoadedRise'
    BY <1>1, <2>1 DEF Inv, LoadedRise
  <2>3. TypeOK'
    BY <1>1, <2>1 DEF Inv, TypeOK
  <2> QED
    BY <2>1, <2>2, <2>3 DEF Inv, RangesOrdered, ArrayIffWritable, Checked, HasOriginal
<1>3. CASE Polled(p, Faulty)
  BY <1>3, FaultyStore, PolledInv
<1>4. CASE Polled(p, point_store)
  BY <1>1, <1>4, PolledInv
<1>5. ASSUME loaded[p] # None, NEW r \in {loaded[p], row}, NEW v \in Int,
             Polled(p, Answered(r, v))
      PROVE  Inv'
  <2>1. r \in Row /\ Ranges(r)
    BY <1>1, <1>5 DEF Inv, LoadedRise
  <2>2. Answered(r, v) \in {point_store, Fresh(r, v)}
    BY DEF Answered
  <2>3. /\ Answered(r, v) \in Store
        /\ Answered(r, v).value # None => Answered(r, v).value_original # None
    BY <1>1, <2>1, <2>2, FreshStore
  <2> QED
    BY <1>5, <2>3, PolledInv
<1> QED
  BY <1>2, <1>3, <1>4, <1>5, PollStep

LEMMA StepInv == Inv /\ [Next]_vars => Inv'
<1> SUFFICES ASSUME Inv, [Next]_vars PROVE Inv'
  OBVIOUS
<1>1. ASSUME NEW e \in Edits, Patch(e) \/ PatchCut(e) \/ PatchCutInCheck(e) PROVE Inv'
  BY <1>1, PatchInv, CutInv
<1>2. ASSUME NEW p \in Pollers, Poll(p) PROVE Inv'
  BY <1>2, PollInv
<1>3. CASE UNCHANGED vars
  BY <1>3 DEF vars, Inv, TypeOK, RangesOrdered, ArrayIffWritable, Checked, HasOriginal, LoadedRise
<1> QED
  BY <1>1, <1>2, <1>3, RowAssumption DEF Next, Editing

LEMMA Invariance == Spec => []Inv
BY InitInv, StepInv, PTL DEF Spec

\* A row of a point that is read has the length of its type, and coils are
\* DIGITAL, because check_self leaves its function code alone.
LEMMA ReadRow ==
  ASSUME NEW r \in Row, CheckSelf(r).function_code \in ReadCoils \cup ReadRegisters
  PROVE  LET c == CheckSelf(r)
         IN  /\ c.function_code \in ReadCoils => c.data_type = "DIGITAL"
             /\ c.data_type \in {"FLOAT", "INT32", "UINT32"} => c.register_length = 2
<1> DEFINE c == CheckSelf(r)
<1>1. c.function_code = Adjusted(r) /\ c.function_code \in ReadCoils \cup ReadRegisters
  BY CheckSelfFields
<1>2. /\ c.data_type = IF r.function_code \in ReadCoils \cup {"WRITE_COIL"}
                       THEN "DIGITAL" ELSE r.data_type
      /\ c.register_length = IF r.function_code \in ReadCoils \cup {"WRITE_COIL"} THEN 1
                             ELSE IF r.data_type \in {"FLOAT", "INT32", "UINT32"} THEN 2
                             ELSE r.register_length
  BY CheckSelfFields
<1> HIDE DEF c
<1>3. r.function_code = c.function_code
  BY <1>1 DEF Adjusted, ReadCoils, ReadRegisters
<1>4. /\ c.function_code \in ReadCoils => c.data_type = "DIGITAL"
      /\ c.data_type \in {"FLOAT", "INT32", "UINT32"} => c.register_length = 2
  BY <1>2, <1>3
<1> QED
  BY <1>4 DEF c

\* Of a row that is read, the group takes the same words as a poll of its own.
LEMMA SameRead ==
  ASSUME Inv, crashes = 0,
         row.function_code \in ReadCoils \cup ReadRegisters,
         row.register_length > 0, HasValue(row),
         NEW m \in Memories, NEW k \in Places
  PROVE  LET slice == GroupSlice(row, Data(row, m), k)
         IN  Converts(row, slice) /\ GroupValue(row, slice) = AloneValue(row, m, k)
<1> DEFINE n == row.register_length
           l == DataLength(row.data_type, n)
           g == GroupSlice(row, Data(row, m), k)
           z == IF row.data_type \in {"RAW", "DIGITAL"} THEN 1 ELSE n
           a == SubSeq(Data(row, m), k + 1, k + l)
           t == Taken(row.data_type)
<1>1. row \in Row /\ n \in Nat /\ n > 0 /\ n <= MaxLength
  BY RowAssumption DEF Inv, TypeOK, Row
<1>2. PICK r \in Row : row = CheckSelf(r)
  BY DEF Inv, Checked
<1>3. /\ row.function_code \in ReadCoils => row.data_type = "DIGITAL"
      /\ row.data_type \in {"FLOAT", "INT32", "UINT32"} => n = 2
  BY <1>2, ReadRow
<1>4. l \in Nat /\ (l <= MaxLength \/ l <= 4) /\ l >= n
  BY <1>1, DataLengthProperties
<1>4a. z \in Nat /\ z > 0 /\ z <= n /\ z <= MaxLength
  BY <1>1, RowAssumption
<1>5. t \in Nat /\ t <= z
  BY <1>1, <1>3 DEF Taken
<1>6. g \in Seq(Words) /\ Len(g) = z /\ \A i \in 1..z : g[i] = Data(row, m)[k + i]
  BY <1>1, <1>4a, SliceProperties DEF GroupSlice
<1>7. a \in Seq(Words) /\ Len(a) = l /\ \A i \in 1..l : a[i] = Data(row, m)[k + i]
  BY <1>1, <1>4, SliceProperties
<1>8. Converts(row, g)
  BY <1>4a, <1>5, <1>6 DEF Converts
<1>9. AloneValue(row, m, k) = IF row.function_code \in ReadCoils \/ row.data_type = "RAW"
                              THEN 2 * a[1] ELSE Convert(row.data_type, row.data_endian, a)
  BY DEF AloneValue
<1> HIDE DEF n, l, z, g, a, t
<1>10. CASE row.data_type \in {"RAW", "DIGITAL"}
  <2>1. g[1] = a[1]
    BY <1>1, <1>4, <1>4a, <1>6, <1>7
  <2>2. row.function_code \in ReadCoils \/ row.data_type = "RAW"
    BY <1>10 DEF HasValue
  <2>3. GroupValue(row, g) = AloneValue(row, m, k)
    BY <1>9, <1>10, <2>1, <2>2 DEF GroupValue
  <2> QED
    BY <1>8, <2>3 DEF g
<1>11. CASE row.data_type \notin {"RAW", "DIGITAL"}
  <2>1. row.function_code \notin ReadCoils
    BY <1>3, <1>11
  <2> DEFINE x == SubSeq(g, 1, t)
             y == SubSeq(a, 1, t)
  <2>2. x \in Seq(Words) /\ Len(x) = t /\ \A i \in 1..t : x[i] = g[i]
    BY <1>4a, <1>5, <1>6, ElementOfSeq, SubSeqProperties
  <2>3. y \in Seq(Words) /\ Len(y) = t /\ \A i \in 1..t : y[i] = a[i]
    BY <1>1, <1>4, <1>4a, <1>5, <1>7, ElementOfSeq, SubSeqProperties
  <2>4. \A i \in 1..t : x[i] = y[i]
    BY <1>1, <1>4, <1>4a, <1>5, <1>6, <1>7, <2>2, <2>3
  <2> HIDE DEF x, y
  <2>5. x = y
    BY <2>2, <2>3, <2>4, SeqEqual
  <2>6. GroupValue(row, g) = AloneValue(row, m, k)
    BY <1>9, <1>11, <2>1, <2>5 DEF GroupValue, Convert, x, y, t
  <2> QED
    BY <1>8, <2>6 DEF g
<1> QED
  BY <1>10, <1>11

\* A settled row of full width is a single register of 16 bits or several.
LEMMA FullRow ==
  ASSUME NEW r \in Row, CheckSelf(r) = r, r.function_code \in WriteRegisters, FullWidth(r)
  PROVE  /\ r.data_type \in {"INT16", "UINT16"} => r.register_length = 1
         /\ r.data_type \in {"INT32", "UINT32", "FLOAT"} => r.register_length = 2
         /\ r.function_code = "WRITE_REGISTER" => r.data_type \in {"INT16", "UINT16"}
<1>1. /\ Adjusted(r) = r.function_code
      /\ r.data_type \in {"FLOAT", "INT32", "UINT32"} => r.register_length = 2
  BY CheckSelfFields DEF WriteRegisters, ReadCoils
<1> QED
  BY <1>1 DEF FullWidth, Adjusted, WriteRegisters

LEMMA SameWritten ==
  ASSUME NEW r \in Row, CheckSelf(r) = r, r.function_code \in WriteRegisters,
         FullWidth(r), NEW c \in Commands, WritesAlone(r, c)
  PROVE  /\ WrittenInGroup(r, c) =
              IF BigEndianIfSingle(r) THEN WrittenAlone(r, c) ELSE <<Swapped(WrittenAlone(r, c)[1])>>
         /\ Len(WrittenAlone(r, c)) = r.register_length
<1> DEFINE w == WordsOf(r.data_type, c)
<1>1. /\ c \in Int /\ FloatBits(c) \in 0..Word * Word - 1
      /\ DoubleWords(c) \in Seq(Words) /\ Len(DoubleWords(c)) = 4
      /\ r.data_type \in DataTypes /\ r.data_endian \in Endians
  BY RowAssumption DEF Row
<1>2. /\ r.data_type \in {"INT16", "UINT16"} => r.register_length = 1
      /\ r.data_type \in {"INT32", "UINT32", "FLOAT"} => r.register_length = 2
      /\ r.function_code = "WRITE_REGISTER" => r.data_type \in {"INT16", "UINT16"}
      /\ r.data_type \in {"INT16", "UINT16", "INT32", "UINT32", "FLOAT"}
  BY FullRow DEF FullWidth
<1>3. w \in Seq(Words)
  BY <1>1, WordsOfProperties
<1>4. Len(w) = r.register_length
  <2>1. Len(w) = CASE r.data_type \in {"INT16", "UINT16"} -> 1
                   [] r.data_type \in {"INT32", "UINT32", "FLOAT"} -> 2
                   [] r.data_type = "DOUBLE" -> 4
                   [] OTHER -> 0
    BY <1>1, WordsOfProperties
  <2> HIDE DEF w
  <2> QED
    BY <1>2, <2>1
<1>5. Len(WrittenInGroup(r, c)) = r.register_length
  BY <1>1, <1>3, <1>4, OrderedProperties DEF WrittenInGroup, Build
<1>6. CASE r.function_code # "WRITE_REGISTER"
  BY <1>5, <1>6 DEF WrittenInGroup, WrittenAlone, BigEndianIfSingle
<1>7. CASE r.function_code = "WRITE_REGISTER"
  <2> DEFINE o == Ordered(w, r.data_endian)
             x == IF r.data_endian.bytes = "little" THEN Swapped(Cut(c)) ELSE Cut(c)
  <2>1. Cut(c) \in Words /\ Len(w) = 1
    BY <1>2, <1>4, <1>7 DEF WritesAlone
  <2>2. w = <<Cut(c)>>
    <3>1. Cut(c) % Word = Cut(c)
      BY <2>1, WordSize DEF Words
    <3> QED
      BY <1>2, <1>7, <3>1 DEF WordsOf
  <2>3. w[1] = Cut(c)
    BY <2>2
  <2> HIDE DEF w
  <2>4. o \in Seq(Words) /\ Len(o) = 1 /\ o[1] = x
    <3>1. /\ o \in Seq(Words) /\ Len(o) = Len(w)
          /\ \A i \in 1..Len(w) : o[i] =
               LET v == IF r.data_endian.words = "little" THEN w[Len(w) + 1 - i] ELSE w[i]
               IN  IF r.data_endian.bytes = "little" THEN Swapped(v) ELSE v
      BY <1>1, <1>3, OrderedProperties
    <3>2. 1 \in 1..Len(w) /\ Len(w) + 1 - 1 = 1
      BY <2>1
    <3> HIDE DEF o
    <3> QED
      BY <2>1, <2>3, <3>1, <3>2
  <2> HIDE DEF o
  <2>5. o = <<x>>
    <3>1. x \in Words
      BY <2>1, SwappedTwice
    <3>2. \A y \in Words : o[1] = y => o = <<y>>
      BY <2>4, SeqEqual
    <3>3. o[1] = x
      BY <2>4
    <3> HIDE DEF x
    <3> QED
      BY <3>1, <3>2, <3>3
  <2>6. WrittenInGroup(r, c) = <<x>>
    BY <2>5 DEF WrittenInGroup, Build, o, w
  <2>7. WrittenAlone(r, c) = <<Cut(c)>> /\ WrittenAlone(r, c)[1] = Cut(c)
    BY <1>7 DEF WrittenAlone
  <2>8. BigEndianIfSingle(r) <=> r.data_endian.bytes # "little"
    BY <1>1, <1>7 DEF BigEndianIfSingle, Endians, Orders
  <2>9. Len(WrittenAlone(r, c)) = r.register_length
    BY <1>4, <2>1, <2>7
  <2> QED
    BY <2>6, <2>7, <2>8, <2>9
<1> QED
  BY <1>6, <1>7

-----------------------------------------------------------------------------
(* What the store shows.                                                   *)

LEMMA PatchShows ==
  ASSUME Inv, NEW e \in Edits, Patch(e)
  PROVE  Shows'
<1>1. point_store \in Store /\ point_store' = Rescaled(row')
  BY DEF Patch, Inv, TypeOK
<1>2. CASE point_store.fault \/ point_store.value = None
  <2>1. point_store' = point_store
    BY <1>1, <1>2 DEF Rescaled, Store
  <2> QED
    BY <1>2, <2>1 DEF Shows
<1>3. CASE ~point_store.fault /\ point_store.value # None
  <2>1. /\ point_store'.value = Scaled(row', point_store.value_original)
        /\ point_store'.value_original = point_store.value_original
    BY <1>1, <1>3 DEF Rescaled, Store
  <2> QED
    BY <2>1 DEF Shows
<1> QED
  BY <1>2, <1>3

\* Rows with the same ranges scale alike.
LEMMA SameRanges ==
  ASSUME NEW r, NEW s, NEW v,
         r.input_min = s.input_min, r.input_max = s.input_max,
         r.scale_min = s.scale_min, r.scale_max = s.scale_max
  PROVE  Scaled(r, v) = Scaled(s, v)
BY DEF Scaled

LEMMA PollShows ==
  ASSUME Inv, NEW p \in Pollers, Poll(p), ~Shows'
  PROVE  (Overtaken(p) /\ loaded'[p] = None) \/ (~Shows /\ row' = row)
<1>1. loaded \in [Pollers -> Row \cup {None}]
  BY DEF Inv, TypeOK
<1>2. ASSUME row' = row, point_store' = point_store PROVE ~Shows /\ row' = row
  BY <1>2 DEF Shows
<1>3. CASE Request(p)
  BY <1>2, <1>3 DEF Request
<1>4. CASE Polled(p, point_store)
  BY <1>2, <1>4 DEF Polled
<1>5. CASE Polled(p, Faulty)
  BY <1>5, FaultyStore DEF Polled, Shows
<1>6. ASSUME loaded[p] # None, NEW r \in {loaded[p], row}, NEW v \in Int,
             Polled(p, Answered(r, v))
      PROVE  (Overtaken(p) /\ loaded'[p] = None) \/ (~Shows /\ row' = row)
  <2>1. /\ row' = row /\ loaded'[p] = None
        /\ point_store' = point_store \/ point_store' = Fresh(r, v)
    BY <1>1, <1>6 DEF Polled, Answered
  <2>2. CASE point_store' = Fresh(r, v)
    <3>1. point_store'.value = Scaled(r, v) /\ point_store'.value_original = v
      BY <2>2 DEF Fresh
    <3>2. Scaled(r, v) # Scaled(row, v)
      BY <2>1, <3>1 DEF Shows
    <3>3. r = loaded[p]
      BY <3>2
    <3>4. Overtaken(p)
      BY <1>6, <3>2, <3>3, SameRanges DEF Overtaken
    <3> QED
      BY <2>1, <3>4
  <2> QED
    BY <1>2, <2>1, <2>2
<1> QED
  BY <1>3, <1>4, <1>5, <1>6, PollStep

-----------------------------------------------------------------------------
(* Theorems.                                                               *)

\* The variables keep their types; a point is only ever given numbers.
THEOREM TypeCorrect == Spec => []TypeOK
BY Invariance, PTL DEF Inv

\* A point has a priority array exactly if it can be written, across edits of
\* the function code and restarts in the middle of them.
THEOREM ArrayFits == Spec => []ArrayIffWritable
BY Invariance, PTL DEF Inv

\* No sequence of edits turns a range around.
THEOREM RangesRise == Spec => []RangesOrdered
BY Invariance, PTL DEF Inv

\* A store without fault shows its original value through the ranges of the
\* row, but for restarts that cut an edit and for answers of requests during
\* which the ranges were edited; the next edit makes good what these leave.
THEOREM StoreShows == Spec => StoreShowsRow
<1> DEFINE Excused == \/ crashes' # crashes
                      \/ \E p \in Pollers : Overtaken(p) /\ loaded'[p] = None
                      \/ ~Shows /\ row' = row
<1>1. ASSUME Inv, NEW e \in Edits, Patch(e) PROVE Shows'
  BY <1>1, PatchShows
<1>2. ASSUME Inv, NEW e \in Edits, PatchCut(e) \/ PatchCutInCheck(e) PROVE Excused
  <2>1. crashes \in Nat /\ crashes' = crashes + 1
    BY <1>2, RowAssumption DEF PatchCut, PatchCutInCheck, Restart, Inv, TypeOK
  <2> QED
    BY <2>1
<1>3. ASSUME Inv, NEW p \in Pollers, Poll(p), ~Shows' PROVE Excused
  BY <1>3, PollShows
<1>4. Inv /\ [Next]_vars => [~Shows' => Excused]_vars
  BY <1>1, <1>2, <1>3, RowAssumption DEF Next, Editing
<1> QED
  BY <1>4, Invariance, PTL DEF Spec, StoreShowsRow

\* Any row that is reached is settled after three more edits.
THEOREM Settling == Spec => []EditsSettle
<1>1. Inv => EditsSettle
  <2> SUFFICES ASSUME Inv PROVE EditsSettle
    OBVIOUS
  <2>1. row \in Row
    BY DEF Inv, TypeOK
  <2> QED
    BY <2>1, ThreeSettle DEF EditsSettle
<1> QED
  BY <1>1, Invariance, PTL

\* A group reads for a point what a poll of its own reads, at any place.
THEOREM SameReads == Spec => []GroupReadsAlone
<1>1. Inv => GroupReadsAlone
  BY SameRead DEF GroupReadsAlone
<1> QED
  BY <1>1, Invariance, PTL

\* A settled point of full width writes as many registers as it has, in a group
\* and by itself the same ones but for the bytes of a single register.
THEOREM SameWrites == Spec => []GroupWritesAlone
<1>1. Inv => row \in Row
  BY DEF Inv, TypeOK
<1>2. Inv => GroupWritesAlone
  BY <1>1, SameWritten DEF GroupWritesAlone, Settled
<1> QED
  BY <1>2, Invariance, PTL

\* What such a point shows after a write is what its registers give when read.
THEOREM ReadsBack == Spec => []WrittenReadsBack
<1>1. ASSUME Inv, Settled, row.function_code \in WriteRegisters, FullWidth(row),
             BigEndianIfSingle(row), NEW c \in Commands, WritesAlone(row, c),
             Holds(row.data_type, c)
      PROVE  AnswerAlone(row, c)
               = Convert(row.data_type, row.data_endian, WrittenAlone(row, c))
  <2>1. row \in Row /\ row.data_endian \in Endians
    BY <1>1 DEF Inv, TypeOK, Row
  <2>2. WrittenAlone(row, c) = Build(row.data_type, row.data_endian, c)
    BY <1>1, <2>1, SameWritten DEF Settled, WrittenInGroup
  <2>3. row.data_type \in {"INT16", "UINT16", "INT32", "UINT32", "FLOAT"}
    BY <1>1 DEF FullWidth
  <2>4. AnswerAlone(row, c) = c
    BY <1>1 DEF AnswerAlone, WriteCoils, WriteRegisters
  <2> QED
    BY <1>1, <2>1, <2>2, <2>3, <2>4, RoundTrip
<1>2. Inv => WrittenReadsBack
  BY <1>1 DEF WrittenReadsBack
<1> QED
  BY <1>2, Invariance, PTL
=============================================================================
