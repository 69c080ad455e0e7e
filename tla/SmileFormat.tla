----------------------------- MODULE SmileFormat -----------------------------
(***************************************************************************)
(* The value tree SmileParser produces (smile.rs enum SmileValue) and a   *)
(* reference SMILE encoder, written from the SMILE format specification   *)
(* that smile.rs cites and from spec section 4.1: the writer whose output *)
(* the decoder must read back.                                             *)
(*                                                                         *)
(* Strings and binaries are byte sequences.  The encoder keeps a table of *)
(* the keys and of the short string values it has written; a repeated one *)
(* is written as a back reference to its index.  A table that reaches     *)
(* `limit` entries is cleared   before the next one is added (the format *)
(* specification's limit of 1024, scaled down by the models that use it). *)
(* A binary is written raw (0xFD) when the header's raw-binary flag is on, *)
(* else 7-bit escaped (0xE8) as spec section 4.1 describes that dialect.   *)
(***************************************************************************)
EXTENDS Integers, Sequences, SequencesExt

NullV == [t |-> "null"]
BoolV(b) == [t |-> "bool", b |-> b]
IntV(n) == [t |-> "int", n |-> n]
StrV(s) == [t |-> "str", s |-> s]
BinV(s) == [t |-> "bin", s |-> s]
ArrV(items) == [t |-> "arr", items |-> items]
ObjV(pairs) == [t |-> "obj", pairs |-> pairs]
NoValue == [t |-> "none"]

(* A float as SmileValue holds it: the f64's bit pattern, given as the set *)
(* of positions (0 = least significant) of its one bits.                   *)
FloatV(bits) == [t |-> "float", bits |-> bits]

(* Writer-side numbers: a Java float or double by its bit pattern (a set  *)
(* of positions, as above), and a BigInteger by its bytes.                  *)
F32V(bits) == [t |-> "f32", bits |-> bits]
F64V(bits) == [t |-> "f64", bits |-> bits]
BigV(s) == [t |-> "big", s |-> s]

IsAscii(s) == \A i \in DOMAIN s : s[i] < 128

(* Zigzag encoding of a signed integer. *)
Zigzag(n) == IF n >= 0 THEN 2 * n ELSE -2 * n - 1

(* A SMILE VInt: 7-bit groups, big-endian, below 0x80; the last byte has  *)
(* its top bit set and carries the low 6 bits.                             *)
RECURSIVE VIntGroups(_)
VIntGroups(m) == IF m = 0 THEN <<>> ELSE VIntGroups(m \div 128) \o <<m % 128>>

EncodeVInt(n) == VIntGroups(n \div 64) \o <<128 + (n % 64)>>

(* A table entry added; the table is cleared first when it is full. *)
Seen(table, s, limit) == IF Len(table) = limit THEN <<s>> ELSE Append(table, s)

(* The zero-based index of the first entry s of the table, or -1. *)
IndexIn(table, s) ==
  LET I == {i \in 1..Len(table) : table[i] = s}
  IN  IF I = {} THEN -1 ELSE (CHOOSE m \in I : \A j \in I : m <= j) - 1

(* The bytes of a key, and the key table after it. *)
EncodeKey(k, keys, on, limit) ==
  IF k = <<>> THEN [out |-> <<32>>, keys |-> keys]
  ELSE IF on /\ IndexIn(keys, k) >= 0
  THEN LET i == IndexIn(keys, k) IN
       [out |-> IF i < 64 THEN <<64 + i>> ELSE <<48 + (i \div 256), i % 256>>,
        keys |-> keys]
  ELSE IF IsAscii(k) /\ Len(k) <= 64
  THEN [out |-> <<127 + Len(k)>> \o k,
        keys |-> IF on THEN Seen(keys, k, limit) ELSE keys]
  ELSE IF ~IsAscii(k) /\ Len(k) <= 57
  THEN [out |-> <<190 + Len(k)>> \o k,
        keys |-> IF on THEN Seen(keys, k, limit) ELSE keys]
  ELSE [out |-> <<52>> \o k \o <<252>>, keys |-> keys]

(* The bytes of a string value, and the value table after it. *)
EncodeString(s, vals, on, limit) ==
  IF s = <<>> THEN [out |-> <<32>>, vals |-> vals]
  ELSE IF on /\ Len(s) <= 64 /\ IndexIn(vals, s) >= 0
  THEN LET i == IndexIn(vals, s) IN
       [out |-> IF i < 31 THEN <<1 + i>> ELSE <<236 + (i \div 256), i % 256>>,
        vals |-> vals]
  ELSE IF IsAscii(s) /\ Len(s) <= 64
  THEN [out |-> <<63 + Len(s)>> \o s,
        vals |-> IF on THEN Seen(vals, s, limit) ELSE vals]
  ELSE IF ~IsAscii(s) /\ Len(s) <= 65
  THEN [out |-> <<126 + Len(s)>> \o s,
        vals |-> IF on /\ Len(s) <= 64 THEN Seen(vals, s, limit) ELSE vals]
  ELSE [out |-> <<IF IsAscii(s) THEN 224 ELSE 228>> \o s \o <<252>>, vals |-> vals]

(* Spec 4.1's 7-bit escaping: each run of up to seven bytes becomes a     *)
(* byte of their top bits (bit j for the run's byte j + 1), then their low *)
(* seven bits; the length prefix counts the escaped bytes.  The terms of   *)
(* SevenBitHeader are distinct powers of two or 0, so SumSet adds them.    *)
SevenBitHeader(c) == SumSet({(c[i] \div 128) * 2^(i - 1) : i \in DOMAIN c})

SevenBit(s) ==
  FlattenSeq([g \in 1..((Len(s) + 6) \div 7) |->
                LET c == SubSeq(s, 7 * (g - 1) + 1, Min({7 * g, Len(s)}))
                IN  <<SevenBitHeader(c)>> \o [i \in DOMAIN c |-> c[i] % 128]])

(* The bits lo..hi of a bit pattern as a number. *)
Window(bits, lo, hi) == SumSet({2^(i - lo) : i \in bits \cap lo..hi})

(* The real number an IEEE-754 pattern of w bits with an f-bit fraction   *)
(* stands for: its sign and the powers of two it is the sum of; or         *)
(* infinity with its sign; or NaN.                                          *)
FloatValue(bits, w, f) ==
  LET bias == 2^(w - f - 2) - 1
      sign == (w - 1) \in bits
      e == Window(bits, f, w - 2)
      m == bits \cap 0..(f - 1)
  IN  CASE e = 2 * bias + 1 /\ m = {} -> [kind |-> "inf", sign |-> sign]
        [] e = 2 * bias + 1 -> [kind |-> "nan"]
        [] e = 0 -> [kind |-> "num", sign |-> sign, powers |-> {i + 1 - bias - f : i \in m}]
        [] OTHER -> [kind |-> "num", sign |-> sign,
                     powers |-> {e - bias} \cup {i + e - bias - f : i \in m}]

(* A value with each float replaced by the number it stands for, and each *)
(* BigInteger by 0 (spec 4.1 lets the decoder represent it so).           *)
RECURSIVE Valued(_)
Valued(v) ==
  CASE v.t = "f32" -> [t |-> "float", value |-> FloatValue(v.bits, 32, 23)]
    [] v.t \in {"f64", "float"} -> [t |-> "float", value |-> FloatValue(v.bits, 64, 52)]
    [] v.t = "big" -> IntV(0)
    [] v.t = "arr" -> ArrV([i \in DOMAIN v.items |-> Valued(v.items[i])])
    [] v.t = "obj" -> ObjV([i \in DOMAIN v.pairs |-> <<v.pairs[i][1], Valued(v.pairs[i][2])>>])
    [] OTHER -> v

(* A float in five bytes, a double in ten: seven bits each, the first      *)
(* holding what is left at the top (4 bits, 1 bit).  A BigInteger (spec    *)
(* 4.1's dialect): its byte count, then its bytes.                          *)
SevenBitNumber(bits, n, top) ==
  [k \in 1..n |-> Window(bits, 7 * (n - k), IF k = 1 THEN top ELSE 7 * (n - k) + 6)]

(* Encoding state: output so far and both tables; flags is [keys, values, *)
(* raw].                                                                   *)
RECURSIVE EncodeValue(_, _, _, _), EncodeItems(_, _, _, _), EncodePairs(_, _, _, _)
EncodeValue(v, st, flags, limit) ==
  CASE v.t = "null" -> [st EXCEPT !.out = @ \o <<33>>]
    [] v.t = "bool" -> [st EXCEPT !.out = @ \o <<IF v.b THEN 35 ELSE 34>>]
    [] v.t = "int" /\ v.n \in -16..15 -> [st EXCEPT !.out = @ \o <<192 + Zigzag(v.n)>>]
    [] v.t = "int" -> [st EXCEPT !.out = @ \o <<36>> \o EncodeVInt(Zigzag(v.n))]
    [] v.t = "f32" -> [st EXCEPT !.out = @ \o <<40>> \o SevenBitNumber(v.bits, 5, 31)]
    [] v.t = "f64" -> [st EXCEPT !.out = @ \o <<41>> \o SevenBitNumber(v.bits, 10, 63)]
    [] v.t = "big" -> [st EXCEPT !.out = @ \o <<38>> \o EncodeVInt(Len(v.s)) \o v.s]
    [] v.t = "bin" /\ flags.raw ->
         [st EXCEPT !.out = @ \o <<253>> \o EncodeVInt(Len(v.s)) \o v.s]
    [] v.t = "bin" ->
         [st EXCEPT !.out = @ \o <<232>> \o EncodeVInt(Len(SevenBit(v.s))) \o SevenBit(v.s)]
    [] v.t = "str" ->
         LET e == EncodeString(v.s, st.vals, flags.values, limit)
         IN  [st EXCEPT !.out = @ \o e.out, !.vals = e.vals]
    [] v.t = "arr" ->
         LET inner == EncodeItems(v.items, [st EXCEPT !.out = @ \o <<248>>], flags, limit)
         IN  [inner EXCEPT !.out = @ \o <<249>>]
    [] v.t = "obj" ->
         LET inner == EncodePairs(v.pairs, [st EXCEPT !.out = @ \o <<250>>], flags, limit)
         IN  [inner EXCEPT !.out = @ \o <<251>>]

(* st.out is never empty inside a container; testing it makes TLC evaluate *)
(* the state at every step rather than defer one long chain of arguments. *)
EncodeItems(items, st, flags, limit) ==
  IF items = <<>> \/ st.out = <<>> THEN st
  ELSE EncodeItems(Tail(items), EncodeValue(Head(items), st, flags, limit), flags, limit)

EncodePairs(pairs, st, flags, limit) ==
  IF pairs = <<>> \/ st.out = <<>> THEN st
  ELSE LET k == EncodeKey(Head(pairs)[1], st.keys, flags.keys, limit)
           st2 == [st EXCEPT !.out = @ \o k.out, !.keys = k.keys]
       IN  EncodePairs(Tail(pairs), EncodeValue(Head(pairs)[2], st2, flags, limit),
                       flags, limit)

(* A whole payload: the header with the flags byte (Elasticsearch and    *)
(* OpenSearch turn raw binary on), then the value.                          *)
FlagsByte(flags) ==
  (IF flags.raw THEN 4 ELSE 0) + (IF flags.keys THEN 1 ELSE 0) + (IF flags.values THEN 2 ELSE 0)

Encode(v, flags, limit) ==
  <<58, 41, 10, FlagsByte(flags)>>
    \o EncodeValue(v, [out |-> <<>>, keys |-> <<>>, vals |-> <<>>], flags, limit).out

=============================================================================
