--------------------------- MODULE MCSmileDecoder ---------------------------
(* Payloads for SmileDecoder: documents shaped like shard metadata, and    *)
(* documents that drive the intern tables past the short-reference range, *)
(* encoded under every combination of the sharing flags (and, for those   *)
(* with binaries, of the raw-binary flag); every truncation of four of    *)
(* them; each with its header flags byte replaced; and a few malformed    *)
(* payloads.                                                               *)
EXTENDS SmileDecoder

Str(s) == StrV(s)
a == 97

(* Shard metadata: the files array with two records; the second repeats a *)
(* physical_name, so it is written as a shared value reference.           *)
File1 == ObjV(<< <<<<110>>, Str(<<95, a>>)>>, <<<<112>>, Str(<<95, 99>>)>>,
                 <<<<108>>, IntV(600)>>, <<<<115>>, IntV(100)>>,
                 <<<<104>>, BinV(<<1, 2>>)>> >>)
File2 == ObjV(<< <<<<110>>, Str(<<118, 95>>)>>, <<<<112>>, Str(<<95, 99>>)>>,
                 <<<<108>>, IntV(3)>>, <<<<104>>, BinV(<<>>)>> >>)
DocShard == ObjV(<< <<<<110>>, Str(<<115>>)>>, <<<<102>>, ArrV(<<File1, File2>>)>>,
                    <<<<105>>, IntV(-3)>> >>)

(* Distinct one- and two-letter strings. *)
Name(i) == IF i <= 8 THEN <<a + i - 1>> ELSE <<a + ((i - 9) \div 8), a + ((i - 9) % 8)>>

(* 66 distinct keys in six objects of eleven, then the same six again:   *)
(* the second time keys 65 and 66 are long shared-key references (index  *)
(* >= 64).                                                                 *)
KeysObj(j) == ObjV([i \in 1..11 |-> <<Name(11 * (j - 1) + i), BoolV(TRUE)>>])
DocManyKeys == ArrV([j \in 1..12 |-> KeysObj(IF j <= 6 THEN j ELSE j - 6)])

(* 33 distinct strings in three arrays of eleven, then again.             *)
ValsArr(j) == ArrV([i \in 1..11 |-> Str(Name(11 * (j - 1) + i))])
DocManyValues == ArrV([j \in 1..6 |-> ValsArr(IF j <= 3 THEN j ELSE j - 3)])

E == <<195, 169>>    \* a two-byte UTF-8 character
Rep(s, n) == FlattenSeq([i \in 1..n |-> s])

(* Every other token: empty key and string, long ASCII and Unicode keys   *)
(* and strings, short Unicode key and string, literals, a negative VInt,  *)
(* empty array and object.                                                  *)
DocMixed == ObjV(<< <<<<>>, Str(<<>>)>>, <<Rep(<<a>>, 65), Str(Rep(<<a>>, 65))>>,
                    <<E, Str(E)>>, <<Rep(E, 29), Str(Rep(E, 33))>>,
                    <<<<a>>, NullV>>, <<<<98>>, BoolV(FALSE)>>,
                    <<<<99>>, IntV(-1000)>>, <<<<100>>, ArrV(<<>>)>>,
                    <<<<101>>, ObjV(<<>>)>> >>)

(* Binaries of 0, 1, 7 and 8 bytes, with top bits set in several places:  *)
(* an empty, a partial, an exact and a split 7-bit group.                  *)
DocBinary == ArrV(<<BinV(<<>>), BinV(<<200>>), BinV(<<1, 130, 3, 4, 255, 6, 7>>),
                    BinV(<<128, 1, 2, 3, 4, 5, 6, 129>>)>>)

(* Floats at the edges of the widening: 1.5, -0, the smallest subnormal, *)
(* a subnormal of two bits, -infinity, a signalling NaN; doubles -2, 1,   *)
(* the smallest subnormal; BigIntegers of three bytes and of none.         *)
DocNumbers ==
  ArrV(<<F32V({22} \cup 23..29), F32V({31}), F32V({0}), F32V({3, 10}),
         F32V({31} \cup 23..30), F32V({0} \cup 23..30),
         F64V({62, 63}), F64V(52..61), F64V({0}),
         BigV(<<1, 0, 255>>), BigV(<<>>)>>)

(* Raw binary as Elasticsearch and OpenSearch write it; the documents with *)
(* binaries are also written 7-bit escaped.                                 *)
Flags == [keys : BOOLEAN, values : BOOLEAN, raw : {TRUE}]
AllFlags == [keys : BOOLEAN, values : BOOLEAN, raw : BOOLEAN]
Limit == 1024

Encoded == {[doc |-> d, flags |-> f, data |-> Encode(d, f, Limit)] :
              d \in {DocShard, DocManyKeys, DocManyValues, DocMixed, DocNumbers}, f \in Flags}
           \cup {[doc |-> d, flags |-> f, data |-> Encode(d, f, Limit)] :
                   d \in {DocShard, DocBinary}, f \in AllFlags}

WellFormed == {[data |-> e.data, expect |-> Valued(e.doc), wellFormed |-> TRUE] : e \in Encoded}

Truncated ==
  UNION {{[data |-> SubSeq(e.data, 1, n), expect |-> NoValue, wellFormed |-> FALSE] :
            n \in 0..(Len(e.data) - 1)} :
           e \in {x \in Encoded : x.doc \in {DocShard, DocMixed, DocBinary, DocNumbers}}}

Reflagged ==
  {[data |-> [e.data EXCEPT ![4] = FlagsByte(g)], expect |-> Valued(e.doc), wellFormed |-> FALSE] :
     e \in Encoded, g \in AllFlags}

Malformed ==
  {[data |-> d, expect |-> NoValue, wellFormed |-> FALSE] :
     d \in {<<58, 41, 11, 4, 33>>,                   \* bad magic
            <<58, 41, 10, 4, 250, 128, a, 251>>,     \* object end as a value
            <<58, 41, 10, 4, 39>>,                   \* unknown value token
            <<58, 41, 10, 4, 250, 33>>}}             \* unknown key token

MCInputs == WellFormed \cup Truncated \cup Reflagged \cup Malformed

(* A VInt of more bits than the accumulator holds. *)
MCOverflowInputs ==
  {[data |-> <<58, 41, 10, 4, 36, 127, 127, 127, 128>>, expect |-> NoValue,
    wellFormed |-> FALSE]}

=============================================================================
