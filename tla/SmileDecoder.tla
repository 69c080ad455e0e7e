---------------------------- MODULE SmileDecoder ----------------------------
(***************************************************************************)
(* SmileParser (src/smile.rs): the single-pass SMILE decoder that turns   *)
(* the shard metadata payload into a value tree.                           *)
(*                                                                         *)
(* The input is a byte sequence `data`; `pos` is the parser's cursor      *)
(* (0-based, as in the code).  The code's recursion read_value ->          *)
(* decode_value_token -> read_value is an explicit `stack` of open arrays *)
(* and objects, and each step is one arm of read_key or                    *)
(* decode_value_token, or one turn of the array loop's peek.  `status` is *)
(* what the parser reads next: the header, a value, the next array item    *)
(* or array end, or an object key; "done" and "error" are parse's Ok and   *)
(* Err.                                                                    *)
(*                                                                         *)
(* Each input comes with the value it was encoded from (`expect`), or      *)
(* NoValue when no value should be decoded from it, and whether it is a    *)
(* writer's whole, unaltered output (`wellFormed`).                        *)
(*                                                                         *)
(* A bit pattern wider than TLC's integers (u32, u64, f64) is the set of   *)
(* positions of its one bits.  Not modelled: the raw_binary flag, which    *)
(* the parser records and never reads.                                     *)
(***************************************************************************)
EXTENDS SmileFormat, Bitwise

CONSTANTS
  Inputs,     \* set of [data, expect, wellFormed]: the payloads parsed
  VIntWidth   \* bits of read_unsigned_vint's u64 accumulator (scaled down)

VARIABLES
  data, expect, wellFormed, \* the input and what it encodes
  pos,                     \* SmileParser.pos
  shared_keys,             \* SmileParser.shared_keys
  shared_values,           \* SmileParser.shared_values
  shared_keys_enabled,     \* from the header's bit 0
  shared_values_enabled,   \* from the header's bit 1
  stack,                   \* open arrays and objects, innermost last
  status,                  \* "header", "value", "item", "key", "done", "error"
  result                   \* the value parse returns

vars == <<data, expect, wellFormed, pos, shared_keys, shared_values, shared_keys_enabled,
          shared_values_enabled, stack, status, result>>

Byte(p) == data[p + 1]
AtEnd(p) == p >= Len(data)
Bytes(p, n) == SubSeq(data, p + 1, p + n)

(* String::from_utf8's check, for one- and two-byte characters (the only *)
(* ones the inputs contain): every byte is ASCII, or a lead byte followed *)
(* by a continuation byte, or a continuation byte preceded by a lead byte. *)
Lead == 194..223
Cont == 128..191
IsUtf8(s) ==
  \A i \in DOMAIN s :
    \/ s[i] < 128
    \/ s[i] \in Lead /\ i < Len(s) /\ s[i + 1] \in Cont
    \/ s[i] \in Cont /\ i > 1 /\ s[i - 1] \in Lead

(* read_unsigned_vint from p: 7 bits per byte below 0x80, 6 bits from the *)
(* terminating byte, shifted into a u64 whose high bits fall off.          *)
RECURSIVE VIntFrom(_, _)
VIntFrom(p, acc) ==
  IF AtEnd(p) THEN [ok |-> FALSE]
  ELSE IF Byte(p) < 128
       THEN VIntFrom(p + 1, (acc * 128 + Byte(p)) % 2^VIntWidth)
       ELSE [ok |-> TRUE, value |-> (acc * 64 + (Byte(p) % 64)) % 2^VIntWidth,
             next |-> p + 1]

ReadUnsignedVInt(p) == VIntFrom(p, 0)

(* zigzag_decode: (n >> 1) ^ -(n & 1) *)
ZigzagDecode(n) == IF n % 2 = 0 THEN n \div 2 ELSE -(n \div 2) - 1

(* read_long_string from p: the bytes up to the first 0xFC or the end of  *)
(* the data, and the position after the marker (if there is one).         *)
(* Mutant: the 0xFC marker skipped even when the data ended first. *)
LongStringAtAlwaysSkips(p) ==
  LET ends == {e \in p..Len(data) : AtEnd(e) \/ Byte(e) = 252}
      e == CHOOSE x \in ends : \A y \in ends : x <= y
  IN  [s |-> SubSeq(data, p + 1, e), next |-> e + 1]

LongStringAt(p) ==
  LET ends == {e \in p..Len(data) : AtEnd(e) \/ Byte(e) = 252}
      e == CHOOSE x \in ends : \A y \in ends : x <= y
  IN  [s |-> SubSeq(data, p + 1, e), next |-> IF AtEnd(e) THEN e ELSE e + 1]

(* The parser's result for a finished value v: it becomes the result when *)
(* no container is open, else the next item of the innermost array, or    *)
(* the value of the innermost object's pending key.                        *)
Produce(st, v, p) ==
  /\ pos' = p
  /\ IF st = <<>>
     THEN /\ result' = v /\ status' = "done" /\ stack' = st
     ELSE LET top == st[Len(st)] IN
          /\ stack' = [st EXCEPT ![Len(st)] =
                IF top.kind = "array" THEN [top EXCEPT !.items = Append(@, v)]
                ELSE [top EXCEPT !.pairs = Append(@, <<top.key, v>>)]]
          /\ status' = IF top.kind = "array" THEN "item" ELSE "key"
          /\ UNCHANGED result

Fail == status' = "error" /\ UNCHANGED <<pos, stack, result>>

Intern(table, s, enabled) ==
  IF enabled /\ Len(s) <= 64 THEN Append(table, s) ELSE table

Init ==
  /\ \E i \in Inputs :
       data = i.data /\ expect = i.expect /\ wellFormed = i.wellFormed
  /\ pos = 0
  /\ shared_keys = <<>> /\ shared_values = <<>>
  /\ shared_keys_enabled = FALSE /\ shared_values_enabled = FALSE
  /\ stack = <<>>
  /\ status = "header"
  /\ result = NoValue

(* read_header: the three magic bytes and the feature-flag byte. *)
ReadHeader ==
  /\ status = "header"
  /\ IF Len(data) >= 4 /\ Bytes(0, 3) = <<58, 41, 10>>
     THEN /\ shared_keys_enabled' = (Byte(3) % 2 = 1)
          /\ shared_values_enabled' = ((Byte(3) \div 2) % 2 = 1)
          /\ pos' = 4
          /\ status' = "value"
          /\ UNCHANGED <<stack, result>>
     ELSE Fail /\ UNCHANGED <<shared_keys_enabled, shared_values_enabled>>
  /\ UNCHANGED <<data, expect, wellFormed, shared_keys, shared_values>>

(* The pending key of the innermost object is k; a value follows. *)
SetKey(k, p) ==
  /\ stack' = [stack EXCEPT ![Len(stack)].key = k]
  /\ pos' = p
  /\ status' = "value"
  /\ UNCHANGED result

KeyToken == Byte(pos)

(***************************************************************************)
(* read_key, one action per group of match arms.                           *)
(***************************************************************************)
(* 0xFB: the object ends and becomes a value of its parent. *)
KeyEnd ==
  /\ status = "key"
  /\ ~AtEnd(pos) /\ KeyToken = 251
  /\ Produce(Front(stack), ObjV(stack[Len(stack)].pairs), pos + 1)
  /\ UNCHANGED <<data, expect, wellFormed, shared_keys, shared_values, shared_keys_enabled,
                 shared_values_enabled>>

(* 0x40-0x7F and 0x30-0x33 (then one more byte) while key sharing is on:  *)
(* the key at that index of shared_keys, an error when out of range.      *)
KeySharedRef ==
  LET b == KeyToken
      long == b \in 48..51
      idx == IF long THEN (b - 48) * 256 + Byte(pos + 1) ELSE b - 64
  IN
  /\ status = "key"
  /\ ~AtEnd(pos) /\ b \in 48..51 \cup 64..127 /\ shared_keys_enabled
  /\ IF long /\ AtEnd(pos + 1) THEN Fail
     ELSE IF idx < Len(shared_keys)
     THEN SetKey(shared_keys[idx + 1], IF long THEN pos + 2 ELSE pos + 1)
     ELSE Fail
  /\ UNCHANGED <<data, expect, wellFormed, shared_keys, shared_values, shared_keys_enabled,
                 shared_values_enabled>>

(* 0x20, 0x80-0xBF and 0xC0-0xF7: the empty key, or a short ASCII or      *)
(* Unicode key read with read_safe_utf8 and interned when sharing is on.  *)
KeyShortString ==
  LET b == KeyToken
      len == CASE b = 32 -> 0 [] b \in 128..191 -> b - 127 [] OTHER -> b - 190
      s == Bytes(pos + 1, len)
  IN
  /\ status = "key"
  /\ ~AtEnd(pos) /\ b \in {32} \cup 128..247
  /\ IF b = 32
     THEN SetKey(<<>>, pos + 1) /\ UNCHANGED shared_keys
     ELSE IF pos + 1 + len > Len(data) \/ ~IsUtf8(s)
     THEN Fail /\ UNCHANGED shared_keys
     ELSE /\ SetKey(s, pos + 1 + len)
          /\ shared_keys' = Intern(shared_keys, s, shared_keys_enabled)
  /\ UNCHANGED <<data, expect, wellFormed, shared_values, shared_keys_enabled,
                 shared_values_enabled>>

(* 0x34 and 0x35: a long key up to 0xFC, never interned. *)
KeyLongString ==
  LET r == LongStringAt(pos + 1) IN
  /\ status = "key"
  /\ ~AtEnd(pos) /\ KeyToken \in {52, 53}
  /\ IF IsUtf8(r.s) THEN SetKey(r.s, r.next) ELSE Fail
  /\ UNCHANGED <<data, expect, wellFormed, shared_keys, shared_values, shared_keys_enabled,
                 shared_values_enabled>>

(* read_byte at the end of the data, or any other token (a shared-key     *)
(* reference while sharing is off included).                               *)
KeyError ==
  /\ status = "key"
  /\ \/ AtEnd(pos)
     \/ ~AtEnd(pos) /\ KeyToken \notin {251, 32, 52, 53} \cup 128..247 \cup
                       (IF shared_keys_enabled THEN 48..51 \cup 64..127 ELSE {})
  /\ Fail
  /\ UNCHANGED <<data, expect, wellFormed, shared_keys, shared_values, shared_keys_enabled,
                 shared_values_enabled>>

(***************************************************************************)
(* read_value / decode_value_token, one action per group of match arms.    *)
(***************************************************************************)
ValueToken == Byte(pos)

(* decode_7bit_binary: groups of up to eight bytes, a byte of top bits    *)
(* (bit j for the group's byte j + 2) then up to seven bytes it is OR-ed   *)
(* into; a last group of a single byte ends the loop unread.               *)
Decode7BitBinary(enc) ==
  LET groups == {g \in 0..(Len(enc) \div 8) : Len(enc) - 8 * g >= 2}
      Group(g) ==
        LET h == enc[8 * g + 1]
            n == Min({8, Len(enc) - 8 * g}) - 1
        IN  [j \in 1..n |-> enc[8 * g + 1 + j] | ((shiftR(h, j - 1) & 1) * 128)]
  IN  FlattenSeq([g \in 1..Cardinality(groups) |-> Group(g - 1)])

(* The float arms: byte k of n shifted left by 7 * (n - k) and OR-ed into  *)
(* a u32 or u64, whose bits from `w` up fall off.                          *)
ByteBits(b) == {i \in 0..7 : (b \div 2^i) % 2 = 1}
(* Mutant: eight bits per byte, as if the bytes were not 7-bit groups. *)
AssembleEightBit(raw, w) ==
  UNION {{i + 8 * (Len(raw) - k) : i \in ByteBits(raw[k])} : k \in DOMAIN raw} \cap 0..(w - 1)
Assemble(raw, w) ==
  UNION {{i + 7 * (Len(raw) - k) : i \in ByteBits(raw[k])} : k \in DOMAIN raw} \cap 0..(w - 1)

(* `f32::from_bits(bits) as f64`: the sign kept, the exponent rebiased     *)
(* (127 -> 1023), the fraction moved up 29 bits; a subnormal is            *)
(* normalised; infinity stays infinity; a NaN keeps its payload and is     *)
(* made quiet (bit 51), as x86-64 and AArch64 convert it.                  *)
ExpBits(e) == {j + 52 : j \in {i \in 0..10 : (e \div 2^i) % 2 = 1}}
F32ToF64(bits) ==
  LET sign == IF 31 \in bits THEN {63} ELSE {}
      e == Window(bits, 23, 30)
      m == bits \cap 0..22
      p == Max(m)
  IN  CASE e = 255 -> sign \cup 52..62 \cup {i + 29 : i \in m} \cup (IF m = {} THEN {} ELSE {51})
        [] e = 0 /\ m = {} -> sign
        [] e = 0 -> sign \cup ExpBits(p + 874) \cup {i - p + 52 : i \in m \ {p}}
        [] OTHER -> sign \cup ExpBits(e + 896) \cup {i + 29 : i \in m}

(* The value tokens the model covers. *)
KnownValueTokens ==
  1..37 \cup 64..191 \cup 192..223 \cup {224, 228} \cup 236..239
    \cup {38, 40, 41, 232, 248, 250, 253}

Unchanged_Tables == UNCHANGED <<data, expect, wellFormed, shared_keys, shared_values,
                                shared_keys_enabled, shared_values_enabled>>

(* 0x20-0x23: empty string, null, false, true. *)
ValueLiteral ==
  LET b == ValueToken IN
  /\ status = "value"
  /\ ~AtEnd(pos) /\ b \in 32..35
  /\ Produce(stack, CASE b = 32 -> StrV(<<>>) [] b = 33 -> NullV
                      [] b = 34 -> BoolV(FALSE) [] OTHER -> BoolV(TRUE), pos + 1)
  /\ Unchanged_Tables

(* 0x24 and 0x25: a zigzag-encoded VInt. *)
ValueVInt ==
  LET r == ReadUnsignedVInt(pos + 1) IN
  /\ status = "value"
  /\ ~AtEnd(pos) /\ ValueToken \in {36, 37}
  /\ IF r.ok THEN Produce(stack, IntV(ZigzagDecode(r.value)), r.next) ELSE Fail
  /\ Unchanged_Tables

(* 0xC0-0xDF: the low five bits, zigzag-decoded. *)
ValueSmallInt ==
  /\ status = "value"
  /\ ~AtEnd(pos) /\ ValueToken \in 192..223
  /\ Produce(stack, IntV(ZigzagDecode(ValueToken % 32)), pos + 1)
  /\ Unchanged_Tables

(* 0x26: a VInt length and that many bytes, skipped; the value is 0. *)
ValueBigInteger ==
  LET r == ReadUnsignedVInt(pos + 1) IN
  /\ status = "value"
  /\ ~AtEnd(pos) /\ ValueToken = 38
  /\ IF r.ok /\ r.next + r.value <= Len(data)
     THEN Produce(stack, IntV(0), r.next + r.value)
     ELSE Fail
  /\ Unchanged_Tables

(* 0x28: five bytes into a u32, read as an f32 and widened; 0x29: ten     *)
(* bytes into a u64, read as an f64.                                       *)
ValueFloat ==
  LET n == IF ValueToken = 40 THEN 5 ELSE 10
      raw == Bytes(pos + 1, n)
  IN
  /\ status = "value"
  /\ ~AtEnd(pos) /\ ValueToken \in {40, 41}
  /\ IF pos + 1 + n <= Len(data)
     THEN Produce(stack, FloatV(IF n = 5 THEN F32ToF64(Assemble(raw, 32)) ELSE Assemble(raw, 64)),
                  pos + 1 + n)
     ELSE Fail
  /\ Unchanged_Tables

(* 0x40-0x7F and 0x80-0xBF: a short ASCII or Unicode string, interned in  *)
(* shared_values when value sharing is on.                                 *)
ValueShortString ==
  LET b == ValueToken
      len == IF b < 128 THEN b - 63 ELSE b - 126
      s == Bytes(pos + 1, len)
  IN
  /\ status = "value"
  /\ ~AtEnd(pos) /\ b \in 64..191
  /\ IF pos + 1 + len > Len(data) \/ ~IsUtf8(s)
     THEN Fail /\ UNCHANGED shared_values
     ELSE /\ Produce(stack, StrV(s), pos + 1 + len)
          /\ shared_values' = Intern(shared_values, s, shared_values_enabled)
  /\ UNCHANGED <<data, expect, wellFormed, shared_keys, shared_keys_enabled,
                 shared_values_enabled>>

(* Mutant: the short reference's index taken as the token itself. *)
ValueSharedRefOffByOne ==
  LET b == ValueToken
      long == b \in 236..239
      idx == IF long THEN (b - 236) * 256 + Byte(pos + 1) ELSE b
  IN
  /\ status = "value"
  /\ ~AtEnd(pos) /\ b \in 1..31 \cup 236..239
  /\ IF long /\ AtEnd(pos + 1) THEN Fail
     ELSE IF shared_values_enabled /\ idx < Len(shared_values)
     THEN Produce(stack, StrV(shared_values[idx + 1]), IF long THEN pos + 2 ELSE pos + 1)
     ELSE Fail
  /\ Unchanged_Tables

(* 0x01-0x1F and 0xEC-0xEF (then one more byte): the string at that index *)
(* of shared_values; an error when sharing is off or the index is out of  *)
(* range.                                                                  *)
ValueSharedRef ==
  LET b == ValueToken
      long == b \in 236..239
      idx == IF long THEN (b - 236) * 256 + Byte(pos + 1) ELSE b - 1
  IN
  /\ status = "value"
  /\ ~AtEnd(pos) /\ b \in 1..31 \cup 236..239
  /\ IF long /\ AtEnd(pos + 1) THEN Fail
     ELSE IF shared_values_enabled /\ idx < Len(shared_values)
     THEN Produce(stack, StrV(shared_values[idx + 1]), IF long THEN pos + 2 ELSE pos + 1)
     ELSE Fail
  /\ Unchanged_Tables

(* 0xE0 and 0xE4: a long string up to 0xFC, never interned. *)
ValueLongString ==
  LET r == LongStringAt(pos + 1) IN
  /\ status = "value"
  /\ ~AtEnd(pos) /\ ValueToken \in {224, 228}
  /\ IF IsUtf8(r.s) THEN Produce(stack, StrV(r.s), r.next) ELSE Fail
  /\ Unchanged_Tables

(* 0xFD: a VInt length, then that many raw bytes. *)
ValueRawBinary ==
  LET r == ReadUnsignedVInt(pos + 1) IN
  /\ status = "value"
  /\ ~AtEnd(pos) /\ ValueToken = 253
  /\ IF r.ok /\ r.next + r.value <= Len(data)
     THEN Produce(stack, BinV(Bytes(r.next, r.value)), r.next + r.value)
     ELSE Fail
  /\ Unchanged_Tables

(* 0xE8: a VInt length, then that many 7-bit escaped bytes, unescaped. *)
ValueSevenBitBinary ==
  LET r == ReadUnsignedVInt(pos + 1) IN
  /\ status = "value"
  /\ ~AtEnd(pos) /\ ValueToken = 232
  /\ IF r.ok /\ r.next + r.value <= Len(data)
     THEN Produce(stack, BinV(Decode7BitBinary(Bytes(r.next, r.value))), r.next + r.value)
     ELSE Fail
  /\ Unchanged_Tables

(* 0xF8 and 0xFA: an array or object opens. *)
ValueStart ==
  /\ status = "value"
  /\ ~AtEnd(pos) /\ ValueToken \in {248, 250}
  /\ stack' = Append(stack, IF ValueToken = 248 THEN [kind |-> "array", items |-> <<>>]
                            ELSE [kind |-> "object", pairs |-> <<>>, key |-> <<>>])
  /\ status' = IF ValueToken = 248 THEN "item" ELSE "key"
  /\ pos' = pos + 1
  /\ UNCHANGED result
  /\ Unchanged_Tables

(* Mutant: no catch-all arm; an unknown token matches nothing. *)
ValueErrorOnlyAtEnd ==
  /\ status = "value"
  /\ AtEnd(pos)
  /\ Fail
  /\ Unchanged_Tables

(* read_byte at the end of the data, or an unexpected value token. *)
ValueError ==
  /\ status = "value"
  /\ \/ AtEnd(pos)
     \/ ~AtEnd(pos) /\ ValueToken \notin KnownValueTokens
  /\ Fail
  /\ Unchanged_Tables

(* Mutant: the array end seen by peek_byte but not consumed. *)
ArrayItemKeepsEnd ==
  /\ status = "item"
  /\ IF AtEnd(pos) THEN Fail
     ELSE IF Byte(pos) = 249
     THEN Produce(Front(stack), ArrV(stack[Len(stack)].items), pos)
     ELSE status' = "value" /\ UNCHANGED <<pos, stack, result>>
  /\ Unchanged_Tables

(* The array loop: peek_byte, then either the end of the array (consumed, *)
(* and the array becomes a value of its parent) or read_value.            *)
ArrayItem ==
  /\ status = "item"
  /\ IF AtEnd(pos) THEN Fail
     ELSE IF Byte(pos) = 249
     THEN Produce(Front(stack), ArrV(stack[Len(stack)].items), pos + 1)
     ELSE status' = "value" /\ UNCHANGED <<pos, stack, result>>
  /\ Unchanged_Tables

Next ==
  \/ ReadHeader
  \/ KeyEnd \/ KeySharedRef \/ KeyShortString \/ KeyLongString \/ KeyError
  \/ ValueLiteral \/ ValueVInt \/ ValueBigInteger \/ ValueFloat \/ ValueSmallInt
  \/ ValueShortString
  \/ ValueSharedRef \/ ValueLongString \/ ValueRawBinary \/ ValueSevenBitBinary
  \/ ValueStart
  \/ ValueError
  \/ ArrayItem

(* parse runs to its Ok or Err on the calling thread. *)
Spec == Init /\ [][Next]_vars /\ WF_vars(Next)

-----------------------------------------------------------------------------
TypeOK ==
  /\ pos \in 0..Len(data)
  /\ status \in {"header", "value", "item", "key", "done", "error"}
  /\ \A i \in DOMAIN stack : stack[i].kind \in {"array", "object"}
  /\ status \in {"item", "key"} => stack # <<>>

(* Whatever the parser returns Ok is the value the payload was written    *)
(* from: the key and value intern tables stay aligned with the writer's   *)
(* back references, every float decodes to the number the writer wrote    *)
(* (bits reassembled from their 7-bit groups, an f32 widened exactly),    *)
(* and a truncated payload or one whose header flags disagree with its    *)
(* body is never read as some other value.  `expect` is given by value    *)
(* (Valued).                                                               *)
DecodedIsExpected == status = "done" => Valued(result) = expect

(* The parser accepts every payload the writer produces (spec 8: shared   *)
(* indices never resolve to a string absent from the table).               *)
AcceptsWellFormed == wellFormed => status # "error"

(* parse returns: every step consumes input or finishes. *)
ParseTerminates == <>(status \in {"done", "error"})

=============================================================================
