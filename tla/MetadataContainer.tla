------------------------- MODULE MetadataContainer -------------------------
(***************************************************************************)
(* extract_smile_data (src/metadata.rs): the container around a shard's   *)
(* SMILE payload.  The first "DFL\0" anywhere in the blob selects the     *)
(* DEFLATE path (the stream after the marker is inflated); otherwise the  *)
(* blob must start with a Lucene codec header (magic, codec name with a   *)
(* Lucene VInt length, 4-byte version), and the payload is what lies      *)
(* between the header and a 16-byte footer, or up to the end when the     *)
(* blob is too short to hold one.                                          *)
(*                                                                         *)
(* Blobs are byte sequences (0..255).  One behaviour extracts one blob:   *)
(* `raw` is the blob, `expect` the payload its writer framed and          *)
(* `wellFormed` whether it is that writer's unaltered output.             *)
(*                                                                         *)
(* DEFLATE is the flate2 library.  Inflate decodes exactly a final stored *)
(* block (the only block kind the inputs' writer emits); a stored block   *)
(* cut short, and a stream that is not a stored block, give one of the    *)
(* outcomes a decoder can produce for it: an error or some bytes.         *)
(***************************************************************************)
EXTENDS Integers, Sequences, SequencesExt

CONSTANTS
  Inputs,    \* set of [raw, expect, wellFormed]
  Garbage    \* the bytes inflate may return for a stream it misreads

VARIABLES raw, expect, wellFormed, outcome

vars == <<raw, expect, wellFormed, outcome>>

Ok(d) == [ok |-> TRUE, data |-> d]
Err == [ok |-> FALSE]
Pending == [ok |-> FALSE, pending |-> TRUE]

DFL_HEADER == <<68, 70, 76, 0>>            \* b"DFL\0"
LUCENE_CODEC_MAGIC == <<63, 215, 108, 23>> \* 0x3FD76C17, big-endian

(* The 0-based position of the first "DFL\0" window, or -1. *)
FindDflHeader(d) ==
  LET P == {i \in 0..(Len(d) - 4) : SubSeq(d, i + 1, i + 4) = DFL_HEADER}
  IN  IF P = {} THEN -1 ELSE Min(P)

(* read_lucene_vint from byte i: 7 bits per byte, low group first, a set  *)
(* high bit means more bytes follow.  The u32 accumulator keeps only the   *)
(* low 4 bits of the fifth byte's group; a sixth byte is an error.         *)
RECURSIVE VIntFrom(_, _, _, _)
VIntFrom(d, i, value, shift) ==
  IF i >= Len(d) THEN Err
  ELSE LET b == d[i + 1]
           bits == IF shift = 28 THEN (b % 16) * 2^28 ELSE (b % 128) * 2^shift
       IN  IF b < 128 THEN [ok |-> TRUE, value |-> value + bits, n |-> i + 1]
           ELSE IF shift + 7 > 28 THEN Err
           ELSE VIntFrom(d, i + 1, value + bits, shift + 7)

ReadLuceneVInt(d) == VIntFrom(d, 0, 0, 0)

(* Mutant: the 4-byte version not skipped. *)
SkipCodecHeaderNoVersion(d) ==
  IF Len(d) < 8 \/ SubSeq(d, 1, 4) # LUCENE_CODEC_MAGIC THEN Err
  ELSE LET r == ReadLuceneVInt(SubSeq(d, 5, Len(d)))
           pos == 4 + r.n + r.value
       IN  IF ~r.ok THEN Err
           ELSE IF pos > Len(d) THEN Err
           ELSE [ok |-> TRUE, pos |-> pos]

(* skip_codec_header: the position of the payload after the header. *)
SkipCodecHeader(d) ==
  IF Len(d) < 8 \/ SubSeq(d, 1, 4) # LUCENE_CODEC_MAGIC THEN Err
  ELSE LET r == ReadLuceneVInt(SubSeq(d, 5, Len(d)))
           pos == 4 + r.n + r.value + 4
       IN  IF ~r.ok THEN Err
           ELSE IF pos > Len(d) THEN Err
           ELSE [ok |-> TRUE, pos |-> pos]

(* DeflateDecoder::read_to_end over a stream. A final stored block is a   *)
(* header byte with BFINAL = 1 and BTYPE = 00, LEN and NLEN little-endian, *)
(* then LEN bytes; what follows the final block is not read.               *)
Inflate(s) ==
  LET len == s[2] + 256 * s[3]
      nlen == s[4] + 256 * s[5]
  IN
  IF s = <<>> THEN {Err, Ok(<<>>)}
  ELSE IF Len(s) >= 5 /\ s[1] % 8 = 1
  THEN IF len + nlen # 65535 THEN {Err}
       ELSE IF Len(s) >= 5 + len THEN {Ok(SubSeq(s, 6, 5 + len))}
       ELSE {Err, Ok(SubSeq(s, 6, Len(s)))}
  ELSE {Err, Ok(Garbage)}

(* Mutant: the footer stripped only when the blob is longer than header *)
(* plus footer.                                                            *)
ExtractSmileDataStrictFooter(d) ==
  LET p == FindDflHeader(d)
      h == SkipCodecHeader(d)
      end == IF Len(d) > h.pos + 16 THEN Len(d) - 16 ELSE Len(d)
  IN  IF p >= 0 THEN Inflate(SubSeq(d, p + 5, Len(d)))
      ELSE IF ~h.ok THEN {Err}
      ELSE {Ok(SubSeq(d, h.pos + 1, end))}

(* extract_smile_data: the outcomes it can have for blob d. *)
ExtractSmileData(d) ==
  LET p == FindDflHeader(d)
      h == SkipCodecHeader(d)
      end == IF Len(d) >= h.pos + 16 THEN Len(d) - 16 ELSE Len(d)
  IN  IF p >= 0 THEN Inflate(SubSeq(d, p + 5, Len(d)))
      ELSE IF ~h.ok THEN {Err}
      ELSE {Ok(SubSeq(d, h.pos + 1, end))}

Init ==
  /\ \E i \in Inputs : raw = i.raw /\ expect = i.expect /\ wellFormed = i.wellFormed
  /\ outcome = Pending

(* load_shard_metadata's first step on the blob read by ensure_shard_loaded. *)
Extract ==
  /\ outcome = Pending
  /\ \E o \in ExtractSmileData(raw) : outcome' = o
  /\ UNCHANGED <<raw, expect, wellFormed>>

Next == Extract

Spec == Init /\ [][Next]_vars /\ WF_vars(Next)

-----------------------------------------------------------------------------
(* extract_smile_data hands the SMILE decoder exactly the payload the     *)
(* snapshot writer framed, for compressed and uncompressed blobs alike:   *)
(* the marker search, the codec header's VInt and version arithmetic, the *)
(* footer strip and the inflated stored block all line up.                *)
ExtractsFramedPayload == wellFormed /\ outcome # Pending => outcome = Ok(expect)

====
