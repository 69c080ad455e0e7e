------------------------ MODULE MCMetadataContainer ------------------------
(* Blobs for MetadataContainer, written the way the snapshot writer frames *)
(* shard metadata: a Lucene codec header (CodecUtil.writeHeader: magic,   *)
(* writeString of the codec name, version), then either the payload or    *)
(* "DFL\0" and a DEFLATE stream of it, then the 16-byte footer (footer    *)
(* magic, algorithm id 0, the checksum as a big-endian long).              *)
EXTENDS MetadataContainer

(* Lucene DataOutput.writeVInt: 7 bits per byte, low group first. *)
RECURSIVE WriteVInt(_)
WriteVInt(i) == IF i < 128 THEN <<i>> ELSE <<128 + (i % 128)>> \o WriteVInt(i \div 128)

(* One final stored block holding the whole payload. *)
Deflate(p) ==
  <<1, Len(p) % 256, Len(p) \div 256, 255 - (Len(p) % 256), 255 - (Len(p) \div 256)>> \o p

Version == <<0, 0, 0, 3>>
FooterMagic == <<192, 40, 147, 232>>   \* ~0x3FD76C17
Crc == <<0, 0, 0, 0, 18, 52, 86, 120>>

Frame(name, payload, compressed, crc) ==
  LUCENE_CODEC_MAGIC \o WriteVInt(Len(name)) \o name \o Version
    \o (IF compressed THEN DFL_HEADER \o Deflate(payload) ELSE payload)
    \o FooterMagic \o <<0, 0, 0, 0>> \o crc

(* Codec names of 8 bytes (one VInt byte) and 128 bytes (two). *)
Names == {[i \in 1..8 |-> 97], [i \in 1..128 |-> 97]}

(* An empty payload, an empty SMILE object, and an object with a raw      *)
(* binary hash.                                                            *)
EmptyObject == <<58, 41, 10, 4, 250, 251>>
Payloads == {<<>>, EmptyObject,
             <<58, 41, 10, 6, 250, 128, 104, 253, 131, 1, 2, 3, 251>>}

Written == [name : Names, payload : Payloads, compressed : BOOLEAN]

WellFormed ==
  {[raw |-> Frame(w.name, w.payload, w.compressed, Crc), expect |-> w.payload,
    wellFormed |-> TRUE] : w \in Written}

(* Every truncation of the two frames with an 8-byte name and the hash. *)
Truncated ==
  UNION {{[raw |-> SubSeq(f, 1, n), expect |-> <<>>, wellFormed |-> FALSE] :
            n \in 0..(Len(f) - 1)} :
           f \in {Frame([i \in 1..8 |-> 97], <<58, 41, 10, 6, 250, 128, 104, 253, 131, 1, 2, 3, 251>>,
                        c, Crc) : c \in BOOLEAN}}

(* Every frame with its first magic byte damaged. *)
BadMagic ==
  {[raw |-> [w.raw EXCEPT ![1] = 0], expect |-> <<>>, wellFormed |-> FALSE] : w \in WellFormed}

(* Uncompressed frames whose bytes contain "DFL\0" where the writer put   *)
(* data: a raw binary hash in the payload, and a checksum whose low four  *)
(* bytes are 44 46 4C 00.                                                  *)
HashWithMarker == <<58, 41, 10, 6, 250, 128, 104, 253, 132, 68, 70, 76, 0, 251>>
MCMarkerInputs ==
  {[raw |-> Frame([i \in 1..8 |-> 97], HashWithMarker, FALSE, Crc), expect |-> HashWithMarker,
    wellFormed |-> TRUE],
   [raw |-> Frame([i \in 1..8 |-> 97], EmptyObject, FALSE, <<0, 0, 0, 0>> \o DFL_HEADER),
    expect |-> EmptyObject, wellFormed |-> TRUE]}

MCInputs == WellFormed \cup Truncated \cup BadMagic
MCGarbage == <<0>>

(* Lucene DataInput.readVInt, the reader CodecUtil.checkHeader uses: the  *)
(* fifth byte may carry only the 4 bits that fit an int, else "Invalid    *)
(* vInt detected (too many bits)".                                          *)
RECURSIVE LuceneVIntFrom(_, _, _, _)
LuceneVIntFrom(d, i, value, shift) ==
  IF i >= Len(d) THEN Err
  ELSE LET b == d[i + 1] IN
       IF shift = 28
       THEN IF b < 16 THEN [ok |-> TRUE, value |-> value + b * 2^28, n |-> i + 1] ELSE Err
       ELSE IF b < 128 THEN [ok |-> TRUE, value |-> value + b * 2^shift, n |-> i + 1]
       ELSE LuceneVIntFrom(d, i + 1, value + (b % 128) * 2^shift, shift + 7)

(* The end of the codec header as Lucene reads it. *)
LuceneHeader(d) ==
  LET r == LuceneVIntFrom(SubSeq(d, 5, Len(d)), 0, 0, 0)
  IN  IF Len(d) < 8 \/ SubSeq(d, 1, 4) # LUCENE_CODEC_MAGIC \/ ~r.ok THEN Err
      ELSE IF 4 + r.n + r.value + 4 > Len(d) THEN Err
      ELSE [ok |-> TRUE, pos |-> 4 + r.n + r.value + 4]

(* A frame whose codec-name length is written in five bytes with a fifth  *)
(* byte of 0x10: read_lucene_vint drops that group's high bits.            *)
MCLongVIntInputs ==
  {[raw |-> LUCENE_CODEC_MAGIC \o <<136, 128, 128, 128, 16>> \o [i \in 1..8 |-> 97] \o Version
              \o EmptyObject \o FooterMagic \o <<0, 0, 0, 0>> \o Crc,
    expect |-> <<>>, wellFormed |-> FALSE]}

(* Every blob skip_codec_header accepts has a codec header Lucene's own   *)
(* reader accepts, ending at the same position (spec 7: a bad codec       *)
(* header fails with invalid-format).                                       *)
CodecHeaderAsLucene ==
  outcome.ok /\ FindDflHeader(raw) < 0 => LuceneHeader(raw) = SkipCodecHeader(raw)

=============================================================================
