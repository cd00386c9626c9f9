------------------------------ MODULE YacEntry ------------------------------
(***************************************************************************)
(* The encoding of PHP values as cache entries (yac_add_impl) and back     *)
(* (yac_get_impl): which values are stored raw, which compressed, which    *)
(* refused, and how the type, the compression and the original length      *)
(* share one flag word.                                                    *)
(*                                                                         *)
(* A value is a record: its type; the length of its bytes (of its string,  *)
(* or of its serialised form); the length fastlz compresses them to (0     *)
(* when it fails); whether it can be serialised; and its content, a number *)
(* that stands for the bytes.                                              *)
(***************************************************************************)
EXTENDS Integers

CONSTANTS
  TypeSpan,    (* YAC_ENTRY_TYPE_MASK + 1, 32: also the compressed bit.    *)
  OrigSpan,    (* 2 ^ 26, what YAC_ENTRY_ORIG_LEN_SHIT leaves of 32 bits.  *)
  KlenSpan,    (* yac_key_klen_mask + 1, 256.                              *)
  VlenSpan,    (* 2 ^ 24, what yac_key_vlen_bits leaves of 32 bits.        *)
  Threshold,   (* YAC_G(compress_threshold).                               *)
  MaxEntry     (* yac_storage_max_entry_len, 2 ^ 20.                       *)

(* The type codes of zend.h fit under the mask, and an entry of the        *)
(* longest length fits above the length of its key.                        *)
ASSUME EntryAssumption ==
  /\ TypeSpan \in Nat /\ TypeSpan > 9
  /\ OrigSpan \in Nat /\ OrigSpan > 0
  /\ KlenSpan \in Nat /\ KlenSpan > 0
  /\ VlenSpan \in Nat /\ VlenSpan > MaxEntry
  /\ Threshold \in Nat
  /\ MaxEntry \in Nat /\ MaxEntry >= 8

IS_NULL == 0
IS_LONG == 1
IS_DOUBLE == 2
IS_BOOL == 3
IS_ARRAY == 4
IS_OBJECT == 5
IS_STRING == 6
IS_RESOURCE == 7
IS_CONSTANT == 8
IS_CONSTANT_ARRAY == 9

Types == 0 .. 9
Scalars == {IS_NULL, IS_LONG, IS_DOUBLE, IS_BOOL}
Strings == {IS_STRING, IS_CONSTANT}
Trees == {IS_ARRAY, IS_OBJECT, IS_CONSTANT_ARRAY}

PhpValues ==
  [type : Types, size : Nat, packed : Nat, serial : BOOLEAN, content : Nat]

(* sizeof(int) for null, sizeof(long) and sizeof(double) for the others. *)
ScalarSize(type) == IF type = IS_NULL THEN 4 ELSE 8

(***************************************************************************)
(* The two packed words                                                    *)
(***************************************************************************)
YAC_ENTRY_MAX_ORIG_LEN == OrigSpan - 1

FlagSpan == TypeSpan * (2 * OrigSpan)

(* flag |= compressed; flag |= length << 6, in 32 bits.  The three fields  *)
(* share no bit, so that each or is a sum.                                 *)
CompressedFlag(type, orig) == (type + TypeSpan * (1 + 2 * orig)) % FlagSpan

TypeOf(flag) == flag % TypeSpan
IsCompressed(flag) == (flag \div TypeSpan) % 2 = 1
OrigLen(flag) == (flag \div TypeSpan) \div 2

(* yac_key_set_len, yac_key_klen and yac_key_vlen, in 32 bits. *)
SetLen(klen, vlen) ==
  (klen % KlenSpan) + KlenSpan * (vlen % VlenSpan)
KlenOf(len) == len % KlenSpan
VlenOf(len) == len \div KlenSpan

(***************************************************************************)
(* Encoding and decoding                                                   *)
(***************************************************************************)

(* Too long to be stored as it is. *)
Long(size) == size > Threshold \/ size > MaxEntry

(* A mutation of the test below: the length is not checked against the     *)
(* bits left for it.                                                       *)
PackableUnchecked(v) == v.packed # 0 /\ v.packed <= v.size /\ ~ Long(v.packed)

(* Compression makes an entry of v. *)
Packable(v) ==
  /\ v.size <= YAC_ENTRY_MAX_ORIG_LEN
  /\ v.packed # 0 /\ v.packed <= v.size
  /\ ~ Long(v.packed)

(* v has bytes to store: a string, or a tree that can be serialised. *)
HasBytes(v) == v.type \in Strings \/ (v.type \in Trees /\ v.serial)

Entry(flag, size, v) == [flag |-> flag, size |-> size, value |-> v]

(* The entry yac_add_impl stores for v: a set of one entry, or empty when  *)
(* v is refused.                                                           *)
Encodings(v) ==
  CASE v.type \in Scalars -> {Entry(v.type, ScalarSize(v.type), v)}
    [] HasBytes(v) /\ ~ Long(v.size) -> {Entry(v.type, v.size, v)}
    [] HasBytes(v) /\ Long(v.size) /\ Packable(v) ->
         {Entry(CompressedFlag(v.type, v.size), v.packed, v)}
    [] OTHER -> {}

(* fastlz_decompress succeeds when the result fits the buffer it is given. *)
Unpacks(e) == OrigLen(e.flag) >= e.value.size

(* A compressed constant comes back as a string. *)
AsRead(v) ==
  IF v.type = IS_CONSTANT /\ Long(v.size) THEN [v EXCEPT !.type = IS_STRING] ELSE v

(* What yac_get_impl makes of entry e: a set of one value, or empty when   *)
(* it has none.                                                            *)
Decodings(e) ==
  LET type == TypeOf(e.flag)
      packed == IsCompressed(e.flag)
      typed(t) == [e.value EXCEPT !.type = t]
  IN
  CASE type \in Scalars -> IF e.size = ScalarSize(type) THEN {typed(type)} ELSE {}
    [] type \in Strings /\ ~ packed -> {typed(type)}
    [] type \in Strings /\ packed -> IF Unpacks(e) THEN {typed(IS_STRING)} ELSE {}
    [] type \in Trees -> IF packed /\ ~ Unpacks(e) THEN {} ELSE {e.value}
    [] OTHER -> {}

=============================================================================
