------------------------------ MODULE YacLayout ------------------------------
(***************************************************************************)
(* The pure part of the yac storage: how a key finds its four slots, how   *)
(* the two lengths of an entry share one word, and which bytes of a value  *)
(* its checksum covers.                                                    *)
(*                                                                         *)
(* The two hash functions are constants: the storage only depends on which *)
(* keys they send to the same numbers.  The checksum is ideal on the bytes *)
(* it is computed from (two different inputs of crc32 never collide), so   *)
(* what Sample loses is exactly what yac_crc32 does not look at.           *)
(***************************************************************************)
EXTENDS Naturals, Sequences

CONSTANTS
  Keys,        (* The keys, as yac_storage_find receives them.             *)
  Hash1,       (* Hash1[key]: the 32-bit yac_inline_hash_func1.            *)
  Hash2,       (* Hash2[key]: yac_inline_hash_func2, the probe stride.     *)
  KeyLen,      (* KeyLen[key]: the length in bytes of the key.             *)
  SlotsSize,   (* Number of slots, a power of two: slots_mask + 1.         *)
  Window       (* sizeof(crc_contents), 128 in the code.                   *)

ASSUME LayoutAssumption ==
  /\ Hash1 \in [Keys -> Nat]
  /\ Hash2 \in [Keys -> Nat]
  /\ KeyLen \in [Keys -> Nat]
  /\ SlotsSize \in Nat \ {0}
  /\ Window \in Nat \ {0}

SlotIds == 0 .. SlotsSize - 1

(* hash = yac_inline_hash_func1(key, len). *)
HashOf(key) == Hash1[key]

(* No two keys agree on what a lookup compares before the key bytes.       *)
CollisionFree ==
  \A a, b \in Keys : HashOf(a) = HashOf(b) /\ KeyLen[a] = KeyLen[b] => a = b

(* The seed of the probe sequence, reduced by the mask. *)
Stride(key) == Hash2[key] % SlotsSize

(* The slot of the n-th probe: h plus n strides, masked.  Probe 0 is the   *)
(* primary slot; SlotsSize is a power of two, so & slots_mask is % .       *)
ProbeSlot(key, n) == (HashOf(key) + n * Stride(key)) % SlotsSize

(* The slots a key can be looked up in. *)
Path(key) == {ProbeSlot(key, n) : n \in 0 .. 3}

(* A mutation of Sample: j += step is missing at line 125. *)
SampleStuck(d) ==
  IF Len(d) < Window THEN d ELSE [j \in 1 .. Window |-> d[1]]

(* The contents yac_crc32 sums for value d: all of a value shorter than    *)
(* the window, else Window bytes taken every Len(d) / Window bytes.        *)
Sample(d) ==
  IF Len(d) < Window
  THEN d
  ELSE [j \in 1 .. Window |-> d[1 + (j - 1) * (Len(d) \div Window)]]

=============================================================================
