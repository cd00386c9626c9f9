------------------------------ MODULE YacSizing ------------------------------
(***************************************************************************)
(* The arithmetic of yac_storage_startup: how many key slots are laid out  *)
(* in the first segment the allocator gives.                               *)
(***************************************************************************)
EXTENDS Integers

CONSTANTS
  HeaderBytes,   (* What lies before the slots in the segment.             *)
  SlotBytes,     (* sizeof(yac_kv_key).                                    *)
  IntSpan,       (* The number of values of an unsigned int, and           *)
  LongSpan       (* of an unsigned long.                                   *)

ASSUME SizingAssumption ==
  /\ HeaderBytes \in Nat
  /\ SlotBytes \in Nat \ {0} /\ IntSpan \in Nat \ {0} /\ LongSpan \in Nat \ {0}

(* The number of times a number can be halved. *)
Bits[n \in Nat] == IF n \div 2 = 0 THEN 0 ELSE 1 + Bits[n \div 2]

(* yac_storage_align_size, whose argument is an unsigned int. *)
AlignSize(n) == 2 ^ Bits[n % IntSpan]

(* A mutation of the test below: the mask is not complemented. *)
BitClear(n, bit) == (n \div bit) % 2 = 0

(* ! (n & ~bit): n has no bit but this one. *)
OnlyBit(n, bit) == n = bit * ((n \div bit) % 2)

(* slots_size for a first segment of so many bytes. *)
SlotsSize(segment) ==
  LET room == ((segment - HeaderBytes) % LongSpan) \div SlotBytes
      real == AlignSize(room)
  IN  IF OnlyBit(room, 2 * real) THEN 2 * real ELSE real

(* The slots end inside the segment. *)
Fit(slots, segment) == HeaderBytes + slots * SlotBytes <= segment

IsPowerOfTwo(n) == \E b \in 0 .. n : n = 2 ^ b

=============================================================================
