---------------------------- MODULE MCYacStorage ----------------------------
(***************************************************************************)
(* Instances of YacStorage for TLC.  The keys are k1 and k2, of two bytes  *)
(* each; a run chooses how their hashes meet in the slots.                 *)
(***************************************************************************)
EXTENDS YacStorage, TLC

CONSTANTS k1, k2, w1, w2, a1, a2

MCKeys == {k1, k2}
MCWorkers == {w1, w2}
MCAddrs == {a1, a2}
MCBit == {0, 1}
MCKeyLen == [k \in MCKeys |-> 2]

(* Both keys have slot 0 as primary slot and probe slot 1 next; their      *)
(* hashes differ above the mask.                                           *)
MCSameSlotHash == k1 :> 0 @@ k2 :> 2
MCOddStride == [k \in MCKeys |-> 1]

ASSUME CollisionFree

(* Each key has a primary slot of its own and probes the other's.          *)
MCOtherSlotHash == k1 :> 0 @@ k2 :> 1

(* Values as long as the window or shorter: the checksum sees every byte.  *)
MCShort == {<<0, 1>>, <<1, 0>>}
MCMixed == {<<1>>, <<0, 1>>}

(* With a window of 2, the checksum sees all of the first two values, and  *)
(* not the last byte of the others.                                        *)
MCLong == {<<0, 0>>, <<0, 1>>, <<0, 1, 0>>, <<0, 1, 1>>}

MCFlags == {6}
MCTtls == {0, 1}

(* Workers and addresses are only compared; keys differ by their hashes.   *)
Symmetry == Permutations(Workers) \cup Permutations(Addrs)

=============================================================================
