----------------------------- MODULE MCYacModule -----------------------------
(* Instances of YacModule for TLC. *)
EXTENDS YacModule, TLC

CONSTANTS w1, w2

MCWorkers == {w1, w2}

(* A segment with room for 1 to 9 slots. *)
MCSegments == {24 + 8 * n + 3 : n \in 1 .. 9}

MCConfigs ==
  {[enable |-> e, debug |-> 0, keys_memory_size |-> 64, values_memory_size |-> 256,
    compress_threshold |-> t] :
     e \in {0, 1}, t \in {-1, 40}}

MCOverrides ==
  {<<>>, [enable |-> 0], [compress_threshold |-> 5], [enable |-> 0, debug |-> 1],
   [keys_memory_size |-> 128, values_memory_size |-> 64]}

MCUserValues == [n \in Names |-> IF n \in {"enable", "debug"} THEN {0, 1} ELSE {5, 40}]

Symmetry == Permutations(MCWorkers)

=============================================================================
