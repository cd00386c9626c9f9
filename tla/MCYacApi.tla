------------------------------ MODULE MCYacApi ------------------------------
(***************************************************************************)
(* Instances of YacApi for TLC.  The spans of the packed words are small,  *)
(* as TLC has 32-bit integers; the type mask is the real one.              *)
(***************************************************************************)
EXTENDS YacApi, TLC

CONSTANTS w1, w2

MCProcs == {w1, w2}
MCOne == {w1}

MCTypeSpan == 32
MCOrigSpan == 32
MCKlenSpan == 16
MCVlenSpan == 16
MCThreshold == 10
MCMaxEntry == 12

Str(text) == [kind |-> "string", text |-> text]
Int1(text) == [kind |-> "long", text |-> text]

(* Without a prefix the key 1 2 names what the key 2 does under the prefix *)
(* 1; a number prints as the key 2 of a string.                            *)
MCPrefixes == {<<>>, <<1>>}
MCNoPrefix == {<<>>}
MCKeys == {Str(<<2>>), Str(<<1, 2>>)}
MCMixedKeys == {Str(<<2>>), Int1(<<2>>), Str(<<1, 2, 2, 2>>)}

(* Keys that fill the buffer under the prefix 1, and differ at its end. *)
MCPrefix == {<<1>>}
MCFullKeys == {Str(<<2, 2>>), Str(<<2, 3>>)}

Value(type, size, packed, serial) ==
  [type |-> type, size |-> size, packed |-> packed, serial |-> serial, content |-> 0]

(* A short string and a long tree: one is stored as it is. *)
MCTwoBlobs == {Value(IS_STRING, 3, 2, TRUE), Value(IS_ARRAY, 20, 9, TRUE)}
MCScalars == {Value(IS_LONG, 8, 0, TRUE), Value(IS_BOOL, 8, 0, TRUE)}

(* Each way through yac_add_impl, at the lengths where the treatment       *)
(* changes: a scalar, strings stored as they are, empty, compressed, not   *)
(* shorter when compressed, compressed at the limit of the length field    *)
(* and one beyond, a tree compressed, one that cannot be serialised, and a *)
(* type that is refused.                                                   *)
MCCorners ==
  {Value(IS_NULL, 8, 0, TRUE), Value(IS_RESOURCE, 8, 0, TRUE),
   Value(IS_STRING, 0, 0, TRUE), Value(IS_STRING, 11, 9, TRUE), Value(IS_STRING, 11, 11, TRUE),
   Value(IS_STRING, 31, 10, TRUE), Value(IS_STRING, 32, 10, TRUE),
   Value(IS_CONSTANT_ARRAY, 11, 1, TRUE), Value(IS_OBJECT, 11, 1, FALSE)}

Symmetry == Permutations(Procs)

=============================================================================
