------------------------------- MODULE YacKey -------------------------------
(***************************************************************************)
(* The key of an entry: the prefix of the Yac object and the key of the    *)
(* caller, put together in a buffer of MaxKey bytes.                       *)
(***************************************************************************)
EXTENDS Naturals, Sequences, FiniteSets

CONSTANT MaxKey   (* YAC_STORAGE_MAX_KEY_LEN, 48. *)

ASSUME KeyAssumption == MaxKey \in Nat /\ MaxKey > 0

(* The byte that ends a C string. *)
NUL == 0

NulFree(s) == \A i \in DOMAIN s : s[i] # NUL

(* A PHP string as %s prints it: up to its first NUL, that is, as long as  *)
(* it has prefixes without one.                                            *)
CString(s) ==
  SubSeq(s, 1, Cardinality({n \in 1 .. Len(s) : \A i \in 1 .. n : s[i] # NUL}))

(* Keys longer than the buffer are refused. *)
Fits(prefix, key) == Len(prefix) + Len(key) <= MaxKey

(* A mutation of the composition below: the buffer is filled and not used. *)
ComposeForgotten(prefix, key) == CString(key)

(* len = snprintf(buf, sizeof(buf), "%s%s", prefix, key).  len is the      *)
(* length before truncation; the last byte of buf is always NUL.  Without  *)
(* a prefix the caller's key is used as it is.                             *)
Compose(prefix, key) ==
  LET full == CString(prefix) \o CString(key)
  IN  IF Len(prefix) = 0 THEN key
      ELSE IF Len(full) < MaxKey THEN full
      ELSE Append(SubSeq(full, 1, MaxKey - 1), NUL)

=============================================================================
