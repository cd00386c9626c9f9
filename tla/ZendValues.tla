----------------------------- MODULE ZendValues -----------------------------
(***************************************************************************)
(* The zvals of zend.h and the macros of zend.h and zend_API.h that        *)
(* extensions build, share, separate and replace them with.                *)
(*                                                                         *)
(* A zval has a reference count, a reference flag and a value; a string    *)
(* value points to a buffer of its own.  A macro is an operator from       *)
(* memory to memory, where memory is the record of the three variables;    *)
(* an argument zval** is the name whose entry it points to.  The memory    *)
(* manager, the destructors and constructors of values and the engine that *)
(* runs the macros are not part of this repository.                        *)
(***************************************************************************)
EXTENDS Naturals, FiniteSets

CONSTANTS
  Names,    (* The variables, the parameters of running functions too.     *)
  Ids,      (* The addresses of zvals.                                     *)
  Bufs,     (* The addresses of string buffers.                            *)
  Longs,    (* The integers that are assigned.                             *)
  Texts,    (* The texts that are assigned, by number.                     *)
  NULL      (* The null address.                                           *)

(* There is always an address of S that the names and two others, an       *)
(* operand and a zval being made, do not take up: when memory runs out the *)
(* request is over.                                                        *)
Roomy(S) ==
  \A h \in [Names -> S \cup {NULL}], a, b \in S \cup {NULL} :
    \E s \in S \ {a, b} : \A n \in Names : h[n] # s

ASSUME ZendAssumption ==
  /\ NULL \notin Ids
  /\ IsFiniteSet(Names)
  /\ Roomy(Ids) /\ Roomy(Bufs)

VARIABLES
  zv,       (* zv[z]: the zval at address z.                               *)
  buf,      (* buf[b]: the string buffer at address b.                     *)
  sym       (* The symbol table: sym[n] is the address of n's zval.        *)

zendVars == <<zv, buf, sym>>
memory == [zv |-> zv, buf |-> buf, sym |-> sym]
Becomes(m) == zv' = m.zv /\ buf' = m.buf /\ sym' = m.sym

Free == [type |-> "free"]

(* A zval's header after INIT_PZVAL, and after ALLOC_ZVAL: anything. *)
InitPzval(z) == [z EXCEPT !.rc = 1, !.ref = FALSE]
Uninitialised == {[type |-> "null", val |-> 0, rc |-> rc, ref |-> rc = 5] : rc \in {0, 5}}
ZvalUsedForInit == [type |-> "null", val |-> 0, rc |-> 1, ref |-> FALSE]

IsRef(m, z) == m.zv[z].ref
IsString(m, z) == m.zv[z].type = "string"
AddRef(m, z) == [m EXCEPT !.zv[z].rc = @ + 1]
DelRef(m, z) == [m EXCEPT !.zv[z].rc = @ - 1]

(* What the script sees of a zval. *)
ValueOf(m, z) ==
  CASE m.zv[z].type = "null"   -> [type |-> "null", val |-> 0]
    [] m.zv[z].type = "long"   -> [type |-> "long", val |-> m.zv[z].val]
    [] m.zv[z].type = "string" -> [type |-> "string", val |-> m.buf[m.zv[z].val].text]

NullValue == [type |-> "null", val |-> 0]
Written == [type : {"long"}, val : Longs] \cup [type : {"string"}, val : Texts]
Values == {NullValue} \cup Written

(***************************************************************************)
(* The memory manager and the functions on values (external)               *)
(***************************************************************************)
NewZval(m) == CHOOSE z \in Ids : m.zv[z] = Free
NewBuf(m) == CHOOSE b \in Bufs : m.buf[b] = Free

FreeZval(m, z) == [m EXCEPT !.zv[z] = Free]
EFree(m, b) == [m EXCEPT !.buf[b] = Free]

(* estrndup, into the fresh buffer NewBuf(m). *)
EStrndup(m, text) == [m EXCEPT !.buf[NewBuf(m)] = [type |-> "buf", text |-> text]]

ZvalDtor(m, z) == IF IsString(m, z) THEN EFree(m, m.zv[z].val) ELSE m

ZvalCopyCtor(m, z) ==
  IF IsString(m, z)
  THEN [EStrndup(m, m.buf[m.zv[z].val].text) EXCEPT !.zv[z].val = NewBuf(m)]
  ELSE m

ZvalPtrDtor(m, z) ==
  CASE m.zv[z].rc = 1 -> FreeZval(ZvalDtor(m, z), z)
    [] m.zv[z].rc = 2 -> [DelRef(m, z) EXCEPT !.zv[z].ref = FALSE]
    [] OTHER          -> DelRef(m, z)

(***************************************************************************)
(* Mutations of the macros below                                           *)
(***************************************************************************)

(* The copy of a shared string keeps its buffer. *)
SeparateShallow(m, n) ==
  LET o == m.sym[n]
      z == NewZval(m)
  IN  IF m.zv[o].rc > 1
      THEN [DelRef(m, o) EXCEPT !.zv[z] = InitPzval(m.zv[o]), !.sym[n] = z]
      ELSE m

(* The destination is not separated before it is overwritten. *)
ReplaceUnseparated(m, n, s, copy) ==
  LET d == m.sym[n]
      w == [ZvalDtor(m, d) EXCEPT !.zv[d] = m.zv[s]]
  IN  [(IF copy THEN ZvalCopyCtor(w, d) ELSE w)
         EXCEPT !.zv[d].rc = m.zv[d].rc, !.zv[d].ref = m.zv[d].ref]

(***************************************************************************)
(* zend.h                                                                  *)
(***************************************************************************)

(* SEPARATE_ZVAL: a zval the name shares becomes a copy of its own. *)
SeparateZval(m, n) ==
  LET o == m.sym[n]
      z == NewZval(m)
  IN  IF m.zv[o].rc > 1
      THEN [ZvalCopyCtor([DelRef(m, o) EXCEPT !.zv[z] = m.zv[o]], z)
              EXCEPT !.zv[z] = InitPzval(@), !.sym[n] = z]
      ELSE m

SeparateIfNotRef(m, n) == IF IsRef(m, m.sym[n]) THEN m ELSE SeparateZval(m, n)

SeparateToMakeIsRef(m, n) ==
  IF IsRef(m, m.sym[n]) THEN m
  ELSE LET s == SeparateZval(m, n) IN [s EXCEPT !.zv[s.sym[n]].ref = TRUE]

(* COPY_PZVAL_TO_ZVAL: zval z takes the value of s over from one of its    *)
(* holders.                                                                *)
CopyPzvalToZval(m, z, s) ==
  LET c == [m EXCEPT !.zv[z] = m.zv[s]]
      d == IF m.zv[s].rc > 1 THEN DelRef(ZvalCopyCtor(c, z), s) ELSE FreeZval(c, s)
  IN  [d EXCEPT !.zv[z] = InitPzval(@)]

MakeCopyZval(m, s, z) ==
  [ZvalCopyCtor([m EXCEPT !.zv[z] = m.zv[s]], z) EXCEPT !.zv[z] = InitPzval(@)]

(* REPLACE_ZVAL_VALUE: the destination keeps its count and its flag. *)
ReplaceZvalValue(m0, n, s, copy) ==
  LET m == SeparateIfNotRef(m0, n)
      d == m.sym[n]
      w == [ZvalDtor(m, d) EXCEPT !.zv[d] = m.zv[s]]
  IN  [(IF copy THEN ZvalCopyCtor(w, d) ELSE w)
         EXCEPT !.zv[d].rc = m.zv[d].rc, !.zv[d].ref = m.zv[d].ref]

(* SEPARATE_ARG_IF_REF: zval s, or a copy of it when it is a reference,    *)
(* counted once more; and the address of the one it is.                    *)
SeparateArgIfRef(m, s) ==
  IF IsRef(m, s) THEN MakeCopyZval(m, s, NewZval(m)) ELSE AddRef(m, s)
ArgOf(m, s) == IF IsRef(m, s) THEN NewZval(m) ELSE s

(***************************************************************************)
(* zend_API.h                                                              *)
(***************************************************************************)

(* ZVAL_NULL, ZVAL_LONG, and ZVAL_STRINGL of a duplicated text.  The value *)
(* before is forgotten, not freed.                                         *)
ZvalSet(m, z, v) ==
  CASE v.type = "null"   -> [m EXCEPT !.zv[z].type = "null"]
    [] v.type = "long"   -> [m EXCEPT !.zv[z].type = "long", !.zv[z].val = v.val]
    [] v.type = "string" -> [EStrndup(m, v.val) EXCEPT !.zv[z].type = "string",
                                                       !.zv[z].val = NewBuf(m)]

(* ZVAL_ZVAL: z keeps its count and its flag; dtor gives up a reference to *)
(* s, whose value is gone unless it was copied.                            *)
ZvalZval(m, z, s, copy, dtor) ==
  LET c == [m EXCEPT !.zv[z] = m.zv[s]]
      d == IF copy THEN ZvalCopyCtor(c, z) ELSE c
      e == IF dtor /\ ~ copy THEN [d EXCEPT !.zv[s].type = "null"] ELSE d
      f == IF dtor THEN ZvalPtrDtor(e, s) ELSE e
  IN  [f EXCEPT !.zv[z].rc = m.zv[z].rc, !.zv[z].ref = m.zv[z].ref]

(* zend_hash_update releases the zval that was there (external). *)
HashUpdate(m, n, z) ==
  [(IF m.sym[n] = NULL THEN m ELSE ZvalPtrDtor(m, m.sym[n])) EXCEPT !.sym[n] = z]

(* ZEND_SET_SYMBOL_WITH_LENGTH: a name that is a reference keeps its zval, *)
(* which takes the new value over.                                         *)
SetSymbol(m, n, z, refcount, isRef) ==
  LET o  == m.sym[n]
      rc == m.zv[o].rc + (IF refcount > 0 THEN refcount - 1 ELSE 0)
  IN  IF o # NULL /\ IsRef(m, o)
      THEN [FreeZval(ZvalDtor(m, o), z)
              EXCEPT !.zv[o] = [m.zv[z] EXCEPT !.rc = rc, !.ref = TRUE]]
      ELSE HashUpdate([m EXCEPT !.zv[z].ref = isRef,
                         !.zv[z].rc = IF refcount > 0 THEN refcount ELSE @], n, z)

(***************************************************************************)
(* The script and the functions it calls                                   *)
(***************************************************************************)
ZendInit ==
  /\ zv = [z \in Ids |-> Free]
  /\ buf = [b \in Bufs |-> Free]
  /\ sym = [n \in Names |-> NULL]

IsSet(n) == sym[n] # NULL

(* SET_VAR_LONG, SET_VAR_STRING: a zval that was allocated and given a     *)
(* value, but no header, becomes the variable.                             *)
SetVar(n, v) ==
  \E junk \in Uninitialised :
    LET z == NewZval(memory)
    IN  Becomes(SetSymbol(ZvalSet([memory EXCEPT !.zv[z] = junk], z, v), n, z, 1, FALSE))

(* A function returns one of its own values into a variable: RETVAL_ZVAL   *)
(* of a copy, or MAKE_COPY_ZVAL.                                           *)
ReturnCopy(n, s) ==
  LET z == NewZval(memory)
      m == [memory EXCEPT !.zv[z] = ZvalUsedForInit]
  IN  /\ IsSet(s)
      /\ \/ Becomes(SetSymbol(ZvalZval(m, z, sym[s], TRUE, FALSE), n, z, 1, FALSE))
         \/ Becomes(SetSymbol(MakeCopyZval(m, sym[s], z), n, z, 0, FALSE))

(* It returns a local variable and gives it up: COPY_PZVAL_TO_ZVAL, or     *)
(* RETVAL_ZVAL with dtor, which without a copy asks for a local nobody     *)
(* else holds.                                                             *)
ReturnLocal(n, s) ==
  LET z == NewZval(memory)
      m == [memory EXCEPT !.zv[z] = ZvalUsedForInit, !.sym[s] = NULL]
  IN  /\ n # s
      /\ IsSet(s)
      /\ \/ Becomes(SetSymbol(CopyPzvalToZval(m, z, sym[s]), n, z, 1, FALSE))
         \/ \E copy \in BOOLEAN :
              /\ copy \/ zv[sym[s]].rc = 1
              /\ Becomes(SetSymbol(ZvalZval(m, z, sym[s], copy, TRUE), n, z, 1, FALSE))

(* A variable, or a parameter, that is no reference takes a value over:    *)
(* SEPARATE_ARG_IF_REF.                                                    *)
PassValue(n, s) ==
  /\ IsSet(s)
  /\ IsSet(n) => ~ IsRef(memory, sym[n])
  /\ Becomes(HashUpdate(SeparateArgIfRef(memory, sym[s]), n, ArgOf(memory, sym[s])))

(* The value of a variable is replaced: REPLACE_ZVAL_VALUE, from another   *)
(* zval, or without a copy from a result that is then freed.               *)
Replace(n, s) ==
  /\ IsSet(n) /\ IsSet(s)
  /\ sym[n] # sym[s]
  /\ Becomes(ReplaceZvalValue(memory, n, sym[s], TRUE))

ReplaceByResult(n, v) ==
  LET z == NewZval(memory)
      m == ZvalSet([memory EXCEPT !.zv[z] = ZvalUsedForInit], z, v)
  IN  /\ IsSet(n)
      /\ Becomes(FreeZval(ReplaceZvalValue(m, n, z, FALSE), z))

(* $n = &$s, or s passed by reference: SEPARATE_ZVAL_TO_MAKE_IS_REF; an    *)
(* unset variable is created by ALLOC_INIT_ZVAL.                           *)
BindRef(n, s) ==
  LET z == NewZval(memory)
      m == IF IsSet(s) THEN memory
           ELSE [memory EXCEPT !.zv[z] = ZvalUsedForInit, !.sym[s] = z]
      r == SeparateToMakeIsRef(m, s)
  IN  /\ n # s
      /\ Becomes(HashUpdate(AddRef(r, r.sym[s]), n, r.sym[s]))

(* A variable is changed in place: SEPARATE_ZVAL_IF_NOT_REF, then its      *)
(* value is destroyed and set, or a string is edited in its buffer.        *)
WriteInPlace(n, v) ==
  LET m == SeparateIfNotRef(memory, n)
      z == m.sym[n]
  IN  /\ IsSet(n)
      /\ \/ Becomes(ZvalSet(ZvalDtor(m, z), z, v))
         \/ /\ v.type = "string" /\ IsString(m, z)
            /\ Becomes([m EXCEPT !.buf[m.zv[z].val].text = v.val])

(* SEPARATE_ZVAL of a parameter the function wants for itself. *)
Separate(n) == IsSet(n) /\ Becomes(SeparateZval(memory, n))

Unset(n) ==
  /\ IsSet(n)
  /\ Becomes([ZvalPtrDtor(memory, sym[n]) EXCEPT !.sym[n] = NULL])

ZendNext ==
  \E n \in Names :
    \/ \E v \in Written : SetVar(n, v)
    \/ \E v \in Values : ReplaceByResult(n, v) \/ WriteInPlace(n, v)
    \/ \E s \in Names :
         ReturnCopy(n, s) \/ ReturnLocal(n, s) \/ PassValue(n, s) \/ Replace(n, s) \/ BindRef(n, s)
    \/ Separate(n) \/ Unset(n)

ZendSpec == ZendInit /\ [][ZendNext]_zendVars

(***************************************************************************)
(* Correctness                                                             *)
(***************************************************************************)

(* Every buffer in use belongs to exactly one string, and every string has *)
(* one: no macro of zend.h:679 to 745 or zend_API.h:515 to 676 shares a    *)
(* buffer between two zvals, leaks one or frees one that is still named.   *)
BuffersOwned ==
  \A b \in Bufs :
    Cardinality({z \in Ids : zv[z] # Free /\ zv[z].type = "string" /\ zv[z].val = b})
      = IF buf[b] = Free THEN 0 ELSE 1

NoValue == [type |-> "unset"]

Variables == INSTANCE PhpVariables WITH
  Null <- NullValue,
  Nothing <- NoValue,
  value <- [n \in Names |-> IF IsSet(n) THEN ValueOf(memory, sym[n]) ELSE NoValue],
  refs  <- [n \in Names |-> {x \in Names : \/ x = n
                                           \/ IsSet(n) /\ sym[x] = sym[n] /\ zv[sym[n]].ref}]

(* Copy on write works: however names come to share zvals, a write through *)
(* one name reaches exactly the names bound to it by reference (zend.h:679 *)
(* to 745, zend_API.h:515 to 676).                                         *)
ImplementsVariables == Variables!Spec

=============================================================================
