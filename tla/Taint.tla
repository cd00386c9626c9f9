-------------------------------- MODULE Taint --------------------------------
(***************************************************************************)
(* The taint extension over the zvals of ZendValues: the marking of the    *)
(* strings of a request, and the operands its opcode handlers unlock.      *)
(*                                                                         *)
(* Taken literally neither file compiles: php_taint.h defines its macros   *)
(* in lower case and taint.c uses them, and those of zend.h, in either     *)
(* case.  They are read as one.  The handlers themselves and the lock that *)
(* taint_pzval_lock names are not part of this repository.                 *)
(***************************************************************************)
EXTENDS ZendValues, Sequences

CONSTANT
  Tracked    (* The variables of the request, in the order of their table. *)

ASSUME TaintAssumption == Tracked \in Seq(Names)

VARIABLES
  op,        (* The operand of the current handler, and its state.         *)
  freeOp     (* The taint_free_op: what the handler has to free.           *)

taintVars == <<zendVars, op, freeOp>>

(* The operand of an opcode, and what the handler has done with it. *)
Operand(z, state) == [z |-> z, state |-> state]
NoOp == Operand(NULL, "none")
NoFree == [var |-> NULL, tmp |-> FALSE]

(* Mutation of UnlockFunc: the test of Z_DELREF_P is the wrong way round. *)
UnlockFuncFreesShared(m, z) ==
  LET d == DelRef(m, z)
  IN  IF d.zv[z].rc # 0
      THEN [mem |-> d, free |-> [var |-> z, tmp |-> FALSE]]
      ELSE [mem |-> [d EXCEPT !.zv[z].rc = 1], free |-> NoFree]

(* erealloc to make room for the mark behind the terminating NUL, which    *)
(* moves the buffer; zvals of other types are left alone.  The mark itself *)
(* is behind the text and no part of the value.                            *)
MarkString(m, n) ==
  LET z == m.sym[n]
      b == m.zv[z].val
  IN  IF z = NULL THEN m
      ELSE IF IsString(m, z)
      THEN [EFree(m, b) EXCEPT !.buf[NewBuf(m)] = m.buf[b], !.zv[z].val = NewBuf(m)]
      ELSE m

(* php_taint_mark_strings: Marked(m)[i] has the first i variables marked.  *)
Marked(m) ==
  LET marked[i \in 0 .. Len(Tracked)] ==
        IF i = 0 THEN m ELSE MarkString(marked[i - 1], Tracked[i])
  IN  marked

(* taint_pzval_unlock_func with unref: the last reference is kept for      *)
(* should_free; a reference only one name is left to is none any more.     *)
UnlockFunc(m, z) ==
  LET d == DelRef(m, z)
  IN  IF d.zv[z].rc = 0
      THEN [mem  |-> [d EXCEPT !.zv[z].rc = 1, !.zv[z].ref = FALSE],
            free |-> [var |-> z, tmp |-> FALSE]]
      ELSE [mem  |-> [d EXCEPT !.zv[z].ref = @ /\ d.zv[z].rc # 1],
            free |-> NoFree]

(* taint_free_op: a temporary of the handler is only destroyed, its zval   *)
(* is part of the frame; anything else gives up a reference.               *)
FreeOp(m, f) ==
  IF f.var = NULL THEN m
  ELSE IF f.tmp THEN FreeZval(ZvalDtor(m, f.var), f.var)
  ELSE ZvalPtrDtor(m, f.var)

(* make_real_zval_ptr: the value of temporary z in a zval of its own, with *)
(* the header of init_pzval_copy; what z holds is not copied.              *)
MakeRealZvalPtr(m, z) == [m EXCEPT !.zv[NewZval(m)] = InitPzval(m.zv[z])]

TaintInit == ZendInit /\ op = NoOp /\ freeOp = NoFree

Handling == op.state \in {"unlocked", "temporary", "used"}

(* php_taint_mark_strings over the variables of the request. *)
MarkStrings ==
  /\ ~ Handling
  /\ Becomes(Marked(memory)[Len(Tracked)])
  /\ UNCHANGED <<op, freeOp>>

(* An earlier opcode has fetched a variable: its zval is locked. *)
Fetch(n) ==
  /\ op = NoOp
  /\ IsSet(n)
  /\ Becomes(AddRef(memory, sym[n]))
  /\ op' = Operand(sym[n], "locked")
  /\ UNCHANGED freeOp

(* An earlier opcode has left a temporary: taint_tmp_free tags it. *)
FetchTmp(v) ==
  LET z == NewZval(memory)
  IN  /\ op = NoOp
      /\ Becomes(ZvalSet([memory EXCEPT !.zv[z] = ZvalUsedForInit], z, v))
      /\ op' = Operand(z, "temporary")
      /\ freeOp' = [var |-> z, tmp |-> TRUE]

Unlock ==
  LET u == UnlockFunc(memory, op.z)
  IN  /\ op.state = "locked"
      /\ Becomes(u.mem)
      /\ freeOp' = u.free
      /\ op' = [op EXCEPT !.state = "unlocked"]

(* The handler assigns its operand to a variable. *)
AssignOperand(n) ==
  /\ op.state = "unlocked"
  /\ Becomes(IF IsSet(n) /\ IsRef(memory, sym[n])
             THEN IF sym[n] = op.z THEN memory ELSE ReplaceZvalValue(memory, n, op.z, TRUE)
             ELSE HashUpdate(SeparateArgIfRef(memory, op.z), n, ArgOf(memory, op.z)))
  /\ op' = [op EXCEPT !.state = "used"]
  /\ UNCHANGED freeOp

(* The handler makes its temporary a variable, or the value of a reference *)
(* set, and has nothing to free then; or FreeOperand destroys it.          *)
AssignTmp(n) ==
  /\ op.state = "temporary"
  /\ Becomes(SetSymbol(FreeZval(MakeRealZvalPtr(memory, op.z), op.z),
                       n, NewZval(memory), 0, FALSE))
  /\ op' = [op EXCEPT !.state = "used"]
  /\ freeOp' = NoFree

FreeOperand ==
  /\ Handling
  /\ Becomes(FreeOp(memory, freeOp))
  /\ op' = NoOp
  /\ freeOp' = NoFree

TaintNext ==
  \/ ~ Handling /\ ZendNext /\ UNCHANGED <<op, freeOp>>
  \/ MarkStrings \/ Unlock \/ FreeOperand
  \/ \E n \in Names : Fetch(n) \/ AssignOperand(n) \/ AssignTmp(n)
  \/ \E v \in Written : FetchTmp(v)

TaintSpec == TaintInit /\ [][TaintNext]_taintVars

(***************************************************************************)
(* Correctness                                                             *)
(***************************************************************************)

(* Those who hold zval z: its names, the lock of an operand, and what a    *)
(* handler has still to free.                                              *)
Holders(z) ==
  Cardinality({n \in Names : sym[n] = z})
  + (IF op.state = "locked" /\ op.z = z THEN 1 ELSE 0)
  + (IF freeOp.var = z THEN 1 ELSE 0)

(* The reference count of a zval is the number of its holders, and a zval  *)
(* without one is freed: never early, never twice, never not at all, with  *)
(* operands unlocked before they are used (taint.c:141 to 153,             *)
(* php_taint.h:131 to 143, zend.h:679 to 745, zend_API.h:515 to 676).      *)
RefcountsExact ==
  \A z \in Ids : IF zv[z] = Free THEN Holders(z) = 0
                 ELSE zv[z].rc = Holders(z) /\ zv[z].rc > 0

=============================================================================
