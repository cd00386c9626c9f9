------------------------------- MODULE MCZend -------------------------------
(* Instances of Taint, and of the zvals under it, for TLC. *)
EXTENDS Taint

CONSTANTS x, y, p

MCNames == {x, y, p}
MCTracked == <<x, p>>

(* States that differ in the addresses of zvals and buffers only, or in    *)
(* the value a null zval had, behave alike: the view shows what every      *)
(* holder holds, which hold the same zval, and how much memory is in use.  *)
Cells == <<sym[x], sym[y], sym[p], op.z, freeOp.var>>

Look(z) ==
  IF z = NULL THEN Free
  ELSE CASE zv[z].type = "free" -> Free
         [] zv[z].type = "null" -> [zv[z] EXCEPT !.val = 0]
         [] zv[z].type = "long" -> zv[z]
         [] OTHER               -> [zv[z] EXCEPT !.val = buf[@]]

AddressFree ==
  <<[i \in 1 .. 5 |-> Look(Cells[i])],
    {c \in (1 .. 5) \X (1 .. 5) : Cells[c[1]] = Cells[c[2]]},
    op.state, freeOp.tmp,
    Cardinality({z \in Ids : zv[z] # Free}), Cardinality({b \in Bufs : buf[b] # Free})>>

=============================================================================
