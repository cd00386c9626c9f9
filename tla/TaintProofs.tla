----------------------------- MODULE TaintProofs -----------------------------
(***************************************************************************)
(* Proofs about Taint and the macros of ZendValues: reference counts are   *)
(* exact, every string buffer has one owner, and a script sees variables,  *)
(* for any number of names, values and operations.                         *)
(***************************************************************************)
EXTENDS Taint, FiniteSetTheorems, NaturalsInduction, TLAPS

(***************************************************************************)
(* Memory                                                                  *)
(***************************************************************************)

Cell ==
  {c \in [type : {"null", "long", "string"}, val : Bufs \cup Longs \cup {0},
          rc : Nat, ref : BOOLEAN] :
     (c.type = "long" => c.val \in Longs) /\ (c.type = "string" => c.val \in Bufs)}

Chunk == [type : {"buf"}, text : Texts]

Memory == [zv : [Ids -> Cell \cup {Free}], buf : [Bufs -> Chunk \cup {Free}],
           sym : [Names -> Ids \cup {NULL}]]

(* The strings other than zval e own the buffers, each its own.            *)
OwnedBut(m, e) ==
  /\ \A z \in Ids : z # e /\ IsString(m, z) =>
       /\ m.buf[m.zv[z].val] # Free
       /\ \A y \in Ids : y # e /\ IsString(m, y) /\ m.zv[y].val = m.zv[z].val => y = z
  /\ \A b \in Bufs : m.buf[b] # Free =>
       \E z \in Ids : z # e /\ IsString(m, z) /\ m.zv[z].val = b

Owned(m) == OwnedBut(m, NULL)

(* Zval z has value v, count c and reference flag f.                       *)
Is(m, z, v, c, f) ==
  m.zv[z] \in Cell /\ ValueOf(m, z) = v /\ m.zv[z].rc = c /\ m.zv[z].ref = f

(* Zval y is untouched.                                                    *)
Same(m, r, y) ==
  r.zv[y] = m.zv[y] /\ (m.zv[y] # Free => ValueOf(r, y) = ValueOf(m, y))

(* The assignments the macros consist of.                                  *)
Header(c, n, f) == [c EXCEPT !.rc = n, !.ref = f]
Content(c, t, v) == [c EXCEPT !.type = t, !.val = v]
Reset(m, z, n, f) == [m EXCEPT !.zv[z].rc = n, !.zv[z].ref = f]
Store(m, z, c) == [m EXCEPT !.zv[z] = c]
Fill(m, b, u) == [m EXCEPT !.buf[b] = u]
Rename(m, n, z) == [m EXCEPT !.sym[n] = z]

(* The two values of a reference flag.                                     *)
Off == FALSE
On == TRUE

HasZval(m) == \E z \in Ids : m.zv[z] = Free
HasBuf(m) == \E b \in Bufs : m.buf[b] = Free

(***************************************************************************)
(* Types                                                                   *)
(***************************************************************************)

LEMMA FreeIsNone ==
  /\ Free \notin Cell /\ Free \notin Chunk
  /\ Free.type = "free"
  /\ \A c \in Cell : c.type # "free" /\ c # Free
  /\ \A c \in Chunk : c # Free
BY DEF Free, Cell, Chunk

LEMMA Flags == Off \in BOOLEAN /\ On \in BOOLEAN
BY DEF Off, On

LEMMA CellFields ==
  ASSUME NEW c \in Cell
  PROVE  /\ c.type \in {"null", "long", "string"}
         /\ c.type = "long" => c.val \in Longs
         /\ c.type = "string" => c.val \in Bufs
         /\ c.val \in Bufs \cup Longs \cup {0}
         /\ c.rc \in Nat /\ c.ref \in BOOLEAN
         /\ c = [type |-> c.type, val |-> c.val, rc |-> c.rc, ref |-> c.ref]
BY DEF Cell

LEMMA CellHeader ==
  ASSUME NEW k \in Cell, NEW n \in Nat, NEW f \in BOOLEAN
  PROVE  LET c == Header(k, n, f)
         IN  c \in Cell /\ c.type = k.type /\ c.val = k.val /\ c.rc = n /\ c.ref = f
<1> DEFINE c == Header(k, n, f)
<1>0. c = [k EXCEPT !.rc = n, !.ref = f]
  BY DEF Header
<1> HIDE DEF c
<1>1. DOMAIN k = {"type", "val", "rc", "ref"}
  BY DEF Cell
<1>2. c.type = k.type /\ c.val = k.val /\ c.rc = n
  BY <1>0, <1>1
<1>3. c.ref = f
  BY <1>0, <1>1, Zenon
<1>4. DOMAIN c = {"type", "val", "rc", "ref"}
  BY <1>0, <1>1
<1>5. c = [type |-> c.type, val |-> c.val, rc |-> c.rc, ref |-> c.ref]
  BY <1>0, <1>1, <1>4
<1>6. c.type \in {"null", "long", "string"} /\ c.val \in Bufs \cup Longs \cup {0}
  BY <1>2, CellFields
<1>7. c.ref \in BOOLEAN
  BY <1>3
<1>8. c \in [type : {"null", "long", "string"}, val : Bufs \cup Longs \cup {0},
             rc : Nat, ref : BOOLEAN]
  BY <1>2, <1>5, <1>6, <1>7
<1> QED
  BY <1>2, <1>3, <1>8, CellFields DEF Cell, c

LEMMA CellValue ==
  ASSUME NEW k \in Cell, NEW t \in {"null", "long", "string"},
         NEW v \in Bufs \cup Longs \cup {0}, t = "long" => v \in Longs, t = "string" => v \in Bufs
  PROVE  LET c == Content(k, t, v)
         IN  c \in Cell /\ c.type = t /\ c.val = v /\ c.rc = k.rc /\ c.ref = k.ref
BY DEF Cell, Content

LEMMA MemoryStore ==
  ASSUME NEW m \in Memory, NEW z \in Ids, NEW c \in Cell \cup {Free}
  PROVE  LET r == Store(m, z, c)
         IN  r \in Memory /\ r.zv = [m.zv EXCEPT ![z] = c] /\ r.buf = m.buf /\ r.sym = m.sym
BY DEF Memory, Store

LEMMA MemoryChunk ==
  ASSUME NEW m \in Memory, NEW b \in Bufs, NEW u \in Chunk \cup {Free}
  PROVE  LET r == Fill(m, b, u)
         IN  r \in Memory /\ r.zv = m.zv /\ r.buf = [m.buf EXCEPT ![b] = u] /\ r.sym = m.sym
BY DEF Memory, Fill

LEMMA MemoryBind ==
  ASSUME NEW m \in Memory, NEW n \in Names, NEW z \in Ids \cup {NULL}
  PROVE  LET r == Rename(m, n, z)
         IN  r \in Memory /\ r.zv = m.zv /\ r.buf = m.buf /\ r.sym = [m.sym EXCEPT ![n] = z]
BY DEF Memory, Rename

LEMMA MemoryFields ==
  ASSUME NEW m \in Memory
  PROVE  /\ m.zv \in [Ids -> Cell \cup {Free}]
         /\ m.buf \in [Bufs -> Chunk \cup {Free}]
         /\ m.sym \in [Names -> Ids \cup {NULL}]
         /\ m = [zv |-> m.zv, buf |-> m.buf, sym |-> m.sym]
         /\ \A z \in Ids : m.zv[z] = Free <=> m.zv[z].type = "free"
         /\ \A z \in Ids : m.zv[z] # Free => m.zv[z] \in Cell
         /\ \A z \in Ids : IsString(m, z) => m.zv[z] \in Cell /\ m.zv[z] # Free
                                             /\ m.zv[z].val \in Bufs
         /\ \A b \in Bufs : m.buf[b] # Free => m.buf[b].text \in Texts
BY FreeIsNone, CellFields DEF Memory, IsString, Chunk

LEMMA NewZvalFree ==
  ASSUME NEW m, HasZval(m)
  PROVE  NewZval(m) \in Ids /\ m.zv[NewZval(m)] = Free
BY DEF NewZval, HasZval

LEMMA NewBufFree ==
  ASSUME NEW m, HasBuf(m)
  PROVE  NewBuf(m) \in Bufs /\ m.buf[NewBuf(m)] = Free
BY DEF NewBuf, HasBuf

(* The value of an owned zval is one a script can see.                     *)
LEMMA ValueIs ==
  ASSUME NEW m \in Memory, NEW z \in Ids, m.zv[z] # Free
  PROVE  /\ m.zv[z].type = "null" => ValueOf(m, z) = NullValue
         /\ m.zv[z].type = "long" => ValueOf(m, z) = [type |-> "long", val |-> m.zv[z].val]
         /\ m.zv[z].type = "string" =>
              ValueOf(m, z) = [type |-> "string", val |-> m.buf[m.zv[z].val].text]
         /\ m.zv[z].type \in {"null", "long", "string"}
BY MemoryFields, CellFields DEF ValueOf, NullValue

LEMMA ValueType ==
  ASSUME NEW m \in Memory, NEW z \in Ids, m.zv[z] # Free,
         NEW e, OwnedBut(m, e), z # e
  PROVE  ValueOf(m, z) \in Values
<1>1. CASE m.zv[z].type = "null"
  BY <1>1, ValueIs DEF Values
<1>2. CASE m.zv[z].type = "long"
  BY <1>2, ValueIs, MemoryFields, CellFields DEF Values, Written
<1>3. CASE m.zv[z].type = "string"
  <2>1. m.buf[m.zv[z].val].text \in Texts
    BY <1>3, MemoryFields DEF OwnedBut, IsString
  <2> QED
    BY <1>3, <2>1, ValueIs DEF Values, Written
<1> QED
  BY <1>1, <1>2, <1>3, ValueIs

(* A zval's value depends on its cell and on its buffer.                   *)
LEMMA ValueSame ==
  ASSUME NEW m \in Memory, NEW r \in Memory, NEW y \in Ids, m.zv[y] # Free, r.zv[y] # Free,
         r.zv[y].type = m.zv[y].type,
         m.zv[y].type = "long" => r.zv[y].val = m.zv[y].val,
         m.zv[y].type = "string" => r.buf[r.zv[y].val].text = m.buf[m.zv[y].val].text
  PROVE  ValueOf(r, y) = ValueOf(m, y)
<1>1. CASE m.zv[y].type = "null"
  BY <1>1, ValueIs
<1>2. CASE m.zv[y].type = "long"
  BY <1>2, ValueIs
<1>3. CASE m.zv[y].type = "string"
  BY <1>3, ValueIs
<1> QED
  BY <1>1, <1>2, <1>3, ValueIs

LEMMA SameIf ==
  ASSUME NEW m \in Memory, NEW r \in Memory, NEW y \in Ids, r.zv[y] = m.zv[y],
         IsString(m, y) => r.buf[m.zv[y].val] = m.buf[m.zv[y].val]
  PROVE  Same(m, r, y)
<1>1. CASE m.zv[y] = Free
  BY <1>1 DEF Same
<1>2. CASE m.zv[y] # Free
  <2>1. m.zv[y].type = "string" => r.buf[r.zv[y].val].text = m.buf[m.zv[y].val].text
    BY DEF IsString
  <2>2. ValueOf(r, y) = ValueOf(m, y)
    BY <1>2, <2>1, ValueSame
  <2> QED
    BY <2>2 DEF Same
<1> QED
  BY <1>1, <1>2

(***************************************************************************)
(* Buffers and their owners                                                *)
(***************************************************************************)

(* zval_dtor leaves a zval that owns nothing.                              *)
LEMMA DtorOwned ==
  ASSUME NEW m \in Memory, Owned(m), NEW z \in Ids, NEW d, d = ZvalDtor(m, z)
  PROVE  /\ d \in Memory /\ OwnedBut(d, z) /\ d.zv = m.zv /\ d.sym = m.sym
         /\ \A y \in Ids : y # z => Same(m, d, y)
         /\ HasBuf(m) => HasBuf(d)
<1>0. NULL \notin Ids
  BY ZendAssumption
<1>1. CASE IsString(m, z)
  <2> DEFINE b == m.zv[z].val
  <2>1. b \in Bufs /\ m.buf[b] # Free
    BY <1>0, <1>1, MemoryFields DEF Owned, OwnedBut
  <2>2. d = [m EXCEPT !.buf[b] = Free]
    BY <1>1 DEF ZvalDtor, EFree
  <2>3. /\ d.zv = m.zv /\ d.sym = m.sym /\ d.buf = [m.buf EXCEPT ![b] = Free]
        /\ d \in Memory
    BY <2>1, <2>2 DEF Memory
  <2>4. OwnedBut(d, z)
    <3>1. ASSUME NEW y \in Ids, y # z, IsString(d, y)
          PROVE  d.buf[d.zv[y].val] # Free
      <4>1. m.zv[y].val # b /\ m.zv[y].val \in Bufs /\ m.buf[m.zv[y].val] # Free
        BY <1>0, <1>1, <2>3, <3>1, MemoryFields DEF Owned, OwnedBut, IsString
      <4> QED
        BY <2>3, <4>1, MemoryFields
    <3>2. ASSUME NEW y \in Ids, NEW u \in Ids, IsString(d, y), IsString(d, u),
                 d.zv[y].val = d.zv[u].val
          PROVE  y = u
      BY <1>0, <2>3, <3>2 DEF Owned, OwnedBut, IsString
    <3>3. ASSUME NEW c \in Bufs, d.buf[c] # Free
          PROVE  \E y \in Ids : y # z /\ IsString(d, y) /\ d.zv[y].val = c
      <4>1. c # b /\ m.buf[c] # Free
        BY <2>1, <2>3, <3>3, MemoryFields
      <4>2. PICK y \in Ids : IsString(m, y) /\ m.zv[y].val = c
        BY <4>1 DEF Owned, OwnedBut
      <4> QED
        BY <2>3, <4>1, <4>2 DEF IsString
    <3> QED
      BY <3>1, <3>2, <3>3 DEF OwnedBut
  <2>5. ASSUME NEW y \in Ids, y # z PROVE Same(m, d, y)
    <3>1. IsString(m, y) => m.zv[y].val \in Bufs /\ m.zv[y].val # b
      BY <1>0, <1>1, <2>5, MemoryFields DEF Owned, OwnedBut
    <3>2. IsString(m, y) => d.buf[d.zv[y].val] = m.buf[m.zv[y].val]
      BY <2>3, <3>1, MemoryFields
    <3> QED
      BY <2>3, <3>2, SameIf
  <2>6. HasBuf(d)
    BY <2>1, <2>3, MemoryFields DEF HasBuf
  <2> QED
    BY <2>3, <2>4, <2>5, <2>6
<1>2. CASE ~ IsString(m, z)
  <2>1. d = m
    BY <1>2 DEF ZvalDtor
  <2>2. OwnedBut(m, z)
    BY <1>0, <1>2 DEF Owned, OwnedBut
  <2> QED
    BY <2>1, <2>2 DEF Same
<1> QED
  BY <1>1, <1>2

(* What is said of the others does not depend on e.                        *)
LEMMA HeadersOwned ==
  ASSUME NEW m \in Memory, NEW r \in Memory, NEW e, OwnedBut(m, e), r.buf = m.buf,
         \A z \in Ids : z # e => r.zv[z].type = m.zv[z].type /\ r.zv[z].val = m.zv[z].val
  PROVE  /\ OwnedBut(r, e)
         /\ \A z \in Ids : z # e /\ m.zv[z] # Free => ValueOf(r, z) = ValueOf(m, z)
<1>1. OwnedBut(r, e)
  BY DEF OwnedBut, IsString
<1>2. ASSUME NEW z \in Ids, z # e, m.zv[z] # Free PROVE ValueOf(r, z) = ValueOf(m, z)
  BY <1>2, ValueSame, MemoryFields
<1> QED
  BY <1>1, <1>2

(* A zval that is no string owns nothing.                                  *)
LEMMA OwnsNothing ==
  ASSUME NEW m \in Memory, NEW e \in Ids, ~ IsString(m, e)
  PROVE  OwnedBut(m, e) <=> Owned(m)
BY ZendAssumption DEF Owned, OwnedBut

(* Zval z, which owns nothing, is given a cell that owns nothing.          *)
LEMMA StoreScalar ==
  ASSUME NEW m \in Memory, NEW r \in Memory, NEW z \in Ids, OwnedBut(m, z),
         NEW c, c.type # "string", r.zv = [m.zv EXCEPT ![z] = c], r.buf = m.buf
  PROVE  Owned(r) /\ \A y \in Ids : y # z => Same(m, r, y)
<1>1. \A y \in Ids : y # z => r.zv[y] = m.zv[y]
  BY MemoryFields
<1>2. ~ IsString(r, z)
  BY MemoryFields DEF IsString
<1>3. OwnedBut(r, z)
  BY <1>1 DEF OwnedBut, IsString
<1>4. \A y \in Ids : y # z => Same(m, r, y)
  BY <1>1, SameIf
<1> QED
  BY <1>2, <1>3, <1>4, OwnsNothing

(* It is given a fresh buffer.                                             *)
LEMMA StoreString ==
  ASSUME NEW m \in Memory, NEW r \in Memory, NEW z \in Ids, OwnedBut(m, z),
         NEW b \in Bufs, m.buf[b] = Free, NEW t \in Texts,
         NEW c \in Cell, c.type = "string", c.val = b,
         r.zv = [m.zv EXCEPT ![z] = c], r.buf = [m.buf EXCEPT ![b] = [type |-> "buf", text |-> t]]
  PROVE  /\ Owned(r)
         /\ \A y \in Ids : y # z => Same(m, r, y)
         /\ Is(r, z, [type |-> "string", val |-> t], c.rc, c.ref)
<1>0. NULL \notin Ids
  BY ZendAssumption
<1>1. r.zv[z] = c /\ \A y \in Ids : y # z => r.zv[y] = m.zv[y]
  BY MemoryFields
<1>2. /\ r.buf[b] = [type |-> "buf", text |-> t] /\ r.buf[b] # Free
      /\ \A k \in Bufs : k # b => r.buf[k] = m.buf[k]
  BY MemoryFields, FreeIsNone DEF Free
<1>3. \A y \in Ids : y # z /\ IsString(m, y) => m.zv[y].val \in Bufs /\ m.zv[y].val # b
  BY MemoryFields DEF OwnedBut
<1>4. ASSUME NEW y \in Ids, IsString(r, y)
      PROVE  /\ r.buf[r.zv[y].val] # Free
             /\ \A u \in Ids : IsString(r, u) /\ r.zv[u].val = r.zv[y].val => u = y
  <2>1. CASE y = z
    BY <1>1, <1>2, <1>3, <2>1 DEF IsString
  <2>2. CASE y # z
    <3>1. IsString(m, y)
      BY <1>1, <1>4, <2>2 DEF IsString
    <3>2. r.buf[r.zv[y].val] # Free
      BY <1>1, <1>2, <1>3, <2>2, <3>1 DEF OwnedBut
    <3>3. ASSUME NEW u \in Ids, IsString(r, u), r.zv[u].val = r.zv[y].val PROVE u = y
      <4>1. u # z
        BY <1>1, <1>3, <2>2, <3>1, <3>3
      <4>2. IsString(m, u) /\ m.zv[u].val = m.zv[y].val
        BY <1>1, <2>2, <3>3, <4>1 DEF IsString
      <4> QED
        BY <2>2, <3>1, <4>1, <4>2 DEF OwnedBut
    <3> QED
      BY <3>2, <3>3
  <2> QED
    BY <2>1, <2>2
<1>5. ASSUME NEW k \in Bufs, r.buf[k] # Free
      PROVE  \E y \in Ids : IsString(r, y) /\ r.zv[y].val = k
  <2>1. CASE k = b
    BY <1>1, <2>1 DEF IsString
  <2>2. CASE k # b
    <3>1. PICK y \in Ids : y # z /\ IsString(m, y) /\ m.zv[y].val = k
      BY <1>2, <1>5, <2>2 DEF OwnedBut
    <3> QED
      BY <1>1, <3>1 DEF IsString
  <2> QED
    BY <2>1, <2>2
<1>6. Owned(r)
  BY <1>0, <1>4, <1>5 DEF Owned, OwnedBut
<1>7. ASSUME NEW y \in Ids, y # z PROVE Same(m, r, y)
  <2>1. IsString(m, y) => r.buf[r.zv[y].val] = m.buf[m.zv[y].val]
    BY <1>1, <1>2, <1>3, <1>7
  <2> QED
    BY <1>1, <1>7, <2>1, SameIf
<1>8. Is(r, z, [type |-> "string", val |-> t], c.rc, c.ref)
  <2>1. r.zv[z] # Free /\ r.zv[z].type = "string" /\ r.buf[r.zv[z].val].text = t
    BY <1>1, <1>2, FreeIsNone
  <2>2. ValueOf(r, z) = [type |-> "string", val |-> t]
    BY <2>1, ValueIs
  <2> QED
    BY <1>1, <2>2 DEF Is
<1> QED
  BY <1>6, <1>7, <1>8

(* It takes over what zval s owns.                                         *)
LEMMA StoreMoved ==
  ASSUME NEW m \in Memory, NEW r \in Memory, NEW z \in Ids, NEW s \in Ids, z # s,
         OwnedBut(m, z), m.zv[s] # Free,
         NEW c \in Cell, c.type = m.zv[s].type, c.val = m.zv[s].val,
         NEW k, k.type # "string",
         r.zv[z] = c, r.zv[s] = k, \A y \in Ids : y \notin {z, s} => r.zv[y] = m.zv[y],
         r.buf = m.buf
  PROVE  /\ Owned(r)
         /\ \A y \in Ids : y \notin {z, s} => Same(m, r, y)
         /\ Is(r, z, ValueOf(m, s), c.rc, c.ref) /\ r.zv[s] = k
<1>0. NULL \notin Ids
  BY ZendAssumption
<1>1. r.zv[z] = c /\ r.zv[s] = k /\ \A y \in Ids : y \notin {z, s} => r.zv[y] = m.zv[y]
  OBVIOUS
<1>2. ASSUME NEW y \in Ids, y \notin {z, s} PROVE Same(m, r, y)
  BY <1>1, <1>2, SameIf
<1>3. ASSUME NEW y \in Ids, IsString(r, y)
      PROVE  \E x \in Ids : /\ x # z /\ IsString(m, x) /\ m.zv[x].val = r.zv[y].val
                            /\ x = IF y = z THEN s ELSE y
  BY <1>1, <1>3 DEF IsString
<1>4. ASSUME NEW x \in Ids, x # z, IsString(m, x)
      PROVE  \E y \in Ids : IsString(r, y) /\ r.zv[y].val = m.zv[x].val
  <2>1. CASE x = s
    BY <1>1, <1>4, <2>1 DEF IsString
  <2>2. CASE x # s
    BY <1>1, <1>4, <2>2 DEF IsString
  <2> QED
    BY <2>1, <2>2
<1>5. ASSUME NEW y \in Ids, IsString(r, y)
      PROVE  r.buf[r.zv[y].val] # Free
  BY <1>3, <1>5 DEF OwnedBut
<1>6. ASSUME NEW y \in Ids, IsString(r, y), NEW u \in Ids, IsString(r, u),
             r.zv[u].val = r.zv[y].val
      PROVE  u = y
  <2>1. PICK x \in Ids : /\ x # z /\ IsString(m, x) /\ m.zv[x].val = r.zv[y].val
                         /\ x = IF y = z THEN s ELSE y
    BY <1>3, <1>6
  <2>2. PICK w \in Ids : /\ w # z /\ IsString(m, w) /\ m.zv[w].val = r.zv[u].val
                         /\ w = IF u = z THEN s ELSE u
    BY <1>3, <1>6
  <2>3. x = w
    BY <1>6, <2>1, <2>2 DEF OwnedBut
  <2>4. y # s /\ u # s
    BY <1>1, <1>6 DEF IsString
  <2> QED
    BY <2>1, <2>2, <2>3, <2>4
<1>7. ASSUME NEW b \in Bufs, r.buf[b] # Free
      PROVE  \E y \in Ids : IsString(r, y) /\ r.zv[y].val = b
  <2>1. PICK x \in Ids : x # z /\ IsString(m, x) /\ m.zv[x].val = b
    BY <1>7 DEF OwnedBut
  <2> QED
    BY <1>4, <2>1
<1>8. Owned(r)
  BY <1>0, <1>5, <1>6, <1>7 DEF Owned, OwnedBut
<1>9. ValueOf(r, z) = ValueOf(m, s)
  <2>1. r.zv[z] # Free
    BY <1>1, FreeIsNone
  <2>2. /\ r.zv[z].type = m.zv[s].type /\ r.zv[z].val = m.zv[s].val
        /\ r.buf[r.zv[z].val].text = m.buf[m.zv[s].val].text
    BY <1>1
  <2>3. /\ m.zv[s].type = "null" => ValueOf(m, s) = NullValue
        /\ m.zv[s].type = "long" => ValueOf(m, s) = [type |-> "long", val |-> m.zv[s].val]
        /\ m.zv[s].type = "string" =>
             ValueOf(m, s) = [type |-> "string", val |-> m.buf[m.zv[s].val].text]
        /\ m.zv[s].type \in {"null", "long", "string"}
    BY ValueIs
  <2>4. /\ r.zv[z].type = "null" => ValueOf(r, z) = NullValue
        /\ r.zv[z].type = "long" => ValueOf(r, z) = [type |-> "long", val |-> r.zv[z].val]
        /\ r.zv[z].type = "string" =>
             ValueOf(r, z) = [type |-> "string", val |-> r.buf[r.zv[z].val].text]
    BY <2>1, ValueIs
  <2> QED
    BY <2>2, <2>3, <2>4
<1> QED
  BY <1>1, <1>2, <1>8, <1>9 DEF Is

(***************************************************************************)
(* What the macros do to zvals and buffers                                 *)
(***************************************************************************)

(* Only the header of zval z changes.                                      *)
LEMMA Reheader ==
  ASSUME NEW m \in Memory, Owned(m), NEW z \in Ids, m.zv[z] # Free,
         NEW r \in Memory, r.buf = m.buf, \A y \in Ids : y # z => r.zv[y] = m.zv[y],
         r.zv[z] \in Cell, r.zv[z].type = m.zv[z].type, r.zv[z].val = m.zv[z].val
  PROVE  /\ Owned(r)
         /\ \A y \in Ids : y # z => Same(m, r, y)
         /\ Is(r, z, ValueOf(m, z), r.zv[z].rc, r.zv[z].ref)
<1>1. \A y \in Ids : r.zv[y].type = m.zv[y].type /\ r.zv[y].val = m.zv[y].val
  OBVIOUS
<1>2. Owned(r)
  BY <1>1 DEF Owned, OwnedBut, IsString
<1>3. \A y \in Ids : y # z => Same(m, r, y)
  BY SameIf
<1>4. ValueOf(r, z) = ValueOf(m, z)
  <2>1. r.zv[z] # Free
    BY FreeIsNone
  <2>2. m.zv[z].type = "string" => r.buf[r.zv[z].val].text = m.buf[m.zv[z].val].text
    OBVIOUS
  <2> QED
    BY <2>1, <2>2, ValueSame
<1> QED
  BY <1>2, <1>3, <1>4 DEF Is

LEMMA HeaderIs ==
  ASSUME NEW m \in Memory, Owned(m), NEW z \in Ids, m.zv[z] # Free,
         NEW n \in Nat, NEW f \in BOOLEAN,
         NEW r, r = Store(m, z, Header(m.zv[z], n, f))
  PROVE  /\ r \in Memory /\ Owned(r) /\ r.sym = m.sym /\ r.buf = m.buf
         /\ \A y \in Ids : y # z => Same(m, r, y)
         /\ Is(r, z, ValueOf(m, z), n, f)
         /\ r.zv[z].type = m.zv[z].type /\ r.zv[z].val = m.zv[z].val
<1> DEFINE c == Header(m.zv[z], n, f)
<1>1. m.zv[z] \in Cell
  BY MemoryFields
<1>2. /\ c \in Cell /\ c.type = m.zv[z].type /\ c.val = m.zv[z].val
      /\ c.rc = n /\ c.ref = f
  BY <1>1, CellHeader
<1> HIDE DEF c
<1>3. r \in Memory /\ r.zv = [m.zv EXCEPT ![z] = c] /\ r.buf = m.buf /\ r.sym = m.sym
  BY <1>2, MemoryStore DEF c
<1>4. r.zv[z] = c /\ \A y \in Ids : y # z => r.zv[y] = m.zv[y]
  BY <1>3, MemoryFields
<1>5. /\ Owned(r)
      /\ \A y \in Ids : y # z => Same(m, r, y)
      /\ Is(r, z, ValueOf(m, z), r.zv[z].rc, r.zv[z].ref)
  BY <1>2, <1>3, <1>4, Reheader
<1> QED
  BY <1>2, <1>3, <1>4, <1>5 DEF Is

LEMMA AddRefIs ==
  ASSUME NEW m \in Memory, Owned(m), NEW z \in Ids, m.zv[z] # Free
  PROVE  AddRef(m, z) = Store(m, z, Header(m.zv[z], m.zv[z].rc + 1, m.zv[z].ref))
<1>1. m.zv[z] \in Cell
  BY MemoryFields
<1> QED
  BY <1>1 DEF AddRef, Memory, Cell, Header, Store

LEMMA DelRefIs ==
  ASSUME NEW m \in Memory, Owned(m), NEW z \in Ids, m.zv[z] # Free
  PROVE  /\ DelRef(m, z) = Store(m, z, Header(m.zv[z], m.zv[z].rc - 1, m.zv[z].ref))
         /\ \A f \in BOOLEAN : [DelRef(m, z) EXCEPT !.zv[z].ref = f] =
                                Store(m, z, Header(m.zv[z], m.zv[z].rc - 1, f))
<1>1. m.zv[z] \in Cell
  BY MemoryFields
<1>2. DelRef(m, z) = Store(m, z, Header(m.zv[z], m.zv[z].rc - 1, m.zv[z].ref))
  BY <1>1 DEF DelRef, Memory, Cell, Header, Store
<1>3. ASSUME NEW f \in BOOLEAN
      PROVE  [DelRef(m, z) EXCEPT !.zv[z].ref = f] = Store(m, z, Header(m.zv[z], m.zv[z].rc - 1, f))
  BY <1>1, Zenon DEF DelRef, Memory, Cell, Header, Store
<1> QED
  BY <1>2, <1>3

(* A new zval without a value to free.                                     *)
LEMMA BlankIs ==
  ASSUME NEW m \in Memory, Owned(m), NEW z \in Ids, m.zv[z] = Free,
         NEW c \in Cell, c.type = "null", NEW r, r = Store(m, z, c)
  PROVE  /\ r \in Memory /\ Owned(r) /\ OwnedBut(r, z) /\ r.sym = m.sym /\ r.buf = m.buf
         /\ \A y \in Ids : y # z => Same(m, r, y)
         /\ Is(r, z, NullValue, c.rc, c.ref) /\ r.zv[z] = c
<1>1. /\ r.zv = [m.zv EXCEPT ![z] = c]
      /\ r.buf = m.buf /\ r.sym = m.sym /\ r \in Memory
  BY MemoryStore
<1>2. ~ IsString(m, z)
  BY FreeIsNone DEF IsString
<1>3. Owned(r) /\ \A y \in Ids : y # z => Same(m, r, y)
  BY <1>1, <1>2, OwnsNothing, StoreScalar
<1>4. r.zv[z] = c
  BY <1>1, MemoryFields
<1>5. r.zv[z] # Free
  BY <1>4, FreeIsNone
<1>6. ValueOf(r, z) = NullValue
  BY <1>1, <1>4, <1>5, ValueIs
<1>7. OwnedBut(r, z)
  BY <1>1, <1>3, <1>4, OwnsNothing DEF IsString
<1> QED
  BY <1>1, <1>3, <1>4, <1>6, <1>7 DEF Is

(* zval_dtor and FREE_ZVAL.                                                *)
LEMMA DestroyedIs ==
  ASSUME NEW m \in Memory, Owned(m), NEW z \in Ids,
         NEW r, r = FreeZval(ZvalDtor(m, z), z)
  PROVE  /\ r \in Memory /\ Owned(r) /\ r.sym = m.sym
         /\ \A y \in Ids : y # z => Same(m, r, y)
         /\ r.zv[z] = Free
<1> DEFINE d == ZvalDtor(m, z)
<1>1. /\ d \in Memory /\ OwnedBut(d, z) /\ d.zv = m.zv /\ d.sym = m.sym
      /\ \A y \in Ids : y # z => Same(m, d, y)
  BY DtorOwned
<1> HIDE DEF d
<1>2. r = [d EXCEPT !.zv[z] = Free]
  BY DEF FreeZval, d
<1>3. r.zv = [d.zv EXCEPT ![z] = Free] /\ r.buf = d.buf /\ r.sym = d.sym /\ r \in Memory
  BY <1>1, <1>2 DEF Memory
<1>4. Owned(r) /\ \A y \in Ids : y # z => Same(d, r, y)
  BY <1>1, <1>3, FreeIsNone, StoreScalar
<1>5. r.zv[z] = Free
  BY <1>1, <1>3, MemoryFields
<1>6. \A y \in Ids : y # z => Same(m, r, y)
  BY <1>1, <1>4 DEF Same
<1> QED
  BY <1>1, <1>3, <1>4, <1>5, <1>6

(* zval_copy_ctor of a zval z that has been given the value of zval s.     *)
LEMMA CopyIs ==
  ASSUME NEW m \in Memory, NEW z \in Ids, OwnedBut(m, z), HasBuf(m),
         NEW s \in Ids, s # z, m.zv[s] # Free,
         NEW c \in Cell, c.type = m.zv[s].type, c.val = m.zv[s].val,
         NEW w \in Memory, w.zv = [m.zv EXCEPT ![z] = c], w.buf = m.buf,
         NEW r, r = ZvalCopyCtor(w, z)
  PROVE  /\ r \in Memory /\ Owned(r) /\ r.sym = w.sym
         /\ \A y \in Ids : y # z => Same(m, r, y)
         /\ Is(r, z, ValueOf(m, s), c.rc, c.ref)
<1>1. w.zv[z] = c /\ w.zv[s] = m.zv[s] /\ \A y \in Ids : y # z => w.zv[y] = m.zv[y]
  BY MemoryFields
<1>2. CASE IsString(w, z)
  <2> DEFINE b == NewBuf(w)
             t == m.buf[m.zv[s].val].text
             k == [c EXCEPT !.val = b]
  <2>1. b \in Bufs /\ m.buf[b] = Free
    BY NewBufFree DEF HasBuf
  <2>2. c.type = "string" /\ t \in Texts /\ ValueOf(m, s) = [type |-> "string", val |-> t]
    <3>1. c.type = "string"
      BY <1>1, <1>2 DEF IsString
    <3>2. m.buf[m.zv[s].val] # Free /\ m.zv[s].val \in Bufs
      BY <3>1, MemoryFields DEF OwnedBut, IsString
    <3> QED
      BY <3>1, <3>2, MemoryFields, ValueIs
  <2>3. r = [w EXCEPT !.buf[b] = [type |-> "buf", text |-> t], !.zv[z].val = b]
    BY <1>1, <1>2 DEF ZvalCopyCtor, EStrndup
  <2>4. k \in Cell /\ k.type = "string" /\ k.val = b /\ k.rc = c.rc /\ k.ref = c.ref
    BY <2>1, <2>2 DEF Cell
  <2>5. [type |-> "buf", text |-> t] \in Chunk
    BY <2>2 DEF Chunk
  <2> DEFINE e == Fill(w, b, [type |-> "buf", text |-> t])
  <2>6. r = Store(e, z, k)
    BY <1>1, <2>3 DEF Memory, Store, Fill
  <2> HIDE DEF b, t, k
  <2>7. /\ e \in Memory /\ e.zv = w.zv /\ e.sym = w.sym
        /\ e.buf = [m.buf EXCEPT ![b] = [type |-> "buf", text |-> t]]
    BY <2>1, <2>5, MemoryChunk
  <2> HIDE DEF e
  <2>8. r \in Memory /\ r.zv = [w.zv EXCEPT ![z] = k] /\ r.buf = e.buf /\ r.sym = w.sym
    BY <2>4, <2>6, <2>7, MemoryStore
  <2>9. r.zv = [m.zv EXCEPT ![z] = k]
    BY <2>8
  <2>10. /\ Owned(r)
         /\ \A y \in Ids : y # z => Same(m, r, y)
         /\ Is(r, z, [type |-> "string", val |-> t], k.rc, k.ref)
    BY <2>1, <2>2, <2>4, <2>7, <2>8, <2>9, StoreString
  <2> QED
    BY <2>2, <2>4, <2>8, <2>10
<1>3. CASE ~ IsString(w, z)
  <2>1. r = w /\ c.type # "string"
    BY <1>1, <1>3 DEF ZvalCopyCtor, IsString
  <2>2. Owned(r) /\ \A y \in Ids : y # z => Same(m, r, y)
    BY <2>1, StoreScalar
  <2>3. ValueOf(r, z) = ValueOf(m, s)
    <3>1. r.zv[z] # Free
      BY <1>1, <2>1, FreeIsNone
    <3>2. CASE c.type = "null"
      BY <1>1, <2>1, <3>1, <3>2, ValueIs
    <3>3. CASE c.type = "long"
      <4>1. r.zv[z].type = "long" /\ r.zv[z].val = m.zv[s].val
        BY <1>1, <2>1, <3>3
      <4>2. ValueOf(r, z) = [type |-> "long", val |-> r.zv[z].val]
        BY <2>1, <3>1, <4>1, ValueIs
      <4>3. ValueOf(m, s) = [type |-> "long", val |-> m.zv[s].val]
        BY <3>3, ValueIs
      <4> QED
        BY <4>1, <4>2, <4>3
    <3> QED
      BY <2>1, <3>2, <3>3, CellFields
  <2> QED
    BY <1>1, <2>1, <2>2, <2>3 DEF Is
<1> QED
  BY <1>2, <1>3

(* ZVAL_NULL, ZVAL_LONG, ZVAL_STRINGL of a zval that owns nothing.         *)
LEMMA SetIs ==
  ASSUME NEW m \in Memory, NEW z \in Ids, OwnedBut(m, z), HasBuf(m), m.zv[z] # Free,
         NEW v \in Values, NEW r, r = ZvalSet(m, z, v)
  PROVE  /\ r \in Memory /\ Owned(r) /\ r.sym = m.sym
         /\ \A y \in Ids : y # z => Same(m, r, y)
         /\ Is(r, z, v, m.zv[z].rc, m.zv[z].ref)
<1>0. m.zv[z] \in Cell
  BY MemoryFields
<1>1. CASE v.type = "null"
  <2> DEFINE c == [m.zv[z] EXCEPT !.type = "null"]
  <2>1. c \in Cell /\ c.type = "null" /\ c.rc = m.zv[z].rc /\ c.ref = m.zv[z].ref
    BY <1>0 DEF Cell
  <2>2. v = NullValue
    BY <1>1 DEF Values, Written
  <2>3. r = [m EXCEPT !.zv[z].type = "null"]
    BY <1>1 DEF ZvalSet
  <2>4. r.zv = [m.zv EXCEPT ![z] = c] /\ r.buf = m.buf /\ r.sym = m.sym
    BY <2>3 DEF Memory
  <2> HIDE DEF c
  <2>5. r \in Memory
    BY <2>1, <2>3, <2>4 DEF Memory
  <2>6. Owned(r) /\ \A y \in Ids : y # z => Same(m, r, y)
    BY <2>1, <2>4, <2>5, StoreScalar
  <2>7. r.zv[z] = c /\ r.zv[z] # Free
    BY <2>1, <2>4, MemoryFields, FreeIsNone
  <2>8. ValueOf(r, z) = v
    BY <2>1, <2>2, <2>5, <2>7, ValueIs
  <2> QED
    BY <2>1, <2>4, <2>5, <2>6, <2>7, <2>8 DEF Is
<1>2. CASE v.type = "long"
  <2> DEFINE c == Content(m.zv[z], "long", v.val)
  <2>1. v.val \in Longs /\ v = [type |-> "long", val |-> v.val]
    BY <1>2 DEF Values, Written, NullValue
  <2>2. /\ c \in Cell /\ c.type = "long" /\ c.val = v.val
        /\ c.rc = m.zv[z].rc /\ c.ref = m.zv[z].ref
    BY <1>0, <2>1, CellValue
  <2>3. r = Store(m, z, c)
    BY <1>2 DEF ZvalSet, Memory, Content, Store
  <2> HIDE DEF c
  <2>4. r \in Memory /\ r.zv = [m.zv EXCEPT ![z] = c] /\ r.buf = m.buf /\ r.sym = m.sym
    BY <2>2, <2>3, MemoryStore
  <2>5. Owned(r) /\ \A y \in Ids : y # z => Same(m, r, y)
    BY <2>2, <2>4, StoreScalar
  <2>6. r.zv[z] = c /\ r.zv[z] # Free
    BY <2>2, <2>4, MemoryFields, FreeIsNone
  <2>7. ValueOf(r, z) = v
    BY <2>1, <2>2, <2>4, <2>6, ValueIs
  <2> QED
    BY <2>2, <2>4, <2>5, <2>6, <2>7 DEF Is
<1>3. CASE v.type = "string"
  <2> DEFINE b == NewBuf(m)
             c == Content(m.zv[z], "string", b)
             t == v.val
             e == Fill(m, b, [type |-> "buf", text |-> t])
  <2>1. t \in Texts /\ v = [type |-> "string", val |-> t]
    BY <1>3 DEF Values, Written, NullValue
  <2>2. b \in Bufs /\ m.buf[b] = Free
    BY NewBufFree
  <2>3. /\ c \in Cell /\ c.type = "string" /\ c.val = b
        /\ c.rc = m.zv[z].rc /\ c.ref = m.zv[z].ref
    BY <1>0, <2>2, CellValue
  <2>4. r = Store(e, z, c)
    BY <1>3 DEF ZvalSet, EStrndup, Memory, Content, Store, Fill
  <2>5. [type |-> "buf", text |-> t] \in Chunk
    BY <2>1 DEF Chunk
  <2> HIDE DEF b, t, c
  <2>6. /\ e \in Memory /\ e.zv = m.zv /\ e.sym = m.sym
        /\ e.buf = [m.buf EXCEPT ![b] = [type |-> "buf", text |-> t]]
    BY <2>2, <2>5, MemoryChunk
  <2> HIDE DEF e
  <2>7. r \in Memory /\ r.zv = [m.zv EXCEPT ![z] = c] /\ r.buf = e.buf /\ r.sym = m.sym
    BY <2>3, <2>4, <2>6, MemoryStore
  <2>8. /\ Owned(r)
        /\ \A y \in Ids : y # z => Same(m, r, y)
        /\ Is(r, z, [type |-> "string", val |-> t], c.rc, c.ref)
    BY <2>1, <2>2, <2>3, <2>6, <2>7, StoreString
  <2> QED
    BY <2>1, <2>3, <2>7, <2>8
<1>4. v.type \in {"null", "long", "string"}
  BY DEF Values, Written, NullValue
<1> QED
  BY <1>1, <1>2, <1>3, <1>4

(* Zval d, whose value is destroyed, takes over the value of s, which is   *)
(* freed.                                                                  *)
MoveTo(m, d, s, n, f) == Store(Store(ZvalDtor(m, d), s, Free), d, Header(m.zv[s], n, f))

LEMMA MoveIs ==
  ASSUME NEW m \in Memory, Owned(m), NEW d \in Ids, NEW s \in Ids, d # s, m.zv[s] # Free,
         NEW n \in Nat, NEW f \in BOOLEAN,
         NEW r, r = MoveTo(m, d, s, n, f)
  PROVE  /\ r \in Memory /\ Owned(r) /\ r.sym = m.sym
         /\ \A y \in Ids : y \notin {d, s} => Same(m, r, y)
         /\ Is(r, d, ValueOf(m, s), n, f) /\ r.zv[s] = Free
<1> DEFINE w == ZvalDtor(m, d)
           q == Store(w, s, Free)
           c == Header(m.zv[s], n, f)
<1>1. /\ w \in Memory /\ OwnedBut(w, d) /\ w.zv = m.zv /\ w.sym = m.sym
      /\ \A y \in Ids : y # d => Same(m, w, y)
  BY DtorOwned
<1>2. m.zv[s] \in Cell
  BY MemoryFields
<1>3. /\ c \in Cell /\ c.type = m.zv[s].type /\ c.val = m.zv[s].val
      /\ c.rc = n /\ c.ref = f
  BY <1>2, CellHeader
<1>4. r = Store(q, d, c)
  BY DEF MoveTo
<1> HIDE DEF w
<1>5. q \in Memory /\ q.zv = [w.zv EXCEPT ![s] = Free] /\ q.buf = w.buf /\ q.sym = w.sym
  BY <1>1, MemoryStore
<1> HIDE DEF q, c
<1>6. r \in Memory /\ r.zv = [q.zv EXCEPT ![d] = c] /\ r.buf = q.buf /\ r.sym = q.sym
  <2>1. c \in Cell
    BY <1>3
  <2> QED
    BY <1>4, <1>5, <2>1, MemoryStore
<1>7. /\ r.zv[d] = c /\ r.zv[s] = Free /\ r.buf = w.buf
      /\ \A y \in Ids : y \notin {d, s} => r.zv[y] = w.zv[y]
  BY <1>1, <1>5, <1>6, MemoryFields
<1>8. Same(m, w, s) /\ ValueOf(w, s) = ValueOf(m, s)
  BY <1>1 DEF Same
<1>9. /\ Owned(r)
      /\ \A y \in Ids : y \notin {d, s} => Same(w, r, y)
      /\ Is(r, d, ValueOf(w, s), c.rc, c.ref) /\ r.zv[s] = Free
  <2>1. w.zv[s] # Free /\ c.type = w.zv[s].type /\ c.val = w.zv[s].val /\ Free.type # "string"
    BY <1>1, <1>3, FreeIsNone
  <2>2. c \in Cell /\ w \in Memory /\ OwnedBut(w, d) /\ r \in Memory
    BY <1>1, <1>3, <1>6
  <2> QED
    BY <1>7, <2>1, <2>2, StoreMoved
<1>10. \A y \in Ids : y \notin {d, s} => Same(m, r, y)
  BY <1>1, <1>9 DEF Same
<1> QED
  BY <1>1, <1>3, <1>5, <1>6, <1>8, <1>9, <1>10

(* Zval d, whose value is destroyed, takes a copy of the value of s.       *)
Copying(m, d, s) == ZvalCopyCtor(Store(ZvalDtor(m, d), d, m.zv[s]), d)
CopyTo(m, d, s, n, f) == Store(Copying(m, d, s), d, Header(Copying(m, d, s).zv[d], n, f))

LEMMA CopyingIs ==
  ASSUME NEW m \in Memory, Owned(m), NEW d \in Ids, NEW s \in Ids, d # s, m.zv[s] # Free,
         HasBuf(m), NEW r, r = Copying(m, d, s)
  PROVE  /\ r \in Memory /\ Owned(r) /\ r.sym = m.sym
         /\ \A y \in Ids : y # d => Same(m, r, y)
         /\ Is(r, d, ValueOf(m, s), m.zv[s].rc, m.zv[s].ref)
<1> DEFINE w == ZvalDtor(m, d)
           q == Store(w, d, m.zv[s])
<1>1. /\ w \in Memory /\ OwnedBut(w, d) /\ w.zv = m.zv /\ w.sym = m.sym
      /\ \A y \in Ids : y # d => Same(m, w, y)
      /\ HasBuf(w)
  BY DtorOwned
<1>2. m.zv[s] \in Cell /\ r = ZvalCopyCtor(q, d)
  BY MemoryFields DEF Copying
<1> HIDE DEF w
<1>3. q \in Memory /\ q.zv = [w.zv EXCEPT ![d] = m.zv[s]] /\ q.buf = w.buf /\ q.sym = w.sym
  BY <1>1, <1>2, MemoryStore
<1> HIDE DEF q
<1>4. Same(m, w, s) /\ w.zv[s] = m.zv[s] /\ ValueOf(w, s) = ValueOf(m, s)
  BY <1>1 DEF Same
<1>5. /\ r \in Memory /\ Owned(r) /\ r.sym = q.sym
      /\ \A y \in Ids : y # d => Same(w, r, y)
      /\ Is(r, d, ValueOf(w, s), m.zv[s].rc, m.zv[s].ref)
  BY <1>1, <1>2, <1>3, <1>4, CopyIs
<1>6. \A y \in Ids : y # d => Same(m, r, y)
  BY <1>1, <1>5 DEF Same
<1> QED
  BY <1>1, <1>3, <1>4, <1>5, <1>6

LEMMA CopyToIs ==
  ASSUME NEW m \in Memory, Owned(m), NEW d \in Ids, NEW s \in Ids, d # s, m.zv[s] # Free,
         HasBuf(m), NEW n \in Nat, NEW f \in BOOLEAN, NEW r, r = CopyTo(m, d, s, n, f)
  PROVE  /\ r \in Memory /\ Owned(r) /\ r.sym = m.sym
         /\ \A y \in Ids : y # d => Same(m, r, y)
         /\ Is(r, d, ValueOf(m, s), n, f)
<1> DEFINE q == Copying(m, d, s)
<1>1. /\ q \in Memory /\ Owned(q) /\ q.sym = m.sym
      /\ \A y \in Ids : y # d => Same(m, q, y)
      /\ Is(q, d, ValueOf(m, s), m.zv[s].rc, m.zv[s].ref)
  BY CopyingIs
<1>2. r = Store(q, d, Header(q.zv[d], n, f))
  BY DEF CopyTo
<1> HIDE DEF q
<1>3. q.zv[d] # Free /\ ValueOf(q, d) = ValueOf(m, s)
  BY <1>1, FreeIsNone DEF Is
<1>4. /\ r \in Memory /\ Owned(r) /\ r.sym = q.sym
      /\ \A y \in Ids : y # d => Same(q, r, y)
      /\ Is(r, d, ValueOf(q, d), n, f)
  BY <1>1, <1>2, <1>3, HeaderIs
<1>5. \A y \in Ids : y # d => Same(m, r, y)
  BY <1>1, <1>4 DEF Same
<1> QED
  BY <1>1, <1>3, <1>4, <1>5

(* A zval that is no string has nothing to destroy.                        *)
LEMMA NoDtor ==
  ASSUME NEW m, NEW z, ~ IsString(m, z)
  PROVE  ZvalDtor(m, z) = m
BY DEF ZvalDtor

LEMMA PtrDtorIs ==
  ASSUME NEW m \in Memory, Owned(m), NEW z \in Ids, m.zv[z] # Free, m.zv[z].rc > 0,
         NEW r, r = ZvalPtrDtor(m, z)
  PROVE  /\ r \in Memory /\ Owned(r) /\ r.sym = m.sym
         /\ \A y \in Ids : y # z => Same(m, r, y)
         /\ m.zv[z].rc = 1 => r.zv[z] = Free
         /\ m.zv[z].rc = 2 => Is(r, z, ValueOf(m, z), 1, Off)
         /\ m.zv[z].rc > 2 => Is(r, z, ValueOf(m, z), m.zv[z].rc - 1, m.zv[z].ref)
<1>0. m.zv[z].rc - 1 \in Nat /\ m.zv[z].ref \in BOOLEAN /\ m.zv[z].rc \in Nat
  BY MemoryFields, CellFields
<1>1. CASE m.zv[z].rc = 1
  <2>1. r = FreeZval(ZvalDtor(m, z), z)
    BY <1>1 DEF ZvalPtrDtor
  <2> QED
    BY <1>1, <2>1, DestroyedIs
<1>2. CASE m.zv[z].rc = 2
  <2>1. r = [DelRef(m, z) EXCEPT !.zv[z].ref = Off]
    BY <1>2 DEF ZvalPtrDtor, Off
  <2>2. r = Store(m, z, Header(m.zv[z], m.zv[z].rc - 1, Off))
    BY <2>1, DelRefIs, Flags
  <2>3. /\ r \in Memory /\ Owned(r) /\ r.sym = m.sym
        /\ \A y \in Ids : y # z => Same(m, r, y)
        /\ Is(r, z, ValueOf(m, z), m.zv[z].rc - 1, Off)
    BY <1>0, <2>2, HeaderIs, Flags
  <2> QED
    BY <1>2, <2>3
<1>3. CASE m.zv[z].rc > 2
  <2>1. r = DelRef(m, z)
    BY <1>3 DEF ZvalPtrDtor
  <2>2. r = Store(m, z, Header(m.zv[z], m.zv[z].rc - 1, m.zv[z].ref))
    BY <2>1, DelRefIs
  <2>3. /\ r \in Memory /\ Owned(r) /\ r.sym = m.sym
        /\ \A y \in Ids : y # z => Same(m, r, y)
        /\ Is(r, z, ValueOf(m, z), m.zv[z].rc - 1, m.zv[z].ref)
    BY <1>0, <2>2, HeaderIs
  <2> QED
    BY <1>3, <2>3
<1> QED
  BY <1>0, <1>1, <1>2, <1>3

(* SEPARATE_ZVAL of a shared zval.                                         *)
LEMMA SeparateIs ==
  ASSUME NEW m \in Memory, Owned(m), NEW n \in Names, NEW o \in Ids, m.sym[n] = o,
         m.zv[o] # Free, m.zv[o].rc > 1, HasZval(m), HasBuf(m),
         NEW z, z = NewZval(m), NEW r, r = SeparateZval(m, n)
  PROVE  /\ r \in Memory /\ Owned(r) /\ r.sym = [m.sym EXCEPT ![n] = z]
         /\ z \in Ids /\ m.zv[z] = Free /\ z # o
         /\ \A y \in Ids : y \notin {o, z} => Same(m, r, y)
         /\ Is(r, o, ValueOf(m, o), m.zv[o].rc - 1, m.zv[o].ref)
         /\ Is(r, z, ValueOf(m, o), 1, Off)
<1>1. z \in Ids /\ m.zv[z] = Free /\ z # o
  BY NewZvalFree
<1>2. m.zv[o].rc - 1 \in Nat /\ m.zv[o].ref \in BOOLEAN /\ m.zv[o] \in Cell
  BY MemoryFields, CellFields
<1> DEFINE d == DelRef(m, o)
<1>3. d = Store(m, o, Header(m.zv[o], m.zv[o].rc - 1, m.zv[o].ref))
  BY DelRefIs
<1> HIDE DEF d
<1>4. /\ d \in Memory /\ Owned(d) /\ d.sym = m.sym /\ d.buf = m.buf
      /\ \A y \in Ids : y # o => Same(m, d, y)
      /\ Is(d, o, ValueOf(m, o), m.zv[o].rc - 1, m.zv[o].ref)
      /\ d.zv[o].type = m.zv[o].type /\ d.zv[o].val = m.zv[o].val
  BY <1>2, <1>3, HeaderIs
<1>5. d.zv[o] # Free /\ ValueOf(d, o) = ValueOf(m, o) /\ d.zv[z] = Free /\ HasBuf(d)
  BY <1>1, <1>4, FreeIsNone DEF Is, Same, HasBuf
<1>6. OwnedBut(d, z)
  BY <1>1, <1>4, <1>5, FreeIsNone, OwnsNothing DEF IsString
<1> DEFINE w == Store(d, z, m.zv[o])
           q == ZvalCopyCtor(w, z)
<1>7. w \in Memory /\ w.zv = [d.zv EXCEPT ![z] = m.zv[o]] /\ w.buf = d.buf /\ w.sym = d.sym
  BY <1>1, <1>2, <1>4, MemoryStore
<1>8. r = [q EXCEPT !.zv[z] = InitPzval(@), !.sym[n] = z]
  BY DEF SeparateZval, Store, d
<1> HIDE DEF w
<1>9. /\ q \in Memory /\ Owned(q) /\ q.sym = w.sym
      /\ \A y \in Ids : y # z => Same(d, q, y)
      /\ Is(q, z, ValueOf(d, o), m.zv[o].rc, m.zv[o].ref)
  BY <1>1, <1>2, <1>4, <1>5, <1>6, <1>7, CopyIs
<1> HIDE DEF q
<1> DEFINE h == Store(q, z, Header(q.zv[z], 1, Off))
<1>10. r = Rename(h, n, z)
  BY <1>8, <1>9 DEF Memory, Rename, Store, Header, InitPzval, Off
<1>11. q.zv[z] # Free /\ ValueOf(q, z) = ValueOf(m, o)
  BY <1>5, <1>9, FreeIsNone DEF Is
<1>12. /\ h \in Memory /\ Owned(h) /\ h.sym = q.sym
       /\ \A y \in Ids : y # z => Same(q, h, y)
       /\ Is(h, z, ValueOf(q, z), 1, Off)
  BY <1>1, <1>9, <1>11, HeaderIs, Flags
<1> HIDE DEF h
<1>13. r \in Memory /\ r.zv = h.zv /\ r.buf = h.buf /\ r.sym = [h.sym EXCEPT ![n] = z]
  BY <1>1, <1>10, <1>12, MemoryBind
<1>14. \A y \in Ids : ValueOf(r, y) = ValueOf(h, y)
  BY <1>13 DEF ValueOf
<1>15. Owned(r)
  BY <1>12, <1>13 DEF Owned, OwnedBut, IsString
<1>16. Is(r, z, ValueOf(m, o), 1, Off)
  BY <1>1, <1>11, <1>12, <1>13, <1>14 DEF Is
<1>17. ASSUME NEW y \in Ids, y # z
       PROVE  r.zv[y] = d.zv[y] /\ (d.zv[y] # Free => ValueOf(r, y) = ValueOf(d, y))
  BY <1>9, <1>12, <1>13, <1>14, <1>17 DEF Same
<1>18. Is(r, o, ValueOf(m, o), m.zv[o].rc - 1, m.zv[o].ref)
  BY <1>1, <1>4, <1>5, <1>17 DEF Is
<1>19. \A y \in Ids : y \notin {o, z} => Same(m, r, y)
  BY <1>4, <1>17 DEF Same
<1> QED
  BY <1>1, <1>4, <1>7, <1>9, <1>12, <1>13, <1>15, <1>16, <1>18, <1>19

(***************************************************************************)
(* The macros in terms of these                                            *)
(***************************************************************************)

LEMMA ReheadIs ==
  ASSUME NEW m \in Memory, NEW z \in Ids, NEW n, NEW f
  PROVE  Reset(m, z, n, f) = Store(m, z, Header(m.zv[z], n, f))
BY Zenon DEF Memory, Store, Header, Reset

LEMMA InitPzvalIs ==
  ASSUME NEW m \in Memory, NEW z \in Ids
  PROVE  [m EXCEPT !.zv[z] = InitPzval(@)] = Store(m, z, Header(m.zv[z], 1, Off))
BY Zenon DEF Store, Header, InitPzval, Off

LEMMA MakeCopyIs ==
  ASSUME NEW m \in Memory, Owned(m), NEW z \in Ids, NEW s \in Ids, z # s, m.zv[s] # Free,
         HasBuf(m), ~ IsString(m, z)
  PROVE  MakeCopyZval(m, s, z) = CopyTo(m, z, s, 1, Off)
<1> DEFINE q == Copying(m, z, s)
<1>1. q \in Memory
  BY CopyingIs
<1>2. q = ZvalCopyCtor([m EXCEPT !.zv[z] = m.zv[s]], z)
  BY NoDtor DEF Copying, Store
<1>3. MakeCopyZval(m, s, z) = [q EXCEPT !.zv[z] = InitPzval(@)]
  BY <1>2 DEF MakeCopyZval
<1> HIDE DEF q
<1>4. [q EXCEPT !.zv[z] = InitPzval(@)] = Store(q, z, Header(q.zv[z], 1, Off))
  BY <1>1, InitPzvalIs
<1> QED
  BY <1>3, <1>4 DEF CopyTo, q

LEMMA ZvalZvalCopyIs ==
  ASSUME NEW m \in Memory, Owned(m), NEW z \in Ids, NEW s \in Ids, z # s, m.zv[s] # Free,
         HasBuf(m), ~ IsString(m, z)
  PROVE  ZvalZval(m, z, s, TRUE, FALSE) = CopyTo(m, z, s, m.zv[z].rc, m.zv[z].ref)
<1> DEFINE q == Copying(m, z, s)
<1>1. q \in Memory
  BY CopyingIs
<1>2. q = ZvalCopyCtor([m EXCEPT !.zv[z] = m.zv[s]], z)
  BY NoDtor DEF Copying, Store
<1>3. ZvalZval(m, z, s, TRUE, FALSE) = Reset(q, z, m.zv[z].rc, m.zv[z].ref)
  BY <1>2 DEF ZvalZval, Reset
<1> HIDE DEF q
<1>4. Reset(q, z, m.zv[z].rc, m.zv[z].ref)
        = Store(q, z, Header(q.zv[z], m.zv[z].rc, m.zv[z].ref))
  BY <1>1, ReheadIs
<1> QED
  BY <1>3, <1>4 DEF CopyTo, q

(* With dtor, after a copy.                                                *)
LEMMA ZvalZvalDtorIs ==
  ASSUME NEW m \in Memory, Owned(m), NEW z \in Ids, NEW s \in Ids, z # s, m.zv[s] # Free,
         m.zv[s].rc > 0, HasBuf(m), ~ IsString(m, z)
  PROVE  LET d == ZvalPtrDtor(Copying(m, z, s), s)
         IN  ZvalZval(m, z, s, TRUE, TRUE) = Store(d, z, Header(d.zv[z], m.zv[z].rc, m.zv[z].ref))
<1> DEFINE q == Copying(m, z, s)
           d == ZvalPtrDtor(q, s)
<1>1. q \in Memory /\ Owned(q) /\ Same(m, q, s)
  BY CopyingIs
<1>2. q = ZvalCopyCtor([m EXCEPT !.zv[z] = m.zv[s]], z)
  BY NoDtor DEF Copying, Store
<1>3. ZvalZval(m, z, s, TRUE, TRUE) = Reset(d, z, m.zv[z].rc, m.zv[z].ref)
  BY <1>2 DEF ZvalZval, Reset
<1> HIDE DEF q
<1>4. d \in Memory
  BY <1>1, PtrDtorIs DEF Same
<1> HIDE DEF d
<1>5. Reset(d, z, m.zv[z].rc, m.zv[z].ref)
        = Store(d, z, Header(d.zv[z], m.zv[z].rc, m.zv[z].ref))
  BY <1>4, ReheadIs
<1> QED
  BY <1>3, <1>5 DEF d, q

(* Without one, from a zval nobody else holds.                             *)
LEMMA ZvalZvalMoveIs ==
  ASSUME NEW m \in Memory, Owned(m), NEW z \in Ids, NEW s \in Ids, z # s, m.zv[s] # Free,
         m.zv[s].rc = 1, ~ IsString(m, z)
  PROVE  ZvalZval(m, z, s, FALSE, TRUE) = MoveTo(m, z, s, m.zv[z].rc, m.zv[z].ref)
<1> DEFINE c == [m EXCEPT !.zv[z] = m.zv[s]]
           e == [c EXCEPT !.zv[s].type = "null"]
<1>1. m.zv[s] \in Cell
  BY MemoryFields
<1>2. e.zv[s].rc = 1 /\ ~ IsString(e, s)
  BY <1>1 DEF Memory, Cell, IsString
<1>3. ZvalPtrDtor(e, s) = FreeZval(e, s)
  BY <1>2, NoDtor DEF ZvalPtrDtor
<1>4. ZvalZval(m, z, s, FALSE, TRUE)
        = Reset(FreeZval(e, s), z, m.zv[z].rc, m.zv[z].ref)
  BY <1>3 DEF ZvalZval, Reset
<1>5. FreeZval(e, s) = Store(Store(m, s, Free), z, m.zv[s])
  BY DEF FreeZval, Store, Memory
<1> HIDE DEF e
<1> DEFINE q == Store(Store(m, s, Free), z, m.zv[s])
<1>6. q \in Memory /\ q.zv[z] = m.zv[s]
  <2> DEFINE p == Store(m, s, Free)
  <2>1. p \in Memory
    BY MemoryStore
  <2> HIDE DEF p
  <2>2. q \in Memory /\ q.zv = [p.zv EXCEPT ![z] = m.zv[s]]
    BY <1>1, <2>1, MemoryStore DEF p
  <2> QED
    BY <2>1, <2>2, MemoryFields
<1>7. Store(q, z, Header(m.zv[s], m.zv[z].rc, m.zv[z].ref))
        = Store(Store(m, s, Free), z, Header(m.zv[s], m.zv[z].rc, m.zv[z].ref))
  BY DEF Store, Memory
<1> HIDE DEF q
<1>8. Reset(q, z, m.zv[z].rc, m.zv[z].ref) = Store(q, z, Header(q.zv[z], m.zv[z].rc, m.zv[z].ref))
  BY <1>6, ReheadIs
<1>9. ZvalZval(m, z, s, FALSE, TRUE) = Reset(q, z, m.zv[z].rc, m.zv[z].ref)
  BY <1>4, <1>5 DEF q
<1> QED
  BY <1>6, <1>7, <1>8, <1>9, NoDtor DEF MoveTo

(* COPY_PZVAL_TO_ZVAL from a zval others hold too, and from one they do    *)
(* not.                                                                    *)
LEMMA CopyPzvalSharedIs ==
  ASSUME NEW m \in Memory, Owned(m), NEW z \in Ids, NEW s \in Ids, z # s, m.zv[s] # Free,
         m.zv[s].rc > 1, HasBuf(m), ~ IsString(m, z)
  PROVE  LET d == DelRef(Copying(m, z, s), s)
         IN  CopyPzvalToZval(m, z, s) = Store(d, z, Header(d.zv[z], 1, Off))
<1> DEFINE q == Copying(m, z, s)
           d == DelRef(q, s)
<1>1. q \in Memory /\ Owned(q) /\ Same(m, q, s)
  BY CopyingIs
<1>2. q = ZvalCopyCtor([m EXCEPT !.zv[z] = m.zv[s]], z)
  BY NoDtor DEF Copying, Store
<1>3. CopyPzvalToZval(m, z, s) = [d EXCEPT !.zv[z] = InitPzval(@)]
  BY <1>2 DEF CopyPzvalToZval
<1> HIDE DEF d, q
<1>4. [d EXCEPT !.zv[z] = InitPzval(@)] = Store(d, z, Header(d.zv[z], 1, Off))
  BY Zenon DEF Store, Header, InitPzval, Off
<1> QED
  BY <1>3, <1>4 DEF d, q

LEMMA CopyPzvalMoveIs ==
  ASSUME NEW m \in Memory, Owned(m), NEW z \in Ids, NEW s \in Ids, z # s, m.zv[s] # Free,
         m.zv[s].rc = 1, ~ IsString(m, z)
  PROVE  CopyPzvalToZval(m, z, s) = MoveTo(m, z, s, 1, Off)
<1>1. CopyPzvalToZval(m, z, s)
        = [FreeZval([m EXCEPT !.zv[z] = m.zv[s]], s) EXCEPT !.zv[z] = InitPzval(@)]
  BY DEF CopyPzvalToZval
<1>2. [FreeZval([m EXCEPT !.zv[z] = m.zv[s]], s) EXCEPT !.zv[z] = InitPzval(@)]
        = Store(Store(m, s, Free), z, Header(m.zv[s], 1, Off))
  BY DEF FreeZval, Store, Header, InitPzval, Memory, Off
<1> QED
  BY <1>1, <1>2, NoDtor DEF MoveTo

LEMMA FreeElsewhere ==
  ASSUME NEW m \in Memory, NEW z \in Ids, NEW s \in Ids, z # s, NEW c
  PROVE  FreeZval(Store(m, z, c), s) = Store(Store(m, s, Free), z, c)
<1> DEFINE f == [[m.zv EXCEPT ![z] = c] EXCEPT ![s] = Free]
           g == [[m.zv EXCEPT ![s] = Free] EXCEPT ![z] = c]
<1>1. f = g
  BY MemoryFields
<1>2. FreeZval(Store(m, z, c), s) = [m EXCEPT !.zv = f]
  BY Zenon DEF FreeZval, Store, Memory
<1>3. Store(Store(m, s, Free), z, c) = [m EXCEPT !.zv = g]
  BY Zenon DEF Store, Memory
<1> QED
  BY <1>1, <1>2, <1>3, Zenon

(* REPLACE_ZVAL_VALUE once the destination is separated.                   *)
ReplaceByCopy(m, n, s) == ReplaceZvalValue(m, n, s, TRUE)
ReplaceByMove(m, n, s) == FreeZval(ReplaceZvalValue(m, n, s, FALSE), s)

LEMMA ReplaceCopyIs ==
  ASSUME NEW m0, NEW n, NEW m, m = SeparateIfNotRef(m0, n), m \in Memory, Owned(m),
         NEW d \in Ids, d = m.sym[n], NEW s \in Ids, d # s, m.zv[s] # Free, HasBuf(m)
  PROVE  ReplaceByCopy(m0, n, s) = CopyTo(m, d, s, m.zv[d].rc, m.zv[d].ref)
<1> DEFINE q == Copying(m, d, s)
<1>1. q \in Memory
  BY CopyingIs
<1>2. ReplaceZvalValue(m0, n, s, TRUE) = Reset(q, d, m.zv[d].rc, m.zv[d].ref)
  BY DEF ReplaceZvalValue, Reset, Copying, Store
<1> HIDE DEF q
<1>3. Reset(q, d, m.zv[d].rc, m.zv[d].ref) = Store(q, d, Header(q.zv[d], m.zv[d].rc, m.zv[d].ref))
  BY <1>1, ReheadIs
<1> QED
  BY <1>2, <1>3 DEF CopyTo, ReplaceByCopy, q

LEMMA ReplaceMoveIs ==
  ASSUME NEW m0, NEW n, NEW m, m = SeparateIfNotRef(m0, n), m \in Memory, Owned(m),
         NEW d \in Ids, d = m.sym[n], NEW s \in Ids, d # s, m.zv[s] # Free
  PROVE  ReplaceByMove(m0, n, s) = MoveTo(m, d, s, m.zv[d].rc, m.zv[d].ref)
<1> DEFINE w == ZvalDtor(m, d)
           q == Store(w, d, m.zv[s])
           a == m.zv[d].rc
           b == m.zv[d].ref
<1>1. w \in Memory
  BY DtorOwned
<1>2. ReplaceZvalValue(m0, n, s, FALSE) = Reset(q, d, a, b)
  BY DEF ReplaceZvalValue, Reset, Store
<1> HIDE DEF w, a, b
<1>3. q \in Memory /\ q.zv[d] = m.zv[s]
  <2>1. q \in Memory /\ q.zv = [w.zv EXCEPT ![d] = m.zv[s]]
    BY <1>1, MemoryFields, MemoryStore
  <2> QED
    BY <1>1, <2>1, MemoryFields
<1> DEFINE H == Header(m.zv[s], a, b)
<1>4. Reset(q, d, a, b) = Store(q, d, H)
  <2> HIDE DEF q
  <2> QED
    BY <1>3, ReheadIs
<1> HIDE DEF H
<1>5. FreeZval(Store(q, d, H), s) = Store(Store(w, s, Free), d, H)
  <2>1. Store(q, d, H) = Store(w, d, H)
    BY <1>1 DEF Store, Memory
  <2>2. FreeZval(Store(w, d, H), s) = Store(Store(w, s, Free), d, H)
    BY <1>1, FreeElsewhere
  <2> HIDE DEF q
  <2> QED
    BY <2>1, <2>2
<1> HIDE DEF q
<1> QED
  BY <1>2, <1>4, <1>5 DEF MoveTo, ReplaceByMove, w, a, b, H

(* ZEND_SET_SYMBOL of a name that is a reference.                          *)
LEMMA SetSymbolRefIs ==
  ASSUME NEW m, NEW n, NEW z, NEW refcount, NEW isRef, m.sym[n] # NULL, IsRef(m, m.sym[n])
  PROVE  SetSymbol(m, n, z, refcount, isRef) =
           MoveTo(m, m.sym[n], z,
                  m.zv[m.sym[n]].rc + (IF refcount > 0 THEN refcount - 1 ELSE 0), On)
BY DEF SetSymbol, MoveTo, Store, Header, FreeZval, On

(* make_real_zval_ptr of a temporary that is freed then.                   *)
LEMMA MakeRealIs ==
  ASSUME NEW m \in Memory, NEW z \in Ids, m.zv[z] # Free, HasZval(m)
  PROVE  FreeZval(MakeRealZvalPtr(m, z), z) = MoveTo(m, NewZval(m), z, 1, Off)
<1> DEFINE y == NewZval(m)
<1>1. y \in Ids /\ m.zv[y] = Free /\ y # z
  BY NewZvalFree
<1>2. ~ IsString(m, y)
  BY <1>1, FreeIsNone DEF IsString
<1>3. MakeRealZvalPtr(m, z) = [m EXCEPT !.zv[y] = InitPzval(m.zv[z])]
  BY DEF MakeRealZvalPtr
<1> HIDE DEF y
<1>4. FreeZval([m EXCEPT !.zv[y] = InitPzval(m.zv[z])], z)
        = Store(Store(m, z, Free), y, Header(m.zv[z], 1, Off))
  BY <1>1 DEF FreeZval, Store, Header, InitPzval, Memory, Off
<1> QED
  BY <1>2, <1>3, <1>4, NoDtor DEF MoveTo, y

(***************************************************************************)
(* Counting                                                                *)
(***************************************************************************)

(* The names bound to zval z.                                              *)
Count(s, z) == Cardinality({n \in Names : s[n] = z})

(* x[z] is the number of those who hold z without a name.                  *)
ExactAt(m, x, z) ==
  IF m.zv[z] = Free THEN Count(m.sym, z) = 0 /\ x[z] = 0
  ELSE m.zv[z].rc = Count(m.sym, z) + x[z] /\ m.zv[z].rc > 0

(* Memory is in order, but for the count of a zval e that is being made,   *)
(* which nobody holds yet.                                                 *)
Good(m, x, e) ==
  /\ m \in Memory /\ Owned(m)
  /\ x \in [Ids -> Nat]
  /\ \A z \in Ids : z # e => ExactAt(m, x, z)
  /\ e # NULL => e \in Ids /\ m.zv[e] # Free /\ Count(m.sym, e) = 0 /\ x[e] = 0

Plus(x, z) == [y \in Ids |-> IF y = z THEN x[y] + 1 ELSE x[y]]
Minus(x, z) == [y \in Ids |-> IF y = z THEN x[y] - 1 ELSE x[y]]

LEMMA Counts ==
  ASSUME NEW s \in [Names -> Ids \cup {NULL}], NEW z
  PROVE  /\ Count(s, z) \in Nat
         /\ Count(s, z) = 0 <=> \A n \in Names : s[n] # z
<1> DEFINE H == {n \in Names : s[n] = z}
<1>1. IsFiniteSet(H)
  BY FS_Subset, ZendAssumption
<1>2. Cardinality(H) \in Nat /\ (Cardinality(H) = 0 <=> H = {})
  BY <1>1, FS_CardinalityType, FS_EmptySet
<1> QED
  BY <1>2 DEF Count

LEMMA CountTwo ==
  ASSUME NEW s \in [Names -> Ids \cup {NULL}], NEW z,
         NEW a \in Names, NEW b \in Names, a # b, s[a] = z, s[b] = z
  PROVE  Count(s, z) > 1
<1> DEFINE H == {n \in Names : s[n] = z}
<1>1. IsFiniteSet(H) /\ a \in H /\ b \in H \ {a}
  BY FS_Subset, ZendAssumption
<1>2. IsFiniteSet(H \ {a}) /\ Cardinality(H \ {a}) = Cardinality(H) - 1
  BY <1>1, FS_RemoveElement
<1>3. Cardinality(H \ {a}) # 0
  BY <1>1, <1>2, FS_EmptySet
<1>4. Cardinality(H) \in Nat /\ Cardinality(H \ {a}) \in Nat
  BY <1>1, <1>2, FS_CardinalityType
<1> QED
  BY <1>2, <1>3, <1>4 DEF Count

LEMMA CountRebind ==
  ASSUME NEW s \in [Names -> Ids \cup {NULL}], NEW n \in Names,
         NEW t \in [Names -> Ids \cup {NULL}], \A k \in Names : k # n => t[k] = s[k],
         NEW y \in Ids
  PROVE  Count(t, y) =
           Count(s, y) + (IF y = t[n] THEN 1 ELSE 0) - (IF y = s[n] THEN 1 ELSE 0)
<1> DEFINE H == {k \in Names : s[k] = y}
           K == {k \in Names : t[k] = y}
<1>1. IsFiniteSet(H)
  BY FS_Subset, ZendAssumption
<1>2. Cardinality(H) \in Nat
  BY <1>1, FS_CardinalityType
<1>3. K = IF y = t[n] THEN H \cup {n} ELSE H \ {n}
  OBVIOUS
<1>4. n \in H <=> y = s[n]
  OBVIOUS
<1> HIDE DEF H, K
<1>5. Cardinality(K) = IF y = t[n] THEN IF n \in H THEN Cardinality(H) ELSE Cardinality(H) + 1
                       ELSE IF n \in H THEN Cardinality(H) - 1 ELSE Cardinality(H)
  BY <1>1, <1>3, FS_AddElement, FS_RemoveElement
<1>6. Cardinality(K) = Cardinality(H) + (IF y = t[n] THEN 1 ELSE 0) - (IF y = s[n] THEN 1 ELSE 0)
  BY <1>2, <1>4, <1>5
<1> QED
  BY <1>6 DEF Count, H, K

(* What is alive is held.                                                  *)
LEMMA LiveIsHeld ==
  ASSUME NEW m, NEW x, NEW e, Good(m, x, e), NEW z \in Ids, m.zv[z] # Free
  PROVE  z = e \/ x[z] > 0 \/ \E n \in Names : m.sym[n] = z
<1>1. CASE z # e
  <2>1. m.zv[z].rc = Count(m.sym, z) + x[z] /\ m.zv[z].rc > 0 /\ x[z] \in Nat
    BY <1>1 DEF Good, ExactAt
  <2>2. Count(m.sym, z) \in Nat /\ (Count(m.sym, z) = 0 <=> \A n \in Names : m.sym[n] # z)
    BY Counts, MemoryFields DEF Good
  <2> QED
    BY <2>1, <2>2
<1> QED
  BY <1>1

LEMMA Room ==
  ASSUME NEW m, NEW x, NEW e \in Ids \cup {NULL}, Good(m, x, e),
         NEW a \in Ids \cup {NULL}, \A z \in Ids : x[z] > 0 => z = a
  PROVE  HasZval(m) /\ HasBuf(m)
<1>1. m \in Memory /\ m.sym \in [Names -> Ids \cup {NULL}] /\ Owned(m)
  BY MemoryFields DEF Good
<1>2. \A z \in Ids : m.zv[z] # Free => z = e \/ z = a \/ \E n \in Names : m.sym[n] = z
  BY LiveIsHeld
<1>3. HasZval(m)
  <2>1. PICK s \in Ids \ {a, e} : \A n \in Names : m.sym[n] # s
    BY <1>1, ZendAssumption DEF Roomy
  <2> QED
    BY <1>2, <2>1 DEF HasZval
<1>4. HasBuf(m)
  <2> DEFINE own(z) == IF z \in Ids /\ IsString(m, z) THEN m.zv[z].val ELSE NULL
             h == [n \in Names |-> own(m.sym[n])]
  <2>1. \A z : own(z) \in Bufs \cup {NULL}
    BY <1>1, MemoryFields
  <2>2. \A z \in Ids : IsString(m, z) => own(z) = m.zv[z].val
    OBVIOUS
  <2> HIDE DEF own
  <2>3. h \in [Names -> Bufs \cup {NULL}] /\ own(a) \in Bufs \cup {NULL} /\ own(e) \in Bufs \cup {NULL}
    BY <2>1
  <2>4. \A n \in Names : h[n] = own(m.sym[n])
    OBVIOUS
  <2> HIDE DEF h
  <2>5. PICK b \in Bufs \ {own(a), own(e)} : \A n \in Names : h[n] # b
    BY <2>3, ZendAssumption DEF Roomy
  <2>6. ASSUME m.buf[b] # Free PROVE FALSE
    <3>1. PICK z \in Ids : IsString(m, z) /\ m.zv[z].val = b
      BY <1>1, <2>6 DEF Owned, OwnedBut
    <3>2. m.zv[z] # Free /\ own(z) = b
      BY <1>1, <2>2, <3>1, MemoryFields
    <3>3. z = e \/ z = a \/ \E n \in Names : m.sym[n] = z
      BY <1>2, <3>2
    <3> QED
      BY <2>4, <2>5, <3>2, <3>3
  <2> QED
    BY <2>6 DEF HasBuf
<1> QED
  BY <1>3, <1>4

(***************************************************************************)
(* What the macros do to the counts                                        *)
(***************************************************************************)

(* Values change, counts do not.                                           *)
LEMMA GoodValue ==
  ASSUME NEW m, NEW x, NEW e, Good(m, x, e), NEW r \in Memory, Owned(r), r.sym = m.sym,
         \A y \in Ids : /\ r.zv[y] = Free <=> m.zv[y] = Free
                        /\ y # e /\ m.zv[y] # Free => r.zv[y].rc = m.zv[y].rc
  PROVE  Good(r, x, e)
<1>1. ASSUME NEW y \in Ids, y # e PROVE ExactAt(r, x, y)
  BY <1>1 DEF Good, ExactAt
<1> QED
  BY <1>1 DEF Good

(* The count of one zval changes.                                          *)
LEMMA GoodCount ==
  ASSUME NEW m, NEW x, NEW e, Good(m, x, e), NEW r \in Memory, Owned(r), r.sym = m.sym,
         NEW z \in Ids, z # e, \A y \in Ids : y # z => Same(m, r, y),
         NEW w \in [Ids -> Nat], \A y \in Ids : y # z => w[y] = x[y], ExactAt(r, w, z)
  PROVE  Good(r, w, e)
<1>1. ASSUME NEW y \in Ids, y # e, y # z PROVE ExactAt(r, w, y)
  BY <1>1 DEF Good, ExactAt, Same
<1>2. e # NULL => e \in Ids /\ r.zv[e] # Free /\ Count(r.sym, e) = 0 /\ w[e] = 0
  BY DEF Good, Same
<1> QED
  BY <1>1, <1>2 DEF Good

LEMMA AddRefGood ==
  ASSUME NEW m, NEW x, NEW e, Good(m, x, e), NEW z \in Ids, z # e, m.zv[z] # Free
  PROVE  /\ Good(AddRef(m, z), Plus(x, z), e) /\ AddRef(m, z).sym = m.sym
         /\ \A y \in Ids : y # z => Same(m, AddRef(m, z), y)
         /\ Is(AddRef(m, z), z, ValueOf(m, z), m.zv[z].rc + 1, m.zv[z].ref)
<1> DEFINE r == AddRef(m, z)
<1>1. m \in Memory /\ Owned(m) /\ x \in [Ids -> Nat] /\ ExactAt(m, x, z)
  BY DEF Good
<1>2. m.zv[z].rc + 1 \in Nat /\ m.zv[z].ref \in BOOLEAN
  BY <1>1, MemoryFields, CellFields
<1>3. r = Store(m, z, Header(m.zv[z], m.zv[z].rc + 1, m.zv[z].ref))
  BY <1>1, AddRefIs
<1> HIDE DEF r
<1>4. /\ r \in Memory /\ Owned(r) /\ r.sym = m.sym
      /\ \A y \in Ids : y # z => Same(m, r, y)
      /\ Is(r, z, ValueOf(m, z), m.zv[z].rc + 1, m.zv[z].ref)
  BY <1>1, <1>2, <1>3, HeaderIs
<1>5. Plus(x, z) \in [Ids -> Nat] /\ Plus(x, z)[z] = x[z] + 1
      /\ \A y \in Ids : y # z => Plus(x, z)[y] = x[y]
  BY <1>1 DEF Plus
<1>6. Count(m.sym, z) \in Nat
  BY <1>1, Counts, MemoryFields
<1>7. ExactAt(r, Plus(x, z), z)
  BY <1>1, <1>4, <1>5, <1>6, FreeIsNone DEF ExactAt, Is
<1>8. Good(r, Plus(x, z), e)
  BY <1>4, <1>5, <1>7, GoodCount
<1> QED
  BY <1>4, <1>8 DEF r

LEMMA PtrDtorGood ==
  ASSUME NEW m, NEW x, NEW e, Good(m, x, e), NEW z \in Ids, z # e, m.zv[z] # Free, x[z] > 0
  PROVE  Good(ZvalPtrDtor(m, z), Minus(x, z), e)
<1> DEFINE r == ZvalPtrDtor(m, z)
<1>1. m \in Memory /\ Owned(m) /\ x \in [Ids -> Nat] /\ ExactAt(m, x, z)
  BY DEF Good
<1>2. m.zv[z].rc > 0 /\ m.zv[z].rc = Count(m.sym, z) + x[z] /\ Count(m.sym, z) \in Nat
  BY <1>1, Counts, MemoryFields DEF ExactAt
<1>3. /\ r \in Memory /\ Owned(r) /\ r.sym = m.sym
      /\ \A y \in Ids : y # z => Same(m, r, y)
      /\ m.zv[z].rc = 1 => r.zv[z] = Free
      /\ m.zv[z].rc = 2 => Is(r, z, ValueOf(m, z), 1, Off)
      /\ m.zv[z].rc > 2 => Is(r, z, ValueOf(m, z), m.zv[z].rc - 1, m.zv[z].ref)
  BY <1>1, <1>2, PtrDtorIs
<1> HIDE DEF r
<1>4. Minus(x, z) \in [Ids -> Nat] /\ Minus(x, z)[z] = x[z] - 1
      /\ \A y \in Ids : y # z => Minus(x, z)[y] = x[y]
  BY <1>1 DEF Minus
<1>5. ExactAt(r, Minus(x, z), z)
  <2>1. CASE m.zv[z].rc = 1
    BY <1>1, <1>2, <1>3, <1>4, <2>1 DEF ExactAt
  <2>2. CASE m.zv[z].rc = 2
    BY <1>1, <1>2, <1>3, <1>4, <2>2, FreeIsNone DEF ExactAt, Is
  <2>3. CASE m.zv[z].rc > 2
    BY <1>1, <1>2, <1>3, <1>4, <2>3, FreeIsNone DEF ExactAt, Is
  <2> QED
    BY <1>1, <1>2, <2>1, <2>2, <2>3
<1>6. Good(r, Minus(x, z), e)
  BY <1>3, <1>4, <1>5, GoodCount
<1> QED
  BY <1>6 DEF r

(* A zval keeps its value and its flag, or loses a flag that says nothing. *)
Softer(m, r, y) ==
  r.zv[y] # Free =>
    /\ ValueOf(r, y) = ValueOf(m, y)
    /\ r.zv[y].ref = m.zv[y].ref \/ (r.zv[y].ref = Off /\ Count(r.sym, y) <= 1)

LEMMA HashUpdateGood ==
  ASSUME NEW m, NEW x, NEW e, Good(m, x, e), NEW n \in Names, NEW z \in Ids \cup {NULL}, z # e \/ z = NULL,
         z # NULL => m.zv[z] # Free,
         NEW w \in [Ids -> Nat], \A y \in Ids : w[y] = x[y] - (IF y = z THEN 1 ELSE 0),
         NEW r, r = HashUpdate(m, n, z)
  PROVE  /\ Good(r, w, e) /\ r.sym = [m.sym EXCEPT ![n] = z]
         /\ \A y \in Ids : y # m.sym[n] => Same(m, r, y)
         /\ \A y \in Ids : m.zv[y] # Free => Softer(m, r, y)
         /\ z # NULL => r.zv[z] # Free
<1> DEFINE o == m.sym[n]
           d == IF o = NULL THEN m ELSE ZvalPtrDtor(m, o)
<1>1. m \in Memory /\ Owned(m) /\ x \in [Ids -> Nat] /\ m.sym \in [Names -> Ids \cup {NULL}]
  BY MemoryFields DEF Good
<1>2. r = Rename(d, n, z)
  BY DEF HashUpdate, Rename
<1>3. o # NULL => /\ o \in Ids /\ o # e /\ Count(m.sym, o) > 0 /\ Count(m.sym, o) \in Nat
                  /\ m.zv[o] # Free /\ m.zv[o].rc = Count(m.sym, o) + x[o]
  <2>1. o # NULL => o \in Ids /\ Count(m.sym, o) # 0 /\ Count(m.sym, o) \in Nat
    BY <1>1, Counts
  <2> QED
    BY <1>1, <2>1 DEF Good, ExactAt
<1>4. /\ d \in Memory /\ Owned(d) /\ d.sym = m.sym
      /\ \A y \in Ids : y # o => Same(m, d, y)
      /\ o # NULL => /\ m.zv[o].rc = 1 => d.zv[o] = Free
                     /\ m.zv[o].rc = 2 => Is(d, o, ValueOf(m, o), 1, Off)
                     /\ m.zv[o].rc > 2 => Is(d, o, ValueOf(m, o), m.zv[o].rc - 1, m.zv[o].ref)
  <2>1. CASE o = NULL
    BY <1>1, <2>1 DEF Same
  <2>2. CASE o # NULL
    <3>1. d = ZvalPtrDtor(m, o) /\ m.zv[o].rc > 0
      BY <1>1, <1>3, <2>2
    <3> HIDE DEF d, o
    <3> QED
      BY <1>1, <1>3, <2>2, <3>1, PtrDtorIs
  <2> QED
    BY <2>1, <2>2
<1> HIDE DEF d
<1>5. r \in Memory /\ r.zv = d.zv /\ r.buf = d.buf /\ r.sym = [m.sym EXCEPT ![n] = z]
  BY <1>2, <1>4, MemoryBind
<1>6. Owned(r) /\ \A y \in Ids : ValueOf(r, y) = ValueOf(d, y)
  BY <1>4, <1>5 DEF Owned, OwnedBut, IsString, ValueOf
<1>7. \A y \in Ids : /\ Count(r.sym, y) = Count(m.sym, y) + (IF y = z THEN 1 ELSE 0)
                                          - (IF y = o THEN 1 ELSE 0)
                     /\ Count(m.sym, y) \in Nat
  <2>1. /\ r.sym \in [Names -> Ids \cup {NULL}] /\ r.sym[n] = z
        /\ \A k \in Names : k # n => r.sym[k] = m.sym[k]
    BY <1>1, <1>5
  <2> QED
    BY <1>1, <2>1, CountRebind, Counts
<1> HIDE DEF o
<1>8. ASSUME NEW y \in Ids, y # o PROVE Same(m, r, y)
  BY <1>4, <1>5, <1>6, <1>8 DEF Same
<1>9. ASSUME NEW y \in Ids, y # e PROVE ExactAt(r, w, y)
  <2>1. ExactAt(m, x, y) /\ x[y] \in Nat /\ w[y] \in Nat
    BY <1>1, <1>9 DEF Good
  <2>2. y = z => m.zv[y] # Free
    BY ZendAssumption
  <2>3. CASE y # o
    <3>1. r.zv[y] = m.zv[y]
      BY <1>8, <2>3 DEF Same
    <3>2. Count(r.sym, y) = Count(m.sym, y) + (IF y = z THEN 1 ELSE 0) /\ Count(m.sym, y) \in Nat
      BY <1>7, <2>3
    <3>3. w[y] = x[y] - (IF y = z THEN 1 ELSE 0)
      OBVIOUS
    <3> QED
      BY <2>1, <2>2, <3>1, <3>2, <3>3 DEF ExactAt
  <2>4. CASE y = o
    <3>1. o # NULL
      BY <2>4, ZendAssumption
    <3>2. Count(r.sym, y) = Count(m.sym, y) + (IF y = z THEN 1 ELSE 0) - 1 /\ Count(m.sym, y) \in Nat
      BY <1>7, <2>4
    <3>3. w[y] = x[y] - (IF y = z THEN 1 ELSE 0)
      OBVIOUS
    <3>4. r.zv[y] = d.zv[y]
      BY <1>5
    <3>5. CASE m.zv[y].rc = 1
      BY <1>3, <1>4, <2>1, <2>4, <3>1, <3>2, <3>3, <3>4, <3>5 DEF ExactAt
    <3>6. CASE m.zv[y].rc = 2
      BY <1>3, <1>4, <2>1, <2>4, <3>1, <3>2, <3>3, <3>4, <3>6, FreeIsNone DEF ExactAt, Is
    <3>7. CASE m.zv[y].rc > 2
      BY <1>3, <1>4, <2>1, <2>4, <3>1, <3>2, <3>3, <3>4, <3>7, FreeIsNone DEF ExactAt, Is
    <3> QED
      BY <1>3, <2>1, <2>4, <3>1, <3>5, <3>6, <3>7
  <2> QED
    BY <2>3, <2>4
<1>10. e # NULL => e \in Ids /\ r.zv[e] # Free /\ Count(r.sym, e) = 0 /\ w[e] = 0
  <2>1. SUFFICES ASSUME e # NULL
                 PROVE  e \in Ids /\ r.zv[e] # Free /\ Count(r.sym, e) = 0 /\ w[e] = 0
    OBVIOUS
  <2>2. e \in Ids /\ e # o /\ e # z /\ Count(m.sym, e) = 0 /\ x[e] = 0 /\ m.zv[e] # Free
    <3>1. e \in Ids /\ Count(m.sym, e) = 0 /\ x[e] = 0 /\ m.zv[e] # Free
      BY <2>1 DEF Good
    <3> QED
      BY <1>3, <2>1, <3>1
  <2>3. Same(m, r, e)
    BY <1>8, <2>2
  <2> QED
    BY <1>7, <2>2, <2>3 DEF Same
<1>11. Good(r, w, e)
  BY <1>5, <1>6, <1>9, <1>10 DEF Good
<1>12. ASSUME NEW y \in Ids, m.zv[y] # Free PROVE Softer(m, r, y)
  <2>1. CASE y # o
    BY <1>8, <1>12, <2>1 DEF Same, Softer
  <2>2. CASE y = o
    <3>0. o # NULL /\ r.zv[y] = d.zv[y] /\ ValueOf(r, y) = ValueOf(d, y) /\ m.zv[o].rc \in Nat
      BY <1>1, <1>5, <1>6, <1>12, <2>2, ZendAssumption, MemoryFields, CellFields
    <3>1. CASE m.zv[y].rc = 1
      BY <1>4, <2>2, <3>0, <3>1 DEF Softer
    <3>2. CASE m.zv[y].rc = 2
      <4>1. Is(d, o, ValueOf(m, o), 1, Off)
        BY <1>4, <2>2, <3>0, <3>2
      <4>2. r.zv[y].rc = 1 /\ r.zv[y].ref = Off /\ r.zv[y] # Free /\ ValueOf(r, y) = ValueOf(m, y)
        BY <2>2, <3>0, <4>1, FreeIsNone DEF Is
      <4>3. r.zv[y].rc = Count(r.sym, y) + w[y] /\ w[y] \in Nat
        BY <1>3, <1>9, <2>2, <3>0, <4>2 DEF ExactAt
      <4>4. Count(r.sym, y) \in Nat
        BY <1>5, MemoryFields, Counts
      <4> QED
        BY <4>2, <4>3, <4>4 DEF Softer
    <3>3. CASE m.zv[y].rc > 2
      BY <1>4, <2>2, <3>0, <3>3 DEF Softer, Is
    <3> QED
      BY <1>1, <1>3, <2>2, <3>0, <3>1, <3>2, <3>3
  <2> QED
    BY <2>1, <2>2
<1>13. z # NULL => r.zv[z] # Free
  <2>1. SUFFICES ASSUME z # NULL PROVE r.zv[z] # Free
    OBVIOUS
  <2>2. ExactAt(r, w, z) /\ Count(r.sym, z) # 0
    BY <1>5, <1>9, <2>1, Counts, MemoryFields
  <2> QED
    BY <2>2 DEF ExactAt
<1> QED
  BY <1>5, <1>8, <1>11, <1>12, <1>13 DEF o

LEMMA NewCells ==
  /\ ZvalUsedForInit \in Cell /\ ZvalUsedForInit.type = "null"
  /\ ZvalUsedForInit.rc = 1 /\ ZvalUsedForInit.ref = Off
  /\ \A c \in Uninitialised : c \in Cell /\ c.type = "null"
<1>1. \A f \in BOOLEAN, n \in Nat : [type |-> "null", val |-> 0, rc |-> n, ref |-> f] \in Cell
  BY DEF Cell
<1>2. ZvalUsedForInit = [type |-> "null", val |-> 0, rc |-> 1, ref |-> Off]
  BY Zenon DEF ZvalUsedForInit, Off
<1>3. ASSUME NEW c \in Uninitialised PROVE c \in Cell /\ c.type = "null"
  <2>1. PICK n \in {0, 5} : c = [type |-> "null", val |-> 0, rc |-> n, ref |-> n = 5]
    BY Zenon DEF Uninitialised
  <2>2. CASE n = 5
    <3>1. c = [type |-> "null", val |-> 0, rc |-> n, ref |-> On]
      BY <2>1, <2>2, Zenon DEF On
    <3> QED
      BY <1>1, <2>2, <3>1, Flags
  <2>3. CASE n = 0
    <3>1. (n = 5) = FALSE
      BY <2>3
    <3>2. c = [type |-> "null", val |-> 0, rc |-> n, ref |-> Off]
      BY <2>1, <3>1, Zenon DEF Off
    <3> QED
      BY <1>1, <2>3, <3>2, Flags
  <2> QED
    BY <2>2, <2>3
<1> QED
  BY <1>1, <1>2, <1>3, Flags

(* A new zval that nobody holds yet.                                       *)
LEMMA StartGood ==
  ASSUME NEW m, NEW x, Good(m, x, NULL), NEW z \in Ids, m.zv[z] = Free,
         NEW c \in Cell, c.type = "null", NEW r, r = Store(m, z, c)
  PROVE  /\ Good(r, x, z) /\ r.sym = m.sym /\ r.buf = m.buf /\ OwnedBut(r, z)
         /\ \A y \in Ids : y # z => Same(m, r, y)
         /\ r.zv[z] = c /\ Is(r, z, NullValue, c.rc, c.ref) /\ ~ IsString(r, z)
<1>1. m \in Memory /\ Owned(m) /\ x \in [Ids -> Nat] /\ ExactAt(m, x, z) /\ NULL \notin Ids
  BY ZendAssumption DEF Good
<1>2. /\ r \in Memory /\ Owned(r) /\ OwnedBut(r, z) /\ r.sym = m.sym /\ r.buf = m.buf
      /\ \A y \in Ids : y # z => Same(m, r, y)
      /\ Is(r, z, NullValue, c.rc, c.ref) /\ r.zv[z] = c
  BY <1>1, BlankIs
<1>3. ASSUME NEW y \in Ids, y # z PROVE ExactAt(r, x, y)
  BY <1>1, <1>2, <1>3 DEF Good, ExactAt, Same
<1>4. r.zv[z] # Free /\ Count(r.sym, z) = 0 /\ x[z] = 0
  BY <1>1, <1>2, FreeIsNone DEF ExactAt
<1> QED
  BY <1>1, <1>2, <1>3, <1>4 DEF Good, IsString

(* It is held once when its count says so.                                 *)
LEMMA FinishGood ==
  ASSUME NEW m, NEW x, NEW z \in Ids, Good(m, x, z), m.zv[z].rc = 1
  PROVE  Good(m, Plus(x, z), NULL)
<1>1. /\ m \in Memory /\ Owned(m) /\ x \in [Ids -> Nat]
      /\ m.zv[z] # Free /\ Count(m.sym, z) = 0 /\ x[z] = 0
  BY ZendAssumption DEF Good
<1>2. Plus(x, z) \in [Ids -> Nat] /\ Plus(x, z)[z] = 1
      /\ \A y \in Ids : y # z => Plus(x, z)[y] = x[y]
  BY <1>1 DEF Plus
<1>3. ASSUME NEW y \in Ids PROVE ExactAt(m, Plus(x, z), y)
  BY <1>1, <1>2 DEF Good, ExactAt
<1> QED
  BY <1>1, <1>2, <1>3 DEF Good

(* SEPARATE_ZVAL.                                                          *)
Keeps(m, r, y) ==
  r.zv[y] # Free /\ ValueOf(r, y) = ValueOf(m, y) /\ r.zv[y].ref = m.zv[y].ref

LEMMA SeparateGood ==
  ASSUME NEW m, NEW x, NEW e, Good(m, x, e), NEW n \in Names, NEW o \in Ids, m.sym[n] = o,
         HasZval(m), HasBuf(m), NEW r, r = SeparateZval(m, n), NEW d, d = r.sym[n]
  PROVE  /\ Good(r, x, e)
         /\ d \in Ids /\ d # e /\ r.zv[d] # Free /\ r.zv[d].rc = 1
         /\ d = o \/ (m.zv[d] = Free /\ r.zv[d].ref = Off)
         /\ ValueOf(r, d) = ValueOf(m, o)
         /\ r.sym = [m.sym EXCEPT ![n] = d]
         /\ \A y \in Ids : m.zv[y] # Free => Keeps(m, r, y)
<1>1. m \in Memory /\ Owned(m) /\ x \in [Ids -> Nat] /\ m.sym \in [Names -> Ids \cup {NULL}]
  BY MemoryFields DEF Good
<1>2. Count(m.sym, o) # 0 /\ Count(m.sym, o) \in Nat
  BY <1>1, Counts
<1>3. o # e /\ m.zv[o] # Free /\ m.zv[o].rc = Count(m.sym, o) + x[o] /\ m.zv[o].rc > 0
      /\ m.zv[o].rc \in Nat
  <2>1. o # e
    BY <1>2, ZendAssumption DEF Good
  <2>2. ExactAt(m, x, o)
    BY <2>1 DEF Good
  <2>3. m.zv[o] # Free /\ m.zv[o].rc = Count(m.sym, o) + x[o] /\ m.zv[o].rc > 0
    BY <1>2, <2>2 DEF ExactAt
  <2>4. m.zv[o].rc \in Nat
    BY <1>1, <2>3, MemoryFields, CellFields
  <2> QED
    BY <2>1, <2>3, <2>4
<1>4. CASE ~ (m.zv[o].rc > 1)
  <2>1. r = m
    BY <1>4 DEF SeparateZval
  <2>2. m.zv[o].rc = 1 /\ d = o
    BY <1>3, <1>4, <2>1
  <2>3. r.sym = [m.sym EXCEPT ![n] = d]
    BY <1>1, <2>1, <2>2
  <2> QED
    BY <1>3, <2>1, <2>2, <2>3 DEF Keeps
<1>5. CASE m.zv[o].rc > 1
  <2> DEFINE z == NewZval(m)
  <2>1. /\ r \in Memory /\ Owned(r) /\ r.sym = [m.sym EXCEPT ![n] = z]
        /\ z \in Ids /\ m.zv[z] = Free /\ z # o
        /\ \A y \in Ids : y \notin {o, z} => Same(m, r, y)
        /\ Is(r, o, ValueOf(m, o), m.zv[o].rc - 1, m.zv[o].ref)
        /\ Is(r, z, ValueOf(m, o), 1, Off)
    BY <1>1, <1>3, <1>5, SeparateIs
  <2>2. d = z
    BY <1>1, <2>1
  <2> HIDE DEF z
  <2>3. \A y \in Ids : /\ Count(r.sym, y) = Count(m.sym, y) + (IF y = z THEN 1 ELSE 0)
                                            - (IF y = o THEN 1 ELSE 0)
                       /\ Count(m.sym, y) \in Nat
    <3>1. /\ r.sym \in [Names -> Ids \cup {NULL}] /\ r.sym[n] = z
          /\ \A k \in Names : k # n => r.sym[k] = m.sym[k]
      BY <1>1, <2>1
    <3> QED
      BY <1>1, <3>1, CountRebind, Counts
  <2>4. z # e
    BY <2>1, ZendAssumption DEF Good
  <2>5. ExactAt(m, x, z) /\ x[o] \in Nat
    BY <1>1, <2>1, <2>4 DEF Good
  <2>6. ExactAt(r, x, z)
    BY <2>1, <2>3, <2>5, FreeIsNone DEF ExactAt, Is
  <2>7. ExactAt(r, x, o)
    BY <1>3, <1>5, <2>1, <2>3, <2>5, FreeIsNone DEF ExactAt, Is
  <2>8. ASSUME NEW y \in Ids, y # e, y \notin {o, z} PROVE ExactAt(r, x, y)
    <3>1. ExactAt(m, x, y)
      BY <2>8 DEF Good
    <3>2. r.zv[y] = m.zv[y]
      BY <2>1, <2>8 DEF Same
    <3>3. Count(r.sym, y) = Count(m.sym, y)
      BY <2>3, <2>8
    <3> QED
      BY <3>1, <3>2, <3>3 DEF ExactAt
  <2>9. e # NULL => e \in Ids /\ r.zv[e] # Free /\ Count(r.sym, e) = 0 /\ x[e] = 0
    BY <1>3, <2>1, <2>3, <2>4 DEF Good, Same
  <2>10. Good(r, x, e)
    BY <1>1, <2>1, <2>6, <2>7, <2>8, <2>9 DEF Good
  <2>11. ASSUME NEW y \in Ids, m.zv[y] # Free PROVE Keeps(m, r, y)
    BY <2>1, <2>11, FreeIsNone DEF Keeps, Is, Same
  <2>12. r.zv[z] # Free /\ r.zv[z].rc = 1 /\ r.zv[z].ref = Off /\ ValueOf(r, z) = ValueOf(m, o)
    BY <2>1, FreeIsNone DEF Is
  <2> QED
    BY <2>1, <2>2, <2>4, <2>10, <2>11, <2>12
<1> QED
  BY <1>4, <1>5

(* A zval being made becomes the value of zval d.                          *)
LEMMA MoveGood ==
  ASSUME NEW m, NEW x, NEW e \in Ids, Good(m, x, e), NEW d \in Ids, d # e, m.zv[d] # Free,
         NEW f \in BOOLEAN, NEW r, r = MoveTo(m, d, e, m.zv[d].rc, f)
  PROVE  /\ Good(r, x, NULL) /\ r.sym = m.sym
         /\ \A y \in Ids : y \notin {d, e} => Same(m, r, y)
         /\ Is(r, d, ValueOf(m, e), m.zv[d].rc, f)
<1>1. /\ m \in Memory /\ Owned(m) /\ x \in [Ids -> Nat]
      /\ m.zv[e] # Free /\ Count(m.sym, e) = 0 /\ x[e] = 0
  BY ZendAssumption DEF Good
<1>2. m.zv[d].rc \in Nat
  BY <1>1, MemoryFields, CellFields
<1>3. /\ r \in Memory /\ Owned(r) /\ r.sym = m.sym
      /\ \A y \in Ids : y \notin {d, e} => Same(m, r, y)
      /\ Is(r, d, ValueOf(m, e), m.zv[d].rc, f) /\ r.zv[e] = Free
  BY <1>1, <1>2, MoveIs
<1>4. ExactAt(r, x, e)
  BY <1>1, <1>3 DEF ExactAt
<1>5. ExactAt(r, x, d)
  BY <1>3, FreeIsNone DEF Good, ExactAt, Is
<1>6. ASSUME NEW y \in Ids, y \notin {d, e} PROVE ExactAt(r, x, y)
  BY <1>3, <1>6 DEF Good, ExactAt, Same
<1> QED
  BY <1>1, <1>3, <1>4, <1>5, <1>6 DEF Good

(* The value of zval s, which somebody holds without a name, becomes that  *)
(* of a zval d being made.                                                 *)
LEMMA MoveOutGood ==
  ASSUME NEW m, NEW x, NEW e, Good(m, x, e), NEW d \in Ids, NEW s \in Ids, s # d,
         e = d \/ (e = NULL /\ m.zv[d] = Free), m.zv[s] # Free, m.zv[s].rc = 1, x[s] > 0,
         NEW n \in Nat, NEW f \in BOOLEAN, NEW r, r = MoveTo(m, d, s, n, f)
  PROVE  /\ Good(r, Minus(x, s), d) /\ r.sym = m.sym
         /\ \A y \in Ids : y \notin {d, s} => Same(m, r, y)
         /\ Is(r, d, ValueOf(m, s), n, f) /\ Count(m.sym, s) = 0
<1>1. m \in Memory /\ Owned(m) /\ x \in [Ids -> Nat] /\ NULL \notin Ids
  BY ZendAssumption DEF Good
<1>2. /\ r \in Memory /\ Owned(r) /\ r.sym = m.sym
      /\ \A y \in Ids : y \notin {d, s} => Same(m, r, y)
      /\ Is(r, d, ValueOf(m, s), n, f) /\ r.zv[s] = Free
  BY <1>1, MoveIs
<1>3. Count(m.sym, s) = 0 /\ x[s] = 1
  <2>1. 1 = Count(m.sym, s) + x[s] /\ Count(m.sym, s) \in Nat /\ x[s] \in Nat
    BY <1>1, Counts, MemoryFields DEF Good, ExactAt
  <2> QED
    BY <2>1
<1>4. Minus(x, s) \in [Ids -> Nat] /\ Minus(x, s)[s] = 0
      /\ \A y \in Ids : y # s => Minus(x, s)[y] = x[y]
  BY <1>1, <1>3 DEF Minus
<1>5. ExactAt(r, Minus(x, s), s)
  BY <1>2, <1>3, <1>4 DEF ExactAt
<1>6. r.zv[d] # Free /\ Count(r.sym, d) = 0 /\ Minus(x, s)[d] = 0
  <2>1. Count(m.sym, d) = 0 /\ x[d] = 0
    BY <1>1 DEF Good, ExactAt
  <2> QED
    BY <1>2, <1>4, <2>1, FreeIsNone DEF Is
<1>7. ASSUME NEW y \in Ids, y \notin {d, s} PROVE ExactAt(r, Minus(x, s), y)
  <2>1. ExactAt(m, x, y)
    BY <1>1, <1>7 DEF Good
  <2> QED
    BY <1>2, <1>4, <1>7, <2>1 DEF ExactAt, Same
<1> QED
  BY <1>1, <1>2, <1>3, <1>4, <1>5, <1>6, <1>7 DEF Good

(***************************************************************************)
(* What a script sees                                                      *)
(***************************************************************************)

Shown(m) == [k \in Names |-> IF m.sym[k] # NULL THEN ValueOf(m, m.sym[k]) ELSE NoValue]

(* Names j and k are one variable.                                         *)
Joined(m, j, k) ==
  j = k \/ (m.sym[k] # NULL /\ m.sym[j] = m.sym[k] /\ IsRef(m, m.sym[k]))

Groups(m) == [k \in Names |-> {j \in Names : Joined(m, j, k)}]
Parted(m, n) == [k \in Names |-> IF k = n THEN {n} ELSE Groups(m)[k] \ {n}]

Alike(m, r) == Shown(r) = Shown(m) /\ Groups(r) = Groups(m)

Assigned(m, r, n) ==
  /\ Shown(r)[n] \in Values
  /\ Groups(r) = Groups(m)
  /\ Shown(r) = [k \in Names |-> IF k \in Groups(m)[n] THEN Shown(r)[n] ELSE Shown(m)[k]]

(* Name n alone has its zval, or it is a reference.                        *)
Owns(m, n) ==
  m.sym[n] # NULL /\ \A k \in Names : m.sym[k] = m.sym[n] => Joined(m, k, n)

LEMMA NamedLive ==
  ASSUME NEW m, NEW x, NEW e, Good(m, x, e), NEW k \in Names, m.sym[k] # NULL
  PROVE  /\ m.sym[k] \in Ids /\ m.sym[k] # e /\ m.zv[m.sym[k]] # Free
         /\ m.zv[m.sym[k]].rc = Count(m.sym, m.sym[k]) + x[m.sym[k]]
         /\ m.zv[m.sym[k]].rc > 0 /\ m.zv[m.sym[k]].rc \in Nat
         /\ x[m.sym[k]] \in Nat /\ Count(m.sym, m.sym[k]) \in Nat /\ Count(m.sym, m.sym[k]) > 0
<1> DEFINE o == m.sym[k]
<1>1. m \in Memory /\ x \in [Ids -> Nat] /\ m.sym \in [Names -> Ids \cup {NULL}]
  BY MemoryFields DEF Good
<1>2. o \in Ids /\ Count(m.sym, o) # 0 /\ Count(m.sym, o) \in Nat
  BY <1>1, Counts
<1> HIDE DEF o
<1>3. o # e
  BY <1>2, ZendAssumption DEF Good
<1>4. ExactAt(m, x, o) /\ x[o] \in Nat
  BY <1>1, <1>2, <1>3 DEF Good
<1>5. m.zv[o] # Free /\ m.zv[o].rc = Count(m.sym, o) + x[o] /\ m.zv[o].rc > 0
  BY <1>2, <1>4 DEF ExactAt
<1> QED
  BY <1>2, <1>3, <1>4, <1>5 DEF o

(* A name that keeps its zval keeps its value and the others that do.      *)
LEMMA Stays ==
  ASSUME NEW m, NEW r, r.sym \in [Names -> Ids \cup {NULL}], NEW k \in Names, r.sym[k] = m.sym[k],
         m.sym[k] # NULL => r.zv[m.sym[k]] # Free /\ Softer(m, r, m.sym[k])
  PROVE  /\ Shown(r)[k] = Shown(m)[k]
         /\ \A j \in Names : r.sym[j] = m.sym[j] => (Joined(r, j, k) <=> Joined(m, j, k))
<1>1. Shown(r)[k] = Shown(m)[k]
  BY DEF Shown, Softer
<1>2. ASSUME NEW j \in Names, r.sym[j] = m.sym[j], j # k, m.sym[k] # NULL, m.sym[j] = m.sym[k]
      PROVE  IsRef(r, m.sym[k]) <=> IsRef(m, m.sym[k])
  <2>1. Count(r.sym, m.sym[k]) > 1
    BY <1>2, CountTwo
  <2>2. Count(r.sym, m.sym[k]) \in Nat
    BY Counts
  <2>3. r.zv[m.sym[k]].ref = m.zv[m.sym[k]].ref
    BY <1>2, <2>1, <2>2 DEF Softer
  <2> QED
    BY <2>3 DEF IsRef
<1> QED
  BY <1>1, <1>2 DEF Joined

LEMMA Unseen ==
  ASSUME NEW m, NEW r, r.sym \in [Names -> Ids \cup {NULL}], r.sym = m.sym,
         \A k \in Names : m.sym[k] # NULL => r.zv[m.sym[k]] # Free /\ Softer(m, r, m.sym[k])
  PROVE  Alike(m, r)
<1>1. \A k \in Names : Shown(r)[k] = Shown(m)[k]
  BY Stays
<1>2. \A j, k \in Names : Joined(r, j, k) <=> Joined(m, j, k)
  BY Stays
<1>3. Shown(r) = Shown(m)
  BY <1>1 DEF Shown
<1>4. Groups(r) = Groups(m)
  BY <1>2 DEF Groups
<1> QED
  BY <1>3, <1>4 DEF Alike

(* Only the zval of name n changes, to one which is no reference to any    *)
(* other name, or none.                                                    *)
LEMMA Departs ==
  ASSUME NEW m, NEW n \in Names, NEW r, r.sym \in [Names -> Ids \cup {NULL}],
         \A k \in Names : k # n => r.sym[k] = m.sym[k],
         \A k \in Names : k # n /\ m.sym[k] # NULL =>
           /\ m.sym[k] = r.sym[n] => ~ IsRef(r, r.sym[n])
           /\ r.zv[m.sym[k]] # Free /\ Softer(m, r, m.sym[k])
  PROVE  /\ Groups(r) = Parted(m, n)
         /\ \A k \in Names : k # n => Shown(r)[k] = Shown(m)[k]
         /\ Shown(r)[n] = IF r.sym[n] = NULL THEN NoValue ELSE ValueOf(r, r.sym[n])
<1>2. ASSUME NEW k \in Names, k # n
      PROVE  /\ Shown(r)[k] = Shown(m)[k]
             /\ \A j \in Names : j # n => (Joined(r, j, k) <=> Joined(m, j, k))
  BY <1>2, Stays
<1>3. ASSUME NEW k \in Names PROVE k # n => ~ Joined(r, n, k) /\ ~ Joined(r, k, n)
  BY DEF Joined
<1>4. Joined(r, n, n)
  BY DEF Joined
<1>5. Groups(r) = Parted(m, n)
  <2>1. ASSUME NEW k \in Names PROVE Groups(r)[k] = Parted(m, n)[k]
    <3>1. CASE k = n
      BY <1>3, <1>4, <3>1 DEF Groups, Parted
    <3>2. CASE k # n
      <4>1. Groups(r)[k] = {j \in Names : Joined(r, j, k)}
        BY DEF Groups
      <4>2. Parted(m, n)[k] = {j \in Names : Joined(m, j, k)} \ {n}
        BY <3>2 DEF Parted, Groups
      <4>3. {j \in Names : Joined(r, j, k)} = {j \in Names : Joined(m, j, k)} \ {n}
        BY <1>2, <1>3, <3>2
      <4> QED
        BY <4>1, <4>2, <4>3
    <3> QED
      BY <3>1, <3>2
  <2> QED
    BY <2>1 DEF Groups, Parted
<1>6. Shown(r)[n] = IF r.sym[n] = NULL THEN NoValue ELSE ValueOf(r, r.sym[n])
  BY DEF Shown
<1> QED
  BY <1>2, <1>5, <1>6

(* Name n gets zval d, which is no reference to any other name, or none.   *)
LEMMA Leaves ==
  ASSUME NEW m, m.sym \in [Names -> Ids \cup {NULL}], NEW n \in Names, NEW d \in Ids \cup {NULL},
         NEW r, r.sym = [m.sym EXCEPT ![n] = d],
         \A k \in Names : k # n /\ m.sym[k] # NULL =>
           /\ m.sym[k] = d => ~ IsRef(r, d)
           /\ r.zv[m.sym[k]] # Free /\ Softer(m, r, m.sym[k])
  PROVE  /\ Groups(r) = Parted(m, n)
         /\ \A k \in Names : k # n => Shown(r)[k] = Shown(m)[k]
         /\ Shown(r)[n] = IF d = NULL THEN NoValue ELSE ValueOf(r, d)
<1>1. /\ r.sym \in [Names -> Ids \cup {NULL}] /\ r.sym[n] = d
      /\ \A k \in Names : k # n => r.sym[k] = m.sym[k]
  OBVIOUS
<1> QED
  BY <1>1, Departs

(* A name that is no reference leaves nothing.                             *)
LEMMA LeavesNone ==
  ASSUME NEW m, NEW n \in Names, m.sym[n] # NULL => ~ IsRef(m, m.sym[n])
  PROVE  Parted(m, n) = Groups(m) /\ Groups(m)[n] = {n}
<1>1. \A k \in Names : Joined(m, k, n) <=> k = n
  BY DEF Joined
<1>2. \A k \in Names : Joined(m, n, k) <=> k = n
  BY DEF Joined
<1>3. Groups(m)[n] = {n}
  BY <1>1 DEF Groups
<1>4. \A k \in Names : k # n => n \notin Groups(m)[k]
  BY <1>2 DEF Groups
<1>5. \A k \in Names : Parted(m, n)[k] = Groups(m)[k]
  BY <1>3, <1>4 DEF Parted
<1> QED
  BY <1>3, <1>5 DEF Parted, Groups

(* It gets a zval that holds a value.                                      *)
LEMMA Rebound ==
  ASSUME NEW m, m.sym \in [Names -> Ids \cup {NULL}], NEW n \in Names, NEW d \in Ids,
         m.sym[n] # NULL => ~ IsRef(m, m.sym[n]),
         NEW r, r.sym = [m.sym EXCEPT ![n] = d], ValueOf(r, d) \in Values,
         \A k \in Names : k # n /\ m.sym[k] # NULL =>
           /\ m.sym[k] = d => ~ IsRef(r, d)
           /\ r.zv[m.sym[k]] # Free /\ Softer(m, r, m.sym[k])
  PROVE  Assigned(m, r, n)
<1>1. /\ Groups(r) = Groups(m) /\ Groups(m)[n] = {n}
      /\ \A k \in Names : k # n => Shown(r)[k] = Shown(m)[k]
      /\ Shown(r)[n] = ValueOf(r, d)
  BY Leaves, LeavesNone, ZendAssumption
<1>2. Shown(r) = [k \in Names |-> IF k \in Groups(m)[n] THEN Shown(r)[n] ELSE Shown(m)[k]]
  BY <1>1 DEF Shown
<1> QED
  BY <1>1, <1>2 DEF Assigned

(* The zval of name n gets a new value in place.                           *)
LEMMA InPlace ==
  ASSUME NEW m, NEW n \in Names, Owns(m, n), NEW r, r.sym = m.sym,
         r.sym \in [Names -> Ids \cup {NULL}],
         r.zv[m.sym[n]].ref = m.zv[m.sym[n]].ref, ValueOf(r, m.sym[n]) \in Values,
         \A k \in Names : m.sym[k] # NULL /\ m.sym[k] # m.sym[n] =>
           r.zv[m.sym[k]] # Free /\ Softer(m, r, m.sym[k])
  PROVE  Assigned(m, r, n)
<1>1. ASSUME NEW k \in Names, m.sym[k] # m.sym[n]
      PROVE  /\ Shown(r)[k] = Shown(m)[k]
             /\ \A j \in Names : Joined(r, j, k) <=> Joined(m, j, k)
  BY <1>1, Stays
<1>2. ASSUME NEW k \in Names, m.sym[k] = m.sym[n]
      PROVE  /\ Shown(r)[k] = Shown(r)[n]
             /\ \A j \in Names : Joined(r, j, k) <=> Joined(m, j, k)
             /\ k \in Groups(m)[n]
  BY <1>2 DEF Owns, Joined, IsRef, Shown, Groups
<1>3. \A k \in Groups(m)[n] : k \in Names /\ m.sym[k] = m.sym[n]
  BY DEF Groups, Joined
<1>4. Groups(r) = Groups(m)
  BY <1>1, <1>2 DEF Groups
<1>5. \A k \in Names : Shown(r)[k] = IF k \in Groups(m)[n] THEN Shown(r)[n] ELSE Shown(m)[k]
  BY <1>1, <1>2, <1>3
<1>6. Shown(r) = [k \in Names |-> IF k \in Groups(m)[n] THEN Shown(r)[n] ELSE Shown(m)[k]]
  BY <1>5 DEF Shown
<1>7. Shown(r)[n] \in Values
  BY DEF Shown, Owns
<1> QED
  BY <1>4, <1>6, <1>7 DEF Assigned

(* Nothing that has a name is touched.                                     *)
LEMMA SameSofter ==
  ASSUME NEW m, NEW r, NEW y \in Ids, m.zv[y] # Free, Same(m, r, y)
  PROVE  r.zv[y] # Free /\ Softer(m, r, y) /\ Keeps(m, r, y)
BY DEF Same, Softer, Keeps

LEMMA UnseenSame ==
  ASSUME NEW m, NEW x, NEW e, Good(m, x, e), NEW r, r.sym = m.sym,
         \A k \in Names : m.sym[k] # NULL => Same(m, r, m.sym[k])
  PROVE  Alike(m, r)
<1>1. m.sym \in [Names -> Ids \cup {NULL}]
  BY MemoryFields DEF Good
<1>2. ASSUME NEW k \in Names, m.sym[k] # NULL
      PROVE  r.zv[m.sym[k]] # Free /\ Softer(m, r, m.sym[k])
  BY <1>2, NamedLive, SameSofter
<1> QED
  BY <1>1, <1>2, Unseen

LEMMA Nameless ==
  ASSUME NEW m, NEW x, NEW e, Good(m, x, e), NEW z \in Ids, z = e \/ m.zv[z] = Free,
         NEW k \in Names
  PROVE  m.sym[k] # z
BY NamedLive, ZendAssumption

LEMMA StartSeen ==
  ASSUME NEW m, NEW x, Good(m, x, NULL), NEW z \in Ids, m.zv[z] = Free,
         NEW c \in Cell, c.type = "null", NEW r, r = Store(m, z, c)
  PROVE  Alike(m, r)
<1>1. r.sym = m.sym /\ \A y \in Ids : y # z => Same(m, r, y)
  BY StartGood
<1>2. ASSUME NEW k \in Names, m.sym[k] # NULL PROVE Same(m, r, m.sym[k])
  BY <1>1, <1>2, NamedLive, Nameless
<1> QED
  BY <1>1, <1>2, UnseenSame

LEMMA SeparateSeen ==
  ASSUME NEW m, NEW x, NEW e, Good(m, x, e), NEW n \in Names, m.sym[n] # NULL,
         HasZval(m), HasBuf(m), NEW r, r = SeparateZval(m, n)
  PROVE  /\ Groups(r) = Parted(m, n) /\ Shown(r) = Shown(m)
         /\ \A k \in Names : k # n => r.sym[k] # r.sym[n] /\ r.sym[k] = m.sym[k]
<1> DEFINE o == m.sym[n]
           d == r.sym[n]
<1>1. o \in Ids /\ m.sym \in [Names -> Ids \cup {NULL}]
  BY NamedLive, MemoryFields DEF Good
<1> HIDE DEF d
<1>2. d = r.sym[n]
  BY DEF d
<1>3. /\ Good(r, x, e)
      /\ d \in Ids /\ d # e /\ r.zv[d] # Free /\ r.zv[d].rc = 1
      /\ d = o \/ (m.zv[d] = Free /\ r.zv[d].ref = Off)
      /\ ValueOf(r, d) = ValueOf(m, o)
      /\ r.sym = [m.sym EXCEPT ![n] = d]
      /\ \A y \in Ids : m.zv[y] # Free => Keeps(m, r, y)
  BY <1>1, <1>2, SeparateGood
<1>4. Count(r.sym, d) <= 1
  <2>1. r.sym[n] # NULL
    BY <1>2, <1>3, ZendAssumption
  <2>2. r.zv[d].rc = Count(r.sym, d) + x[d] /\ x[d] \in Nat /\ Count(r.sym, d) \in Nat
    <3>1. Good(r, x, e)
      BY <1>3
    <3> QED
      BY <1>2, <2>1, <3>1, NamedLive
  <2> QED
    BY <1>3, <2>2
<1>5. r.sym \in [Names -> Ids \cup {NULL}]
  BY <1>1, <1>3
<1>6. ASSUME NEW k \in Names, k # n PROVE r.sym[k] # d /\ r.sym[k] = m.sym[k]
  <2>1. Count(r.sym, d) \in Nat
    BY <1>5, Counts
  <2> QED
    BY <1>1, <1>2, <1>3, <1>4, <1>5, <1>6, <2>1, CountTwo
<1>7. ASSUME NEW k \in Names, k # n, m.sym[k] # NULL
      PROVE  m.sym[k] # d /\ r.zv[m.sym[k]] # Free /\ Softer(m, r, m.sym[k])
  BY <1>3, <1>6, <1>7, NamedLive DEF Keeps, Softer
<1>8. /\ Groups(r) = Parted(m, n)
      /\ \A k \in Names : k # n => Shown(r)[k] = Shown(m)[k]
      /\ Shown(r)[n] = IF d = NULL THEN NoValue ELSE ValueOf(r, d)
  BY <1>1, <1>3, <1>7, Leaves
<1>9. Shown(r)[n] = Shown(m)[n]
  BY <1>3, <1>8, ZendAssumption DEF Shown
<1>10. Shown(r) = Shown(m)
  BY <1>8, <1>9 DEF Shown
<1> QED
  BY <1>2, <1>6, <1>8, <1>10

(* SEPARATE_ZVAL_IF_NOT_REF: the name owns its zval then, and the script   *)
(* sees nothing.                                                           *)
LEMMA SeparateIfGood ==
  ASSUME NEW m, NEW x, NEW e, Good(m, x, e), NEW n \in Names, m.sym[n] # NULL,
         HasZval(m), HasBuf(m), NEW r, r = SeparateIfNotRef(m, n), NEW d, d = r.sym[n]
  PROVE  /\ Good(r, x, e) /\ Alike(m, r) /\ Owns(r, n)
         /\ d \in Ids /\ d # e /\ r.zv[d] # Free
         /\ \A y \in Ids : m.zv[y] # Free => Keeps(m, r, y)
         /\ \A y \in Ids : y # m.sym[n] /\ m.zv[y] # Free => y # d
<1> DEFINE o == m.sym[n]
<1>0. m.sym \in [Names -> Ids \cup {NULL}]
  BY MemoryFields DEF Good
<1>1. o \in Ids /\ o # e /\ m.zv[o] # Free
  BY NamedLive
<1>2. CASE IsRef(m, o)
  <2>1. r = m
    BY <1>2 DEF SeparateIfNotRef
  <2> QED
    BY <1>1, <1>2, <2>1 DEF Alike, Owns, Joined, Keeps
<1>3. CASE ~ IsRef(m, o)
  <2>1. r = SeparateZval(m, n)
    BY <1>3 DEF SeparateIfNotRef
  <2>2. /\ Good(r, x, e)
        /\ d \in Ids /\ d # e /\ r.zv[d] # Free /\ r.zv[d].rc = 1
        /\ d = o \/ (m.zv[d] = Free /\ r.zv[d].ref = Off)
        /\ \A y \in Ids : m.zv[y] # Free => Keeps(m, r, y)
    <3>1. /\ Good(r, x, e)
          /\ d \in Ids /\ d # e /\ r.zv[d] # Free /\ r.zv[d].rc = 1
          /\ d = o \/ (m.zv[d] = Free /\ r.zv[d].ref = Off)
          /\ ValueOf(r, d) = ValueOf(m, o)
          /\ r.sym = [m.sym EXCEPT ![n] = d]
          /\ \A y \in Ids : m.zv[y] # Free => Keeps(m, r, y)
      BY <1>0, <1>1, <2>1, SeparateGood
    <3> QED
      BY <3>1
  <2>3. Alike(m, r) /\ \A k \in Names : k # n => r.sym[k] # d
    BY <1>3, <2>1, SeparateSeen, LeavesNone DEF Alike
  <2>4. Owns(r, n)
    BY <2>2, <2>3, ZendAssumption DEF Owns, Joined
  <2> QED
    BY <2>2, <2>3, <2>4
<1> QED
  BY <1>2, <1>3

(***************************************************************************)
(* Assignments                                                             *)
(***************************************************************************)

LEMMA HeaderGood ==
  ASSUME NEW m, NEW x, NEW z \in Ids, Good(m, x, z), NEW c \in Nat, NEW f \in BOOLEAN,
         NEW r, r = Store(m, z, Header(m.zv[z], c, f))
  PROVE  /\ Good(r, x, z) /\ r.sym = m.sym
         /\ \A y \in Ids : y # z => Same(m, r, y)
         /\ Is(r, z, ValueOf(m, z), c, f)
<1>1. m \in Memory /\ Owned(m) /\ m.zv[z] # Free
  BY ZendAssumption DEF Good
<1>2. /\ r \in Memory /\ Owned(r) /\ r.sym = m.sym
      /\ \A y \in Ids : y # z => Same(m, r, y)
      /\ Is(r, z, ValueOf(m, z), c, f)
  BY <1>1, HeaderIs
<1>3. \A y \in Ids : /\ r.zv[y] = Free <=> m.zv[y] = Free
                     /\ y # z /\ m.zv[y] # Free => r.zv[y].rc = m.zv[y].rc
  BY <1>1, <1>2, FreeIsNone DEF Same, Is
<1>4. Good(r, x, z)
  BY <1>2, <1>3, GoodValue
<1> QED
  BY <1>2, <1>4

(* A zval being made, whose header says one holder, becomes the zval of a  *)
(* name that is no reference.                                              *)
LEMMA BecomesName ==
  ASSUME NEW m, NEW x, NEW z \in Ids, Good(m, x, z), m.zv[z].rc = 1,
         NEW n \in Names, m.sym[n] # NULL => ~ IsRef(m, m.sym[n]),
         NEW r, r = HashUpdate(m, n, z)
  PROVE  Good(r, x, NULL) /\ Assigned(m, r, n) /\ Shown(r)[n] = ValueOf(m, z)
<1>1. /\ m \in Memory /\ Owned(m) /\ x \in [Ids -> Nat] /\ m.sym \in [Names -> Ids \cup {NULL}]
      /\ m.zv[z] # Free /\ x[z] = 0
  BY ZendAssumption, MemoryFields DEF Good
<1>2. Good(m, Plus(x, z), NULL)
  BY FinishGood
<1>3. \A y \in Ids : x[y] = Plus(x, z)[y] - (IF y = z THEN 1 ELSE 0)
  BY <1>1 DEF Plus
<1>4. /\ Good(r, x, NULL) /\ r.sym = [m.sym EXCEPT ![n] = z]
      /\ \A y \in Ids : y # m.sym[n] => Same(m, r, y)
      /\ \A y \in Ids : m.zv[y] # Free => Softer(m, r, y)
  <2>1. z # NULL
    BY ZendAssumption
  <2> QED
    BY <1>1, <1>2, <1>3, <2>1, HashUpdateGood
<1>5. ASSUME NEW k \in Names, k # n, m.sym[k] # NULL
      PROVE  m.sym[k] # z /\ r.zv[m.sym[k]] # Free /\ Softer(m, r, m.sym[k])
  <2>1. m.sym[k] \in Ids /\ m.zv[m.sym[k]] # Free /\ m.sym[k] # z
    BY <1>5, NamedLive
  <2>2. r.sym[k] = m.sym[k]
    BY <1>1, <1>4, <1>5
  <2>3. r.zv[m.sym[k]] # Free
    <3>1. Good(r, x, NULL)
      BY <1>4
    <3> QED
      BY <1>5, <2>2, <3>1, NamedLive
  <2> QED
    BY <1>4, <2>1, <2>3
<1>6. ValueOf(r, z) = ValueOf(m, z) /\ ValueOf(m, z) \in Values
  <2>1. z # m.sym[n]
    BY <1>1, NamedLive, ZendAssumption
  <2>2. ValueOf(m, z) \in Values
    BY <1>1, ValueType, ZendAssumption DEF Owned
  <2> QED
    BY <1>1, <1>4, <2>1, <2>2 DEF Same
<1>7. Assigned(m, r, n)
  BY <1>1, <1>4, <1>5, <1>6, Rebound
<1>8. Shown(r)[n] = ValueOf(r, z)
  BY <1>1, <1>4, ZendAssumption DEF Shown
<1> QED
  BY <1>4, <1>6, <1>7, <1>8

SetHeader(m, z, b, f) == [m EXCEPT !.zv[z].ref = f, !.zv[z].rc = IF b > 0 THEN b ELSE @]

LEMMA SetHeaderIs ==
  ASSUME NEW m \in Memory, NEW z \in Ids, m.zv[z] # Free, NEW b, NEW f
  PROVE  SetHeader(m, z, b, f) = Store(m, z, Header(m.zv[z], IF b > 0 THEN b ELSE m.zv[z].rc, f))
<1>0. m.zv[z] \in Cell
  BY MemoryFields
<1>1. SetHeader(m, z, b, f)
        = Store(m, z, [m.zv[z] EXCEPT !.ref = f, !.rc = IF b > 0 THEN b ELSE @])
  BY Zenon DEF Memory, Store, SetHeader
<1>2. \A c \in Cell : [c EXCEPT !.ref = f, !.rc = IF b > 0 THEN b ELSE @]
                        = Header(c, IF b > 0 THEN b ELSE c.rc, f)
  BY DEF Cell, Header
<1> QED
  BY <1>0, <1>1, <1>2

(* ZEND_SET_SYMBOL with a new zval.                                        *)
LEMMA SetSymbolGood ==
  ASSUME NEW m, NEW x, NEW z \in Ids, Good(m, x, z), NEW n \in Names, NEW c \in {0, 1},
         c = 0 => m.zv[z].rc = 1, NEW r, r = SetSymbol(m, n, z, c, Off)
  PROVE  Good(r, x, NULL) /\ Assigned(m, r, n) /\ Shown(r)[n] = ValueOf(m, z)
<1> DEFINE o == m.sym[n]
<1>1. /\ m \in Memory /\ Owned(m) /\ x \in [Ids -> Nat] /\ m.sym \in [Names -> Ids \cup {NULL}]
      /\ m.zv[z] # Free
  BY ZendAssumption, MemoryFields DEF Good
<1>2. CASE o # NULL /\ IsRef(m, o)
  <2>1. o \in Ids /\ o # z /\ m.zv[o] # Free /\ m.zv[o].rc \in Nat
    BY <1>2, NamedLive
  <2>2. m.zv[o].rc + (IF c > 0 THEN c - 1 ELSE 0) = m.zv[o].rc
    BY <2>1
  <2>3. r = MoveTo(m, o, z, m.zv[o].rc, On)
    BY <1>2, <2>2, SetSymbolRefIs
  <2>4. /\ Good(r, x, NULL) /\ r.sym = m.sym
        /\ \A y \in Ids : y \notin {o, z} => Same(m, r, y)
        /\ Is(r, o, ValueOf(m, z), m.zv[o].rc, On)
    BY <2>1, <2>3, Flags, MoveGood
  <2>5. r.zv[o].ref = m.zv[o].ref
    <3>1. m.zv[o].ref = On
      <4>1. m.zv[o].ref \in BOOLEAN
        BY <1>1, <2>1, MemoryFields, CellFields
      <4> QED
        BY <1>2, <4>1, Zenon DEF IsRef, On
    <3> QED
      BY <2>4, <3>1 DEF Is
  <2>6. ValueOf(r, o) = ValueOf(m, z) /\ ValueOf(m, z) \in Values
    BY <1>1, <2>4, ValueType, ZendAssumption DEF Owned, Is
  <2>7. ASSUME NEW k \in Names, m.sym[k] # NULL, m.sym[k] # o
        PROVE  r.zv[m.sym[k]] # Free /\ Softer(m, r, m.sym[k])
    <3>1. m.sym[k] \in Ids /\ m.sym[k] # z /\ m.zv[m.sym[k]] # Free
      BY <2>7, NamedLive
    <3> QED
      BY <2>4, <2>7, <3>1, SameSofter
  <2>8. Owns(m, n)
    BY <1>2 DEF Owns, Joined
  <2>9. Assigned(m, r, n)
    BY <1>1, <2>4, <2>5, <2>6, <2>7, <2>8, InPlace
  <2>10. Shown(r)[n] = ValueOf(r, o)
    BY <1>2, <2>4 DEF Shown
  <2> QED
    BY <2>4, <2>6, <2>9, <2>10
<1>3. CASE ~ (o # NULL /\ IsRef(m, o))
  <2> DEFINE h == Store(m, z, Header(m.zv[z], 1, Off))
  <2>1. r = HashUpdate(SetHeader(m, z, c, Off), n, z)
    BY <1>3, Zenon DEF SetSymbol, SetHeader
  <2>2. (IF c > 0 THEN c ELSE m.zv[z].rc) = 1
    OBVIOUS
  <2>3. r = HashUpdate(h, n, z)
    BY <1>1, <2>1, <2>2, SetHeaderIs
  <2> HIDE DEF h
  <2>4. /\ Good(h, x, z) /\ h.sym = m.sym
        /\ \A y \in Ids : y # z => Same(m, h, y)
        /\ Is(h, z, ValueOf(m, z), 1, Off)
    BY Flags, HeaderGood DEF h
  <2>5. h.zv[z].rc = 1 /\ ValueOf(h, z) = ValueOf(m, z)
    BY <2>4 DEF Is
  <2>6. ASSUME NEW k \in Names, m.sym[k] # NULL PROVE Same(m, h, m.sym[k])
    BY <2>4, <2>6, NamedLive
  <2>7. Alike(m, h)
    BY <2>4, <2>6, UnseenSame
  <2>8. h.sym[n] # NULL => ~ IsRef(h, h.sym[n])
    BY <1>3, <2>4, <2>6 DEF IsRef, Same
  <2>9. Good(r, x, NULL) /\ Assigned(h, r, n) /\ Shown(r)[n] = ValueOf(h, z)
    BY <2>3, <2>4, <2>5, <2>8, BecomesName
  <2> QED
    BY <2>5, <2>7, <2>9 DEF Alike, Assigned
<1> QED
  BY <1>2, <1>3

(***************************************************************************)
(* What the script does                                                    *)
(***************************************************************************)

(* At most one zval is held without a name.                                *)
Few(x) == \E a \in Ids \cup {NULL} : \A z \in Ids : x[z] > 0 => z = a

LEMMA Roomed ==
  ASSUME NEW m, NEW x, NEW e \in Ids \cup {NULL}, Good(m, x, e), Few(x), NEW z, z = NewZval(m)
  PROVE  HasZval(m) /\ HasBuf(m) /\ z \in Ids /\ m.zv[z] = Free
<1>1. PICK a \in Ids \cup {NULL} : \A y \in Ids : x[y] > 0 => y = a
  BY DEF Few
<1>2. HasZval(m) /\ HasBuf(m)
  BY <1>1, Room
<1> QED
  BY <1>2, NewZvalFree

(* Only a zval that nobody names is written.                               *)
LEMMA MadeGood ==
  ASSUME NEW m, NEW x, NEW e, Good(m, x, e), NEW z \in Ids, e = z \/ (e = NULL /\ m.zv[z] = Free),
         NEW r \in Memory, Owned(r), r.sym = m.sym, r.zv[z] # Free,
         \A y \in Ids : y # z => Same(m, r, y)
  PROVE  Good(r, x, z) /\ Alike(m, r)
<1>1. x \in [Ids -> Nat] /\ NULL \notin Ids
  BY ZendAssumption DEF Good
<1>2. Count(m.sym, z) = 0 /\ x[z] = 0
  BY <1>1 DEF Good, ExactAt
<1>3. ASSUME NEW y \in Ids, y # z PROVE ExactAt(r, x, y)
  <2>1. ExactAt(m, x, y)
    BY <1>1, <1>3 DEF Good
  <2> QED
    BY <1>3, <2>1 DEF ExactAt, Same
<1>4. Good(r, x, z)
  BY <1>1, <1>2, <1>3 DEF Good
<1>5. ASSUME NEW k \in Names, m.sym[k] # NULL PROVE Same(m, r, m.sym[k])
  BY <1>5, NamedLive, Nameless
<1> QED
  BY <1>4, <1>5, UnseenSame

(* Zvals keep their values and the flags that say something.               *)
LEMMA UnseenSofter ==
  ASSUME NEW m, NEW x, NEW e, Good(m, x, e), NEW r, NEW w, NEW f, Good(r, w, f), r.sym = m.sym,
         \A y \in Ids : m.zv[y] # Free => Softer(m, r, y)
  PROVE  Alike(m, r)
<1>1. r.sym \in [Names -> Ids \cup {NULL}]
  BY MemoryFields DEF Good
<1>2. ASSUME NEW k \in Names, m.sym[k] # NULL
      PROVE  r.zv[m.sym[k]] # Free /\ Softer(m, r, m.sym[k])
  <2>1. m.sym[k] \in Ids /\ m.zv[m.sym[k]] # Free
    BY <1>2, NamedLive
  <2>2. r.sym[k] # NULL /\ r.sym[k] = m.sym[k]
    BY <1>2
  <2>3. r.zv[r.sym[k]] # Free
    BY <2>2, NamedLive
  <2> QED
    BY <2>1, <2>2, <2>3
<1> QED
  BY <1>1, <1>2, Unseen

(* The value of the zval of a name is overwritten.                         *)
LEMMA OverwriteGood ==
  ASSUME NEW m, NEW x, NEW e, Good(m, x, e), NEW n \in Names, Owns(m, n),
         NEW d, d = m.sym[n],
         NEW r \in Memory, Owned(r), r.sym = m.sym, NEW v \in Values,
         NEW c, c = m.zv[d].rc, NEW f, f = m.zv[d].ref, Is(r, d, v, c, f),
         \A y \in Ids : y # d => Same(m, r, y)
  PROVE  Good(r, x, e) /\ Assigned(m, r, n)
<1>1. d # NULL /\ d \in Ids /\ m.zv[d] # Free /\ m.sym \in [Names -> Ids \cup {NULL}]
  <2>1. d # NULL
    BY DEF Owns
  <2>2. m.sym \in [Names -> Ids \cup {NULL}]
    BY MemoryFields DEF Good
  <2> QED
    BY <2>1, <2>2, NamedLive
<1>2. r.zv[d].rc = m.zv[d].rc /\ r.zv[d].ref = m.zv[d].ref /\ ValueOf(r, d) = v /\ r.zv[d] # Free
  BY FreeIsNone DEF Is
<1>3. \A y \in Ids : /\ r.zv[y] = Free <=> m.zv[y] = Free
                     /\ y # e /\ m.zv[y] # Free => r.zv[y].rc = m.zv[y].rc
  BY <1>1, <1>2 DEF Same
<1>4. Good(r, x, e)
  BY <1>3, GoodValue
<1>5. ASSUME NEW k \in Names, m.sym[k] # NULL, m.sym[k] # d
      PROVE  r.zv[m.sym[k]] # Free /\ Softer(m, r, m.sym[k])
  <2>1. m.sym[k] \in Ids /\ m.zv[m.sym[k]] # Free
    BY <1>5, NamedLive
  <2> QED
    BY <1>5, <2>1, SameSofter
<1>6. Assigned(m, r, n)
  BY <1>1, <1>2, <1>5, InPlace
<1> QED
  BY <1>4, <1>6

(* A new zval gets a value.                                                *)
LEMMA NewValueGood ==
  ASSUME NEW m, NEW x, Good(m, x, NULL), Few(x), NEW z, z = NewZval(m),
         NEW c \in Cell, c.type = "null", NEW v \in Values, NEW r, r = ZvalSet(Store(m, z, c), z, v)
  PROVE  z \in Ids /\ Good(r, x, z) /\ Alike(m, r) /\ Is(r, z, v, c.rc, c.ref)
<1> DEFINE s == Store(m, z, c)
<1>1. z \in Ids /\ m.zv[z] = Free
  BY Roomed
<1>2. /\ Good(s, x, z) /\ s.sym = m.sym /\ OwnedBut(s, z) /\ s.zv[z] = c
      /\ \A y \in Ids : y # z => Same(m, s, y)
  BY <1>1, StartGood
<1>3. Alike(m, s)
  BY <1>1, StartSeen
<1> HIDE DEF s
<1>4. s \in Memory /\ HasBuf(s) /\ s.zv[z] # Free
  BY <1>1, <1>2, Roomed, FreeIsNone DEF Good
<1>5. r = ZvalSet(s, z, v)
  BY DEF s
<1>6. /\ r \in Memory /\ Owned(r) /\ r.sym = s.sym
      /\ \A y \in Ids : y # z => Same(s, r, y)
      /\ Is(r, z, v, c.rc, c.ref)
  BY <1>1, <1>2, <1>4, <1>5, SetIs
<1>7. r.zv[z] # Free
  BY <1>6, FreeIsNone DEF Is
<1>8. Good(r, x, z) /\ Alike(s, r)
  BY <1>1, <1>2, <1>6, <1>7, MadeGood
<1> QED
  BY <1>1, <1>3, <1>6, <1>8 DEF Alike

LEMMA AlikeAssigned ==
  ASSUME NEW m, NEW s, Alike(m, s), NEW r, NEW n, Assigned(s, r, n)
  PROVE  Assigned(m, r, n)
BY DEF Alike, Assigned

(* SET_VAR_LONG and SET_VAR_STRING.                                        *)
LEMMA SetVarGood ==
  ASSUME NEW m, NEW x, Good(m, x, NULL), Few(x), NEW n \in Names, NEW v \in Written,
         NEW c \in Uninitialised, NEW z, z = NewZval(m),
         NEW r, r = SetSymbol(ZvalSet(Store(m, z, c), z, v), n, z, 1, Off)
  PROVE  Good(r, x, NULL) /\ Assigned(m, r, n)
<1> DEFINE s == ZvalSet(Store(m, z, c), z, v)
<1>1. c \in Cell /\ c.type = "null" /\ v \in Values
  BY NewCells DEF Values
<1>2. z \in Ids /\ Good(s, x, z) /\ Alike(m, s)
  BY <1>1, NewValueGood
<1> HIDE DEF s
<1>3. r = SetSymbol(s, n, z, 1, Off)
  BY DEF s
<1>4. Good(r, x, NULL) /\ Assigned(s, r, n)
  BY <1>2, <1>3, SetSymbolGood
<1> QED
  BY <1>2, <1>4, AlikeAssigned

LEMMA CopyGood ==
  ASSUME NEW m, NEW x, NEW e, Good(m, x, e), NEW z \in Ids, e = z \/ (e = NULL /\ m.zv[z] = Free),
         NEW s \in Ids, s # z, m.zv[s] # Free, HasBuf(m), NEW r, r = CopyTo(m, z, s, 1, Off)
  PROVE  Good(r, x, z) /\ Alike(m, r) /\ Is(r, z, ValueOf(m, s), 1, Off)
<1>1. m \in Memory /\ Owned(m)
  BY DEF Good
<1>2. /\ r \in Memory /\ Owned(r) /\ r.sym = m.sym
      /\ \A y \in Ids : y # z => Same(m, r, y)
      /\ Is(r, z, ValueOf(m, s), 1, Off)
  BY <1>1, Flags, CopyToIs
<1>3. r.zv[z] # Free
  BY <1>2, FreeIsNone DEF Is
<1>4. Good(r, x, z) /\ Alike(m, r)
  BY <1>2, <1>3, MadeGood
<1> QED
  BY <1>2, <1>4

(* RETVAL_ZVAL of a copy, and MAKE_COPY_ZVAL.                              *)
LEMMA ReturnCopyGood ==
  ASSUME NEW m, NEW x, Good(m, x, NULL), Few(x), NEW n \in Names, NEW s \in Names, m.sym[s] # NULL,
         NEW z, z = NewZval(m), NEW q, q = Store(m, z, ZvalUsedForInit),
         NEW r, \/ r = SetSymbol(ZvalZval(q, z, m.sym[s], TRUE, FALSE), n, z, 1, Off)
                \/ r = SetSymbol(MakeCopyZval(q, m.sym[s], z), n, z, 0, Off)
  PROVE  Good(r, x, NULL) /\ Assigned(m, r, n)
<1> DEFINE o == m.sym[s]
           w == CopyTo(q, z, o, 1, Off)
<1>1. z \in Ids /\ m.zv[z] = Free /\ NULL \notin Ids
  BY Roomed, ZendAssumption
<1>2. o \in Ids /\ m.zv[o] # Free /\ o # z
  BY <1>1, NamedLive
<1>3. /\ Good(q, x, z) /\ q.zv[z] = ZvalUsedForInit /\ ~ IsString(q, z)
      /\ \A y \in Ids : y # z => Same(m, q, y)
  BY <1>1, NewCells, StartGood
<1>4. Alike(m, q)
  BY <1>1, NewCells, StartSeen
<1>5. q \in Memory /\ Owned(q) /\ HasBuf(q) /\ q.zv[o] # Free /\ q.zv[z].rc = 1 /\ q.zv[z].ref = Off
  <2>1. q \in Memory /\ Owned(q)
    BY <1>3 DEF Good
  <2>2. HasBuf(q)
    BY <1>1, <1>3, Roomed
  <2>3. q.zv[o] # Free
    BY <1>2, <1>3 DEF Same
  <2> QED
    BY <1>3, <2>1, <2>2, <2>3, NewCells
<1> HIDE DEF o
<1>6. ZvalZval(q, z, o, TRUE, FALSE) = w /\ MakeCopyZval(q, o, z) = w
  <2>1. ZvalZval(q, z, o, TRUE, FALSE) = CopyTo(q, z, o, q.zv[z].rc, q.zv[z].ref)
    BY <1>1, <1>2, <1>3, <1>5, ZvalZvalCopyIs
  <2>2. MakeCopyZval(q, o, z) = w
    BY <1>1, <1>2, <1>3, <1>5, MakeCopyIs
  <2> QED
    BY <1>5, <2>1, <2>2
<1>7. r = SetSymbol(w, n, z, 1, Off) \/ r = SetSymbol(w, n, z, 0, Off)
  BY <1>6, Zenon DEF o
<1> HIDE DEF w
<1>8. Good(w, x, z) /\ Alike(q, w) /\ w.zv[z].rc = 1
  <2>1. Good(w, x, z) /\ Alike(q, w) /\ Is(w, z, ValueOf(q, o), 1, Off)
    BY <1>1, <1>2, <1>3, <1>5, CopyGood DEF w
  <2> QED
    BY <2>1 DEF Is
<1>9. Good(r, x, NULL) /\ Assigned(w, r, n)
  <2>1. CASE r = SetSymbol(w, n, z, 1, Off)
    BY <1>1, <1>8, <2>1, SetSymbolGood
  <2>2. CASE r = SetSymbol(w, n, z, 0, Off)
    BY <1>1, <1>8, <2>2, SetSymbolGood
  <2> QED
    BY <1>7, <2>1, <2>2
<1> QED
  BY <1>4, <1>8, <1>9, AlikeAssigned

LEMMA PtrDtorSeen ==
  ASSUME NEW m, NEW x, NEW e, Good(m, x, e), NEW z \in Ids, z # e, m.zv[z] # Free, x[z] > 0,
         NEW r, r = ZvalPtrDtor(m, z)
  PROVE  /\ Good(r, Minus(x, z), e) /\ Alike(m, r) /\ r.sym = m.sym
         /\ \A y \in Ids : y # z => Same(m, r, y)
<1>1. m \in Memory /\ Owned(m) /\ x \in [Ids -> Nat] /\ ExactAt(m, x, z)
  BY DEF Good
<1>2. m.zv[z].rc > 0 /\ m.zv[z].rc = Count(m.sym, z) + x[z] /\ Count(m.sym, z) \in Nat
  BY <1>1, Counts, MemoryFields DEF ExactAt
<1>3. /\ r \in Memory /\ Owned(r) /\ r.sym = m.sym
      /\ \A y \in Ids : y # z => Same(m, r, y)
      /\ m.zv[z].rc = 1 => r.zv[z] = Free
      /\ m.zv[z].rc = 2 => Is(r, z, ValueOf(m, z), 1, Off)
      /\ m.zv[z].rc > 2 => Is(r, z, ValueOf(m, z), m.zv[z].rc - 1, m.zv[z].ref)
  BY <1>1, <1>2, PtrDtorIs
<1>4. Good(r, Minus(x, z), e)
  BY PtrDtorGood
<1>5. Softer(m, r, z)
  <2>1. CASE m.zv[z].rc = 1
    BY <1>3, <2>1 DEF Softer
  <2>2. CASE m.zv[z].rc = 2
    <3>1. r.zv[z].ref = Off /\ ValueOf(r, z) = ValueOf(m, z)
      BY <1>3, <2>2 DEF Is
    <3>2. Count(r.sym, z) <= 1
      BY <1>1, <1>2, <1>3, <2>2
    <3> QED
      BY <3>1, <3>2 DEF Softer
  <2>3. CASE m.zv[z].rc > 2
    BY <1>3, <2>3 DEF Softer, Is
  <2> QED
    BY <1>1, <1>2, <2>1, <2>2, <2>3
<1>6. ASSUME NEW y \in Ids, m.zv[y] # Free PROVE Softer(m, r, y)
  BY <1>3, <1>5, <1>6, SameSofter
<1>7. Alike(m, r)
  BY <1>3, <1>4, <1>6, UnseenSofter
<1> QED
  BY <1>3, <1>4, <1>7

LEMMA DelRefSeen ==
  ASSUME NEW m, NEW x, NEW e, Good(m, x, e), NEW z \in Ids, z # e, m.zv[z] # Free, x[z] > 0,
         m.zv[z].rc > 1, NEW r, r = DelRef(m, z)
  PROVE  /\ Good(r, Minus(x, z), e) /\ Alike(m, r) /\ r.sym = m.sym
         /\ \A y \in Ids : y # z => Same(m, r, y)
<1>1. m \in Memory /\ Owned(m) /\ x \in [Ids -> Nat] /\ ExactAt(m, x, z)
  BY DEF Good
<1>2. m.zv[z].rc - 1 \in Nat /\ m.zv[z].ref \in BOOLEAN
  BY <1>1, MemoryFields, CellFields
<1>3. r = Store(m, z, Header(m.zv[z], m.zv[z].rc - 1, m.zv[z].ref))
  BY <1>1, DelRefIs
<1>4. /\ r \in Memory /\ Owned(r) /\ r.sym = m.sym
      /\ \A y \in Ids : y # z => Same(m, r, y)
      /\ Is(r, z, ValueOf(m, z), m.zv[z].rc - 1, m.zv[z].ref)
  BY <1>1, <1>2, <1>3, HeaderIs
<1>5. Minus(x, z) \in [Ids -> Nat] /\ Minus(x, z)[z] = x[z] - 1
      /\ \A y \in Ids : y # z => Minus(x, z)[y] = x[y]
  BY <1>1 DEF Minus
<1>6. Count(m.sym, z) \in Nat
  BY <1>1, Counts, MemoryFields
<1>7. ExactAt(r, Minus(x, z), z)
  BY <1>1, <1>4, <1>5, <1>6, FreeIsNone DEF ExactAt, Is
<1>8. Good(r, Minus(x, z), e)
  BY <1>4, <1>5, <1>7, GoodCount
<1>9. Softer(m, r, z)
  BY <1>4 DEF Softer, Is
<1>10. ASSUME NEW y \in Ids, m.zv[y] # Free PROVE Softer(m, r, y)
  BY <1>4, <1>9, <1>10, SameSofter
<1>11. Alike(m, r)
  BY <1>4, <1>8, <1>10, UnseenSofter
<1> QED
  BY <1>4, <1>8, <1>11

(* A name ends, and what it held is held by a local.                       *)
LEMMA EndGood ==
  ASSUME NEW m, NEW x, NEW e, Good(m, x, e), NEW s \in Names, m.sym[s] # NULL, NEW o, o = m.sym[s],
         NEW r, r = Rename(m, s, NULL)
  PROVE  /\ Good(r, Plus(x, o), e) /\ r.zv = m.zv /\ r.buf = m.buf
         /\ Groups(r) = Parted(m, s) /\ Shown(r)[s] = NoValue
         /\ \A k \in Names : k # s => Shown(r)[k] = Shown(m)[k]
         /\ \A y \in Ids : ValueOf(r, y) = ValueOf(m, y)
<1>1. m \in Memory /\ Owned(m) /\ x \in [Ids -> Nat] /\ m.sym \in [Names -> Ids \cup {NULL}]
  BY MemoryFields DEF Good
<1>2. r \in Memory /\ r.zv = m.zv /\ r.buf = m.buf /\ r.sym = [m.sym EXCEPT ![s] = NULL]
  BY <1>1 DEF Memory, Rename
<1>3. Owned(r) /\ \A y \in Ids : ValueOf(r, y) = ValueOf(m, y)
  BY <1>1, <1>2 DEF Owned, OwnedBut, IsString, ValueOf
<1>4. o \in Ids /\ o # e /\ m.zv[o] # Free
  BY NamedLive
<1>5. \A y \in Ids : /\ Count(r.sym, y) = Count(m.sym, y) - (IF y = o THEN 1 ELSE 0)
                     /\ Count(m.sym, y) \in Nat
  <2>1. /\ r.sym \in [Names -> Ids \cup {NULL}] /\ r.sym[s] = NULL
        /\ \A k \in Names : k # s => r.sym[k] = m.sym[k]
    BY <1>1, <1>2
  <2>2. ASSUME NEW y \in Ids
        PROVE  Count(r.sym, y) = Count(m.sym, y) + (IF y = r.sym[s] THEN 1 ELSE 0)
                                                 - (IF y = m.sym[s] THEN 1 ELSE 0)
    BY <1>1, <2>1, <2>2, CountRebind
  <2>3. \A y \in Ids : Count(m.sym, y) \in Nat /\ y # NULL
    BY <1>1, Counts, ZendAssumption
  <2> QED
    BY <2>1, <2>2, <2>3
<1>6. /\ Plus(x, o) \in [Ids -> Nat]
      /\ \A y \in Ids : Plus(x, o)[y] = x[y] + (IF y = o THEN 1 ELSE 0) /\ x[y] \in Nat
  BY <1>1 DEF Plus
<1>7. ASSUME NEW y \in Ids, y # e PROVE ExactAt(r, Plus(x, o), y)
  <2>1. ExactAt(m, x, y) /\ r.zv[y] = m.zv[y]
    BY <1>2, <1>7 DEF Good
  <2>2. Plus(x, o)[y] = x[y] + (IF y = o THEN 1 ELSE 0) /\ x[y] \in Nat
    BY <1>6
  <2>3. Count(r.sym, y) = Count(m.sym, y) - (IF y = o THEN 1 ELSE 0) /\ Count(m.sym, y) \in Nat
    BY <1>5
  <2>4. y = o => m.zv[y] # Free
    BY <1>4
  <2> QED
    BY <2>1, <2>2, <2>3, <2>4 DEF ExactAt
<1>8. e # NULL => e \in Ids /\ r.zv[e] # Free /\ Count(r.sym, e) = 0 /\ Plus(x, o)[e] = 0
  <2>1. SUFFICES ASSUME e # NULL
                 PROVE  e \in Ids /\ r.zv[e] # Free /\ Count(r.sym, e) = 0 /\ Plus(x, o)[e] = 0
    OBVIOUS
  <2>2. e \in Ids /\ m.zv[e] # Free /\ Count(m.sym, e) = 0 /\ x[e] = 0
    BY <2>1 DEF Good
  <2>3. Plus(x, o)[e] = x[e] /\ Count(r.sym, e) = Count(m.sym, e) /\ r.zv[e] = m.zv[e]
    BY <1>2, <1>4, <1>5, <1>6, <2>2
  <2> QED
    BY <2>2, <2>3
<1>9. Good(r, Plus(x, o), e)
  BY <1>2, <1>3, <1>6, <1>7, <1>8 DEF Good
<1>10. /\ r.sym \in [Names -> Ids \cup {NULL}] /\ r.sym[s] = NULL
       /\ \A k \in Names : k # s => r.sym[k] = m.sym[k]
  BY <1>1, <1>2
<1>11. ASSUME NEW k \in Names, k # s, m.sym[k] # NULL
       PROVE  m.sym[k] # r.sym[s] /\ r.zv[m.sym[k]] # Free /\ Softer(m, r, m.sym[k])
  <2>1. m.sym[k] \in Ids /\ m.zv[m.sym[k]] # Free
    BY <1>11, NamedLive
  <2> QED
    BY <1>2, <1>3, <1>10, <1>11, <2>1 DEF Softer
<1>12. /\ Groups(r) = Parted(m, s) /\ Shown(r)[s] = NoValue
       /\ \A k \in Names : k # s => Shown(r)[k] = Shown(m)[k]
  <2>1. \A k \in Names : k # s /\ m.sym[k] # NULL =>
           /\ m.sym[k] = r.sym[s] => ~ IsRef(r, r.sym[s])
           /\ r.zv[m.sym[k]] # Free /\ Softer(m, r, m.sym[k])
    BY <1>11
  <2>2. Groups(r) = Parted(m, s)
    BY <1>10, <2>1, Departs
  <2>3. \A k \in Names : k # s => Shown(r)[k] = Shown(m)[k]
    BY <1>10, <2>1 DEF Shown, Softer
  <2>4. Shown(r)[s] = NoValue
    BY <1>10 DEF Shown
  <2> QED
    BY <2>2, <2>3, <2>4
<1> QED
  BY <1>2, <1>3, <1>9, <1>12

(* A zval being made takes over the value of a local that is given up:     *)
(* COPY_PZVAL_TO_ZVAL, and RETVAL_ZVAL with dtor.                          *)
LEMMA MoveLocalGood ==
  ASSUME NEW m, NEW x, NEW z \in Ids, Good(m, x, z), NEW o \in Ids, o # z, m.zv[o] # Free,
         x[o] > 0, m.zv[o].rc = 1, NEW r, r = MoveTo(m, z, o, 1, Off)
  PROVE  Good(r, Minus(x, o), z) /\ Alike(m, r) /\ Is(r, z, ValueOf(m, o), 1, Off)
<1>1. /\ Good(r, Minus(x, o), z) /\ r.sym = m.sym
      /\ \A y \in Ids : y \notin {z, o} => Same(m, r, y)
      /\ Is(r, z, ValueOf(m, o), 1, Off) /\ Count(m.sym, o) = 0
  BY Flags, MoveOutGood
<1>2. \A k \in Names : m.sym[k] # o
  BY <1>1, Counts, MemoryFields DEF Good
<1>3. ASSUME NEW k \in Names, m.sym[k] # NULL PROVE Same(m, r, m.sym[k])
  BY <1>1, <1>2, <1>3, NamedLive
<1>4. Alike(m, r)
  BY <1>1, <1>3, UnseenSame
<1> QED
  BY <1>1, <1>4

LEMMA CopyLocalGood ==
  ASSUME NEW m, NEW x, NEW z \in Ids, Good(m, x, z), NEW o \in Ids, o # z, m.zv[o] # Free,
         x[o] > 0, HasBuf(m), NEW q, q = Copying(m, z, o),
         NEW d, \/ d = ZvalPtrDtor(q, o)
                \/ d = DelRef(q, o) /\ m.zv[o].rc > 1,
         NEW r, r = Store(d, z, Header(d.zv[z], 1, Off))
  PROVE  Good(r, Minus(x, o), z) /\ Alike(m, r) /\ Is(r, z, ValueOf(m, o), 1, Off)
<1>1. m \in Memory /\ Owned(m)
  BY DEF Good
<1>2. /\ q \in Memory /\ Owned(q) /\ q.sym = m.sym
      /\ \A y \in Ids : y # z => Same(m, q, y)
      /\ Is(q, z, ValueOf(m, o), m.zv[o].rc, m.zv[o].ref)
  BY <1>1, CopyingIs
<1>3. q.zv[z] # Free /\ ValueOf(q, z) = ValueOf(m, o) /\ q.zv[o] = m.zv[o]
  BY <1>2, FreeIsNone DEF Is, Same
<1>4. Good(q, x, z) /\ Alike(m, q)
  BY <1>2, <1>3, MadeGood
<1>5. /\ Good(d, Minus(x, o), z) /\ Alike(q, d) /\ d.sym = q.sym
      /\ \A y \in Ids : y # o => Same(q, d, y)
  <2>1. CASE d = ZvalPtrDtor(q, o)
    BY <1>3, <1>4, <2>1, PtrDtorSeen
  <2>2. CASE d = DelRef(q, o) /\ m.zv[o].rc > 1
    BY <1>3, <1>4, <2>2, DelRefSeen
  <2> QED
    BY <2>1, <2>2
<1>6. /\ Good(r, Minus(x, o), z) /\ r.sym = d.sym
      /\ \A y \in Ids : y # z => Same(d, r, y)
      /\ Is(r, z, ValueOf(d, z), 1, Off)
  BY <1>5, Flags, HeaderGood
<1>7. ValueOf(d, z) = ValueOf(m, o)
  BY <1>3, <1>5 DEF Same
<1>8. ASSUME NEW k \in Names, d.sym[k] # NULL PROVE Same(d, r, d.sym[k])
  BY <1>5, <1>6, <1>8, NamedLive
<1>9. Alike(d, r)
  BY <1>5, <1>6, <1>8, UnseenSame
<1> QED
  BY <1>4, <1>5, <1>6, <1>7, <1>9 DEF Alike

LEMMA TakeOverGood ==
  ASSUME NEW m, NEW x, NEW z \in Ids, Good(m, x, z), NEW o \in Ids, o # z, m.zv[o] # Free,
         x[o] > 0, HasBuf(m), ~ IsString(m, z), m.zv[z].rc = 1, m.zv[z].ref = Off,
         NEW r, \/ r = CopyPzvalToZval(m, z, o)
                \/ r = ZvalZval(m, z, o, TRUE, TRUE)
                \/ r = ZvalZval(m, z, o, FALSE, TRUE) /\ m.zv[o].rc = 1
  PROVE  Good(r, Minus(x, o), z) /\ Alike(m, r) /\ Is(r, z, ValueOf(m, o), 1, Off)
<1> DEFINE q == Copying(m, z, o)
<1>1. m \in Memory /\ Owned(m) /\ m.zv[o].rc > 0 /\ m.zv[o].rc \in Nat
  <2>1. m \in Memory /\ Owned(m)
    BY DEF Good
  <2>2. ExactAt(m, x, o)
    BY DEF Good
  <2> QED
    BY <2>1, <2>2, MemoryFields, CellFields DEF ExactAt
<1>2. CASE r = MoveTo(m, z, o, 1, Off) /\ m.zv[o].rc = 1
  BY <1>2, MoveLocalGood
<1>3. CASE /\ m.zv[o].rc > 1
           /\ r = Store(DelRef(q, o), z, Header(DelRef(q, o).zv[z], 1, Off))
  BY <1>3, CopyLocalGood
<1>4. CASE r = Store(ZvalPtrDtor(q, o), z, Header(ZvalPtrDtor(q, o).zv[z], 1, Off))
  BY <1>4, CopyLocalGood
<1>5. CASE r = CopyPzvalToZval(m, z, o)
  <2>1. CASE m.zv[o].rc = 1
    BY <1>1, <1>2, <1>5, <2>1, CopyPzvalMoveIs
  <2>2. CASE m.zv[o].rc > 1
    BY <1>1, <1>3, <1>5, <2>2, CopyPzvalSharedIs
  <2> QED
    BY <1>1, <2>1, <2>2
<1>6. CASE r = ZvalZval(m, z, o, TRUE, TRUE)
  <2>1. ZvalZval(m, z, o, TRUE, TRUE)
          = Store(ZvalPtrDtor(q, o), z, Header(ZvalPtrDtor(q, o).zv[z], m.zv[z].rc, m.zv[z].ref))
    BY <1>1, ZvalZvalDtorIs
  <2>2. r = Store(ZvalPtrDtor(q, o), z, Header(ZvalPtrDtor(q, o).zv[z], 1, Off))
    BY <1>6, <2>1, Zenon
  <2> QED
    BY <1>4, <2>2
<1>7. CASE r = ZvalZval(m, z, o, FALSE, TRUE) /\ m.zv[o].rc = 1
  <2>1. ZvalZval(m, z, o, FALSE, TRUE) = MoveTo(m, z, o, m.zv[z].rc, m.zv[z].ref)
    BY <1>1, <1>7, ZvalZvalMoveIs
  <2>2. r = MoveTo(m, z, o, 1, Off)
    BY <1>7, <2>1, Zenon
  <2> QED
    BY <1>2, <1>7, <2>2
<1> QED
  BY <1>5, <1>6, <1>7

Moved(m, r, n, s) ==
  /\ Groups(r) = Parted(m, s)
  /\ Shown(r) = [k \in Names |-> IF k = s THEN NoValue
                                 ELSE IF k \in Groups(m)[n] THEN Shown(m)[s] ELSE Shown(m)[k]]

LEMMA ReturnLocalGood ==
  ASSUME NEW m, NEW x, Good(m, x, NULL), Few(x), NEW n \in Names, NEW s \in Names, n # s,
         m.sym[s] # NULL, NEW z, z = NewZval(m),
         NEW p, p = Rename(Store(m, z, ZvalUsedForInit), s, NULL), NEW w,
         \/ w = CopyPzvalToZval(p, z, m.sym[s])
         \/ w = ZvalZval(p, z, m.sym[s], TRUE, TRUE)
         \/ w = ZvalZval(p, z, m.sym[s], FALSE, TRUE) /\ m.zv[m.sym[s]].rc = 1,
         NEW r, r = SetSymbol(w, n, z, 1, Off)
  PROVE  Good(r, x, NULL) /\ Moved(m, r, n, s)
<1> DEFINE o == m.sym[s]
           q == Store(m, z, ZvalUsedForInit)
<1>1. z \in Ids /\ m.zv[z] = Free /\ NULL \notin Ids /\ x \in [Ids -> Nat]
  BY Roomed, ZendAssumption DEF Good
<1>2. o \in Ids /\ m.zv[o] # Free /\ o # z
  BY <1>1, NamedLive
<1>3. /\ Good(q, x, z) /\ q.zv[z] = ZvalUsedForInit /\ ~ IsString(q, z) /\ q.sym = m.sym
      /\ q.buf = m.buf /\ \A y \in Ids : y # z => Same(m, q, y)
  BY <1>1, NewCells, StartGood
<1>4. Alike(m, q)
  BY <1>1, NewCells, StartSeen
<1> HIDE DEF q
<1>5. p = Rename(q, s, NULL) /\ q.sym[s] = o /\ o # NULL
  BY <1>3 DEF q
<1>6. /\ Good(p, Plus(x, o), z) /\ p.zv = q.zv /\ p.buf = q.buf
      /\ Groups(p) = Parted(q, s) /\ Shown(p)[s] = NoValue
      /\ \A k \in Names : k # s => Shown(p)[k] = Shown(q)[k]
      /\ \A y \in Ids : ValueOf(p, y) = ValueOf(q, y)
  BY <1>3, <1>5, EndGood
<1>7. /\ p.zv[o] = m.zv[o] /\ HasBuf(p) /\ ~ IsString(p, z)
      /\ p.zv[z].rc = 1 /\ p.zv[z].ref = Off /\ Plus(x, o)[o] > 0 /\ Minus(Plus(x, o), o) = x
      /\ ValueOf(p, o) = ValueOf(m, o)
  <2>1. p.zv[o] = m.zv[o] /\ ValueOf(p, o) = ValueOf(m, o)
    BY <1>2, <1>3, <1>6 DEF Same
  <2>2. HasBuf(p)
    BY <1>3, <1>6, Roomed DEF HasBuf
  <2>3. ~ IsString(p, z) /\ p.zv[z].rc = 1 /\ p.zv[z].ref = Off
    BY <1>3, <1>6, NewCells DEF IsString
  <2>4. Plus(x, o)[o] > 0 /\ Minus(Plus(x, o), o) = x
    BY <1>1, <1>2 DEF Plus, Minus
  <2> QED
    BY <2>1, <2>2, <2>3, <2>4
<1>8. \/ w = CopyPzvalToZval(p, z, o)
      \/ w = ZvalZval(p, z, o, TRUE, TRUE)
      \/ w = ZvalZval(p, z, o, FALSE, TRUE) /\ p.zv[o].rc = 1
  BY <1>7
<1> HIDE DEF o
<1>9. Good(w, x, z) /\ Alike(p, w) /\ Is(w, z, ValueOf(p, o), 1, Off)
  <2>1. z \in Ids /\ o \in Ids /\ o # z /\ p.zv[o] # Free /\ Good(p, Plus(x, o), z)
    BY <1>1, <1>2, <1>6, <1>7
  <2>2. Plus(x, o)[o] > 0 /\ HasBuf(p) /\ ~ IsString(p, z) /\ p.zv[z].rc = 1 /\ p.zv[z].ref = Off
    BY <1>7
  <2>3. /\ Good(w, Minus(Plus(x, o), o), z) /\ Alike(p, w)
        /\ Is(w, z, ValueOf(p, o), 1, Off)
    BY <1>8, <2>1, <2>2, TakeOverGood, Zenon
  <2> QED
    BY <1>7, <2>3
<1>10. Good(r, x, NULL) /\ Assigned(w, r, n) /\ Shown(r)[n] = ValueOf(w, z)
  BY <1>1, <1>9, SetSymbolGood
<1>11. Shown(r)[n] = Shown(m)[s]
  BY <1>5, <1>7, <1>9, <1>10 DEF Is, Shown, o
<1>12. Groups(r) = Parted(m, s) /\ Groups(w)[n] = Groups(m)[n] \ {s}
  BY <1>4, <1>6, <1>9, <1>10 DEF Alike, Assigned, Parted
<1>13. \A k \in Names : Shown(w)[k] = IF k = s THEN NoValue ELSE Shown(m)[k]
  BY <1>4, <1>6, <1>9 DEF Alike
<1>14. Shown(r) = [k \in Names |-> IF k \in Groups(w)[n] THEN Shown(r)[n] ELSE Shown(w)[k]]
  BY <1>10 DEF Assigned
<1>15. Shown(r) = [k \in Names |-> IF k = s THEN NoValue
                                   ELSE IF k \in Groups(m)[n] THEN Shown(m)[s] ELSE Shown(m)[k]]
  BY <1>11, <1>12, <1>13, <1>14
<1> QED
  BY <1>10, <1>12, <1>15 DEF Moved

(* SEPARATE_ARG_IF_REF of zval o, which becomes the zval of a name.        *)
LEMMA PassGood ==
  ASSUME NEW m, NEW x, Good(m, x, NULL), Few(x), NEW n \in Names,
         m.sym[n] # NULL => ~ IsRef(m, m.sym[n]), NEW o \in Ids, m.zv[o] # Free,
         NEW r, r = HashUpdate(SeparateArgIfRef(m, o), n, ArgOf(m, o))
  PROVE  Good(r, x, NULL) /\ Assigned(m, r, n)
<1> DEFINE z == NewZval(m)
<1>1. /\ z \in Ids /\ m.zv[z] = Free /\ NULL \notin Ids /\ m \in Memory /\ Owned(m)
      /\ x \in [Ids -> Nat] /\ m.sym \in [Names -> Ids \cup {NULL}] /\ HasBuf(m)
  BY Roomed, ZendAssumption, MemoryFields DEF Good
<1>2. CASE IsRef(m, o)
  <2> DEFINE q == CopyTo(m, z, o, 1, Off)
  <2> HIDE DEF z
  <2>1. z # o /\ ~ IsString(m, z)
    BY <1>1, FreeIsNone DEF IsString
  <2>2. MakeCopyZval(m, o, z) = q
    BY <1>1, <2>1, MakeCopyIs
  <2>3. r = HashUpdate(q, n, z)
    BY <1>2, <2>2 DEF SeparateArgIfRef, ArgOf, z
  <2> HIDE DEF q
  <2>4. Good(q, x, z) /\ Alike(m, q) /\ Is(q, z, ValueOf(m, o), 1, Off)
    BY <1>1, <2>1, CopyGood DEF q
  <2>5. q.zv[z].rc = 1 /\ q.sym = m.sym /\ \A y \in Ids : y # z => Same(m, q, y)
    <3>1. q.sym = m.sym /\ \A y \in Ids : y # z => Same(m, q, y)
      BY <1>1, <2>1, Flags, CopyToIs DEF q
    <3> QED
      BY <2>4, <3>1 DEF Is
  <2>6. q.sym[n] # NULL => ~ IsRef(q, q.sym[n])
    <3>1. SUFFICES ASSUME m.sym[n] # NULL PROVE ~ IsRef(q, m.sym[n])
      BY <2>5
    <3>2. m.sym[n] \in Ids /\ m.sym[n] # z
      BY <1>1, <3>1, NamedLive
    <3> QED
      BY <2>5, <3>1, <3>2 DEF Same, IsRef
  <2>7. Good(r, x, NULL) /\ Assigned(q, r, n)
    BY <1>1, <2>3, <2>4, <2>5, <2>6, BecomesName
  <2> QED
    BY <2>4, <2>7, AlikeAssigned
<1>3. CASE ~ IsRef(m, o)
  <2> DEFINE q == AddRef(m, o)
  <2>1. r = HashUpdate(q, n, o) /\ o # NULL
    BY <1>1, <1>3 DEF SeparateArgIfRef, ArgOf
  <2>2. /\ Good(q, Plus(x, o), NULL) /\ q.sym = m.sym
        /\ \A y \in Ids : y # o => Same(m, q, y)
        /\ Is(q, o, ValueOf(m, o), m.zv[o].rc + 1, m.zv[o].ref)
    BY <1>1, AddRefGood
  <2> HIDE DEF q
  <2>3. q.zv[o] # Free /\ ValueOf(q, o) = ValueOf(m, o) /\ q.zv[o].ref = m.zv[o].ref
    BY <2>2, FreeIsNone DEF Is
  <2>4. \A y \in Ids : x[y] = Plus(x, o)[y] - (IF y = o THEN 1 ELSE 0)
    BY <1>1 DEF Plus
  <2>5. /\ Good(r, x, NULL) /\ r.sym = [q.sym EXCEPT ![n] = o]
        /\ \A y \in Ids : q.zv[y] # Free => Softer(q, r, y)
        /\ r.zv[o] # Free
    BY <1>1, <2>1, <2>2, <2>3, <2>4, HashUpdateGood
  <2>6. ASSUME NEW y \in Ids, m.zv[y] # Free PROVE Softer(m, r, y)
    <3>1. q.zv[y] # Free /\ ValueOf(q, y) = ValueOf(m, y) /\ q.zv[y].ref = m.zv[y].ref
      BY <2>2, <2>3, <2>6 DEF Same
    <3> QED
      BY <2>5, <3>1 DEF Softer
  <2>7. ~ IsRef(r, o)
    <3>1. Softer(m, r, o)
      BY <2>6
    <3>2. r.zv[o].ref = m.zv[o].ref \/ r.zv[o].ref = Off
      BY <2>5, <3>1 DEF Softer
    <3> QED
      BY <1>3, <3>2 DEF IsRef, Off
  <2>8. ASSUME NEW k \in Names, k # n, m.sym[k] # NULL
        PROVE  /\ m.sym[k] = o => ~ IsRef(r, o)
               /\ r.zv[m.sym[k]] # Free /\ Softer(m, r, m.sym[k])
    <3>1. m.sym[k] \in Ids /\ m.zv[m.sym[k]] # Free
      BY <2>8, NamedLive
    <3>2. r.sym[k] = m.sym[k]
      BY <1>1, <2>2, <2>5, <2>8
    <3>3. r.zv[m.sym[k]] # Free
      <4>1. Good(r, x, NULL)
        BY <2>5
      <4> QED
        BY <2>8, <3>2, <4>1, NamedLive
    <3> QED
      BY <2>6, <2>7, <3>1, <3>3
  <2>9. ValueOf(r, o) \in Values
    <3>1. r \in Memory /\ OwnedBut(r, NULL) /\ r.zv[o] # Free /\ o # NULL
      BY <1>1, <2>5 DEF Good, Owned
    <3> QED
      BY <3>1, ValueType
  <2>10. r.sym = [m.sym EXCEPT ![n] = o]
    BY <2>2, <2>5
  <2>11. Assigned(m, r, n)
    BY <1>1, <2>8, <2>9, <2>10, Rebound
  <2> QED
    BY <2>5, <2>11
<1> QED
  BY <1>2, <1>3

(* REPLACE_ZVAL_VALUE from another zval.                                   *)
LEMMA ReplaceGood ==
  ASSUME NEW m, NEW x, Good(m, x, NULL), Few(x), NEW n \in Names, m.sym[n] # NULL,
         NEW o \in Ids, m.zv[o] # Free, o # m.sym[n],
         NEW r, r = ReplaceByCopy(m, n, o)
  PROVE  Good(r, x, NULL) /\ Assigned(m, r, n)
<1> DEFINE q == SeparateIfNotRef(m, n)
           d == q.sym[n]
<1>1. HasZval(m) /\ HasBuf(m)
  BY Roomed
<1>2. /\ Good(q, x, NULL) /\ Alike(m, q) /\ Owns(q, n)
      /\ d \in Ids /\ q.zv[d] # Free
      /\ \A y \in Ids : m.zv[y] # Free => Keeps(m, q, y)
      /\ o # d
  BY <1>1, SeparateIfGood
<1> HIDE DEF d
<1>3. q \in Memory /\ Owned(q) /\ HasBuf(q) /\ q.zv[o] # Free /\ d = q.sym[n]
      /\ ValueOf(q, o) = ValueOf(m, o)
  BY <1>2, Roomed DEF Good, Keeps, d
<1>4. r = CopyTo(q, d, o, q.zv[d].rc, q.zv[d].ref)
  <2> HIDE DEF q
  <2>1. q = SeparateIfNotRef(m, n)
    BY DEF q
  <2>2. ReplaceByCopy(m, n, o) = CopyTo(q, d, o, q.zv[d].rc, q.zv[d].ref)
    <3>1. q \in Memory /\ Owned(q) /\ HasBuf(q) /\ q.zv[o] # Free
      BY <1>3
    <3>2. d \in Ids /\ d = q.sym[n] /\ d # o
      BY <1>2, <1>3
    <3> QED
      BY <2>1, <3>1, <3>2, ReplaceCopyIs
  <2> QED
    BY <2>2
<1> HIDE DEF q
<1>5. PICK c \in Nat, f \in BOOLEAN : c = q.zv[d].rc /\ f = q.zv[d].ref
  BY <1>2, <1>3, MemoryFields, CellFields
<1>6. /\ r \in Memory /\ Owned(r) /\ r.sym = q.sym
      /\ \A y \in Ids : y # d => Same(q, r, y)
      /\ Is(r, d, ValueOf(q, o), c, f)
  <2>1. r = CopyTo(q, d, o, c, f)
    BY <1>4, <1>5, Zenon
  <2>2. q \in Memory /\ Owned(q) /\ HasBuf(q) /\ q.zv[o] # Free
    BY <1>3
  <2>3. d \in Ids /\ d # o
    BY <1>2
  <2> QED
    BY <2>1, <2>2, <2>3, CopyToIs
<1>7. ValueOf(q, o) \in Values
  BY <1>3, ValueType, ZendAssumption DEF Owned
<1>8. Good(r, x, NULL) /\ Assigned(q, r, n)
  BY <1>2, <1>3, <1>5, <1>6, <1>7, OverwriteGood
<1> QED
  BY <1>2, <1>8, AlikeAssigned

(* REPLACE_ZVAL_VALUE from a result that is then freed.                    *)
LEMMA ReplaceByResultGood ==
  ASSUME NEW m, NEW x, Good(m, x, NULL), Few(x), NEW n \in Names, m.sym[n] # NULL,
         NEW v \in Values, NEW z, z = NewZval(m),
         NEW p, p = ZvalSet(Store(m, z, ZvalUsedForInit), z, v),
         NEW r, r = ReplaceByMove(p, n, z)
  PROVE  Good(r, x, NULL) /\ Assigned(m, r, n)
<1> DEFINE q == SeparateIfNotRef(p, n)
           d == q.sym[n]
<1>1. z \in Ids /\ Good(p, x, z) /\ Alike(m, p) /\ p.zv[z] # Free
  <2>1. z \in Ids /\ Good(p, x, z) /\ Alike(m, p)
    BY NewCells, NewValueGood
  <2> QED
    BY <2>1, ZendAssumption DEF Good
<1>2. p.sym[n] # NULL
  <2>1. Shown(p)[n] = Shown(m)[n] /\ Good(m, x, NULL)
    BY <1>1 DEF Alike
  <2>2. m.sym[n] \in Ids /\ m.zv[m.sym[n]] # Free /\ m \in Memory /\ OwnedBut(m, NULL)
    BY NamedLive DEF Good, Owned
  <2>3. ValueOf(m, m.sym[n]) \in Values
    BY <2>2, ValueType, ZendAssumption
  <2>4. NoValue \notin Values
    BY DEF NoValue, Values, NullValue, Written
  <2> QED
    BY <2>1, <2>3, <2>4 DEF Shown
<1>3. HasZval(p) /\ HasBuf(p)
  BY <1>1, Roomed
<1>4. /\ Good(q, x, z) /\ Alike(p, q) /\ Owns(q, n)
      /\ d \in Ids /\ q.zv[d] # Free /\ d # z /\ Keeps(p, q, z)
  BY <1>1, <1>2, <1>3, SeparateIfGood
<1> HIDE DEF d
<1>5. q \in Memory /\ Owned(q) /\ q.zv[z] # Free /\ d = q.sym[n]
  BY <1>4 DEF Good, Keeps, d
<1>6. r = MoveTo(q, d, z, q.zv[d].rc, q.zv[d].ref)
  <2> HIDE DEF q
  <2>1. q = SeparateIfNotRef(p, n)
    BY DEF q
  <2>2. ReplaceByMove(p, n, z) = MoveTo(q, d, z, q.zv[d].rc, q.zv[d].ref)
    <3>1. q \in Memory /\ Owned(q) /\ q.zv[z] # Free
      BY <1>5
    <3>2. d \in Ids /\ d = q.sym[n] /\ d # z /\ z \in Ids
      BY <1>1, <1>4, <1>5
    <3> QED
      BY <2>1, <3>1, <3>2, ReplaceMoveIs
  <2> QED
    BY <2>2
<1> HIDE DEF q
<1>7. PICK f \in BOOLEAN : f = q.zv[d].ref
  BY <1>4, <1>5, MemoryFields, CellFields
<1>8. /\ Good(r, x, NULL) /\ r.sym = q.sym
      /\ \A y \in Ids : y \notin {d, z} => Same(q, r, y)
      /\ Is(r, d, ValueOf(q, z), q.zv[d].rc, f)
  <2>1. r = MoveTo(q, d, z, q.zv[d].rc, f)
    BY <1>6, <1>7, Zenon
  <2>2. z \in Ids /\ Good(q, x, z)
    BY <1>1, <1>4
  <2>3. d \in Ids /\ d # z /\ q.zv[d] # Free
    BY <1>4
  <2> QED
    BY <2>1, <2>2, <2>3, MoveGood
<1>9. ValueOf(q, z) \in Values
  BY <1>1, <1>5, ValueType, ZendAssumption DEF Owned
<1>10. ASSUME NEW k \in Names, q.sym[k] # NULL, q.sym[k] # d
       PROVE  r.zv[q.sym[k]] # Free /\ Softer(q, r, q.sym[k])
  <2>1. q.sym[k] \in Ids /\ q.sym[k] # z /\ q.zv[q.sym[k]] # Free
    BY <1>4, <1>10, NamedLive
  <2> QED
    BY <1>8, <1>10, <2>1, SameSofter
<1>11. Assigned(q, r, n)
  <2>1. q.sym \in [Names -> Ids \cup {NULL}]
    BY <1>5, MemoryFields
  <2>2. r.zv[d].ref = q.zv[d].ref /\ ValueOf(r, d) \in Values
    BY <1>7, <1>8, <1>9 DEF Is
  <2> QED
    BY <1>4, <1>5, <1>8, <1>10, <2>1, <2>2, InPlace
<1>12. Assigned(p, r, n)
  BY <1>4, <1>11, AlikeAssigned
<1> QED
  BY <1>1, <1>8, <1>12, AlikeAssigned

(* A set name has a value, an unset one has none.                          *)
LEMMA SetShown ==
  ASSUME NEW m, NEW x, NEW e, Good(m, x, e), NEW n \in Names
  PROVE  /\ m.sym[n] = NULL => Shown(m)[n] = NoValue
         /\ m.sym[n] # NULL => Shown(m)[n] \in Values
         /\ NoValue \notin Values
<1>1. m.sym[n] = NULL => Shown(m)[n] = NoValue
  BY DEF Shown
<1>2. ASSUME m.sym[n] # NULL PROVE Shown(m)[n] \in Values
  <2>1. /\ m.sym[n] \in Ids /\ m.zv[m.sym[n]] # Free /\ m.sym[n] # NULL
        /\ m \in Memory /\ OwnedBut(m, NULL)
    BY <1>2, NamedLive DEF Good, Owned
  <2>2. ValueOf(m, m.sym[n]) \in Values
    BY <2>1, ValueType
  <2> QED
    BY <1>2, <2>2 DEF Shown
<1>3. NoValue \notin Values
  BY DEF NoValue, Values, NullValue, Written
<1> QED
  BY <1>1, <1>2, <1>3

(* zval_dtor and a new value.                                              *)
LEMMA ResetGood ==
  ASSUME NEW m, NEW x, Good(m, x, NULL), HasBuf(m), NEW n \in Names, Owns(m, n), NEW d \in Ids,
         d = m.sym[n], NEW v \in Values, NEW r, r = ZvalSet(ZvalDtor(m, d), d, v)
  PROVE  Good(r, x, NULL) /\ Assigned(m, r, n)
<1> DEFINE w == ZvalDtor(m, d)
<1>1. m \in Memory /\ Owned(m) /\ m.zv[d] # Free
  BY NamedLive DEF Good, Owns
<1>2. /\ w \in Memory /\ OwnedBut(w, d) /\ w.zv = m.zv /\ w.sym = m.sym
      /\ \A y \in Ids : y # d => Same(m, w, y)
      /\ HasBuf(w)
  BY <1>1, DtorOwned
<1> HIDE DEF w
<1>3. PICK c \in Nat, f \in BOOLEAN : c = m.zv[d].rc /\ f = m.zv[d].ref
  BY <1>1, MemoryFields, CellFields
<1>4. r = ZvalSet(w, d, v)
  BY DEF w
<1>5. /\ r \in Memory /\ Owned(r) /\ r.sym = m.sym
      /\ \A y \in Ids : y # d => Same(w, r, y)
      /\ Is(r, d, v, w.zv[d].rc, w.zv[d].ref)
  BY <1>1, <1>2, <1>4, SetIs
<1>6. Is(r, d, v, c, f)
  BY <1>2, <1>3, <1>5 DEF Is
<1>7. \A y \in Ids : y # d => Same(m, r, y)
  BY <1>2, <1>5 DEF Same
<1> QED
  BY <1>3, <1>5, <1>6, <1>7, OverwriteGood

(* A string is edited in its buffer.                                       *)
LEMMA EditGood ==
  ASSUME NEW m, NEW x, Good(m, x, NULL), NEW n \in Names, Owns(m, n), NEW d \in Ids, d = m.sym[n],
         NEW v \in Values, v.type = "string", IsString(m, d), NEW b, b = m.zv[d].val,
         NEW u \in Chunk, u.text = v.val, NEW r, r = Fill(m, b, u)
  PROVE  Good(r, x, NULL) /\ Assigned(m, r, n)
<1>1. m \in Memory /\ Owned(m) /\ m.zv[d] # Free /\ NULL \notin Ids
  BY NamedLive, ZendAssumption DEF Good, Owns
<1>2. b \in Bufs /\ m.buf[b] # Free
  BY <1>1, MemoryFields DEF Owned, OwnedBut
<1>3. /\ r \in Memory /\ r.zv = m.zv /\ r.sym = m.sym /\ r.buf = [m.buf EXCEPT ![b] = u]
  BY <1>1, <1>2, MemoryChunk
<1>4. r.buf[b] = u /\ u # Free /\ \A c \in Bufs : c # b => r.buf[c] = m.buf[c]
  <2>1. u # Free
    BY FreeIsNone
  <2>2. m.buf \in [Bufs -> Chunk \cup {Free}]
    BY <1>1, MemoryFields
  <2> QED
    BY <1>2, <1>3, <2>1, <2>2
<1>5. \A c \in Bufs : r.buf[c] = Free <=> m.buf[c] = Free
  BY <1>2, <1>4
<1>6. Owned(r)
  <2>1. \A z \in Ids : IsString(r, z) <=> IsString(m, z)
    BY <1>3 DEF IsString
  <2>2. \A z \in Ids : IsString(m, z) => m.zv[z].val \in Bufs
    BY <1>1, MemoryFields
  <2>3. ASSUME NEW z \in Ids, IsString(r, z)
        PROVE  /\ r.buf[r.zv[z].val] # Free
               /\ \A y \in Ids : IsString(r, y) /\ r.zv[y].val = r.zv[z].val => y = z
    <3>1. m.buf[m.zv[z].val] # Free /\ m.zv[z].val \in Bufs
      BY <1>1, <2>1, <2>2, <2>3 DEF Owned, OwnedBut
    <3>2. r.buf[r.zv[z].val] # Free
      BY <1>3, <1>5, <3>1
    <3>3. ASSUME NEW y \in Ids, IsString(r, y), r.zv[y].val = r.zv[z].val PROVE y = z
      BY <1>1, <1>3, <2>1, <2>3, <3>3 DEF Owned, OwnedBut
    <3> QED
      BY <3>2, <3>3
  <2>4. ASSUME NEW c \in Bufs, r.buf[c] # Free
        PROVE  \E z \in Ids : IsString(r, z) /\ r.zv[z].val = c
    <3>1. PICK z \in Ids : IsString(m, z) /\ m.zv[z].val = c
      BY <1>1, <1>5, <2>4 DEF Owned, OwnedBut
    <3> QED
      BY <1>3, <2>1, <3>1
  <2>5. NULL \notin Ids
    BY <1>1
  <2>6. \A c \in Bufs : r.buf[c] # Free =>
           \E z \in Ids : z # NULL /\ IsString(r, z) /\ r.zv[z].val = c
    BY <2>4, <2>5
  <2>7. OwnedBut(r, NULL)
    BY <2>3, <2>6, Zenon DEF OwnedBut
  <2> QED
    BY <2>7 DEF Owned
<1>7. ASSUME NEW y \in Ids, y # d PROVE Same(m, r, y)
  <2>1. IsString(m, y) => m.zv[y].val \in Bufs /\ m.zv[y].val # b
    BY <1>1, <1>7, MemoryFields DEF Owned, OwnedBut
  <2>2. IsString(m, y) => r.buf[m.zv[y].val] = m.buf[m.zv[y].val]
    BY <1>4, <2>1
  <2> QED
    BY <1>1, <1>3, <2>2, SameIf
<1>8. PICK c \in Nat, f \in BOOLEAN : c = m.zv[d].rc /\ f = m.zv[d].ref
  BY <1>1, MemoryFields, CellFields
<1>9. Is(r, d, v, c, f)
  <2>1. v = [type |-> "string", val |-> v.val]
    BY DEF Values, Written, NullValue
  <2>2. r.zv[d].type = "string" /\ r.zv[d] # Free /\ r.buf[r.zv[d].val].text = v.val
        /\ r.zv[d] \in Cell
    <3>1. m.zv[d].type = "string" /\ m.zv[d] \in Cell
      BY <1>1, MemoryFields DEF IsString
    <3>2. r.zv[d] = m.zv[d] /\ r.buf[r.zv[d].val] = u
      BY <1>3, <1>4
    <3> QED
      BY <1>1, <3>1, <3>2
  <2>3. ValueOf(r, d) = v
    <3>1. r \in Memory
      BY <1>3
    <3>2. ValueOf(r, d) = [type |-> "string", val |-> r.buf[r.zv[d].val].text]
      BY <2>2, <3>1, ValueIs
    <3> QED
      BY <2>1, <2>2, <3>2
  <2> QED
    BY <1>3, <1>8, <2>2, <2>3 DEF Is
<1>10. r \in Memory /\ r.sym = m.sym
  BY <1>3
<1> QED
  BY <1>6, <1>7, <1>8, <1>9, <1>10, OverwriteGood

NewText(c, t) == [c EXCEPT !.text = t]

LEMMA WriteInPlaceGood ==
  ASSUME NEW m, NEW x, Good(m, x, NULL), Few(x), NEW n \in Names, m.sym[n] # NULL,
         NEW v \in Values, NEW q, q = SeparateIfNotRef(m, n), NEW d, d = q.sym[n],
         NEW b, b = q.zv[d].val, NEW r,
         \/ r = ZvalSet(ZvalDtor(q, d), d, v)
         \/ v.type = "string" /\ IsString(q, d) /\ r = Fill(q, b, NewText(q.buf[b], v.val))
  PROVE  Good(r, x, NULL) /\ Assigned(m, r, n)
<1>1. HasZval(m) /\ HasBuf(m)
  BY Roomed
<1>2. Good(q, x, NULL) /\ Alike(m, q) /\ Owns(q, n) /\ d \in Ids
  BY <1>1, SeparateIfGood
<1>3. HasBuf(q)
  BY <1>2, Roomed
<1>4. Good(r, x, NULL) /\ Assigned(q, r, n)
  <2>1. CASE r = ZvalSet(ZvalDtor(q, d), d, v)
    BY <1>2, <1>3, <2>1, ResetGood
  <2>2. CASE /\ v.type = "string" /\ IsString(q, d)
             /\ r = Fill(q, b, NewText(q.buf[b], v.val))
    <3> DEFINE u == NewText(q.buf[b], v.val)
    <3>1. v.val \in Texts
      BY <2>2 DEF Values, Written, NullValue
    <3>2. q \in Memory /\ Owned(q) /\ NULL \notin Ids
      BY <1>2, ZendAssumption DEF Good
    <3>3. b \in Bufs /\ q.buf[b] # Free
      <4>1. b \in Bufs
        BY <1>2, <2>2, <3>2, MemoryFields
      <4>2. d # NULL
        BY <1>2, <3>2
      <4>3. q.buf[q.zv[d].val] # Free
        BY <1>2, <2>2, <3>2, <4>2 DEF Owned, OwnedBut
      <4> QED
        BY <4>1, <4>3
    <3>4. q.buf[b] \in Chunk
      BY <3>2, <3>3, MemoryFields
    <3>5. u \in Chunk /\ u.text = v.val
      BY <3>1, <3>4 DEF Chunk, NewText
    <3> HIDE DEF u
    <3>6. r = Fill(q, b, u)
      BY <2>2 DEF u
    <3> QED
      BY <1>2, <2>2, <3>5, <3>6, EditGood
  <2> QED
    BY <2>1, <2>2
<1> QED
  BY <1>2, <1>4, AlikeAssigned

(* SEPARATE_ZVAL.                                                          *)
LEMMA DetachGood ==
  ASSUME NEW m, NEW x, Good(m, x, NULL), Few(x), NEW n \in Names, m.sym[n] # NULL,
         NEW r, r = SeparateZval(m, n)
  PROVE  Good(r, x, NULL) /\ Groups(r) = Parted(m, n) /\ Shown(r) = Shown(m)
<1>1. HasZval(m) /\ HasBuf(m)
  BY Roomed
<1>2. m.sym[n] \in Ids /\ m.sym \in [Names -> Ids \cup {NULL}]
  BY NamedLive, MemoryFields DEF Good
<1>3. Good(r, x, NULL)
  <2>1. ASSUME NEW o \in Ids, o = m.sym[n], NEW d, d = r.sym[n]
        PROVE  /\ Good(r, x, NULL)
               /\ d \in Ids /\ d # NULL /\ r.zv[d] # Free /\ r.zv[d].rc = 1
               /\ d = o \/ (m.zv[d] = Free /\ r.zv[d].ref = Off)
               /\ ValueOf(r, d) = ValueOf(m, o)
               /\ r.sym = [m.sym EXCEPT ![n] = d]
               /\ \A y \in Ids : m.zv[y] # Free => Keeps(m, r, y)
    BY <1>1, <1>2, <2>1, SeparateGood
  <2> QED
    BY <1>2, <2>1
<1>4. Groups(r) = Parted(m, n) /\ Shown(r) = Shown(m)
  BY <1>1, SeparateSeen
<1> QED
  BY <1>3, <1>4

Removed(m, r, n) ==
  Groups(r) = Parted(m, n) /\ Shown(r) = [Shown(m) EXCEPT ![n] = NoValue]

LEMMA UnsetGood ==
  ASSUME NEW m, NEW x, Good(m, x, NULL), NEW n \in Names, m.sym[n] # NULL,
         NEW r, r = HashUpdate(m, n, NULL)
  PROVE  Good(r, x, NULL) /\ Removed(m, r, n)
<1>1. m.sym \in [Names -> Ids \cup {NULL}] /\ x \in [Ids -> Nat] /\ NULL \notin Ids
  BY MemoryFields, ZendAssumption DEF Good
<1>2. ASSUME NEW z \in Ids \cup {NULL}, z = NULL, r = HashUpdate(m, n, z)
      PROVE  /\ Good(r, x, NULL) /\ r.sym = [m.sym EXCEPT ![n] = z]
             /\ \A y \in Ids : m.zv[y] # Free => Softer(m, r, y)
  <2>1. \A y \in Ids : x[y] = x[y] - (IF y = z THEN 1 ELSE 0)
    BY <1>1, <1>2
  <2> QED
    BY <1>1, <1>2, <2>1, HashUpdateGood
<1>3. /\ Good(r, x, NULL) /\ r.sym = [m.sym EXCEPT ![n] = NULL]
      /\ \A y \in Ids : m.zv[y] # Free => Softer(m, r, y)
  BY <1>2
<1>4. /\ r.sym \in [Names -> Ids \cup {NULL}] /\ r.sym[n] = NULL
      /\ \A k \in Names : k # n => r.sym[k] = m.sym[k]
  BY <1>1, <1>3
<1>5. ASSUME NEW k \in Names, k # n, m.sym[k] # NULL
      PROVE  m.sym[k] # r.sym[n] /\ r.zv[m.sym[k]] # Free /\ Softer(m, r, m.sym[k])
  <2>1. m.sym[k] \in Ids /\ m.zv[m.sym[k]] # Free
    BY <1>5, NamedLive
  <2>2. r.zv[r.sym[k]] # Free
    <3>1. Good(r, x, NULL) /\ r.sym[k] # NULL
      BY <1>3, <1>4, <1>5
    <3> QED
      BY <3>1, NamedLive
  <2> QED
    BY <1>3, <1>4, <1>5, <2>1, <2>2
<1>6. Groups(r) = Parted(m, n)
  <2>1. \A k \in Names : k # n /\ m.sym[k] # NULL =>
           /\ m.sym[k] = r.sym[n] => ~ IsRef(r, r.sym[n])
           /\ r.zv[m.sym[k]] # Free /\ Softer(m, r, m.sym[k])
    BY <1>5
  <2> QED
    BY <1>4, <2>1, Departs
<1>7. \A k \in Names : Shown(r)[k] = IF k = n THEN NoValue ELSE Shown(m)[k]
  BY <1>4, <1>5 DEF Shown, Softer
<1>8. Shown(r) = [Shown(m) EXCEPT ![n] = NoValue]
  BY <1>7 DEF Shown
<1> QED
  BY <1>3, <1>6, <1>8 DEF Removed

(* ALLOC_INIT_ZVAL of an unset name.                                       *)
LEMMA CreateGood ==
  ASSUME NEW m, NEW x, Good(m, x, NULL), Few(x), NEW s \in Names, m.sym[s] = NULL,
         NEW z, z = NewZval(m), NEW r, r = Rename(Store(m, z, ZvalUsedForInit), s, z)
  PROVE  /\ Good(r, x, NULL) /\ Groups(r) = Groups(m) /\ r.sym[s] # NULL
         /\ \A k \in Names : Shown(r)[k] = IF k = s THEN NullValue ELSE Shown(m)[k]
<1> DEFINE p == Store(m, z, ZvalUsedForInit)
<1>1. z \in Ids /\ m.zv[z] = Free
  BY Roomed
<1>2. /\ Good(p, x, z) /\ p.sym = m.sym /\ p.zv[z] = ZvalUsedForInit
      /\ Is(p, z, NullValue, ZvalUsedForInit.rc, ZvalUsedForInit.ref)
  BY <1>1, NewCells, StartGood
<1>3. Alike(m, p)
  BY <1>1, NewCells, StartSeen
<1>4. p.zv[z].rc = 1 /\ ValueOf(p, z) = NullValue
  BY <1>2, NewCells DEF Is
<1> HIDE DEF p
<1>5. r = HashUpdate(p, s, z)
  <2>1. r = Rename(p, s, z)
    BY DEF p
  <2> QED
    BY <1>2, <2>1 DEF Rename, HashUpdate
<1>6. Good(r, x, NULL) /\ Assigned(p, r, s) /\ Shown(r)[s] = NullValue
  <2>1. p.sym[s] # NULL => ~ IsRef(p, p.sym[s])
    BY <1>2
  <2> QED
    BY <1>1, <1>2, <1>4, <1>5, <2>1, BecomesName
<1>7. Groups(m)[s] = {s}
  BY LeavesNone
<1>8. Groups(r) = Groups(m)
  BY <1>3, <1>6 DEF Alike, Assigned
<1>9. \A k \in Names : Shown(r)[k] = IF k = s THEN NullValue ELSE Shown(m)[k]
  BY <1>3, <1>6, <1>7 DEF Alike, Assigned
<1>10. r.sym[s] # NULL
  BY <1>6, SetShown DEF Values
<1> QED
  BY <1>6, <1>8, <1>9, <1>10

(* SEPARATE_ZVAL_TO_MAKE_IS_REF.                                           *)
LEMMA MakeRefGood ==
  ASSUME NEW m, NEW x, Good(m, x, NULL), Few(x), NEW n \in Names, m.sym[n] # NULL,
         NEW r, r = SeparateToMakeIsRef(m, n)
  PROVE  Good(r, x, NULL) /\ Alike(m, r) /\ r.sym[n] # NULL /\ r.zv[r.sym[n]].ref = On
<1> DEFINE o == m.sym[n]
<1>1. o \in Ids /\ m.zv[o] # Free /\ m \in Memory /\ m.sym \in [Names -> Ids \cup {NULL}]
  BY NamedLive, MemoryFields DEF Good
<1>2. CASE IsRef(m, o)
  <2>1. r = m
    BY <1>2 DEF SeparateToMakeIsRef
  <2>2. m.zv[o].ref = On
    <3>1. m.zv[o].ref \in BOOLEAN
      BY <1>1, MemoryFields, CellFields
    <3> QED
      BY <1>2, <3>1, Zenon DEF IsRef, On
  <2> QED
    BY <2>1, <2>2 DEF Alike
<1>3. CASE ~ IsRef(m, o)
  <2> DEFINE q == SeparateZval(m, n)
             d == q.sym[n]
  <2>1. HasZval(m) /\ HasBuf(m)
    BY Roomed
  <2>2. [q EXCEPT !.zv[d].ref = On] = r
    BY <1>3, Zenon DEF SeparateToMakeIsRef, On
  <2>3. /\ Good(q, x, NULL)
        /\ d \in Ids /\ d # NULL /\ q.zv[d] # Free /\ q.zv[d].rc = 1
        /\ d = o \/ (m.zv[d] = Free /\ q.zv[d].ref = Off)
        /\ ValueOf(q, d) = ValueOf(m, o)
        /\ q.sym = [m.sym EXCEPT ![n] = d]
        /\ \A y \in Ids : m.zv[y] # Free => Keeps(m, q, y)
    BY <1>1, <2>1, SeparateGood
  <2>4. /\ Groups(q) = Parted(m, n) /\ Shown(q) = Shown(m)
        /\ \A k \in Names : k # n => q.sym[k] # d /\ q.sym[k] = m.sym[k]
    BY <2>1, SeparateSeen
  <2> HIDE DEF q, d
  <2>5. d = q.sym[n]
    BY DEF d
  <2>6. q \in Memory /\ Owned(q) /\ q.zv[d] \in Cell
    BY <2>3, MemoryFields DEF Good
  <2>7. r = Store(q, d, Header(q.zv[d], q.zv[d].rc, On))
    <3>1. [q EXCEPT !.zv[d].ref = On] = Store(q, d, [q.zv[d] EXCEPT !.ref = On])
      BY Zenon DEF Store
    <3>2. \A c \in Cell : [c EXCEPT !.ref = On] = Header(c, c.rc, On)
      BY DEF Cell, Header
    <3> QED
      BY <2>2, <2>6, <3>1, <3>2
  <2>8. /\ r \in Memory /\ Owned(r) /\ r.sym = q.sym
        /\ \A y \in Ids : y # d => Same(q, r, y)
        /\ Is(r, d, ValueOf(q, d), 1, On)
    BY <2>3, <2>6, <2>7, Flags, HeaderIs
  <2>9. r.zv[d].rc = 1 /\ r.zv[d].ref = On /\ ValueOf(r, d) = ValueOf(q, d) /\ r.zv[d] # Free
    BY <2>8, FreeIsNone DEF Is
  <2>10. \A y \in Ids : /\ r.zv[y] = Free <=> q.zv[y] = Free
                        /\ y # NULL /\ q.zv[y] # Free => r.zv[y].rc = q.zv[y].rc
    BY <2>3, <2>8, <2>9 DEF Same
  <2>11. Good(r, x, NULL)
    BY <2>3, <2>8, <2>10, GoodValue
  <2>12. /\ r.sym \in [Names -> Ids \cup {NULL}] /\ r.sym[n] = d
         /\ \A k \in Names : k # n => r.sym[k] = m.sym[k] /\ r.sym[k] # d
    BY <1>1, <2>3, <2>4, <2>8
  <2>13. ASSUME NEW k \in Names, k # n, m.sym[k] # NULL
         PROVE  r.zv[m.sym[k]] # Free /\ Softer(m, r, m.sym[k])
    <3>1. m.sym[k] \in Ids /\ m.zv[m.sym[k]] # Free /\ m.sym[k] # d
      BY <2>12, <2>13, NamedLive
    <3>2. Keeps(m, q, m.sym[k]) /\ Same(q, r, m.sym[k])
      BY <2>3, <2>8, <3>1
    <3> QED
      BY <3>2 DEF Keeps, Same, Softer
  <2>14. Groups(r) = Parted(m, n)
    <3>1. \A k \in Names : k # n /\ m.sym[k] # NULL =>
             /\ m.sym[k] = r.sym[n] => ~ IsRef(r, r.sym[n])
             /\ r.zv[m.sym[k]] # Free /\ Softer(m, r, m.sym[k])
      BY <2>12, <2>13
    <3> QED
      BY <2>12, <3>1, Departs
  <2>15. Groups(r) = Groups(m)
    BY <1>3, <2>14, LeavesNone
  <2>16. \A k \in Names : Shown(r)[k] = Shown(m)[k]
    <3>1. \A k \in Names : k # n => Shown(r)[k] = Shown(m)[k]
      BY <2>12, <2>13 DEF Shown, Softer
    <3>2. Shown(r)[n] = Shown(m)[n]
      BY <2>3, <2>9, <2>12 DEF Shown
    <3> QED
      BY <3>1, <3>2
  <2>17. Shown(r) = Shown(m)
    BY <2>16 DEF Shown
  <2> QED
    BY <2>3, <2>9, <2>11, <2>12, <2>15, <2>17 DEF Alike
<1> QED
  BY <1>2, <1>3

BoundTo(m, r, n, s) ==
  LET G == Groups(m)[s] \cup {n}
      v == IF Shown(m)[s] = NoValue THEN NullValue ELSE Shown(m)[s]
  IN  /\ Groups(r) = [k \in Names |-> IF k \in G THEN G ELSE Parted(m, n)[k]]
      /\ Shown(r) = [k \in Names |-> IF k \in G THEN v ELSE Shown(m)[k]]

(* A second name for a reference.                                          *)
LEMMA JoinGood ==
  ASSUME NEW m, NEW x, Good(m, x, NULL), NEW n \in Names, NEW s \in Names, n # s, NEW d \in Ids,
         m.sym[s] = d, m.zv[d].ref = On, NEW r, r = HashUpdate(AddRef(m, d), n, d)
  PROVE  Good(r, x, NULL) /\ BoundTo(m, r, n, s)
<1> DEFINE q == AddRef(m, d)
<1>1. /\ x \in [Ids -> Nat] /\ m.sym \in [Names -> Ids \cup {NULL}] /\ d # NULL
  BY MemoryFields, ZendAssumption DEF Good
<1>2. m.zv[d] # Free
  BY <1>1, NamedLive
<1>3. /\ Good(q, Plus(x, d), NULL) /\ q.sym = m.sym
      /\ \A y \in Ids : y # d => Same(m, q, y)
      /\ Is(q, d, ValueOf(m, d), m.zv[d].rc + 1, m.zv[d].ref)
  BY <1>1, <1>2, AddRefGood
<1> HIDE DEF q
<1>4. r = HashUpdate(q, n, d)
  BY DEF q
<1>5. q.zv[d] # Free /\ ValueOf(q, d) = ValueOf(m, d) /\ q.zv[d].ref = m.zv[d].ref
  BY <1>3, FreeIsNone DEF Is
<1>6. /\ Good(r, x, NULL) /\ r.sym = [q.sym EXCEPT ![n] = d]
      /\ \A y \in Ids : q.zv[y] # Free => Softer(q, r, y)
      /\ r.zv[d] # Free
  <2>1. \A y \in Ids : x[y] = Plus(x, d)[y] - (IF y = d THEN 1 ELSE 0)
    BY <1>1 DEF Plus
  <2> QED
    BY <1>1, <1>3, <1>4, <1>5, <2>1, HashUpdateGood
<1>7. /\ r.sym \in [Names -> Ids \cup {NULL}] /\ r.sym[n] = d
      /\ \A k \in Names : k # n => r.sym[k] = m.sym[k]
  BY <1>1, <1>3, <1>6
<1>8. ASSUME NEW y \in Ids, m.zv[y] # Free PROVE Softer(m, r, y)
  <2>1. q.zv[y] # Free /\ ValueOf(q, y) = ValueOf(m, y) /\ q.zv[y].ref = m.zv[y].ref
    BY <1>3, <1>5, <1>8 DEF Same
  <2> QED
    BY <1>6, <2>1 DEF Softer
<1>9. ValueOf(r, d) = ValueOf(m, d) /\ IsRef(r, d) /\ IsRef(m, d)
  <2>1. Count(r.sym, d) > 1 /\ Count(r.sym, d) \in Nat
    BY <1>7, CountTwo, Counts
  <2>2. Softer(m, r, d)
    BY <1>2, <1>8
  <2>3. r.zv[d].ref = On /\ ValueOf(r, d) = ValueOf(m, d)
    BY <1>6, <2>1, <2>2 DEF Softer
  <2> QED
    BY <2>3, Zenon DEF IsRef, On
<1>10. ASSUME NEW k \in Names, k # n, m.sym[k] # NULL
       PROVE  r.zv[m.sym[k]] # Free /\ Softer(m, r, m.sym[k])
  <2>1. m.sym[k] \in Ids /\ m.zv[m.sym[k]] # Free
    BY <1>10, NamedLive
  <2>2. Good(r, x, NULL) /\ r.sym[k] # NULL /\ r.sym[k] = m.sym[k]
    BY <1>6, <1>7, <1>10
  <2>3. r.zv[r.sym[k]] # Free
    BY <2>2, NamedLive
  <2> QED
    BY <1>8, <2>1, <2>2, <2>3
<1> DEFINE G == Groups(m)[s] \cup {n}
<1>11. G = {k \in Names : r.sym[k] = d}
  <2>1. Groups(m)[s] = {k \in Names : m.sym[k] = d}
    BY <1>1, <1>9 DEF Groups, Joined
  <2> QED
    BY <1>7, <2>1
<1> HIDE DEF G
<1>12. ASSUME NEW k \in Names, k \in G
       PROVE  Groups(r)[k] = G /\ Shown(r)[k] = Shown(m)[s]
  BY <1>1, <1>9, <1>11, <1>12 DEF Groups, Joined, Shown
<1>13. ASSUME NEW k \in Names, k \notin G
       PROVE  Groups(r)[k] = Parted(m, n)[k] /\ Shown(r)[k] = Shown(m)[k]
  <2>1. k # n /\ r.sym[k] # d /\ r.sym[k] = m.sym[k]
    BY <1>7, <1>11, <1>13
  <2>2. /\ Shown(r)[k] = Shown(m)[k]
        /\ \A j \in Names : r.sym[j] = m.sym[j] => (Joined(r, j, k) <=> Joined(m, j, k))
    BY <1>7, <1>10, <2>1, Stays
  <2>3. ~ Joined(r, n, k)
    BY <1>7, <2>1 DEF Joined
  <2>4. {j \in Names : Joined(r, j, k)} = {j \in Names : Joined(m, j, k)} \ {n}
    BY <1>7, <2>2, <2>3
  <2> QED
    BY <2>1, <2>2, <2>4 DEF Groups, Parted
<1>14. Shown(m)[s] # NoValue
  BY <1>1, SetShown
<1>15. Groups(r) = [k \in Names |-> IF k \in G THEN G ELSE Parted(m, n)[k]]
  BY <1>12, <1>13 DEF Groups
<1>16. Shown(r) = [k \in Names |-> IF k \in G THEN Shown(m)[s] ELSE Shown(m)[k]]
  BY <1>12, <1>13 DEF Shown
<1> QED
  BY <1>6, <1>14, <1>15, <1>16 DEF BoundTo, G

(* $n = &$s.                                                               *)
LEMMA BindGood ==
  ASSUME NEW m, NEW x, Good(m, x, NULL), Few(x), NEW n \in Names, NEW s \in Names, n # s,
         NEW z, z = NewZval(m),
         NEW q, q = IF m.sym[s] # NULL THEN m ELSE Rename(Store(m, z, ZvalUsedForInit), s, z),
         NEW t, t = SeparateToMakeIsRef(q, s), NEW d, d = t.sym[s],
         NEW r, r = HashUpdate(AddRef(t, d), n, d)
  PROVE  Good(r, x, NULL) /\ BoundTo(m, r, n, s)
<1> DEFINE v == IF Shown(m)[s] = NoValue THEN NullValue ELSE Shown(m)[s]
<1>1. /\ Good(q, x, NULL) /\ Groups(q) = Groups(m) /\ q.sym[s] # NULL
      /\ \A k \in Names : Shown(q)[k] = IF k = s THEN v ELSE Shown(m)[k]
  <2>1. CASE m.sym[s] # NULL
    BY <2>1, SetShown
  <2>2. CASE m.sym[s] = NULL
    <3>1. Shown(m)[s] = NoValue
      BY <2>2 DEF Shown
    <3> QED
      BY <2>2, <3>1, CreateGood
  <2> QED
    BY <2>1, <2>2
<1> HIDE DEF v
<1>2. Good(t, x, NULL) /\ Alike(q, t) /\ t.sym[s] # NULL /\ t.zv[d].ref = On
  BY <1>1, MakeRefGood
<1>3. d \in Ids /\ t.sym[s] = d
  BY <1>2, NamedLive
<1>4. Good(r, x, NULL) /\ BoundTo(t, r, n, s)
  BY <1>2, <1>3, JoinGood
<1>5. Groups(t) = Groups(m) /\ Parted(t, n) = Parted(m, n)
  BY <1>1, <1>2 DEF Alike, Parted
<1>6. \A k \in Names : Shown(t)[k] = IF k = s THEN v ELSE Shown(m)[k]
  BY <1>1, <1>2 DEF Alike
<1>7. s \in Groups(m)[s] /\ Shown(t)[s] = v /\ v # NoValue
  BY <1>2, <1>6, SetShown DEF Groups, Joined
<1> DEFINE G == Groups(m)[s] \cup {n}
<1>8. Shown(r) = [k \in Names |-> IF k \in G THEN v ELSE Shown(t)[k]]
  BY <1>4, <1>5, <1>7 DEF BoundTo
<1>9. Shown(r) = [k \in Names |-> IF k \in G THEN v ELSE Shown(m)[k]]
  BY <1>6, <1>7, <1>8
<1>10. Groups(r) = [k \in Names |-> IF k \in G THEN G ELSE Parted(m, n)[k]]
  BY <1>4, <1>5 DEF BoundTo
<1> QED
  BY <1>4, <1>9, <1>10 DEF BoundTo, v

(***************************************************************************)
(* What the extension does                                                 *)
(***************************************************************************)

(* Counts and flags stay, and every value does.                            *)
LEMMA SameValuesGood ==
  ASSUME NEW m, NEW x, Good(m, x, NULL), NEW r \in Memory, Owned(r), r.sym = m.sym,
         NEW z \in Ids, m.zv[z] # Free, r.zv[z] # Free, ValueOf(r, z) = ValueOf(m, z),
         r.zv[z].rc = m.zv[z].rc, r.zv[z].ref = m.zv[z].ref,
         \A y \in Ids : y # z => Same(m, r, y)
  PROVE  Good(r, x, NULL) /\ Alike(m, r)
<1>1. \A y \in Ids : /\ r.zv[y] = Free <=> m.zv[y] = Free
                     /\ y # NULL /\ m.zv[y] # Free => r.zv[y].rc = m.zv[y].rc
  BY DEF Same
<1>2. Good(r, x, NULL)
  BY <1>1, GoodValue
<1>3. \A y \in Ids : m.zv[y] # Free => Softer(m, r, y)
  BY DEF Same, Softer
<1> QED
  BY <1>2, <1>3, UnseenSofter

(* A marked string moves to a new buffer.                                  *)
LEMMA MarkStringGood ==
  ASSUME NEW m, NEW x, Good(m, x, NULL), Few(x), NEW n \in Names, NEW r, r = MarkString(m, n)
  PROVE  Good(r, x, NULL) /\ Alike(m, r)
<1> DEFINE z == m.sym[n]
<1>1. CASE z = NULL \/ ~ IsString(m, z)
  BY <1>1 DEF MarkString, Alike
<1>2. CASE z # NULL /\ IsString(m, z)
  <2> DEFINE b == m.zv[z].val
             c == NewBuf(m)
             w == ZvalDtor(m, z)
             k == Content(m.zv[z], "string", c)
             t == m.buf[b].text
  <2>1. z \in Ids /\ m.zv[z] # Free /\ m \in Memory /\ Owned(m) /\ HasBuf(m) /\ NULL \notin Ids
    BY <1>2, NamedLive, Roomed, ZendAssumption DEF Good
  <2> HIDE DEF z
  <2>2. /\ m.zv[z] \in Cell /\ m.zv[z].type = "string" /\ b \in Bufs /\ m.buf[b] # Free
        /\ m.buf[b] \in Chunk /\ c \in Bufs /\ m.buf[c] = Free
    <3>1. m.zv[z] \in Cell /\ m.zv[z].type = "string" /\ b \in Bufs
      BY <1>2, <2>1, MemoryFields DEF IsString
    <3>2. m.buf[b] # Free
      BY <1>2, <2>1 DEF Owned, OwnedBut
    <3>3. m.buf[b] \in Chunk
      BY <2>1, <3>1, <3>2, MemoryFields
    <3> QED
      BY <2>1, <3>1, <3>2, <3>3, NewBufFree
  <2>3. t \in Texts /\ m.buf[b] = [type |-> "buf", text |-> t]
    BY <2>2 DEF Chunk
  <2>4. /\ w \in Memory /\ OwnedBut(w, z) /\ w.zv = m.zv /\ w.sym = m.sym
        /\ \A y \in Ids : y # z => Same(m, w, y)
    BY <2>1, DtorOwned
  <2>5. w = EFree(m, b) /\ w.buf = [m.buf EXCEPT ![b] = Free] /\ w.buf[c] = Free
    <3>1. w = EFree(m, b)
      BY <1>2 DEF ZvalDtor
    <3>2. EFree(m, b).buf = [m.buf EXCEPT ![b] = Free]
      BY <2>1 DEF EFree, Memory
    <3> QED
      BY <2>1, <2>2, <3>1, <3>2, MemoryFields
  <2>6. k \in Cell /\ k.type = "string" /\ k.val = c /\ k.rc = m.zv[z].rc /\ k.ref = m.zv[z].ref
    <3>1. m.zv[z] \in Cell
      BY <2>2
    <3>2. c \in Bufs
      BY <2>2
    <3> HIDE DEF c
    <3>3. c \in Bufs \cup Longs \cup {0}
      BY <3>2
    <3> QED
      BY <3>1, <3>2, <3>3, CellValue
  <2>7. [m.zv[z] EXCEPT !.val = c] = k
    BY <2>2 DEF Cell, Content
  <2>8. r = [EFree(m, b) EXCEPT !.buf[c] = m.buf[b], !.zv[z].val = c]
    BY <1>2, <2>1 DEF MarkString, z
  <2> HIDE DEF w, k, t, b, c
  <2>9. r = [w EXCEPT !.buf[c] = m.buf[b], !.zv[z].val = c]
    BY <2>5, <2>8
  <2>10. r = Store(Fill(w, c, m.buf[b]), z, [m.zv[z] EXCEPT !.val = c])
    BY <2>4, <2>9 DEF Store, Fill, Memory
  <2>11. /\ r \in Memory /\ r.sym = m.sym
         /\ r.zv = [w.zv EXCEPT ![z] = k] /\ r.buf = [w.buf EXCEPT ![c] = [type |-> "buf", text |-> t]]
    <3> DEFINE g == Fill(w, c, m.buf[b])
    <3>1. g \in Memory /\ g.zv = w.zv /\ g.sym = w.sym /\ g.buf = [w.buf EXCEPT ![c] = m.buf[b]]
      BY <2>2, <2>4, MemoryChunk
    <3>2. r = Store(g, z, k)
      BY <2>7, <2>10
    <3> HIDE DEF g
    <3>3. r \in Memory /\ r.zv = [g.zv EXCEPT ![z] = k] /\ r.buf = g.buf /\ r.sym = g.sym
      BY <2>1, <2>6, <3>1, <3>2, MemoryStore
    <3> QED
      BY <2>3, <2>4, <3>1, <3>3
  <2>12. /\ Owned(r)
         /\ \A y \in Ids : y # z => Same(w, r, y)
         /\ Is(r, z, [type |-> "string", val |-> t], k.rc, k.ref)
    <3>1. w \in Memory /\ OwnedBut(w, z) /\ w.buf[c] = Free /\ r \in Memory
      BY <2>4, <2>5, <2>11
    <3>2. c \in Bufs /\ t \in Texts /\ k \in Cell /\ k.type = "string" /\ k.val = c
      BY <2>2, <2>3, <2>6
    <3>3. r.zv = [w.zv EXCEPT ![z] = k] /\ r.buf = [w.buf EXCEPT ![c] = [type |-> "buf", text |-> t]]
      BY <2>11
    <3> QED
      BY <2>1, <3>1, <3>2, <3>3, StoreString
  <2>13. /\ r.zv[z] # Free /\ r.zv[z].rc = m.zv[z].rc /\ r.zv[z].ref = m.zv[z].ref
         /\ ValueOf(r, z) = [type |-> "string", val |-> t]
    BY <2>6, <2>12, FreeIsNone DEF Is
  <2>14. ValueOf(m, z) = [type |-> "string", val |-> t]
    BY <2>1, <2>2, ValueIs DEF t, b
  <2>15. \A y \in Ids : y # z => Same(m, r, y)
    BY <2>4, <2>12 DEF Same
  <2> QED
    BY <2>1, <2>11, <2>12, <2>13, <2>14, <2>15, SameValuesGood
<1> QED
  BY <1>1, <1>2

(* Every non-empty set of numbers has a least one.                         *)
LEMMA Least ==
  ASSUME NEW T, T \subseteq Nat, T # {}
  PROVE  \E k \in T : \A j \in T : k <= j
<1> DEFINE R == {ss \in Nat \X Nat : ss[1] < ss[2]}
<1>1. IsWellFoundedOn(R, Nat)
  BY NatLessThanWellFounded DEF OpToRel
<1> HIDE DEF R
<1>2. PICK k \in T : \A j \in T : ~ (<<j, k>> \in R)
  BY <1>1, WFMin
<1>3. \A j \in T : <<j, k>> \in R <=> j < k
  BY DEF R
<1>4. \A j \in T : ~ (j < k)
  BY <1>2, <1>3
<1>5. \A j \in T : k <= j
  <2> TAKE j \in T
  <2>1. ~ (j < k) /\ k \in Nat /\ j \in Nat
    BY <1>4
  <2> QED
    BY <2>1
<1> QED
  BY <1>5

(* The loop of php_taint_mark_strings over the first l variables.          *)
Marking(m, l, f) ==
  f = [i \in 0 .. l |-> IF i = 0 THEN m ELSE MarkString(f[i - 1], Tracked[i])]

LEMMA MarkingExists ==
  ASSUME NEW m, NEW l \in Nat
  PROVE  \E f : Marking(m, l, f)
<1> DEFINE T == {k \in Nat : ~ \E f : Marking(m, k, f)}
<1>1. SUFFICES ASSUME T # {} PROVE FALSE
  OBVIOUS
<1>2. PICK k \in T : \A j \in T : k <= j
  BY <1>1, Least
<1>3. CASE k = 0
  <2> DEFINE f == [i \in 0 .. 0 |-> m]
  <2>1. f = [i \in 0 .. 0 |-> IF i = 0 THEN m ELSE MarkString(f[i - 1], Tracked[i])]
    OBVIOUS
  <2> HIDE DEF f
  <2>2. Marking(m, k, f)
    BY <1>3, <2>1 DEF Marking
  <2> QED
    BY <2>2
<1>4. CASE k # 0
  <2>1. k \in Nat /\ k - 1 \in Nat /\ k - 1 \notin T
    BY <1>2, <1>4
  <2>2. PICK g : Marking(m, k - 1, g)
    BY <2>1
  <2> DEFINE f == [i \in 0 .. k |-> IF i = k THEN MarkString(g[k - 1], Tracked[k]) ELSE g[i]]
  <2>3. ASSUME NEW i \in 0 .. k
        PROVE  f[i] = IF i = 0 THEN m ELSE MarkString(f[i - 1], Tracked[i])
    <3>1. \A j \in 0 .. k - 1 : g[j] = IF j = 0 THEN m ELSE MarkString(g[j - 1], Tracked[j])
      BY <2>2 DEF Marking
    <3>2. CASE i = k
      BY <1>4, <2>1, <3>2
    <3>3. CASE i # k
      <4>1. i \in 0 .. k - 1 /\ f[i] = g[i] /\ (i # 0 => f[i - 1] = g[i - 1])
        BY <2>1, <3>3
      <4> QED
        BY <3>1, <4>1
    <3> QED
      BY <3>2, <3>3
  <2>4. f = [i \in 0 .. k |-> f[i]]
    OBVIOUS
  <2> HIDE DEF f
  <2>5. Marking(m, k, f)
    BY <2>3, <2>4 DEF Marking
  <2> QED
    BY <2>5
<1> QED
  BY <1>3, <1>4

LEMMA MarkedGood ==
  ASSUME NEW m, NEW x, Good(m, x, NULL), Few(x), NEW r, r = Marked(m)[Len(Tracked)]
  PROVE  Good(r, x, NULL) /\ Alike(m, r)
<1> DEFINE l == Len(Tracked)
           f == Marked(m)
<1>1. l \in Nat /\ \A i \in 1 .. l : Tracked[i] \in Names
  BY TaintAssumption
<1>2. Marking(m, l, f)
  <2>1. f = CHOOSE g : Marking(m, l, g)
    BY DEF Marked, Marking
  <2> HIDE DEF f
  <2> QED
    BY <1>1, <2>1, MarkingExists
<1> HIDE DEF f, l
<1>3. \A i \in 0 .. l : f[i] = IF i = 0 THEN m ELSE MarkString(f[i - 1], Tracked[i])
  BY <1>2 DEF Marking
<1> DEFINE T == {i \in 0 .. l : ~ (Good(f[i], x, NULL) /\ Alike(m, f[i]))}
<1>4. T = {}
  <2>1. SUFFICES ASSUME T # {} PROVE FALSE
    OBVIOUS
  <2>2. PICK i \in T : \A j \in T : i <= j
    <3>1. T \subseteq Nat
      BY <1>1
    <3> HIDE DEF T
    <3> QED
      BY <2>1, <3>1, Least
  <2>3. i \in 0 .. l /\ ~ (Good(f[i], x, NULL) /\ Alike(m, f[i]))
    OBVIOUS
  <2>4. CASE i = 0
    BY <1>3, <2>3, <2>4 DEF Alike
  <2>5. CASE i # 0
    <3>1. i - 1 \in 0 .. l /\ i - 1 \notin T
      BY <1>1, <2>2, <2>3, <2>5
    <3>2. Good(f[i - 1], x, NULL) /\ Alike(m, f[i - 1])
      BY <3>1
    <3>3. f[i] = MarkString(f[i - 1], Tracked[i]) /\ Tracked[i] \in Names
      BY <1>1, <1>3, <2>3, <2>5
    <3>4. Good(f[i], x, NULL) /\ Alike(f[i - 1], f[i])
      BY <3>2, <3>3, MarkStringGood
    <3> QED
      BY <2>3, <3>2, <3>4 DEF Alike
  <2> QED
    BY <2>4, <2>5
<1>5. l \in 0 .. l
  BY <1>1
<1> QED
  BY <1>4, <1>5 DEF f, l

LEMMA MinusAt ==
  ASSUME NEW x \in [Ids -> Nat], NEW z \in Ids, x[z] > 0
  PROVE  /\ Minus(x, z) \in [Ids -> Nat] /\ Minus(x, z)[z] = x[z] - 1
         /\ \A y \in Ids : y # z => Minus(x, z)[y] = x[y]
BY DEF Minus

(* taint_pzval_unlock_func: the lock is given up, or it becomes the        *)
(* reference that the handler has to free.                                 *)
LEMMA UnlockGood ==
  ASSUME NEW m, NEW x, Good(m, x, NULL), NEW z \in Ids, m.zv[z] # Free, x[z] > 0,
         NEW u, u = UnlockFunc(m, z), NEW r, r = u.mem
  PROVE  /\ Alike(m, r) /\ r.zv[z] # Free
         /\ \/ m.zv[z].rc = 1 /\ u.free = [var |-> z, tmp |-> FALSE] /\ Good(r, x, NULL)
            \/ m.zv[z].rc > 1 /\ u.free = NoFree /\ Good(r, Minus(x, z), NULL)
<1> DEFINE d == DelRef(m, z)
           c == m.zv[z].rc
<1>1. m \in Memory /\ Owned(m) /\ x \in [Ids -> Nat] /\ ExactAt(m, x, z) /\ NULL \notin Ids
  BY ZendAssumption DEF Good
<1>2. c \in Nat /\ c > 0 /\ c = Count(m.sym, z) + x[z] /\ Count(m.sym, z) \in Nat
  BY <1>1, Counts, MemoryFields DEF ExactAt
<1>3. c - 1 \in Nat /\ m.zv[z].ref \in BOOLEAN
  BY <1>1, <1>2, MemoryFields, CellFields
<1>4. d = Store(m, z, Header(m.zv[z], c - 1, m.zv[z].ref))
  BY <1>1, DelRefIs
<1> HIDE DEF d, c
<1>5. /\ d \in Memory /\ Owned(d) /\ d.sym = m.sym
      /\ \A y \in Ids : y # z => Same(m, d, y)
      /\ Is(d, z, ValueOf(m, z), c - 1, m.zv[z].ref)
  BY <1>1, <1>3, <1>4, HeaderIs
<1>6. d.zv[z] # Free /\ d.zv[z].rc = c - 1 /\ d.zv[z].ref = m.zv[z].ref
      /\ ValueOf(d, z) = ValueOf(m, z)
  BY <1>5, FreeIsNone DEF Is
<1>7. CASE c = 1
  <2>1. /\ u.mem = [d EXCEPT !.zv[z].rc = 1, !.zv[z].ref = FALSE]
        /\ u.free = [var |-> z, tmp |-> FALSE]
    BY <1>6, <1>7 DEF UnlockFunc, d
  <2>2. r = Reset(d, z, 1, Off)
    BY <2>1 DEF Reset, Off
  <2>3. r = Store(d, z, Header(d.zv[z], 1, Off))
    BY <1>5, <2>2, ReheadIs
  <2>4. /\ r \in Memory /\ Owned(r) /\ r.sym = d.sym
        /\ \A y \in Ids : y # z => Same(d, r, y)
        /\ Is(r, z, ValueOf(d, z), 1, Off)
    BY <1>5, <1>6, <2>3, Flags, HeaderIs
  <2>5. r.zv[z] # Free /\ r.zv[z].rc = 1 /\ r.zv[z].ref = Off /\ ValueOf(r, z) = ValueOf(m, z)
    BY <1>6, <2>4, FreeIsNone DEF Is
  <2>6. r.sym = m.sym /\ \A y \in Ids : y # z => Same(m, r, y)
    BY <1>5, <2>4 DEF Same
  <2>7. ExactAt(r, x, z)
    BY <1>2, <1>7, <2>5, <2>6 DEF ExactAt
  <2>8. Good(r, x, NULL)
    BY <1>1, <2>4, <2>6, <2>7, GoodCount
  <2>9. Count(r.sym, z) <= 1
    BY <1>2, <1>7, <2>6, <1>1
  <2>10. Softer(m, r, z)
    BY <2>5, <2>9 DEF Softer
  <2>11. ASSUME NEW y \in Ids, m.zv[y] # Free PROVE Softer(m, r, y)
    BY <2>6, <2>10, <2>11, SameSofter
  <2>12. Alike(m, r)
    BY <2>6, <2>8, <2>11, UnseenSofter
  <2> QED
    BY <1>7, <2>1, <2>5, <2>8, <2>12 DEF c
<1>8. CASE c # 1
  <2>1. PICK f \in BOOLEAN : f <=> (d.zv[z].ref /\ d.zv[z].rc # 1)
    OBVIOUS
  <2>2. /\ u.mem = [d EXCEPT !.zv[z].ref = @ /\ d.zv[z].rc # 1]
        /\ u.free = NoFree
    <3>1. d.zv[z].rc # 0
      BY <1>2, <1>6, <1>8
    <3> QED
      BY <3>1, Zenon DEF UnlockFunc, d
  <2>3. r = Store(m, z, Header(m.zv[z], c - 1, f))
    <3>1. r = [d EXCEPT !.zv[z].ref = f]
      <4>1. (d.zv[z].ref /\ d.zv[z].rc # 1) = f
        <5>1. d.zv[z].ref \in BOOLEAN
          BY <1>3, <1>6
        <5> QED
          BY <2>1, <5>1
      <4>2. [d EXCEPT !.zv[z].ref = @ /\ d.zv[z].rc # 1]
              = [d EXCEPT !.zv[z].ref = (d.zv[z].ref /\ d.zv[z].rc # 1)]
        BY Zenon
      <4> QED
        BY <2>2, <4>1, <4>2, Zenon
    <3>2. \A g \in BOOLEAN : [d EXCEPT !.zv[z].ref = g] = Store(m, z, Header(m.zv[z], c - 1, g))
      BY <1>1, DelRefIs DEF d, c
    <3> QED
      BY <3>1, <3>2, Zenon
  <2>4. /\ r \in Memory /\ Owned(r) /\ r.sym = m.sym
        /\ \A y \in Ids : y # z => Same(m, r, y)
        /\ Is(r, z, ValueOf(m, z), c - 1, f)
    BY <1>1, <1>3, <2>3, HeaderIs
  <2>5. r.zv[z] # Free /\ r.zv[z].rc = c - 1 /\ r.zv[z].ref = f /\ ValueOf(r, z) = ValueOf(m, z)
    BY <2>4, FreeIsNone DEF Is
  <2>6. /\ Minus(x, z) \in [Ids -> Nat] /\ Minus(x, z)[z] = x[z] - 1
        /\ \A y \in Ids : y # z => Minus(x, z)[y] = x[y]
    BY <1>1, MinusAt
  <2>7. ExactAt(r, Minus(x, z), z)
    BY <1>1, <1>2, <1>8, <2>4, <2>5, <2>6 DEF ExactAt
  <2>8. Good(r, Minus(x, z), NULL)
    BY <1>1, <2>4, <2>6, <2>7, GoodCount
  <2>9. Softer(m, r, z)
    <3>1. CASE c = 2
      <4>1. Count(r.sym, z) <= 1
        BY <1>1, <1>2, <2>4, <3>1
      <4>2. f = Off
        BY <1>6, <2>1, <3>1 DEF Off
      <4> QED
        BY <2>5, <4>1, <4>2 DEF Softer
    <3>2. CASE c # 2
      <4>1. d.zv[z].rc # 1
        BY <1>2, <1>6, <3>2
      <4>2. f = m.zv[z].ref
        BY <1>3, <1>6, <2>1, <4>1
      <4> QED
        BY <2>5, <4>2 DEF Softer
    <3> QED
      BY <3>1, <3>2
  <2>10. ASSUME NEW y \in Ids, m.zv[y] # Free PROVE Softer(m, r, y)
    BY <2>4, <2>9, <2>10, SameSofter
  <2>11. Alike(m, r)
    BY <2>4, <2>8, <2>10, UnseenSofter
  <2>12. c > 1
    BY <1>2, <1>8
  <2> QED
    BY <2>2, <2>5, <2>8, <2>11, <2>12 DEF c
<1> QED
  BY <1>7, <1>8

(* A variable that has been fetched is held once more.                     *)
LEMMA FetchGood ==
  ASSUME NEW m, NEW x, Good(m, x, NULL), NEW z \in Ids, m.zv[z] # Free, NEW r, r = AddRef(m, z)
  PROVE  Good(r, Plus(x, z), NULL) /\ Alike(m, r) /\ r.zv[z] # Free
<1>1. NULL \notin Ids
  BY ZendAssumption
<1>2. /\ Good(r, Plus(x, z), NULL) /\ r.sym = m.sym
      /\ \A y \in Ids : y # z => Same(m, r, y)
      /\ Is(r, z, ValueOf(m, z), m.zv[z].rc + 1, m.zv[z].ref)
  BY <1>1, AddRefGood
<1>3. r.zv[z] # Free /\ Softer(m, r, z)
  BY <1>2, FreeIsNone DEF Is, Softer
<1>4. ASSUME NEW y \in Ids, m.zv[y] # Free PROVE Softer(m, r, y)
  BY <1>2, <1>3, <1>4, SameSofter
<1>5. Alike(m, r)
  BY <1>2, <1>4, UnseenSofter
<1> QED
  BY <1>2, <1>3, <1>5

(* A temporary is held by the handler.                                     *)
LEMMA FetchTmpGood ==
  ASSUME NEW m, NEW x, Good(m, x, NULL), Few(x), NEW z, z = NewZval(m), NEW v \in Values,
         NEW r, r = ZvalSet(Store(m, z, ZvalUsedForInit), z, v)
  PROVE  /\ z \in Ids /\ Good(r, Plus(x, z), NULL) /\ Alike(m, r)
         /\ r.zv[z] # Free /\ r.zv[z].rc = 1 /\ x[z] = 0
<1>1. /\ ZvalUsedForInit \in Cell /\ ZvalUsedForInit.type = "null" /\ ZvalUsedForInit.rc = 1
  BY NewCells
<1>2. z \in Ids /\ Good(r, x, z) /\ Alike(m, r)
      /\ Is(r, z, v, ZvalUsedForInit.rc, ZvalUsedForInit.ref)
  BY <1>1, NewValueGood
<1>3. r.zv[z] # Free /\ r.zv[z].rc = 1
  BY <1>1, <1>2, FreeIsNone DEF Is
<1>4. Good(r, Plus(x, z), NULL)
  BY <1>2, <1>3, FinishGood
<1>5. x[z] = 0
  <2>1. z # NULL
    BY <1>2, ZendAssumption
  <2> QED
    BY <1>2, <2>1 DEF Good
<1> QED
  BY <1>2, <1>3, <1>4, <1>5

(* make_real_zval_ptr: the temporary becomes the value of a name.          *)
LEMMA AssignTmpGood ==
  ASSUME NEW m, NEW x, Good(m, x, NULL), Few(x), NEW n \in Names, NEW z \in Ids,
         m.zv[z] # Free, m.zv[z].rc = 1, x[z] > 0, NEW d, d = NewZval(m),
         NEW r, r = SetSymbol(FreeZval(MakeRealZvalPtr(m, z), z), n, d, 0, Off)
  PROVE  Good(r, Minus(x, z), NULL) /\ Assigned(m, r, n)
<1> DEFINE q == MoveTo(m, d, z, 1, Off)
<1>1. HasZval(m) /\ d \in Ids /\ m.zv[d] = Free /\ z # d /\ m \in Memory
      /\ x \in [Ids -> Nat] /\ NULL \notin Ids
  BY Roomed, ZendAssumption DEF Good
<1>2. FreeZval(MakeRealZvalPtr(m, z), z) = q
  BY <1>1, MakeRealIs
<1>3. r = SetSymbol(q, n, d, 0, Off)
  BY <1>2
<1> HIDE DEF q
<1>4. /\ Good(q, Minus(x, z), d) /\ q.sym = m.sym
      /\ \A y \in Ids : y \notin {d, z} => Same(m, q, y)
      /\ Is(q, d, ValueOf(m, z), 1, Off) /\ Count(m.sym, z) = 0
  BY <1>1, Flags, MoveOutGood DEF q
<1>5. ASSUME NEW k \in Names, m.sym[k] # NULL PROVE Same(m, q, m.sym[k])
  <2>1. m.sym[k] \in Ids /\ m.sym[k] # d
    BY <1>1, <1>5, NamedLive
  <2>2. m.sym[k] # z
    BY <1>1, <1>4, Counts, MemoryFields
  <2> QED
    BY <1>4, <2>1, <2>2
<1>6. Alike(m, q)
  BY <1>4, <1>5, UnseenSame
<1>7. q.zv[d].rc = 1
  BY <1>4 DEF Is
<1>8. Good(r, Minus(x, z), NULL) /\ Assigned(q, r, n)
  BY <1>1, <1>3, <1>4, <1>7, SetSymbolGood
<1> QED
  BY <1>6, <1>8, AlikeAssigned

(* taint_free_op of a temporary.                                           *)
LEMMA FreeTmpGood ==
  ASSUME NEW m, NEW x, Good(m, x, NULL), NEW z \in Ids, m.zv[z] # Free, m.zv[z].rc = 1, x[z] > 0,
         NEW r, r = FreeZval(ZvalDtor(m, z), z)
  PROVE  Good(r, Minus(x, z), NULL) /\ Alike(m, r)
<1>1. m \in Memory /\ Owned(m) /\ x \in [Ids -> Nat] /\ ExactAt(m, x, z) /\ NULL \notin Ids
      /\ m.sym \in [Names -> Ids \cup {NULL}]
  BY ZendAssumption, MemoryFields DEF Good
<1>2. Count(m.sym, z) = 0 /\ x[z] = 1
  <2>1. Count(m.sym, z) \in Nat /\ x[z] \in Nat
    BY <1>1, Counts
  <2> QED
    BY <1>1, <2>1 DEF ExactAt
<1>3. /\ r \in Memory /\ Owned(r) /\ r.sym = m.sym
      /\ \A y \in Ids : y # z => Same(m, r, y)
      /\ r.zv[z] = Free
  BY <1>1, DestroyedIs
<1>4. /\ Minus(x, z) \in [Ids -> Nat] /\ Minus(x, z)[z] = x[z] - 1
      /\ \A y \in Ids : y # z => Minus(x, z)[y] = x[y]
  BY <1>1, MinusAt
<1>5. ExactAt(r, Minus(x, z), z)
  BY <1>2, <1>3, <1>4 DEF ExactAt
<1>6. Good(r, Minus(x, z), NULL)
  BY <1>1, <1>3, <1>4, <1>5, GoodCount
<1>7. ASSUME NEW k \in Names, m.sym[k] # NULL PROVE Same(m, r, m.sym[k])
  <2>1. m.sym[k] \in Ids /\ m.sym[k] # z
    BY <1>1, <1>2, <1>7, NamedLive, Counts
  <2> QED
    BY <1>3, <2>1
<1>8. Alike(m, r)
  BY <1>3, <1>7, UnseenSame
<1> QED
  BY <1>6, <1>8

(***************************************************************************)
(* The inductive invariant                                                 *)
(***************************************************************************)

(* Those who hold zval z without a name: the lock of operand o, and what   *)
(* the handler has to free.                                                *)
HeldBy(o, f) ==
  [z \in Ids |-> (IF o.state = "locked" /\ o.z = z THEN 1 ELSE 0)
                 + (IF f.var = z THEN 1 ELSE 0)]

Held == HeldBy(op, freeOp)

(* The operand of the current handler: fetched, and then freed once.       *)
FreesVar(z) == freeOp = NoFree \/ freeOp = [var |-> z, tmp |-> FALSE]

OperandInv ==
  \/ op = NoOp /\ freeOp = NoFree
  \/ \E z \in Ids :
       \/ op = Operand(z, "locked") /\ freeOp = NoFree
       \/ op = Operand(z, "unlocked") /\ FreesVar(z) /\ zv[z] # Free
       \/ op = Operand(z, "temporary") /\ freeOp = [var |-> z, tmp |-> TRUE] /\ zv[z].rc = 1
       \/ op = Operand(z, "used") /\ FreesVar(z)

TaintInv == Good(memory, Held, NULL) /\ OperandInv

(* At most the operand is held without a name.                             *)
LEMMA HeldFew ==
  ASSUME OperandInv
  PROVE  Held \in [Ids -> Nat] /\ Few(Held)
<1>1. Held \in [Ids -> Nat]
  <2>1. ASSUME NEW z \in Ids
        PROVE  (IF op.state = "locked" /\ op.z = z THEN 1 ELSE 0)
               + (IF freeOp.var = z THEN 1 ELSE 0) \in Nat
    OBVIOUS
  <2> QED
    BY <2>1 DEF Held, HeldBy
<1>2. /\ NoOp.z = NULL /\ NoOp.state = "none" /\ NoFree.var = NULL
      /\ \A z, s : Operand(z, s).z = z /\ Operand(z, s).state = s
      /\ \A z, t : [var |-> z, tmp |-> t].var = z
  BY DEF NoOp, NoFree, Operand
<1>3. op.z \in Ids \cup {NULL} /\ freeOp.var \in {op.z, NULL}
  BY <1>2 DEF OperandInv, FreesVar
<1>4. ASSUME NEW z \in Ids, Held[z] > 0 PROVE z = op.z
  <2>1. Held[z] = (IF op.state = "locked" /\ op.z = z THEN 1 ELSE 0)
                  + (IF freeOp.var = z THEN 1 ELSE 0)
    BY DEF Held, HeldBy
  <2>2. op.z = z \/ freeOp.var = z
    BY <1>4, <2>1
  <2> QED
    BY <1>3, <2>2, ZendAssumption
<1> QED
  BY <1>1, <1>3, <1>4 DEF Few

LEMMA BecomesIs ==
  ASSUME NEW r \in Memory, Becomes(r)
  PROVE  memory' = r
BY MemoryFields DEF Becomes, memory

LEMMA MemoryIs == memory.zv = zv /\ memory.buf = buf /\ memory.sym = sym
BY DEF memory

(***************************************************************************)
(* The steps of a script                                                   *)
(***************************************************************************)
LEMMA SetVarStep ==
  ASSUME NEW x, Good(memory, x, NULL), Few(x), NEW n \in Names, NEW v \in Written, SetVar(n, v)
  PROVE  Good(memory', x, NULL) /\ Assigned(memory, memory', n)
<1> DEFINE z == NewZval(memory)
<1>1. PICK c \in Uninitialised :
        Becomes(SetSymbol(ZvalSet([memory EXCEPT !.zv[z] = c], z, v), n, z, 1, FALSE))
  BY DEF SetVar
<1> DEFINE r == SetSymbol(ZvalSet(Store(memory, z, c), z, v), n, z, 1, Off)
<1>2. Becomes(r)
  BY <1>1, Zenon DEF Store, Off
<1> HIDE DEF z
<1>3. Good(r, x, NULL) /\ Assigned(memory, r, n)
  BY SetVarGood DEF z
<1> HIDE DEF r
<1>4. memory' = r
  BY <1>2, <1>3, BecomesIs DEF Good
<1> QED
  BY <1>3, <1>4

LEMMA ReturnCopyStep ==
  ASSUME NEW x, Good(memory, x, NULL), Few(x), NEW n \in Names, NEW s \in Names, ReturnCopy(n, s)
  PROVE  Good(memory', x, NULL) /\ Assigned(memory, memory', n)
<1> DEFINE z == NewZval(memory)
           q == Store(memory, z, ZvalUsedForInit)
<1>1. q = [memory EXCEPT !.zv[z] = ZvalUsedForInit] /\ memory.sym = sym
  BY MemoryIs, Zenon DEF Store
<1>2. PICK r : /\ Becomes(r)
               /\ \/ r = SetSymbol(ZvalZval(q, z, memory.sym[s], TRUE, FALSE), n, z, 1, Off)
                  \/ r = SetSymbol(MakeCopyZval(q, memory.sym[s], z), n, z, 0, Off)
  BY <1>1, Zenon DEF ReturnCopy, Off
<1>3. memory.sym[s] # NULL
  BY <1>1 DEF ReturnCopy, IsSet
<1>4. Good(r, x, NULL) /\ Assigned(memory, r, n)
  BY <1>2, <1>3, ReturnCopyGood
<1>5. memory' = r
  BY <1>2, <1>4, BecomesIs DEF Good
<1> QED
  BY <1>4, <1>5

LEMMA ReturnLocalStep ==
  ASSUME NEW x, Good(memory, x, NULL), Few(x), NEW n \in Names, NEW s \in Names, ReturnLocal(n, s)
  PROVE  Good(memory', x, NULL) /\ Moved(memory, memory', n, s) /\ n # s
<1> DEFINE z == NewZval(memory)
           o == memory.sym[s]
           p == Rename(Store(memory, z, ZvalUsedForInit), s, NULL)
<1>1. n # s /\ o # NULL
  BY MemoryIs DEF ReturnLocal, IsSet
<1>2. p = [memory EXCEPT !.zv[z] = ZvalUsedForInit, !.sym[s] = NULL]
  BY Zenon DEF Store, Rename
<1>3. PICK w : /\ Becomes(SetSymbol(w, n, z, 1, Off))
               /\ \/ w = CopyPzvalToZval(p, z, o)
                  \/ w = ZvalZval(p, z, o, TRUE, TRUE)
                  \/ w = ZvalZval(p, z, o, FALSE, TRUE) /\ memory.zv[o].rc = 1
  <2> HIDE DEF p
  <2>1. \/ Becomes(SetSymbol(CopyPzvalToZval(p, z, o), n, z, 1, Off))
        \/ \E copy \in BOOLEAN : /\ copy \/ memory.zv[o].rc = 1
                                 /\ Becomes(SetSymbol(ZvalZval(p, z, o, copy, TRUE), n, z, 1, Off))
    BY <1>2, MemoryIs, Zenon DEF ReturnLocal, Off
  <2>2. CASE Becomes(SetSymbol(CopyPzvalToZval(p, z, o), n, z, 1, Off))
    BY <2>2, Zenon
  <2>3. CASE \E copy \in BOOLEAN :
               /\ copy \/ memory.zv[o].rc = 1
               /\ Becomes(SetSymbol(ZvalZval(p, z, o, copy, TRUE), n, z, 1, Off))
    <3>1. PICK copy \in BOOLEAN :
                 /\ copy \/ memory.zv[o].rc = 1
                 /\ Becomes(SetSymbol(ZvalZval(p, z, o, copy, TRUE), n, z, 1, Off))
      BY <2>3
    <3>2. copy = TRUE \/ copy = FALSE
      OBVIOUS
    <3>3. CASE copy = TRUE
      BY <3>1, <3>3, Zenon
    <3>4. CASE copy = FALSE
      BY <3>1, <3>4, Zenon
    <3> QED
      BY <3>2, <3>3, <3>4
  <2> QED
    BY <2>1, <2>2, <2>3
<1> DEFINE r == SetSymbol(w, n, z, 1, Off)
<1> HIDE DEF p
<1>4. Good(r, x, NULL) /\ Moved(memory, r, n, s)
  BY <1>1, <1>3, ReturnLocalGood DEF p
<1> HIDE DEF r
<1>5. Becomes(r)
  BY <1>3 DEF r
<1>6. memory' = r
  BY <1>4, <1>5, BecomesIs DEF Good
<1> QED
  BY <1>1, <1>4, <1>6

LEMMA PassValueStep ==
  ASSUME NEW x, Good(memory, x, NULL), Few(x), NEW n \in Names, NEW s \in Names, PassValue(n, s)
  PROVE  Good(memory', x, NULL) /\ Assigned(memory, memory', n)
<1> DEFINE o == memory.sym[s]
           r == HashUpdate(SeparateArgIfRef(memory, o), n, ArgOf(memory, o))
<1>1. /\ o # NULL /\ Becomes(r)
      /\ memory.sym[n] # NULL => ~ IsRef(memory, memory.sym[n])
  BY MemoryIs DEF PassValue, IsSet
<1>2. o \in Ids /\ memory.zv[o] # Free
  BY <1>1, NamedLive
<1> HIDE DEF o
<1>3. Good(r, x, NULL) /\ Assigned(memory, r, n)
  BY <1>1, <1>2, PassGood
<1> HIDE DEF r
<1>4. memory' = r
  BY <1>1, <1>3, BecomesIs DEF Good
<1> QED
  BY <1>3, <1>4

LEMMA ReplaceStep ==
  ASSUME NEW x, Good(memory, x, NULL), Few(x), NEW n \in Names, NEW s \in Names, Replace(n, s)
  PROVE  Good(memory', x, NULL) /\ Assigned(memory, memory', n)
<1> DEFINE o == memory.sym[s]
           r == ReplaceByCopy(memory, n, o)
<1>1. o # NULL /\ Becomes(r) /\ memory.sym[n] # NULL /\ o # memory.sym[n]
  BY MemoryIs, Zenon DEF Replace, IsSet, ReplaceByCopy
<1>2. o \in Ids /\ memory.zv[o] # Free
  BY <1>1, NamedLive
<1> HIDE DEF o
<1>3. Good(r, x, NULL) /\ Assigned(memory, r, n)
  BY <1>1, <1>2, ReplaceGood
<1> HIDE DEF r
<1>4. memory' = r
  BY <1>1, <1>3, BecomesIs DEF Good
<1> QED
  BY <1>3, <1>4

LEMMA ReplaceByResultStep ==
  ASSUME NEW x, Good(memory, x, NULL), Few(x), NEW n \in Names, NEW v \in Values,
         ReplaceByResult(n, v)
  PROVE  Good(memory', x, NULL) /\ Assigned(memory, memory', n)
<1> DEFINE z == NewZval(memory)
           p == ZvalSet(Store(memory, z, ZvalUsedForInit), z, v)
           r == ReplaceByMove(p, n, z)
<1>1. Becomes(r) /\ memory.sym[n] # NULL
  BY MemoryIs, Zenon DEF ReplaceByResult, IsSet, ReplaceByMove, Store
<1> HIDE DEF p
<1>2. Good(r, x, NULL) /\ Assigned(memory, r, n)
  BY <1>1, ReplaceByResultGood DEF p
<1> HIDE DEF r
<1>3. memory' = r
  BY <1>1, <1>2, BecomesIs DEF Good
<1> QED
  BY <1>2, <1>3

LEMMA BindRefStep ==
  ASSUME NEW x, Good(memory, x, NULL), Few(x), NEW n \in Names, NEW s \in Names, BindRef(n, s)
  PROVE  Good(memory', x, NULL) /\ BoundTo(memory, memory', n, s)
<1> DEFINE z == NewZval(memory)
           q == IF memory.sym[s] # NULL THEN memory ELSE Rename(Store(memory, z, ZvalUsedForInit), s, z)
           t == SeparateToMakeIsRef(q, s)
           d == t.sym[s]
           r == HashUpdate(AddRef(t, d), n, d)
<1>1. n # s
  BY DEF BindRef
<1>2. q = IF IsSet(s) THEN memory
          ELSE [memory EXCEPT !.zv[z] = ZvalUsedForInit, !.sym[s] = z]
  <2>1. IsSet(s) <=> memory.sym[s] # NULL
    BY MemoryIs DEF IsSet
  <2>2. Rename(Store(memory, z, ZvalUsedForInit), s, z)
          = [memory EXCEPT !.zv[z] = ZvalUsedForInit, !.sym[s] = z]
    BY Zenon DEF Rename, Store
  <2> QED
    BY <2>1, <2>2, Zenon
<1> HIDE DEF q
<1>3. Becomes(r)
  BY <1>2, Zenon DEF BindRef
<1> HIDE DEF t
<1>4. Good(r, x, NULL) /\ BoundTo(memory, r, n, s)
  BY <1>1, BindGood DEF q, t
<1> HIDE DEF r
<1>5. memory' = r
  BY <1>3, <1>4, BecomesIs DEF Good
<1> QED
  BY <1>4, <1>5

LEMMA WriteInPlaceStep ==
  ASSUME NEW x, Good(memory, x, NULL), Few(x), NEW n \in Names, NEW v \in Values,
         WriteInPlace(n, v)
  PROVE  Good(memory', x, NULL) /\ Assigned(memory, memory', n)
<1> DEFINE q == SeparateIfNotRef(memory, n)
           d == q.sym[n]
           b == q.zv[d].val
<1>1. memory.sym[n] # NULL
  BY MemoryIs DEF WriteInPlace, IsSet
<1>2. PICK r : /\ Becomes(r)
               /\ \/ r = ZvalSet(ZvalDtor(q, d), d, v)
                  \/ v.type = "string" /\ IsString(q, d) /\ r = Fill(q, b, NewText(q.buf[b], v.val))
  <2>1. Fill(q, b, NewText(q.buf[b], v.val)) = [q EXCEPT !.buf[b].text = v.val]
    BY Zenon DEF Fill, NewText
  <2> QED
    BY <2>1, Zenon DEF WriteInPlace
<1> HIDE DEF q
<1>3. Good(r, x, NULL) /\ Assigned(memory, r, n)
  BY <1>1, <1>2, WriteInPlaceGood DEF q
<1>4. memory' = r
  BY <1>2, <1>3, BecomesIs DEF Good
<1> QED
  BY <1>3, <1>4

LEMMA SeparateStep ==
  ASSUME NEW x, Good(memory, x, NULL), Few(x), NEW n \in Names, Separate(n)
  PROVE  Good(memory', x, NULL)
         /\ Groups(memory') = Parted(memory, n) /\ Shown(memory') = Shown(memory)
<1> DEFINE r == SeparateZval(memory, n)
<1>1. Becomes(r) /\ memory.sym[n] # NULL
  BY MemoryIs DEF Separate, IsSet
<1>2. Good(r, x, NULL) /\ Groups(r) = Parted(memory, n) /\ Shown(r) = Shown(memory)
  BY <1>1, DetachGood
<1> HIDE DEF r
<1>3. memory' = r
  BY <1>1, <1>2, BecomesIs DEF Good
<1> QED
  BY <1>2, <1>3

LEMMA UnsetStep ==
  ASSUME NEW x, Good(memory, x, NULL), NEW n \in Names, Unset(n)
  PROVE  Good(memory', x, NULL) /\ Removed(memory, memory', n)
<1> DEFINE r == HashUpdate(memory, n, NULL)
<1>1. memory.sym[n] # NULL
  BY MemoryIs DEF Unset, IsSet
<1>2. r = [ZvalPtrDtor(memory, sym[n]) EXCEPT !.sym[n] = NULL]
  BY <1>1, MemoryIs DEF HashUpdate
<1>3. Becomes(r)
  BY <1>2, Zenon DEF Unset
<1>4. Good(r, x, NULL) /\ Removed(memory, r, n)
  BY <1>1, UnsetGood
<1> HIDE DEF r
<1>5. memory' = r
  BY <1>3, <1>4, BecomesIs DEF Good
<1> QED
  BY <1>4, <1>5

(***************************************************************************)
(* The steps of the extension                                              *)
(***************************************************************************)
Nobody == [y \in Ids |-> 0]
Holder(z) == [y \in Ids |-> IF y = z THEN 1 ELSE 0]

LEMMA Holding ==
  ASSUME NEW z \in Ids
  PROVE  /\ Holder(z) \in [Ids -> Nat] /\ Holder(z)[z] = 1 /\ Nobody[z] = 0
         /\ Plus(Nobody, z) = Holder(z) /\ Minus(Holder(z), z) = Nobody
BY DEF Holder, Nobody, Plus, Minus

LEMMA HeldByIs ==
  /\ HeldBy(NoOp, NoFree) = Nobody
  /\ \A z \in Ids :
       /\ HeldBy(Operand(z, "locked"), NoFree) = Holder(z)
       /\ \A s \in {"unlocked", "temporary", "used"} :
            /\ HeldBy(Operand(z, s), NoFree) = Nobody
            /\ \A t : HeldBy(Operand(z, s), [var |-> z, tmp |-> t]) = Holder(z)
<1>1. /\ NoOp.z = NULL /\ NoOp.state = "none" /\ NoFree.var = NULL
      /\ \A z, s : Operand(z, s).z = z /\ Operand(z, s).state = s
      /\ \A z, t : [var |-> z, tmp |-> t].var = z
  BY DEF NoOp, NoFree, Operand
<1>2. HeldBy(NoOp, NoFree) = Nobody
  BY <1>1, ZendAssumption DEF HeldBy, Nobody
<1>3. ASSUME NEW z \in Ids PROVE HeldBy(Operand(z, "locked"), NoFree) = Holder(z)
  BY <1>1, ZendAssumption DEF HeldBy, Holder
<1>4. ASSUME NEW z \in Ids, NEW s \in {"unlocked", "temporary", "used"}
      PROVE  HeldBy(Operand(z, s), NoFree) = Nobody
  <2>1. s # "locked"
    OBVIOUS
  <2> QED
    BY <1>1, <2>1, ZendAssumption DEF HeldBy, Nobody
<1>5. ASSUME NEW z \in Ids, NEW s \in {"unlocked", "temporary", "used"}, NEW t
      PROVE  HeldBy(Operand(z, s), [var |-> z, tmp |-> t]) = Holder(z)
  <2>1. s # "locked"
    OBVIOUS
  <2> QED
    BY <1>1, <2>1 DEF HeldBy, Holder
<1> QED
  BY <1>2, <1>3, <1>4, <1>5

(* The states of an operand tell its cases apart.                          *)
LEMMA OperandCases ==
  ASSUME OperandInv
  PROVE  /\ op = NoOp => freeOp = NoFree
         /\ ~ Handling => op = NoOp \/ op.state = "locked"
         /\ op.state = "locked" =>
              \E z \in Ids : op = Operand(z, "locked") /\ freeOp = NoFree
         /\ op.state = "unlocked" =>
              \E z \in Ids : op = Operand(z, "unlocked") /\ FreesVar(z) /\ zv[z] # Free
         /\ op.state = "temporary" =>
              \E z \in Ids : /\ op = Operand(z, "temporary") /\ zv[z].rc = 1
                             /\ freeOp = [var |-> z, tmp |-> TRUE]
         /\ op.state = "used" =>
              \E z \in Ids : op = Operand(z, "used") /\ FreesVar(z)
<1>1. /\ NoOp.state = "none"
      /\ \A z, s : Operand(z, s).state = s
  BY DEF NoOp, Operand
<1>2. CASE op = NoOp /\ freeOp = NoFree
  BY <1>1, <1>2
<1>3. CASE \E z \in Ids : op = Operand(z, "locked") /\ freeOp = NoFree
  BY <1>1, <1>3
<1>4. CASE \E z \in Ids : op = Operand(z, "unlocked") /\ FreesVar(z) /\ zv[z] # Free
  BY <1>1, <1>4 DEF Handling
<1>5. CASE \E z \in Ids : /\ op = Operand(z, "temporary") /\ zv[z].rc = 1
                          /\ freeOp = [var |-> z, tmp |-> TRUE]
  <2>1. op.state = "temporary"
    BY <1>1, <1>5
  <2>2. op # NoOp /\ Handling
    BY <1>1, <2>1 DEF Handling
  <2> QED
    BY <1>5, <2>1, <2>2, Zenon
<1>6. CASE \E z \in Ids : op = Operand(z, "used") /\ FreesVar(z)
  BY <1>1, <1>6 DEF Handling
<1> QED
  BY <1>2, <1>3, <1>4, <1>5, <1>6 DEF OperandInv

(* A zval that is held is alive.                                           *)
LEMMA HeldLive ==
  ASSUME NEW m, NEW x, Good(m, x, NULL), NEW z \in Ids, x[z] > 0
  PROVE  m.zv[z] # Free
BY ZendAssumption DEF Good, ExactAt

(* Steps of others leave the operand alone.                                *)
LEMMA OperandStays ==
  ASSUME TaintInv, ~ Handling, UNCHANGED <<op, freeOp>>, Good(memory', Held, NULL)
  PROVE  TaintInv'
<1>1. Held' = Held
  BY DEF Held
<1>2. (op = NoOp /\ freeOp = NoFree)
      \/ \E z \in Ids : op = Operand(z, "locked") /\ freeOp = NoFree
  BY OperandCases DEF TaintInv
<1>3. OperandInv'
  BY <1>2 DEF OperandInv
<1> QED
  BY <1>1, <1>3 DEF TaintInv

LEMMA MarkStringsStep ==
  ASSUME TaintInv, MarkStrings
  PROVE  TaintInv' /\ Alike(memory, memory')
<1> DEFINE r == Marked(memory)[Len(Tracked)]
<1>1. Becomes(r) /\ ~ Handling /\ UNCHANGED <<op, freeOp>>
  BY DEF MarkStrings
<1>2. Good(memory, Held, NULL) /\ Few(Held)
  BY HeldFew DEF TaintInv
<1>3. Good(r, Held, NULL) /\ Alike(memory, r)
  BY <1>2, MarkedGood
<1> HIDE DEF r
<1>4. memory' = r
  BY <1>1, <1>3, BecomesIs DEF Good
<1>5. Good(memory', Held, NULL) /\ Alike(memory, memory')
  BY <1>3, <1>4
<1> QED
  BY <1>1, <1>5, OperandStays

LEMMA FetchStep ==
  ASSUME TaintInv, NEW n \in Names, Fetch(n)
  PROVE  TaintInv' /\ Alike(memory, memory')
<1> DEFINE z == memory.sym[n]
           r == AddRef(memory, z)
<1>1. op = NoOp /\ freeOp = NoFree
  BY OperandCases DEF Fetch, TaintInv
<1>2. z # NULL /\ Becomes(r) /\ op' = Operand(z, "locked") /\ freeOp' = NoFree
  BY <1>1, MemoryIs DEF Fetch, IsSet
<1>3. Good(memory, Nobody, NULL)
  BY <1>1, HeldByIs DEF TaintInv, Held
<1>4. z \in Ids /\ memory.zv[z] # Free
  BY <1>2, <1>3, NamedLive
<1> HIDE DEF z
<1>5. Good(r, Holder(z), NULL) /\ Alike(memory, r)
  BY <1>3, <1>4, FetchGood, Holding
<1> HIDE DEF r
<1>6. memory' = r
  BY <1>2, <1>5, BecomesIs DEF Good
<1>7. Held' = Holder(z)
  BY <1>2, <1>4, HeldByIs DEF Held
<1>8. OperandInv'
  BY <1>2, <1>4 DEF OperandInv
<1> QED
  BY <1>5, <1>6, <1>7, <1>8 DEF TaintInv

LEMMA FetchTmpStep ==
  ASSUME TaintInv, NEW v \in Written, FetchTmp(v)
  PROVE  TaintInv' /\ Alike(memory, memory')
<1> DEFINE z == NewZval(memory)
           r == ZvalSet(Store(memory, z, ZvalUsedForInit), z, v)
<1>1. op = NoOp /\ freeOp = NoFree
  BY OperandCases DEF FetchTmp, TaintInv
<1>2. Becomes(r) /\ op' = Operand(z, "temporary") /\ freeOp' = [var |-> z, tmp |-> TRUE]
  BY Zenon DEF FetchTmp, Store
<1>3. Good(memory, Nobody, NULL) /\ Few(Nobody)
  BY <1>1, HeldByIs, HeldFew DEF TaintInv, Held
<1>4. v \in Values
  BY DEF Values
<1>5. /\ z \in Ids /\ Good(r, Plus(Nobody, z), NULL) /\ Alike(memory, r)
      /\ r.zv[z] # Free /\ r.zv[z].rc = 1
  BY <1>3, <1>4, FetchTmpGood
<1> HIDE DEF z
<1>6. Good(r, Holder(z), NULL)
  BY <1>5, Holding
<1> HIDE DEF r
<1>7. memory' = r
  BY <1>2, <1>6, BecomesIs DEF Good
<1>8. Held' = Holder(z)
  BY <1>2, <1>5, HeldByIs DEF Held
<1>9. zv'[z].rc = 1
  BY <1>5, <1>7 DEF memory
<1>10. OperandInv'
  BY <1>2, <1>5, <1>9 DEF OperandInv
<1> QED
  BY <1>5, <1>6, <1>7, <1>8, <1>10 DEF TaintInv

(* The states of a handler.                                                *)
LEMMA OperandNext ==
  ASSUME NEW z, NEW s, NEW t, op = Operand(z, s)
  PROVE  [op EXCEPT !.state = t] = Operand(z, t) /\ op.z = z /\ op.state = s
BY DEF Operand

LEMMA UnlockStep ==
  ASSUME TaintInv, Unlock
  PROVE  TaintInv' /\ Alike(memory, memory')
<1>1. PICK z \in Ids : op = Operand(z, "locked") /\ freeOp = NoFree
  BY OperandCases DEF Unlock, TaintInv
<1> DEFINE u == UnlockFunc(memory, z)
           r == u.mem
<1>2. Becomes(r) /\ freeOp' = u.free /\ op' = Operand(z, "unlocked")
  BY <1>1, OperandNext DEF Unlock
<1>3. Good(memory, Holder(z), NULL)
  BY <1>1, HeldByIs DEF TaintInv, Held
<1>4. Holder(z)[z] = 1 /\ Minus(Holder(z), z) = Nobody
  BY Holding
<1>5. memory.zv[z] # Free
  BY <1>3, <1>4, HeldLive
<1>6. /\ Alike(memory, r) /\ r.zv[z] # Free
      /\ \/ u.free = [var |-> z, tmp |-> FALSE] /\ Good(r, Holder(z), NULL)
         \/ u.free = NoFree /\ Good(r, Nobody, NULL)
  BY <1>3, <1>4, <1>5, UnlockGood
<1>7. r \in Memory
  BY <1>6 DEF Good
<1> HIDE DEF r, u
<1>8. memory' = r
  BY <1>2, <1>7, BecomesIs
<1>9. Good(memory', Held', NULL)
  <2>1. CASE u.free = [var |-> z, tmp |-> FALSE] /\ Good(r, Holder(z), NULL)
    BY <1>2, <1>8, <2>1, HeldByIs DEF Held
  <2>2. CASE u.free = NoFree /\ Good(r, Nobody, NULL)
    BY <1>2, <1>8, <2>2, HeldByIs DEF Held
  <2> QED
    BY <1>6, <2>1, <2>2
<1>10. OperandInv'
  <2>1. zv'[z] # Free
    BY <1>6, <1>8 DEF memory
  <2>2. FreesVar(z)'
    BY <1>2, <1>6 DEF FreesVar
  <2> QED
    BY <1>2, <2>1, <2>2 DEF OperandInv
<1> QED
  BY <1>6, <1>8, <1>9, <1>10 DEF TaintInv

LEMMA AssignOperandStep ==
  ASSUME TaintInv, NEW n \in Names, AssignOperand(n)
  PROVE  TaintInv' /\ (Alike(memory, memory') \/ Assigned(memory, memory', n))
<1>1. PICK z \in Ids : op = Operand(z, "unlocked") /\ FreesVar(z) /\ zv[z] # Free
  BY OperandCases DEF AssignOperand, TaintInv
<1>2. op' = Operand(z, "used") /\ freeOp' = freeOp /\ op.z = z
  BY <1>1, OperandNext DEF AssignOperand
<1>3. Good(memory, Held, NULL) /\ Few(Held) /\ memory.zv[z] # Free
  BY <1>1, HeldFew, MemoryIs DEF TaintInv
<1>4. Good(memory', Held, NULL) /\ (Alike(memory, memory') \/ Assigned(memory, memory', n))
  <2> DEFINE o == memory.sym[n]
  <2>1. CASE o # NULL /\ IsRef(memory, o) /\ o = z
    <3>1. Becomes(memory)
      BY <1>2, <2>1, MemoryIs DEF AssignOperand, IsSet
    <3>2. memory' = memory
      BY <1>3, <3>1, BecomesIs DEF Good
    <3> QED
      BY <1>3, <3>2 DEF Alike
  <2>2. CASE o # NULL /\ IsRef(memory, o) /\ o # z
    <3> DEFINE r == ReplaceByCopy(memory, n, z)
    <3>1. Becomes(r)
      BY <1>2, <2>2, MemoryIs DEF AssignOperand, IsSet, ReplaceByCopy
    <3>2. Good(r, Held, NULL) /\ Assigned(memory, r, n)
      BY <1>3, <2>2, ReplaceGood
    <3> HIDE DEF r
    <3>3. memory' = r
      BY <3>1, <3>2, BecomesIs DEF Good
    <3> QED
      BY <3>2, <3>3
  <2>3. CASE ~ (o # NULL /\ IsRef(memory, o))
    <3> DEFINE r == HashUpdate(SeparateArgIfRef(memory, z), n, ArgOf(memory, z))
    <3>1. Becomes(r)
      BY <1>2, <2>3, MemoryIs DEF AssignOperand, IsSet
    <3>2. Good(r, Held, NULL) /\ Assigned(memory, r, n)
      BY <1>3, <2>3, PassGood
    <3> HIDE DEF r
    <3>3. memory' = r
      BY <3>1, <3>2, BecomesIs DEF Good
    <3> QED
      BY <3>2, <3>3
  <2> QED
    BY <2>1, <2>2, <2>3
<1>5. Held' = Held
  <2>1. CASE freeOp = NoFree
    BY <1>1, <1>2, <2>1, HeldByIs DEF Held
  <2>2. CASE freeOp = [var |-> z, tmp |-> FALSE]
    BY <1>1, <1>2, <2>2, HeldByIs DEF Held
  <2> QED
    BY <1>1, <2>1, <2>2 DEF FreesVar
<1>6. OperandInv'
  <2>1. FreesVar(z)'
    BY <1>1, <1>2 DEF FreesVar
  <2> QED
    BY <1>2, <2>1 DEF OperandInv
<1> QED
  BY <1>4, <1>5, <1>6 DEF TaintInv

LEMMA AssignTmpStep ==
  ASSUME TaintInv, NEW n \in Names, AssignTmp(n)
  PROVE  TaintInv' /\ Assigned(memory, memory', n)
<1>1. PICK z \in Ids : /\ op = Operand(z, "temporary") /\ zv[z].rc = 1
                       /\ freeOp = [var |-> z, tmp |-> TRUE]
  BY OperandCases DEF AssignTmp, TaintInv
<1> DEFINE d == NewZval(memory)
           r == SetSymbol(FreeZval(MakeRealZvalPtr(memory, z), z), n, d, 0, Off)
<1>2. op.z = z /\ op' = Operand(z, "used") /\ freeOp' = NoFree
  BY <1>1, OperandNext DEF AssignTmp
<1>3. Becomes(r)
  BY <1>2, Zenon DEF AssignTmp, Off
<1>4. Good(memory, Holder(z), NULL)
  BY <1>1, HeldByIs DEF TaintInv, Held
<1>5. Few(Holder(z))
  BY <1>1, HeldByIs, HeldFew DEF TaintInv, Held
<1>6. Holder(z)[z] = 1 /\ Minus(Holder(z), z) = Nobody
  BY Holding
<1>7. memory.zv[z] # Free /\ memory.zv[z].rc = 1
  BY <1>1, <1>4, <1>6, HeldLive, MemoryIs
<1>8. Good(r, Nobody, NULL) /\ Assigned(memory, r, n)
  BY <1>4, <1>5, <1>6, <1>7, AssignTmpGood
<1> HIDE DEF r
<1>9. memory' = r
  BY <1>3, <1>8, BecomesIs DEF Good
<1>10. Held' = Nobody
  BY <1>2, HeldByIs DEF Held
<1>11. OperandInv'
  BY <1>2 DEF OperandInv, FreesVar
<1> QED
  BY <1>8, <1>9, <1>10, <1>11 DEF TaintInv

LEMMA FreeOperandStep ==
  ASSUME TaintInv, FreeOperand
  PROVE  TaintInv' /\ Alike(memory, memory')
<1> DEFINE r == FreeOp(memory, freeOp)
<1>1. Becomes(r) /\ op' = NoOp /\ freeOp' = NoFree
  BY DEF FreeOperand
<1>2. PICK z \in Ids, s \in {"unlocked", "temporary", "used"} :
        /\ op = Operand(z, s)
        /\ \/ FreesVar(z)
           \/ freeOp = [var |-> z, tmp |-> TRUE] /\ zv[z].rc = 1
  BY OperandCases DEF FreeOperand, Handling, TaintInv
<1>3. /\ NoFree.var = NULL /\ NULL \notin Ids
      /\ \A t : [var |-> z, tmp |-> t].var = z /\ [var |-> z, tmp |-> t].tmp = t
  BY ZendAssumption DEF NoFree
<1>4. Good(r, Nobody, NULL) /\ Alike(memory, r)
  <2>1. CASE freeOp = NoFree
    <3>1. r = memory
      BY <1>3, <2>1 DEF FreeOp
    <3>2. Good(memory, Nobody, NULL)
      BY <1>2, <2>1, HeldByIs DEF TaintInv, Held
    <3> QED
      BY <3>1, <3>2 DEF Alike
  <2>2. CASE freeOp # NoFree
    <3>1. PICK t : freeOp = [var |-> z, tmp |-> t]
                   /\ (t = FALSE \/ (t = TRUE /\ memory.zv[z].rc = 1))
      BY <1>2, <2>2, MemoryIs DEF FreesVar
    <3>2. Good(memory, Holder(z), NULL)
      BY <1>2, <3>1, HeldByIs DEF TaintInv, Held
    <3>3. Holder(z)[z] = 1 /\ Minus(Holder(z), z) = Nobody
      BY Holding
    <3>4. memory.zv[z] # Free /\ z # NULL
      BY <1>3, <3>2, <3>3, HeldLive
    <3>5. CASE t = FALSE
      <4>1. r = ZvalPtrDtor(memory, z)
        BY <1>3, <3>1, <3>4, <3>5 DEF FreeOp
      <4> HIDE DEF r
      <4> QED
        BY <3>2, <3>3, <3>4, <4>1, PtrDtorSeen
    <3>6. CASE t = TRUE /\ memory.zv[z].rc = 1
      <4>1. r = FreeZval(ZvalDtor(memory, z), z)
        BY <1>3, <3>1, <3>4, <3>6 DEF FreeOp
      <4> HIDE DEF r
      <4> QED
        BY <3>2, <3>3, <3>4, <3>6, <4>1, FreeTmpGood
    <3> QED
      BY <3>1, <3>5, <3>6
  <2> QED
    BY <2>1, <2>2
<1> HIDE DEF r
<1>5. memory' = r
  BY <1>1, <1>4, BecomesIs DEF Good
<1>6. Held' = Nobody
  BY <1>1, HeldByIs DEF Held
<1>7. OperandInv'
  BY <1>1 DEF OperandInv
<1> QED
  BY <1>4, <1>5, <1>6, <1>7 DEF TaintInv

(***************************************************************************)
(* The inductive invariant holds                                           *)
(***************************************************************************)

(* What a step can do to the variables a script sees.                      *)
Changed(m, r) ==
  \E n \in Names :
    \/ Assigned(m, r, n)
    \/ Groups(r) = Parted(m, n) /\ Shown(r) = Shown(m)
    \/ Removed(m, r, n)
    \/ \E s \in Names : BoundTo(m, r, n, s) \/ (n # s /\ Moved(m, r, n, s))

LEMMA ScriptStep ==
  ASSUME TaintInv, ~ Handling, ZendNext, UNCHANGED <<op, freeOp>>
  PROVE  TaintInv' /\ Changed(memory, memory')
<1>1. Good(memory, Held, NULL) /\ Few(Held)
  BY HeldFew DEF TaintInv
<1>2. PICK n \in Names :
        \/ \E v \in Written : SetVar(n, v)
        \/ \E v \in Values : ReplaceByResult(n, v) \/ WriteInPlace(n, v)
        \/ \E s \in Names :
             ReturnCopy(n, s) \/ ReturnLocal(n, s) \/ PassValue(n, s) \/ Replace(n, s) \/ BindRef(n, s)
        \/ Separate(n) \/ Unset(n)
  BY DEF ZendNext
<1>3. Good(memory', Held, NULL) /\ Changed(memory, memory')
  <2>1. CASE \E v \in Written : SetVar(n, v)
    <3>1. Good(memory', Held, NULL) /\ Assigned(memory, memory', n)
      BY <1>1, <2>1, SetVarStep
    <3> QED
      BY <3>1 DEF Changed
  <2>2. ASSUME NEW v \in Values, ReplaceByResult(n, v) \/ WriteInPlace(n, v)
        PROVE  Good(memory', Held, NULL) /\ Changed(memory, memory')
    <3>1. Good(memory', Held, NULL) /\ Assigned(memory, memory', n)
      BY <1>1, <2>2, ReplaceByResultStep, WriteInPlaceStep
    <3> QED
      BY <3>1 DEF Changed
  <2>3. ASSUME NEW s \in Names, ReturnCopy(n, s) \/ PassValue(n, s) \/ Replace(n, s)
        PROVE  Good(memory', Held, NULL) /\ Changed(memory, memory')
    <3>1. Good(memory', Held, NULL) /\ Assigned(memory, memory', n)
      BY <1>1, <2>3, ReturnCopyStep, PassValueStep, ReplaceStep
    <3> QED
      BY <3>1 DEF Changed
  <2>4. ASSUME NEW s \in Names, ReturnLocal(n, s)
        PROVE  Good(memory', Held, NULL) /\ Changed(memory, memory')
    <3>1. Good(memory', Held, NULL) /\ Moved(memory, memory', n, s) /\ n # s
      BY <1>1, <2>4, ReturnLocalStep
    <3> QED
      BY <3>1 DEF Changed
  <2>5. ASSUME NEW s \in Names, BindRef(n, s)
        PROVE  Good(memory', Held, NULL) /\ Changed(memory, memory')
    <3>1. Good(memory', Held, NULL) /\ BoundTo(memory, memory', n, s)
      BY <1>1, <2>5, BindRefStep
    <3> QED
      BY <3>1 DEF Changed
  <2>6. CASE Separate(n)
    <3>1. /\ Good(memory', Held, NULL)
          /\ Groups(memory') = Parted(memory, n) /\ Shown(memory') = Shown(memory)
      BY <1>1, <2>6, SeparateStep
    <3> QED
      BY <3>1 DEF Changed
  <2>7. CASE Unset(n)
    <3>1. Good(memory', Held, NULL) /\ Removed(memory, memory', n)
      BY <1>1, <2>7, UnsetStep
    <3> QED
      BY <3>1 DEF Changed
  <2> QED
    BY <1>2, <2>1, <2>2, <2>3, <2>4, <2>5, <2>6, <2>7
<1> QED
  BY <1>3, OperandStays

LEMMA TaintStep ==
  ASSUME TaintInv, [TaintNext]_taintVars
  PROVE  TaintInv' /\ (Alike(memory, memory') \/ Changed(memory, memory'))
<1>1. ASSUME NEW n \in Names, Assigned(memory, memory', n) PROVE Changed(memory, memory')
  BY <1>1 DEF Changed
<1>2. CASE ~ Handling /\ ZendNext /\ UNCHANGED <<op, freeOp>>
  BY <1>2, ScriptStep
<1>3. CASE MarkStrings
  BY <1>3, MarkStringsStep
<1>4. CASE Unlock
  BY <1>4, UnlockStep
<1>5. CASE FreeOperand
  BY <1>5, FreeOperandStep
<1>6. ASSUME NEW n \in Names, Fetch(n)
      PROVE  TaintInv' /\ (Alike(memory, memory') \/ Changed(memory, memory'))
  BY <1>6, FetchStep
<1>7. ASSUME NEW n \in Names, AssignOperand(n)
      PROVE  TaintInv' /\ (Alike(memory, memory') \/ Changed(memory, memory'))
  BY <1>1, <1>7, AssignOperandStep
<1>8. ASSUME NEW n \in Names, AssignTmp(n)
      PROVE  TaintInv' /\ (Alike(memory, memory') \/ Changed(memory, memory'))
  BY <1>1, <1>8, AssignTmpStep
<1>9. CASE \E v \in Written : FetchTmp(v)
  BY <1>9, FetchTmpStep
<1>10. CASE UNCHANGED taintVars
  <2>1. zv' = zv /\ buf' = buf /\ sym' = sym /\ op' = op /\ freeOp' = freeOp
    BY <1>10 DEF taintVars, zendVars
  <2>2. memory' = memory
    BY <2>1 DEF memory
  <2>3. Held' = Held
    BY <2>1 DEF Held
  <2>4. OperandInv'
    BY <2>1 DEF TaintInv, OperandInv, FreesVar
  <2>5. Good(memory', Held', NULL)
    BY <2>2, <2>3 DEF TaintInv
  <2>6. Alike(memory, memory')
    BY <2>2 DEF Alike
  <2> QED
    BY <2>4, <2>5, <2>6 DEF TaintInv
<1> QED
  BY <1>2, <1>3, <1>4, <1>5, <1>6, <1>7, <1>8, <1>9, <1>10 DEF TaintNext

LEMMA TaintStart ==
  ASSUME TaintInit
  PROVE  TaintInv /\ \A n \in Names : sym[n] = NULL
<1>1. /\ zv = [z \in Ids |-> Free] /\ buf = [b \in Bufs |-> Free] /\ sym = [n \in Names |-> NULL]
      /\ op = NoOp /\ freeOp = NoFree
  BY DEF TaintInit, ZendInit
<1>2. memory.zv = zv /\ memory.buf = buf /\ memory.sym = sym /\ memory \in Memory
  BY <1>1 DEF memory, Memory
<1>3. Owned(memory)
  BY <1>1, <1>2, FreeIsNone DEF Owned, OwnedBut, IsString
<1>4. Held = Nobody /\ Nobody \in [Ids -> Nat] /\ \A z \in Ids : Nobody[z] = 0
  <2>1. Held = Nobody
    BY <1>1, HeldByIs DEF Held
  <2> QED
    BY <2>1 DEF Nobody
<1>5. ASSUME NEW z \in Ids PROVE ExactAt(memory, Nobody, z)
  <2>1. sym \in [Names -> Ids \cup {NULL}] /\ \A n \in Names : sym[n] # z
    BY <1>1, ZendAssumption
  <2>2. Count(sym, z) = 0
    BY <2>1, Counts
  <2> QED
    BY <1>1, <1>2, <1>4, <2>2 DEF ExactAt
<1>6. Good(memory, Held, NULL)
  BY <1>2, <1>3, <1>4, <1>5 DEF Good
<1> QED
  BY <1>1, <1>6 DEF TaintInv, OperandInv

(***************************************************************************)
(* What follows from it                                                    *)
(***************************************************************************)
LEMMA CountsAreExact ==
  ASSUME TaintInv
  PROVE  RefcountsExact
<1>1. SUFFICES ASSUME NEW z \in Ids
               PROVE  IF zv[z] = Free THEN Holders(z) = 0
                      ELSE zv[z].rc = Holders(z) /\ zv[z].rc > 0
  BY DEF RefcountsExact
<1> DEFINE a == IF op.state = "locked" /\ op.z = z THEN 1 ELSE 0
           b == IF freeOp.var = z THEN 1 ELSE 0
<1>2. Good(memory, Held, NULL) /\ z # NULL
  BY ZendAssumption DEF TaintInv
<1>3. ExactAt(memory, Held, z) /\ memory.sym \in [Names -> Ids \cup {NULL}]
  BY <1>2, MemoryFields DEF Good
<1>4. Held[z] = a + b
  BY DEF Held, HeldBy
<1>5. a \in {0, 1} /\ b \in {0, 1}
  OBVIOUS
<1>6. Count(sym, z) \in Nat
  BY <1>3, Counts, MemoryIs
<1>7. Holders(z) = Count(sym, z) + a + b
  BY DEF Holders, Count
<1> HIDE DEF a, b
<1>8. Holders(z) = Count(sym, z) + Held[z]
  BY <1>4, <1>5, <1>6, <1>7
<1>9. IF zv[z] = Free THEN Count(sym, z) = 0 /\ Held[z] = 0
      ELSE zv[z].rc = Count(sym, z) + Held[z] /\ zv[z].rc > 0
  BY <1>3, MemoryIs DEF ExactAt
<1> QED
  BY <1>8, <1>9

LEMMA BuffersAreOwned ==
  ASSUME TaintInv
  PROVE  BuffersOwned
<1>1. memory \in Memory /\ OwnedBut(memory, NULL) /\ NULL \notin Ids
  BY ZendAssumption DEF TaintInv, Good, Owned
<1>2. SUFFICES ASSUME NEW b \in Bufs
               PROVE  Cardinality({z \in Ids : zv[z] # Free /\ zv[z].type = "string" /\ zv[z].val = b})
                        = IF buf[b] = Free THEN 0 ELSE 1
  BY DEF BuffersOwned
<1> DEFINE S == {z \in Ids : zv[z] # Free /\ zv[z].type = "string" /\ zv[z].val = b}
<1>3. \A z \in Ids : z \in S <=> IsString(memory, z) /\ memory.zv[z].val = b
  BY <1>1, MemoryFields, MemoryIs DEF IsString
<1>4. S \subseteq Ids
  OBVIOUS
<1> HIDE DEF S
<1>5. CASE buf[b] = Free
  <2>1. S = {}
    BY <1>1, <1>3, <1>4, <1>5, MemoryIs DEF OwnedBut
  <2> QED
    BY <1>5, <2>1, FS_EmptySet DEF S
<1>6. CASE buf[b] # Free
  <2>1. PICK z \in Ids : IsString(memory, z) /\ memory.zv[z].val = b
    BY <1>1, <1>6, MemoryIs DEF OwnedBut
  <2>2. \A y \in S : y = z
    BY <1>1, <1>3, <1>4, <2>1 DEF OwnedBut
  <2>3. S = {z}
    BY <1>3, <1>4, <2>1, <2>2
  <2> QED
    BY <1>6, <2>3, FS_Singleton DEF S
<1> QED
  BY <1>5, <1>6

(* Reference counts are exact for every number of names, addresses and     *)
(* values: no sequence of the macros of zend.h and zend_API.h, and of the  *)
(* lock, use and release of operands in php_taint.h and taint.c, frees a   *)
(* zval too early, twice or not at all.                                    *)
THEOREM RefcountsCorrect == TaintSpec => []RefcountsExact
<1>1. TaintInit => TaintInv
  BY TaintStart
<1>2. TaintInv /\ [TaintNext]_taintVars => TaintInv'
  BY TaintStep
<1> QED
  BY <1>1, <1>2, CountsAreExact, PTL DEF TaintSpec

(* Every string buffer in use belongs to exactly one string, whatever the  *)
(* macros copy, move, separate, mark and free.                             *)
THEOREM BuffersCorrect == TaintSpec => []BuffersOwned
<1>1. TaintInit => TaintInv
  BY TaintStart
<1>2. TaintInv /\ [TaintNext]_taintVars => TaintInv'
  BY TaintStep
<1> QED
  BY <1>1, <1>2, BuffersAreOwned, PTL DEF TaintSpec

(***************************************************************************)
(* The refinement                                                          *)
(***************************************************************************)

(* The variables of the script, as a function of the memory.               *)
LEMMA ViewIs ==
  /\ [n \in Names |-> IF IsSet(n) THEN ValueOf(memory, sym[n]) ELSE NoValue] = Shown(memory)
  /\ [n \in Names |-> {x \in Names : \/ x = n
                                     \/ IsSet(n) /\ sym[x] = sym[n] /\ zv[sym[n]].ref}]
       = Groups(memory)
  /\ [n \in Names |-> IF IsSet(n) THEN ValueOf(memory, sym[n]) ELSE NoValue]' = Shown(memory')
  /\ [n \in Names |-> {x \in Names : \/ x = n
                                     \/ IsSet(n) /\ sym[x] = sym[n] /\ zv[sym[n]].ref}]'
       = Groups(memory')
<1>1. /\ memory.zv = zv /\ memory.sym = sym
      /\ memory'.zv = zv' /\ memory'.sym = sym'
  BY DEF memory
<1>2. \A n \in Names : IsSet(n) <=> memory.sym[n] # NULL
  BY <1>1 DEF IsSet
<1>3. \A n \in Names : IsSet(n)' <=> memory'.sym[n] # NULL
  BY <1>1 DEF IsSet
<1>4. [n \in Names |-> IF IsSet(n) THEN ValueOf(memory, sym[n]) ELSE NoValue] = Shown(memory)
  BY <1>1, <1>2 DEF Shown
<1>5. [n \in Names |-> {x \in Names : \/ x = n
                                      \/ IsSet(n) /\ sym[x] = sym[n] /\ zv[sym[n]].ref}]
        = Groups(memory)
  BY <1>1, <1>2 DEF Groups, Joined, IsRef
<1>6. [n \in Names |-> IF IsSet(n) THEN ValueOf(memory, sym[n]) ELSE NoValue]' = Shown(memory')
  BY <1>1, <1>3 DEF Shown
<1>7. [n \in Names |-> {x \in Names : \/ x = n
                                      \/ IsSet(n) /\ sym[x] = sym[n] /\ zv[sym[n]].ref}]'
        = Groups(memory')
  BY <1>1, <1>3 DEF Groups, Joined, IsRef
<1> QED
  BY <1>4, <1>5, <1>6, <1>7

LEMMA AssignIs ==
  ASSUME NEW n \in Names, Assigned(memory, memory', n)
  PROVE  Variables!Assign(n)
BY ViewIs DEF Variables!Assign, Assigned

LEMMA DetachIs ==
  ASSUME NEW n \in Names, Groups(memory') = Parted(memory, n), Shown(memory') = Shown(memory)
  PROVE  Variables!Detach(n)
BY ViewIs DEF Variables!Detach, Variables!Alone, Parted

LEMMA RemoveIs ==
  ASSUME NEW n \in Names, Removed(memory, memory', n)
  PROVE  Variables!Remove(n)
BY ViewIs DEF Variables!Remove, Variables!Alone, Removed, Parted

LEMMA BindIs ==
  ASSUME NEW n \in Names, NEW s \in Names, BoundTo(memory, memory', n, s)
  PROVE  Variables!Bind(n, s)
BY ViewIs DEF Variables!Bind, Variables!Alone, BoundTo, Parted

LEMMA MoveIsMove ==
  ASSUME NEW n \in Names, NEW s \in Names, n # s, Moved(memory, memory', n, s)
  PROVE  Variables!Move(n, s)
BY ViewIs DEF Variables!Move, Variables!Alone, Moved, Parted

LEMMA AlikeStutters ==
  ASSUME Alike(memory, memory')
  PROVE  UNCHANGED Variables!vars
BY ViewIs DEF Variables!vars, Alike

LEMMA VariablesStep ==
  ASSUME Alike(memory, memory') \/ Changed(memory, memory')
  PROVE  [Variables!Next]_(Variables!vars)
<1>1. CASE Alike(memory, memory')
  BY <1>1, AlikeStutters
<1>2. CASE Changed(memory, memory')
  <2>1. PICK n \in Names :
          \/ Assigned(memory, memory', n)
          \/ Groups(memory') = Parted(memory, n) /\ Shown(memory') = Shown(memory)
          \/ Removed(memory, memory', n)
          \/ \E s \in Names : \/ BoundTo(memory, memory', n, s)
                              \/ n # s /\ Moved(memory, memory', n, s)
    BY <1>2 DEF Changed
  <2>2. \/ Variables!Assign(n) \/ Variables!Detach(n) \/ Variables!Remove(n)
        \/ \E s \in Names : Variables!Bind(n, s) \/ Variables!Move(n, s)
    BY <2>1, AssignIs, DetachIs, RemoveIs, BindIs, MoveIsMove
  <2> QED
    BY <2>2 DEF Variables!Next
<1> QED
  BY <1>1, <1>2

(* Copy on write works for every number of names: however they come to     *)
(* share zvals, a script sees variables of their own, and a write through  *)
(* one name reaches exactly the names bound to it by reference; marking,   *)
(* fetching, unlocking and freeing are not seen at all.                    *)
THEOREM VariablesImplemented == TaintSpec => ImplementsVariables
<1>1. TaintInit => TaintInv
  BY TaintStart
<1>2. TaintInit => Variables!Init
  <2>1. SUFFICES ASSUME TaintInit PROVE Variables!Init
    OBVIOUS
  <2>2. \A n \in Names : ~ IsSet(n)
    BY <2>1, TaintStart DEF IsSet
  <2> QED
    BY <2>2 DEF Variables!Init
<1>3. TaintInv /\ [TaintNext]_taintVars => TaintInv' /\ [Variables!Next]_(Variables!vars)
  BY TaintStep, VariablesStep
<1> QED
  BY <1>1, <1>2, <1>3, PTL DEF TaintSpec, ImplementsVariables, Variables!Spec

=============================================================================
