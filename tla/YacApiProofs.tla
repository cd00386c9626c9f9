---------------------------- MODULE YacApiProofs ----------------------------
(***************************************************************************)
(* Proofs about the keys, the entries and the methods of yac, for every    *)
(* set of workers, keys and values, and every width of the packed words.   *)
(***************************************************************************)
EXTENDS YacApi, SequenceTheorems, FiniteSetTheorems, TLAPS

(***************************************************************************)
(* The packed words                                                        *)
(***************************************************************************)

(* Two fields put together come apart again. *)
LEMMA DivMod ==
  ASSUME NEW m \in Nat, m > 0, NEW a \in 0 .. m - 1, NEW b \in Nat
  PROVE  (a + m * b) % m = a /\ (a + m * b) \div m = b
<1>1. a + m * b \in Nat
  BY Z3
<1>2. (a + m * b) \div m = b
  BY Z3
<1>3. (a + m * b) % m = a
  BY Z3
<1> QED
  BY <1>2, <1>3

(* The type, the compressed bit and the original length of a compressed    *)
(* value come out of its flag as they went in (php_yac.h 40-43).           *)
THEOREM FlagUnpacks ==
  ASSUME NEW type \in Types, NEW orig \in Nat, orig <= YAC_ENTRY_MAX_ORIG_LEN
  PROVE  /\ CompressedFlag(type, orig) \in Nat
         /\ TypeOf(CompressedFlag(type, orig)) = type
         /\ IsCompressed(CompressedFlag(type, orig))
         /\ OrigLen(CompressedFlag(type, orig)) = orig
<1> DEFINE high == 1 + 2 * orig
           word == type + TypeSpan * high
<1>1. /\ TypeSpan \in Nat /\ type \in 0 .. TypeSpan - 1 /\ TypeSpan > 0
      /\ OrigSpan \in Nat /\ orig <= OrigSpan - 1
  BY EntryAssumption DEF Types, YAC_ENTRY_MAX_ORIG_LEN
<1>2. high \in Nat /\ high <= 2 * OrigSpan - 1
  BY <1>1
<1>3. high % 2 = 1 /\ high \div 2 = orig
  BY <1>1
<1> HIDE DEF high
<1>4. word % TypeSpan = type /\ word \div TypeSpan = high
  BY <1>1, <1>2, DivMod
<1>5. word \in Nat /\ word < FlagSpan
  <2>1. TypeSpan * high <= TypeSpan * (2 * OrigSpan - 1)
    BY <1>1, <1>2, Z3
  <2>2. TypeSpan * (2 * OrigSpan - 1) = TypeSpan * (2 * OrigSpan) - TypeSpan
    BY <1>1, Z3
  <2>3. TypeSpan * high \in Nat /\ TypeSpan * (2 * OrigSpan) \in Nat
    BY <1>1, <1>2, Z3
  <2>4. TypeSpan * high <= TypeSpan * (2 * OrigSpan) - TypeSpan
    BY <2>1, <2>2
  <2> DEFINE low == TypeSpan * high
             span == TypeSpan * (2 * OrigSpan)
  <2>5. low \in Nat /\ span \in Nat /\ low <= span - TypeSpan
    BY <2>3, <2>4
  <2> HIDE DEF low, span
  <2>6. type + low \in Nat /\ type + low < span
    BY <1>1, <2>5
  <2> QED
    BY <2>6 DEF low, span, FlagSpan
<1> HIDE DEF word
<1>6. FlagSpan \in Nat /\ FlagSpan > 0
  <2>1. TypeSpan * (2 * OrigSpan) \in Nat
    BY <1>1, Z3
  <2> QED
    BY <2>1, <1>5 DEF FlagSpan
<1>7. word % FlagSpan = word
  BY <1>5, <1>6
<1>8. CompressedFlag(type, orig) = word
  BY <1>7 DEF CompressedFlag, word, high
<1> QED
  BY <1>3, <1>4, <1>5, <1>8 DEF TypeOf, IsCompressed, OrigLen

(* The length of the key and of the value come out of the header word as   *)
(* they went in (yac_storage.h 29-36).                                     *)
THEOREM LengthsUnpack ==
  ASSUME NEW klen \in Nat, NEW vlen \in Nat, klen < KlenSpan, vlen < VlenSpan
  PROVE  /\ SetLen(klen, vlen) \in Nat
         /\ KlenOf(SetLen(klen, vlen)) = klen
         /\ VlenOf(SetLen(klen, vlen)) = vlen
<1>1. KlenSpan \in Nat /\ KlenSpan > 0 /\ klen \in 0 .. KlenSpan - 1
  BY EntryAssumption
<1>2. klen % KlenSpan = klen
  BY <1>1
<1>3. VlenSpan \in Nat /\ VlenSpan > 0
  BY EntryAssumption
<1>4. vlen % VlenSpan = vlen
  BY <1>3
<1>5. SetLen(klen, vlen) = klen + KlenSpan * vlen
  BY <1>2, <1>4 DEF SetLen
<1>6. klen + KlenSpan * vlen \in Nat
  BY <1>1, Z3
<1> QED
  BY <1>1, <1>5, <1>6, DivMod DEF KlenOf, VlenOf

(* What yac_add_impl encodes yac_get_impl decodes, to the value it was     *)
(* made of, and it is short enough for the header word.                    *)
THEOREM EncodingsDecode ==
  ASSUME NEW v \in PhpValues, NEW e \in Encodings(v)
  PROVE  /\ e.value = v
         /\ e.flag \in Nat
         /\ e.size \in Nat /\ e.size < VlenSpan
         /\ Decodings(e) = {AsRead(v)}
<1>1. /\ v.type \in Types /\ v.size \in Nat /\ v.packed \in Nat
      /\ [v EXCEPT !.type = v.type] = v
  BY DEF PhpValues
<1>2. /\ MaxEntry \in Nat /\ MaxEntry >= 8 /\ VlenSpan \in Nat /\ VlenSpan > MaxEntry
      /\ TypeSpan \in Nat /\ TypeSpan > 9
  BY EntryAssumption
<1>3. \A type \in Types : type \in Nat /\ TypeOf(type) = type /\ ~ IsCompressed(type)
  <2> TAKE type \in Types
  <2>1. type \in Nat /\ type < TypeSpan
    BY <1>2 DEF Types
  <2>2. type % TypeSpan = type /\ type \div TypeSpan = 0
    BY <1>2, <2>1, Z3
  <2> QED
    BY <2>1, <2>2 DEF TypeOf, IsCompressed
<1> USE DEF IS_NULL, IS_LONG, IS_DOUBLE, IS_BOOL, IS_ARRAY, IS_OBJECT, IS_STRING,
           IS_CONSTANT, IS_CONSTANT_ARRAY, Scalars, Strings, Trees
<1>4. CASE v.type \in Scalars
  <2>1. e = Entry(v.type, ScalarSize(v.type), v)
    BY <1>1, <1>4 DEF Encodings, HasBytes
  <2>2. e.flag = v.type /\ e.size = ScalarSize(v.type) /\ e.value = v
    BY <2>1 DEF Entry
  <2>3. e.size \in Nat /\ e.size <= 8
    BY <2>2 DEF ScalarSize
  <2>4. Decodings(e) = {v}
    BY <1>1, <1>3, <1>4, <2>2 DEF Decodings
  <2>5. AsRead(v) = v
    BY <1>4 DEF AsRead
  <2> QED
    BY <1>1, <1>2, <1>3, <2>2, <2>3, <2>4, <2>5
<1>5. CASE v.type \notin Scalars /\ HasBytes(v) /\ ~ Long(v.size)
  <2>1. e = Entry(v.type, v.size, v)
    BY <1>5 DEF Encodings
  <2>2. e.flag = v.type /\ e.size = v.size /\ e.value = v
    BY <2>1 DEF Entry
  <2>3. e.size <= MaxEntry
    BY <1>1, <1>2, <1>5, <2>2 DEF Long
  <2>4. v.type \in Strings \/ v.type \in Trees
    BY <1>5 DEF HasBytes
  <2>5. Decodings(e) = {v}
    BY <1>1, <1>3, <1>5, <2>2, <2>4 DEF Decodings
  <2>6. AsRead(v) = v
    BY <1>5 DEF AsRead
  <2> QED
    BY <1>1, <1>2, <1>3, <2>2, <2>3, <2>5, <2>6
<1>6. CASE v.type \notin Scalars /\ HasBytes(v) /\ Long(v.size) /\ Packable(v)
  <2> DEFINE flag == CompressedFlag(v.type, v.size)
  <2>1. e = Entry(flag, v.packed, v)
    BY <1>6 DEF Encodings
  <2>2. e.flag = flag /\ e.size = v.packed /\ e.value = v
    BY <2>1 DEF Entry
  <2>3. /\ flag \in Nat /\ TypeOf(flag) = v.type
        /\ IsCompressed(flag) /\ OrigLen(flag) = v.size
    BY <1>1, <1>6, FlagUnpacks DEF Packable
  <2> HIDE DEF flag
  <2>4. Unpacks(e)
    BY <1>1, <2>2, <2>3 DEF Unpacks
  <2>5. e.size <= MaxEntry
    BY <1>1, <1>2, <1>6, <2>2 DEF Packable, Long
  <2>6. CASE v.type \in Strings
    <3>1. Decodings(e) = {[v EXCEPT !.type = IS_STRING]}
      BY <1>6, <2>2, <2>3, <2>4, <2>6 DEF Decodings
    <3>2. v.type = IS_STRING \/ v.type = IS_CONSTANT
      BY <2>6
    <3>3. AsRead(v) = [v EXCEPT !.type = IS_STRING]
      BY <1>1, <1>6, <3>2 DEF AsRead
    <3> QED
      BY <1>1, <1>2, <2>2, <2>3, <2>5, <3>1, <3>3
  <2>7. CASE v.type \in Trees /\ v.type \notin Strings
    <3>1. Decodings(e) = {v}
      BY <1>6, <2>2, <2>3, <2>4, <2>7 DEF Decodings
    <3>2. AsRead(v) = v
      BY <2>7 DEF AsRead
    <3> QED
      BY <1>1, <1>2, <2>2, <2>3, <2>5, <3>1, <3>2
  <2> QED
    BY <1>6, <2>6, <2>7 DEF HasBytes
<1>7. v.type \in Scalars \/ HasBytes(v)
  BY DEF Encodings
<1>8. v.type \notin Scalars /\ HasBytes(v) /\ Long(v.size) => Packable(v)
  BY DEF Encodings
<1> QED
  BY <1>4, <1>5, <1>6, <1>7, <1>8

(***************************************************************************)
(* The keys                                                                *)
(***************************************************************************)

(* A printed string is a sequence of the same kind of bytes, no longer,    *)
(* and is the string itself when it has no NUL.                            *)
LEMMA CStringType ==
  ASSUME NEW s \in Seq(Nat)
  PROVE  /\ CString(s) \in Seq(Nat) /\ Len(CString(s)) <= Len(s)
         /\ NulFree(s) => CString(s) = s
<1> DEFINE free == {n \in 1 .. Len(s) : \A i \in 1 .. n : s[i] # NUL}
<1>1. Len(s) \in Nat /\ \A i \in 1 .. Len(s) : s[i] \in Nat
  BY ElementOfSeq
<1>2. IsFiniteSet(1 .. Len(s)) /\ Cardinality(1 .. Len(s)) = Len(s)
  BY <1>1, FS_Interval
<1>3. Cardinality(free) \in Nat /\ Cardinality(free) <= Len(s)
  <2>1. free \subseteq 1 .. Len(s)
    OBVIOUS
  <2> HIDE DEF free
  <2>2. IsFiniteSet(free) /\ Cardinality(free) <= Cardinality(1 .. Len(s))
    BY <1>2, <2>1, FS_Subset
  <2> QED
    BY <1>2, <2>2, FS_CardinalityType
<1>4. ASSUME NulFree(s) PROVE free = 1 .. Len(s)
  BY <1>1, <1>4 DEF NulFree
<1>5. CString(s) = SubSeq(s, 1, Cardinality(free))
  BY DEF CString
<1> HIDE DEF free
<1>6. \A i \in 1 .. Cardinality(free) : s[i] \in Nat
  BY <1>1, <1>3
<1>7. SubSeq(s, 1, Cardinality(free)) \in Seq(Nat)
  BY <1>3, <1>6, SubSeqProperties
<1>8. Len(SubSeq(s, 1, Cardinality(free))) <= Len(s)
  <2>1. Len(SubSeq(s, 1, Cardinality(free)))
          = IF 1 <= Cardinality(free) THEN Cardinality(free) - 1 + 1 ELSE 0
    BY <1>3, <1>6, SubSeqProperties
  <2> QED
    BY <1>1, <1>3, <2>1
<1>9. NulFree(s) => CString(s) = s
  BY <1>2, <1>4, <1>5, SubSeqFull
<1> QED
  BY <1>5, <1>7, <1>8, <1>9

(* A composed key never exceeds the buffer.                                *)
LEMMA ComposeType ==
  ASSUME NEW prefix \in Seq(Nat), NEW key \in Seq(Nat), Fits(prefix, key)
  PROVE  Compose(prefix, key) \in Seq(Nat) /\ Len(Compose(prefix, key)) <= MaxKey
<1> DEFINE full == CString(prefix) \o CString(key)
<1>1. MaxKey \in Nat /\ MaxKey > 0 /\ Len(prefix) \in Nat /\ Len(key) \in Nat
      /\ Len(prefix) + Len(key) <= MaxKey
  BY KeyAssumption DEF Fits
<1>2. full \in Seq(Nat)
  BY CStringType, ConcatProperties
<1>3. CASE Len(prefix) = 0
  BY <1>1, <1>3 DEF Compose
<1>4. CASE Len(prefix) # 0 /\ Len(full) < MaxKey
  BY <1>1, <1>2, <1>4 DEF Compose
<1>5. CASE Len(prefix) # 0 /\ ~ (Len(full) < MaxKey)
  <2> DEFINE cut == SubSeq(full, 1, MaxKey - 1)
  <2>1. Compose(prefix, key) = Append(cut, NUL)
    BY <1>5 DEF Compose
  <2> HIDE DEF full
  <2>2. Len(full) \in Nat /\ \A i \in 1 .. Len(full) : full[i] \in Nat
    BY <1>2, ElementOfSeq
  <2>3. \A i \in 1 .. MaxKey - 1 : full[i] \in Nat
    BY <1>1, <1>5, <2>2
  <2>4. cut \in Seq(Nat) /\ Len(cut) = IF 1 <= MaxKey - 1 THEN MaxKey - 1 - 1 + 1 ELSE 0
    BY <1>1, <2>3, SubSeqProperties
  <2> HIDE DEF cut
  <2>5. Append(cut, NUL) \in Seq(Nat) /\ Len(Append(cut, NUL)) = Len(cut) + 1
    BY <2>4, AppendProperties DEF NUL
  <2>6. Len(cut) = MaxKey - 1
    BY <1>1, <2>4
  <2> QED
    BY <1>1, <2>1, <2>5, <2>6
<1> QED
  BY <1>3, <1>4, <1>5

(* No composed key fills the buffer, and no key that is composed has a NUL *)
(* in it.                                                                  *)
ShortKeys ==
  \A p \in Prefixes, key \in Keys :
    p # <<>> /\ Fits(p, key.text) =>
      NulFree(p) /\ NulFree(key.text) /\ Len(p) + Len(key.text) < MaxKey

(* Then a store key is the text that the caller names.                     *)
LEMMA StoreKeyIsText ==
  ASSUME ShortKeys, NEW p \in Prefixes, NEW key \in Keys, Fits(p, key.text)
  PROVE  StoreKey(p, key) = Text(p, key)
<1>1. p \in Seq(Nat) /\ key.text \in Seq(Nat)
  BY ApiAssumption
<1>2. CASE p = <<>>
  <2>1. <<>> \o key.text = key.text
    BY <1>1, ConcatEmptySeq
  <2> QED
    BY <1>2, <2>1 DEF StoreKey, Text, Compose
<1>3. CASE p # <<>>
  <2>1. CString(p) = p /\ CString(key.text) = key.text
    BY <1>1, <1>3, CStringType DEF ShortKeys
  <2>2. Len(p) # 0
    BY <1>1, <1>3, EmptySeq
  <2>3. Len(p \o key.text) < MaxKey
    BY <1>1, <1>3, ConcatProperties DEF ShortKeys
  <2> QED
    BY <2>1, <2>2, <2>3 DEF StoreKey, Text, Compose
<1> QED
  BY <1>2, <1>3

(***************************************************************************)
(* Types                                                                   *)
(***************************************************************************)

(* A method on keys has a prefix of the program, and a value for each key  *)
(* that it stores, a deletion a time to live of its own; only such a       *)
(* method can be pending.                                                  *)
Keyed(c) ==
  /\ c.returns = "pending" => c.op \in Operations
  /\ c.op \in Operations => c.prefix \in Prefixes
  /\ c.op \in {"add", "set"} => \A i \in 1 .. Len(c.keys) : c.keys[i] \in DOMAIN c.value
  /\ c.op = "delete" => c.ttl \in DeleteTtls

TypeInv == TypeOK /\ \A w \in Procs : Keyed(call[w])

(* Taking a key off todo keeps the place of the rest.                      *)
LEMMA Pop ==
  ASSUME NEW c \in Calls, InOrder(c), c.todo # <<>>
  PROVE  /\ Len(c.todo) \in Nat /\ Len(c.todo) > 0 /\ Len(c.keys) \in Nat
         /\ Head(c.todo) \in Keys
         /\ Tail(c.todo) \in Seq(Keys) /\ Len(Tail(c.todo)) = Len(c.todo) - 1
         /\ Len(c.keys) - Len(c.todo) + 1 \in 1 .. Len(c.keys)
         /\ Head(c.todo) = c.keys[Len(c.keys) - Len(c.todo) + 1]
         /\ \A i \in 1 .. Len(Tail(c.todo)) :
              Tail(c.todo)[i] = c.keys[Len(c.keys) - Len(Tail(c.todo)) + i]
<1> DEFINE m == Len(c.keys)
           n == Len(c.todo)
           rest == Tail(c.todo)
           r == Len(rest)
<1>1. c.todo \in Seq(Keys) /\ c.keys \in Seq(Keys)
  BY DEF Calls
<1>2. m \in Nat /\ n \in Nat /\ n > 0 /\ n <= m
  <2>1. n \in Nat \ {0} /\ m \in Nat
    BY <1>1, EmptySeq, LenProperties
  <2> QED
    BY <2>1 DEF InOrder
<1>3. /\ Head(c.todo) \in Keys /\ rest \in Seq(Keys)
      /\ r = n - 1
      /\ \A i \in 1 .. r : rest[i] = c.todo[i + 1]
  BY <1>1, HeadTailProperties
<1>4. Head(c.todo) = c.todo[1]
  BY <1>1
<1>5. \A i \in 1 .. n : c.todo[i] = c.keys[m - n + i]
  BY DEF InOrder
<1> HIDE DEF m, n, rest, r
<1>6. Head(c.todo) = c.keys[m - n + 1] /\ m - n + 1 \in 1 .. m
  BY <1>2, <1>4, <1>5
<1>7. ASSUME NEW i \in 1 .. r
      PROVE  rest[i] = c.keys[m - r + i]
  <2>1. i \in Int /\ i + 1 \in 1 .. n
    BY <1>2, <1>3
  <2>2. c.todo[i + 1] = c.keys[m - n + (i + 1)]
    BY <1>5, <2>1
  <2>3. m - n + (i + 1) = m - r + i
    BY <1>2, <1>3, <2>1
  <2> QED
    BY <1>3, <2>2, <2>3
<1> QED
  BY <1>2, <1>3, <1>6, <1>7 DEF m, n, rest, r

(* The next key of a method has its entry in the cache.                    *)
LEMMA NextStoreKeyType ==
  ASSUME TypeInv, NEW w \in Procs, Doing(w, Operations)
  PROVE  /\ call[w] \in Calls /\ InOrder(call[w]) /\ Keyed(call[w])
         /\ call[w].todo # <<>>
         /\ call[w].prefix \in Prefixes /\ Next1(w) \in Keys
         /\ NextStoreKey(w) \in StoreKeys
         /\ NextFits(w) => Len(NextStoreKey(w)) \in Nat /\ Len(NextStoreKey(w)) <= MaxKey
<1>1. /\ call[w] \in Calls /\ InOrder(call[w]) /\ Keyed(call[w])
      /\ call[w].todo # <<>> /\ call[w].op \in Operations
  BY DEF TypeInv, TypeOK, Doing
<1>2. call[w].prefix \in Prefixes /\ Next1(w) \in Keys
  BY <1>1, Pop DEF Keyed, Next1
<1>3. NextStoreKey(w) \in StoreKeys
  BY <1>2 DEF NextStoreKey, StoreKeys
<1>4. call[w].prefix \in Seq(Nat) /\ Next1(w).text \in Seq(Nat)
  BY <1>2, ApiAssumption
<1>5. ASSUME NextFits(w)
      PROVE  Len(NextStoreKey(w)) \in Nat /\ Len(NextStoreKey(w)) <= MaxKey
  <2>1. NextStoreKey(w) \in Seq(Nat) /\ Len(NextStoreKey(w)) <= MaxKey
    BY <1>4, <1>5, ComposeType DEF NextFits, NextStoreKey, StoreKey
  <2> QED
    BY <2>1, LenProperties
<1> QED
  BY <1>1, <1>2, <1>3, <1>5

(* The calls that begin.                                                   *)
LEMMA BeginType ==
  ASSUME TypeInv, NEW w \in Procs, NEW c \in Calls, InOrder(c), Keyed(c), Begin(w, c)
  PROVE  /\ call' \in [Procs -> Calls] /\ calls' \in Nat
         /\ \A u \in Procs : InOrder(call'[u]) /\ Keyed(call'[u])
<1> DEFINE d == IF enable THEN c ELSE [c EXCEPT !.returns = "false"]
<1>1. d \in Calls
  BY DEF Calls
<1>2. InOrder(d) /\ Keyed(d)
  BY DEF Calls, InOrder, Keyed
<1>3. call' = [call EXCEPT ![w] = d] /\ calls' = calls + 1
  BY DEF Begin
<1> HIDE DEF d
<1> QED
  BY <1>1, <1>2, <1>3 DEF TypeInv, TypeOK

(* A method that begins is a call of its type, with no answers yet.        *)
LEMMA CallType ==
  ASSUME NEW op \in Operations, NEW multi \in BOOLEAN, NEW prefix \in Prefixes,
         NEW keys \in Seq(Keys),
         NEW K \in SUBSET Keys, NEW value \in [K -> Values], NEW ttl \in Nat,
         op \in {"add", "set"} => \A i \in 1 .. Len(keys) : keys[i] \in K,
         op = "delete" => ttl \in DeleteTtls
  PROVE  LET c == Call(op, multi, prefix, keys, value, ttl)
         IN  c \in Calls /\ InOrder(c) /\ Keyed(c)
<1> DEFINE c == Call(op, multi, prefix, keys, value, ttl)
<1>1. prefix \in Seq(Nat) /\ Len(keys) \in Nat
  BY ApiAssumption, LenProperties
<1>2. <<>> \in Seq(PhpValues \cup {NONE}) /\ Len(<<>>) = 0
  BY EmptySeq
<1>3. value \in UNION {[L -> Values] : L \in SUBSET Keys}
  OBVIOUS
<1>4. c \in Calls
  BY <1>1, <1>2, <1>3 DEF Call, Calls
<1>5. InOrder(c)
  BY <1>1, <1>2 DEF Call, InOrder
<1>6. Keyed(c)
  BY DEF Call, Keyed
<1> QED
  BY <1>4, <1>5, <1>6

(* A step inside a method changes the frame of one worker.                 *)
LEMMA StepType ==
  ASSUME TypeInv, NEW w \in Procs, NEW c \in Calls, InOrder(c), Keyed(c),
         call' = [call EXCEPT ![w] = c],
         cache' \in [StoreKeys -> CacheEntries \cup {NONE}],
         UNCHANGED <<enable, now, asked, calls>>
  PROVE  TypeInv'
<1>1. call' \in [Procs -> Calls]
  BY DEF TypeInv, TypeOK
<1>2. \A u \in Procs : InOrder(call'[u]) /\ Keyed(call'[u])
  BY DEF TypeInv, TypeOK
<1> QED
  BY <1>1, <1>2 DEF TypeInv, TypeOK

(* The initial states have their types.                                    *)
LEMMA TypeInit == Init => TypeInv
<1> SUFFICES ASSUME Init PROVE TypeInv
  OBVIOUS
<1>1. <<>> \in Seq(PhpValues \cup {NONE}) /\ <<>> \in Seq(Keys) /\ <<>> \in Seq(Nat)
      /\ Len(<<>>) = 0
  BY EmptySeq
<1>2. NoValue \in [{} -> Values]
  BY DEF NoValue
<1>3. NoValue \in UNION {[L -> Values] : L \in SUBSET Keys}
  BY <1>2
<1>4. Idle \in Calls
  BY <1>1, <1>3 DEF Idle, Call, Calls
<1>5. InOrder(Idle) /\ Keyed(Idle)
  BY <1>1 DEF InOrder, Keyed, Idle, Call, Operations
<1>6. cache \in [StoreKeys -> CacheEntries \cup {NONE}]
  BY DEF Init
<1>7. call \in [Procs -> Calls] /\ \A w \in Procs : call[w] = Idle
  BY <1>4 DEF Init
<1> QED
  BY <1>5, <1>6, <1>7 DEF Init, TypeInv, TypeOK

(* A method on one key or on an array begins with its types.               *)
LEMMA KeyMethodType ==
  ASSUME TypeInv, NEW w \in Procs, NEW prefix \in Prefixes, NEW keys \in Seq(Keys),
         NEW multi \in BOOLEAN, KeyMethod(w, prefix, keys, multi)
  PROVE  TypeInv'
<1>1. /\ DOMAIN keys = 1 .. Len(keys)
      /\ \A i \in 1 .. Len(keys) : keys[i] \in Keys
  BY LenProperties, ElementOfSeq
<1>2. NoValue \in [{} -> Values]
  BY DEF NoValue
<1>3. ASSUME NEW op \in {"add", "set"}, AddBegin(w, op, prefix, keys, multi)
      PROVE  TypeInv'
  <2> DEFINE K == {keys[i] : i \in DOMAIN keys}
  <2>1. PICK value \in [K -> Values], ttl \in Ttls :
          /\ Begin(w, Call(op, multi, prefix, keys, value, ttl))
          /\ asked' = asked \cup
               {[text |-> Text(prefix, key), value |-> value[key], ttl |-> ttl]
                  : key \in DOMAIN value}
    BY <1>3 DEF AddBegin
  <2>2. K \in SUBSET Keys /\ \A i \in 1 .. Len(keys) : keys[i] \in K
    BY <1>1
  <2> HIDE DEF K
  <2>3. ttl \in Nat /\ op \in Operations
    BY ApiAssumption DEF Operations
  <2> DEFINE c == Call(op, multi, prefix, keys, value, ttl)
  <2>4. c \in Calls /\ InOrder(c) /\ Keyed(c)
    BY <2>2, <2>3, CallType
  <2> HIDE DEF c
  <2>5. /\ call' \in [Procs -> Calls] /\ calls' \in Nat
        /\ \A u \in Procs : InOrder(call'[u]) /\ Keyed(call'[u])
    BY <2>1, <2>4, BeginType DEF c
  <2>6. \A key \in Keys : Text(prefix, key) \in Seq(Nat)
    BY ApiAssumption, ConcatProperties DEF Text
  <2>7. asked' \subseteq [text : Seq(Nat), value : Values, ttl : Nat]
    BY <2>1, <2>2, <2>3, <2>6 DEF TypeInv, TypeOK
  <2> QED
    BY <2>1, <2>5, <2>7 DEF Begin, TypeInv, TypeOK
<1>4. CASE GetBegin(w, prefix, keys, multi)
  <2> DEFINE c == Call("get", multi, prefix, keys, NoValue, 0)
  <2>1. c \in Calls /\ InOrder(c) /\ Keyed(c)
    BY <1>2, CallType DEF Operations
  <2> HIDE DEF c
  <2>2. Begin(w, c) /\ UNCHANGED asked
    BY <1>4 DEF GetBegin, c
  <2>3. /\ call' \in [Procs -> Calls] /\ calls' \in Nat
        /\ \A u \in Procs : InOrder(call'[u]) /\ Keyed(call'[u])
    BY <2>1, <2>2, BeginType
  <2> QED
    BY <2>2, <2>3 DEF Begin, TypeInv, TypeOK
<1>5. CASE DeleteBegin(w, prefix, keys, multi)
  <2>1. PICK ttl \in DeleteTtls :
          Begin(w, Call("delete", multi, prefix, keys, NoValue, ttl)) /\ UNCHANGED asked
    BY <1>5 DEF DeleteBegin
  <2> DEFINE c == Call("delete", multi, prefix, keys, NoValue, ttl)
  <2>2. ttl \in Nat
    BY ApiAssumption
  <2>3. c \in Calls /\ InOrder(c) /\ Keyed(c)
    BY <1>2, <2>2, CallType DEF Operations
  <2> HIDE DEF c
  <2>4. Begin(w, c) /\ UNCHANGED asked
    BY <2>1 DEF c
  <2>5. /\ call' \in [Procs -> Calls] /\ calls' \in Nat
        /\ \A u \in Procs : InOrder(call'[u]) /\ Keyed(call'[u])
    BY <2>3, <2>4, BeginType
  <2> QED
    BY <2>4, <2>5 DEF Begin, TypeInv, TypeOK
<1> QED
  BY <1>3, <1>4, <1>5 DEF KeyMethod

(* The arrays given to the methods are sequences of keys.                  *)
LEMMA ArraysAreSeqs == \A keys \in Arrays : keys \in Seq(Keys)
<1> SUFFICES ASSUME NEW keys \in Arrays PROVE keys \in Seq(Keys)
  OBVIOUS
<1>1. PICK n \in 0 .. MaxBatch : keys \in [1 .. n -> Keys]
  BY DEF Arrays
<1>2. n \in Nat
  BY <1>1, ApiAssumption
<1> QED
  BY <1>1, <1>2, SeqDef

(* flush empties the storage and keeps the types.                          *)
LEMMA FlushType ==
  ASSUME TypeInv, NEW w \in Procs, Flush(w)
  PROVE  TypeInv'
<1> DEFINE c == [Call("flush", FALSE, <<>>, <<>>, NoValue, 0) EXCEPT
                   !.returns = IF enable THEN "true" ELSE "false"]
<1>1. <<>> \in Seq(PhpValues \cup {NONE}) /\ <<>> \in Seq(Keys) /\ <<>> \in Seq(Nat)
      /\ Len(<<>>) = 0
  BY EmptySeq
<1>2. NoValue \in [{} -> Values]
  BY DEF NoValue
<1>3. NoValue \in UNION {[L -> Values] : L \in SUBSET Keys}
  BY <1>2
<1>4. c \in Calls
  BY <1>1, <1>3 DEF Call, Calls
<1>5. InOrder(c) /\ Keyed(c)
  BY <1>1 DEF InOrder, Keyed, Call, Operations
<1>6. call' = [call EXCEPT ![w] = c] /\ calls' = calls + 1
  BY DEF Flush
<1> HIDE DEF c
<1>7. call' \in [Procs -> Calls] /\ \A u \in Procs : InOrder(call'[u]) /\ Keyed(call'[u])
  BY <1>4, <1>5, <1>6 DEF TypeInv, TypeOK
<1>8. cache' \in [StoreKeys -> CacheEntries \cup {NONE}]
  BY DEF Flush, TypeInv, TypeOK
<1> QED
  <2>1. UNCHANGED <<enable, now, asked>>
    BY DEF Flush
  <2> QED
    BY <1>6, <1>7, <1>8, <2>1 DEF TypeInv, TypeOK

(* What the storage takes is an entry, in the place of the key.            *)
LEMMA TakesType ==
  ASSUME TypeInv, NEW k \in StoreKeys, Len(k) \in Nat,
         NEW v \in Values, NEW e \in Encodings(v),
         NEW ttl \in Nat, NEW add, Takes(k, e, ttl, add)
  PROVE  /\ cache' \in [StoreKeys -> CacheEntries \cup {NONE}]
         /\ cache' = [cache EXCEPT ![k] =
              [len |-> SetLen(Len(k), e.size), flag |-> e.flag, size |-> e.size,
               value |-> v, expires |-> IF ttl = 0 THEN 0 ELSE now + ttl]]
<1> DEFINE expires == IF ttl = 0 THEN 0 ELSE now + ttl
           new == [len |-> SetLen(Len(k), e.size), flag |-> e.flag, size |-> e.size,
                   value |-> v, expires |-> expires]
<1>1. v \in PhpValues
  BY ApiAssumption
<1>2. e.value = v /\ e.flag \in Nat /\ e.size \in Nat
  BY <1>1, EncodingsDecode
<1>3. expires \in Nat
  BY DEF TypeInv, TypeOK
<1>4. SetLen(Len(k), e.size) \in Nat
  <2>1. /\ KlenSpan \in Nat /\ KlenSpan > 0 /\ VlenSpan \in Nat /\ VlenSpan > 0
    BY EntryAssumption
  <2>2. Len(k) % KlenSpan \in Nat /\ e.size % VlenSpan \in Nat
    BY <1>2, <2>1
  <2>3. KlenSpan * (e.size % VlenSpan) \in Nat
    BY <2>1, <2>2, Z3
  <2> QED
    BY <2>2, <2>3 DEF SetLen
<1>5. cache' = [cache EXCEPT ![k] = new]
  BY <1>2 DEF Takes
<1>6. new \in CacheEntries
  BY <1>2, <1>3, <1>4 DEF CacheEntries
<1>7. cache' \in [StoreKeys -> CacheEntries \cup {NONE}]
  <2> HIDE DEF new
  <2> QED
    BY <1>5, <1>6 DEF TypeInv, TypeOK
<1> QED
  BY <1>3, <1>5, <1>7

(* The names of the methods are operations.                                *)
LEMMA OperationsOf == {"add", "set"} \subseteq Operations /\ {"get"} \subseteq Operations
                      /\ {"delete"} \subseteq Operations
  BY DEF Operations

(* A worker with a key to do is in one of the operations.                  *)
LEMMA DoingOperation ==
  ASSUME NEW w \in Procs, NEW ops \in SUBSET Operations, Doing(w, ops)
  PROVE  Doing(w, Operations)
  BY DEF Doing

(* The entry that yac_add_impl asks the storage to take.                   *)
LEMMA AddNextTakes ==
  ASSUME TypeInv, NEW w \in Procs, AddNext(w)
  PROVE  LET v == call[w].value[Next1(w)]
             args == UpdateArguments(call[w], v)
         IN  /\ v \in Values /\ args.ttl \in Nat
             /\ \E e \in Encodings(v) : Takes(NextStoreKey(w), e, args.ttl, args.add)
<1> DEFINE c == call[w]
           v == c.value[Next1(w)]
<1>1. Doing(w, Operations)
  BY OperationsOf, DoingOperation DEF AddNext
<1>2. c \in Calls /\ InOrder(c) /\ Keyed(c) /\ c.todo # <<>> /\ c.op \in {"add", "set"}
  BY <1>1, NextStoreKeyType DEF AddNext, Doing
<1>3. Next1(w) = c.keys[Len(c.keys) - Len(c.todo) + 1]
      /\ Len(c.keys) - Len(c.todo) + 1 \in 1 .. Len(c.keys)
  BY <1>2, Pop DEF Next1
<1>4. Next1(w) \in DOMAIN c.value
  BY <1>2, <1>3 DEF Keyed
<1>5. v \in Values
  BY <1>2, <1>4 DEF Calls
<1>6. UpdateArguments(c, v).ttl \in Nat
  BY <1>2 DEF UpdateArguments, AddFlag, Calls
<1> QED
  BY <1>5, <1>6 DEF AddNext

(* A pair stored by add or set keeps the types.                            *)
LEMMA AddNextType ==
  ASSUME TypeInv, NEW w \in Procs, AddNext(w)
  PROVE  TypeInv'
<1> DEFINE c == call[w]
           d == [c EXCEPT !.todo = Tail(@), !.taken = @ + 1]
<1>1. Doing(w, Operations)
  BY OperationsOf, DoingOperation DEF AddNext
<1>2. c \in Calls /\ InOrder(c) /\ Keyed(c) /\ c.todo # <<>> /\ c.op \in {"add", "set"}
      /\ NextStoreKey(w) \in StoreKeys /\ Len(NextStoreKey(w)) \in Nat
  BY <1>1, NextStoreKeyType DEF AddNext, Doing
<1> DEFINE rest == Tail(c.todo)
<1>3. /\ rest \in Seq(Keys) /\ Len(rest) = Len(c.todo) - 1
      /\ \A i \in 1 .. Len(rest) : rest[i] = c.keys[Len(c.keys) - Len(rest) + i]
      /\ Len(c.todo) \in Nat /\ Len(c.keys) \in Nat
  BY <1>2, Pop
<1> HIDE DEF rest
<1>4. /\ d = [c EXCEPT !.todo = rest, !.taken = c.taken + 1]
      /\ d.todo = rest /\ d.keys = c.keys /\ d.op = c.op /\ d.out = c.out
      /\ d.taken = c.taken + 1 /\ c.taken \in Nat
      /\ d.prefix = c.prefix /\ d.value = c.value /\ d.returns = c.returns
      /\ d.ttl = c.ttl
  BY <1>2 DEF Calls, rest
<1>5. d \in Calls /\ InOrder(d) /\ Keyed(d)
  <2> HIDE DEF c, d
  <2>1. d \in Calls
    <3>1. c.taken + 1 \in Nat
      BY <1>4
    <3> QED
      BY <1>2, <1>3, <1>4, <3>1 DEF Calls
  <2>2. InOrder(d)
    <3>1. Len(c.todo) <= Len(c.keys) /\ c.taken + Len(c.todo) = Len(c.keys)
      BY <1>2 DEF InOrder
    <3>2. Len(rest) <= Len(c.keys) /\ (c.taken + 1) + Len(rest) = Len(c.keys)
      BY <1>3, <1>4, <3>1
    <3>3. d.op # "get"
      BY <1>2, <1>4
    <3> QED
      BY <1>3, <1>4, <3>2, <3>3 DEF InOrder
  <2>3. Keyed(d)
    BY <1>2, <1>4 DEF Keyed
  <2> QED
    BY <2>1, <2>2, <2>3
<1>6. cache' \in [StoreKeys -> CacheEntries \cup {NONE}]
  BY <1>2, AddNextTakes, TakesType
<1>7. call' = [call EXCEPT ![w] = d] /\ UNCHANGED <<enable, now, asked, calls>>
  BY DEF AddNext
<1> HIDE DEF c, d
<1> QED
  BY <1>5, <1>6, <1>7, StepType

(* The steps that only return.                                             *)
LEMMA ReturnType ==
  ASSUME TypeInv, NEW w \in Procs,
         NEW r \in {"true", "false", "null", "values", "undefined", "died"},
         Return(w, r), UNCHANGED <<enable, cache, now, asked, calls>>
  PROVE  TypeInv'
<1> DEFINE c == call[w]
           d == [c EXCEPT !.returns = r]
<1>1. c \in Calls /\ InOrder(c) /\ Keyed(c)
  BY DEF TypeInv, TypeOK
<1>2. d \in Calls
  BY <1>1 DEF Calls
<1>3. InOrder(d) /\ Keyed(d)
  BY <1>1 DEF InOrder, Keyed, Calls
<1>4. call' = [call EXCEPT ![w] = d]
  BY DEF Return
<1>5. cache' \in [StoreKeys -> CacheEntries \cup {NONE}]
  BY DEF TypeInv, TypeOK
<1> HIDE DEF c, d
<1> QED
  BY <1>2, <1>3, <1>4, <1>5, StepType

(* Decoding gives values.                                                  *)
LEMMA DecodingsType ==
  ASSUME NEW e \in CacheEntries
  PROVE  Decodings(e) \subseteq PhpValues
<1> DEFINE type == TypeOf(e.flag)
           typed(t) == [e.value EXCEPT !.type = t]
<1>1. e.value \in PhpValues
  BY ApiAssumption DEF CacheEntries
<1>2. \A t \in Types : typed(t) \in PhpValues
  BY <1>1 DEF PhpValues
<1>3. Scalars \subseteq Types /\ Strings \subseteq Types /\ IS_STRING \in Types
  BY DEF Scalars, Strings, Types, IS_NULL, IS_LONG, IS_DOUBLE, IS_BOOL, IS_STRING,
     IS_CONSTANT
<1>4. Decodings(e) \subseteq {e.value, typed(IS_STRING)} \cup
        {typed(t) : t \in {t \in {type} : t \in Types}}
  <2>1. ASSUME NEW v \in Decodings(e)
        PROVE  v = e.value \/ v = typed(IS_STRING) \/ (v = typed(type) /\ type \in Types)
    BY <1>3, <2>1 DEF Decodings
  <2> QED
    BY <2>1
<1> QED
  BY <1>1, <1>2, <1>3, <1>4

(* An answer of get keeps the types.                                       *)
LEMMA GetNextType ==
  ASSUME TypeInv, NEW w \in Procs, GetNext(w)
  PROVE  TypeInv'
<1> DEFINE c == call[w]
           rest == Tail(c.todo)
<1>1. Doing(w, Operations)
  BY OperationsOf, DoingOperation DEF GetNext
<1>2. c \in Calls /\ InOrder(c) /\ Keyed(c) /\ c.todo # <<>> /\ c.op = "get"
      /\ NextStoreKey(w) \in StoreKeys
  BY <1>1, NextStoreKeyType DEF GetNext, Doing
<1>3. PICK v \in Got(w) : call' = [call EXCEPT ![w].todo = Tail(@), ![w].out = Append(@, v)]
  BY DEF GetNext
<1>4. v \in PhpValues \cup {NONE}
  <2> DEFINE k == NextStoreKey(w)
  <2>1. CASE v # NONE
    <3>1. Live(k) /\ v \in Decodings(cache[k])
      BY <1>3, <2>1 DEF Got
    <3>2. cache[k] \in CacheEntries
      BY <1>2, <3>1 DEF Live, TypeInv, TypeOK
    <3> QED
      BY <3>1, <3>2, DecodingsType
  <2> QED
    BY <2>1
<1> DEFINE more == Append(c.out, v)
           d == [c EXCEPT !.todo = rest, !.out = more]
<1>5. /\ rest \in Seq(Keys) /\ Len(rest) = Len(c.todo) - 1
      /\ \A i \in 1 .. Len(rest) : rest[i] = c.keys[Len(c.keys) - Len(rest) + i]
      /\ Len(c.todo) \in Nat /\ Len(c.keys) \in Nat
  BY <1>2, Pop
<1>6. c.out \in Seq(PhpValues \cup {NONE})
  BY <1>2 DEF Calls
<1>7. more \in Seq(PhpValues \cup {NONE}) /\ Len(more) = Len(c.out) + 1 /\ Len(c.out) \in Nat
  BY <1>4, <1>6, AppendProperties, LenProperties
<1>8. call' = [call EXCEPT ![w] = d]
  BY <1>3
<1> HIDE DEF rest, more
<1>9. /\ d.todo = rest /\ d.keys = c.keys /\ d.op = c.op /\ d.out = more
      /\ d.prefix = c.prefix /\ d.value = c.value /\ d.returns = c.returns /\ d.taken = c.taken
      /\ d.ttl = c.ttl
  BY <1>2 DEF Calls
<1>10. d \in Calls
  BY <1>2, <1>5, <1>7 DEF Calls
<1> HIDE DEF c, d
<1>11. InOrder(d)
  <2>1. Len(c.todo) <= Len(c.keys) /\ Len(c.out) + Len(c.todo) = Len(c.keys)
    BY <1>2 DEF InOrder
  <2>2. Len(rest) <= Len(c.keys) /\ Len(more) + Len(rest) = Len(c.keys)
    <3> DEFINE n == Len(c.todo)
               m == Len(c.keys)
               o == Len(c.out)
    <3>1. n \in Nat /\ m \in Nat /\ o \in Nat /\ n <= m /\ o + n = m
      BY <1>5, <1>7, <2>1
    <3>2. Len(rest) = n - 1 /\ Len(more) = o + 1
      BY <1>5, <1>7
    <3> HIDE DEF n, m, o
    <3>3. n - 1 <= m /\ (o + 1) + (n - 1) = m
      BY <3>1
    <3> QED
      BY <3>2, <3>3 DEF m
  <2> QED
    BY <1>2, <1>5, <1>9, <2>2 DEF InOrder
<1>12. Keyed(d)
  BY <1>2, <1>9 DEF Keyed
<1>13. cache' \in [StoreKeys -> CacheEntries \cup {NONE}]
       /\ UNCHANGED <<enable, now, asked, calls>>
  BY DEF GetNext, TypeInv, TypeOK
<1> QED
  BY <1>8, <1>10, <1>11, <1>12, <1>13, StepType

(* A deletion keeps the types.                                             *)
LEMMA DeleteNextType ==
  ASSUME TypeInv, NEW w \in Procs, DeleteNext(w)
  PROVE  TypeInv'
<1> DEFINE c == call[w]
           k == NextStoreKey(w)
           rest == Tail(c.todo)
           d == [c EXCEPT !.todo = rest]
<1>1. Doing(w, Operations)
  BY OperationsOf, DoingOperation DEF DeleteNext
<1>2. c \in Calls /\ InOrder(c) /\ Keyed(c) /\ c.todo # <<>> /\ c.op = "delete"
      /\ k \in StoreKeys
  BY <1>1, NextStoreKeyType DEF DeleteNext, Doing
<1>3. /\ rest \in Seq(Keys) /\ Len(rest) = Len(c.todo) - 1
      /\ \A i \in 1 .. Len(rest) : rest[i] = c.keys[Len(c.keys) - Len(rest) + i]
      /\ Len(c.todo) \in Nat /\ Len(c.keys) \in Nat
  BY <1>2, Pop
<1>4. cache' \in [StoreKeys -> CacheEntries \cup {NONE}]
  <2>1. CASE ~ NextFits(w) \/ cache[k] = NONE
    BY <2>1 DEF DeleteNext, Removes, TypeInv, TypeOK
  <2>2. CASE NextFits(w) /\ cache[k] # NONE
    <3> DEFINE expires == IF c.ttl = 0 THEN 1 ELSE now + c.ttl
    <3>1. expires \in Nat /\ cache[k] \in CacheEntries
      BY <1>2, <2>2 DEF Calls, TypeInv, TypeOK
    <3>2. cache' = [cache EXCEPT ![k].expires = expires]
      BY <2>2 DEF DeleteNext, Removes
    <3> HIDE DEF expires, k
    <3>3. [cache[k] EXCEPT !.expires = expires] \in CacheEntries
      BY <3>1 DEF CacheEntries
    <3> QED
      BY <1>2, <3>2, <3>3 DEF TypeInv, TypeOK
  <2> QED
    BY <2>1, <2>2
<1>5. call' = [call EXCEPT ![w] = d] /\ UNCHANGED <<enable, now, asked, calls>>
  BY DEF DeleteNext
<1> HIDE DEF rest
<1>6. /\ d.todo = rest /\ d.keys = c.keys /\ d.op = c.op /\ d.out = c.out
      /\ d.prefix = c.prefix /\ d.value = c.value /\ d.returns = c.returns /\ d.taken = c.taken
      /\ d.ttl = c.ttl
  BY <1>2 DEF Calls
<1>7. d \in Calls
  BY <1>2, <1>3 DEF Calls
<1> HIDE DEF c, d
<1>8. InOrder(d)
  <2>1. Len(rest) <= Len(c.keys)
    BY <1>2, <1>3 DEF InOrder
  <2> QED
    BY <1>2, <1>3, <1>6, <2>1 DEF InOrder
<1>9. Keyed(d)
  BY <1>2, <1>6 DEF Keyed
<1> QED
  BY <1>4, <1>5, <1>7, <1>8, <1>9, StepType

(* Every step keeps the types: TypeInv is inductive.                       *)
LEMMA TypeNext == TypeInv /\ [Next]_vars => TypeInv'
<1> SUFFICES ASSUME TypeInv, [Next]_vars PROVE TypeInv'
  OBVIOUS
<1>1. ASSUME NEW w \in Procs, Method(w) PROVE TypeInv'
  <2>1. ASSUME NEW prefix \in Prefixes, NEW key \in Keys,
               KeyMethod(w, prefix, <<key>>, FALSE)
        PROVE  TypeInv'
    <3>1. <<key>> \in Seq(Keys)
      BY <2>1
    <3> QED
      BY <2>1, <3>1, KeyMethodType
  <2>2. ASSUME NEW prefix \in Prefixes, NEW keys \in Arrays,
               KeyMethod(w, prefix, keys, TRUE)
        PROVE  TypeInv'
    BY <2>2, ArraysAreSeqs, KeyMethodType
  <2> QED
    BY <1>1, <2>1, <2>2, FlushType DEF Method
<1>2. ASSUME NEW w \in Procs, Step(w) PROVE TypeInv'
  <2>1. CASE AddNext(w)
    BY <2>1, AddNextType
  <2>2. CASE AddFail(w)
    <3>1. PICK r \in {"false", "null"} : Return(w, r)
      BY <2>2 DEF AddFail
    <3> QED
      BY <2>2, <3>1, ReturnType DEF AddFail
  <2>3. CASE GetNext(w)
    BY <2>3, GetNextType
  <2>4. CASE GetSkip(w)
    <3>1. PICK r \in {"false", "undefined", "died"} : Return(w, r)
      BY <2>4 DEF GetSkip
    <3> QED
      BY <2>4, <3>1, ReturnType DEF GetSkip
  <2>5. CASE DeleteNext(w)
    BY <2>5, DeleteNextType
  <2>6. CASE DeleteDie(w)
    BY <2>6, ReturnType DEF DeleteDie
  <2>7. CASE End(w)
    <3>1. call[w] \in Calls
      BY DEF TypeInv, TypeOK
    <3>2. PICK r : /\ Return(w, r)
                   /\ r = CASE call[w].op \in {"add", "delete"} -> "true"
                            [] call[w].op = "set" -> "null"
                            [] call[w].op = "get" -> "values"
      BY <2>7 DEF End
    <3>3. call[w].op \in {"add", "set", "get", "delete"}
      BY <2>7 DEF End, Busy, TypeInv, Keyed, Operations
    <3> QED
      BY <2>7, <3>2, <3>3, ReturnType DEF End
  <2> QED
    BY <1>2, <2>1, <2>2, <2>3, <2>4, <2>5, <2>6, <2>7 DEF Step
<1>3. ASSUME NEW k \in StoreKeys, Kick(k) PROVE TypeInv'
  BY <1>3 DEF Kick, TypeInv, TypeOK
<1>4. CASE Tick
  BY <1>4 DEF Tick, TypeInv, TypeOK
<1>5. CASE UNCHANGED vars
  BY <1>5 DEF vars, TypeInv, TypeOK
<1> QED
  BY <1>1, <1>2, <1>3, <1>4, <1>5 DEF Next, Quiet

(* The variables keep their types, and the loops of the array methods      *)
(* their place, whatever the interleaving.                                 *)
THEOREM TypeCorrect == Spec => []TypeOK
<1>1. Spec => []TypeInv
  BY TypeInit, TypeNext, PTL DEF Spec
<1>2. TypeInv => TypeOK
  BY DEF TypeInv
<1> QED
  BY <1>1, <1>2, PTL

(***************************************************************************)
(* The entries of the cache                                                *)
(***************************************************************************)

(* Two entries that hold the same.                                         *)
SameContents(d, e) ==
  d.len = e.len /\ d.flag = e.flag /\ d.size = e.size /\ d.value = e.value

(* The expiry of e has become that of d, or a delete has set it: to 1, or  *)
(* to a later time when it was given one.                                  *)
Redated(d, e) ==
  \/ d.expires = e.expires
  \/ d.expires = 1
  \/ d.expires # 0 /\ ~ (DeleteTtls \subseteq {0})

(* An entry is new only when yac_add_impl has just stored it: the other    *)
(* steps change its expiry or drop it.                                     *)
LEMMA CacheStep ==
  ASSUME TypeInv, [Next]_vars, NEW k \in StoreKeys, cache'[k] # NONE
  PROVE  \/ cache[k] # NONE /\ SameContents(cache'[k], cache[k]) /\ Redated(cache'[k], cache[k])
         \/ \E w \in Procs :
              /\ AddNext(w) /\ k = NextStoreKey(w)
              /\ \E e \in Encodings(call[w].value[Next1(w)]) :
                   /\ cache'[k].len = SetLen(Len(k), e.size)
                   /\ cache'[k].flag = e.flag /\ cache'[k].size = e.size
                   /\ cache'[k].value = call[w].value[Next1(w)]
                   /\ cache'[k].expires = 0 <=>
                        UpdateArguments(call[w], call[w].value[Next1(w)]).ttl = 0
<1> DEFINE Goal ==
         \/ cache[k] # NONE /\ SameContents(cache'[k], cache[k]) /\ Redated(cache'[k], cache[k])
         \/ \E w \in Procs :
              /\ AddNext(w) /\ k = NextStoreKey(w)
              /\ \E e \in Encodings(call[w].value[Next1(w)]) :
                   /\ cache'[k].len = SetLen(Len(k), e.size)
                   /\ cache'[k].flag = e.flag /\ cache'[k].size = e.size
                   /\ cache'[k].value = call[w].value[Next1(w)]
                   /\ cache'[k].expires = 0 <=>
                        UpdateArguments(call[w], call[w].value[Next1(w)]).ttl = 0
<1>1. ASSUME cache'[k] = cache[k] PROVE Goal
  BY <1>1 DEF SameContents, Redated
<1>2. ASSUME NEW w \in Procs, AddNext(w) PROVE Goal
  <2>1. Doing(w, Operations)
    BY <1>2, OperationsOf, DoingOperation DEF AddNext
  <2>2. NextStoreKey(w) \in StoreKeys /\ Len(NextStoreKey(w)) \in Nat
    BY <1>2, <2>1, NextStoreKeyType DEF AddNext
  <2> DEFINE v == call[w].value[Next1(w)]
             args == UpdateArguments(call[w], v)
  <2>3. v \in Values /\ args.ttl \in Nat
    BY <1>2, AddNextTakes
  <2>4. PICK e \in Encodings(v) : Takes(NextStoreKey(w), e, args.ttl, args.add)
    BY <1>2, AddNextTakes
  <2> DEFINE at == NextStoreKey(w)
             expires == IF args.ttl = 0 THEN 0 ELSE now + args.ttl
  <2>5. cache' = [cache EXCEPT ![at] =
            [len |-> SetLen(Len(at), e.size), flag |-> e.flag, size |-> e.size,
             value |-> v, expires |-> expires]]
    <3> HIDE DEF v, args
    <3> QED
      BY <2>2, <2>3, <2>4, TakesType
  <2>6. CASE k = at
    <3>1. cache'[k] = [len |-> SetLen(Len(at), e.size), flag |-> e.flag,
                       size |-> e.size, value |-> v, expires |-> expires]
      BY <2>2, <2>5, <2>6 DEF TypeInv, TypeOK
    <3>2. /\ cache'[k].len = SetLen(Len(k), e.size)
          /\ cache'[k].flag = e.flag /\ cache'[k].size = e.size
          /\ cache'[k].value = v /\ cache'[k].expires = expires
      BY <2>6, <3>1
    <3>3. expires = 0 <=> args.ttl = 0
      BY <2>3 DEF TypeInv, TypeOK
    <3> HIDE DEF expires
    <3> QED
      BY <1>2, <2>4, <2>6, <3>2, <3>3
  <2>7. CASE k # at
    BY <1>1, <2>2, <2>5, <2>7 DEF TypeInv, TypeOK
  <2> QED
    BY <2>6, <2>7
<1>3. ASSUME NEW w \in Procs, DeleteNext(w) PROVE Goal
  <2> DEFINE at == NextStoreKey(w)
  <2>1. CASE UNCHANGED cache
    BY <1>1, <2>1
  <2>2. CASE ~ UNCHANGED cache
    <3> DEFINE ttl == call[w].ttl
               expires == IF ttl = 0 THEN 1 ELSE now + ttl
    <3>1. cache' = [cache EXCEPT ![at].expires = expires]
      BY <1>3, <2>2 DEF DeleteNext, Removes
    <3>4. ttl \in DeleteTtls /\ ttl \in Nat /\ now \in Nat
      BY <1>3 DEF DeleteNext, Doing, TypeInv, TypeOK, Keyed, Calls
    <3>5. expires = 1 \/ (expires # 0 /\ ~ (DeleteTtls \subseteq {0}))
      <4> HIDE DEF ttl
      <4> QED
        BY <3>4
    <3> HIDE DEF expires, ttl
    <3>2. CASE k = at
      <4>1. cache[k] # NONE
        BY <1>3, <2>2, <3>2 DEF DeleteNext, Removes
      <4>2. cache[k] \in CacheEntries
        BY <4>1 DEF TypeInv, TypeOK
      <4>3. cache'[k] = [cache[k] EXCEPT !.expires = expires]
        BY <3>1, <3>2 DEF TypeInv, TypeOK
      <4>4. SameContents(cache'[k], cache[k]) /\ cache'[k].expires = expires
        BY <4>2, <4>3 DEF SameContents, CacheEntries
      <4>5. Redated(cache'[k], cache[k])
        BY <3>5, <4>4 DEF Redated
      <4> QED
        BY <4>1, <4>4, <4>5
    <3>3. CASE k # at
      BY <1>1, <3>1, <3>3 DEF TypeInv, TypeOK
    <3> QED
      BY <3>2, <3>3
  <2> QED
    BY <2>1, <2>2
<1>4. ASSUME NEW w \in Procs, Flush(w) PROVE Goal
  BY <1>1, <1>4 DEF Flush
<1>5. ASSUME NEW j \in StoreKeys, Kick(j) PROVE Goal
  BY <1>1, <1>5 DEF Kick, TypeInv, TypeOK
<1>6. ASSUME UNCHANGED cache PROVE Goal
  BY <1>1, <1>6
<1> HIDE DEF Goal
<1>7. ASSUME NEW w \in Procs, Step(w) PROVE Goal
  BY <1>2, <1>3, <1>6, <1>7 DEF Step, AddFail, GetNext, GetSkip, DeleteDie, End
<1>8. ASSUME NEW w \in Procs, Method(w) PROVE Goal
  <2>1. CASE Flush(w)
    BY <1>4, <2>1
  <2>2. ASSUME NEW p, NEW keys, NEW multi, KeyMethod(w, p, keys, multi)
        PROVE  UNCHANGED cache
    BY <2>2 DEF KeyMethod, AddBegin, GetBegin, DeleteBegin, Begin
  <2>3. Flush(w) \/ UNCHANGED cache
    BY <1>8, <2>2 DEF Method
  <2> QED
    BY <1>6, <2>1, <2>3
<1>9. Goal
  BY <1>5, <1>6, <1>7, <1>8 DEF Next, Tick, Quiet, vars
<1> QED
  BY <1>9 DEF Goal

(* Decoding looks at the contents only.                                    *)
LEMMA DecodingsOfContents ==
  ASSUME NEW d, NEW e, d.flag = e.flag, d.size = e.size, d.value = e.value
  PROVE  Decodings(d) = Decodings(e)
  BY DEF Decodings, Unpacks

(* The longest key fits its field of the header word.                      *)
LEMMA EntriesNext ==
  ASSUME MaxKey < KlenSpan, TypeInv, EntriesDecode, [Next]_vars
  PROVE  EntriesDecode'
<1> SUFFICES ASSUME NEW k \in StoreKeys, cache'[k] # NONE
             PROVE  /\ Decodings(cache'[k]) = {AsRead(cache'[k].value)}
                    /\ KlenOf(cache'[k].len) = Len(k)
                    /\ VlenOf(cache'[k].len) = cache'[k].size
  BY DEF EntriesDecode
<1>1. CASE cache[k] # NONE /\ SameContents(cache'[k], cache[k])
  <2>1. Decodings(cache'[k]) = Decodings(cache[k])
    BY <1>1, DecodingsOfContents DEF SameContents
  <2> QED
    BY <1>1, <2>1 DEF EntriesDecode, SameContents
<1>2. ASSUME NEW w \in Procs, AddNext(w), k = NextStoreKey(w),
             NEW e \in Encodings(call[w].value[Next1(w)]),
             cache'[k].len = SetLen(Len(k), e.size),
             cache'[k].flag = e.flag, cache'[k].size = e.size,
             cache'[k].value = call[w].value[Next1(w)]
      PROVE  /\ Decodings(cache'[k]) = {AsRead(cache'[k].value)}
             /\ KlenOf(cache'[k].len) = Len(k)
             /\ VlenOf(cache'[k].len) = cache'[k].size
  <2> DEFINE v == call[w].value[Next1(w)]
  <2>1. Doing(w, Operations)
    BY <1>2, OperationsOf, DoingOperation DEF AddNext
  <2>2. Len(k) \in Nat /\ Len(k) <= MaxKey
    BY <1>2, <2>1, NextStoreKeyType DEF AddNext
  <2>3. v \in PhpValues
    BY <1>2, AddNextTakes, ApiAssumption
  <2> HIDE DEF v
  <2>4. e.value = v /\ e.size \in Nat /\ e.size < VlenSpan /\ Decodings(e) = {AsRead(v)}
    BY <1>2, <2>3, EncodingsDecode DEF v
  <2>5. Decodings(cache'[k]) = {AsRead(v)} /\ cache'[k].value = v
    BY <1>2, <2>4, DecodingsOfContents DEF v
  <2>6. Len(k) < KlenSpan
    BY <2>2, KeyAssumption, EntryAssumption
  <2>7. KlenOf(SetLen(Len(k), e.size)) = Len(k) /\ VlenOf(SetLen(Len(k), e.size)) = e.size
    BY <2>2, <2>4, <2>6, LengthsUnpack
  <2> QED
    BY <1>2, <2>5, <2>7
<1> QED
  BY <1>1, <1>2, CacheStep

(* Every entry of the cache decodes to the value it was made of, and its   *)
(* header word has its lengths: yac_get_impl returns a value for every     *)
(* entry that yac_add_impl stored.                                         *)
THEOREM EntriesCorrect ==
  ASSUME MaxKey < KlenSpan
  PROVE  Spec => []EntriesDecode
<1>1. Init => EntriesDecode
  BY DEF Init, EntriesDecode
<1>2. TypeInv /\ EntriesDecode /\ [Next]_vars => EntriesDecode'
  BY EntriesNext
<1> QED
  BY <1>1, <1>2, TypeInit, TypeNext, PTL DEF Spec

(***************************************************************************)
(* What a get returns                                                      *)
(***************************************************************************)

(* The pairs of an add or set c are among those asked; what a get c has is *)
(* too.                                                                    *)
Backed(c, pairs) ==
  /\ c.op \in {"add", "set"} =>
       \A i \in 1 .. Len(c.keys) : \E a \in pairs :
         /\ a.text = Text(c.prefix, c.keys[i])
         /\ a.value = c.value[c.keys[i]] /\ a.ttl = c.ttl
  /\ \A i \in DOMAIN c.out : c.out[i] # NONE =>
       \E a \in pairs :
         a.text = Text(c.prefix, c.keys[i]) /\ AsRead(a.value) = c.out[i]

AskedInv ==
  /\ \A k \in StoreKeys : cache[k] # NONE =>
       \E a \in asked : a.text = k /\ a.value = cache[k].value
  /\ \A w \in Procs : Backed(call[w], asked)

(* What is backed stays backed when more is asked.                         *)
LEMMA BackedGrows ==
  ASSUME NEW c, NEW A, NEW B, A \subseteq B, Backed(c, A)
  PROVE  Backed(c, B)
  BY DEF Backed

(* Nothing that Backed looks at changes in the steps that take a key off   *)
(* todo or return.                                                         *)
LEMMA BackedStays ==
  ASSUME NEW c, NEW d, NEW A, Backed(c, A), d.op = c.op, d.keys = c.keys,
         d.prefix = c.prefix, d.value = c.value, d.out = c.out, d.ttl = c.ttl
  PROVE  Backed(d, A)
  BY DEF Backed

(* A frame is not touched, or it belongs to a method that begins, to flush,*)
(* or to a get with one more answer.                                       *)
LEMMA CallStep ==
  ASSUME TypeInv, AskedInv, EntriesDecode, ShortKeys, [Next]_vars, NEW u \in Procs
  PROVE  Backed(call'[u], asked') /\ asked \subseteq asked'
<1> DEFINE Goal == Backed(call'[u], asked') /\ asked \subseteq asked'
<1>1. call \in [Procs -> Calls] /\ Backed(call[u], asked) /\ call[u] \in Calls
  BY DEF TypeInv, TypeOK, AskedInv
<1>2. ASSUME call'[u] = call[u], asked \subseteq asked' PROVE Goal
  BY <1>1, <1>2, BackedGrows
<1>3. ASSUME NEW w \in Procs, NEW d, call' = [call EXCEPT ![w] = d],
             asked \subseteq asked', Backed(d, asked')
      PROVE  Goal
  <2>1. call'[u] = IF u = w THEN d ELSE call[u]
    BY <1>1, <1>3
  <2> QED
    BY <1>2, <1>3, <2>1
<1>4. ASSUME NEW w \in Procs, NEW d, d.out = <<>>,
             d.op \notin {"add", "set"}
      PROVE  Backed(d, asked')
  BY <1>4 DEF Backed
<1>5. ASSUME NEW w \in Procs, Flush(w) PROVE Goal
  <2> DEFINE d == [Call("flush", FALSE, <<>>, <<>>, NoValue, 0) EXCEPT
                     !.returns = IF enable THEN "true" ELSE "false"]
  <2>1. call' = [call EXCEPT ![w] = d] /\ asked' = asked
    BY <1>5 DEF Flush
  <2>2. d.out = <<>> /\ d.op = "flush"
    BY DEF Call
  <2> HIDE DEF d
  <2> QED
    BY <1>3, <1>4, <2>1, <2>2
<1>6. ASSUME NEW w \in Procs, NEW op, NEW multi, NEW prefix, NEW keys, NEW value,
             NEW ttl, Begin(w, Call(op, multi, prefix, keys, value, ttl)),
             asked \subseteq asked',
             op \in {"add", "set"} =>
               \A i \in 1 .. Len(keys) : \E a \in asked' :
                 a.text = Text(prefix, keys[i]) /\ a.value = value[keys[i]] /\ a.ttl = ttl
      PROVE  Goal
  <2> DEFINE c == Call(op, multi, prefix, keys, value, ttl)
             d == IF enable THEN c ELSE [c EXCEPT !.returns = "false"]
  <2>1. call' = [call EXCEPT ![w] = d]
    BY <1>6 DEF Begin
  <2>2. /\ d.op = op /\ d.keys = keys /\ d.prefix = prefix /\ d.value = value
        /\ d.out = <<>> /\ d.ttl = ttl
    BY DEF Call
  <2> HIDE DEF c, d
  <2>3. Backed(d, asked')
    BY <1>6, <2>2 DEF Backed
  <2> QED
    BY <1>3, <1>6, <2>1, <2>3
<1>7. ASSUME NEW w \in Procs, NEW prefix \in Prefixes, NEW keys \in Seq(Keys), NEW multi,
             KeyMethod(w, prefix, keys, multi)
      PROVE  Goal
  <2>1. ASSUME NEW op \in {"add", "set"}, AddBegin(w, op, prefix, keys, multi)
        PROVE  Goal
    <3>1. PICK value \in [{keys[i] : i \in DOMAIN keys} -> Values], ttl \in Ttls :
            /\ Begin(w, Call(op, multi, prefix, keys, value, ttl))
            /\ asked' = asked \cup
                 {[text |-> Text(prefix, key), value |-> value[key], ttl |-> ttl]
                    : key \in DOMAIN value}
      BY <2>1 DEF AddBegin
    <3>2. DOMAIN keys = 1 .. Len(keys)
      BY LenProperties
    <3>3. \A i \in 1 .. Len(keys) : keys[i] \in DOMAIN value
      BY <3>2
    <3>4. \A key \in DOMAIN value :
            \E a \in asked' :
              a.text = Text(prefix, key) /\ a.value = value[key] /\ a.ttl = ttl
      <4> TAKE key \in DOMAIN value
      <4> DEFINE a == [text |-> Text(prefix, key), value |-> value[key], ttl |-> ttl]
      <4>1. a \in asked' /\ a.text = Text(prefix, key) /\ a.value = value[key] /\ a.ttl = ttl
        BY <3>1
      <4> QED
        BY <4>1
    <3>5. asked \subseteq asked'
      BY <3>1
    <3> QED
      BY <1>6, <3>1, <3>3, <3>4, <3>5
  <2>2. CASE GetBegin(w, prefix, keys, multi)
    BY <1>6, <2>2 DEF GetBegin
  <2>3. CASE DeleteBegin(w, prefix, keys, multi)
    BY <1>6, <2>3 DEF DeleteBegin
  <2> HIDE DEF Goal
  <2> QED
    BY <1>7, <2>1, <2>2, <2>3 DEF KeyMethod
<1>8. ASSUME NEW w \in Procs, NEW r, Return(w, r), asked' = asked PROVE Goal
  <2> DEFINE d == [call[w] EXCEPT !.returns = r]
  <2>1. call' = [call EXCEPT ![w] = d]
    BY <1>8 DEF Return
  <2>2. call[w] \in Calls /\ Backed(call[w], asked)
    BY DEF TypeInv, TypeOK, AskedInv
  <2>3. /\ d.op = call[w].op /\ d.keys = call[w].keys /\ d.prefix = call[w].prefix
        /\ d.value = call[w].value /\ d.out = call[w].out /\ d.ttl = call[w].ttl
    BY <2>2 DEF Calls
  <2> HIDE DEF d
  <2>4. Backed(d, asked')
    BY <1>8, <2>2, <2>3, BackedStays
  <2> QED
    BY <1>3, <1>8, <2>1, <2>4
<1>9. ASSUME NEW w \in Procs, AddNext(w) PROVE Goal
  <2> DEFINE d == [call[w] EXCEPT !.todo = Tail(@), !.taken = @ + 1]
  <2>1. call' = [call EXCEPT ![w] = d] /\ asked' = asked
    BY <1>9 DEF AddNext
  <2>2. call[w] \in Calls /\ Backed(call[w], asked)
    BY DEF TypeInv, TypeOK, AskedInv
  <2>3. /\ d.op = call[w].op /\ d.keys = call[w].keys /\ d.prefix = call[w].prefix
        /\ d.value = call[w].value /\ d.out = call[w].out /\ d.ttl = call[w].ttl
    BY <2>2 DEF Calls
  <2> HIDE DEF d
  <2>4. Backed(d, asked')
    BY <2>1, <2>2, <2>3, BackedStays
  <2> QED
    BY <1>3, <2>1, <2>4
<1>10. ASSUME NEW w \in Procs, DeleteNext(w) PROVE Goal
  <2> DEFINE d == [call[w] EXCEPT !.todo = Tail(@)]
  <2>1. call' = [call EXCEPT ![w] = d] /\ asked' = asked
    BY <1>10 DEF DeleteNext
  <2>2. call[w] \in Calls /\ Backed(call[w], asked)
    BY DEF TypeInv, TypeOK, AskedInv
  <2>3. /\ d.op = call[w].op /\ d.keys = call[w].keys /\ d.prefix = call[w].prefix
        /\ d.value = call[w].value /\ d.out = call[w].out /\ d.ttl = call[w].ttl
    BY <2>2 DEF Calls
  <2> HIDE DEF d
  <2>4. Backed(d, asked')
    BY <2>1, <2>2, <2>3, BackedStays
  <2> QED
    BY <1>3, <2>1, <2>4
<1>11. ASSUME NEW w \in Procs, GetNext(w) PROVE Goal
  <2> DEFINE c == call[w]
             k == NextStoreKey(w)
             key == Next1(w)
  <2>1. Doing(w, Operations) /\ c.op = "get"
    BY <1>11, OperationsOf, DoingOperation DEF GetNext, Doing
  <2>2. /\ c \in Calls /\ InOrder(c) /\ c.todo # <<>> /\ Backed(c, asked)
        /\ c.prefix \in Prefixes /\ key \in Keys /\ k \in StoreKeys
    BY <2>1, NextStoreKeyType DEF AskedInv
  <2>3. PICK v \in Got(w) :
          call' = [call EXCEPT ![w].todo = Tail(@), ![w].out = Append(@, v)]
    BY <1>11 DEF GetNext
  <2>4. asked' = asked
    BY <1>11 DEF GetNext
  <2> DEFINE more == Append(c.out, v)
             d == [c EXCEPT !.todo = Tail(@), !.out = more]
             o == Len(c.out)
  <2>5. call' = [call EXCEPT ![w] = d]
    BY <2>3
  <2>6. /\ d.op = "get" /\ d.keys = c.keys /\ d.prefix = c.prefix /\ d.out = more
    BY <2>1, <2>2 DEF Calls
  <2>7. o \in Nat /\ key = c.keys[o + 1] /\ DOMAIN c.out = 1 .. o
    <3>1. c.out \in Seq(PhpValues \cup {NONE})
      BY <2>2 DEF Calls
    <3>2. o \in Nat /\ DOMAIN c.out = 1 .. o
      BY <3>1, LenProperties
    <3> DEFINE m == Len(c.keys)
               n == Len(c.todo)
    <3>3. m \in Nat /\ n \in Nat /\ key = c.keys[m - n + 1]
      BY <2>2, Pop DEF Next1
    <3>4. o + n = m
      BY <2>1, <2>2 DEF InOrder
    <3> HIDE DEF m, n, o
    <3>5. m - n + 1 = o + 1
      BY <3>2, <3>3, <3>4
    <3> QED
      BY <3>2, <3>3, <3>5
  <2>8. /\ DOMAIN more = 1 .. o + 1 /\ more[o + 1] = v
        /\ \A i \in 1 .. o : more[i] = c.out[i]
    <3> DEFINE S == PhpValues \cup {NONE}
    <3>1. c.out \in Seq(S)
      BY <2>2 DEF Calls
    <3> HIDE DEF S, c
    <3>2. c.out \in Seq(S \cup {v})
      BY <3>1, SeqMonotonic
    <3> QED
      BY <2>7, <3>2, AppendProperties, LenProperties
  <2>9. ASSUME v # NONE
        PROVE  \E a \in asked : a.text = Text(c.prefix, key) /\ AsRead(a.value) = v
    <3>1. NextFits(w) /\ Live(k) /\ v \in Decodings(cache[k])
      BY <2>3, <2>9 DEF Got
    <3>2. cache[k] # NONE /\ v = AsRead(cache[k].value)
      BY <2>2, <3>1 DEF Live, EntriesDecode
    <3>3. PICK a \in asked : a.text = k /\ a.value = cache[k].value
      BY <2>2, <3>2 DEF AskedInv
    <3>4. k = Text(c.prefix, key)
      BY <2>2, <3>1, StoreKeyIsText DEF NextStoreKey, NextFits
    <3> QED
      BY <3>2, <3>3, <3>4
  <2> HIDE DEF more, d, o, k, key, c
  <2>10. Backed(d, asked')
    <3>1. ASSUME NEW i \in DOMAIN d.out, d.out[i] # NONE
          PROVE  \E a \in asked' :
                   a.text = Text(d.prefix, d.keys[i]) /\ AsRead(a.value) = d.out[i]
      <4>1. i \in 1 .. o \/ i = o + 1
        BY <2>6, <2>7, <2>8, <3>1
      <4>2. CASE i \in 1 .. o
        BY <2>2, <2>4, <2>6, <2>7, <2>8, <3>1, <4>2 DEF Backed
      <4>3. CASE i = o + 1
        BY <2>4, <2>6, <2>7, <2>8, <2>9, <3>1, <4>3
      <4> QED
        BY <4>1, <4>2, <4>3
    <3> QED
      BY <2>6, <3>1 DEF Backed
  <2> QED
    BY <1>3, <2>4, <2>5, <2>10
<1> HIDE DEF Goal
<1>12. ASSUME NEW w \in Procs, Step(w) PROVE Goal
  BY <1>8, <1>9, <1>10, <1>11, <1>12
     DEF Step, AddFail, GetSkip, DeleteDie, End
<1>13. ASSUME NEW w \in Procs, Method(w) PROVE Goal
  <2>1. \A key \in Keys : <<key>> \in Seq(Keys)
    OBVIOUS
  <2> QED
    BY <1>5, <1>7, <1>13, <2>1, ArraysAreSeqs DEF Method
<1>14. ASSUME UNCHANGED <<call, asked>> PROVE Goal
  BY <1>2, <1>14
<1>15. Goal
  BY <1>12, <1>13, <1>14 DEF Next, Kick, Tick, Quiet, vars
<1> QED
  BY <1>15 DEF Goal

(* What was asked stays asked.                                             *)
LEMMA AskedGrows == [Next]_vars => asked \subseteq asked'
<1> SUFFICES ASSUME [Next]_vars PROVE asked \subseteq asked'
  OBVIOUS
<1>1. ASSUME NEW w, NEW p, NEW keys, NEW multi, KeyMethod(w, p, keys, multi)
      PROVE  asked \subseteq asked'
  <2>1. ASSUME NEW op, AddBegin(w, op, p, keys, multi) PROVE asked \subseteq asked'
    BY <2>1 DEF AddBegin
  <2> QED
    BY <1>1, <2>1 DEF KeyMethod, GetBegin, DeleteBegin
<1>2. ASSUME NEW w \in Procs, Step(w) PROVE asked' = asked
  BY <1>2 DEF Step, AddNext, AddFail, GetNext, GetSkip, DeleteNext, DeleteDie, End
<1>3. ASSUME NEW w \in Procs, Method(w) PROVE asked \subseteq asked'
  BY <1>1, <1>3 DEF Method, Flush
<1> QED
  BY <1>2, <1>3 DEF Next, Kick, Tick, Quiet, vars

(* AskedInv is inductive: an entry is backed when it is stored, and an     *)
(* answer of get when it is decoded from an entry.                         *)
LEMMA AskedNext ==
  ASSUME MaxKey < KlenSpan, ShortKeys, TypeInv, EntriesDecode, AskedInv, [Next]_vars
  PROVE  AskedInv'
<1>1. \A u \in Procs : Backed(call'[u], asked') /\ asked \subseteq asked'
  BY CallStep
<1>2. ASSUME NEW k \in StoreKeys, cache'[k] # NONE
      PROVE  \E a \in asked' : a.text = k /\ a.value = cache'[k].value
  <2>1. CASE cache[k] # NONE /\ SameContents(cache'[k], cache[k])
    <3>1. PICK a \in asked : a.text = k /\ a.value = cache[k].value
      BY <2>1 DEF AskedInv
    <3>2. asked \subseteq asked'
      BY AskedGrows
    <3> QED
      BY <2>1, <3>1, <3>2 DEF SameContents
  <2>2. ASSUME NEW w \in Procs, AddNext(w), k = NextStoreKey(w),
               cache'[k].value = call[w].value[Next1(w)]
        PROVE  \E a \in asked' : a.text = k /\ a.value = cache'[k].value
    <3> DEFINE c == call[w]
    <3>1. Doing(w, Operations) /\ c.op \in {"add", "set"} /\ NextFits(w)
      BY <2>2, OperationsOf, DoingOperation DEF AddNext, Doing
    <3>2. /\ c \in Calls /\ InOrder(c) /\ c.todo # <<>> /\ Backed(c, asked)
          /\ c.prefix \in Prefixes /\ Next1(w) \in Keys
      BY <3>1, NextStoreKeyType DEF AskedInv
    <3>3. PICK i \in 1 .. Len(c.keys) : Next1(w) = c.keys[i]
      BY <3>2, Pop DEF Next1
    <3>4. PICK a \in asked : a.text = Text(c.prefix, Next1(w)) /\ a.value = c.value[Next1(w)]
      BY <3>1, <3>2, <3>3 DEF Backed
    <3>5. k = Text(c.prefix, Next1(w))
      BY <2>2, <3>1, <3>2, StoreKeyIsText DEF NextStoreKey, NextFits
    <3>6. asked' = asked
      BY <2>2 DEF AddNext
    <3> QED
      BY <2>2, <3>4, <3>5, <3>6
  <2> QED
    BY <1>2, <2>1, <2>2, CacheStep
<1> QED
  BY <1>1, <1>2 DEF AskedInv

(* A get returns for a key only what was given to an add or set of the     *)
(* same text, when no composed key fills the buffer: for every             *)
(* interleaving of array methods, deletions, flushes and evictions.        *)
THEOREM GotCorrect ==
  ASSUME MaxKey < KlenSpan, ShortKeys
  PROVE  Spec => []GotWasAsked
<1>1. Init => AskedInv
  BY DEF Init, AskedInv, Backed, Idle, Call
<1>2. TypeInv /\ EntriesDecode /\ AskedInv /\ [Next]_vars => AskedInv'
  BY AskedNext
<1>3. AskedInv => GotWasAsked
  BY DEF AskedInv, Backed, GotWasAsked
<1>4. Init => EntriesDecode
  BY DEF Init, EntriesDecode
<1>5. TypeInv /\ EntriesDecode /\ [Next]_vars => EntriesDecode'
  BY EntriesNext
<1> QED
  BY <1>1, <1>2, <1>3, <1>4, <1>5, TypeInit, TypeNext, PTL DEF Spec

(***************************************************************************)
(* How long an entry stays                                                 *)
(***************************************************************************)

(* An entry was asked for, and its expiry says for ever exactly when the   *)
(* one who asked did; after a delete, which may give a time, it never does.*)
ExpiryInv ==
  \A k \in StoreKeys : cache[k] # NONE =>
    \E a \in asked :
      /\ a.text = k /\ a.value = cache[k].value
      /\ cache[k].expires = 0 => a.ttl = 0
      /\ a.ttl = 0 /\ DeleteTtls \subseteq {0} => cache[k].expires \in {0, 1}

(* An entry of a key without scalars gets the time to live that was asked. *)
LEMMA ExpiryNext ==
  ASSUME ShortKeys, \A v \in Values : v.type \notin Scalars,
         TypeInv, AskedInv, ExpiryInv, [Next]_vars
  PROVE  ExpiryInv'
<1> DEFINE Good(d, k) ==
      \E a \in asked' :
        /\ a.text = k /\ a.value = d.value
        /\ d.expires = 0 => a.ttl = 0
        /\ a.ttl = 0 /\ DeleteTtls \subseteq {0} => d.expires \in {0, 1}
<1>1. ASSUME NEW k \in StoreKeys, cache'[k] # NONE
      PROVE  Good(cache'[k], k)
  <2>1. CASE cache[k] # NONE /\ SameContents(cache'[k], cache[k]) /\ Redated(cache'[k], cache[k])
    <3>1. PICK a \in asked :
            /\ a.text = k /\ a.value = cache[k].value
            /\ cache[k].expires = 0 => a.ttl = 0
            /\ a.ttl = 0 /\ DeleteTtls \subseteq {0} => cache[k].expires \in {0, 1}
      BY <2>1 DEF ExpiryInv
    <3>2. a \in asked'
      BY AskedGrows
    <3>3. a.value = cache'[k].value
      BY <2>1, <3>1 DEF SameContents
    <3>4. cache'[k].expires = 0 => a.ttl = 0
      BY <2>1, <3>1 DEF Redated
    <3>5. a.ttl = 0 /\ DeleteTtls \subseteq {0} => cache'[k].expires \in {0, 1}
      BY <2>1, <3>1 DEF Redated
    <3> QED
      BY <3>1, <3>2, <3>3, <3>4, <3>5
  <2>2. ASSUME NEW w \in Procs, AddNext(w), k = NextStoreKey(w),
               cache'[k].value = call[w].value[Next1(w)],
               cache'[k].expires = 0 <=>
                 UpdateArguments(call[w], call[w].value[Next1(w)]).ttl = 0
        PROVE  Good(cache'[k], k)
    <3> DEFINE c == call[w]
               v == c.value[Next1(w)]
    <3>1. Doing(w, Operations) /\ c.op \in {"add", "set"} /\ NextFits(w)
      BY <2>2, OperationsOf, DoingOperation DEF AddNext, Doing
    <3>2. /\ c \in Calls /\ InOrder(c) /\ c.todo # <<>> /\ Backed(c, asked)
          /\ c.prefix \in Prefixes /\ Next1(w) \in Keys
      BY <3>1, NextStoreKeyType DEF AskedInv
    <3>3. PICK i \in 1 .. Len(c.keys) : Next1(w) = c.keys[i]
      BY <3>2, Pop DEF Next1
    <3>4. PICK a \in asked :
            a.text = Text(c.prefix, Next1(w)) /\ a.value = v /\ a.ttl = c.ttl
      BY <3>1, <3>2, <3>3 DEF Backed
    <3>5. k = Text(c.prefix, Next1(w))
      BY <2>2, <3>1, <3>2, StoreKeyIsText DEF NextStoreKey, NextFits
    <3>6. asked' = asked
      BY <2>2 DEF AddNext
    <3>7. v.type \notin Scalars
      BY <2>2, AddNextTakes
    <3>8. cache'[k].expires = 0 <=> a.ttl = 0
      BY <2>2, <3>4, <3>7 DEF UpdateArguments
    <3> QED
      BY <2>2, <3>4, <3>5, <3>6, <3>8
  <2> QED
    BY <1>1, <2>1, <2>2, CacheStep
<1> QED
  BY <1>1 DEF ExpiryInv

(* ExpiryInv holds in every state.                                         *)
LEMMA ExpiryHolds ==
  ASSUME MaxKey < KlenSpan, ShortKeys, \A v \in Values : v.type \notin Scalars
  PROVE  Spec => [](TypeInv /\ ExpiryInv)
<1>1. Init => AskedInv /\ EntriesDecode /\ ExpiryInv
  BY DEF Init, AskedInv, Backed, Idle, Call, EntriesDecode, ExpiryInv
<1>2. TypeInv /\ EntriesDecode /\ AskedInv /\ [Next]_vars => AskedInv'
  BY AskedNext
<1>3. TypeInv /\ EntriesDecode /\ [Next]_vars => EntriesDecode'
  BY EntriesNext
<1>4. TypeInv /\ AskedInv /\ ExpiryInv /\ [Next]_vars => ExpiryInv'
  BY ExpiryNext
<1> QED
  BY <1>1, <1>2, <1>3, <1>4, TypeInit, TypeNext, PTL DEF Spec

(* yac_add_impl passes the time to live on for the values that are not     *)
(* scalars: an entry is there for ever when, and only when, it was given   *)
(* without one, as long as deletes take effect at once.  A delete with a   *)
(* time gives an end to an entry that had none.                            *)
THEOREM AsAskedCorrect ==
  ASSUME MaxKey < KlenSpan, ShortKeys, \A v \in Values : v.type \notin Scalars,
         DeleteTtls \subseteq {0}
  PROVE  Spec => []EntriesAsAsked
<1>1. ExpiryInv => EntriesAsAsked
  <2> SUFFICES ASSUME ExpiryInv, NEW k \in StoreKeys, cache[k] # NONE
               PROVE  \E a \in asked :
                        /\ a.text = k /\ a.value = cache[k].value
                        /\ cache[k].expires # 1 => (a.ttl = 0 <=> cache[k].expires = 0)
    BY DEF EntriesAsAsked
  <2>1. PICK a \in asked :
          /\ a.text = k /\ a.value = cache[k].value
          /\ cache[k].expires = 0 => a.ttl = 0
          /\ a.ttl = 0 /\ DeleteTtls \subseteq {0} => cache[k].expires \in {0, 1}
    BY DEF ExpiryInv
  <2> QED
    BY <2>1
<1> QED
  BY <1>1, ExpiryHolds, PTL

(* Whatever time a delete is given, yac_add_impl and yac_storage_delete    *)
(* leave no entry for ever whose value was asked for with an end only.     *)
EverAsAsked ==
  \A k \in StoreKeys : cache[k] # NONE /\ cache[k].expires = 0 =>
    \E a \in asked : a.text = k /\ a.value = cache[k].value /\ a.ttl = 0

(* An entry that is not a scalar stays for ever only when it was given     *)
(* without a time to live, whatever deletes do.                            *)
THEOREM EverCorrect ==
  ASSUME MaxKey < KlenSpan, ShortKeys, \A v \in Values : v.type \notin Scalars
  PROVE  Spec => []EverAsAsked
<1>1. ExpiryInv => EverAsAsked
  BY DEF ExpiryInv, EverAsAsked
<1> QED
  BY <1>1, ExpiryHolds, PTL

(***************************************************************************)
(* What an add does and reports                                            *)
(***************************************************************************)

(* A step of one worker leaves the frames of the others alone, and a       *)
(* method begins only in a worker that is in none.                         *)
LEMMA OwnFrame ==
  ASSUME TypeInv, [Next]_vars, NEW w \in Procs, call'[w] # call[w]
  PROVE  Step(w) \/ (Method(w) /\ ~ Busy(w))
<1>1. call \in [Procs -> Calls]
  BY DEF TypeInv, TypeOK
<1>2. ASSUME NEW u \in Procs, NEW p, NEW keys, NEW multi, KeyMethod(u, p, keys, multi)
      PROVE  ~ Busy(u) /\ (u # w => call'[w] = call[w])
  <2>1. ASSUME NEW c, Begin(u, c) PROVE ~ Busy(u) /\ (u # w => call'[w] = call[w])
    BY <1>1, <2>1 DEF Begin
  <2> QED
    BY <1>2, <2>1 DEF KeyMethod, AddBegin, GetBegin, DeleteBegin
<1>3. ASSUME NEW u \in Procs, Method(u)
      PROVE  ~ Busy(u) /\ (u # w => call'[w] = call[w])
  <2>1. CASE Flush(u)
    BY <1>1, <2>1 DEF Flush
  <2>2. CASE ~ Flush(u)
    BY <1>2, <1>3, <2>2 DEF Method
  <2> QED
    BY <2>1, <2>2
<1>4. ASSUME NEW u \in Procs, Step(u), u # w
      PROVE  call'[w] = call[w]
  <2>1. CASE GetNext(u)
    BY <1>1, <1>4, <2>1 DEF GetNext
  <2>2. CASE AddNext(u) \/ DeleteNext(u)
    BY <1>1, <1>4, <2>2 DEF AddNext, DeleteNext
  <2>3. ASSUME NEW r, Return(u, r) PROVE call'[w] = call[w]
    BY <1>1, <1>4, <2>3 DEF Return
  <2> QED
    BY <1>4, <2>1, <2>2, <2>3 DEF Step, AddFail, GetSkip, DeleteDie, End
<1> QED
  BY <1>3, <1>4 DEF Next, Kick, Tick, Quiet, vars

(* Without scalars no add changes a live entry, whatever the other workers *)
(* do between the keys of an array.                                        *)
THEOREM AddCorrect ==
  ASSUME \A v \in Values : v.type \notin Scalars
  PROVE  Spec => AddNeverOverwrites
<1>1. TypeInv /\ [Next]_vars => AddKeepsLive
  <2> SUFFICES ASSUME TypeInv, [Next]_vars, NEW w \in Procs, NEW k \in StoreKeys,
                      Doing(w, {"add"}), call'[w] # call[w], Live(k)
               PROVE  cache'[k] = cache[k]
    BY DEF AddKeepsLive
  <2>1. Step(w)
    BY OwnFrame DEF Doing
  <2>2. CASE AddNext(w)
    <3> DEFINE v == call[w].value[Next1(w)]
               args == UpdateArguments(call[w], v)
    <3>1. v \in Values
      BY <2>2, AddNextTakes
    <3>2. PICK e \in Encodings(v) : Takes(NextStoreKey(w), e, args.ttl, args.add)
      BY <2>2, AddNextTakes
    <3>3. args.add = 1
      BY <3>1 DEF UpdateArguments, AddFlag, Doing
    <3> HIDE DEF args
    <3>4. ~ Live(NextStoreKey(w))
      BY <3>2, <3>3 DEF Takes
    <3>5. k # NextStoreKey(w)
      BY <3>4
    <3> QED
      BY <3>2, <3>5 DEF Takes, TypeInv, TypeOK
  <2>3. CASE ~ AddNext(w)
    BY <2>1, <2>3 DEF Step, Doing, AddFail, GetNext, GetSkip, DeleteNext, DeleteDie, End
  <2> QED
    BY <2>2, <2>3
<1> QED
  BY <1>1, TypeInit, TypeNext, PTL DEF Spec, AddNeverOverwrites

(* An add of several keys returns true when every pair was taken, and      *)
(* false when one was not.                                                 *)
THEOREM ReportsCorrect == Spec => []AddReportsAll
<1>1. Init => AddReportsAll
  BY DEF Init, AddReportsAll, Idle, Call
<1>2. TypeInv /\ AddReportsAll /\ [Next]_vars => AddReportsAll'
  <2> SUFFICES ASSUME TypeInv, AddReportsAll, [Next]_vars, NEW w \in Procs,
                      call'[w].op = "add"
               PROVE  /\ call'[w].returns = "true" => call'[w].taken = Len(call'[w].keys)
                      /\ call'[w].returns = "false" /\ enable' =>
                           call'[w].taken < Len(call'[w].keys)
    BY DEF AddReportsAll
  <2> DEFINE c == call[w]
             d == call'[w]
             Goal == /\ d.returns = "true" => d.taken = Len(d.keys)
                     /\ d.returns = "false" /\ enable' => d.taken < Len(d.keys)
  <2>1. c \in Calls /\ InOrder(c) /\ call \in [Procs -> Calls]
    BY DEF TypeInv, TypeOK
  <2>2. enable' = enable
    <3>1. ASSUME NEW u, NEW p, NEW keys, NEW multi, KeyMethod(u, p, keys, multi)
          PROVE  enable' = enable
      BY <3>1 DEF KeyMethod, AddBegin, GetBegin, DeleteBegin, Begin
    <3>2. ASSUME NEW u \in Procs, Method(u) PROVE enable' = enable
      BY <3>1, <3>2 DEF Method, Flush
    <3>3. ASSUME NEW u \in Procs, Step(u) PROVE enable' = enable
      BY <3>3 DEF Step, AddNext, AddFail, GetNext, GetSkip, DeleteNext, DeleteDie, End
    <3> QED
      BY <3>2, <3>3 DEF Next, Kick, Tick, Quiet, vars
  <2>3. CASE d = c
    BY <2>2, <2>3 DEF AddReportsAll
  <2>4. ASSUME Step(w), d # c PROVE Goal
    <3>1. ASSUME NEW r, Return(w, r), c.op = "add", r = "true" => c.todo = <<>>,
                 r = "false" => c.todo # <<>>
          PROVE  Goal
      <4>1. d.returns = r /\ d.keys = c.keys /\ d.taken = c.taken
        BY <2>1, <3>1 DEF Return, Calls
      <4>2. /\ c.taken \in Nat /\ Len(c.todo) \in Nat /\ Len(c.keys) \in Nat
            /\ c.todo = <<>> <=> Len(c.todo) = 0
        BY <2>1, EmptySeq, LenProperties DEF Calls
      <4>3. c.taken + Len(c.todo) = Len(c.keys)
        BY <2>1, <3>1 DEF InOrder
      <4>4. c.todo = <<>> => c.taken = Len(c.keys)
        BY <4>2, <4>3
      <4>5. c.todo # <<>> => c.taken < Len(c.keys)
        BY <4>2, <4>3
      <4> QED
        BY <3>1, <4>1, <4>4, <4>5
    <3>2. CASE AddNext(w)
      <4>1. d.returns = "pending"
        BY <2>1, <3>2 DEF AddNext, Doing, Busy, Calls
      <4> QED
        BY <4>1
    <3>3. CASE AddFail(w)
      <4>1. c.todo # <<>> /\ Return(w, IF c.op = "add" THEN "false" ELSE "null")
        BY <3>3 DEF AddFail, Doing
      <4>2. d.op = c.op
        BY <2>1, <4>1 DEF Return, Calls
      <4> QED
        BY <3>1, <4>1, <4>2
    <3>4. CASE End(w)
      <4>1. c.todo = <<>>
        BY <3>4 DEF End
      <4>2. c.op = "add"
        BY <2>1, <3>4 DEF End, Return, Calls
      <4>3. Return(w, "true")
        BY <3>4, <4>2 DEF End
      <4> QED
        BY <3>1, <4>1, <4>2, <4>3
    <3>5. CASE GetNext(w) \/ GetSkip(w) \/ DeleteNext(w) \/ DeleteDie(w)
      <4>1. d.op = c.op
        BY <2>1, <3>5 DEF GetNext, GetSkip, DeleteNext, DeleteDie, Return, Calls
      <4> QED
        BY <3>5, <4>1 DEF GetNext, GetSkip, DeleteNext, DeleteDie, Doing
    <3> HIDE DEF Goal
    <3> QED
      BY <2>4, <3>2, <3>3, <3>4, <3>5 DEF Step
  <2>5. ASSUME Method(w) PROVE Goal
    <3>1. ASSUME NEW op, NEW multi, NEW p, NEW keys, NEW value, NEW ttl,
                 Begin(w, Call(op, multi, p, keys, value, ttl))
          PROVE  Goal
      <4>1. d.returns = IF enable THEN "pending" ELSE "false"
        BY <2>1, <3>1 DEF Begin, Call
      <4> QED
        BY <2>2, <4>1
    <3>2. ASSUME NEW p, NEW keys, NEW multi, KeyMethod(w, p, keys, multi)
          PROVE  Goal
      <4> HIDE DEF Goal
      <4> QED
        BY <3>1, <3>2 DEF KeyMethod, AddBegin, GetBegin, DeleteBegin
    <3>3. ~ Flush(w)
      BY <2>1 DEF Flush, Call
    <3> HIDE DEF Goal
    <3> QED
      BY <2>5, <3>2, <3>3 DEF Method
  <2> QED
    BY <2>3, <2>4, <2>5, OwnFrame
<1> QED
  BY <1>1, <1>2, TypeInit, TypeNext, PTL DEF Spec

=============================================================================
