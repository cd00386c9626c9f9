-------------------------- MODULE YacStorageProofs --------------------------
(***************************************************************************)
(* Proofs about yac_storage for every number of workers, keys, slots,      *)
(* blocks and values.                                                      *)
(***************************************************************************)
EXTENDS YacStorage, SequenceTheorems, TLAPS

(***************************************************************************)
(* The operators of YacLayout                                              *)
(***************************************************************************)

LEMMA SlotIdsNonempty == 0 \in SlotIds
  BY LayoutAssumption DEF SlotIds

(* h & slots_mask stays inside the slot array, at every probe.             *)
LEMMA ProbeSlotType ==
  ASSUME NEW key \in Keys, NEW n \in 0 .. 3
  PROVE  ProbeSlot(key, n) \in SlotIds
<1>1. HashOf(key) \in Nat /\ Stride(key) \in Nat
  BY LayoutAssumption DEF HashOf, Stride
<1>2. n * Stride(key) \in Nat
  BY <1>1
<1> DEFINE x == HashOf(key) + n * Stride(key)
<1>3. x \in Nat
  BY <1>1, <1>2
<1> HIDE DEF x
<1>4. x % SlotsSize \in 0 .. SlotsSize - 1
  BY <1>3, LayoutAssumption
<1> QED
  BY <1>4 DEF x, ProbeSlot, SlotIds

(* yac_crc32 never reads outside the value: its last sampled byte is       *)
(* (Window - 1) * (size / Window) bytes in.                                *)
LEMMA SampleIndex ==
  ASSUME NEW l \in Nat, l >= Window, NEW j \in 1 .. Window
  PROVE  1 + (j - 1) * (l \div Window) \in 1 .. l
<1> DEFINE q == l \div Window
<1>1. Window \in Nat /\ Window > 0
  BY LayoutAssumption
<1>2. q \in Nat /\ q * Window <= l
  BY <1>1, Z3
<1>3. q >= 1
  BY <1>1, Z3
<1> HIDE DEF q
<1>4. (j - 1) * q \in Nat /\ (j - 1) * q <= (Window - 1) * q
  BY <1>1, <1>2, Z3
<1>5. (Window - 1) * q = q * Window - q
  BY <1>1, <1>2, Z3
<1> QED
  BY <1>1, <1>2, <1>3, <1>4, <1>5 DEF q

LEMMA SampleType ==
  ASSUME NEW d \in Seq(Byte)
  PROVE  Sample(d) \in Seq(Byte)
<1>1. CASE Len(d) < Window
  BY <1>1 DEF Sample
<1>2. CASE ~ (Len(d) < Window)
  <2>1. Len(d) \in Nat /\ Len(d) >= Window
    BY <1>2, LayoutAssumption
  <2>2. \A j \in 1 .. Window : d[1 + (j - 1) * (Len(d) \div Window)] \in Byte
    BY <2>1, SampleIndex
  <2>3. Sample(d) \in [1 .. Window -> Byte]
    BY <1>2, <2>2 DEF Sample
  <2> QED
    BY <2>3, LayoutAssumption
<1> QED
  BY <1>1, <1>2

(* The checksum of a value no longer than the window covers every byte of  *)
(* it: two such values of the same length with equal samples are equal.    *)
LEMMA SampleCoversShortValues ==
  ASSUME NEW d \in Seq(Byte), NEW e \in Seq(Byte),
         Len(d) = Len(e), Len(d) <= Window, Sample(d) = Sample(e)
  PROVE  d = e
<1>1. CASE Len(d) < Window
  BY <1>1 DEF Sample
<1>2. CASE Len(d) = Window
  <2>1. Window \in Nat /\ Window > 0 /\ Window \div Window = 1
    BY LayoutAssumption, Z3
  <2>2. \A j \in 1 .. Window : 1 + (j - 1) * (Window \div Window) = j
    BY <2>1
  <2>3. /\ Sample(d) = [j \in 1 .. Window |-> d[1 + (j - 1) * (Window \div Window)]]
        /\ Sample(e) = [j \in 1 .. Window |-> e[1 + (j - 1) * (Window \div Window)]]
    BY <1>2, <2>1 DEF Sample
  <2>4. ASSUME NEW j \in 1 .. Window
        PROVE  d[j] = e[j]
    <3>1. Sample(d)[j] = d[j] /\ Sample(e)[j] = e[j]
      BY <2>2, <2>3
    <3> QED
      BY <3>1
  <2> QED
    BY <1>2, <2>4, SeqEqual
<1> QED
  BY <1>1, <1>2, LayoutAssumption

(***************************************************************************)
(* Type correctness                                                        *)
(***************************************************************************)

Pc == FindPc \cup PutPc \cup {"idle", "crashed"}

LEMMA ZeroTypes == ZeroSlot \in Slot /\ ZeroBlock \in Block
  BY StorageAssumption DEF ZeroSlot, Slot, ZeroHeader, Header, ZeroBlock, Block

LEMMA IdleFrameType == IdleFrame \in Frame
  BY ZeroTypes, SlotIdsNonempty DEF IdleFrame, Frame

(* A copy of a slot, torn or not, has the type of a slot.                  *)
LEMMA SlotCopiesType ==
  ASSUME TypeOK, NEW s \in SlotIds
  PROVE  SlotCopies(s) \subseteq Slot
<1>1. SlotImages(s) \subseteq Slot
  BY DEF TypeOK, SlotImages, Frame
<1>2. CASE TornCopies
  BY <1>1, <1>2 DEF SlotCopies, Slot
<1>3. CASE ~ TornCopies
  BY <1>3 DEF SlotCopies, TypeOK
<1> QED
  BY <1>2, <1>3

(* So does a copy of a block, however much of it an update has rewritten.  *)
LEMMA BlockImagesType ==
  ASSUME TypeOK, NEW a \in Addrs
  PROVE  BlockImages(a) \subseteq Block
<1>1. vals[a] \in Block
  BY DEF TypeOK
<1>2. ASSUME NEW u \in Workers
      PROVE  Filled(u, a) \in Block
  <2>1. frame[u].tv \in Nat /\ frame[u].k.len \in Header /\ frame[u].s \in Seq(Byte)
    BY DEF TypeOK, Frame, Slot
  <2>2. \A j \in 1 .. BlockLen : vals[a].data[j] \in Byte
    BY <1>1 DEF Block
  <2>3. Len(frame[u].s) \in Nat
        /\ \A j \in 1 .. Len(frame[u].s) : frame[u].s[j] \in Byte
    BY <2>1
  <2>4. [j \in 1 .. BlockLen |-> IF j <= Len(frame[u].s) THEN frame[u].s[j]
                                 ELSE vals[a].data[j]] \in [1 .. BlockLen -> Byte]
    BY <2>2, <2>3, StorageAssumption
  <2> QED
    BY <2>1, <2>4 DEF Filled, Block
<1> QED
  BY <1>1, <1>2 DEF BlockImages

LEMMA ByteCopiesType ==
  ASSUME NEW a, NEW n \in Nat, NEW s \in ByteCopies(a, n)
  PROVE  s \in [1 .. n -> Byte] /\ s \in Seq(Byte) /\ Len(s) = n
<1>1. s \in [1 .. n -> Byte]
  BY DEF ByteCopies
<1> QED
  BY <1>1

(* A worker inside a call has a key, and a block once it needs one.        *)
UsesBlock == {"readVal", "verify", "expire", "copy", "touch"} \cup PutPc

Equipped(f) ==
  /\ f.pc \in FindPc \cup PutPc => f.key \in Keys
  /\ f.pc \in UsesBlock => f.k.val \in Addrs

TypeInv == TypeOK /\ \A w \in Workers : Equipped(frame[w])

LEMMA TypeInit == Init => TypeInv
<1> SUFFICES ASSUME Init PROVE TypeInv
  OBVIOUS
<1>1. TypeOK
  BY ZeroTypes, IdleFrameType, StorageAssumption DEF Init, TypeOK
<1>2. \A w \in Workers : Equipped(frame[w])
  BY DEF Init, IdleFrame, Equipped, UsesBlock, FindPc, PutPc
<1> QED
  BY <1>1, <1>2 DEF TypeInv

(* Moving a worker on, and nothing else, keeps the frames well typed.      *)
LEMMA GotoType ==
  ASSUME TypeOK, NEW w \in Workers, NEW label \in Pc,
         Goto(w, label) \/ Drop(w, label)
  PROVE  frame' \in [Workers -> Frame]
<1>1. CASE Goto(w, label)
  BY <1>1 DEF TypeOK, Goto, Frame, Pc
<1>2. CASE Drop(w, label)
  BY <1>2, IdleFrameType DEF TypeOK, Drop, WithoutEntry, Frame, Pc
<1> QED
  BY <1>1, <1>2

LEMMA TypeFind ==
  ASSUME TypeInv, NEW w \in Workers,
         FindStep(w) \/ \E key \in Keys : FindStart(w, key)
  PROVE  TypeOK'
<1> DEFINE f == frame[w]
<1>0. TypeOK /\ Equipped(f) /\ f \in Frame /\ f.k \in Slot
  BY DEF TypeInv, TypeOK, Frame
<1>1. ASSUME NEW key \in Keys, FindStart(w, key) PROVE TypeOK'
  <2>0. /\ finds \in Nat /\ finds' = finds + 1
        /\ UNCHANGED <<shared, now, stored, writes>>
    BY <1>0, <1>1 DEF FindStart, TypeOK
  <2>1. PICK k \in SlotCopies(ProbeSlot(key, 0)) :
          frame' = [frame EXCEPT ![w] =
            IF k.val # NULL /\ HashMatches(k, key)
            THEN [IdleFrame EXCEPT !.pc = "readVal", !.key = key,
                    !.p = ProbeSlot(key, 0), !.k = k]
            ELSE [IdleFrame EXCEPT !.pc = IF k.val = NULL THEN "miss" ELSE "probe",
                    !.key = key]]
    BY <1>1 DEF FindStart
  <2>2. ProbeSlot(key, 0) \in SlotIds
    BY ProbeSlotType
  <2>3. k \in Slot
    BY <1>0, <2>2, SlotCopiesType
  <2>4. frame' \in [Workers -> Frame]
    BY <1>0, <2>1, <2>2, <2>3, IdleFrameType DEF TypeOK, Frame, FindPc
  <2> QED
    BY <1>0, <2>0, <2>4 DEF TypeOK, shared
<1>2. CASE ReadVal(w)
  <2>1. Drop(w, "probe") \/ Drop(w, "miss") \/ Goto(w, "verify")
    BY <1>2 DEF ReadVal
  <2>2. frame' \in [Workers -> Frame]
    BY <1>0, <2>1, GotoType DEF Pc, FindPc
  <2>3. UNCHANGED <<shared, now, history>>
    BY <1>2 DEF ReadVal
  <2> QED
    BY <1>0, <2>2, <2>3 DEF TypeOK, shared, history
<1>3. CASE Verify(w)
  BY <1>0, <1>3 DEF Verify, TypeOK, shared, history, Frame, FindPc
<1>4. CASE Expire(w)
  <2>1. slots' \in [SlotIds -> Slot]
    BY <1>0, <1>4 DEF Expire, TypeOK, Slot
  <2>2. frame' \in [Workers -> Frame]
    BY <1>0, <1>4, GotoType DEF Expire, Pc, FindPc
  <2> QED
    BY <1>0, <1>4, <2>1, <2>2 DEF Expire, TypeOK, history
<1>5. CASE Copy(w)
  <2>1. PICK s \in ByteCopies(f.k.val, f.k.len.vlen) :
          \/ frame' = [frame EXCEPT ![w].s = s, ![w].pc = "touch"]
          \/ Drop(w, "miss")
    BY <1>5 DEF Copy
  <2>2. s \in Seq(Byte)
    BY <1>0, ByteCopiesType DEF Slot, Header
  <2>3. frame' \in [Workers -> Frame]
    <3>1. CASE Drop(w, "miss")
      BY <1>0, <3>1, GotoType DEF Pc, FindPc
    <3>2. CASE frame' = [frame EXCEPT ![w].s = s, ![w].pc = "touch"]
      BY <1>0, <2>2, <3>2 DEF TypeOK, Frame, FindPc
    <3> QED
      BY <2>1, <3>1, <3>2
  <2> QED
    BY <1>0, <1>5, <2>3 DEF Copy, TypeOK, shared, history
<1>6. CASE Touch(w)
  <2>1. vals' \in [Addrs -> Block]
    BY <1>0, <1>6 DEF Touch, TypeOK, Block, Frame
  <2>2. frame' \in [Workers -> Frame]
    BY <1>0, <1>6, GotoType DEF Touch, Pc, FindPc
  <2> QED
    BY <1>0, <1>6, <2>1, <2>2 DEF Touch, TypeOK, history
<1>7. CASE Probe(w)
  <2>1. CASE f.i = 3
    <3>1. frame' \in [Workers -> Frame]
      BY <1>0, <1>7, <2>1, GotoType DEF Probe, Pc, FindPc
    <3> QED
      BY <1>0, <1>7, <3>1 DEF Probe, TypeOK, shared, history
  <2>2. CASE f.i # 3
    <3>1. f.i + 1 \in 0 .. 3
      BY <1>0, <2>2 DEF Frame
    <3>2. PICK k : frame' = [frame EXCEPT ![w].i = f.i + 1,
              ![w].p = ProbeSlot(f.key, f.i + 1),
              ![w].pc = IF HashMatches(k, f.key) THEN "deref" ELSE "probe"]
      BY <1>7, <2>2 DEF Probe
    <3>3. f.key \in Keys
      BY <1>0, <1>7 DEF Equipped, Probe, FindPc
    <3>4. ProbeSlot(f.key, f.i + 1) \in SlotIds
      BY <3>1, <3>3, ProbeSlotType
    <3>5. frame' \in [Workers -> Frame]
      BY <1>0, <3>1, <3>2, <3>4 DEF TypeOK, Frame, FindPc
    <3> QED
      BY <1>0, <1>7, <3>5 DEF Probe, TypeOK, shared, history
  <2> QED
    BY <2>1, <2>2
<1>8. CASE Deref(w)
  <2>1. PICK k : Goto(w, IF k.val = NULL THEN "crashed" ELSE "clobber")
    BY <1>8 DEF Deref
  <2>2. frame' \in [Workers -> Frame]
    BY <1>0, <2>1, GotoType DEF Pc, FindPc
  <2>3. UNCHANGED <<shared, now, history>>
    BY <1>8 DEF Deref
  <2> QED
    BY <1>0, <2>2, <2>3 DEF TypeOK, shared, history
<1>9. CASE Clobber(w)
  <2>1. slots' \in [SlotIds -> Slot]
    BY <1>0, <1>9 DEF Clobber, TypeOK, Slot, Frame
  <2>2. frame' \in [Workers -> Frame]
    BY <1>0, <1>9, GotoType DEF Clobber, Pc, FindPc
  <2> QED
    BY <1>0, <1>9, <2>1, <2>2 DEF Clobber, TypeOK, history
<1>10. CASE CountLoad(w)
  BY <1>0, <1>10 DEF CountLoad, TypeOK, shared, history, Frame, FindPc
<1>11. CASE CountStore(w)
  <2>1. hits' \in Nat /\ miss' \in Nat
    BY <1>0, <1>11 DEF CountStore, TypeOK, Frame
  <2> QED
    BY <1>0, <1>11, <2>1, IdleFrameType DEF CountStore, TypeOK, history
<1> QED
  BY <1>1, <1>2, <1>3, <1>4, <1>5, <1>6, <1>7, <1>8, <1>9, <1>10, <1>11 DEF FindStep

LEMMA TypeOthers ==
  ASSUME TypeInv,
         \/ Tick
         \/ \E w \in Workers : Call(w) \/ PutVal(w) \/ Publish(w) \/ Kill(w)
  PROVE  TypeOK'
<1>0. TypeOK
  BY DEF TypeInv
<1>1. CASE Tick
  BY <1>0, <1>1 DEF Tick, TypeOK, shared, history
<1>2. ASSUME NEW w \in Workers, NEW key \in Keys, FindStart(w, key) PROVE TypeOK'
  BY <1>2, TypeFind
<1>3. ASSUME NEW w \in Workers, NEW key \in Keys, NEW d \in Values,
             NEW flag \in Flags, NEW ttl \in Ttls, PutStart(w, key, d, flag, ttl)
      PROVE  TypeOK'
  <2> DEFINE kv(a) == [h |-> HashOf(key), crc |-> Sample(d), ttl |-> Expiry(ttl),
                       len |-> [klen |-> KeyLen[key], vlen |-> Len(d)],
                       flag |-> flag, val |-> a, key |-> key]
  <2>1. PICK p \in PutSlots(key), a \in Addrs :
          frame' = [frame EXCEPT ![w] =
            [IdleFrame EXCEPT !.pc = "putVal", !.p = p, !.s = d, !.tv = now,
               !.key = key, !.k = kv(a)]]
    BY <1>3, Zenon DEF PutStart
  <2>2. p \in SlotIds
    <3>1. Path(key) \subseteq SlotIds
      BY ProbeSlotType DEF Path
    <3>2. \A n \in {m \in 0 .. 3 : /\ Free(ProbeSlot(key, m))
                                  /\ \A l \in 0 .. m - 1 : ~ Free(ProbeSlot(key, l))} :
             ProbeSlot(key, n) \in SlotIds
      BY ProbeSlotType
    <3> QED
      BY <2>1, <3>1, <3>2, Zenon DEF PutSlots
  <2>3. d \in Seq(Byte) /\ Sample(d) \in Seq(Byte) /\ Len(d) \in Nat
    BY SampleType, StorageAssumption
  <2>4. Expiry(ttl) \in Nat /\ now \in Nat /\ flag \in Nat /\ 0 \in Nat
    BY <1>0, StorageAssumption DEF Expiry, TypeOK
  <2>5. HashOf(key) \in Nat /\ KeyLen[key] \in Nat
    BY LayoutAssumption DEF HashOf
  <2>6. kv(a) \in Slot
    BY <2>3, <2>4, <2>5 DEF Slot, Header
  <2> HIDE DEF kv
  <2>7. frame' \in [Workers -> Frame]
    BY <1>0, <2>1, <2>2, <2>3, <2>4, <2>6, IdleFrameType DEF TypeOK, Frame, PutPc
  <2>8. stored' \subseteq Entry
    BY <1>0, <1>3, <2>4 DEF PutStart, TypeOK, Entry
  <2>9. writes' \in Nat /\ UNCHANGED <<shared, now, finds>>
    BY <1>0, <1>3 DEF PutStart, Write, TypeOK
  <2> QED
    BY <1>0, <2>7, <2>8, <2>9 DEF TypeOK, shared
<1>4. ASSUME NEW w \in Workers, NEW key \in Keys, NEW ttl \in Ttls, Delete(w, key, ttl)
      PROVE  TypeOK'
  <2>1. PICK s \in Path(key) :
          slots' = [slots EXCEPT ![s].ttl = IF ttl = 0 THEN 1 ELSE now + ttl]
    BY <1>4 DEF Delete
  <2>2. (IF ttl = 0 THEN 1 ELSE now + ttl) \in Nat
    BY <1>0, StorageAssumption DEF TypeOK
  <2>3. slots' \in [SlotIds -> Slot]
    BY <1>0, <2>1, <2>2 DEF TypeOK, Slot
  <2> QED
    BY <1>0, <1>4, <2>3 DEF Delete, Write, TypeOK
<1>5. ASSUME NEW w \in Workers, Flush(w) PROVE TypeOK'
  BY <1>0, <1>5, ZeroTypes DEF Flush, Write, TypeOK
<1>6. ASSUME NEW w \in Workers, PutVal(w) PROVE TypeOK'
  <2>1. frame[w].k.val \in Addrs
    BY <1>6 DEF TypeInv, Equipped, PutVal, UsesBlock, PutPc
  <2>2. Filled(w, frame[w].k.val) \in Block
    <3>1. Filling(w, frame[w].k.val)
      BY <1>6 DEF PutVal, Filling
    <3> QED
      BY <1>0, <2>1, <3>1, BlockImagesType DEF BlockImages
  <2>3. frame' \in [Workers -> Frame]
    BY <1>0, <1>6, GotoType DEF PutVal, Pc, PutPc
  <2> QED
    BY <1>0, <1>6, <2>2, <2>3 DEF PutVal, TypeOK, history
<1>7. ASSUME NEW w \in Workers, Publish(w) PROVE TypeOK'
  BY <1>0, <1>7, IdleFrameType DEF Publish, TypeOK, history, Frame
<1>8. ASSUME NEW w \in Workers, Kill(w) PROVE TypeOK'
  <2> DEFINE f == frame[w]
  <2>1. vals' \in [Addrs -> Block]
    <3>1. CASE f.pc = "putVal"
      <4>1. PICK b \in BlockImages(f.k.val), d \in ByteCopies(f.k.val, BlockLen) :
              vals' = [vals EXCEPT ![f.k.val] = [b EXCEPT !.data = d]]
        BY <1>8, <3>1 DEF Kill
      <4>2. f.k.val \in Addrs
        BY <3>1 DEF TypeInv, Equipped, UsesBlock, PutPc
      <4>3. b \in Block /\ d \in [1 .. BlockLen -> Byte]
        BY <1>0, <4>2, BlockImagesType, ByteCopiesType, StorageAssumption
      <4> QED
        BY <1>0, <4>1, <4>3 DEF TypeOK, Block
    <3>2. CASE f.pc # "putVal"
      BY <1>0, <1>8, <3>2 DEF Kill, TypeOK
    <3> QED
      BY <3>1, <3>2
  <2>2. slots' \in [SlotIds -> Slot]
    <3>1. f.p \in SlotIds
      BY <1>0 DEF TypeOK, Frame
    <3>2. SlotCopies(f.p) \subseteq Slot
      BY <1>0, <3>1, SlotCopiesType
    <3> QED
      BY <1>0, <1>8, <3>2 DEF Kill, TypeOK
  <2>3. frame' \in [Workers -> Frame]
    BY <1>0, <1>8, IdleFrameType DEF Kill, TypeOK
  <2>4. UNCHANGED <<hits, miss, now, history>>
    BY <1>8 DEF Kill
  <2> QED
    BY <1>0, <2>1, <2>2, <2>3, <2>4 DEF TypeOK, history
<1> QED
  BY <1>1, <1>2, <1>3, <1>4, <1>5, <1>6, <1>7, <1>8 DEF Call

(* Only worker w moves: the others keep what they are equipped with.       *)
LEMMA EquippedStep ==
  ASSUME TypeInv, NEW w \in Workers, WorkerStep(w)
  PROVE  \A u \in Workers : Equipped(frame'[u])
<1> DEFINE f == frame[w]
<1>0. /\ TypeOK /\ f \in Frame /\ f.k \in Slot
      /\ \A u \in Workers : Equipped(frame[u])
      /\ frame = [u \in Workers |-> frame[u]]
  BY DEF TypeInv, TypeOK, Frame
<1> USE DEF UsesBlock, FindPc, PutPc
<1>d. \A label \in {"probe", "miss"} :
        f.key \in Keys /\ Drop(w, label) => \A u \in Workers : Equipped(frame'[u])
  BY <1>0 DEF Drop, WithoutEntry, IdleFrame, Equipped
<1>1. ASSUME NEW key \in Keys, FindStart(w, key)
      PROVE  \A u \in Workers : Equipped(frame'[u])
  <2>1. PICK k \in SlotCopies(ProbeSlot(key, 0)) :
          frame' = [frame EXCEPT ![w] =
            IF k.val # NULL /\ HashMatches(k, key)
            THEN [IdleFrame EXCEPT !.pc = "readVal", !.key = key,
                    !.p = ProbeSlot(key, 0), !.k = k]
            ELSE [IdleFrame EXCEPT !.pc = IF k.val = NULL THEN "miss" ELSE "probe",
                    !.key = key]]
    BY <1>1 DEF FindStart
  <2>2. k \in Slot
    BY <1>0, ProbeSlotType, SlotCopiesType
  <2> QED
    BY <1>0, <2>1, <2>2 DEF Equipped, IdleFrame, Slot
<1>2. CASE ReadVal(w)
  <2>1. Drop(w, "probe") \/ Drop(w, "miss") \/ Goto(w, "verify")
    BY <1>2 DEF ReadVal
  <2> QED
    BY <1>0, <1>d, <1>2, <2>1 DEF ReadVal, Equipped, Goto, Frame
<1>3. CASE Verify(w)
  BY <1>0, <1>3 DEF Verify, Equipped, Frame
<1>4. CASE Touch(w) \/ Clobber(w) \/ PutVal(w)
  BY <1>0, <1>4 DEF Touch, Clobber, PutVal, Equipped, Goto, Frame
<1>12. CASE Expire(w)
  BY <1>0, <1>d, <1>12 DEF Expire, Equipped
<1>5. CASE Copy(w)
  <2>1. PICK s : \/ frame' = [frame EXCEPT ![w].s = s, ![w].pc = "touch"]
                 \/ Drop(w, "miss")
    BY <1>5 DEF Copy
  <2> QED
    BY <1>0, <1>d, <1>5, <2>1 DEF Copy, Equipped, Frame
<1>6. CASE Probe(w)
  <2>1. CASE f.i = 3
    BY <1>0, <1>d, <1>6, <2>1 DEF Probe, Equipped
  <2>2. CASE f.i # 3
    <3>1. PICK k : frame' = [frame EXCEPT ![w].i = f.i + 1,
              ![w].p = ProbeSlot(f.key, f.i + 1),
              ![w].pc = IF HashMatches(k, f.key) THEN "deref" ELSE "probe"]
      BY <1>6, <2>2 DEF Probe
    <3> QED
      BY <1>0, <1>6, <3>1 DEF Probe, Equipped, Frame
  <2> QED
    BY <2>1, <2>2
<1>7. CASE Deref(w)
  <2>1. PICK k : Goto(w, IF k.val = NULL THEN "crashed" ELSE "clobber")
    BY <1>7 DEF Deref
  <2> QED
    BY <1>0, <1>7, <2>1 DEF Deref, Equipped, Goto, Frame
<1>8. CASE CountLoad(w)
  BY <1>0, <1>8 DEF CountLoad, Equipped, Frame
<1>9. CASE CountStore(w) \/ Publish(w) \/ Kill(w)
  BY <1>0, <1>9 DEF CountStore, Publish, Kill, Equipped, IdleFrame
<1>10. ASSUME NEW key \in Keys, NEW d \in Values, NEW flag \in Flags, NEW ttl \in Ttls,
              PutStart(w, key, d, flag, ttl)
       PROVE  \A u \in Workers : Equipped(frame'[u])
  <2>1. PICK p \in PutSlots(key), a \in Addrs :
          frame' = [frame EXCEPT ![w] =
            [IdleFrame EXCEPT !.pc = "putVal", !.p = p, !.s = d, !.tv = now,
               !.key = key,
               !.k = [h |-> HashOf(key), crc |-> Sample(d), ttl |-> Expiry(ttl),
                      len |-> [klen |-> KeyLen[key], vlen |-> Len(d)],
                      flag |-> flag, val |-> a, key |-> key]]]
    BY <1>10, Zenon DEF PutStart
  <2> QED
    BY <1>0, <2>1 DEF Equipped, IdleFrame
<1>11. CASE Flush(w) \/ \E key \in Keys, ttl \in Ttls : Delete(w, key, ttl)
  BY <1>0, <1>11 DEF Flush, Delete
<1> QED
  BY <1>1, <1>2, <1>3, <1>4, <1>5, <1>6, <1>7, <1>8, <1>9, <1>10, <1>11, <1>12
     DEF WorkerStep, Call, FindStep

LEMMA TypeStep == TypeInv /\ [Next]_vars => TypeInv'
<1> SUFFICES ASSUME TypeInv, [Next]_vars PROVE TypeInv'
  OBVIOUS
<1>1. CASE Tick
  BY <1>1, TypeOthers DEF TypeInv, Tick
<1>2. ASSUME NEW w \in Workers, WorkerStep(w) PROVE TypeInv'
  BY <1>2, TypeFind, TypeOthers, EquippedStep DEF WorkerStep, TypeInv
<1>3. CASE Quiet \/ UNCHANGED vars
  BY <1>3 DEF Quiet, vars, shared, history, TypeInv, TypeOK
<1> QED
  BY <1>1, <1>2, <1>3 DEF Next

(* Every variable keeps its type: no lookup, however it is interleaved,    *)
(* points past the slot array or counts a fourth probe.                    *)
THEOREM TypeCorrect == Spec => []TypeOK
<1>1. TypeInv => TypeOK
  BY DEF TypeInv
<1> QED
  BY <1>1, TypeInit, TypeStep, PTL DEF Spec

(***************************************************************************)
(* A hit returns what was stored                                           *)
(*                                                                         *)
(* HitsAreStored is not inductive: it says nothing of a lookup that has    *)
(* not compared the checksum yet.  The invariant below follows an entry    *)
(* from the update that builds its slot, through the slot, to the copy a   *)
(* lookup takes of it, and adds what each test of the lookup has shown.    *)
(* The value blocks appear nowhere in it: whatever is in them, the         *)
(* checksum decides.                                                       *)
(***************************************************************************)

(* Slot k describes an entry of S; its key bytes and its ttl, which other  *)
(* workers change in place, are left out.                                  *)
BackedBy(k, S) ==
  \E e \in S : /\ k.h = HashOf(e.key)
              /\ k.len.klen = KeyLen[e.key]
              /\ k.len.vlen = Len(e.data)
              /\ k.crc = Sample(e.data)
              /\ k.flag = e.flag

HitPc == {"touch", "hit", "hitStore"}
MatchedPc == {"readVal", "verify", "expire", "copy"} \cup HitPc

FrameBacked(f, S) ==
  /\ f.pc \in PutPc => BackedBy(f.k, S)
  /\ f.pc \in MatchedPc => BackedBy(f.k, S) /\ HashMatches(f.k, f.key) /\ f.key \in Keys
  /\ f.pc \in HitPc => f.k.crc = Sample(f.s) /\ Len(f.s) = f.k.len.vlen

SlotsBacked == \A s \in SlotIds : slots[s].val # NULL => BackedBy(slots[s], stored)

FramesBacked == \A w \in Workers : FrameBacked(frame[w], stored)

StoredInv == TypeInv /\ SlotsBacked /\ FramesBacked

(* Storing more takes nothing away.                                        *)
LEMMA BackedGrows ==
  ASSUME NEW S, NEW T, S \subseteq T
  PROVE  /\ \A k : BackedBy(k, S) => BackedBy(k, T)
         /\ \A f : FrameBacked(f, S) => FrameBacked(f, T)
<1>1. \A k : BackedBy(k, S) => BackedBy(k, T)
  BY DEF BackedBy
<1> QED
  BY <1>1 DEF FrameBacked

LEMMA IdleFrameBacked == \A S : FrameBacked(IdleFrame, S)
  BY DEF FrameBacked, IdleFrame, PutPc, MatchedPc, HitPc

LEMMA StoredInit == Init => StoredInv
<1> SUFFICES ASSUME Init PROVE StoredInv
  OBVIOUS
<1>1. SlotsBacked
  BY DEF Init, SlotsBacked, ZeroSlot
<1>2. FramesBacked
  BY IdleFrameBacked DEF Init, FramesBacked
<1> QED
  BY <1>1, <1>2, TypeInit DEF StoredInv

(* What a worker may do to the slots: replace one by a backed one, change  *)
(* the ttl or the key bytes of one, or zero them.                          *)
LEMMA SlotsBackedStep ==
  ASSUME StoredInv, TornCopies = FALSE, stored \subseteq stored',
         NEW w \in Workers, WorkerStep(w)
  PROVE  SlotsBacked'
<1>0. /\ slots \in [SlotIds -> Slot] /\ frame \in [Workers -> Frame]
      /\ frame[w] \in Frame
  BY DEF StoredInv, TypeInv, TypeOK
<1>1. \A s \in SlotIds : slots[s].val # NULL => BackedBy(slots[s], stored')
  BY BackedGrows DEF StoredInv, SlotsBacked
<1>2. CASE UNCHANGED slots
  BY <1>1, <1>2 DEF SlotsBacked
<1>3. ASSUME NEW p, NEW t, slots' = [slots EXCEPT ![p].ttl = t]
      PROVE  SlotsBacked'
  BY <1>0, <1>1, <1>3 DEF SlotsBacked, BackedBy, Slot
<1>4. ASSUME NEW p, NEW key, slots' = [slots EXCEPT ![p].key = key]
      PROVE  SlotsBacked'
  BY <1>0, <1>1, <1>4 DEF SlotsBacked, BackedBy, Slot
<1>5. CASE Publish(w)
  <2>1. BackedBy(frame[w].k, stored')
    <3>1. BackedBy(frame[w].k, stored)
      BY <1>5 DEF StoredInv, FramesBacked, FrameBacked, Publish, PutPc
    <3> QED
      BY <3>1, BackedGrows
  <2> QED
    BY <1>0, <1>1, <1>5, <2>1 DEF Publish, SlotsBacked
<1>6. CASE Flush(w)
  BY <1>6 DEF Flush, SlotsBacked, ZeroSlot
<1>7. CASE Expire(w)
  BY <1>3, <1>7 DEF Expire
<1>8. CASE Clobber(w)
  BY <1>4, <1>8 DEF Clobber
<1>9. ASSUME NEW key \in Keys, NEW ttl \in Ttls, Delete(w, key, ttl)
      PROVE  SlotsBacked'
  BY <1>3, <1>9 DEF Delete
<1>10. CASE Kill(w)
  BY <1>2, <1>10 DEF Kill
<1>11. CASE \/ ReadVal(w) \/ Verify(w) \/ Copy(w) \/ Touch(w) \/ Probe(w)
            \/ Deref(w) \/ CountLoad(w) \/ CountStore(w) \/ PutVal(w)
            \/ \E key \in Keys : FindStart(w, key)
            \/ \E key \in Keys, d \in Values, flag \in Flags, ttl \in Ttls :
                 PutStart(w, key, d, flag, ttl)
  <2>1. UNCHANGED slots
    BY <1>11, Zenon DEF ReadVal, Verify, Copy, Touch, Probe, Deref, CountLoad,
       CountStore, PutVal, FindStart, PutStart, shared
  <2> QED
    BY <1>2, <2>1
<1> QED
  BY <1>5, <1>6, <1>7, <1>8, <1>9, <1>10, <1>11 DEF WorkerStep, Call, FindStep

(* The frame of the worker that moves.                                     *)
LEMMA FrameBackedStep ==
  ASSUME StoredInv, TornCopies = FALSE, stored \subseteq stored',
         NEW w \in Workers, WorkerStep(w)
  PROVE  FrameBacked(frame'[w], stored')
<1> DEFINE f == frame[w]
           B == FrameBacked(frame'[w], stored')
<1>0. /\ TypeInv /\ frame \in [Workers -> Frame] /\ f \in Frame /\ f.k \in Slot
      /\ FrameBacked(f, stored')
      /\ \A label \in {"probe", "miss"} :
           FrameBacked(WithoutEntry(f, label), stored')
  BY BackedGrows DEF StoredInv, TypeInv, TypeOK, Frame, FramesBacked, FrameBacked,
     WithoutEntry, IdleFrame, PutPc, MatchedPc, HitPc
<1>d. \A label \in {"probe", "miss"} : Drop(w, label) => B
  <2>1. \A label : Drop(w, label) => frame'[w] = WithoutEntry(f, label)
    BY <1>0 DEF Drop
  <2> QED
    BY <1>0, <2>1
<1> USE DEF FindPc, PutPc, MatchedPc, HitPc
<1>1. ASSUME NEW key \in Keys, FindStart(w, key) PROVE B
  <2>1. ProbeSlot(key, 0) \in SlotIds
    BY ProbeSlotType
  <2> DEFINE k == slots[ProbeSlot(key, 0)]
  <2>2. SlotCopies(ProbeSlot(key, 0)) = {k}
    BY DEF SlotCopies
  <2>3. frame' = [frame EXCEPT ![w] =
          IF k.val # NULL /\ HashMatches(k, key)
          THEN [IdleFrame EXCEPT !.pc = "readVal", !.key = key,
                  !.p = ProbeSlot(key, 0), !.k = k]
          ELSE [IdleFrame EXCEPT !.pc = IF k.val = NULL THEN "miss" ELSE "probe",
                  !.key = key]]
    BY <1>1, <2>2 DEF FindStart
  <2>4. k.val # NULL => BackedBy(k, stored')
    BY <2>1, BackedGrows DEF StoredInv, SlotsBacked
  <2> QED
    BY <1>0, <2>3, <2>4 DEF FrameBacked, IdleFrame
<1>2. CASE ReadVal(w)
  <2>1. Drop(w, "probe") \/ Drop(w, "miss") \/ Goto(w, "verify")
    BY <1>2 DEF ReadVal
  <2>2. CASE Goto(w, "verify")
    <3>1. f.pc = "readVal" /\ frame'[w] = [f EXCEPT !.pc = "verify"]
      BY <1>0, <1>2, <2>2 DEF ReadVal, Goto
    <3> QED
      BY <1>0, <3>1 DEF FrameBacked, Frame
  <2> QED
    BY <1>d, <2>1, <2>2
<1>3. CASE Verify(w)
  BY <1>0, <1>3 DEF Verify, FrameBacked, Frame
<1>12. CASE Expire(w)
  BY <1>d, <1>12 DEF Expire
<1>4. CASE Touch(w) \/ Clobber(w) \/ PutVal(w)
  <2>1. PICK label : /\ Goto(w, label)
                     /\ label \in HitPc => f.pc \in HitPc
                     /\ label \in MatchedPc => f.pc \in MatchedPc
                     /\ label \in PutPc => f.pc \in PutPc
    BY <1>4 DEF Touch, Clobber, PutVal
  <2>2. frame'[w] = [f EXCEPT !.pc = label]
    BY <1>0, <2>1 DEF Goto
  <2> QED
    BY <1>0, <2>1, <2>2 DEF FrameBacked, Frame
<1>5. CASE Copy(w)
  <2>1. PICK s \in ByteCopies(f.k.val, f.k.len.vlen) :
          \/ /\ f.k.crc = Sample(s)
             /\ frame' = [frame EXCEPT ![w].s = s, ![w].pc = "touch"]
          \/ Drop(w, "miss")
    BY <1>5 DEF Copy
  <2>2. Len(s) = f.k.len.vlen
    BY <1>0, ByteCopiesType DEF Slot, Header
  <2>3. CASE /\ f.k.crc = Sample(s)
             /\ frame' = [frame EXCEPT ![w].s = s, ![w].pc = "touch"]
    <3>1. f.pc = "copy" /\ frame'[w] = [f EXCEPT !.s = s, !.pc = "touch"]
      BY <1>0, <1>5, <2>3 DEF Copy
    <3> QED
      BY <1>0, <2>2, <2>3, <3>1 DEF FrameBacked, Frame
  <2> QED
    BY <1>d, <2>1, <2>3
<1>6. CASE Probe(w)
  <2>1. CASE f.i = 3
    BY <1>d, <1>6, <2>1 DEF Probe
  <2>2. CASE f.i # 3
    <3>1. PICK k : frame' = [frame EXCEPT ![w].i = f.i + 1,
              ![w].p = ProbeSlot(f.key, f.i + 1),
              ![w].pc = IF HashMatches(k, f.key) THEN "deref" ELSE "probe"]
      BY <1>6, <2>2 DEF Probe
    <3> QED
      BY <1>0, <1>6, <3>1 DEF FrameBacked, Frame
  <2> QED
    BY <2>1, <2>2
<1>7. CASE Deref(w)
  <2>1. PICK k : Goto(w, IF k.val = NULL THEN "crashed" ELSE "clobber")
    BY <1>7 DEF Deref
  <2> QED
    BY <1>0, <2>1 DEF FrameBacked, Goto, Frame
<1>8. CASE CountLoad(w)
  BY <1>0, <1>8 DEF CountLoad, FrameBacked, Frame
<1>9. CASE CountStore(w) \/ Publish(w) \/ Kill(w)
  BY <1>0, <1>9, IdleFrameBacked DEF CountStore, Publish, Kill
<1>10. ASSUME NEW key \in Keys, NEW d \in Values, NEW flag \in Flags, NEW ttl \in Ttls,
              PutStart(w, key, d, flag, ttl)
       PROVE  B
  <2>1. PICK p \in PutSlots(key), a \in Addrs :
          frame' = [frame EXCEPT ![w] =
            [IdleFrame EXCEPT !.pc = "putVal", !.p = p, !.s = d, !.tv = now,
               !.key = key,
               !.k = [h |-> HashOf(key), crc |-> Sample(d), ttl |-> Expiry(ttl),
                      len |-> [klen |-> KeyLen[key], vlen |-> Len(d)],
                      flag |-> flag, val |-> a, key |-> key]]]
    BY <1>10, Zenon DEF PutStart
  <2>2. [key |-> key, data |-> d, flag |-> flag] \in stored'
    BY <1>10 DEF PutStart
  <2>3. BackedBy(frame'[w].k, stored')
    <3>1. /\ frame'[w].k.h = HashOf(key) /\ frame'[w].k.crc = Sample(d)
          /\ frame'[w].k.len.klen = KeyLen[key] /\ frame'[w].k.len.vlen = Len(d)
          /\ frame'[w].k.flag = flag
      BY <1>0, <2>1
    <3> QED
      BY <2>2, <3>1 DEF BackedBy
  <2> QED
    BY <1>0, <2>1, <2>3 DEF FrameBacked, IdleFrame
<1>11. CASE Flush(w) \/ \E key \in Keys, ttl \in Ttls : Delete(w, key, ttl)
  BY <1>0, <1>11 DEF Flush, Delete
<1> QED
  BY <1>1, <1>2, <1>3, <1>4, <1>5, <1>6, <1>7, <1>8, <1>9, <1>10, <1>11, <1>12
     DEF WorkerStep, Call, FindStep

(* Every step of a worker is a step of its frame alone, and adds to the    *)
(* history.                                                                *)
LEMMA OwnFrame ==
  ASSUME TypeInv, NEW w \in Workers, WorkerStep(w)
  PROVE  /\ \A u \in Workers \ {w} : frame'[u] = frame[u]
         /\ stored \subseteq stored'
<1>0. frame \in [Workers -> Frame]
  BY DEF TypeInv, TypeOK
<1>1. CASE FindStep(w) \/ \E key \in Keys : FindStart(w, key)
  <2>1. stored' = stored
    BY <1>1 DEF FindStep, FindStart, ReadVal, Verify, Expire, Copy, Touch, Probe,
       Deref, Clobber, CountLoad, CountStore, history
  <2>2. \A u \in Workers \ {w} : frame'[u] = frame[u]
    BY <1>0, <1>1 DEF FindStep, FindStart, ReadVal, Verify, Expire, Copy, Touch,
       Probe, Deref, Clobber, CountLoad, CountStore, Goto, Drop
  <2> QED
    BY <2>1, <2>2
<1>2. ASSUME NEW key \in Keys, NEW d \in Values, NEW flag \in Flags, NEW ttl \in Ttls,
             PutStart(w, key, d, flag, ttl)
      PROVE  /\ \A u \in Workers \ {w} : frame'[u] = frame[u]
             /\ stored \subseteq stored'
  BY <1>0, <1>2 DEF PutStart
<1>3. CASE PutVal(w) \/ Publish(w) \/ Kill(w)
  BY <1>0, <1>3 DEF PutVal, Publish, Kill, Goto, history
<1>4. CASE Flush(w) \/ \E key \in Keys, ttl \in Ttls : Delete(w, key, ttl)
  BY <1>4 DEF Flush, Delete
<1> QED
  BY <1>1, <1>2, <1>3, <1>4 DEF WorkerStep, Call

LEMMA StoredStep ==
  ASSUME TornCopies = FALSE
  PROVE  StoredInv /\ [Next]_vars => StoredInv'
<1> SUFFICES ASSUME StoredInv, [Next]_vars PROVE StoredInv'
  OBVIOUS
<1>1. TypeInv'
  BY TypeStep DEF StoredInv
<1>2. ASSUME NEW w \in Workers, WorkerStep(w) PROVE SlotsBacked' /\ FramesBacked'
  <2>1. stored \subseteq stored' /\ \A u \in Workers \ {w} : frame'[u] = frame[u]
    BY <1>2, OwnFrame DEF StoredInv
  <2>2. SlotsBacked'
    BY <1>2, <2>1, SlotsBackedStep
  <2>3. FrameBacked(frame'[w], stored')
    BY <1>2, <2>1, FrameBackedStep
  <2>4. \A u \in Workers \ {w} : FrameBacked(frame'[u], stored')
    BY <2>1, BackedGrows DEF StoredInv, FramesBacked
  <2> QED
    BY <2>2, <2>3, <2>4 DEF FramesBacked
<1>3. ASSUME Tick \/ Quiet \/ UNCHANGED vars PROVE SlotsBacked' /\ FramesBacked'
  <2>1. UNCHANGED <<slots, frame, stored>>
    BY <1>3 DEF Tick, Quiet, vars, shared, history
  <2> QED
    BY <2>1 DEF StoredInv, SlotsBacked, FramesBacked
<1> QED
  BY <1>1, <1>2, <1>3 DEF Next, StoredInv

LEMMA StoredImplies ==
  ASSUME StoredInv, CollisionFree
  PROVE  HitsAreStored
<1> SUFFICES ASSUME NEW w \in Hitting
             PROVE  \E e \in stored : Answers(e, w)
  BY DEF HitsAreStored
<1>1. /\ BackedBy(frame[w].k, stored) /\ HashMatches(frame[w].k, frame[w].key)
      /\ frame[w].key \in Keys /\ frame[w].k.crc = Sample(frame[w].s)
      /\ Len(frame[w].s) = frame[w].k.len.vlen
  BY DEF Hitting, StoredInv, FramesBacked, FrameBacked, MatchedPc, HitPc
<1>2. PICK e \in stored :
        /\ frame[w].k.h = HashOf(e.key) /\ frame[w].k.len.klen = KeyLen[e.key]
        /\ frame[w].k.len.vlen = Len(e.data) /\ frame[w].k.crc = Sample(e.data)
        /\ frame[w].k.flag = e.flag
  BY <1>1 DEF BackedBy
<1>3. e.key \in Keys
  BY DEF StoredInv, TypeInv, TypeOK, Entry
<1>4. e.key = frame[w].key
  BY <1>1, <1>2, <1>3 DEF HashMatches, CollisionFree
<1> QED
  BY <1>1, <1>2, <1>4 DEF Answers

(* yac_storage_find, run by any number of workers over slots and blocks    *)
(* that others rewrite, recycle and abandon half written, returns only     *)
(* what was stored under the key it was asked for, provided that no two    *)
(* keys collide in hash and length and that slots are copied whole.        *)
THEOREM HitsCorrect ==
  ASSUME CollisionFree, TornCopies = FALSE
  PROVE  Spec => []HitsAreStored
<1>1. StoredInv => HitsAreStored
  BY StoredImplies
<1>2. StoredInv /\ [Next]_vars => StoredInv'
  BY StoredStep
<1> QED
  BY <1>1, <1>2, StoredInit, PTL DEF Spec

(* A value returned that is at most as long as the checksum window is a    *)
(* stored one to the last byte, whatever else is stored.                   *)
THEOREM ShortHitsCorrect ==
  ASSUME CollisionFree, TornCopies = FALSE
  PROVE  Spec => []HitsAreWhole
<1>1. StoredInv => HitsAreWhole
  <2> SUFFICES ASSUME StoredInv, NEW w \in Hitting, Len(frame[w].s) <= Window
               PROVE  \E e \in stored : Answers(e, w) /\ frame[w].s = e.data
    BY DEF HitsAreWhole
  <2>1. PICK e \in stored : Answers(e, w)
    BY StoredImplies DEF HitsAreStored
  <2>2. e.data \in Seq(Byte)
    BY StorageAssumption DEF StoredInv, TypeInv, TypeOK, Entry
  <2>3. frame[w].s \in Seq(Byte)
    BY DEF Hitting, StoredInv, TypeInv, TypeOK, Frame
  <2>4. frame[w].s = e.data
    BY <2>1, <2>2, <2>3, SampleCoversShortValues DEF Answers
  <2> QED
    BY <2>1, <2>4
<1>2. StoredInv /\ [Next]_vars => StoredInv'
  BY StoredStep
<1> QED
  BY <1>1, <1>2, StoredInit, PTL DEF Spec

=============================================================================
