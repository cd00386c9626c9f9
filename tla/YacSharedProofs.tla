-------------------------- MODULE YacSharedProofs --------------------------
(***************************************************************************)
(* What holds of the shared counters and slots of yac_storage however many *)
(* workers run: the counters never exceed the lookups made, no null block  *)
(* is read, even a slot copied half published gives no invented bytes, and *)
(* no lookup is held up by another worker.                                 *)
(***************************************************************************)
EXTENDS YacStorageProofs, FiniteSetTheorems

(***************************************************************************)
(* The counters                                                            *)
(*                                                                         *)
(* StatsNeverOvercount is not inductive: a lookup that has loaded a        *)
(* counter may store more than the counter holds by then, as a late store  *)
(* of another lookup can have lowered it.  What bounds counters and loaded *)
(* values alike is the number of lookups that have really counted          *)
(* themselves as hits, H, and as misses, M, which no variable keeps.       *)
(***************************************************************************)
Counted(H, M) ==
  /\ hits <= H /\ miss <= M
  /\ \A w \in Workers :
       /\ frame[w].pc = "hitStore" => frame[w].reg <= H
       /\ frame[w].pc = "missStore" => frame[w].reg <= M
  /\ H + M + Cardinality(Finding) <= finds

StatsInv ==
  /\ TypeInv
  /\ IsFiniteSet(Finding)
  /\ \E H, M \in Nat : Counted(H, M)

LEMMA StatsInit == Init => StatsInv
<1> SUFFICES ASSUME Init PROVE StatsInv
  OBVIOUS
<1>1. TypeInv
  BY TypeInit
<1>2. Finding = {}
  BY DEF Init, Finding, FindPc, IdleFrame
<1>3. IsFiniteSet(Finding) /\ Cardinality(Finding) = 0
  BY <1>2, FS_EmptySet
<1>4. Counted(0, 0)
  BY <1>3 DEF Init, Counted, IdleFrame
<1> QED
  BY <1>1, <1>3, <1>4 DEF StatsInv

(* Only the worker that moves enters or leaves the lookups being made.     *)
LEMMA FindingChange ==
  ASSUME NEW w \in Workers, \A u \in Workers \ {w} : frame'[u] = frame[u]
  PROVE  Finding' = IF frame'[w].pc \in FindPc THEN Finding \cup {w} ELSE Finding \ {w}
BY DEF Finding

(* Leaving, or staying as one was, never adds to the lookups being made.   *)
LEMMA FindingShrinks ==
  ASSUME StatsInv, NEW w \in Workers, \A u \in Workers \ {w} : frame'[u] = frame[u],
         frame'[w].pc \in FindPc => frame[w].pc \in FindPc
  PROVE  /\ IsFiniteSet(Finding')
         /\ Cardinality(Finding') \in Nat
         /\ Cardinality(Finding') <= Cardinality(Finding)
<1>1. Finding' \in SUBSET Finding /\ IsFiniteSet(Finding)
  BY DEF Finding, StatsInv
<1>2. IsFiniteSet(Finding') /\ Cardinality(Finding') <= Cardinality(Finding)
  BY <1>1, FS_Subset
<1> QED
  BY <1>2, FS_CardinalityType

(* A step that neither begins a lookup nor touches a counter.              *)
LEMMA QuietStats ==
  ASSUME StatsInv, NEW w \in Workers, WorkerStep(w), UNCHANGED <<hits, miss, finds>>,
         frame'[w].pc \notin {"hitStore", "missStore"},
         frame'[w].pc \in FindPc => frame[w].pc \in FindPc
  PROVE  IsFiniteSet(Finding') /\ (\E H, M \in Nat : Counted(H, M))'
<1>1. PICK H \in Nat, M \in Nat : Counted(H, M)
  BY DEF StatsInv
<1>2. \A u \in Workers \ {w} : frame'[u] = frame[u]
  BY OwnFrame DEF StatsInv
<1>3. /\ IsFiniteSet(Finding') /\ Cardinality(Finding') \in Nat
      /\ Cardinality(Finding') <= Cardinality(Finding)
  BY <1>2, FindingShrinks
<1>4. Cardinality(Finding) \in Nat /\ finds \in Nat
  BY FS_CardinalityType DEF StatsInv, TypeInv, TypeOK
<1>5. H + M + Cardinality(Finding') <= finds'
  BY <1>1, <1>3, <1>4 DEF Counted
<1>6. \A u \in Workers : /\ frame'[u].pc = "hitStore" => frame'[u].reg <= H
                         /\ frame'[u].pc = "missStore" => frame'[u].reg <= M
  BY <1>1, <1>2 DEF Counted
<1>7. Counted(H, M)'
  BY <1>1, <1>5, <1>6 DEF Counted
<1> QED
  BY <1>3, <1>7

LEMMA FindStartStats ==
  ASSUME StatsInv, NEW w \in Workers, NEW key \in Keys, FindStart(w, key)
  PROVE  IsFiniteSet(Finding') /\ (\E H, M \in Nat : Counted(H, M))'
<1>0. WorkerStep(w) /\ frame \in [Workers -> Frame] /\ IsFiniteSet(Finding)
      /\ finds \in Nat
  BY DEF WorkerStep, Call, StatsInv, TypeInv, TypeOK
<1>1. PICK H \in Nat, M \in Nat : Counted(H, M)
  BY DEF StatsInv
<1>2. \A u \in Workers \ {w} : frame'[u] = frame[u]
  BY <1>0, OwnFrame DEF StatsInv
<1>3. frame'[w].pc \in {"readVal", "miss", "probe"} /\ w \notin Finding
  BY <1>0 DEF FindStart, Finding, FindPc, IdleFrame
<1>4. Finding' = Finding \cup {w}
  BY <1>2, <1>3, FindingChange DEF FindPc
<1>5. /\ IsFiniteSet(Finding')
      /\ Cardinality(Finding') = Cardinality(Finding) + 1
  BY <1>0, <1>3, <1>4, FS_AddElement
<1>6. Cardinality(Finding) \in Nat
  BY <1>0, FS_CardinalityType
<1>7. UNCHANGED <<hits, miss>> /\ finds' = finds + 1
  BY DEF FindStart, shared
<1>8. H + M + Cardinality(Finding') <= finds'
  BY <1>0, <1>1, <1>5, <1>6, <1>7 DEF Counted
<1>9. \A u \in Workers : /\ frame'[u].pc = "hitStore" => frame'[u].reg <= H
                         /\ frame'[u].pc = "missStore" => frame'[u].reg <= M
  BY <1>1, <1>2, <1>3 DEF Counted
<1>10. Counted(H, M)'
  BY <1>1, <1>7, <1>8, <1>9 DEF Counted
<1> QED
  BY <1>5, <1>10

(* A load takes no more than has been counted. *)
LEMMA CountLoadStats ==
  ASSUME StatsInv, NEW w \in Workers, CountLoad(w)
  PROVE  IsFiniteSet(Finding') /\ (\E H, M \in Nat : Counted(H, M))'
<1>0. WorkerStep(w) /\ frame \in [Workers -> Frame] /\ frame[w] \in Frame
  BY DEF WorkerStep, FindStep, StatsInv, TypeInv, TypeOK
<1>1. PICK H \in Nat, M \in Nat : Counted(H, M)
  BY DEF StatsInv
<1>2. \A u \in Workers \ {w} : frame'[u] = frame[u]
  BY <1>0, OwnFrame DEF StatsInv
<1>3. \/ frame'[w].pc = "hitStore" /\ frame'[w].reg = hits
      \/ frame'[w].pc = "missStore" /\ frame'[w].reg = miss
  BY <1>0 DEF CountLoad, Frame
<1>4. Finding' = Finding
  <2>1. w \in Finding /\ frame'[w].pc \in FindPc
    BY <1>3 DEF CountLoad, Finding, FindPc
  <2> QED
    BY <1>2, <2>1, FindingChange
<1>5. UNCHANGED <<hits, miss, finds>>
  BY DEF CountLoad, shared, history
<1>6. \A u \in Workers : /\ frame'[u].pc = "hitStore" => frame'[u].reg <= H
                         /\ frame'[u].pc = "missStore" => frame'[u].reg <= M
  BY <1>1, <1>2, <1>3 DEF Counted
<1>7. Counted(H, M)'
  BY <1>1, <1>4, <1>5, <1>6 DEF Counted
<1> QED
  BY <1>4, <1>7 DEF StatsInv

(* A store makes one lookup more that has counted itself. *)
LEMMA CountStoreStats ==
  ASSUME StatsInv, NEW w \in Workers, CountStore(w)
  PROVE  IsFiniteSet(Finding') /\ (\E H, M \in Nat : Counted(H, M))'
<1>0. /\ WorkerStep(w) /\ frame \in [Workers -> Frame] /\ frame[w] \in Frame
      /\ IsFiniteSet(Finding) /\ hits \in Nat /\ miss \in Nat /\ finds \in Nat
  BY DEF WorkerStep, FindStep, StatsInv, TypeInv, TypeOK
<1>1. PICK H \in Nat, M \in Nat : Counted(H, M)
  BY DEF StatsInv
<1>2. \A u \in Workers \ {w} : frame'[u] = frame[u]
  BY <1>0, OwnFrame DEF StatsInv
<1>3. frame'[w].pc = "idle" /\ w \in Finding /\ finds' = finds
  BY <1>0 DEF CountStore, IdleFrame, Finding, FindPc, history
<1>4. Finding' = Finding \ {w}
  BY <1>2, <1>3, FindingChange DEF FindPc
<1>5. /\ IsFiniteSet(Finding')
      /\ Cardinality(Finding') = Cardinality(Finding) - 1
  BY <1>0, <1>3, <1>4, FS_RemoveElement
<1>6. Cardinality(Finding) \in Nat
  BY <1>0, FS_CardinalityType
<1>7. H + M + 1 + Cardinality(Finding') <= finds'
  BY <1>0, <1>1, <1>3, <1>5, <1>6 DEF Counted
<1>8. \A u \in Workers : /\ frame'[u].pc = "hitStore" => frame'[u].reg <= H
                         /\ frame'[u].pc = "missStore" => frame'[u].reg <= M
  BY <1>1, <1>2, <1>3 DEF Counted
<1>9. \A u \in Workers : frame'[u].pc \in {"hitStore", "missStore"} => frame'[u].reg \in Nat
  BY <1>0, <1>2, <1>3 DEF Frame
<1>10. frame[w].reg \in Nat
  BY <1>0 DEF Frame
<1>11. CASE frame[w].pc = "hitStore"
  <2>1. hits' = frame[w].reg + 1 /\ miss' = miss
    BY <1>11 DEF CountStore
  <2>2. frame[w].reg <= H
    BY <1>1, <1>11 DEF Counted
  <2>3. hits' <= H + 1 /\ miss' <= M
    BY <1>1, <1>10, <2>1, <2>2 DEF Counted
  <2>4. \A u \in Workers : /\ frame'[u].pc = "hitStore" => frame'[u].reg <= H + 1
                           /\ frame'[u].pc = "missStore" => frame'[u].reg <= M
    BY <1>8, <1>9
  <2>5. (H + 1) + M + Cardinality(Finding') <= finds'
    BY <1>5, <1>6, <1>7
  <2>6. Counted(H + 1, M)'
    BY <2>3, <2>4, <2>5 DEF Counted
  <2> QED
    BY <1>5, <2>6
<1>12. CASE frame[w].pc = "missStore"
  <2>1. miss' = frame[w].reg + 1 /\ hits' = hits
    BY <1>12 DEF CountStore
  <2>2. frame[w].reg <= M
    BY <1>1, <1>12 DEF Counted
  <2>3. hits' <= H /\ miss' <= M + 1
    BY <1>1, <1>10, <2>1, <2>2 DEF Counted
  <2>4. \A u \in Workers : /\ frame'[u].pc = "hitStore" => frame'[u].reg <= H
                           /\ frame'[u].pc = "missStore" => frame'[u].reg <= M + 1
    BY <1>8, <1>9
  <2>5. H + (M + 1) + Cardinality(Finding') <= finds'
    BY <1>5, <1>6, <1>7
  <2>6. Counted(H, M + 1)'
    BY <2>3, <2>4, <2>5 DEF Counted
  <2> QED
    BY <1>5, <2>6
<1> QED
  BY <1>11, <1>12 DEF CountStore

(* Every other step of a worker leaves the counters alone, and begins no   *)
(* lookup.                                                                 *)
LEMMA OthersQuiet ==
  ASSUME TypeInv, NEW w \in Workers,
         \/ ReadVal(w) \/ Verify(w) \/ Expire(w) \/ Copy(w) \/ Touch(w) \/ Probe(w)
         \/ Deref(w) \/ Clobber(w) \/ PutVal(w) \/ Publish(w) \/ Kill(w) \/ Flush(w)
         \/ \E key \in Keys, ttl \in Ttls : Delete(w, key, ttl)
         \/ \E key \in Keys, d \in Values, flag \in Flags, ttl \in Ttls :
              PutStart(w, key, d, flag, ttl)
  PROVE  /\ WorkerStep(w)
         /\ UNCHANGED <<hits, miss, finds>>
         /\ frame'[w].pc \notin {"hitStore", "missStore"}
         /\ frame'[w].pc \in FindPc => frame[w].pc \in FindPc
<1> DEFINE f == frame[w]
           Q == /\ UNCHANGED <<hits, miss, finds>>
                /\ frame'[w].pc \notin {"hitStore", "missStore"}
                /\ frame'[w].pc \in FindPc => frame[w].pc \in FindPc
<1>0. frame \in [Workers -> Frame] /\ f \in Frame
  BY DEF TypeInv, TypeOK
<1>1. WorkerStep(w)
  BY DEF WorkerStep, Call, FindStep
<1>g. \A label : Goto(w, label) => frame'[w].pc = label
  BY <1>0 DEF Goto, Frame
<1>d. \A label : Drop(w, label) => frame'[w].pc = label
  BY <1>0 DEF Drop, WithoutEntry, IdleFrame
<1> USE DEF FindPc
<1>2. CASE ReadVal(w) \/ Expire(w) \/ Touch(w) \/ Deref(w) \/ Clobber(w) \/ PutVal(w)
  <2>1. \/ /\ f.pc \in FindPc
           /\ \E label \in {"probe", "miss", "verify", "hit", "crashed", "clobber"} :
                Goto(w, label) \/ Drop(w, label)
        \/ Goto(w, "publish")
    BY <1>2 DEF ReadVal, Expire, Touch, Deref, Clobber, PutVal
  <2>2. UNCHANGED <<hits, miss, finds>>
    BY <1>2 DEF ReadVal, Expire, Touch, Deref, Clobber, PutVal, shared, history
  <2> QED
    BY <1>1, <1>g, <1>d, <2>1, <2>2
<1>3. CASE Verify(w)
  BY <1>0, <1>1, <1>3 DEF Verify, Frame, shared, history
<1>4. CASE Copy(w)
  <2>1. PICK s : \/ frame' = [frame EXCEPT ![w].s = s, ![w].pc = "touch"]
                 \/ Drop(w, "miss")
    BY <1>4 DEF Copy
  <2>2. frame'[w].pc \in {"touch", "miss"}
    BY <1>0, <1>d, <2>1 DEF Frame
  <2> QED
    BY <1>1, <1>4, <2>2 DEF Copy, shared, history
<1>5. CASE Probe(w)
  <2>1. frame'[w].pc \in {"miss", "deref", "probe"}
    <3>1. CASE f.i = 3
      BY <1>5, <1>d, <3>1 DEF Probe
    <3>2. CASE f.i # 3
      <4>1. PICK k : frame' = [frame EXCEPT ![w].i = f.i + 1,
                ![w].p = ProbeSlot(f.key, f.i + 1),
                ![w].pc = IF HashMatches(k, f.key) THEN "deref" ELSE "probe"]
        BY <1>5, <3>2 DEF Probe
      <4> QED
        BY <1>0, <4>1 DEF Frame
    <3> QED
      BY <3>1, <3>2
  <2> QED
    BY <1>1, <1>5, <2>1 DEF Probe, shared, history
<1>6. CASE Publish(w) \/ Kill(w)
  BY <1>0, <1>1, <1>6 DEF Publish, Kill, IdleFrame, history
<1>7. CASE Flush(w) \/ \E key \in Keys, ttl \in Ttls : Delete(w, key, ttl)
  BY <1>1, <1>7 DEF Flush, Delete
<1>8. ASSUME NEW key \in Keys, NEW d \in Values, NEW flag \in Flags, NEW ttl \in Ttls,
             PutStart(w, key, d, flag, ttl)
      PROVE  Q
  <2>1. PICK p, k : frame' = [frame EXCEPT ![w] =
            [IdleFrame EXCEPT !.pc = "putVal", !.p = p, !.s = d, !.tv = now,
               !.key = key, !.k = k]]
    BY <1>8, Zenon DEF PutStart
  <2>2. frame'[w].pc = "putVal"
    BY <1>0, <2>1 DEF IdleFrame
  <2> QED
    BY <1>8, <2>2 DEF PutStart, shared
<1> QED
  BY <1>1, <1>2, <1>3, <1>4, <1>5, <1>6, <1>7, <1>8, Zenon

LEMMA StatsStep == StatsInv /\ [Next]_vars => StatsInv'
<1> SUFFICES ASSUME StatsInv, [Next]_vars PROVE StatsInv'
  OBVIOUS
<1>1. TypeInv /\ TypeInv'
  BY TypeStep DEF StatsInv
<1>2. ASSUME NEW w \in Workers, WorkerStep(w)
      PROVE  IsFiniteSet(Finding') /\ (\E H, M \in Nat : Counted(H, M))'
  <2>1. CASE \E key \in Keys : FindStart(w, key)
    BY <2>1, FindStartStats
  <2>2. CASE CountLoad(w)
    BY <2>2, CountLoadStats
  <2>3. CASE CountStore(w)
    BY <2>3, CountStoreStats
  <2>4. CASE ~ (CountLoad(w) \/ CountStore(w) \/ \E key \in Keys : FindStart(w, key))
    <3>1. /\ UNCHANGED <<hits, miss, finds>>
          /\ frame'[w].pc \notin {"hitStore", "missStore"}
          /\ frame'[w].pc \in FindPc => frame[w].pc \in FindPc
      BY <1>1, <1>2, <2>4, OthersQuiet DEF WorkerStep, Call, FindStep
    <3> QED
      BY <1>2, <3>1, QuietStats
  <2> QED
    BY <2>1, <2>2, <2>3, <2>4
<1>3. CASE Tick \/ Quiet \/ UNCHANGED vars
  <2>1. UNCHANGED <<hits, miss, frame, finds>>
    BY <1>3 DEF Tick, Quiet, vars, shared, history
  <2> QED
    BY <1>1, <2>1 DEF StatsInv, Counted, Finding
<1> QED
  BY <1>1, <1>2, <1>3 DEF Next, StatsInv

(* The statistics yac reports never claim more lookups than were made,     *)
(* with any number of workers racing on ++yac_sg(hits) and ++yac_sg(miss)  *)
(* and losing updates of each other (lines 150, 158, 167, 175 and 193).    *)
THEOREM StatsCorrect == Spec => []StatsNeverOvercount
<1>1. StatsInv => StatsNeverOvercount
  <2> SUFFICES ASSUME StatsInv PROVE StatsNeverOvercount
    OBVIOUS
  <2>1. PICK H \in Nat, M \in Nat : Counted(H, M)
    BY DEF StatsInv
  <2>2. /\ Cardinality(Finding) \in Nat /\ finds \in Nat
        /\ hits \in Nat /\ miss \in Nat
    BY FS_CardinalityType DEF StatsInv, TypeInv, TypeOK
  <2> QED
    BY <2>1, <2>2 DEF Counted, StatsNeverOvercount
<1> QED
  BY <1>1, StatsInit, StatsStep, PTL DEF Spec

(***************************************************************************)
(* The null block                                                          *)
(*                                                                         *)
(* Line 184 tests the hash and the length of a slot, line 185 reads its    *)
(* block without testing the address.  That is sound because a slot        *)
(* without a block still has the hash and the length startup zeroed, which *)
(* no key has, and because nothing but a flush takes a block away.         *)
(***************************************************************************)
EmptyAreZero ==
  \A s \in SlotIds : slots[s].val = NULL => slots[s].h = 0 /\ slots[s].len.klen = 0

DerefsFilled == \A w \in Workers : frame[w].pc = "deref" => slots[frame[w].p].val # NULL

DerefInv == TypeInv /\ EmptyAreZero /\ DerefsFilled /\ NoNullDeref

(* No key hashes to zero with no byte, like the slots of startup.          *)
KeysDifferFromZero == \A key \in Keys : HashOf(key) # 0 \/ KeyLen[key] # 0

LEMMA DerefInit == Init => DerefInv
<1> SUFFICES ASSUME Init PROVE DerefInv
  OBVIOUS
<1> QED
  BY TypeInit DEF Init, DerefInv, EmptyAreZero, DerefsFilled, NoNullDeref, ZeroSlot,
     ZeroHeader, IdleFrame

(* Without a flush, a step never takes the block of a slot away, and a     *)
(* slot it leaves without one is as it was but for its ttl and key bytes.  *)
LEMMA BlocksStay ==
  ASSUME DerefInv, TornCopies = FALSE, Flushes = FALSE, NEW w \in Workers, WorkerStep(w)
  PROVE  /\ \A s \in SlotIds : slots[s].val # NULL => slots'[s].val # NULL
         /\ EmptyAreZero'
<1> DEFINE G == /\ \A s \in SlotIds : slots[s].val # NULL => slots'[s].val # NULL
                /\ EmptyAreZero'
<1>0. /\ slots \in [SlotIds -> Slot] /\ frame \in [Workers -> Frame]
      /\ frame[w] \in Frame /\ EmptyAreZero
  BY DEF DerefInv, TypeInv, TypeOK
<1>1. CASE UNCHANGED slots
  BY <1>0, <1>1 DEF EmptyAreZero
<1>2. ASSUME NEW p, NEW t, slots' = [slots EXCEPT ![p].ttl = t]
      PROVE  G
  BY <1>0, <1>2 DEF EmptyAreZero, Slot
<1>3. ASSUME NEW p, NEW key, slots' = [slots EXCEPT ![p].key = key]
      PROVE  G
  BY <1>0, <1>3 DEF EmptyAreZero, Slot
<1>4. CASE Publish(w)
  <2>1. frame[w].k.val \in Addrs
    BY <1>4 DEF DerefInv, TypeInv, Equipped, UsesBlock, Publish, PutPc
  <2>2. frame[w].k.val # NULL
    BY <2>1, StorageAssumption
  <2> QED
    BY <1>0, <1>4, <2>2 DEF Publish, EmptyAreZero
<1>5. CASE Expire(w)
  BY <1>2, <1>5 DEF Expire
<1>6. CASE Clobber(w)
  BY <1>3, <1>6 DEF Clobber
<1>7. ASSUME NEW key \in Keys, NEW ttl \in Ttls, Delete(w, key, ttl)
      PROVE  G
  BY <1>2, <1>7 DEF Delete
<1>8. CASE \/ ReadVal(w) \/ Verify(w) \/ Copy(w) \/ Touch(w) \/ Probe(w) \/ Kill(w)
           \/ Deref(w) \/ CountLoad(w) \/ CountStore(w) \/ PutVal(w)
           \/ \E key \in Keys : FindStart(w, key)
           \/ \E key \in Keys, d \in Values, flag \in Flags, ttl \in Ttls :
                PutStart(w, key, d, flag, ttl)
  <2>1. UNCHANGED slots
    BY <1>8, Zenon DEF ReadVal, Verify, Copy, Touch, Probe, Deref, CountLoad,
       CountStore, PutVal, FindStart, PutStart, Kill, shared
  <2> QED
    BY <1>1, <2>1
<1> QED
  BY <1>4, <1>5, <1>6, <1>7, <1>8 DEF WorkerStep, Call, FindStep, Flush

(* Only a round of the probe loop that saw a slot of the key goes on to    *)
(* read a block, and it reads one that is there.                           *)
LEMMA DerefFrameStep ==
  ASSUME DerefInv, TornCopies = FALSE, Flushes = FALSE, KeysDifferFromZero,
         NEW w \in Workers, WorkerStep(w)
  PROVE  /\ frame'[w].pc = "deref" => slots[frame'[w].p].val # NULL /\ frame'[w].p \in SlotIds
         /\ frame'[w].pc # "crashed"
<1> DEFINE f == frame[w]
           G == /\ frame'[w].pc = "deref" =>
                     slots[frame'[w].p].val # NULL /\ frame'[w].p \in SlotIds
                /\ frame'[w].pc # "crashed"
<1>0. /\ slots \in [SlotIds -> Slot] /\ frame \in [Workers -> Frame] /\ f \in Frame
      /\ f.pc # "crashed"
      /\ f.pc = "deref" => slots[f.p].val # NULL
  BY DEF DerefInv, TypeInv, TypeOK, DerefsFilled, NoNullDeref
<1>g. \A label : Goto(w, label) \/ Drop(w, label) => frame'[w].pc = label
  BY <1>0 DEF Goto, Drop, WithoutEntry, IdleFrame, Frame
<1>1. CASE \E key \in Keys : FindStart(w, key)
  <2>1. frame'[w].pc \in {"readVal", "miss", "probe"}
    BY <1>0, <1>1 DEF FindStart, IdleFrame
  <2> QED
    BY <2>1
<1>2. CASE ReadVal(w) \/ Expire(w) \/ Touch(w) \/ Clobber(w) \/ PutVal(w)
  <2>1. \E label \in {"probe", "miss", "verify", "hit", "publish"} :
          Goto(w, label) \/ Drop(w, label)
    BY <1>2 DEF ReadVal, Expire, Touch, Clobber, PutVal
  <2> QED
    BY <1>g, <2>1
<1>3. CASE Deref(w)
  <2>1. f.pc = "deref" /\ SlotCopies(f.p) = {slots[f.p]}
    BY <1>3 DEF Deref, SlotCopies
  <2>2. Goto(w, "clobber")
    BY <1>0, <1>3, <2>1 DEF Deref
  <2> QED
    BY <1>g, <2>2
<1>4. CASE Verify(w) \/ CountLoad(w) \/ CountStore(w) \/ Publish(w) \/ Kill(w)
  <2>1. frame'[w].pc \in {"expire", "copy", "hitStore", "missStore", "idle"}
    BY <1>0, <1>4 DEF Verify, CountLoad, CountStore, Publish, Kill, IdleFrame, Frame
  <2> QED
    BY <2>1
<1>5. CASE Copy(w)
  <2>1. PICK s : \/ frame' = [frame EXCEPT ![w].s = s, ![w].pc = "touch"]
                 \/ Drop(w, "miss")
    BY <1>5 DEF Copy
  <2>2. frame'[w].pc \in {"touch", "miss"}
    BY <1>0, <1>g, <2>1 DEF Frame
  <2> QED
    BY <2>2
<1>6. CASE Probe(w)
  <2>1. CASE f.i = 3
    BY <1>6, <1>g, <2>1 DEF Probe
  <2>2. CASE f.i # 3
    <3> DEFINE p == ProbeSlot(f.key, f.i + 1)
    <3>1. f.key \in Keys /\ f.i + 1 \in 0 .. 3
      BY <1>0, <1>6, <2>2 DEF DerefInv, TypeInv, Equipped, Probe, FindPc, Frame
    <3>2. p \in SlotIds /\ SlotCopies(p) = {slots[p]}
      BY <3>1, ProbeSlotType DEF SlotCopies
    <3>3. frame' = [frame EXCEPT ![w].i = f.i + 1, ![w].p = p,
              ![w].pc = IF HashMatches(slots[p], f.key) THEN "deref" ELSE "probe"]
      BY <1>6, <2>2, <3>2 DEF Probe
    <3>4. frame'[w].p = p
          /\ frame'[w].pc = IF HashMatches(slots[p], f.key) THEN "deref" ELSE "probe"
      BY <1>0, <3>3 DEF Frame
    <3>5. HashMatches(slots[p], f.key) => slots[p].val # NULL
      BY <3>1, <3>2 DEF DerefInv, EmptyAreZero, HashMatches, KeysDifferFromZero
    <3> QED
      BY <3>2, <3>4, <3>5
  <2> QED
    BY <2>1, <2>2
<1>7. ASSUME NEW key \in Keys, NEW d \in Values, NEW flag \in Flags, NEW ttl \in Ttls,
             PutStart(w, key, d, flag, ttl)
      PROVE  G
  <2>1. PICK p, k : frame' = [frame EXCEPT ![w] =
            [IdleFrame EXCEPT !.pc = "putVal", !.p = p, !.s = d, !.tv = now,
               !.key = key, !.k = k]]
    BY <1>7, Zenon DEF PutStart
  <2>2. frame'[w].pc = "putVal"
    BY <1>0, <2>1 DEF IdleFrame
  <2> QED
    BY <2>2
<1>8. ASSUME NEW key \in Keys, NEW ttl \in Ttls, Delete(w, key, ttl)
      PROVE  G
  BY <1>8 DEF Delete, Frame
<1> QED
  BY <1>1, <1>2, <1>3, <1>4, <1>5, <1>6, <1>7, <1>8 DEF WorkerStep, Call, FindStep, Flush

LEMMA DerefStep ==
  ASSUME TornCopies = FALSE, Flushes = FALSE, KeysDifferFromZero
  PROVE  DerefInv /\ [Next]_vars => DerefInv'
<1> SUFFICES ASSUME DerefInv, [Next]_vars PROVE DerefInv'
  OBVIOUS
<1>1. TypeInv /\ TypeInv'
  BY TypeStep DEF DerefInv
<1>2. ASSUME NEW w \in Workers, WorkerStep(w)
      PROVE  EmptyAreZero' /\ DerefsFilled' /\ NoNullDeref'
  <2>1. \A u \in Workers \ {w} : frame'[u] = frame[u]
    BY <1>1, <1>2, OwnFrame
  <2>2. /\ \A s \in SlotIds : slots[s].val # NULL => slots'[s].val # NULL
        /\ EmptyAreZero'
    BY <1>2, BlocksStay
  <2>3. /\ frame'[w].pc = "deref" =>
             slots[frame'[w].p].val # NULL /\ frame'[w].p \in SlotIds
        /\ frame'[w].pc # "crashed"
    BY <1>2, DerefFrameStep
  <2>4. \A u \in Workers : frame[u].p \in SlotIds
    BY <1>1 DEF TypeInv, TypeOK, Frame
  <2>5. DerefsFilled'
    BY <2>1, <2>2, <2>3, <2>4 DEF DerefInv, DerefsFilled
  <2> QED
    BY <2>1, <2>2, <2>3, <2>5 DEF DerefInv, NoNullDeref
<1>3. CASE Tick \/ Quiet \/ UNCHANGED vars
  <2>1. UNCHANGED <<slots, frame>>
    BY <1>3 DEF Tick, Quiet, vars, shared, history
  <2> QED
    BY <1>1, <2>1 DEF DerefInv, EmptyAreZero, DerefsFilled, NoNullDeref
<1> QED
  BY <1>1, <1>2, <1>3 DEF Next, DerefInv

(* The lookup of line 185 never follows the null address, with any number  *)
(* of workers updating, deleting and killed meanwhile, as long as slots    *)
(* are copied whole, nobody flushes, and no key looks like a zeroed slot.  *)
(* Each of the three is needed: a flush between lines 184 and 185, or a    *)
(* slot seen half published, does take the process down.                   *)
THEOREM DerefCorrect ==
  ASSUME TornCopies = FALSE, Flushes = FALSE, KeysDifferFromZero
  PROVE  Spec => []NoNullDeref
<1>1. DerefInv => NoNullDeref
  BY DEF DerefInv
<1>2. DerefInv /\ [Next]_vars => DerefInv'
  BY DerefStep
<1> QED
  BY <1>1, <1>2, DerefInit, PTL DEF Spec

(***************************************************************************)
(* Hits on slots copied half published                                     *)
(*                                                                         *)
(* When a copy mixes the words of two images of a slot it describes no     *)
(* entry any more, so StoredInv fails.  What is left is word by word: the  *)
(* checksum is that of some stored value, or still empty, and the block a  *)
(* slot names has been filled, so its length is that of a stored entry.    *)
(* The comparison of the two lengths, line 146, does the rest.             *)
(***************************************************************************)
Sampled(crc, S) == crc = <<>> \/ \E e \in S : crc = Sample(e.data)

Headed(len, S) ==
  \E e \in S : len = [klen |-> KeyLen[e.key], vlen |-> Len(e.data)]

(* The words of slot image k, and the block it names.                      *)
Grounded(k, V, S) ==
  /\ Sampled(k.crc, S)
  /\ k.val # NULL => Headed(V[k.val].len, S)

FrameGrounded(f, V, S) ==
  /\ Sampled(f.k.crc, S)
  /\ f.pc \in {"readVal", "publish"} => Headed(V[f.k.val].len, S)
  /\ f.pc \in PutPc \cup {"verify", "copy"} \cup HitPc => Headed(f.k.len, S)
  /\ f.pc \in HitPc => f.k.crc = Sample(f.s) /\ Len(f.s) = f.k.len.vlen

TornInv ==
  /\ TypeInv
  /\ \A s \in SlotIds : Grounded(slots[s], vals, stored)
  /\ \A w \in Workers : FrameGrounded(frame[w], vals, stored)

LEMMA IdleFrameGrounded == \A V, S : FrameGrounded(IdleFrame, V, S)
  BY DEF FrameGrounded, IdleFrame, ZeroSlot, Sampled, PutPc, HitPc

LEMMA TornInit == Init => TornInv
<1> SUFFICES ASSUME Init PROVE TornInv
  OBVIOUS
<1>1. Grounded(ZeroSlot, vals, stored)
  BY DEF Grounded, ZeroSlot, Sampled
<1> QED
  BY <1>1, TypeInit, IdleFrameGrounded DEF Init, TornInv

(* However a copy of a slot is torn, each of its words is one of an image. *)
LEMMA TornCopy ==
  ASSUME TornInv, NEW s \in SlotIds, NEW k \in SlotCopies(s)
  PROVE  k \in Slot /\ Grounded(k, vals, stored)
<1>1. ASSUME NEW x \in SlotImages(s)
      PROVE  Grounded(x, vals, stored)
  BY DEF TornInv, SlotImages, FrameGrounded, Grounded
<1>2. k \in Slot
  BY SlotCopiesType DEF TornInv, TypeInv
<1>3. CASE TornCopies
  <2>1. /\ k.crc \in {x.crc : x \in SlotImages(s)}
        /\ k.val \in {x.val : x \in SlotImages(s)}
    BY <1>3 DEF SlotCopies
  <2> QED
    BY <1>1, <1>2, <2>1 DEF Grounded
<1>4. CASE ~ TornCopies
  <2>1. k = slots[s]
    BY <1>4 DEF SlotCopies
  <2> QED
    BY <1>2, <2>1 DEF TornInv
<1> QED
  BY <1>2, <1>3, <1>4

(* Every image of a block that has been filled, or is being filled, has    *)
(* the length of a stored entry.                                           *)
LEMMA ImagesHeaded ==
  ASSUME TornInv, NEW a \in Addrs, Headed(vals[a].len, stored), NEW b \in BlockImages(a)
  PROVE  Headed(b.len, stored)
<1>1. CASE b = vals[a]
  BY <1>1
<1>2. ASSUME NEW u \in Workers, Filling(u, a), b = Filled(u, a)
      PROVE  Headed(b.len, stored)
  <2>1. Headed(frame[u].k.len, stored)
    BY <1>2 DEF TornInv, FrameGrounded, Filling, PutPc
  <2> QED
    BY <1>2, <2>1 DEF Filled
<1> QED
  BY <1>1, <1>2 DEF BlockImages

(* A filled block stays filled, and more is stored, never less.            *)
LEMMA HeadsStay ==
  ASSUME TornInv, NEW w \in Workers, WorkerStep(w)
  PROVE  /\ \A a \in Addrs : Headed(vals[a].len, stored) => Headed(vals'[a].len, stored')
         /\ \A len : Headed(len, stored) => Headed(len, stored')
         /\ \A crc : Sampled(crc, stored) => Sampled(crc, stored')
<1> DEFINE f == frame[w]
           G == \A a \in Addrs : Headed(vals[a].len, stored) => Headed(vals'[a].len, stored')
<1>0. /\ vals \in [Addrs -> Block] /\ f \in Frame /\ f.k \in Slot
      /\ TypeInv /\ stored \subseteq stored'
  BY OwnFrame DEF TornInv, TypeInv, TypeOK, Frame
<1>1. /\ \A len : Headed(len, stored) => Headed(len, stored')
      /\ \A crc : Sampled(crc, stored) => Sampled(crc, stored')
  BY <1>0 DEF Headed, Sampled
<1>2. CASE UNCHANGED vals
  BY <1>1, <1>2
<1>3. CASE Touch(w)
  BY <1>0, <1>1, <1>3 DEF Touch, Block
<1>4. CASE PutVal(w)
  <2>1. f.k.val \in Addrs /\ Headed(f.k.len, stored)
    BY <1>4 DEF TornInv, TypeInv, FrameGrounded, Equipped, UsesBlock, PutVal, PutPc
  <2> QED
    BY <1>0, <1>1, <1>4, <2>1 DEF PutVal, Filled
<1>5. CASE Kill(w)
  <2>1. CASE f.pc = "putVal"
    <3>1. PICK b \in BlockImages(f.k.val), d \in ByteCopies(f.k.val, BlockLen) :
            vals' = [vals EXCEPT ![f.k.val] = [b EXCEPT !.data = d]]
      BY <1>5, <2>1 DEF Kill
    <3>2. f.k.val \in Addrs
      BY <2>1 DEF TornInv, TypeInv, Equipped, UsesBlock, PutPc
    <3>3. b \in Block
      BY <1>0, <3>2, BlockImagesType DEF TypeInv
    <3>4. vals'[f.k.val].len = b.len
      BY <1>0, <3>1, <3>2, <3>3 DEF Block
    <3>5. Headed(vals[f.k.val].len, stored) => Headed(b.len, stored)
      BY <3>2, ImagesHeaded
    <3>6. \A a \in Addrs \ {f.k.val} : vals'[a] = vals[a]
      BY <1>0, <3>1
    <3> QED
      BY <1>1, <3>4, <3>5, <3>6
  <2>2. CASE f.pc # "putVal"
    BY <1>2, <1>5, <2>2 DEF Kill
  <2> QED
    BY <2>1, <2>2
<1>6. CASE ~ (Touch(w) \/ PutVal(w) \/ Kill(w))
  <2>1. \/ ReadVal(w) \/ Verify(w) \/ Expire(w) \/ Copy(w) \/ Probe(w) \/ Deref(w)
        \/ Clobber(w) \/ CountLoad(w) \/ CountStore(w) \/ Publish(w) \/ Flush(w)
        \/ \E key \in Keys : FindStart(w, key)
        \/ \E key \in Keys, d \in Values, flag \in Flags, ttl \in Ttls :
             PutStart(w, key, d, flag, ttl)
        \/ \E key \in Keys, ttl \in Ttls : Delete(w, key, ttl)
    BY <1>6, Zenon DEF WorkerStep, Call, FindStep
  <2>2. UNCHANGED vals
    BY <2>1, Zenon DEF ReadVal, Verify, Expire, Copy, Probe, Deref, Clobber, CountLoad,
       CountStore, Publish, Flush, FindStart, PutStart, Delete, shared
  <2> QED
    BY <1>2, <2>2
<1> QED
  BY <1>1, <1>3, <1>4, <1>5, <1>6

(* So what was grounded before the step still is.                          *)
LEMMA GroundStays ==
  ASSUME TornInv, NEW w \in Workers, WorkerStep(w)
  PROVE  /\ \A k \in Slot : Grounded(k, vals, stored) => Grounded(k, vals', stored')
         /\ \A u \in Workers \ {w} : FrameGrounded(frame'[u], vals', stored')
<1>1. /\ \A a \in Addrs : Headed(vals[a].len, stored) => Headed(vals'[a].len, stored')
      /\ \A len : Headed(len, stored) => Headed(len, stored')
      /\ \A crc : Sampled(crc, stored) => Sampled(crc, stored')
  BY HeadsStay
<1>2. \A k \in Slot : Grounded(k, vals, stored) => Grounded(k, vals', stored')
  BY <1>1 DEF Grounded, Slot
<1>3. ASSUME NEW u \in Workers \ {w} PROVE FrameGrounded(frame'[u], vals', stored')
  <2>1. frame'[u] = frame[u] /\ FrameGrounded(frame[u], vals, stored) /\ Equipped(frame[u])
    BY OwnFrame DEF TornInv, TypeInv
  <2> QED
    BY <1>1, <2>1 DEF FrameGrounded, Equipped, UsesBlock, PutPc
<1> QED
  BY <1>2, <1>3

LEMMA TornSlots ==
  ASSUME TornInv, NEW w \in Workers, WorkerStep(w)
  PROVE  \A s \in SlotIds : Grounded(slots'[s], vals', stored')
<1> DEFINE f == frame[w]
           Kept(k) == Grounded(k, vals', stored')
           G == \A s \in SlotIds : Kept(slots'[s])
<1>0. /\ slots \in [SlotIds -> Slot] /\ f \in Frame /\ f.k \in Slot
      /\ \A s \in SlotIds : Kept(slots[s])
      /\ \A k \in Slot : Grounded(k, vals, stored) => Kept(k)
  BY GroundStays DEF TornInv, TypeInv, TypeOK, Frame
<1>1. CASE UNCHANGED slots
  BY <1>0, <1>1
<1>2. ASSUME NEW p, NEW t, slots' = [slots EXCEPT ![p].ttl = t]
      PROVE  G
  BY <1>0, <1>2 DEF Grounded, Slot
<1>3. ASSUME NEW p, NEW key, slots' = [slots EXCEPT ![p].key = key]
      PROVE  G
  BY <1>0, <1>3 DEF Grounded, Slot
<1>4. CASE Publish(w)
  <2>1. Grounded(f.k, vals, stored)
    BY <1>4 DEF TornInv, FrameGrounded, Grounded, Publish
  <2> QED
    BY <1>0, <1>4, <2>1 DEF Publish
<1>5. CASE Expire(w)
  BY <1>2, <1>5 DEF Expire
<1>6. CASE Clobber(w)
  BY <1>3, <1>6 DEF Clobber
<1>7. ASSUME NEW key \in Keys, NEW ttl \in Ttls, Delete(w, key, ttl)
      PROVE  G
  BY <1>2, <1>7 DEF Delete
<1>8. CASE \/ ReadVal(w) \/ Verify(w) \/ Copy(w) \/ Touch(w) \/ Probe(w)
           \/ Deref(w) \/ CountLoad(w) \/ CountStore(w) \/ PutVal(w)
           \/ \E key \in Keys : FindStart(w, key)
           \/ \E key \in Keys, d \in Values, flag \in Flags, ttl \in Ttls :
                PutStart(w, key, d, flag, ttl)
  <2>1. UNCHANGED slots
    BY <1>8, Zenon DEF ReadVal, Verify, Copy, Touch, Probe, Deref, CountLoad,
       CountStore, PutVal, FindStart, PutStart, shared
  <2> QED
    BY <1>1, <2>1
<1>9. CASE Flush(w)
  <2>1. Kept(ZeroSlot)
    BY DEF Grounded, ZeroSlot, Sampled
  <2> QED
    BY <1>9, <2>1 DEF Flush
<1>10. CASE Kill(w)
  <2>1. CASE f.pc = "publish" /\ TornCopies
    <3>1. PICK k \in SlotCopies(f.p) : slots' = [slots EXCEPT ![f.p] = k]
      BY <1>10, <2>1 DEF Kill
    <3>2. Kept(k)
      BY <1>0, TornCopy DEF Frame
    <3> QED
      BY <1>0, <3>1, <3>2
  <2>2. CASE ~ (f.pc = "publish" /\ TornCopies)
    BY <1>1, <1>10, <2>2 DEF Kill
  <2> QED
    BY <2>1, <2>2
<1> QED
  BY <1>4, <1>5, <1>6, <1>7, <1>8, <1>9, <1>10 DEF WorkerStep, Call, FindStep

LEMMA TornFrame ==
  ASSUME TornInv, NEW w \in Workers, WorkerStep(w)
  PROVE  FrameGrounded(frame'[w], vals', stored')
<1> DEFINE f == frame[w]
           G == FrameGrounded(frame'[w], vals', stored')
<1>0. /\ TypeInv /\ frame \in [Workers -> Frame] /\ f \in Frame /\ f.k \in Slot
      /\ Equipped(f) /\ FrameGrounded(f, vals, stored)
      /\ \A a \in Addrs : Headed(vals[a].len, stored) => Headed(vals'[a].len, stored')
      /\ \A len : Headed(len, stored) => Headed(len, stored')
      /\ \A crc : Sampled(crc, stored) => Sampled(crc, stored')
  BY HeadsStay DEF TornInv, TypeInv, TypeOK, Frame
<1> USE DEF FindPc, PutPc, HitPc
<1>d. \A label \in {"probe", "miss"} : Drop(w, label) => G
  <2>1. \A label : Drop(w, label) => /\ frame'[w].pc = label
                                    /\ frame'[w].k = ZeroSlot
    BY <1>0 DEF Drop, WithoutEntry, IdleFrame
  <2> QED
    BY <2>1 DEF FrameGrounded, ZeroSlot, Sampled
<1>k. f.pc # "idle" => Sampled(f.k.crc, stored')
  BY <1>0 DEF FrameGrounded
<1>1. ASSUME NEW key \in Keys, FindStart(w, key) PROVE G
  <2>1. PICK k \in SlotCopies(ProbeSlot(key, 0)) :
          frame' = [frame EXCEPT ![w] =
            IF k.val # NULL /\ HashMatches(k, key)
            THEN [IdleFrame EXCEPT !.pc = "readVal", !.key = key,
                    !.p = ProbeSlot(key, 0), !.k = k]
            ELSE [IdleFrame EXCEPT !.pc = IF k.val = NULL THEN "miss" ELSE "probe",
                    !.key = key]]
    BY <1>1 DEF FindStart
  <2>2. k \in Slot /\ Grounded(k, vals, stored) /\ vals' = vals /\ stored' = stored
    BY <1>1, ProbeSlotType, TornCopy DEF FindStart, shared
  <2>3. CASE k.val # NULL /\ HashMatches(k, key)
    <3>1. frame'[w].k = k /\ frame'[w].pc = "readVal"
      BY <1>0, <2>1, <2>3 DEF IdleFrame
    <3> QED
      BY <2>2, <2>3, <3>1 DEF FrameGrounded, Grounded
  <2>4. CASE ~ (k.val # NULL /\ HashMatches(k, key))
    <3>1. frame'[w].k = ZeroSlot /\ frame'[w].pc \in {"miss", "probe"}
      BY <1>0, <2>1, <2>4 DEF IdleFrame
    <3> QED
      BY <3>1 DEF FrameGrounded, ZeroSlot, Sampled
  <2> QED
    BY <2>3, <2>4
<1>2. CASE ReadVal(w)
  <2>1. PICK v \in BlockImages(f.k.val) :
          \/ Drop(w, "probe") \/ Drop(w, "miss")
          \/ f.k.len = v.len /\ Goto(w, "verify")
    BY <1>2 DEF ReadVal
  <2>2. CASE f.k.len = v.len /\ Goto(w, "verify")
    <3>1. f.pc = "readVal" /\ frame'[w].pc = "verify" /\ frame'[w].k = f.k
          /\ stored' = stored
      BY <1>0, <1>2, <2>2 DEF ReadVal, Goto, Frame, history
    <3>2. f.k.val \in Addrs /\ Headed(vals[f.k.val].len, stored)
      BY <1>0, <3>1 DEF Equipped, UsesBlock, FrameGrounded
    <3>3. Headed(f.k.len, stored)
      BY <2>2, <3>2, ImagesHeaded
    <3> QED
      BY <1>0, <3>1, <3>3 DEF FrameGrounded
  <2> QED
    BY <1>d, <2>1, <2>2
<1>3. CASE Verify(w)
  <2>1. f.pc = "verify" /\ frame'[w].pc \in {"expire", "copy"} /\ frame'[w].k = f.k
    BY <1>0, <1>3 DEF Verify, Frame
  <2> QED
    BY <1>0, <2>1 DEF FrameGrounded
<1>4. CASE Expire(w)
  BY <1>d, <1>4 DEF Expire
<1>5. CASE Copy(w)
  <2>1. PICK s \in ByteCopies(f.k.val, f.k.len.vlen) :
          \/ /\ f.k.crc = Sample(s)
             /\ frame' = [frame EXCEPT ![w].s = s, ![w].pc = "touch"]
          \/ Drop(w, "miss")
    BY <1>5 DEF Copy
  <2>2. Len(s) = f.k.len.vlen
    BY <1>0, ByteCopiesType DEF Slot, Header
  <2>3. CASE /\ f.k.crc = Sample(s)
             /\ frame' = [frame EXCEPT ![w].s = s, ![w].pc = "touch"]
    <3>1. f.pc = "copy" /\ frame'[w] = [f EXCEPT !.s = s, !.pc = "touch"]
      BY <1>0, <1>5, <2>3 DEF Copy
    <3>2. frame'[w].pc = "touch" /\ frame'[w].k = f.k /\ frame'[w].s = s
      BY <1>0, <3>1 DEF Frame
    <3> QED
      BY <1>0, <2>2, <2>3, <3>1, <3>2 DEF FrameGrounded
  <2> QED
    BY <1>d, <2>1, <2>3
<1>6. CASE Touch(w)
  <2>1. f.pc = "touch" /\ frame'[w] = [f EXCEPT !.pc = "hit"]
    BY <1>0, <1>6 DEF Touch, Goto
  <2> QED
    BY <1>0, <2>1 DEF FrameGrounded, Frame
<1>7. CASE PutVal(w)
  <2>1. /\ f.pc = "putVal" /\ frame'[w].pc = "publish" /\ frame'[w].k = f.k
        /\ f.k.val \in Addrs /\ stored' = stored
        /\ vals' = [vals EXCEPT ![f.k.val] = Filled(w, f.k.val)]
    BY <1>0, <1>7 DEF PutVal, Goto, Frame, Equipped, UsesBlock, history
  <2>2. vals'[f.k.val].len = f.k.len
    BY <2>1 DEF TornInv, TypeInv, TypeOK, Filled
  <2> QED
    BY <1>0, <2>1, <2>2 DEF FrameGrounded
<1>8. CASE Probe(w) \/ Deref(w) \/ Clobber(w)
  <2>1. \/ Drop(w, "miss")
        \/ /\ frame'[w].pc \in {"probe", "deref", "crashed", "clobber"}
           /\ frame'[w].k = f.k /\ f.pc # "idle"
    <3>1. CASE Deref(w) \/ Clobber(w)
      <4>1. PICK label \in {"probe", "crashed", "clobber"} : Goto(w, label)
        BY <3>1 DEF Deref, Clobber
      <4> QED
        BY <1>0, <3>1, <4>1 DEF Deref, Clobber, Goto, Frame
    <3>2. CASE Probe(w) /\ f.i = 3
      BY <3>2 DEF Probe
    <3>3. CASE Probe(w) /\ f.i # 3
      <4>1. PICK k : frame' = [frame EXCEPT ![w].i = f.i + 1,
                ![w].p = ProbeSlot(f.key, f.i + 1),
                ![w].pc = IF HashMatches(k, f.key) THEN "deref" ELSE "probe"]
        BY <3>3 DEF Probe
      <4> QED
        BY <1>0, <3>3, <4>1 DEF Probe, Frame
    <3> QED
      BY <1>8, <3>1, <3>2, <3>3
  <2> QED
    BY <1>d, <1>k, <2>1 DEF FrameGrounded
<1>9. CASE CountLoad(w)
  <2>1. /\ f.pc \in {"hit", "miss"} /\ frame'[w].k = f.k /\ frame'[w].s = f.s
        /\ frame'[w].pc = IF f.pc = "hit" THEN "hitStore" ELSE "missStore"
    BY <1>0, <1>9 DEF CountLoad, Frame
  <2> QED
    BY <1>0, <2>1 DEF FrameGrounded
<1>10. CASE CountStore(w) \/ Publish(w) \/ Kill(w)
  BY <1>0, <1>10, IdleFrameGrounded DEF CountStore, Publish, Kill
<1>11. ASSUME NEW key \in Keys, NEW d \in Values, NEW flag \in Flags, NEW ttl \in Ttls,
              PutStart(w, key, d, flag, ttl)
       PROVE  G
  <2>1. PICK p \in PutSlots(key), a \in Addrs :
          frame' = [frame EXCEPT ![w] =
            [IdleFrame EXCEPT !.pc = "putVal", !.p = p, !.s = d, !.tv = now,
               !.key = key,
               !.k = [h |-> HashOf(key), crc |-> Sample(d), ttl |-> Expiry(ttl),
                      len |-> [klen |-> KeyLen[key], vlen |-> Len(d)],
                      flag |-> flag, val |-> a, key |-> key]]]
    BY <1>11, Zenon DEF PutStart
  <2>2. [key |-> key, data |-> d, flag |-> flag] \in stored'
    BY <1>11 DEF PutStart
  <2>3. /\ frame'[w].k.crc = Sample(d) /\ frame'[w].pc = "putVal"
        /\ frame'[w].k.len = [klen |-> KeyLen[key], vlen |-> Len(d)]
    BY <1>0, <2>1 DEF IdleFrame
  <2>4. Sampled(frame'[w].k.crc, stored') /\ Headed(frame'[w].k.len, stored')
    BY <2>2, <2>3 DEF Sampled, Headed
  <2> QED
    BY <2>3, <2>4 DEF FrameGrounded
<1>12. CASE Flush(w) \/ \E key \in Keys, ttl \in Ttls : Delete(w, key, ttl)
  <2>1. frame' = frame /\ f.pc = "idle"
    BY <1>12 DEF Flush, Delete
  <2> QED
    BY <1>0, <2>1 DEF FrameGrounded
<1> QED
  BY <1>1, <1>2, <1>3, <1>4, <1>5, <1>6, <1>7, <1>8, <1>9, <1>10, <1>11, <1>12
     DEF WorkerStep, Call, FindStep

LEMMA TornStep == TornInv /\ [Next]_vars => TornInv'
<1> SUFFICES ASSUME TornInv, [Next]_vars PROVE TornInv'
  OBVIOUS
<1>1. TypeInv /\ TypeInv'
  BY TypeStep DEF TornInv
<1>2. ASSUME NEW w \in Workers, WorkerStep(w) PROVE TornInv'
  <2>1. \A s \in SlotIds : Grounded(slots'[s], vals', stored')
    BY <1>2, TornSlots
  <2>2. \A u \in Workers : FrameGrounded(frame'[u], vals', stored')
    BY <1>2, TornFrame, GroundStays
  <2> QED
    BY <1>1, <2>1, <2>2 DEF TornInv
<1>3. CASE Tick \/ Quiet \/ UNCHANGED vars
  <2>1. UNCHANGED <<slots, vals, frame, stored>>
    BY <1>3 DEF Tick, Quiet, vars, shared, history
  <2> QED
    BY <1>1, <2>1 DEF TornInv
<1> QED
  BY <1>1, <1>2, <1>3 DEF Next

(* Only the empty value has an empty sample.                               *)
LEMMA EmptySample ==
  ASSUME NEW d \in Seq(Byte)
  PROVE  Sample(d) = <<>> <=> Len(d) = 0
<1>1. CASE Len(d) < Window
  BY <1>1 DEF Sample
<1>2. CASE ~ (Len(d) < Window)
  <2>1. /\ Len(d) # 0
        /\ Sample(d) = [j \in 1 .. Window |-> d[1 + (j - 1) * (Len(d) \div Window)]]
    BY <1>2, LayoutAssumption DEF Sample
  <2>2. DOMAIN Sample(d) = 1 .. Window
    BY <2>1
  <2>3. 1 \in DOMAIN Sample(d) /\ 1 \notin DOMAIN << >>
    BY <2>2, LayoutAssumption
  <2> QED
    BY <2>1, <2>3
<1> QED
  BY <1>1, <1>2

(* Even when k = *p of line 141 sees a slot half published, by any number  *)
(* of workers and whichever of them is killed, a hit returns bytes that    *)
(* pass the checksum of some stored value: line 146 has compared the       *)
(* length with that of a filled block and line 165 the checksum, and the   *)
(* checksum of a slot never written belongs to the empty value alone.      *)
THEOREM TornHitsCorrect == Spec => []TornHitIntegrity
<1>1. TornInv => TornHitIntegrity
  <2> SUFFICES ASSUME TornInv, NEW w \in Hitting
               PROVE  \E e \in stored : Sample(frame[w].s) = Sample(e.data)
    BY DEF TornHitIntegrity
  <2> DEFINE f == frame[w]
  <2>1. /\ Sampled(f.k.crc, stored) /\ Headed(f.k.len, stored)
        /\ f.k.crc = Sample(f.s) /\ Len(f.s) = f.k.len.vlen
        /\ f.s \in Seq(Byte)
    BY DEF Hitting, TornInv, TypeInv, TypeOK, Frame, FrameGrounded, HitPc
  <2>2. CASE f.k.crc = <<>>
    <3>1. PICK e \in stored : f.k.len = [klen |-> KeyLen[e.key], vlen |-> Len(e.data)]
      BY <2>1 DEF Headed
    <3>2. e.data \in Seq(Byte)
      BY StorageAssumption DEF TornInv, TypeInv, TypeOK, Entry
    <3>3. Sample(f.s) = <<>> /\ Len(f.s) = Len(e.data)
      BY <2>1, <2>2, <3>1
    <3>4. Len(f.s) = 0
      BY <2>1, <3>3, EmptySample
    <3>5. Sample(e.data) = <<>>
      BY <3>2, <3>3, <3>4, EmptySample
    <3> QED
      BY <3>3, <3>5
  <2>3. CASE f.k.crc # <<>>
    BY <2>1, <2>3 DEF Sampled
  <2> QED
    BY <2>2, <2>3
<1> QED
  BY <1>1, TornInit, TornStep, PTL DEF Spec

(***************************************************************************)
(* Lookups do not wait                                                     *)
(***************************************************************************)
LEMMA FindShortens ==
  ASSUME TypeInv, NEW w \in Workers, FindStep(w)
  PROVE  StepsLeft(frame'[w]) < StepsLeft(frame[w])
<1> DEFINE f == frame[w]
<1>1. frame \in [Workers -> Frame] /\ f \in Frame /\ f.i \in 0 .. 3
  BY DEF TypeInv, TypeOK, Frame
<1>2. ASSUME NEW label, Goto(w, label)
      PROVE  frame'[w].pc = label /\ frame'[w].i = f.i
  BY <1>1, <1>2 DEF Goto, Frame
<1>3. ASSUME NEW label, Drop(w, label)
      PROVE  frame'[w].pc = label /\ frame'[w].i = 0
  BY <1>1, <1>3 DEF Drop, WithoutEntry, IdleFrame, Frame
<1>4. CASE ReadVal(w)
  <2>1. Drop(w, "probe") \/ Drop(w, "miss") \/ Goto(w, "verify")
    BY <1>4 DEF ReadVal
  <2>2. f.pc = "readVal"
    BY <1>4 DEF ReadVal
  <2>3. \/ frame'[w].pc = "probe" /\ frame'[w].i = 0
        \/ frame'[w].pc \in {"miss", "verify"}
    BY <1>2, <1>3, <2>1
  <2> QED
    BY <2>2, <2>3 DEF StepsLeft
<1>5. CASE Verify(w)
  <2>1. f.pc = "verify" /\ frame'[w].pc \in {"expire", "copy"}
    BY <1>1, <1>5 DEF Verify, Frame
  <2> QED
    BY <2>1 DEF StepsLeft
<1>6. CASE Expire(w)
  <2>1. f.pc = "expire" /\ frame'[w].pc = "miss"
    BY <1>3, <1>6 DEF Expire
  <2> QED
    BY <2>1 DEF StepsLeft
<1>7. CASE Copy(w)
  <2>1. f.pc = "copy"
    BY <1>7 DEF Copy
  <2>2. PICK s : frame' = [frame EXCEPT ![w].s = s, ![w].pc = "touch"] \/ Drop(w, "miss")
    BY <1>7 DEF Copy
  <2>3. frame'[w].pc \in {"touch", "miss"}
    BY <1>1, <1>3, <2>2 DEF Frame
  <2> QED
    BY <2>1, <2>3 DEF StepsLeft
<1>8. CASE Touch(w)
  <2>1. f.pc = "touch" /\ frame'[w].pc = "hit"
    BY <1>2, <1>8 DEF Touch
  <2> QED
    BY <2>1 DEF StepsLeft
<1>9. CASE Probe(w)
  <2>1. f.pc = "probe"
    BY <1>9 DEF Probe
  <2>2. CASE f.i = 3
    <3>1. frame'[w].pc = "miss"
      BY <1>3, <1>9, <2>2 DEF Probe
    <3> QED
      BY <2>1, <2>2, <3>1 DEF StepsLeft
  <2>3. CASE f.i # 3
    <3>1. PICK k : frame' = [frame EXCEPT ![w].i = f.i + 1,
              ![w].p = ProbeSlot(f.key, f.i + 1),
              ![w].pc = IF HashMatches(k, f.key) THEN "deref" ELSE "probe"]
      BY <1>9, <2>3 DEF Probe
    <3>2. frame'[w].pc \in {"deref", "probe"} /\ frame'[w].i = f.i + 1
      BY <1>1, <3>1 DEF Frame
    <3> QED
      BY <1>1, <2>1, <3>2 DEF StepsLeft
  <2> QED
    BY <2>2, <2>3
<1>10. CASE Deref(w)
  <2>1. PICK k : Goto(w, IF k.val = NULL THEN "crashed" ELSE "clobber")
    BY <1>10 DEF Deref
  <2>2. f.pc = "deref" /\ frame'[w].pc \in {"crashed", "clobber"} /\ frame'[w].i = f.i
    BY <1>2, <1>10, <2>1 DEF Deref
  <2> QED
    BY <1>1, <2>2 DEF StepsLeft
<1>11. CASE Clobber(w)
  <2>1. f.pc = "clobber" /\ frame'[w].pc = "probe" /\ frame'[w].i = f.i
    BY <1>2, <1>11 DEF Clobber
  <2> QED
    BY <1>1, <2>1 DEF StepsLeft
<1>12. CASE CountLoad(w)
  <2>1. f.pc \in {"hit", "miss"} /\ frame'[w].pc \in {"hitStore", "missStore"}
    BY <1>1, <1>12 DEF CountLoad, Frame
  <2> QED
    BY <2>1 DEF StepsLeft
<1>13. CASE CountStore(w)
  <2>1. f.pc \in {"hitStore", "missStore"} /\ frame'[w].pc = "idle"
    BY <1>1, <1>13 DEF CountStore, IdleFrame
  <2> QED
    BY <2>1 DEF StepsLeft
<1> QED
  BY <1>4, <1>5, <1>6, <1>7, <1>8, <1>9, <1>10, <1>11, <1>12, <1>13 DEF FindStep

(* A killed worker is the only one that leaves a lookup at another place.  *)
LEMMA LookupMoves ==
  ASSUME TypeInv, NEW w \in Workers, frame[w].pc \in FindPc, WorkerStep(w)
  PROVE  FindStep(w) \/ (Kill(w) /\ frame'[w].pc = "idle")
<1>1. frame[w].pc \notin {"idle", "putVal", "publish"}
  BY DEF FindPc
<1>2. ~ Call(w) /\ ~ PutVal(w) /\ ~ Publish(w)
  BY <1>1 DEF Call, FindStart, PutStart, Delete, Flush, PutVal, Publish
<1>3. Kill(w) => frame'[w].pc = "idle"
  BY DEF Kill, IdleFrame, TypeInv, TypeOK
<1> QED
  BY <1>2, <1>3 DEF WorkerStep

(* A lookup is wait-free, for any number of workers, keys, slots and       *)
(* blocks, whatever they write and however torn the slots it copies: it    *)
(* makes no more than thirteen accesses after that of line 141.            *)
THEOREM LookupsNeverWait == Spec => LookupNeverWaits
<1>1. TypeInv /\ [Next]_vars =>
        \A w \in Workers : frame[w].pc \in FindPc /\ frame'[w] # frame[w] =>
          StepsLeft(frame'[w]) < StepsLeft(frame[w])
  <2>1. SUFFICES ASSUME TypeInv, [Next]_vars, NEW w \in Workers,
                        frame[w].pc \in FindPc, frame'[w] # frame[w]
                 PROVE  StepsLeft(frame'[w]) < StepsLeft(frame[w])
    OBVIOUS
  <2>2. WorkerStep(w)
    <3>1. PICK u \in Workers : WorkerStep(u)
      BY <2>1 DEF Next, vars, Tick, Quiet
    <3> QED
      BY <2>1, <3>1, OwnFrame
  <2>3. CASE FindStep(w)
    BY <2>1, <2>3, FindShortens
  <2>4. CASE frame'[w].pc = "idle"
    <3>1. frame \in [Workers -> Frame] /\ frame[w].i \in 0 .. 3
      BY <2>1 DEF TypeInv, TypeOK, Frame
    <3> QED
      BY <2>1, <2>4, <3>1 DEF StepsLeft, FindPc
  <2> QED
    BY <2>1, <2>2, <2>3, <2>4, LookupMoves
<1> QED
  BY <1>1, TypeInit, TypeStep, PTL DEF Spec, LookupNeverWaits

=============================================================================
