--------------------------- MODULE YacCacheProofs ---------------------------
(***************************************************************************)
(* The storage implements the abstract cache of YacCache, for every number *)
(* of workers, keys, slots, blocks and values.                             *)
(***************************************************************************)
EXTENDS YacStorageProofs

(* The step of one worker changes at most its own lookup.                  *)
LEMMA OwnLookup ==
  ASSUME StoredInv, NEW w \in Workers, WorkerStep(w)
  PROVE  CacheLookup' = [CacheLookup EXCEPT ![w] = LookupOf(frame'[w])]
<1>1. \A u \in Workers \ {w} : frame'[u] = frame[u]
  BY OwnFrame DEF StoredInv
<1> QED
  BY <1>1 DEF CacheLookup

(* A step that leaves what its worker's caller sees is a stutter of the    *)
(* cache.                                                                  *)
LEMMA Unseen ==
  ASSUME StoredInv, NEW w \in Workers, WorkerStep(w), stored' = stored,
         LookupOf(frame'[w]) = LookupOf(frame[w])
  PROVE  UNCHANGED <<CacheGiven, CacheLookup>>
<1>1. CacheLookup' = [CacheLookup EXCEPT ![w] = CacheLookup[w]]
  BY OwnLookup DEF CacheLookup
<1>2. CacheLookup' = CacheLookup
  BY <1>1 DEF CacheLookup
<1> QED
  BY <1>2 DEF CacheGiven

(* The frame of a worker is all that Goto and Drop change.                 *)
LEMMA Moves ==
  ASSUME StoredInv, NEW w \in Workers, NEW label
  PROVE  /\ Goto(w, label) => frame'[w] = [frame[w] EXCEPT !.pc = label]
         /\ Drop(w, label) => frame'[w] = WithoutEntry(frame[w], label)
BY DEF StoredInv, TypeInv, TypeOK, Goto, Drop

(* The lookup of a worker that stays inside yac_storage_find without an    *)
(* answer.                                                                 *)
Unanswered == FindPc \ {"touch", "hit", "hitStore", "missStore"}

LEMMA StillAsked ==
  ASSUME NEW f, NEW g, f.pc \in Unanswered, g.pc \in Unanswered, f.key = g.key
  PROVE  LookupOf(g) = LookupOf(f)
BY DEF LookupOf, Unanswered, FindPc

(* The steps of a lookup that its caller does not notice.                  *)
LEMMA SilentFind ==
  ASSUME StoredInv, NEW w \in Workers,
         ReadVal(w) \/ Verify(w) \/ Expire(w) \/ Touch(w) \/ Probe(w) \/ Clobber(w)
  PROVE  UNCHANGED <<CacheGiven, CacheLookup>>
<1> DEFINE f == frame[w]
<1>0. f \in Frame /\ stored' = stored /\ WorkerStep(w)
  BY DEF StoredInv, TypeInv, TypeOK, ReadVal, Verify, Expire, Touch, Probe, Clobber,
     history, WorkerStep, FindStep
<1>1. CASE Touch(w)
  <2>1. f.pc = "touch" /\ frame'[w] = [f EXCEPT !.pc = "hit"]
    BY <1>1, Moves DEF Touch
  <2>2. LookupOf(frame'[w]) = LookupOf(f)
    BY <1>0, <2>1 DEF LookupOf, Frame
  <2> QED
    BY <1>0, <2>2, Unseen
<1>2. CASE ReadVal(w) \/ Verify(w) \/ Expire(w) \/ Probe(w) \/ Clobber(w)
  <2>1. f.pc \in Unanswered
    BY <1>2 DEF ReadVal, Verify, Expire, Probe, Clobber, Unanswered, FindPc
  <2>2. frame'[w].pc \in Unanswered /\ frame'[w].key = f.key
    <3>1. ASSUME NEW label, Goto(w, label) \/ Drop(w, label)
          PROVE  frame'[w].pc = label /\ frame'[w].key = f.key
      <4>1. CASE Goto(w, label)
        <5>1. frame'[w] = [f EXCEPT !.pc = label]
          BY <4>1, Moves
        <5> QED
          BY <1>0, <5>1 DEF Frame
      <4>2. CASE Drop(w, label)
        <5>1. frame'[w] = WithoutEntry(f, label)
          BY <4>2, Moves
        <5> QED
          BY <5>1 DEF WithoutEntry, IdleFrame
      <4> QED
        BY <3>1, <4>1, <4>2
    <3>2. CASE ReadVal(w) \/ Expire(w) \/ Clobber(w)
      BY <3>1, <3>2 DEF ReadVal, Expire, Clobber, Unanswered, FindPc
    <3>3. CASE Verify(w)
      <4>1. /\ frame'[w].pc = IF f.k.ttl # 0 /\ f.k.ttl <= now THEN "expire" ELSE "copy"
            /\ frame'[w].key = f.key
        BY <1>0, <3>3 DEF Verify, StoredInv, TypeInv, TypeOK, Frame
      <4> QED
        BY <4>1 DEF Unanswered, FindPc
    <3>4. CASE Probe(w)
      <4>1. CASE f.i = 3
        BY <3>1, <3>4, <4>1 DEF Probe, Unanswered, FindPc
      <4>2. CASE f.i # 3
        <5>1. PICK k : frame' = [frame EXCEPT ![w].i = f.i + 1,
                  ![w].p = ProbeSlot(f.key, f.i + 1),
                  ![w].pc = IF HashMatches(k, f.key) THEN "deref" ELSE "probe"]
          BY <3>4, <4>2 DEF Probe
        <5>2. /\ frame'[w].pc = IF HashMatches(k, f.key) THEN "deref" ELSE "probe"
              /\ frame'[w].key = f.key
          BY <1>0, <5>1 DEF StoredInv, TypeInv, TypeOK, Frame
        <5> QED
          BY <5>2 DEF Unanswered, FindPc
      <4> QED
        BY <4>1, <4>2
    <3> QED
      BY <1>2, <3>2, <3>3, <3>4
  <2>3. LookupOf(frame'[w]) = LookupOf(f)
    BY <2>1, <2>2, StillAsked
  <2> QED
    BY <1>0, <2>3, Unseen
<1> QED
  BY <1>1, <1>2

(* The updates, deletes and flushes a lookup's caller does not notice.     *)
LEMMA SilentWrite ==
  ASSUME StoredInv, NEW w \in Workers,
         \/ PutVal(w) \/ Publish(w) \/ Flush(w)
         \/ \E key \in Keys, ttl \in Ttls : Delete(w, key, ttl)
  PROVE  UNCHANGED <<CacheGiven, CacheLookup>>
<1>1. stored' = stored /\ WorkerStep(w)
  BY DEF PutVal, Publish, Flush, Delete, history, WorkerStep, Call
<1>2. LookupOf(frame'[w]) = LookupOf(frame[w])
  <2>1. CASE Flush(w) \/ \E key \in Keys, ttl \in Ttls : Delete(w, key, ttl)
    BY <2>1 DEF Flush, Delete
  <2>2. CASE PutVal(w) \/ Publish(w)
    <3>0. frame \in [Workers -> Frame]
      BY DEF StoredInv, TypeInv, TypeOK
    <3>1. CASE PutVal(w)
      <4>1. frame[w].pc = "putVal" /\ frame'[w] = [frame[w] EXCEPT !.pc = "publish"]
        BY <3>1, Moves DEF PutVal
      <4> QED
        BY <3>0, <4>1 DEF LookupOf, FindPc, Frame
    <3>2. CASE Publish(w)
      <4>1. frame[w].pc = "publish" /\ frame'[w] = IdleFrame
        BY <3>0, <3>2 DEF Publish
      <4> QED
        BY <4>1 DEF LookupOf, FindPc, IdleFrame
    <3> QED
      BY <2>2, <3>1, <3>2
  <2> QED
    BY <2>1, <2>2
<1> QED
  BY <1>1, <1>2, Unseen

(* A step that keeps the entries given is one of the cache's Becomes.      *)
LEMMA OneBecomes ==
  ASSUME StoredInv, NEW w \in Workers, WorkerStep(w), stored' = stored
  PROVE  /\ Cache!Becomes(w, LookupOf(frame'[w]))
         /\ CacheLookup[w] = LookupOf(frame[w])
<1>1. CacheLookup' = [CacheLookup EXCEPT ![w] = LookupOf(frame'[w])]
  BY OwnLookup
<1>2. CacheGiven' = CacheGiven
  BY DEF CacheGiven
<1> QED
  BY <1>1, <1>2 DEF Cache!Becomes, CacheLookup

(* A worker inside the storage has a key.                                  *)
LEMMA BusyKey ==
  ASSUME StoredInv, NEW w \in Workers, frame[w].pc \in FindPc \cup PutPc
  PROVE  frame[w].key \in Keys
BY DEF StoredInv, TypeInv, Equipped

LEMMA AskStep ==
  ASSUME StoredInv, NEW w \in Workers, NEW key \in Keys, FindStart(w, key)
  PROVE  Cache!Ask(w, key)
<1>1. WorkerStep(w) /\ stored' = stored
  BY DEF WorkerStep, Call, FindStart
<1>2. PICK k : frame' = [frame EXCEPT ![w] =
         IF k.val # NULL /\ HashMatches(k, key)
         THEN [IdleFrame EXCEPT !.pc = "readVal", !.key = key,
                 !.p = ProbeSlot(key, 0), !.k = k]
         ELSE [IdleFrame EXCEPT !.pc = IF k.val = NULL THEN "miss" ELSE "probe",
                 !.key = key]]
  BY DEF FindStart
<1>3. frame'[w].pc \in {"readVal", "miss", "probe"} /\ frame'[w].key = key
  BY <1>2 DEF IdleFrame, StoredInv, TypeInv, TypeOK
<1>4. LookupOf(frame'[w]) = Cache!Asked(key)
  BY <1>3 DEF LookupOf, FindPc, Cache!Asked
<1>5. LookupOf(frame[w]) = Cache!Idle
  BY DEF FindStart, LookupOf, FindPc, Cache!Idle
<1> QED
  BY <1>1, <1>4, <1>5, OneBecomes DEF Cache!Ask

(* The checksum decides between a hit and a miss nobody has seen yet.      *)
LEMMA CopyStep ==
  ASSUME StoredInv, HitsAreStored', NEW w \in Workers, Copy(w)
  PROVE  \/ \E key \in Keys, view \in {View(flag, d) : flag \in Flags, d \in Values} :
              Cache!Hit(w, key, view)
         \/ UNCHANGED <<CacheGiven, CacheLookup>>
<1> DEFINE f == frame[w]
<1>1. WorkerStep(w) /\ stored' = stored
  BY DEF WorkerStep, FindStep, Copy, history
<1>2. frame \in [Workers -> Frame] /\ f.pc = "copy" /\ f.key \in Keys
  BY BusyKey DEF StoredInv, TypeInv, TypeOK, Copy, FindPc
<1>3. LookupOf(f) = Cache!Asked(f.key)
  BY <1>2 DEF LookupOf, FindPc, Cache!Asked
<1>4. CASE \E s : frame' = [frame EXCEPT ![w].s = s, ![w].pc = "touch"]
  <2>1. /\ frame'[w].pc = "touch" /\ frame'[w].key = f.key
        /\ frame'[w].k = f.k
    BY <1>2, <1>4 DEF Frame
  <2>2. PICK e \in stored' : Answers(e, w)'
    BY <2>1 DEF HitsAreStored, Hitting
  <2>3. e \in stored /\ e.flag \in Flags /\ e.data \in Values
    BY <1>1, <2>2 DEF StoredInv, TypeInv, TypeOK, Entry
  <2>4. /\ e.key = f.key
        /\ View(frame'[w].k.flag, frame'[w].s) = View(e.flag, e.data)
    BY <2>1, <2>2 DEF Answers, View
  <2>5. LookupOf(frame'[w]) = Cache!Found(f.key, View(e.flag, e.data))
    BY <2>1, <2>4 DEF LookupOf, Cache!Found
  <2>6. [key |-> f.key, view |-> View(e.flag, e.data)] \in CacheGiven
    BY <2>3, <2>4 DEF CacheGiven
  <2>7. Cache!Hit(w, f.key, View(e.flag, e.data))
    BY <1>1, <1>3, <2>5, <2>6, OneBecomes DEF Cache!Hit
  <2> QED
    BY <1>2, <2>3, <2>7
<1>5. CASE Drop(w, "miss")
  <2>1. frame'[w] = WithoutEntry(f, "miss")
    BY <1>5, Moves
  <2>2. frame'[w].pc = "miss" /\ frame'[w].key = f.key
    BY <2>1 DEF WithoutEntry, IdleFrame
  <2>3. LookupOf(frame'[w]) = LookupOf(f)
    BY <1>2, <2>2, StillAsked DEF Unanswered, FindPc
  <2> QED
    BY <1>1, <2>3, Unseen
<1> QED
  BY <1>4, <1>5 DEF Copy

LEMMA DerefStep ==
  ASSUME StoredInv, NEW w \in Workers, Deref(w)
  PROVE  (\E key \in Keys : Cache!Die(w, key)) \/ UNCHANGED <<CacheGiven, CacheLookup>>
<1> DEFINE f == frame[w]
<1>1. WorkerStep(w) /\ stored' = stored
  BY DEF WorkerStep, FindStep, Deref, history
<1>2. f \in Frame /\ f.pc = "deref" /\ f.key \in Keys
  BY BusyKey DEF StoredInv, TypeInv, TypeOK, Deref, FindPc
<1>3. LookupOf(f) = Cache!Asked(f.key)
  BY <1>2 DEF LookupOf, FindPc, Cache!Asked
<1>4. PICK label \in {"crashed", "clobber"} : Goto(w, label)
  BY DEF Deref
<1>5. frame'[w] = [f EXCEPT !.pc = label]
  BY <1>4, Moves
<1>6. frame'[w].pc = label /\ frame'[w].key = f.key
  BY <1>2, <1>5 DEF Frame
<1>7. CASE label = "crashed"
  <2>1. LookupOf(frame'[w]) = Cache!Dead
    BY <1>6, <1>7 DEF LookupOf, Cache!Dead
  <2> QED
    BY <1>1, <1>2, <1>3, <2>1, OneBecomes DEF Cache!Die
<1>8. CASE label = "clobber"
  <2>1. LookupOf(frame'[w]) = LookupOf(f)
    BY <1>2, <1>6, <1>8, StillAsked DEF Unanswered, FindPc
  <2> QED
    BY <1>1, <2>1, Unseen
<1> QED
  BY <1>7, <1>8

(* A miss is answered when its counter is loaded.                          *)
LEMMA LoadStep ==
  ASSUME StoredInv, NEW w \in Workers, CountLoad(w)
  PROVE  (\E key \in Keys : Cache!Miss(w, key)) \/ UNCHANGED <<CacheGiven, CacheLookup>>
<1> DEFINE f == frame[w]
<1>1. WorkerStep(w) /\ stored' = stored
  BY DEF WorkerStep, FindStep, CountLoad, history
<1>2. /\ frame \in [Workers -> Frame] /\ f.pc \in {"hit", "miss"} /\ f.key \in Keys
      /\ f \in Frame
  BY BusyKey DEF StoredInv, TypeInv, TypeOK, CountLoad, FindPc
<1>3. /\ frame'[w].pc = IF f.pc = "hit" THEN "hitStore" ELSE "missStore"
      /\ frame'[w].key = f.key /\ frame'[w].k = f.k /\ frame'[w].s = f.s
  BY <1>2 DEF CountLoad, Frame
<1>4. CASE f.pc = "hit"
  <2>1. LookupOf(frame'[w]) = LookupOf(f)
    BY <1>3, <1>4 DEF LookupOf
  <2> QED
    BY <1>1, <2>1, Unseen
<1>5. CASE f.pc = "miss"
  <2>1. LookupOf(frame'[w]) = Cache!Missed /\ LookupOf(f) = Cache!Asked(f.key)
    BY <1>3, <1>5 DEF LookupOf, FindPc, Cache!Missed, Cache!Asked
  <2> QED
    BY <1>1, <1>2, <2>1, OneBecomes DEF Cache!Miss
<1> QED
  BY <1>2, <1>4, <1>5

(* The end of a lookup, and that of its worker.                            *)
LEMMA LeaveStep ==
  ASSUME StoredInv, NEW w \in Workers, CountStore(w) \/ Kill(w)
  PROVE  Cache!Leave(w)
<1>1. WorkerStep(w) /\ stored' = stored /\ frame'[w] = IdleFrame
  BY DEF WorkerStep, FindStep, CountStore, Kill, history, StoredInv, TypeInv, TypeOK
<1>2. LookupOf(frame'[w]) = Cache!Idle
  BY <1>1 DEF LookupOf, IdleFrame, FindPc, Cache!Idle
<1>3. frame[w].pc # "crashed"
  BY DEF CountStore, Kill
<1>4. LookupOf(frame[w]) # Cache!Dead
  BY <1>3 DEF LookupOf, Cache!Dead
<1> QED
  BY <1>1, <1>2, <1>4, OneBecomes DEF Cache!Leave

LEMMA GiveStep ==
  ASSUME StoredInv, NEW w \in Workers, NEW key \in Keys, NEW d \in Values,
         NEW flag \in Flags, NEW ttl \in Ttls, PutStart(w, key, d, flag, ttl)
  PROVE  Cache!Give(key, View(flag, d))
<1>1. WorkerStep(w)
  BY DEF WorkerStep, Call
<1>2. stored' = stored \cup {[key |-> key, data |-> d, flag |-> flag]}
  BY DEF PutStart
<1>3. frame[w].pc = "idle" /\ frame'[w].pc = "putVal"
  BY DEF PutStart, IdleFrame, StoredInv, TypeInv, TypeOK
<1>4. LookupOf(frame'[w]) = LookupOf(frame[w])
  BY <1>3 DEF LookupOf, FindPc
<1>5. CacheLookup' = [CacheLookup EXCEPT ![w] = CacheLookup[w]]
  BY <1>1, <1>4, OwnLookup DEF CacheLookup
<1>6. CacheLookup' = CacheLookup
  BY <1>5 DEF CacheLookup
<1>7. CacheGiven' = CacheGiven \cup {[key |-> key, view |-> View(flag, d)]}
  <2> DEFINE Seen(e) == [key |-> e.key, view |-> View(e.flag, e.data)]
             e0 == [key |-> key, data |-> d, flag |-> flag]
  <2>1. CacheGiven = {Seen(e) : e \in stored}
    BY DEF CacheGiven
  <2>2. CacheGiven' = {Seen(e) : e \in stored \cup {e0}}
    BY <1>2 DEF CacheGiven
  <2>3. Seen(e0) = [key |-> key, view |-> View(flag, d)]
    OBVIOUS
  <2> HIDE DEF Seen, e0
  <2>4. {Seen(e) : e \in stored \cup {e0}} = {Seen(e) : e \in stored} \cup {Seen(e0)}
    OBVIOUS
  <2> QED
    BY <2>1, <2>2, <2>3, <2>4
<1> QED
  BY <1>6, <1>7 DEF Cache!Give

(* Every step of the storage is a step of the cache, or none.              *)
LEMMA CacheStep ==
  ASSUME StoredInv, HitsAreStored', [Next]_vars
  PROVE  [Cache!Next]_(Cache!vars)
<1>1. ASSUME UNCHANGED <<CacheGiven, CacheLookup>> PROVE UNCHANGED Cache!vars
  BY <1>1 DEF Cache!vars
<1>2. CASE Tick \/ Quiet \/ UNCHANGED vars
  <2>1. UNCHANGED <<frame, stored>>
    BY <1>2 DEF Tick, Quiet, vars, history
  <2> QED
    BY <1>1, <2>1 DEF CacheGiven, CacheLookup
<1>3. ASSUME NEW w \in Workers, WorkerStep(w) PROVE [Cache!Next]_(Cache!vars)
  <2>1. CASE \E key \in Keys : FindStart(w, key)
    BY <2>1, AskStep DEF Cache!Next
  <2>2. CASE \E key \in Keys, d \in Values, flag \in Flags, ttl \in Ttls :
               PutStart(w, key, d, flag, ttl)
    BY <2>2, GiveStep DEF Cache!Next
  <2>3. CASE PutVal(w) \/ Publish(w) \/ Flush(w)
             \/ \E key \in Keys, ttl \in Ttls : Delete(w, key, ttl)
    BY <1>1, <2>3, SilentWrite
  <2>4. CASE ReadVal(w) \/ Verify(w) \/ Expire(w) \/ Touch(w) \/ Probe(w) \/ Clobber(w)
    BY <1>1, <2>4, SilentFind
  <2>5. CASE Copy(w)
    BY <1>1, <2>5, CopyStep DEF Cache!Next
  <2>6. CASE Deref(w)
    BY <1>1, <2>6, DerefStep DEF Cache!Next
  <2>7. CASE CountLoad(w)
    BY <1>1, <2>7, LoadStep DEF Cache!Next
  <2>8. CASE CountStore(w) \/ Kill(w)
    BY <2>8, LeaveStep DEF Cache!Next
  <2> QED
    BY <1>3, <2>1, <2>2, <2>3, <2>4, <2>5, <2>6, <2>7, <2>8
    DEF WorkerStep, Call, FindStep
<1> QED
  BY <1>2, <1>3 DEF Next

(* The lock-free lookup implements the honest cache, for every number of   *)
(* workers, keys, slots, blocks and values, provided that no two keys      *)
(* collide in hash and length and that slots are copied whole.             *)
THEOREM CacheImplemented ==
  ASSUME CollisionFree, TornCopies = FALSE
  PROVE  Spec => ImplementsCache
<1>1. Init => Cache!Init
  BY DEF Init, Cache!Init, CacheGiven, CacheLookup, LookupOf, IdleFrame, FindPc,
     Cache!Idle
<1>2. StoredInv /\ [Next]_vars => StoredInv'
  BY StoredStep
<1>3. StoredInv => HitsAreStored
  BY StoredImplies
<1>4. StoredInv /\ HitsAreStored' /\ [Next]_vars => [Cache!Next]_(Cache!vars)
  BY CacheStep
<1> QED
  BY <1>1, <1>2, <1>3, <1>4, StoredInit, PTL DEF Spec, ImplementsCache, Cache!Spec

=============================================================================
