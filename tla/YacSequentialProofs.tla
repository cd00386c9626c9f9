------------------------ MODULE YacSequentialProofs ------------------------
(***************************************************************************)
(* What one worker that runs alone may expect of yac_storage, as in a      *)
(* command line script: a get that follows a set finds the value if it is  *)
(* in the primary slot of its key, and the entries a lookup marks deleted  *)
(* have expired.                                                           *)
(***************************************************************************)
EXTENDS YacStorageProofs

OneWorker == \A u, v \in Workers : u = v

(***************************************************************************)
(* The invariant                                                           *)
(*                                                                         *)
(* None of the three properties is inductive.  A miss is counted long      *)
(* after the test that decided it, so the invariant carries along what     *)
(* each test has shown of the primary slot, and that nothing has changed   *)
(* since: the copy of the slot is still the slot.                          *)
(***************************************************************************)

(* Slot k describes an entry of S as it was stored, key bytes included.    *)
Describes(k, S) ==
  \E e \in S : /\ Holds(k, e.key)
              /\ k.crc = Sample(e.data)
              /\ k.len.vlen = Len(e.data)
              /\ k.flag = e.flag

SlotsDescribe == \A s \in SlotIds : slots[s].val # NULL => Describes(slots[s], stored)

Primary(f) == slots[ProbeSlot(f.key, 0)]

(* The lookup holds an exact copy of the primary slot, which has its key.  *)
AtPrimary(f) ==
  /\ f.p = ProbeSlot(f.key, 0)
  /\ f.k = Primary(f)
  /\ f.k.val # NULL
  /\ HashMatches(f.k, f.key)

(* The primary slot has nothing to give for the key.                       *)
NothingThere(f) ==
  LET s == ProbeSlot(f.key, 0)
  IN  ~ (Holds(slots[s], f.key) /\ Intact(s) /\ Live(s))

PrimaryPc == {"readVal", "verify", "expire", "copy"}
ProbePc == {"probe", "deref", "clobber"}
MissPc == {"miss", "missStore"}

FrameKnows(f) ==
  /\ f.pc \in PutPc => Describes(f.k, stored)
  /\ f.pc \in PrimaryPc => AtPrimary(f)
  /\ f.pc = "expire" => f.k.ttl # 0 /\ f.k.ttl <= now
  /\ f.pc \in ProbePc => ~ HashMatches(Primary(f), f.key)
  /\ f.pc \in {"deref", "clobber"} => HashMatches(slots[f.p], f.key)
  /\ f.pc = "clobber" => slots[f.p].val # NULL
  /\ f.pc \in MissPc => NothingThere(f)

SeqInv ==
  /\ TypeInv
  /\ now >= 2
  /\ SlotsDescribe
  /\ \A w \in Workers : FrameKnows(frame[w])

LEMMA IdleFrameKnows == \A f : f.pc = "idle" => FrameKnows(f)
  BY DEF FrameKnows, PutPc, PrimaryPc, ProbePc, MissPc

LEMMA SeqInit == Init => SeqInv
<1> SUFFICES ASSUME Init PROVE SeqInv
  OBVIOUS
<1>1. \A w \in Workers : FrameKnows(frame[w])
  BY IdleFrameKnows DEF Init, IdleFrame
<1> QED
  BY <1>1, TypeInit DEF Init, SeqInv, SlotsDescribe, ZeroSlot

LEMMA DescribesGrows ==
  ASSUME NEW S, NEW T, S \subseteq T
  PROVE  \A k : Describes(k, S) => Describes(k, T)
BY DEF Describes

(* A filled slot that passes the test of line 144 has the very key: it     *)
(* still has the key bytes it was stored with, and no other key passes.    *)
LEMMA MatchIsKey ==
  ASSUME SeqInv, CollisionFree, NEW s \in SlotIds, NEW key \in Keys,
         slots[s].val # NULL, HashMatches(slots[s], key)
  PROVE  slots[s].key = key
<1>1. PICK e \in stored : Holds(slots[s], e.key)
  BY DEF SeqInv, SlotsDescribe, Describes
<1>2. e.key \in Keys
  BY DEF SeqInv, TypeInv, TypeOK, Entry
<1> QED
  BY <1>1, <1>2 DEF Holds, HashMatches, CollisionFree

(* With nobody else at work, a block read is the block.                    *)
LEMMA AloneImages ==
  ASSUME OneWorker, NEW w \in Workers, frame[w].pc # "putVal", NEW a
  PROVE  BlockImages(a) = {vals[a]}
BY DEF OneWorker, BlockImages, Filling

(* What a step must keep when it leaves the slots as they are.             *)
LEMMA SlotsKept ==
  ASSUME SeqInv, NEW w \in Workers, WorkerStep(w), UNCHANGED slots
  PROVE  SlotsDescribe'
<1>1. stored \subseteq stored'
  BY OwnFrame DEF SeqInv
<1> QED
  BY <1>1, DescribesGrows DEF SeqInv, SlotsDescribe

(* Deleting and expiring change the ttl of a slot and nothing else of it.  *)
LEMMA TtlChange ==
  ASSUME SeqInv, NEW p, NEW ttl, slots' = [slots EXCEPT ![p].ttl = ttl], stored' = stored
  PROVE  SlotsDescribe'
<1> SUFFICES ASSUME NEW s \in SlotIds, slots'[s].val # NULL
             PROVE  Describes(slots'[s], stored)
  BY DEF SlotsDescribe
<1>1. slots \in [SlotIds -> Slot] /\ slots[s] \in Slot
  BY DEF SeqInv, TypeInv, TypeOK
<1>2. /\ slots'[s].val = slots[s].val /\ slots'[s].key = slots[s].key
      /\ slots'[s].h = slots[s].h /\ slots'[s].len = slots[s].len
      /\ slots'[s].crc = slots[s].crc /\ slots'[s].flag = slots[s].flag
  BY <1>1 DEF Slot
<1>3. Describes(slots[s], stored)
  BY <1>2 DEF SeqInv, SlotsDescribe
<1> QED
  BY <1>2, <1>3 DEF Describes, Holds, HashMatches

(***************************************************************************)
(* The steps of a lookup                                                   *)
(***************************************************************************)
LEMMA SeqFindStart ==
  ASSUME SeqInv, TornCopies = FALSE, NEW w \in Workers, NEW key \in Keys,
         FindStart(w, key)
  PROVE  SlotsDescribe' /\ FrameKnows(frame[w])'
<1> DEFINE g == frame'[w]
           s == ProbeSlot(key, 0)
<1>0. WorkerStep(w) /\ frame \in [Workers -> Frame]
      /\ UNCHANGED <<slots, vals, now, stored>>
  BY DEF WorkerStep, Call, SeqInv, TypeInv, TypeOK, FindStart, shared
<1>1. SlotCopies(s) = {slots[s]}
  BY DEF SlotCopies
<1>2. CASE slots[s].val # NULL /\ HashMatches(slots[s], key)
  <2>1. g = [IdleFrame EXCEPT !.pc = "readVal", !.key = key, !.p = s, !.k = slots[s]]
    BY <1>0, <1>1, <1>2 DEF FindStart
  <2>2. g.pc = "readVal" /\ g.key = key /\ g.p = s /\ g.k = slots[s]
    BY <2>1 DEF IdleFrame
  <2>3. AtPrimary(frame[w])'
    BY <1>0, <1>2, <2>2 DEF AtPrimary, Primary
  <2>4. FrameKnows(frame[w])'
    BY <2>2, <2>3 DEF FrameKnows, PutPc, PrimaryPc, ProbePc, MissPc
  <2> QED
    BY <1>0, <2>4, SlotsKept
<1>3. CASE ~ (slots[s].val # NULL /\ HashMatches(slots[s], key))
  <2>1. g = [IdleFrame EXCEPT !.pc = IF slots[s].val = NULL THEN "miss" ELSE "probe",
               !.key = key]
    BY <1>0, <1>1, <1>3 DEF FindStart
  <2>2. g.pc = (IF slots[s].val = NULL THEN "miss" ELSE "probe") /\ g.key = key
    BY <2>1 DEF IdleFrame
  <2>3. slots[s].val = NULL => NothingThere(frame[w])'
    BY <1>0, <2>2 DEF NothingThere, Holds
  <2>4. slots[s].val # NULL => ~ HashMatches(Primary(frame[w])', g.key)
    BY <1>0, <1>3, <2>2 DEF Primary
  <2>5. FrameKnows(frame[w])'
    BY <2>2, <2>3, <2>4 DEF FrameKnows, PutPc, PrimaryPc, ProbePc, MissPc
  <2> QED
    BY <1>0, <2>5, SlotsKept
<1> QED
  BY <1>2, <1>3

(* A lookup that gives up is one that was shown that nothing is there.     *)
LEMMA SeqDrop ==
  ASSUME SeqInv, NEW w \in Workers, WorkerStep(w), UNCHANGED <<slots, vals, now>>,
         NothingThere(frame[w]), Drop(w, "miss")
  PROVE  SlotsDescribe' /\ FrameKnows(frame[w])'
<1>1. frame'[w].pc = "miss" /\ frame'[w].key = frame[w].key
  BY DEF SeqInv, TypeInv, TypeOK, Drop, WithoutEntry, IdleFrame
<1>2. NothingThere(frame[w])'
  BY <1>1 DEF NothingThere, Intact, Live
<1> QED
  BY <1>1, <1>2, SlotsKept DEF FrameKnows, PutPc, PrimaryPc, ProbePc, MissPc

LEMMA SeqReadVal ==
  ASSUME SeqInv, OneWorker, CollisionFree, NEW w \in Workers, ReadVal(w)
  PROVE  SlotsDescribe' /\ FrameKnows(frame[w])'
<1> DEFINE f == frame[w]
           s == ProbeSlot(f.key, 0)
<1>0. /\ WorkerStep(w) /\ frame \in [Workers -> Frame] /\ f \in Frame
      /\ f.pc = "readVal" /\ f.key \in Keys /\ s \in SlotIds /\ now \in Nat
      /\ UNCHANGED <<slots, vals, now>>
  BY ProbeSlotType DEF WorkerStep, FindStep, SeqInv, TypeInv, TypeOK, Equipped, FindPc,
     ReadVal, shared
<1>1. /\ f.k = slots[s] /\ f.p = s /\ f.k.val # NULL
      /\ HashMatches(f.k, f.key)
  BY <1>0 DEF SeqInv, FrameKnows, PrimaryPc, AtPrimary, Primary
<1>2. f.k.key = f.key
  BY <1>0, <1>1, MatchIsKey
<1>3. BlockImages(f.k.val) = {vals[f.k.val]}
  BY <1>0, AloneImages
<1>4. CASE f.k.ttl = 1 \/ f.k.len # vals[f.k.val].len
  <2>1. Drop(w, "miss")
    BY <1>2, <1>3, <1>4 DEF ReadVal
  <2>2. NothingThere(f)
    <3>1. CASE f.k.ttl = 1
      BY <1>0, <1>1, <3>1 DEF NothingThere, Live, SeqInv
    <3>2. CASE f.k.len # vals[f.k.val].len
      BY <1>1, <3>2 DEF NothingThere, Intact
    <3> QED
      BY <1>4, <3>1, <3>2
  <2> QED
    BY <1>0, <2>1, <2>2, SeqDrop
<1>5. CASE ~ (f.k.ttl = 1 \/ f.k.len # vals[f.k.val].len)
  <2>1. Goto(w, "verify")
    BY <1>2, <1>3, <1>5 DEF ReadVal
  <2>2. /\ frame'[w].pc = "verify" /\ frame'[w].key = f.key /\ frame'[w].p = f.p
        /\ frame'[w].k = f.k
    BY <1>0, <2>1 DEF Goto, Frame
  <2>3. AtPrimary(frame[w])'
    BY <1>0, <1>1, <2>2 DEF AtPrimary, Primary
  <2> QED
    BY <1>0, <2>2, <2>3, SlotsKept DEF FrameKnows, PutPc, PrimaryPc, ProbePc, MissPc
<1> QED
  BY <1>4, <1>5

LEMMA SeqVerify ==
  ASSUME SeqInv, NEW w \in Workers, Verify(w)
  PROVE  SlotsDescribe' /\ FrameKnows(frame[w])'
<1> DEFINE f == frame[w]
           late == f.k.ttl # 0 /\ f.k.ttl <= now
<1>0. /\ WorkerStep(w) /\ frame \in [Workers -> Frame] /\ f \in Frame
      /\ f.pc = "verify" /\ UNCHANGED <<slots, vals, now>>
  BY DEF WorkerStep, FindStep, SeqInv, TypeInv, TypeOK, Verify, shared
<1>1. AtPrimary(f)
  BY <1>0 DEF SeqInv, FrameKnows, PrimaryPc
<1>2. /\ frame'[w].pc = (IF late THEN "expire" ELSE "copy")
      /\ frame'[w].key = f.key /\ frame'[w].p = f.p /\ frame'[w].k = f.k
  BY <1>0 DEF Verify, Frame
<1>3. AtPrimary(frame[w])'
  BY <1>0, <1>1, <1>2 DEF AtPrimary, Primary
<1>4. (frame'[w].pc = "expire" => f.k.ttl # 0 /\ f.k.ttl <= now)
      /\ frame'[w].pc \in {"expire", "copy"}
  BY <1>2
<1>5. FrameKnows(frame[w])'
  BY <1>0, <1>2, <1>3, <1>4 DEF FrameKnows, PutPc, PrimaryPc, ProbePc, MissPc
<1> QED
  BY <1>0, <1>5, SlotsKept

(* p->ttl = 1: the slot is the one copied, and is marked for good.         *)
LEMMA SeqExpire ==
  ASSUME SeqInv, NEW w \in Workers, Expire(w)
  PROVE  SlotsDescribe' /\ FrameKnows(frame[w])'
<1> DEFINE f == frame[w]
           s == ProbeSlot(f.key, 0)
<1>0. /\ frame \in [Workers -> Frame] /\ f \in Frame /\ slots \in [SlotIds -> Slot]
      /\ f.pc = "expire" /\ f.key \in Keys /\ s \in SlotIds /\ now \in Nat /\ now >= 2
      /\ slots' = [slots EXCEPT ![f.p].ttl = 1] /\ UNCHANGED <<vals, now, stored>>
  BY ProbeSlotType DEF SeqInv, TypeInv, TypeOK, Equipped, FindPc, Expire, history
<1>1. f.p = s
  BY <1>0 DEF SeqInv, FrameKnows, PrimaryPc, AtPrimary
<1>2. slots'[s].ttl = 1
  BY <1>0, <1>1 DEF Slot
<1>3. frame'[w].pc = "miss" /\ frame'[w].key = f.key
  BY <1>0 DEF Expire, Drop, WithoutEntry, IdleFrame
<1>4. NothingThere(frame[w])'
  BY <1>0, <1>2, <1>3 DEF NothingThere, Live
<1>5. SlotsDescribe'
  BY <1>0, TtlChange
<1> QED
  BY <1>3, <1>4, <1>5 DEF FrameKnows, PutPc, PrimaryPc, ProbePc, MissPc

LEMMA SeqCopy ==
  ASSUME SeqInv, OneWorker, NEW w \in Workers, Copy(w)
  PROVE  SlotsDescribe' /\ FrameKnows(frame[w])'
<1> DEFINE f == frame[w]
           s == ProbeSlot(f.key, 0)
           n == f.k.len.vlen
<1>0. /\ WorkerStep(w) /\ frame \in [Workers -> Frame] /\ f \in Frame
      /\ f.pc = "copy" /\ n \in Nat /\ UNCHANGED <<slots, vals, now>>
  BY DEF WorkerStep, FindStep, SeqInv, TypeInv, TypeOK, Copy, Frame, Slot, Header, shared
<1>1. f.k = slots[s]
  BY <1>0 DEF SeqInv, FrameKnows, PrimaryPc, AtPrimary, Primary
<1>2. PICK d \in ByteCopies(f.k.val, n) :
        IF f.k.crc = Sample(d)
        THEN frame' = [frame EXCEPT ![w].s = d, ![w].pc = "touch"]
        ELSE Drop(w, "miss")
  BY DEF Copy
<1>3. d = [j \in 1 .. n |-> vals[f.k.val].data[j]]
  <2>1. BlockImages(f.k.val) = {vals[f.k.val]}
    BY <1>0, AloneImages
  <2>2. d \in [1 .. n -> Byte] /\ \A j \in 1 .. n : vals[f.k.val].data[j] = d[j]
    BY <2>1 DEF ByteCopies
  <2> QED
    BY <2>2
<1>4. CASE f.k.crc = Sample(d)
  <2>1. frame'[w].pc = "touch"
    BY <1>0, <1>2, <1>4 DEF Frame
  <2> QED
    BY <1>0, <2>1, SlotsKept DEF FrameKnows, PutPc, PrimaryPc, ProbePc, MissPc
<1>5. CASE f.k.crc # Sample(d)
  <2>1. Drop(w, "miss")
    BY <1>2, <1>5
  <2>2. NothingThere(f)
    BY <1>1, <1>3, <1>5 DEF NothingThere, Intact
  <2> QED
    BY <1>0, <2>1, <2>2, SeqDrop
<1> QED
  BY <1>4, <1>5

LEMMA SeqProbe ==
  ASSUME SeqInv, TornCopies = FALSE, NEW w \in Workers, Probe(w)
  PROVE  SlotsDescribe' /\ FrameKnows(frame[w])'
<1> DEFINE f == frame[w]
           p == ProbeSlot(f.key, f.i + 1)
<1>0. /\ WorkerStep(w) /\ frame \in [Workers -> Frame] /\ f \in Frame
      /\ f.pc = "probe" /\ UNCHANGED <<slots, vals, now>>
  BY DEF WorkerStep, FindStep, SeqInv, TypeInv, TypeOK, Probe, shared
<1>1. ~ HashMatches(Primary(f), f.key)
  BY <1>0 DEF SeqInv, FrameKnows, ProbePc
<1>2. CASE f.i = 3
  <2>1. Drop(w, "miss")
    BY <1>2 DEF Probe
  <2>2. NothingThere(f)
    BY <1>1 DEF NothingThere, Holds, Primary
  <2> QED
    BY <1>0, <2>1, <2>2, SeqDrop
<1>3. CASE f.i # 3
  <2>1. SlotCopies(p) = {slots[p]}
    BY DEF SlotCopies
  <2>2. frame' = [frame EXCEPT ![w].i = f.i + 1, ![w].p = p,
            ![w].pc = IF HashMatches(slots[p], f.key) THEN "deref" ELSE "probe"]
    BY <1>3, <2>1 DEF Probe
  <2>3. /\ frame'[w].pc = (IF HashMatches(slots[p], f.key) THEN "deref" ELSE "probe")
        /\ frame'[w].key = f.key /\ frame'[w].p = p
    BY <1>0, <2>2 DEF Frame
  <2>4. ~ HashMatches(Primary(frame[w])', frame'[w].key)
    BY <1>0, <1>1, <2>3 DEF Primary
  <2>5. frame'[w].pc = "deref" => HashMatches(slots[p], f.key)
    BY <2>3
  <2>6. frame'[w].pc \in {"deref", "probe"}
    BY <2>3
  <2>7. FrameKnows(frame[w])'
    BY <1>0, <2>3, <2>4, <2>5, <2>6 DEF FrameKnows, PutPc, PrimaryPc, ProbePc, MissPc
  <2> QED
    BY <1>0, <2>7, SlotsKept
<1> QED
  BY <1>2, <1>3

LEMMA SeqDeref ==
  ASSUME SeqInv, TornCopies = FALSE, NEW w \in Workers, Deref(w)
  PROVE  SlotsDescribe' /\ FrameKnows(frame[w])'
<1> DEFINE f == frame[w]
<1>0. /\ WorkerStep(w) /\ frame \in [Workers -> Frame] /\ f \in Frame
      /\ f.pc = "deref" /\ UNCHANGED <<slots, vals, now>>
  BY DEF WorkerStep, FindStep, SeqInv, TypeInv, TypeOK, Deref, shared
<1>1. ~ HashMatches(Primary(f), f.key) /\ HashMatches(slots[f.p], f.key)
  BY <1>0 DEF SeqInv, FrameKnows, ProbePc
<1>2. SlotCopies(f.p) = {slots[f.p]}
  BY DEF SlotCopies
<1>3. Goto(w, IF slots[f.p].val = NULL THEN "crashed" ELSE "clobber")
  BY <1>2 DEF Deref
<1>4. /\ frame'[w].pc = (IF slots[f.p].val = NULL THEN "crashed" ELSE "clobber")
      /\ frame'[w].key = f.key /\ frame'[w].p = f.p
  BY <1>0, <1>3 DEF Goto, Frame
<1>5. ~ HashMatches(Primary(frame[w])', frame'[w].key)
  BY <1>0, <1>1, <1>4 DEF Primary
<1>6. FrameKnows(frame[w])'
  BY <1>0, <1>1, <1>4, <1>5 DEF FrameKnows, PutPc, PrimaryPc, ProbePc, MissPc
<1> QED
  BY <1>0, <1>6, SlotsKept

(* The memcpy of line 186 writes the key bytes the slot already has.       *)
LEMMA SeqClobber ==
  ASSUME SeqInv, CollisionFree, NEW w \in Workers, Clobber(w)
  PROVE  /\ SlotsDescribe' /\ FrameKnows(frame[w])'
         /\ slots' = slots
<1> DEFINE f == frame[w]
<1>0. /\ WorkerStep(w) /\ frame \in [Workers -> Frame] /\ f \in Frame
      /\ slots \in [SlotIds -> Slot] /\ f.pc = "clobber" /\ f.key \in Keys
      /\ f.p \in SlotIds
  BY DEF WorkerStep, FindStep, SeqInv, TypeInv, TypeOK, Clobber, Equipped, FindPc, Frame
<1>1. /\ ~ HashMatches(Primary(f), f.key) /\ HashMatches(slots[f.p], f.key)
      /\ slots[f.p].val # NULL
  BY <1>0 DEF SeqInv, FrameKnows, ProbePc
<1>2. slots[f.p].key = f.key
  BY <1>0, <1>1, MatchIsKey
<1>3. slots' = slots
  <2>1. slots' = [slots EXCEPT ![f.p] = [slots[f.p] EXCEPT !.key = f.key]]
    BY DEF Clobber
  <2>2. [slots[f.p] EXCEPT !.key = f.key] = slots[f.p]
    BY <1>0, <1>2 DEF Slot
  <2> QED
    BY <1>0, <2>1, <2>2
<1>4. frame'[w].pc = "probe" /\ frame'[w].key = f.key
  BY <1>0 DEF Clobber, Goto, Frame
<1>5. ~ HashMatches(Primary(frame[w])', frame'[w].key)
  BY <1>1, <1>3, <1>4 DEF Primary
<1>6. FrameKnows(frame[w])'
  BY <1>4, <1>5 DEF FrameKnows, PutPc, PrimaryPc, ProbePc, MissPc
<1> QED
  BY <1>0, <1>3, <1>6, SlotsKept

LEMMA SeqTouchCount ==
  ASSUME SeqInv, NEW w \in Workers, Touch(w) \/ CountLoad(w) \/ CountStore(w)
  PROVE  SlotsDescribe' /\ FrameKnows(frame[w])'
<1> DEFINE f == frame[w]
<1>0. /\ WorkerStep(w) /\ frame \in [Workers -> Frame] /\ f \in Frame
      /\ UNCHANGED <<slots, now>>
  BY DEF WorkerStep, FindStep, SeqInv, TypeInv, TypeOK, Touch, CountLoad, CountStore, shared
<1>1. CASE Touch(w)
  <2>1. frame'[w].pc = "hit"
    BY <1>0, <1>1 DEF Touch, Goto, Frame
  <2> QED
    BY <1>0, <2>1, SlotsKept DEF FrameKnows, PutPc, PrimaryPc, ProbePc, MissPc
<1>2. CASE CountStore(w)
  <2>1. frame'[w].pc = "idle"
    BY <1>0, <1>2 DEF CountStore, IdleFrame
  <2> QED
    BY <1>0, <2>1, SlotsKept DEF FrameKnows, PutPc, PrimaryPc, ProbePc, MissPc
<1>3. CASE CountLoad(w)
  <2>1. /\ f.pc \in {"hit", "miss"} /\ frame'[w].key = f.key /\ vals' = vals
        /\ frame'[w].pc = IF f.pc = "hit" THEN "hitStore" ELSE "missStore"
    BY <1>0, <1>3 DEF CountLoad, Frame, shared
  <2>2. CASE f.pc = "hit"
    BY <1>0, <2>1, <2>2, SlotsKept DEF FrameKnows, PutPc, PrimaryPc, ProbePc, MissPc
  <2>3. CASE f.pc = "miss"
    <3>1. NothingThere(f)
      BY <2>3 DEF SeqInv, FrameKnows, MissPc
    <3>2. NothingThere(frame[w])'
      BY <1>0, <2>1, <3>1 DEF NothingThere, Intact, Live
    <3>3. frame'[w].pc = "missStore"
      BY <2>1, <2>3
    <3> QED
      BY <1>0, <3>2, <3>3, SlotsKept DEF FrameKnows, PutPc, PrimaryPc, ProbePc, MissPc
  <2> QED
    BY <2>1, <2>2, <2>3
<1> QED
  BY <1>1, <1>2, <1>3

(***************************************************************************)
(* The steps of the rest                                                   *)
(***************************************************************************)
LEMMA SeqPutStart ==
  ASSUME SeqInv, NEW w \in Workers, NEW key \in Keys, NEW d \in Values,
         NEW flag \in Flags, NEW ttl \in Ttls, PutStart(w, key, d, flag, ttl)
  PROVE  SlotsDescribe' /\ FrameKnows(frame[w])'
<1>0. WorkerStep(w) /\ frame \in [Workers -> Frame] /\ UNCHANGED slots
  BY DEF WorkerStep, Call, SeqInv, TypeInv, TypeOK, PutStart, shared
<1>1. PICK p \in PutSlots(key), a \in Addrs :
        frame' = [frame EXCEPT ![w] =
          [IdleFrame EXCEPT !.pc = "putVal", !.p = p, !.s = d, !.tv = now,
             !.key = key,
             !.k = [h |-> HashOf(key), crc |-> Sample(d), ttl |-> Expiry(ttl),
                    len |-> [klen |-> KeyLen[key], vlen |-> Len(d)],
                    flag |-> flag, val |-> a, key |-> key]]]
  BY Zenon DEF PutStart
<1>2. [key |-> key, data |-> d, flag |-> flag] \in stored'
  BY DEF PutStart
<1>3. /\ frame'[w].pc = "putVal"
      /\ frame'[w].k.h = HashOf(key) /\ frame'[w].k.crc = Sample(d)
      /\ frame'[w].k.len.klen = KeyLen[key] /\ frame'[w].k.len.vlen = Len(d)
      /\ frame'[w].k.flag = flag /\ frame'[w].k.key = key /\ frame'[w].k.val # NULL
  BY <1>0, <1>1, StorageAssumption DEF IdleFrame
<1>4. Describes(frame'[w].k, stored')
  BY <1>2, <1>3 DEF Describes, Holds, HashMatches
<1> QED
  BY <1>0, <1>3, <1>4, SlotsKept DEF FrameKnows, PutPc, PrimaryPc, ProbePc, MissPc

LEMMA SeqOthers ==
  ASSUME SeqInv, TornCopies = FALSE, NEW w \in Workers,
         \/ PutVal(w) \/ Publish(w) \/ Kill(w) \/ Flush(w)
         \/ \E key \in Keys, ttl \in Ttls : Delete(w, key, ttl)
  PROVE  SlotsDescribe' /\ FrameKnows(frame[w])'
<1> DEFINE f == frame[w]
<1>0. /\ WorkerStep(w) /\ frame \in [Workers -> Frame] /\ f \in Frame
      /\ slots \in [SlotIds -> Slot] /\ stored' = stored
  BY DEF WorkerStep, Call, SeqInv, TypeInv, TypeOK, PutVal, Publish, Kill, Flush, Delete,
     history
<1> USE DEF PutPc, PrimaryPc, ProbePc, MissPc
<1>1. CASE PutVal(w)
  <2>1. f.pc = "putVal" /\ frame'[w].pc = "publish" /\ frame'[w].k = f.k
    BY <1>0, <1>1 DEF PutVal, Goto, Frame
  <2>2. Describes(f.k, stored)
    BY <2>1 DEF SeqInv, FrameKnows
  <2>3. slots' = slots
    BY <1>1 DEF PutVal
  <2> QED
    BY <1>0, <2>1, <2>2, <2>3, SlotsKept DEF FrameKnows
<1>2. CASE Publish(w)
  <2>1. f.pc = "publish" /\ frame'[w].pc = "idle"
    BY <1>0, <1>2 DEF Publish, IdleFrame
  <2>2. Describes(f.k, stored)
    BY <2>1 DEF SeqInv, FrameKnows
  <2>3. SlotsDescribe'
    BY <1>0, <1>2, <2>2 DEF Publish, SeqInv, SlotsDescribe
  <2> QED
    BY <2>1, <2>3 DEF FrameKnows
<1>3. CASE Kill(w)
  <2>1. slots' = slots /\ frame'[w].pc = "idle"
    BY <1>0, <1>3 DEF Kill, IdleFrame
  <2> QED
    BY <1>0, <2>1, SlotsKept DEF FrameKnows
<1>4. CASE Flush(w)
  <2>1. f.pc = "idle" /\ frame' = frame /\ SlotsDescribe'
    BY <1>4 DEF Flush, SlotsDescribe, ZeroSlot
  <2> QED
    BY <2>1 DEF FrameKnows
<1>5. ASSUME NEW key \in Keys, NEW ttl \in Ttls, Delete(w, key, ttl)
      PROVE  SlotsDescribe' /\ FrameKnows(frame[w])'
  <2>1. f.pc = "idle" /\ frame' = frame
    BY <1>5 DEF Delete
  <2>2. PICK p, t : slots' = [slots EXCEPT ![p].ttl = t]
    BY <1>5 DEF Delete
  <2>3. SlotsDescribe'
    BY <1>0, <2>2, TtlChange
  <2> QED
    BY <2>1, <2>3 DEF FrameKnows
<1> QED
  BY <1>1, <1>2, <1>3, <1>4, <1>5

(* Time only brings entries closer to their end.                           *)
LEMMA SeqTick ==
  ASSUME SeqInv, Tick
  PROVE  SeqInv'
<1>0. /\ UNCHANGED <<slots, vals, frame, stored>> /\ now' = now + 1 /\ now \in Nat
      /\ slots \in [SlotIds -> Slot] /\ TypeInv'
  BY TypeStep DEF SeqInv, TypeInv, TypeOK, Tick, shared, history, Next
<1>1. ASSUME NEW w \in Workers
      PROVE  FrameKnows(frame[w])'
  <2> DEFINE f == frame[w]
  <2>0. f \in Frame /\ f.k \in Slot /\ FrameKnows(f) /\ Equipped(f)
    BY DEF SeqInv, TypeInv, TypeOK, Frame
  <2>1. f.pc = "expire" => f.k.ttl # 0 /\ f.k.ttl <= now'
    BY <1>0, <2>0 DEF FrameKnows, Slot
  <2>2. f.pc \in MissPc => NothingThere(f)'
    <3>1. SUFFICES ASSUME f.pc \in MissPc PROVE NothingThere(f)'
      OBVIOUS
    <3>2. ProbeSlot(f.key, 0) \in SlotIds
      BY <2>0, <3>1, ProbeSlotType DEF Equipped, MissPc, FindPc
    <3>3. slots[ProbeSlot(f.key, 0)].ttl \in Nat
      BY <1>0, <3>2 DEF Slot
    <3>4. NothingThere(f)
      BY <2>0, <3>1 DEF FrameKnows
    <3> DEFINE s == ProbeSlot(f.key, 0)
    <3>5. Live(s)' => Live(s)
      BY <1>0, <3>3 DEF Live
    <3>6. Intact(s)' <=> Intact(s)
      BY <1>0 DEF Intact
    <3> QED
      BY <1>0, <3>4, <3>5, <3>6 DEF NothingThere
  <2>3. f.pc \in PrimaryPc => AtPrimary(f)'
    BY <1>0, <2>0 DEF FrameKnows, AtPrimary, Primary
  <2> QED
    BY <1>0, <2>0, <2>1, <2>2, <2>3 DEF FrameKnows, Primary
<1> QED
  BY <1>0, <1>1 DEF SeqInv, SlotsDescribe

LEMMA SeqStep ==
  ASSUME OneWorker, CollisionFree, TornCopies = FALSE
  PROVE  SeqInv /\ [Next]_vars => SeqInv'
<1> SUFFICES ASSUME SeqInv, [Next]_vars PROVE SeqInv'
  OBVIOUS
<1>1. TypeInv /\ TypeInv'
  BY TypeStep DEF SeqInv
<1>2. ASSUME NEW w \in Workers, WorkerStep(w) PROVE SeqInv'
  <2>1. SlotsDescribe' /\ FrameKnows(frame[w])'
    <3>1. CASE Call(w)
      BY <3>1, SeqFindStart, SeqPutStart, SeqOthers DEF Call
    <3>2. CASE FindStep(w)
      BY <3>2, SeqReadVal, SeqVerify, SeqExpire, SeqCopy, SeqTouchCount, SeqProbe,
         SeqDeref, SeqClobber DEF FindStep
    <3>3. CASE PutVal(w) \/ Publish(w) \/ Kill(w)
      BY <3>3, SeqOthers
    <3> QED
      BY <1>2, <3>1, <3>2, <3>3 DEF WorkerStep
  <2>2. now' = now
    BY <1>2, Zenon DEF WorkerStep, Call, FindStep, FindStart, ReadVal, Verify, Expire, Copy,
       Touch, Probe, Deref, Clobber, CountLoad, CountStore, PutStart, Delete, Flush,
       PutVal, Publish, Kill
  <2>3. \A u \in Workers : u = w
    BY DEF OneWorker
  <2> QED
    BY <1>1, <2>1, <2>2, <2>3 DEF SeqInv
<1>3. CASE Tick
  BY <1>3, SeqTick
<1>4. CASE Quiet \/ UNCHANGED vars
  <2>1. UNCHANGED <<slots, vals, now, frame, stored>>
    BY <1>4 DEF Quiet, vars, shared, history
  <2>2. \A w \in Workers : FrameKnows(frame[w])'
    BY <2>1 DEF SeqInv, FrameKnows, AtPrimary, Primary, NothingThere, Intact, Live
  <2> QED
    BY <1>1, <2>1, <2>2 DEF SeqInv, SlotsDescribe
<1> QED
  BY <1>2, <1>3, <1>4 DEF Next

(***************************************************************************)
(* What the worker may expect                                              *)
(***************************************************************************)

(* Every used slot describes an entry as it was stored, key bytes          *)
(* included: the memcpy into the slot at line 186 is harmless when no two  *)
(* keys agree in hash and length and nobody else replaces the slot.        *)
THEOREM SlotsCorrect ==
  ASSUME OneWorker, CollisionFree, TornCopies = FALSE
  PROVE  Spec => []SlotsAreStored
<1>1. SeqInv => SlotsAreStored
  BY DEF SeqInv, SlotsDescribe, Describes, SlotsAreStored
<1>2. SeqInv /\ [Next]_vars => SeqInv'
  BY SeqStep
<1> QED
  BY <1>1, <1>2, SeqInit, PTL DEF Spec

(* A lookup that answers "no such key" does so for a reason: no entry of   *)
(* the key in its primary slot is intact and live (lines 139 to 176).      *)
THEOREM PrimaryCorrect ==
  ASSUME OneWorker, CollisionFree, TornCopies = FALSE
  PROVE  Spec => []PrimaryNotMissed
<1>1. SeqInv => PrimaryNotMissed
  <2> SUFFICES ASSUME SeqInv, NEW w \in Missing
               PROVE  NothingThere(frame[w])
    BY DEF PrimaryNotMissed, NothingThere
  <2> DEFINE f == frame[w]
             s == ProbeSlot(f.key, 0)
  <2>0. w \in Workers
    BY DEF Missing
  <2>1. CASE f.pc = "expire"
    <3>1. f.k = slots[s] /\ f.k.ttl # 0 /\ f.k.ttl <= now
      BY <2>0, <2>1 DEF SeqInv, FrameKnows, PrimaryPc, AtPrimary, Primary
    <3>2. f.k.ttl \in Nat /\ now \in Nat
      BY <2>0 DEF SeqInv, TypeInv, TypeOK, Frame, Slot
    <3> QED
      BY <3>1, <3>2 DEF NothingThere, Live
  <2>2. CASE f.pc \in MissPc
    BY <2>0, <2>2 DEF SeqInv, FrameKnows
  <2> QED
    BY <2>1, <2>2 DEF Missing, MissPc
<1>2. SeqInv /\ [Next]_vars => SeqInv'
  BY SeqStep
<1> QED
  BY <1>1, <1>2, SeqInit, PTL DEF Spec

(* p->ttl = 1 at line 157 marks a slot whose entry has expired, and no     *)
(* other: the decision of line 156 was taken on a copy, and the copy is    *)
(* still the slot.                                                         *)
THEOREM ExpiryCorrect ==
  ASSUME OneWorker, CollisionFree, TornCopies = FALSE
  PROVE  Spec => ExpiryMarksOnlyExpired
<1> DEFINE Marks == \A w \in Workers :
              frame[w].pc = "expire" /\ frame'[w].pc = "miss" =>
                slots[frame[w].p].ttl # 0 /\ slots[frame[w].p].ttl <= now
<1>1. SeqInv => Marks
  BY DEF SeqInv, FrameKnows, PrimaryPc, AtPrimary, Primary
<1>2. SeqInv /\ [Next]_vars => SeqInv'
  BY SeqStep
<1>3. SeqInv => [Marks]_vars
  BY <1>1
<1> HIDE DEF Marks
<1>4. Spec => [][Marks]_vars
  BY <1>2, <1>3, SeqInit, PTL DEF Spec
<1> QED
  BY <1>4 DEF Marks, ExpiryMarksOnlyExpired

=============================================================================
