----------------------------- MODULE YacStorage -----------------------------
(***************************************************************************)
(* yac_storage: the key slots and value blocks that all PHP workers of a   *)
(* host share, without a lock.                                             *)
(*                                                                         *)
(* yac_storage_find is modelled access by access: each action makes at     *)
(* most one access to shared memory, so that other workers run in between. *)
(* The frame of a worker holds the local variables of the function.        *)
(*                                                                         *)
(* yac_storage_update, _delete and _flush and the allocator are not part   *)
(* of this repository.  They are modelled from what yac_storage_find       *)
(* relies on: an update fills a value block, then publishes a slot that    *)
(* describes it; a slot whose ttl is 1 is deleted; a flush zeroes the      *)
(* slots; the allocator may hand out a block that a live slot still names. *)
(***************************************************************************)
EXTENDS YacLayout, FiniteSets

CONSTANTS
  Workers,     (* The PHP worker processes.                                *)
  Values,      (* The values, sequences of bytes, that are stored.         *)
  Byte,        (* The bytes they are made of; contains 0.                  *)
  BlockLen,    (* Capacity in bytes of a value block.                      *)
  Flags,       (* The flag words entries are stored with.                  *)
  Addrs,       (* The addresses of value blocks.                           *)
  Ttls,        (* The times to live given to update and delete; 0 = none.  *)
  NULL,        (* The null address, and the key bytes of a zeroed slot.    *)
  TornCopies,  (* Can a slot be seen half way through being published?     *)
  Flushes,     (* Do workers call flush?                                   *)
  MaxTime,     (* Bound on the clock.                                      *)
  MaxFinds,    (* Bound on the number of lookups.                          *)
  MaxWrites    (* Bound on the number of updates, deletes and flushes.     *)

ASSUME StorageAssumption ==
  /\ Byte \subseteq Nat /\ 0 \in Byte
  /\ BlockLen \in Nat
  /\ Values \subseteq Seq(Byte)
  /\ \A d \in Values : Len(d) <= BlockLen
  /\ Flags \subseteq Nat
  /\ Ttls \subseteq Nat
  /\ NULL \notin Addrs /\ NULL \notin Keys
  /\ TornCopies \in BOOLEAN /\ Flushes \in BOOLEAN
  /\ MaxTime \in Nat /\ MaxFinds \in Nat /\ MaxWrites \in Nat

VARIABLES
  slots,    (* The yac_kv_key array.                                       *)
  vals,     (* The yac_kv_val blocks, by address.                          *)
  hits,     (* yac_sg(hits).                                               *)
  miss,     (* yac_sg(miss).                                               *)
  now,      (* time(NULL).                                                 *)
  frame,    (* frame[w]: where worker w is, and its local variables.       *)
  stored,   (* History: the entries an update has been asked to store.     *)
  finds,    (* History: the number of lookups started.                     *)
  writes    (* History: the number of updates, deletes and flushes started. *)

shared == <<slots, vals, hits, miss>>
history == <<stored, finds, writes>>
vars == <<shared, now, frame, history>>

(***************************************************************************)
(* Types                                                                   *)
(***************************************************************************)
Entry == [key : Keys, data : Values, flag : Flags]

Header == [klen : Nat, vlen : Nat]

Slot == [h : Nat, crc : Seq(Byte), ttl : Nat, len : Header, flag : Nat,
         val : Addrs \cup {NULL}, key : Keys \cup {NULL}]

Block == [atime : Nat, len : Header, data : [1 .. BlockLen -> Byte]]

ZeroHeader == [klen |-> 0, vlen |-> 0]

ZeroSlot == [h |-> 0, crc |-> <<>>, ttl |-> 0, len |-> ZeroHeader,
             flag |-> 0, val |-> NULL, key |-> NULL]

ZeroBlock == [atime |-> 0, len |-> ZeroHeader,
              data |-> [j \in 1 .. BlockLen |-> 0]]

(* The accesses a lookup, then an update, can be about to make. *)
FindPc == {"readVal", "verify", "expire", "copy", "touch", "probe", "deref",
           "clobber", "hit", "hitStore", "miss", "missStore"}
PutPc == {"putVal", "publish"}

Frame == [pc  : FindPc \cup PutPc \cup {"idle", "crashed"},
          key : Keys \cup {NULL},       \* the key looked up or stored
          p   : SlotIds,                \* the slot p points to
          i   : 0 .. 3,                 \* probes made
          k   : Slot,                   \* the copy of *p, or the new slot
          tv  : Nat,                    \* the clock reading
          s   : Seq(Byte),              \* the copy of the value
          reg : Nat]                    \* the counter, loaded

IdleFrame == [pc |-> "idle", key |-> NULL, p |-> 0, i |-> 0, k |-> ZeroSlot,
              tv |-> 0, s |-> <<>>, reg |-> 0]

Goto(w, label) == frame' = [frame EXCEPT ![w].pc = label]

(* The lookup goes on without the entry it had copied: only its key is     *)
(* used again.                                                             *)
WithoutEntry(f, label) == [IdleFrame EXCEPT !.pc = label, !.key = f.key]
Drop(w, label) == frame' = [frame EXCEPT ![w] = WithoutEntry(frame[w], label)]

(* What yac_storage_startup leaves: zeroed slots and counters.  The clock  *)
(* starts above 1, the ttl that means deleted.                             *)
Init ==
  /\ slots = [s \in SlotIds |-> ZeroSlot]
  /\ vals = [a \in Addrs |-> ZeroBlock]
  /\ hits = 0
  /\ miss = 0
  /\ now = 2
  /\ frame = [w \in Workers |-> IdleFrame]
  /\ stored = {}
  /\ finds = 0
  /\ writes = 0

(***************************************************************************)
(* Reading memory that another worker is writing                           *)
(***************************************************************************)

(* The contents of slot s a reader may see bytes of. *)
SlotImages(s) ==
  {slots[s]} \cup
    {frame[u].k : u \in {x \in Workers : frame[x].pc = "publish" /\ frame[x].p = s}}

(* The results a copy of slot s can have.  Torn, every word comes from one *)
(* of the images, independently of the others.                             *)
SlotCopies(s) ==
  IF TornCopies
  THEN LET I == SlotImages(s)
       IN  [h : {x.h : x \in I}, crc : {x.crc : x \in I},
            ttl : {x.ttl : x \in I}, len : {x.len : x \in I},
            flag : {x.flag : x \in I}, val : {x.val : x \in I},
            key : {x.key : x \in I}]
  ELSE {slots[s]}

(* Block a once u's update has written all of its value over it. *)
Filled(u, a) ==
  [atime |-> frame[u].tv, len |-> frame[u].k.len,
   data  |-> [j \in 1 .. BlockLen |-> IF j <= Len(frame[u].s)
                                      THEN frame[u].s[j]
                                      ELSE vals[a].data[j]]]

Filling(u, a) == frame[u].pc = "putVal" /\ frame[u].k.val = a

(* The contents of block a a reader may see bytes of. *)
BlockImages(a) ==
  {vals[a]} \cup {Filled(u, a) : u \in {x \in Workers : Filling(x, a)}}

(* The results a memcpy of n bytes out of block a can have. *)
ByteCopies(a, n) ==
  {d \in [1 .. n -> Byte] :
     \A j \in 1 .. n : \E b \in BlockImages(a) : b.data[j] = d[j]}

(***************************************************************************)
(* yac_storage_find                                                        *)
(***************************************************************************)

(* Mutations of the test below: one half of it is missing. *)
LengthMatches(k, key) == k.len.klen = KeyLen[key]
OnlyHashMatches(k, key) == k.h = HashOf(key)

(* The test that a slot, or a copy of one, may be the entry of a key:      *)
(* the whole hash and the length agree.                                    *)
HashMatches(k, key) == k.h = HashOf(key) /\ k.len.klen = KeyLen[key]

(* Mutations of the actions below, each a slip the C code could contain;   *)
(* the runs show that the properties notice them.                          *)

(* Line 156 compares the wrong way round. *)
VerifySwapped(w) ==
  /\ frame[w].pc = "verify"
  /\ frame' = [frame EXCEPT
       ![w].tv = now,
       ![w].pc = IF frame[w].k.ttl # 0 /\ now <= frame[w].k.ttl
                 THEN "expire" ELSE "copy"]
  /\ UNCHANGED <<shared, now, history>>

(* Line 156 expires an entry one second early. *)
VerifyEarly(w) ==
  /\ frame[w].pc = "verify"
  /\ frame' = [frame EXCEPT
       ![w].tv = now,
       ![w].pc = IF frame[w].k.ttl # 0 /\ frame[w].k.ttl <= now + 1
                 THEN "expire" ELSE "copy"]
  /\ UNCHANGED <<shared, now, history>>

(* Line 165 is missing: the checksum is not compared. *)
CopyUnchecked(w) ==
  /\ frame[w].pc = "copy"
  /\ \E s \in ByteCopies(frame[w].k.val, frame[w].k.len.vlen) :
       frame' = [frame EXCEPT ![w].s = s, ![w].pc = "touch"]
  /\ UNCHANGED <<shared, now, history>>

(* Line 181 makes one round too many. *)
ProbeOnceMore(w) ==
  LET f == frame[w]
      p == ProbeSlot(f.key, f.i + 1)
  IN  /\ f.pc = "probe"
      /\ IF f.i = 4
         THEN Drop(w, "miss")
         ELSE \E k \in SlotCopies(p) :
                frame' = [frame EXCEPT
                  ![w].i = f.i + 1, ![w].p = p,
                  ![w].pc = IF HashMatches(k, f.key) THEN "deref" ELSE "probe"]
      /\ UNCHANGED <<shared, now, history>>

(* Line 181 retries a matching slot without counting the round. *)
ProbeUncounted(w) ==
  LET f == frame[w]
      p == ProbeSlot(f.key, f.i + 1)
  IN  /\ f.pc = "probe"
      /\ IF f.i = 3
         THEN Drop(w, "miss")
         ELSE \E k \in SlotCopies(p) :
                frame' = [frame EXCEPT
                  ![w].i = IF HashMatches(k, f.key) THEN f.i ELSE f.i + 1,
                  ![w].p = p,
                  ![w].pc = IF HashMatches(k, f.key) THEN "deref" ELSE "probe"]
      /\ UNCHANGED <<shared, now, history>>

(* Line 176 is missing: a hit falls through to line 193. *)
CountStoreFallThrough(w) ==
  /\ frame[w].pc \in {"hitStore", "missStore"}
  /\ IF frame[w].pc = "hitStore"
     THEN /\ hits' = frame[w].reg + 1 /\ miss' = miss
          /\ Goto(w, "miss")
     ELSE /\ miss' = frame[w].reg + 1 /\ hits' = hits
          /\ frame' = [frame EXCEPT ![w] = IdleFrame]
  /\ UNCHANGED <<slots, vals, now, history>>

(* k = *p, for the primary slot of the key. *)
FindStart(w, key) ==
  /\ frame[w].pc = "idle"
  /\ finds < MaxFinds
  /\ finds' = finds + 1
  /\ \E k \in SlotCopies(ProbeSlot(key, 0)) :
       frame' = [frame EXCEPT ![w] =
         IF k.val # NULL /\ HashMatches(k, key)
         THEN [IdleFrame EXCEPT !.pc = "readVal", !.key = key,
                 !.p = ProbeSlot(key, 0), !.k = k]
         ELSE [IdleFrame EXCEPT !.pc = IF k.val = NULL THEN "miss" ELSE "probe",
                 !.key = key]]
  /\ UNCHANGED <<shared, now, stored, writes>>

(* v = *(k.val); then the key bytes of the copy decide between probing and *)
(* verifying, and a deleted slot or a length that is no longer the block's *)
(* is a miss.                                                              *)
ReadVal(w) ==
  /\ frame[w].pc = "readVal"
  /\ \E v \in BlockImages(frame[w].k.val) :
       IF frame[w].k.key # frame[w].key THEN Drop(w, "probe")
       ELSE IF frame[w].k.ttl = 1 \/ frame[w].k.len # v.len THEN Drop(w, "miss")
       ELSE Goto(w, "verify")
  /\ UNCHANGED <<shared, now, history>>

(* tv = time(NULL) and the test of the entry's expiry. *)
Verify(w) ==
  /\ frame[w].pc = "verify"
  /\ frame' = [frame EXCEPT
       ![w].tv = now,
       ![w].pc = IF frame[w].k.ttl # 0 /\ frame[w].k.ttl <= now
                 THEN "expire" ELSE "copy"]
  /\ UNCHANGED <<shared, now, history>>

(* p->ttl = 1: the slot, as it is now, is marked deleted. *)
Expire(w) ==
  /\ frame[w].pc = "expire"
  /\ slots' = [slots EXCEPT ![frame[w].p].ttl = 1]
  /\ Drop(w, "miss")
  /\ UNCHANGED <<vals, hits, miss, now, history>>

(* The value is copied out of the block, and its checksum compared with    *)
(* the slot's.                                                             *)
Copy(w) ==
  /\ frame[w].pc = "copy"
  /\ \E s \in ByteCopies(frame[w].k.val, frame[w].k.len.vlen) :
       IF frame[w].k.crc = Sample(s)
       THEN frame' = [frame EXCEPT ![w].s = s, ![w].pc = "touch"]
       ELSE Drop(w, "miss")
  /\ UNCHANGED <<shared, now, history>>

(* k.val->atime = tv. *)
Touch(w) ==
  /\ frame[w].pc = "touch"
  /\ vals' = [vals EXCEPT ![frame[w].k.val].atime = frame[w].tv]
  /\ Goto(w, "hit")
  /\ UNCHANGED <<slots, hits, miss, now, history>>

(* One round of the probe loop up to the test of p->h and of the length of *)
(* *p; after the third round the key is missed.                            *)
Probe(w) ==
  LET f == frame[w]
      p == ProbeSlot(f.key, f.i + 1)
  IN  /\ f.pc = "probe"
      /\ IF f.i = 3
         THEN Drop(w, "miss")
         ELSE \E k \in SlotCopies(p) :
                frame' = [frame EXCEPT
                  ![w].i = f.i + 1, ![w].p = p,
                  ![w].pc = IF HashMatches(k, f.key) THEN "deref" ELSE "probe"]
      /\ UNCHANGED <<shared, now, history>>

(* v = *(p->val), with the slot as it is now. *)
Deref(w) ==
  /\ frame[w].pc = "deref"
  /\ \E k \in SlotCopies(frame[w].p) :
       Goto(w, IF k.val = NULL THEN "crashed" ELSE "clobber")
  /\ UNCHANGED <<shared, now, history>>

(* if (!memcpy(p->key, key, len)): the key is copied INTO the slot, and as *)
(* memcpy returns its destination the branch is never taken.               *)
Clobber(w) ==
  /\ frame[w].pc = "clobber"
  /\ slots' = [slots EXCEPT ![frame[w].p].key = frame[w].key]
  /\ Goto(w, "probe")
  /\ UNCHANGED <<vals, hits, miss, now, history>>

(* ++yac_sg(hits) and ++yac_sg(miss) are a load and a store. *)
CountLoad(w) ==
  /\ frame[w].pc \in {"hit", "miss"}
  /\ frame' = [frame EXCEPT
       ![w].reg = IF frame[w].pc = "hit" THEN hits ELSE miss,
       ![w].pc = IF frame[w].pc = "hit" THEN "hitStore" ELSE "missStore"]
  /\ UNCHANGED <<shared, now, history>>

(* The store of the counter, and the return of the lookup. *)
CountStore(w) ==
  /\ frame[w].pc \in {"hitStore", "missStore"}
  /\ IF frame[w].pc = "hitStore"
     THEN hits' = frame[w].reg + 1 /\ miss' = miss
     ELSE miss' = frame[w].reg + 1 /\ hits' = hits
  /\ frame' = [frame EXCEPT ![w] = IdleFrame]
  /\ UNCHANGED <<slots, vals, now, history>>

FindStep(w) ==
  \/ ReadVal(w) \/ Verify(w) \/ Expire(w) \/ Copy(w) \/ Touch(w)
  \/ Probe(w) \/ Deref(w) \/ Clobber(w) \/ CountLoad(w) \/ CountStore(w)

(***************************************************************************)
(* The callers and the missing half of the storage (external)              *)
(***************************************************************************)

(* Slot k is the entry of the key. *)
Holds(k, key) == k.val # NULL /\ HashMatches(k, key) /\ k.key = key

Free(s) == slots[s].val = NULL

(* Where an update of the key may go.  A lookup stops at an empty primary  *)
(* slot, so an entry never lies behind an empty slot: the update takes the *)
(* slot that holds the key, else the first empty one, else kicks any.      *)
PutSlots(key) ==
  LET held  == {s \in Path(key) : Holds(slots[s], key)}
      first == {ProbeSlot(key, n) : n \in {m \in 0 .. 3 :
                  /\ Free(ProbeSlot(key, m))
                  /\ \A l \in 0 .. m - 1 : ~ Free(ProbeSlot(key, l))}}
  IN  IF held # {} THEN held ELSE IF first # {} THEN first ELSE Path(key)

(* An absolute time of expiry for a time to live. *)
Expiry(ttl) == IF ttl = 0 THEN 0 ELSE now + ttl

(* One more call of the missing half. *)
Write == writes < MaxWrites /\ writes' = writes + 1

(* yac_storage_update chooses a slot and a block.  The block may belong to *)
(* a live entry, the allocator reuses memory, but no other update is in    *)
(* the middle of filling it.                                               *)
PutStart(w, key, d, flag, ttl) ==
  /\ frame[w].pc = "idle"
  /\ Write
  /\ stored' = stored \cup {[key |-> key, data |-> d, flag |-> flag]}
  /\ \E p \in PutSlots(key), a \in Addrs :
       /\ \A u \in Workers : ~ Filling(u, a)
       /\ frame' = [frame EXCEPT ![w] =
            [IdleFrame EXCEPT !.pc = "putVal", !.p = p, !.s = d, !.tv = now,
               !.key = key,
               !.k = [h |-> HashOf(key), crc |-> Sample(d),
                      ttl |-> Expiry(ttl),
                      len |-> [klen |-> KeyLen[key], vlen |-> Len(d)],
                      flag |-> flag, val |-> a, key |-> key]]]
  /\ UNCHANGED <<shared, now, finds>>

(* The block is complete.  One update at a time publishes a given slot. *)
PutVal(w) ==
  /\ frame[w].pc = "putVal"
  /\ \A u \in Workers : ~ (frame[u].pc = "publish" /\ frame[u].p = frame[w].p)
  /\ vals' = [vals EXCEPT ![frame[w].k.val] = Filled(w, frame[w].k.val)]
  /\ Goto(w, "publish")
  /\ UNCHANGED <<slots, hits, miss, now, history>>

(* *p = k is complete. *)
Publish(w) ==
  /\ frame[w].pc = "publish"
  /\ slots' = [slots EXCEPT ![frame[w].p] = frame[w].k]
  /\ frame' = [frame EXCEPT ![w] = IdleFrame]
  /\ UNCHANGED <<vals, hits, miss, now, history>>

(* yac_storage_delete: the entry expires now, or when the delay is over. *)
Delete(w, key, ttl) ==
  /\ frame[w].pc = "idle"
  /\ Write
  /\ \E s \in Path(key) :
       /\ Holds(slots[s], key)
       /\ slots' = [slots EXCEPT ![s].ttl = IF ttl = 0 THEN 1 ELSE now + ttl]
  /\ UNCHANGED <<vals, hits, miss, now, frame, stored, finds>>

(* yac_storage_flush. *)
Flush(w) ==
  /\ Flushes
  /\ frame[w].pc = "idle"
  /\ Write
  /\ slots' = [s \in SlotIds |-> ZeroSlot]
  /\ UNCHANGED <<vals, hits, miss, now, frame, stored, finds>>

(* A worker process is killed in the middle of a call and replaced.  What  *)
(* it was writing stays half written.                                      *)
Kill(w) ==
  LET f == frame[w] IN
  /\ f.pc \notin {"idle", "crashed"}
  /\ IF f.pc = "putVal"
     THEN \E b \in BlockImages(f.k.val), d \in ByteCopies(f.k.val, BlockLen) :
            vals' = [vals EXCEPT ![f.k.val] = [b EXCEPT !.data = d]]
     ELSE vals' = vals
  /\ IF f.pc = "publish" /\ TornCopies
     THEN \E k \in SlotCopies(f.p) : slots' = [slots EXCEPT ![f.p] = k]
     ELSE slots' = slots
  /\ frame' = [frame EXCEPT ![w] = IdleFrame]
  /\ UNCHANGED <<hits, miss, now, history>>

Tick ==
  /\ now < MaxTime
  /\ now' = now + 1
  /\ UNCHANGED <<shared, frame, history>>

Call(w) ==
  \/ \E key \in Keys : FindStart(w, key)
  \/ \E key \in Keys, d \in Values, flag \in Flags, ttl \in Ttls :
       PutStart(w, key, d, flag, ttl)
  \/ \E key \in Keys, ttl \in Ttls : Delete(w, key, ttl)
  \/ Flush(w)

WorkerStep(w) ==
  Call(w) \/ FindStep(w) \/ PutVal(w) \/ Publish(w) \/ Kill(w)

(* Nobody calls, for ever after: the host may stay idle. *)
Quiet ==
  /\ \A w \in Workers : frame[w].pc \in {"idle", "crashed"}
  /\ UNCHANGED vars

Next == Tick \/ Quiet \/ \E w \in Workers : WorkerStep(w)

Spec == Init /\ [][Next]_vars

(* What the scheduler of the host owes a worker that is inside a lookup:   *)
(* nothing it does there blocks.                                           *)
FairSpec == Spec /\ \A w \in Workers : WF_vars(FindStep(w))

(***************************************************************************)
(* Correctness                                                             *)
(***************************************************************************)

(* Every variable has its type; in particular a lookup never points past   *)
(* the slot array and never counts more than three probes.                 *)
TypeOK ==
  /\ slots \in [SlotIds -> Slot]
  /\ vals \in [Addrs -> Block]
  /\ hits \in Nat /\ miss \in Nat /\ now \in Nat
  /\ frame \in [Workers -> Frame]
  /\ stored \subseteq Entry /\ finds \in Nat /\ writes \in Nat

(* The workers that are about to return a value to the caller of get.      *)
Hitting == {w \in Workers : frame[w].pc \in {"touch", "hit", "hitStore"}}

(* Entry e can be what worker w returns: the key, flag word and length are *)
(* e's, and so are the bytes the checksum covers.                          *)
Answers(e, w) ==
  /\ e.key = frame[w].key
  /\ e.flag = frame[w].k.flag
  /\ frame[w].k.len.vlen = Len(e.data)
  /\ Len(frame[w].s) = Len(e.data)
  /\ Sample(frame[w].s) = Sample(e.data)

(* yac_storage_find returns only what some update stored under the very    *)
(* key it was asked for, with that update's flag and length, however the   *)
(* block was rewritten, recycled or left half written by a killed worker   *)
(* while it was being read; the bytes yac_crc32 skips are not promised.    *)
(* This is what the tests of lines 144, 146 and 165 are for.               *)
HitsAreStored == \A w \in Hitting : \E e \in stored : Answers(e, w)

(* A hit on a value at most as long as the checksum window is a stored     *)
(* value of the key to the last byte: line 165 then sees every byte.       *)
HitsAreWhole ==
  \A w \in Hitting : Len(frame[w].s) <= Window =>
    \E e \in stored : Answers(e, w) /\ frame[w].s = e.data

(* Even when slots are copied half way through being published (k = *p of  *)
(* line 141 takes no lock), what a hit returns passes the checksum of some *)
(* value that was stored: the bytes are never an invention.                *)
TornHitIntegrity ==
  \A w \in Hitting : \E e \in stored : Sample(frame[w].s) = Sample(e.data)

(* The lookups that have begun and not counted themselves yet.             *)
Finding == {w \in Workers : frame[w].pc \in FindPc}

(* hits + miss never exceeds the lookups made: updates of the counters can *)
(* be lost (lines 150, 158, 167, 175 and 193 take no lock) but a lookup    *)
(* counts itself once, on one exit, as a hit or as a miss.                 *)
StatsNeverOvercount == hits + miss + Cardinality(Finding) <= finds

(* v = *(p->val) of line 185 never dereferences the null address: a slot   *)
(* that passed line 184 has a block, and keeps it while it is used.        *)
NoNullDeref == \A w \in Workers : frame[w].pc # "crashed"

(* Slot s is used and its block still holds a value the checksum accepts.  *)
Intact(s) ==
  LET k == slots[s] IN
  /\ k.val # NULL
  /\ vals[k.val].len = k.len
  /\ k.crc = Sample([j \in 1 .. k.len.vlen |-> vals[k.val].data[j]])

(* Slot s is neither deleted nor expired.                                  *)
Live(s) == slots[s].ttl = 0 \/ slots[s].ttl > now

(* The workers that are about to answer that there is no such key.         *)
Missing == {w \in Workers : frame[w].pc \in {"expire", "miss", "missStore"}}

(* With one worker: an intact, live entry in the primary slot of its key   *)
(* is found, never missed (lines 139 to 176).                              *)
PrimaryNotMissed ==
  \A w \in Missing :
    LET s == ProbeSlot(frame[w].key, 0)
    IN  ~ (Holds(slots[s], frame[w].key) /\ Intact(s) /\ Live(s))

(* With one worker: an intact, live entry in ANY slot of the path of its   *)
(* key is found.  It is what src/laruence.com/yac.php:17 expects of a get  *)
(* that follows a set, and what the memcpy of line 186 breaks.             *)
NoFalseMiss ==
  \A w \in Missing : \A s \in Path(frame[w].key) :
    ~ (Holds(slots[s], frame[w].key) /\ Intact(s) /\ Live(s))

(* With one worker and no two keys of equal hash and length: every used    *)
(* slot describes an entry as it was stored; in particular the key bytes   *)
(* line 186 writes into a slot are the ones it already has.                *)
SlotsAreStored ==
  \A s \in SlotIds : slots[s].val # NULL =>
    \E e \in stored :
      /\ Holds(slots[s], e.key)
      /\ slots[s].crc = Sample(e.data)
      /\ slots[s].len.vlen = Len(e.data)
      /\ slots[s].flag = e.flag

(* With one worker: p->ttl = 1 of line 157 only ever marks a slot whose    *)
(* entry has expired.                                                      *)
ExpiryMarksOnlyExpired ==
  [][\A w \in Workers :
       frame[w].pc = "expire" /\ frame'[w].pc = "miss" =>
         slots[frame[w].p].ttl # 0 /\ slots[frame[w].p].ttl <= now]_vars

(* The accesses a lookup can still make, from where it is: three probes of *)
(* three accesses, then the exit that counts a miss, are the most.         *)
StepsLeft(f) ==
  CASE f.pc = "readVal" -> 13
    [] f.pc = "verify"  -> 5
    [] f.pc = "copy"    -> 4
    [] f.pc \in {"expire", "touch"} -> 3
    [] f.pc \in {"hit", "miss"} -> 2
    [] f.pc \in {"hitStore", "missStore"} -> 1
    [] f.pc = "probe"   -> 12 - 3 * f.i
    [] f.pc = "clobber" -> 13 - 3 * f.i
    [] f.pc = "deref"   -> 14 - 3 * f.i
    [] OTHER -> 0

(* No worker holds a lookup up (lines 139 to 195): what others do leaves   *)
(* it where it is, and each access of its own takes it nearer its end, so  *)
(* that it ends within fourteen, however slots and blocks are changed      *)
(* under it.                                                               *)
LookupNeverWaits ==
  [][\A w \in Workers : frame[w].pc \in FindPc /\ frame'[w] # frame[w] =>
       StepsLeft(frame'[w]) < StepsLeft(frame[w])]_vars

(* A lookup ends, whatever the other workers do to the slots it probes.    *)
LookupTerminates ==
  \A w \in Workers : frame[w].pc \in FindPc ~> frame[w].pc \notin FindPc

(***************************************************************************)
(* Refinement                                                              *)
(***************************************************************************)

(* What a hit shows of a value: its flag word, its length and the bytes    *)
(* the checksum covers.                                                    *)
View(flag, d) == [flag |-> flag, len |-> Len(d), bytes |-> Sample(d)]

CacheGiven == {[key |-> e.key, view |-> View(e.flag, e.data)] : e \in stored}

(* The state of a lookup as its caller sees it. *)
LookupOf(f) ==
  IF f.pc \in {"touch", "hit", "hitStore"}
  THEN [state |-> "found", key |-> f.key, view |-> View(f.k.flag, f.s)]
  ELSE IF f.pc = "missStore" THEN [state |-> "missed"]
  ELSE IF f.pc = "crashed" THEN [state |-> "dead"]
  ELSE IF f.pc \in FindPc THEN [state |-> "asked", key |-> f.key]
  ELSE [state |-> "idle"]

CacheLookup == [w \in Workers |-> LookupOf(frame[w])]

Cache == INSTANCE YacCache WITH
  Views  <- {View(flag, d) : flag \in Flags, d \in Values},
  given  <- CacheGiven,
  lookup <- CacheLookup

(* The lock-free lookup over recycled blocks is an honest cache: from      *)
(* outside, each lookup is asked, answered once, by a miss or by an entry  *)
(* given for its key, and left, whatever happens to slots and blocks       *)
(* meanwhile (lines 133 to 196, with yac_storage.h:98 to 101).             *)
ImplementsCache == Cache!Spec

=============================================================================
