------------------------------- MODULE YacApi -------------------------------
(***************************************************************************)
(* The methods of the PHP class Yac, called by several worker processes on *)
(* one cache: add, set, get and delete, of one key or of an array of keys, *)
(* and flush.                                                              *)
(*                                                                         *)
(* A method on an array makes one call of the storage per key, and other   *)
(* workers run in between.  The storage is external here: each of its      *)
(* calls is one atomic step on a map from store keys to entries, and it    *)
(* may drop any entry at any time.                                         *)
(***************************************************************************)
EXTENDS YacEntry, YacKey

CONSTANTS
  Procs,       (* The PHP worker processes.                                *)
  Prefixes,    (* The prefixes of the Yac objects they use.                *)
  Keys,        (* The keys of calls: a kind, "string" or "long", and the   *)
               (* text it is or prints as.                                 *)
  Values,      (* The values stored, as YacEntry describes them.           *)
  Ttls,        (* The times to live given to add and set.                  *)
  DeleteTtls,  (* The times to live given to delete.                       *)
  MaxBatch,    (* Bound on the length of the arrays given.                 *)
  NONE,        (* No value, no entry.                                      *)
  MaxTime,     (* Bound on the clock.                                      *)
  MaxCalls     (* Bound on the number of calls.                            *)

ASSUME ApiAssumption ==
  /\ Prefixes \subseteq Seq(Nat)
  /\ \A key \in Keys : key.kind \in {"string", "long"} /\ key.text \in Seq(Nat)
  /\ Values \subseteq PhpValues
  /\ Ttls \subseteq Nat /\ DeleteTtls \subseteq Nat
  /\ NONE \notin Values
  /\ MaxBatch \in Nat /\ MaxTime \in Nat /\ MaxCalls \in Nat

VARIABLES
  enable,   (* YAC_G(enable), fixed when PHP starts.                       *)
  cache,    (* External: the entry under each store key, or NONE.          *)
  now,      (* time(NULL).                                                 *)
  call,     (* call[w]: the method worker w is in, or was in last.         *)
  asked,    (* History: the pairs given to add and set, with their prefix. *)
  calls     (* History: the number of methods called.                      *)

vars == <<enable, cache, now, call, asked, calls>>

(* What the caller names: the prefix of the object and the key. *)
Text(prefix, key) == prefix \o key.text

StoreKey(prefix, key) == Compose(prefix, key.text)

StoreKeys == {StoreKey(p, key) : p \in Prefixes, key \in Keys}

(* The arrays of keys, without repetition. *)
Arrays ==
  UNION {{b \in [1 .. n -> Keys] : \A i, j \in 1 .. n : b[i] = b[j] => i = j}
           : n \in 0 .. MaxBatch}

(* A method: its name, whether it was given an array, its arguments, the   *)
(* keys still to do, the values got so far (NONE for false), how many      *)
(* pairs the storage took, and what it returned, "pending" until it has.   *)
Call(op, multi, prefix, keys, value, ttl) ==
  [op |-> op, multi |-> multi, prefix |-> prefix, keys |-> keys, value |-> value,
   ttl |-> ttl, todo |-> keys, out |-> <<>>, taken |-> 0, returns |-> "pending"]

NoValue == [key \in {} |-> NONE]

Idle == [Call("none", FALSE, <<>>, <<>>, NoValue, 0) EXCEPT !.returns = "none"]

Init ==
  /\ enable \in BOOLEAN
  /\ cache = [k \in StoreKeys |-> NONE]
  /\ now = 2
  /\ call = [w \in Procs |-> Idle]
  /\ asked = {}
  /\ calls = 0

Busy(w) == call[w].returns = "pending"

(* Worker w is in op and has a key to do. *)
Doing(w, ops) == Busy(w) /\ call[w].op \in ops /\ call[w].todo # <<>>

Next1(w) == Head(call[w].todo)
NextStoreKey(w) == StoreKey(call[w].prefix, Next1(w))
NextFits(w) == Fits(call[w].prefix, Next1(w).text)

Return(w, r) == call' = [call EXCEPT ![w].returns = r]

(***************************************************************************)
(* The storage and the clock (external)                                    *)
(***************************************************************************)
Live(k) == cache[k] # NONE /\ (cache[k].expires = 0 \/ cache[k].expires > now)

(* yac_storage_update(key, ..., ttl, add) when it returns 1.  Told to add, *)
(* it takes no entry for a key that has one.                               *)
Takes(k, e, ttl, add) ==
  /\ ~ (add # 0 /\ Live(k))
  /\ cache' = [cache EXCEPT ![k] =
       [len |-> SetLen(Len(k), e.size), flag |-> e.flag, size |-> e.size,
        value |-> e.value, expires |-> IF ttl = 0 THEN 0 ELSE now + ttl]]

(* yac_storage_delete: 1 is an expiry of the past. *)
Removes(k, ttl) ==
  cache' = IF cache[k] = NONE THEN cache
           ELSE [cache EXCEPT ![k].expires = IF ttl = 0 THEN 1 ELSE now + ttl]

(* An entry can be kicked out by another one at any time. *)
Kick(k) ==
  /\ cache[k] # NONE
  /\ cache' = [cache EXCEPT ![k] = NONE]
  /\ UNCHANGED <<enable, now, call, asked, calls>>

Tick ==
  /\ now < MaxTime
  /\ now' = now + 1
  /\ UNCHANGED <<enable, cache, call, asked, calls>>

(***************************************************************************)
(* The beginning and the end of the methods                                *)
(***************************************************************************)

(* A method returns false at once when the extension is disabled. *)
Begin(w, c) ==
  /\ ~ Busy(w)
  /\ calls < MaxCalls
  /\ calls' = calls + 1
  /\ call' = [call EXCEPT ![w] = IF enable THEN c ELSE [c EXCEPT !.returns = "false"]]
  /\ UNCHANGED <<enable, cache, now>>

AddBegin(w, op, prefix, keys, multi) ==
  \E value \in [{keys[i] : i \in DOMAIN keys} -> Values], ttl \in Ttls :
    /\ Begin(w, Call(op, multi, prefix, keys, value, ttl))
    /\ asked' = asked \cup
         {[text |-> Text(prefix, key), value |-> value[key], ttl |-> ttl]
            : key \in DOMAIN value}

GetBegin(w, prefix, keys, multi) ==
  /\ Begin(w, Call("get", multi, prefix, keys, NoValue, 0))
  /\ UNCHANGED asked

DeleteBegin(w, prefix, keys, multi) ==
  \E ttl \in DeleteTtls :
    /\ Begin(w, Call("delete", multi, prefix, keys, NoValue, ttl))
    /\ UNCHANGED asked

(* flush empties the storage. *)
Flush(w) ==
  /\ ~ Busy(w)
  /\ calls < MaxCalls
  /\ calls' = calls + 1
  /\ cache' = IF enable THEN [k \in StoreKeys |-> NONE] ELSE cache
  /\ call' = [call EXCEPT ![w] =
       [Call("flush", FALSE, <<>>, <<>>, NoValue, 0) EXCEPT
          !.returns = IF enable THEN "true" ELSE "false"]]
  /\ UNCHANGED <<enable, now, asked>>

(* All keys are done.  set computes what it should return and does not     *)
(* return it: PHP returns null then.                                       *)
End(w) ==
  /\ Busy(w)
  /\ call[w].todo = <<>>
  /\ Return(w, CASE call[w].op \in {"add", "delete"} -> "true"
                 [] call[w].op = "set" -> "null"
                 [] call[w].op = "get" -> "values")
  /\ UNCHANGED <<enable, cache, now, asked, calls>>

(***************************************************************************)
(* add and set                                                             *)
(***************************************************************************)

(* The add argument of an add and of a set. *)
AddFlag(op) == IF op = "add" THEN 1 ELSE 0

(* A mutation of the choice below: the others are swapped like scalars. *)
SwappedArguments(c, v) == [ttl |-> AddFlag(c.op), add |-> c.ttl]

(* What yac_add_impl passes to yac_storage_update as ttl and add: for the  *)
(* scalars they are swapped.                                               *)
UpdateArguments(c, v) ==
  IF v.type \in Scalars
  THEN [ttl |-> AddFlag(c.op), add |-> c.ttl]
  ELSE [ttl |-> c.ttl, add |-> AddFlag(c.op)]

(* yac_add_impl stores the next pair: its key fits, its value is encoded,  *)
(* and the storage takes it.                                               *)
AddNext(w) ==
  LET v == call[w].value[Next1(w)]
      args == UpdateArguments(call[w], v)
  IN  /\ Doing(w, {"add", "set"})
      /\ NextFits(w)
      /\ \E e \in Encodings(v) : Takes(NextStoreKey(w), e, args.ttl, args.add)
      /\ call' = [call EXCEPT ![w].todo = Tail(@), ![w].taken = @ + 1]
      /\ UNCHANGED <<enable, now, asked, calls>>

(* A mutation of the step below: the array goes on after a failure. *)
AddFailOnwards(w) ==
  /\ Doing(w, {"add", "set"})
  /\ call' = [call EXCEPT ![w].todo = Tail(@)]
  /\ UNCHANGED <<enable, cache, now, asked, calls>>

(* yac_add_impl does not store the next pair: its key is too long, its     *)
(* value is refused, or the storage does not take it, if only for want of  *)
(* memory.  The rest of the array is not tried.                            *)
AddFail(w) ==
  /\ Doing(w, {"add", "set"})
  /\ Return(w, IF call[w].op = "add" THEN "false" ELSE "null")
  /\ UNCHANGED <<enable, cache, now, asked, calls>>

(***************************************************************************)
(* get                                                                     *)
(***************************************************************************)

(* yac_get_impl: the value of the next key, or NONE. *)
Got(w) ==
  LET k == NextStoreKey(w)
      found == IF NextFits(w) /\ Live(k) THEN Decodings(cache[k]) ELSE {}
  IN  IF found = {} THEN {NONE} ELSE found

(* A single key that is not a string is not looked up. *)
Skipped(w) == ~ call[w].multi /\ Next1(w).kind # "string"

(* A mutation of the step below: the keys not found get no answer. *)
GetNextFound(w) ==
  /\ Doing(w, {"get"})
  /\ ~ Skipped(w)
  /\ \E v \in Got(w) :
       call' = [call EXCEPT ![w].todo = Tail(@),
                            ![w].out = IF v = NONE THEN @ ELSE Append(@, v)]
  /\ UNCHANGED <<enable, cache, now, asked, calls>>

GetNext(w) ==
  /\ Doing(w, {"get"})
  /\ ~ Skipped(w)
  /\ \E v \in Got(w) :
       call' = [call EXCEPT ![w].todo = Tail(@), ![w].out = Append(@, v)]
  /\ UNCHANGED <<enable, cache, now, asked, calls>>

(* get of a key that is not a string returns what happens to be in ret:    *)
(* false when it is null, and else whatever is there, if the worker        *)
(* survives it.                                                            *)
GetSkip(w) ==
  /\ Doing(w, {"get"})
  /\ Skipped(w)
  /\ \E r \in {"false", "undefined", "died"} : Return(w, r)
  /\ UNCHANGED <<enable, cache, now, asked, calls>>

(***************************************************************************)
(* delete                                                                  *)
(***************************************************************************)

(* In an array, the length of a string key is passed as its address.       *)
Misaddressed(w) == call[w].multi /\ Next1(w).kind = "string" /\ NextFits(w)

DeleteNext(w) ==
  /\ Doing(w, {"delete"})
  /\ ~ Misaddressed(w)
  /\ IF NextFits(w) THEN Removes(NextStoreKey(w), call[w].ttl) ELSE UNCHANGED cache
  /\ call' = [call EXCEPT ![w].todo = Tail(@)]
  /\ UNCHANGED <<enable, now, asked, calls>>

(* No memory is mapped there: the worker dies, and is replaced. *)
DeleteDie(w) ==
  /\ Doing(w, {"delete"})
  /\ Misaddressed(w)
  /\ Return(w, "died")
  /\ UNCHANGED <<enable, cache, now, asked, calls>>

(***************************************************************************)
(* The specification                                                       *)
(***************************************************************************)

(* A method on one key, or on an array. *)
KeyMethod(w, prefix, keys, multi) ==
  \/ \E op \in {"add", "set"} : AddBegin(w, op, prefix, keys, multi)
  \/ GetBegin(w, prefix, keys, multi)
  \/ DeleteBegin(w, prefix, keys, multi)

Method(w) ==
  \/ \E prefix \in Prefixes, key \in Keys : KeyMethod(w, prefix, <<key>>, FALSE)
  \/ \E prefix \in Prefixes, keys \in Arrays : KeyMethod(w, prefix, keys, TRUE)
  \/ Flush(w)

Step(w) ==
  AddNext(w) \/ AddFail(w) \/ GetNext(w) \/ GetSkip(w) \/ DeleteNext(w)
    \/ DeleteDie(w) \/ End(w)

(* Nobody calls, for ever after. *)
Quiet == (\A w \in Procs : ~ Busy(w)) /\ UNCHANGED vars

Next ==
  \/ \E w \in Procs : Method(w) \/ Step(w)
  \/ \E k \in StoreKeys : Kick(k)
  \/ Tick
  \/ Quiet

Spec == Init /\ [][Next]_vars

(***************************************************************************)
(* Properties                                                              *)
(***************************************************************************)
Operations == {"add", "set", "get", "delete"}

CacheEntries == [len : Nat, flag : Nat, size : Nat, value : Values, expires : Nat]

Calls ==
  [op : Operations \cup {"flush", "none"}, multi : BOOLEAN, prefix : Seq(Nat),
   keys : Seq(Keys), value : UNION {[K -> Values] : K \in SUBSET Keys}, ttl : Nat,
   todo : Seq(Keys), out : Seq(PhpValues \cup {NONE}), taken : Nat,
   returns : {"none", "pending", "true", "false", "null", "values", "undefined",
              "died"}]

(* A method works through its keys from the left, with an answer for each  *)
(* key a get has done, and a pair taken for each key an add has.           *)
InOrder(c) ==
  /\ Len(c.todo) <= Len(c.keys)
  /\ \A i \in 1 .. Len(c.todo) : c.todo[i] = c.keys[Len(c.keys) - Len(c.todo) + i]
  /\ c.op = "get" => Len(c.out) + Len(c.todo) = Len(c.keys)
  /\ c.op \in {"add", "set"} => c.taken + Len(c.todo) = Len(c.keys)

(* The variables have their types, and the loops of the array methods keep *)
(* their place.                                                            *)
TypeOK ==
  /\ enable \in BOOLEAN
  /\ cache \in [StoreKeys -> CacheEntries \cup {NONE}]
  /\ now \in Nat /\ calls \in Nat
  /\ call \in [Procs -> Calls]
  /\ asked \subseteq [text : Seq(Nat), value : Values, ttl : Nat]
  /\ \A w \in Procs : InOrder(call[w])

(* The value a get has for a key was given to an add or set of that key,   *)
(* under the same prefix; a compressed constant has become a string.  This *)
(* holds whatever the key is put together to, and whatever other workers   *)
(* do between the keys of an array.                                        *)
GotWasAsked ==
  \A w \in Procs : \A i \in DOMAIN call[w].out :
    call[w].out[i] # NONE =>
      \E a \in asked :
        /\ a.text = Text(call[w].prefix, call[w].keys[i])
        /\ AsRead(a.value) = call[w].out[i]

(* What yac_add_impl packs yac_get_impl unpacks: every entry of the cache  *)
(* decodes to the value it was made of, and the lengths in its header are  *)
(* those of its key and of its bytes.                                      *)
EntriesDecode ==
  \A k \in StoreKeys : cache[k] # NONE =>
    /\ Decodings(cache[k]) = {AsRead(cache[k].value)}
    /\ KlenOf(cache[k].len) = Len(k)
    /\ VlenOf(cache[k].len) = cache[k].size

(* An entry is there for ever when, and only when, it was given to add or  *)
(* set without a time to live (and is not deleted).                        *)
EntriesAsAsked ==
  \A k \in StoreKeys : cache[k] # NONE =>
    \E a \in asked :
      /\ a.text = k
      /\ a.value = cache[k].value
      /\ cache[k].expires # 1 => (a.ttl = 0 <=> cache[k].expires = 0)

(* An add takes a key of a live entry for taken: no step of an add changes *)
(* a live entry, whatever other workers do meanwhile.                      *)
AddKeepsLive ==
  \A w \in Procs, k \in StoreKeys :
    Doing(w, {"add"}) /\ call'[w] # call[w] /\ Live(k) => cache'[k] = cache[k]

AddNeverOverwrites == [][AddKeepsLive]_vars

(* The answer of an add of several keys is right: true when the storage    *)
(* took every pair, false when there is one that it did not take.          *)
AddReportsAll ==
  \A w \in Procs : call[w].op = "add" =>
    /\ call[w].returns = "true" => call[w].taken = Len(call[w].keys)
    /\ call[w].returns = "false" /\ enable => call[w].taken < Len(call[w].keys)

=============================================================================
