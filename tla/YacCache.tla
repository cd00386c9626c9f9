------------------------------ MODULE YacCache ------------------------------
(***************************************************************************)
(* What yac promises its callers: a cache that may forget anything at any  *)
(* moment, but whose hits are honest.  A worker asks for a key and gets    *)
(* either a miss or something that was given for that very key before.     *)
(* Nothing is said of slots, blocks, checksums or probes.                  *)
(***************************************************************************)
CONSTANTS
  Workers,   (* Those who ask.                                             *)
  Keys,      (* What they ask for.                                         *)
  Views      (* What a hit shows of an entry.                              *)

VARIABLES
  given,     (* The pairs of a key and a view ever given to the cache.     *)
  lookup     (* lookup[w]: the state of worker w's lookup.                 *)

vars == <<given, lookup>>

Idle == [state |-> "idle"]
Asked(key) == [state |-> "asked", key |-> key]
Found(key, view) == [state |-> "found", key |-> key, view |-> view]
Missed == [state |-> "missed"]
Dead == [state |-> "dead"]

Init ==
  /\ given = {}
  /\ lookup = [w \in Workers |-> Idle]

Becomes(w, l) == lookup' = [lookup EXCEPT ![w] = l] /\ UNCHANGED given

(* An entry is given for a key. *)
Give(key, view) ==
  /\ given' = given \cup {[key |-> key, view |-> view]}
  /\ UNCHANGED lookup

Ask(w, key) == lookup[w] = Idle /\ Becomes(w, Asked(key))

(* Hit: the answer is something given for the key. *)
Hit(w, key, view) ==
  /\ lookup[w] = Asked(key)
  /\ [key |-> key, view |-> view] \in given
  /\ Becomes(w, Found(key, view))

Miss(w, key) == lookup[w] = Asked(key) /\ Becomes(w, Missed)

(* The worker goes back to its own business, or has been replaced. *)
Leave(w) == lookup[w] # Dead /\ Becomes(w, Idle)

(* The lookup ends its worker. *)
Die(w, key) == lookup[w] = Asked(key) /\ Becomes(w, Dead)

Next ==
  \/ \E key \in Keys, view \in Views : Give(key, view)
  \/ \E w \in Workers :
       \/ Leave(w)
       \/ \E key \in Keys :
            \/ Ask(w, key) \/ Miss(w, key) \/ Die(w, key)
            \/ \E view \in Views : Hit(w, key, view)

Spec == Init /\ [][Next]_vars

=============================================================================
