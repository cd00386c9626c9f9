------------------------------ MODULE YacModule ------------------------------
(***************************************************************************)
(* The life of the yac extension in a PHP server: its globals, its ini     *)
(* entries and their handlers, startup and shutdown of the storage in the  *)
(* master process and in the workers it forks, requests with their own     *)
(* settings, and the construction of Yac objects.                          *)
(*                                                                         *)
(* The engine that registers, alters and restores ini entries, and the     *)
(* server that forks, are external: zend_ini.h and zend_modules.h declare  *)
(* them.  A setting is a number, and a prefix too: 0 is the empty one.     *)
(***************************************************************************)
EXTENDS YacSizing

CONSTANTS
  Master,     (* The process that starts PHP, and                          *)
  Workers,    (* those it forks.                                           *)
  Configs,    (* The settings of php.ini.                                  *)
  Overrides,  (* What virtual hosts set: functions from some names.        *)
  UserValues, (* What scripts set: UserValues[name].                       *)
  Segments,   (* The sizes of a first segment.                             *)
  Prefixes,   (* The prefixes given to new Yac objects.                    *)
  MinCompressThreshold,  (* YAC_MIN_COMPRESS_THRESHOLD.                    *)
  NONE        (* No object.                                                *)

Names == {"enable", "debug", "keys_memory_size", "values_memory_size", "compress_threshold"}

(* What is done for every entry, in the order of the table. *)
Each(op(_, _), p) ==
  op(op(op(op(op(p, "enable"), "debug"), "keys_memory_size"), "values_memory_size"),
     "compress_threshold")

(* zend_module_entry: the functions a module can have the engine call, and *)
(* those of yac.  It has none for the beginning and the end of a request.  *)
Slots == {"globals_ctor", "startup", "request_startup", "request_shutdown",
          "post_deactivate", "info", "shutdown", "globals_dtor"}
Hooks == {"globals_ctor", "startup", "info", "shutdown"}

(* The allocator gives room for a slot at least.  A virtual host does not  *)
(* enable what php.ini has disabled.                                       *)
ASSUME ModuleAssumption ==
  /\ Master \notin Workers
  /\ Configs \subseteq [Names -> Int]
  /\ UserValues \in [Names -> SUBSET Int]
  /\ \A o \in Overrides : /\ DOMAIN o \subseteq Names
                          /\ \A n \in DOMAIN o : o[n] \in Int
                          /\ "enable" \in DOMAIN o => o["enable"] = 0
  /\ \A s \in Segments : s \in Nat /\ HeaderBytes + SlotBytes <= s /\ s < LongSpan
  /\ MinCompressThreshold \in Nat
  /\ NONE \notin [asked : Prefixes, prefix : Prefixes \cup {0}]
  /\ Hooks \subseteq Slots

VARIABLES
  proc,        (* proc[p]: the state of a process.                         *)
  storage,     (* External: the segment in use and its number of slots.    *)
  configured   (* History: the globals that startup made.                  *)

vars == <<proc, storage, configured>>

Procs == Workers \cup {Master}

(***************************************************************************)
(* Globals and ini entries                                                 *)
(***************************************************************************)

(* PHP_GINIT_FUNCTION; -1 is the largest unsigned long. *)
GInit == [enable |-> TRUE, debug |-> FALSE, k_msize |-> (4 * 1024 * 1024) % LongSpan,
          v_msize |-> (64 * 1024 * 1024) % LongSpan,
          compress_threshold |-> (-1) % LongSpan]

(* A mutation of the handlers: the threshold is taken as it is. *)
OnChangeUnclamped(g, name, v) ==
  CASE name = "enable"             -> [g EXCEPT !.enable = v # 0]
    [] name = "debug"              -> [g EXCEPT !.debug = v # 0]
    [] name = "keys_memory_size"   -> [g EXCEPT !.k_msize = v % LongSpan]
    [] name = "values_memory_size" -> [g EXCEPT !.v_msize = v % LongSpan]
    [] name = "compress_threshold" -> [g EXCEPT !.compress_threshold = v % LongSpan]

(* A mutation of the handlers: a threshold never goes up again. *)
OnChangeLowers(g, name, v) ==
  CASE name = "enable"             -> [g EXCEPT !.enable = v # 0]
    [] name = "debug"              -> [g EXCEPT !.debug = v # 0]
    [] name = "keys_memory_size"   -> [g EXCEPT !.k_msize = v % LongSpan]
    [] name = "values_memory_size" -> [g EXCEPT !.v_msize = v % LongSpan]
    [] name = "compress_threshold" ->
         [g EXCEPT !.compress_threshold =
            IF v % LongSpan < @ THEN v % LongSpan ELSE @]

(* OnUpdateBool, OnChangeKeysMemoryLimit, OnChangeValsMemoryLimit and      *)
(* OnChangeCompressThreshold, in unsigned longs.                           *)
OnChange(g, name, v) ==
  CASE name = "enable"             -> [g EXCEPT !.enable = v # 0]
    [] name = "debug"              -> [g EXCEPT !.debug = v # 0]
    [] name = "keys_memory_size"   -> [g EXCEPT !.k_msize = v % LongSpan]
    [] name = "values_memory_size" -> [g EXCEPT !.v_msize = v % LongSpan]
    [] name = "compress_threshold" ->
         [g EXCEPT !.compress_threshold =
            IF v % LongSpan < MinCompressThreshold
            THEN MinCompressThreshold ELSE v % LongSpan]

(* A mutation of the table: every entry is PHP_INI_ALL. *)
ModifiableByAll(name) == {"user", "system"}

(* PHP_INI_SYSTEM and PHP_INI_ALL. *)
Modifiable(name) == IF name = "debug" THEN {"user", "system"} ELSE {"system"}

(* REGISTER_INI_ENTRIES: every handler is called with its entry's value.   *)
Registered(cfg) ==
  LET set(g, name) == OnChange(g, name, cfg[name])
  IN  Each(set, GInit)

IniEntries(cfg) == [n \in Names |-> [value |-> cfg[n], orig_value |-> 0, modified |-> FALSE]]

(* The value an entry had before anything altered it. *)
Original(e) == IF e.modified THEN e.orig_value ELSE e.value

(* zend_alter_ini_entry. *)
Alter(p, name, v, type) ==
  IF type \notin Modifiable(name) THEN p
  ELSE LET e == [value |-> v, modified |-> TRUE, orig_value |-> Original(p.ini[name])]
       IN  [p EXCEPT !.g = OnChange(p.g, name, v), !.ini = [p.ini EXCEPT ![name] = e]]

(* zend_restore_ini_entry. *)
Restore(p, name) ==
  LET v == p.ini[name].orig_value
      e == [value |-> v, modified |-> FALSE, orig_value |-> 0]
  IN  IF ~ p.ini[name].modified THEN p
      ELSE [p EXCEPT !.g = OnChange(p.g, name, v), !.ini = [p.ini EXCEPT ![name] = e]]

(***************************************************************************)
(* Processes                                                               *)
(***************************************************************************)

(* What yac_storage_get_info tells of the storage, as far as startup fixes *)
(* it.                                                                     *)
StorageInfo(segment, slots) == [segment |-> segment, slots |-> slots]

(* A process: what it does, its globals and ini entries, how often it has  *)
(* attached the storage more than detached it, its script's Yac object,    *)
(* and what the script has been told of the storage.                       *)
Process(phase, g, ini, attached) ==
  [phase |-> phase, g |-> g, ini |-> ini, attached |-> attached, object |-> NONE,
   told |-> NONE]

Ended(phase, attached) == Process(phase, GInit, IniEntries([n \in Names |-> 0]), attached)

Alive(p) == proc[p].phase \in {"idle", "request"}

Init ==
  /\ proc = [p \in Procs |-> Ended("none", 0)]
  /\ storage = StorageInfo(0, 0)
  /\ configured = GInit

(* PHP_MINIT_FUNCTION.  The storage is started when it is enabled, in a    *)
(* segment of the allocator's choice; when that fails PHP does not start.  *)
MInit(cfg) ==
  LET g == Registered(cfg)
  IN  /\ ~ Alive(Master)
      /\ configured' = g
      /\ \/ /\ ~ g.enable
            /\ proc' = [proc EXCEPT ![Master] = Process("idle", g, IniEntries(cfg), 0)]
            /\ UNCHANGED storage
         \/ /\ g.enable
            /\ proc' = [proc EXCEPT ![Master] = Process("idle", g, IniEntries(cfg), 1)]
            /\ \E s \in Segments : storage' = StorageInfo(s, SlotsSize(s))
         \/ /\ g.enable
            /\ proc' = [proc EXCEPT ![Master] = Ended("failed", 0)]
            /\ UNCHANGED storage

(* A mutation of the shutdown: the storage is shut down in any case. *)
ShutDownAlways(p) == Ended("gone", p.attached - 1)

(* PHP_MSHUTDOWN_FUNCTION, and the end of the process. *)
ShutDown(p) ==
  Ended("gone", IF "shutdown" \in Hooks /\ p.g.enable THEN p.attached - 1 ELSE p.attached)

(* The master stops when its workers are gone. *)
Stop ==
  /\ Alive(Master)
  /\ \A w \in Workers : ~ Alive(w)
  /\ proc' = [proc EXCEPT ![Master] = ShutDown(@)]
  /\ UNCHANGED <<storage, configured>>

Fork(w) ==
  /\ Alive(Master)
  /\ ~ Alive(w)
  /\ proc' = [proc EXCEPT ![w] = proc[Master]]
  /\ UNCHANGED <<storage, configured>>

Becomes(w, p) == proc' = [proc EXCEPT ![w] = p] /\ UNCHANGED <<storage, configured>>

(* A worker exits between requests. *)
Exit(w) == proc[w].phase = "idle" /\ Becomes(w, ShutDown(proc[w]))

(* It is killed; the system takes its memory back. *)
Kill(w) == Alive(w) /\ Becomes(w, Ended("none", 0))

(* A request begins, with the settings of its virtual host. *)
Activate(w) ==
  /\ proc[w].phase = "idle"
  /\ \E o \in Overrides :
       LET set(p, name) == IF name \in DOMAIN o THEN Alter(p, name, o[name], "system") ELSE p
       IN  Becomes(w, [Each(set, proc[w]) EXCEPT !.phase = "request"])

(* It ends: every setting that was altered is restored. *)
Deactivate(w) ==
  /\ proc[w].phase = "request"
  /\ Becomes(w, [Each(Restore, proc[w]) EXCEPT !.phase = "idle", !.object = NONE,
                                                 !.told = NONE])

(* ini_set and ini_restore of a script. *)
IniSet(w) ==
  /\ proc[w].phase = "request"
  /\ \E name \in Names : \E v \in UserValues[name] :
       Becomes(w, Alter(proc[w], name, v, "user"))

IniRestore(w) ==
  /\ proc[w].phase = "request"
  /\ \E name \in Names :
       /\ "user" \in Modifiable(name)
       /\ Becomes(w, Restore(proc[w], name))

(* new Yac(prefix): __construct leaves the prefix empty when the extension *)
(* is disabled.                                                            *)
Construct(w) ==
  /\ proc[w].phase = "request"
  /\ \E prefix \in Prefixes :
       Becomes(w, [proc[w] EXCEPT !.object =
         [asked |-> prefix, prefix |-> IF proc[w].g.enable THEN prefix ELSE 0]])

(* What yac_storage_get_info copies is told, and freed again. *)
Told(p) == IF p.g.enable THEN [p EXCEPT !.told = storage] ELSE p

(* A script calls info(), or phpinfo() and with it PHP_MINFO_FUNCTION. *)
Info(w) == proc[w].phase = "request" /\ "info" \in Hooks /\ Becomes(w, Told(proc[w]))

Next ==
  \/ \E cfg \in Configs : MInit(cfg)
  \/ Stop
  \/ \E w \in Workers : \/ Fork(w) \/ Exit(w) \/ Kill(w)
                        \/ Activate(w) \/ Deactivate(w)
                        \/ IniSet(w) \/ IniRestore(w)
                        \/ Construct(w) \/ Info(w)

Spec == Init /\ [][Next]_vars

(***************************************************************************)
(* Correctness                                                             *)
(***************************************************************************)

(* A process in which the methods find the extension enabled has the       *)
(* storage attached, so that yac_sg never goes through a null pointer, and *)
(* what info told is true of the storage in use: the test of enable in     *)
(* every method (yac.c:473, 677, 810) stands for the one of line 771, made *)
(* when PHP started.                                                       *)
StorageReady ==
  \A p \in Procs :
    Alive(p) => /\ proc[p].g.enable => proc[p].attached = 1
                /\ proc[p].told # NONE => proc[p].attached = 1 /\ proc[p].told = storage

(* A process that ends in order has detached the storage if and only if it *)
(* was attached, once: the test of line 794 agrees with the one of line    *)
(* 771, whatever the settings were in between.                             *)
ShutdownPaired ==
  \A p \in Procs : /\ proc[p].attached \in {0, 1}
                   /\ proc[p].phase = "gone" => proc[p].attached = 0

(* Between requests the globals are those php.ini made, whatever virtual   *)
(* hosts and scripts set: the handlers of lines 62 to 84 undo themselves   *)
(* when they are called with the original value.                           *)
SettingsRestored ==
  \A p \in Procs : proc[p].phase = "idle" => proc[p].g = configured

(* A method that is let through works under the prefix its object was      *)
(* constructed with: the early return of line 451 loses a prefix only in a *)
(* request whose methods all return early.                                 *)
PrefixHonoured ==
  \A w \in Workers :
    proc[w].phase = "request" /\ proc[w].object # NONE /\ proc[w].g.enable =>
      proc[w].object.prefix = proc[w].object.asked

(* Nothing shorter than YAC_MIN_COMPRESS_THRESHOLD is ever compressed, and *)
(* -1 means never (lines 76 to 84, 760).                                   *)
ThresholdSane ==
  \A p \in Procs : Alive(p) => proc[p].g.compress_threshold >= MinCompressThreshold

(* The slots lie in the segment, so that the memset of yac_storage.c:58    *)
(* stays inside, and their number is a power of two, so that h &           *)
(* slots_mask can be any of them and nothing else.                         *)
SlotsFit ==
  storage.slots # 0 => Fit(storage.slots, storage.segment) /\ IsPowerOfTwo(storage.slots)

=============================================================================
