--------------------------- MODULE YacModuleProofs ---------------------------
(***************************************************************************)
(* Proofs about YacModule.  What makes the tests of enable at different    *)
(* times agree is that an ini entry always knows the value php.ini gave    *)
(* it: in its value while it is not modified, in orig_value while it is.   *)
(***************************************************************************)
EXTENDS YacModule, FiniteSetTheorems, WellFoundedInduction, TLAPS

(* The global that an entry sets, and what its handler makes of a value. *)
Field(g, name) ==
  CASE name = "enable"             -> g.enable
    [] name = "debug"              -> g.debug
    [] name = "keys_memory_size"   -> g.k_msize
    [] name = "values_memory_size" -> g.v_msize
    [] name = "compress_threshold" -> g.compress_threshold

Handled(name, v) ==
  CASE name = "enable"             -> v # 0
    [] name = "debug"              -> v # 0
    [] name = "keys_memory_size"   -> v % LongSpan
    [] name = "values_memory_size" -> v % LongSpan
    [] name = "compress_threshold" ->
         IF v % LongSpan < MinCompressThreshold THEN MinCompressThreshold ELSE v % LongSpan

(* The shapes of the globals, of the entries and of a process. *)
IsGlobals(g) ==
  g = [enable |-> g.enable, debug |-> g.debug, k_msize |-> g.k_msize,
       v_msize |-> g.v_msize, compress_threshold |-> g.compress_threshold]

Entries == [Names -> [value : Int, orig_value : Int, modified : BOOLEAN]]

IsProcess(p) ==
  /\ DOMAIN p = {"phase", "g", "ini", "attached", "object", "told"}
  /\ IsGlobals(p.g)
  /\ p.ini \in Entries

(* A process started under globals c: its globals are what the handlers    *)
(* made of its entries, c is what they made of the original values, and    *)
(* it is enabled only, and attached exactly, when c is enabled.            *)
Sound(p, c) ==
  /\ IsProcess(p)
  /\ \A n \in Names : Field(p.g, n) = Handled(n, p.ini[n].value)
  /\ \A n \in Names : Field(c, n) = Handled(n, Original(p.ini[n]))
  /\ p.g.enable => c.enable
  /\ p.attached = IF c.enable THEN 1 ELSE 0

Unmodified(p) == \A n \in Names : ~ p.ini[n].modified

(***************************************************************************)
(* The handlers and the entries                                            *)
(***************************************************************************)

LEMMA NamesAre ==
  ASSUME NEW n \in Names
  PROVE  n = "enable" \/ n = "debug" \/ n = "keys_memory_size" \/ n = "values_memory_size"
         \/ n = "compress_threshold"
BY DEF Names

(* A handler sets the global of its entry and no other. *)
LEMMA OnChangeSets ==
  ASSUME NEW g, IsGlobals(g), NEW name \in Names, NEW v
  PROVE  /\ IsGlobals(OnChange(g, name, v))
         /\ \A n \in Names : Field(OnChange(g, name, v), n)
                               = IF n = name THEN Handled(name, v) ELSE Field(g, n)
<1>1. CASE name = "enable"
  BY <1>1, NamesAre DEF OnChange, IsGlobals, Field, Handled
<1>2. CASE name = "debug"
  BY <1>2, NamesAre DEF OnChange, IsGlobals, Field, Handled
<1>3. CASE name = "keys_memory_size"
  BY <1>3, NamesAre DEF OnChange, IsGlobals, Field, Handled
<1>4. CASE name = "values_memory_size"
  BY <1>4, NamesAre DEF OnChange, IsGlobals, Field, Handled
<1>5. CASE name = "compress_threshold"
  BY <1>5, NamesAre DEF OnChange, IsGlobals, Field, Handled
<1> QED
  BY <1>1, <1>2, <1>3, <1>4, <1>5, NamesAre

(* Globals with the same fields are the same. *)
LEMMA FieldsDetermine ==
  ASSUME NEW g, NEW c, IsGlobals(g), IsGlobals(c),
         \A n \in Names : Field(g, n) = Field(c, n)
  PROVE  g = c
<1>1. g.enable = c.enable /\ g.debug = c.debug
  BY DEF Names, Field
<1>2. g.k_msize = c.k_msize /\ g.v_msize = c.v_msize
  BY DEF Names, Field
<1>3. g.compress_threshold = c.compress_threshold
  BY DEF Names, Field
<1> QED
  BY <1>1, <1>2, <1>3 DEF IsGlobals

LEMMA EnableIsField == \A g : Field(g, "enable") = g.enable
BY DEF Field

(* Altering an entry of a sound process, but never enabling it, leaves it  *)
(* sound.                                                                  *)
LEMMA AlterSound ==
  ASSUME NEW p, NEW c, Sound(p, c), NEW name \in Names, NEW v \in Int, NEW type,
         name = "enable" /\ type \in Modifiable(name) => v = 0
  PROVE  /\ Sound(Alter(p, name, v, type), c)
         /\ Alter(p, name, v, type).phase = p.phase
         /\ Alter(p, name, v, type).object = p.object
         /\ Alter(p, name, v, type).told = p.told
         /\ name # "enable" => Alter(p, name, v, type).g.enable = p.g.enable
<1>1. CASE type \notin Modifiable(name)
  BY <1>1 DEF Alter
<1>2. CASE type \in Modifiable(name)
  <2> DEFINE e == [value |-> v, modified |-> TRUE, orig_value |-> Original(p.ini[name])]
             q == [p EXCEPT !.g = OnChange(p.g, name, v), !.ini = [p.ini EXCEPT ![name] = e]]
  <2>1. Alter(p, name, v, type) = q
    BY <1>2 DEF Alter
  <2>2. /\ DOMAIN q = {"phase", "g", "ini", "attached", "object", "told"}
        /\ q.g = OnChange(p.g, name, v) /\ q.ini = [p.ini EXCEPT ![name] = e]
        /\ q.phase = p.phase /\ q.attached = p.attached
        /\ q.object = p.object /\ q.told = p.told
    BY DEF Sound, IsProcess
  <2>3. q.ini \in Entries
    BY <2>2 DEF Sound, IsProcess, Entries, Original
  <2>4. \A n \in Names : q.ini[n] = IF n = name THEN e ELSE p.ini[n]
    BY <2>2 DEF Sound, IsProcess, Entries
  <2>5. IsGlobals(q.g) /\ \A n \in Names : Field(q.g, n) = Handled(n, q.ini[n].value)
    BY <2>2, <2>4, OnChangeSets DEF Sound, IsProcess
  <2>6. \A n \in Names : Field(c, n) = Handled(n, Original(q.ini[n]))
    <3>1. Original(e) = Original(p.ini[name])
      BY DEF Original
    <3> QED
      BY <2>4, <3>1 DEF Sound
  <2>7. (q.g.enable => c.enable) /\ (name # "enable" => q.g.enable = p.g.enable)
    <3>1. "enable" \in Names
      BY DEF Names
    <3>2. CASE name = "enable"
      <4>1. q.g.enable = Handled("enable", 0)
        BY <1>2, <2>2, <3>1, <3>2, OnChangeSets, EnableIsField DEF Sound, IsProcess
      <4> QED
        BY <3>2, <4>1 DEF Handled
    <3>3. CASE name # "enable"
      <4>1. q.g.enable = p.g.enable
        BY <2>2, <3>1, <3>3, OnChangeSets, EnableIsField DEF Sound, IsProcess
      <4> QED
        BY <4>1 DEF Sound
    <3> QED
      BY <3>2, <3>3
  <2>8. Sound(q, c)
    BY <2>2, <2>3, <2>5, <2>6, <2>7 DEF Sound, IsProcess
  <2> QED
    BY <2>1, <2>2, <2>7, <2>8
<1> QED
  BY <1>1, <1>2

(* Restoring an entry of a sound process leaves it sound, and that entry   *)
(* and those unmodified before unmodified.                                 *)
LEMMA RestoreSound ==
  ASSUME NEW p, NEW c, Sound(p, c), NEW name \in Names
  PROVE  /\ Sound(Restore(p, name), c)
         /\ Restore(p, name).phase = p.phase
         /\ Restore(p, name).object = p.object
         /\ Restore(p, name).told = p.told
         /\ name # "enable" => Restore(p, name).g.enable = p.g.enable
         /\ \A n \in Names : n = name \/ ~ p.ini[n].modified
                               => ~ Restore(p, name).ini[n].modified
<1>1. CASE ~ p.ini[name].modified
  BY <1>1 DEF Restore
<1>2. CASE p.ini[name].modified
  <2> DEFINE v == p.ini[name].orig_value
             e == [value |-> v, modified |-> FALSE, orig_value |-> 0]
             q == [p EXCEPT !.g = OnChange(p.g, name, v), !.ini = [p.ini EXCEPT ![name] = e]]
  <2>1. Restore(p, name) = q
    BY <1>2 DEF Restore
  <2>2. /\ DOMAIN q = {"phase", "g", "ini", "attached", "object", "told"}
        /\ q.g = OnChange(p.g, name, v) /\ q.ini = [p.ini EXCEPT ![name] = e]
        /\ q.phase = p.phase /\ q.attached = p.attached
        /\ q.object = p.object /\ q.told = p.told
    BY DEF Sound, IsProcess
  <2>3. q.ini \in Entries
    BY <2>2 DEF Sound, IsProcess, Entries
  <2>4. \A n \in Names : q.ini[n] = IF n = name THEN e ELSE p.ini[n]
    BY <2>2 DEF Sound, IsProcess, Entries
  <2>5. IsGlobals(q.g) /\ \A n \in Names : Field(q.g, n) = Handled(n, q.ini[n].value)
    BY <2>2, <2>4, OnChangeSets DEF Sound, IsProcess
  <2>6. \A n \in Names : Field(c, n) = Handled(n, Original(q.ini[n]))
    <3>1. Original(e) = Original(p.ini[name])
      BY <1>2 DEF Original
    <3> QED
      BY <2>4, <3>1 DEF Sound
  <2>7. (q.g.enable => c.enable) /\ (name # "enable" => q.g.enable = p.g.enable)
    <3>1. "enable" \in Names
      BY DEF Names
    <3>2. CASE name = "enable"
      <4>1. q.g.enable = Handled("enable", Original(q.ini["enable"]))
        BY <2>4, <2>5, <3>1, <3>2, EnableIsField DEF Original
      <4> QED
        BY <2>6, <3>1, <3>2, <4>1, EnableIsField
    <3>3. CASE name # "enable"
      <4>1. q.g.enable = p.g.enable
        BY <2>2, <3>1, <3>3, OnChangeSets, EnableIsField DEF Sound, IsProcess
      <4> QED
        BY <4>1 DEF Sound
    <3> QED
      BY <3>2, <3>3
  <2>8. Sound(q, c)
    BY <2>2, <2>3, <2>5, <2>6, <2>7 DEF Sound, IsProcess
  <2> QED
    BY <2>1, <2>2, <2>4, <2>7, <2>8
<1> QED
  BY <1>1, <1>2

(* Every process starts sound. *)
LEMMA RegisteredFields ==
  ASSUME NEW cfg
  PROVE  /\ IsGlobals(Registered(cfg))
         /\ \A n \in Names : Field(Registered(cfg), n) = Handled(n, cfg[n])
<1> DEFINE g1 == OnChange(GInit, "enable", cfg["enable"])
           g2 == OnChange(g1, "debug", cfg["debug"])
           g3 == OnChange(g2, "keys_memory_size", cfg["keys_memory_size"])
           g4 == OnChange(g3, "values_memory_size", cfg["values_memory_size"])
           g5 == OnChange(g4, "compress_threshold", cfg["compress_threshold"])
<1>1. Registered(cfg) = g5
  BY DEF Registered, Each
<1>2. IsGlobals(GInit)
  BY DEF GInit, IsGlobals
<1>3. /\ "enable" \in Names /\ "debug" \in Names /\ "keys_memory_size" \in Names
      /\ "values_memory_size" \in Names /\ "compress_threshold" \in Names
  BY DEF Names
<1> HIDE DEF g1, g2, g3, g4, g5
<1>4. IsGlobals(g1) /\ Field(g1, "enable") = Handled("enable", cfg["enable"])
  BY <1>2, <1>3, OnChangeSets DEF g1
<1>5. IsGlobals(g2) /\ \A n \in {"enable", "debug"} : Field(g2, n) = Handled(n, cfg[n])
  BY <1>3, <1>4, OnChangeSets DEF g2
<1>6. /\ IsGlobals(g3)
      /\ \A n \in {"enable", "debug", "keys_memory_size"} :
            Field(g3, n) = Handled(n, cfg[n])
  BY <1>3, <1>5, OnChangeSets DEF g3
<1>7. /\ IsGlobals(g4)
      /\ \A n \in {"enable", "debug", "keys_memory_size", "values_memory_size"} :
            Field(g4, n) = Handled(n, cfg[n])
  BY <1>3, <1>6, OnChangeSets DEF g4
<1>8. IsGlobals(g5) /\ \A n \in Names : Field(g5, n) = Handled(n, cfg[n])
  BY <1>3, <1>7, OnChangeSets, NamesAre DEF g5
<1> QED
  BY <1>1, <1>8

LEMMA ProcessSound ==
  ASSUME NEW cfg \in Configs, NEW phase, NEW k,
         k = IF Registered(cfg).enable THEN 1 ELSE 0
  PROVE  LET p == Process(phase, Registered(cfg), IniEntries(cfg), k)
         IN  /\ Sound(p, Registered(cfg)) /\ Unmodified(p)
             /\ p.phase = phase /\ p.object = NONE /\ p.told = NONE
<1> DEFINE p == Process(phase, Registered(cfg), IniEntries(cfg), k)
<1>1. /\ DOMAIN p = {"phase", "g", "ini", "attached", "object", "told"}
      /\ p.g = Registered(cfg) /\ p.ini = IniEntries(cfg) /\ p.attached = k
      /\ p.phase = phase /\ p.object = NONE /\ p.told = NONE
  BY DEF Process
<1> HIDE DEF p
<1>2. p.ini \in Entries /\ \A n \in Names : p.ini[n].value = cfg[n] /\ ~ p.ini[n].modified
  <2>1. \A n \in Names : cfg[n] \in Int
    BY ModuleAssumption
  <2>2. IniEntries(cfg) \in Entries
    BY <2>1 DEF IniEntries, Entries
  <2>3. \A n \in Names : IniEntries(cfg)[n].value = cfg[n] /\ ~ IniEntries(cfg)[n].modified
    BY DEF IniEntries
  <2> QED
    BY <1>1, <2>2, <2>3
<1>3. \A n \in Names : Original(p.ini[n]) = cfg[n]
  BY <1>2 DEF Original
<1>4. Sound(p, Registered(cfg))
  BY <1>1, <1>2, <1>3, RegisteredFields DEF Sound, IsProcess
<1> QED
  BY <1>1, <1>2, <1>4 DEF Unmodified, p

(***************************************************************************)
(* The inductive invariant                                                 *)
(***************************************************************************)

(* A process that is alive, under the globals c that startup made and the  *)
(* storage s.                                                              *)
Running(p, c, s) ==
  /\ Sound(p, c)
  /\ p.told # NONE => p.attached = 1 /\ p.told = s
  /\ p.phase = "idle" => Unmodified(p) /\ p.object = NONE
  /\ p.object # NONE /\ p.g.enable => p.object.prefix = p.object.asked

Lives(p) == p.phase \in {"idle", "request"}

InvOf(P, c, s) ==
  /\ DOMAIN P = Procs
  /\ IsGlobals(c)
  /\ P[Master].phase # "request"
  /\ \A w \in Workers : Lives(P[w]) => Lives(P[Master])
  /\ \A p \in Procs : IF Lives(P[p]) THEN Running(P[p], c, s) ELSE P[p].attached = 0

Inv == InvOf(proc, configured, storage)

(* What a process of the invariant promises. *)
LEMMA SoundThreshold ==
  ASSUME NEW p, NEW c, Sound(p, c)
  PROVE  p.g.compress_threshold >= MinCompressThreshold
<1> DEFINE v == p.ini["compress_threshold"].value % LongSpan
<1>1. p.g.compress_threshold = Field(p.g, "compress_threshold")
  BY DEF Field
<1>2. p.g.compress_threshold = IF v < MinCompressThreshold THEN MinCompressThreshold ELSE v
  <2>1. "compress_threshold" \in Names
    BY DEF Names
  <2> QED
    BY <1>1, <2>1 DEF Sound, Handled
<1>3. v \in Int
  BY SizingAssumption DEF Sound, IsProcess, Entries, Names
<1> QED
  BY <1>2, <1>3, ModuleAssumption

LEMMA SoundUnmodified ==
  ASSUME NEW p, NEW c, Sound(p, c), IsGlobals(c), Unmodified(p)
  PROVE  p.g = c
BY FieldsDetermine DEF Sound, IsProcess, Unmodified, Original

LEMMA InvImplies ==
  Inv => StorageReady /\ ShutdownPaired /\ SettingsRestored /\ PrefixHonoured /\ ThresholdSane
<1> SUFFICES ASSUME Inv
             PROVE  /\ StorageReady /\ ShutdownPaired /\ SettingsRestored
                    /\ PrefixHonoured /\ ThresholdSane
  OBVIOUS
<1>1. StorageReady
  BY DEF StorageReady, Inv, InvOf, Lives, Alive, Running, Sound
<1>2. ShutdownPaired
  BY DEF ShutdownPaired, Inv, InvOf, Lives, Running, Sound
<1>3. SettingsRestored
  BY SoundUnmodified DEF SettingsRestored, Inv, InvOf, Lives, Running
<1>4. PrefixHonoured
  BY DEF PrefixHonoured, Inv, InvOf, Lives, Running, Procs
<1>5. ThresholdSane
  BY SoundThreshold DEF ThresholdSane, Inv, InvOf, Lives, Alive, Running
<1> QED
  BY <1>1, <1>2, <1>3, <1>4, <1>5

(***************************************************************************)
(* Its steps                                                               *)
(***************************************************************************)

(* A worker under a living master becomes p. *)
LEMMA WorkerStep ==
  ASSUME Inv, NEW w \in Workers, NEW p, Becomes(w, p), Lives(proc[Master]),
         IF Lives(p) THEN Running(p, configured, storage) ELSE p.attached = 0
  PROVE  Inv'
<1>1. w \in Procs /\ w # Master
  BY ModuleAssumption DEF Procs
<1>2. /\ DOMAIN proc' = Procs /\ proc'[w] = p
      /\ \A q \in Procs : q # w => proc'[q] = proc[q]
      /\ configured' = configured /\ storage' = storage
  BY <1>1 DEF Becomes, Inv, InvOf
<1>3. proc'[Master] = proc[Master]
  BY <1>1, <1>2 DEF Procs
<1>4. \A q \in Procs : IF Lives(proc'[q]) THEN Running(proc'[q], configured, storage)
                        ELSE proc'[q].attached = 0
  BY <1>2 DEF Inv, InvOf
<1>5. InvOf(proc', configured, storage)
  BY <1>2, <1>3, <1>4 DEF Inv, InvOf
<1> QED
  BY <1>2, <1>5 DEF Inv

(* A process that ends between requests detaches what it had attached. *)
LEMMA ShutDownDetaches ==
  ASSUME NEW p, NEW c, NEW s, Running(p, c, s), IsGlobals(c), p.phase = "idle"
  PROVE  ~ Lives(ShutDown(p)) /\ ShutDown(p).attached = 0
<1>1. p.g = c
  BY SoundUnmodified DEF Running
<1> QED
  BY <1>1 DEF ShutDown, Ended, Process, Hooks, Lives, Running, Sound

LEMMA EndedIsOver ==
  ASSUME NEW phase, phase \notin {"idle", "request"}, NEW k
  PROVE  ~ Lives(Ended(phase, k)) /\ Ended(phase, k).attached = k
BY DEF Ended, Process, Lives

LEMMA InitInv == Init => Inv
<1> SUFFICES ASSUME Init PROVE Inv
  OBVIOUS
<1>1. \A p \in Procs : ~ Lives(proc[p]) /\ proc[p].attached = 0 /\ proc[p].phase = "none"
  BY DEF Init, Ended, Process, Lives
<1>2. DOMAIN proc = Procs /\ IsGlobals(configured)
  BY DEF Init, GInit, IsGlobals
<1> QED
  BY <1>1, <1>2 DEF Inv, InvOf, Procs

LEMMA MInitInv ==
  ASSUME Inv, NEW cfg \in Configs, MInit(cfg) PROVE Inv'
<1> DEFINE g == Registered(cfg)
           run(k) == Process("idle", g, IniEntries(cfg), k)
<1>1. /\ ~ Lives(proc[Master]) /\ configured' = g /\ DOMAIN proc' = Procs
      /\ \A q \in Procs : q # Master => proc'[q] = proc[q]
  BY DEF MInit, Inv, InvOf, Alive, Lives
<1>2. Master \in Procs /\ Master \notin Workers
  BY ModuleAssumption DEF Procs
<1>3. \A w \in Workers : ~ Lives(proc'[w]) /\ proc'[w].attached = 0
  BY <1>1, <1>2 DEF Inv, InvOf, Procs
<1>4. \/ proc'[Master] = run(IF g.enable THEN 1 ELSE 0)
      \/ proc'[Master] = Ended("failed", 0)
  BY <1>2 DEF MInit, Inv, InvOf
<1>5. IsGlobals(g)
  BY RegisteredFields
<1>6. ASSUME proc'[Master] = run(IF g.enable THEN 1 ELSE 0) PROVE Inv'
  <2> DEFINE p == run(IF g.enable THEN 1 ELSE 0)
  <2>1. /\ Sound(p, g) /\ Unmodified(p)
        /\ p.phase = "idle" /\ p.object = NONE /\ p.told = NONE
    BY ProcessSound
  <2> HIDE DEF p
  <2>2. Lives(p) /\ Running(p, g, storage')
    BY <2>1 DEF Lives, Running
  <2>3. proc'[Master] = p
    BY <1>6 DEF p
  <2>4. InvOf(proc', g, storage')
    BY <1>1, <1>3, <1>5, <2>1, <2>2, <2>3 DEF InvOf, Procs
  <2> QED
    BY <1>1, <2>4 DEF Inv
<1>7. ASSUME proc'[Master] = Ended("failed", 0) PROVE Inv'
  <2>1. ~ Lives(proc'[Master]) /\ proc'[Master].attached = 0
    BY <1>7, EndedIsOver
  <2>2. proc'[Master].phase # "request"
    BY <2>1 DEF Lives
  <2>3. InvOf(proc', g, storage')
    BY <1>1, <1>3, <1>5, <2>1, <2>2 DEF InvOf, Procs
  <2> QED
    BY <1>1, <2>3 DEF Inv
<1> QED
  BY <1>4, <1>6, <1>7

LEMMA StopInv == ASSUME Inv, Stop PROVE Inv'
<1>1. /\ proc[Master].phase = "idle" /\ Running(proc[Master], configured, storage)
      /\ \A w \in Workers : ~ Lives(proc[w])
  BY DEF Stop, Inv, InvOf, Alive, Lives, Procs
<1>2. Master \in Procs /\ Master \notin Workers
  BY ModuleAssumption DEF Procs
<1>3. /\ DOMAIN proc' = Procs /\ proc'[Master] = ShutDown(proc[Master])
      /\ \A q \in Procs : q # Master => proc'[q] = proc[q]
      /\ configured' = configured /\ storage' = storage
  BY <1>2 DEF Stop, Inv, InvOf
<1>4. ~ Lives(proc'[Master]) /\ proc'[Master].attached = 0
  BY <1>1, <1>3, ShutDownDetaches DEF Inv, InvOf
<1>5. proc'[Master].phase # "request"
  BY <1>4 DEF Lives
<1>6. \A w \in Workers : ~ Lives(proc'[w]) /\ proc'[w].attached = 0
  BY <1>1, <1>2, <1>3 DEF Inv, InvOf, Procs
<1>7. InvOf(proc', configured, storage)
  BY <1>3, <1>4, <1>5, <1>6 DEF Inv, InvOf, Procs
<1> QED
  BY <1>3, <1>7 DEF Inv

(* A virtual host's settings for a request, one entry after another. *)
Overridden(p, name, o) == IF name \in DOMAIN o THEN Alter(p, name, o[name], "system") ELSE p

LEMMA OverriddenSound ==
  ASSUME NEW p, NEW c, Sound(p, c), NEW o \in Overrides, NEW name \in Names
  PROVE  /\ Sound(Overridden(p, name, o), c)
         /\ Overridden(p, name, o).object = p.object
         /\ Overridden(p, name, o).told = p.told
<1>1. name \in DOMAIN o => o[name] \in Int /\ (name = "enable" => o[name] = 0)
  BY ModuleAssumption
<1> QED
  BY <1>1, AlterSound DEF Overridden

LEMMA ActivateInv ==
  ASSUME Inv, NEW w \in Workers, Activate(w) PROVE Inv'
<1>1. PICK o \in Overrides :
        Becomes(w, [Each(LAMBDA p, name : Overridden(p, name, o), proc[w])
                      EXCEPT !.phase = "request"])
  BY DEF Activate, Overridden, Each
<1> DEFINE p1 == Overridden(proc[w], "enable", o)
           p2 == Overridden(p1, "debug", o)
           p3 == Overridden(p2, "keys_memory_size", o)
           p4 == Overridden(p3, "values_memory_size", o)
           p5 == Overridden(p4, "compress_threshold", o)
           r  == [p5 EXCEPT !.phase = "request"]
<1>2. Becomes(w, r)
  BY <1>1 DEF Each
<1>3. /\ "enable" \in Names /\ "debug" \in Names /\ "keys_memory_size" \in Names
      /\ "values_memory_size" \in Names /\ "compress_threshold" \in Names
  BY DEF Names
<1>4. /\ Running(proc[w], configured, storage) /\ proc[w].phase = "idle"
      /\ Lives(proc[Master])
  BY DEF Activate, Inv, InvOf, Lives, Procs
<1> HIDE DEF p1, p2, p3, p4, p5
<1>5. Sound(p1, configured) /\ p1.object = proc[w].object /\ p1.told = proc[w].told
  BY <1>3, <1>4, OverriddenSound DEF p1, Running
<1>6. Sound(p2, configured) /\ p2.object = proc[w].object /\ p2.told = proc[w].told
  BY <1>3, <1>5, OverriddenSound DEF p2
<1>7. Sound(p3, configured) /\ p3.object = proc[w].object /\ p3.told = proc[w].told
  BY <1>3, <1>6, OverriddenSound DEF p3
<1>8. Sound(p4, configured) /\ p4.object = proc[w].object /\ p4.told = proc[w].told
  BY <1>3, <1>7, OverriddenSound DEF p4
<1>9. Sound(p5, configured) /\ p5.object = proc[w].object /\ p5.told = proc[w].told
  BY <1>3, <1>8, OverriddenSound DEF p5
<1>10. /\ DOMAIN r = DOMAIN p5 /\ r.phase = "request" /\ r.g = p5.g /\ r.ini = p5.ini
       /\ r.attached = p5.attached /\ r.object = p5.object /\ r.told = p5.told
  BY <1>9 DEF Sound, IsProcess
<1> HIDE DEF r
<1>11. Sound(r, configured) /\ r.attached = proc[w].attached
  BY <1>4, <1>9, <1>10 DEF Sound, IsProcess, Running
<1>12. Running(r, configured, storage) /\ Lives(r)
  BY <1>4, <1>9, <1>10, <1>11 DEF Running, Lives
<1> QED
  BY <1>2, <1>4, <1>12, WorkerStep

LEMMA DeactivateInv ==
  ASSUME Inv, NEW w \in Workers, Deactivate(w) PROVE Inv'
<1> DEFINE p1 == Restore(proc[w], "enable")
           p2 == Restore(p1, "debug")
           p3 == Restore(p2, "keys_memory_size")
           p4 == Restore(p3, "values_memory_size")
           p5 == Restore(p4, "compress_threshold")
           r  == [p5 EXCEPT !.phase = "idle", !.object = NONE, !.told = NONE]
<1>1. Becomes(w, r)
  BY DEF Deactivate, Each
<1>2. /\ "enable" \in Names /\ "debug" \in Names /\ "keys_memory_size" \in Names
      /\ "values_memory_size" \in Names /\ "compress_threshold" \in Names
  BY DEF Names
<1>3. Sound(proc[w], configured) /\ Lives(proc[Master])
  BY DEF Deactivate, Inv, InvOf, Lives, Procs, Running
<1> HIDE DEF p1, p2, p3, p4, p5
<1>4. Sound(p1, configured) /\ ~ p1.ini["enable"].modified
  BY <1>2, <1>3, RestoreSound DEF p1
<1>5. Sound(p2, configured) /\ \A n \in {"enable", "debug"} : ~ p2.ini[n].modified
  BY <1>2, <1>4, RestoreSound DEF p2
<1>6. /\ Sound(p3, configured)
      /\ \A n \in {"enable", "debug", "keys_memory_size"} : ~ p3.ini[n].modified
  BY <1>2, <1>5, RestoreSound DEF p3
<1>7. /\ Sound(p4, configured)
      /\ \A n \in {"enable", "debug", "keys_memory_size", "values_memory_size"} :
           ~ p4.ini[n].modified
  BY <1>2, <1>6, RestoreSound DEF p4
<1>8. Sound(p5, configured) /\ Unmodified(p5)
  BY <1>2, <1>7, RestoreSound, NamesAre DEF p5, Unmodified
<1>9. /\ DOMAIN r = DOMAIN p5 /\ r.phase = "idle" /\ r.g = p5.g /\ r.ini = p5.ini
      /\ r.attached = p5.attached /\ r.object = NONE /\ r.told = NONE
  BY <1>8 DEF Sound, IsProcess
<1> HIDE DEF r
<1>10. Sound(r, configured) /\ Unmodified(r)
  BY <1>8, <1>9 DEF Sound, IsProcess, Unmodified
<1>11. Running(r, configured, storage) /\ Lives(r)
  BY <1>9, <1>10 DEF Running, Lives
<1> QED
  BY <1>1, <1>3, <1>11, WorkerStep

(* A script changes no setting but debug, and so never enable. *)
LEMMA UserEntry ==
  ASSUME NEW name \in Names, "user" \in Modifiable(name) PROVE name # "enable"
BY DEF Modifiable

LEMMA IniSetInv ==
  ASSUME Inv, NEW w \in Workers, IniSet(w) PROVE Inv'
<1>1. PICK name \in Names, v \in Int : Becomes(w, Alter(proc[w], name, v, "user"))
  BY ModuleAssumption DEF IniSet
<1> DEFINE r == Alter(proc[w], name, v, "user")
<1>2. /\ Running(proc[w], configured, storage) /\ proc[w].phase = "request"
      /\ Lives(proc[Master])
  BY DEF IniSet, Inv, InvOf, Lives, Procs
<1>3. /\ Sound(r, configured) /\ r.phase = "request"
      /\ r.object = proc[w].object /\ r.told = proc[w].told
  BY <1>2, UserEntry, AlterSound DEF Running
<1>4. r.g.enable = proc[w].g.enable
  <2>1. CASE "user" \in Modifiable(name)
    BY <1>2, <2>1, UserEntry, AlterSound DEF Running
  <2>2. CASE "user" \notin Modifiable(name)
    BY <2>2 DEF Alter
  <2> QED
    BY <2>1, <2>2
<1>5. r.attached = proc[w].attached
  BY <1>2, <1>3 DEF Running, Sound
<1> HIDE DEF r
<1>6. Running(r, configured, storage) /\ Lives(r)
  BY <1>2, <1>3, <1>4, <1>5 DEF Running, Lives
<1> QED
  BY <1>1, <1>2, <1>6, WorkerStep DEF r

LEMMA IniRestoreInv ==
  ASSUME Inv, NEW w \in Workers, IniRestore(w) PROVE Inv'
<1>1. PICK name \in Names : "user" \in Modifiable(name) /\ Becomes(w, Restore(proc[w], name))
  BY DEF IniRestore
<1> DEFINE r == Restore(proc[w], name)
<1>2. /\ Running(proc[w], configured, storage) /\ proc[w].phase = "request"
      /\ Lives(proc[Master])
  BY DEF IniRestore, Inv, InvOf, Lives, Procs
<1>3. /\ Sound(r, configured) /\ r.phase = "request" /\ r.g.enable = proc[w].g.enable
      /\ r.object = proc[w].object /\ r.told = proc[w].told
  BY <1>1, <1>2, UserEntry, RestoreSound DEF Running
<1>4. r.attached = proc[w].attached
  BY <1>2, <1>3 DEF Running, Sound
<1> HIDE DEF r
<1>5. Running(r, configured, storage) /\ Lives(r)
  BY <1>2, <1>3, <1>4 DEF Running, Lives
<1> QED
  BY <1>1, <1>2, <1>5, WorkerStep DEF r

LEMMA ConstructInv ==
  ASSUME Inv, NEW w \in Workers, Construct(w) PROVE Inv'
<1>1. PICK prefix \in Prefixes :
        Becomes(w, [proc[w] EXCEPT !.object =
          [asked |-> prefix, prefix |-> IF proc[w].g.enable THEN prefix ELSE 0]])
  BY DEF Construct
<1> DEFINE object == [asked |-> prefix, prefix |-> IF proc[w].g.enable THEN prefix ELSE 0]
           r == [proc[w] EXCEPT !.object = object]
<1>2. /\ Running(proc[w], configured, storage) /\ proc[w].phase = "request"
      /\ Lives(proc[Master])
  BY DEF Construct, Inv, InvOf, Lives, Procs
<1>3. object.prefix = object.asked \/ ~ proc[w].g.enable
  OBVIOUS
<1> HIDE DEF object
<1>4. /\ DOMAIN r = DOMAIN proc[w] /\ r.phase = "request" /\ r.g = proc[w].g
      /\ r.ini = proc[w].ini /\ r.attached = proc[w].attached
      /\ r.object = object /\ r.told = proc[w].told
  BY <1>2 DEF Running, Sound, IsProcess
<1>5. Becomes(w, r)
  BY <1>1 DEF object
<1> HIDE DEF r
<1>6. Running(r, configured, storage) /\ Lives(r)
  BY <1>2, <1>3, <1>4 DEF Running, Lives, Sound, IsProcess
<1> QED
  BY <1>2, <1>5, <1>6, WorkerStep

LEMMA InfoInv ==
  ASSUME Inv, NEW w \in Workers, Info(w) PROVE Inv'
<1> DEFINE r == Told(proc[w])
<1>1. /\ Running(proc[w], configured, storage) /\ proc[w].phase = "request"
      /\ Lives(proc[Master])
  BY DEF Info, Inv, InvOf, Lives, Procs
<1>2. CASE ~ proc[w].g.enable
  <2>1. r = proc[w]
    BY <1>2 DEF Told
  <2> QED
    BY <1>1, <2>1, WorkerStep DEF Info, Lives
<1>3. CASE proc[w].g.enable
  <2>1. r = [proc[w] EXCEPT !.told = storage]
    BY <1>3 DEF Told
  <2>2. /\ DOMAIN r = DOMAIN proc[w] /\ r.phase = "request" /\ r.g = proc[w].g
        /\ r.ini = proc[w].ini /\ r.attached = proc[w].attached
        /\ r.object = proc[w].object /\ r.told = storage
    BY <1>1, <2>1 DEF Running, Sound, IsProcess
  <2>3. Becomes(w, r)
    BY DEF Info
  <2>4. r.attached = 1
    BY <1>1, <1>3, <2>2 DEF Running, Sound
  <2> HIDE DEF r
  <2>5. Running(r, configured, storage) /\ Lives(r)
    BY <1>1, <2>2, <2>4 DEF Running, Lives, Sound, IsProcess
  <2> QED
    BY <1>1, <2>3, <2>5, WorkerStep
<1> QED
  BY <1>2, <1>3

(* A worker starts as a copy of the idle master, and ends. *)
LEMMA WorkerInv ==
  ASSUME Inv, NEW w \in Workers, Fork(w) \/ Exit(w) \/ Kill(w) PROVE Inv'
<1>1. CASE Fork(w)
  <2>1. Becomes(w, proc[Master])
    BY <1>1 DEF Fork, Becomes
  <2>2. Lives(proc[Master]) /\ Running(proc[Master], configured, storage)
    BY <1>1 DEF Fork, Alive, Lives, Inv, InvOf, Procs
  <2> QED
    BY <2>1, <2>2, WorkerStep
<1>2. CASE Exit(w)
  <2>1. Becomes(w, ShutDown(proc[w])) /\ proc[w].phase = "idle"
    BY <1>2 DEF Exit
  <2>2. Running(proc[w], configured, storage) /\ Lives(proc[Master]) /\ IsGlobals(configured)
    BY <2>1 DEF Lives, Inv, InvOf, Procs
  <2>3. ~ Lives(ShutDown(proc[w])) /\ ShutDown(proc[w]).attached = 0
    BY <2>1, <2>2, ShutDownDetaches
  <2> QED
    BY <2>1, <2>2, <2>3, WorkerStep
<1>3. CASE Kill(w)
  <2>1. Becomes(w, Ended("none", 0)) /\ Lives(proc[Master])
    BY <1>3 DEF Kill, Alive, Lives, Inv, InvOf
  <2>2. ~ Lives(Ended("none", 0)) /\ Ended("none", 0).attached = 0
    BY EndedIsOver
  <2> QED
    BY <2>1, <2>2, WorkerStep
<1> QED
  BY <1>1, <1>2, <1>3

LEMMA NextInv == Inv /\ [Next]_vars => Inv'
<1> SUFFICES ASSUME Inv, [Next]_vars PROVE Inv'
  OBVIOUS
<1>1. ASSUME NEW cfg \in Configs, MInit(cfg) PROVE Inv'
  BY <1>1, MInitInv
<1>2. CASE Stop
  BY <1>2, StopInv
<1>3. ASSUME NEW w \in Workers, Fork(w) \/ Exit(w) \/ Kill(w) PROVE Inv'
  BY <1>3, WorkerInv
<1>4. ASSUME NEW w \in Workers, Activate(w) \/ Deactivate(w) PROVE Inv'
  BY <1>4, ActivateInv, DeactivateInv
<1>5. ASSUME NEW w \in Workers, IniSet(w) \/ IniRestore(w) PROVE Inv'
  BY <1>5, IniSetInv, IniRestoreInv
<1>6. ASSUME NEW w \in Workers, Construct(w) \/ Info(w) PROVE Inv'
  BY <1>6, ConstructInv, InfoInv
<1>7. CASE UNCHANGED vars
  BY <1>7 DEF vars, Inv
<1> QED
  BY <1>1, <1>2, <1>3, <1>4, <1>5, <1>6, <1>7 DEF Next

(* For any number of workers, any settings and any sizes: whenever the     *)
(* methods are let through the storage is attached and info tells the      *)
(* truth of it, it is detached by exactly the processes that have it, the  *)
(* settings of one request do not outlive it, objects keep their prefix    *)
(* and the threshold stays above its minimum (yac.c:62 to 84, 451, 771,    *)
(* 794, 810).                                                              *)
THEOREM ModuleCorrect ==
  Spec => [](StorageReady /\ ShutdownPaired /\ SettingsRestored /\ PrefixHonoured
               /\ ThresholdSane)
BY InitInv, NextInv, InvImplies, PTL DEF Spec

(* Each of the five, by its name.                                          *)

(* No method goes through the header of a storage that is not attached,    *)
(* and no answer tells of another one (yac.c:473, 677, 771, 810).          *)
THEOREM StorageIsReady == Spec => []StorageReady
BY ModuleCorrect, PTL

(* Shutdown detaches what startup attached, once (yac.c:771, 794).         *)
THEOREM ShutdownIsPaired == Spec => []ShutdownPaired
BY ModuleCorrect, PTL

(* No setting of a request outlives it (yac.c:62 to 84).                   *)
THEOREM SettingsAreRestored == Spec => []SettingsRestored
BY ModuleCorrect, PTL

(* An object works under the prefix it was made with (yac.c:447 to 465).   *)
THEOREM PrefixIsHonoured == Spec => []PrefixHonoured
BY ModuleCorrect, PTL

(* The threshold is never under its minimum (yac.c:76 to 84, 760).         *)
THEOREM ThresholdIsSane == Spec => []ThresholdSane
BY ModuleCorrect, PTL

(***************************************************************************)
(* Sizing                                                                  *)
(*                                                                         *)
(* Bits is recursive: what it yields for every number is proved from the   *)
(* least number for which it would not.                                    *)
(***************************************************************************)

(* Every non-empty set of numbers has a least one.                         *)
LEMMA Least ==
  ASSUME NEW T, T \subseteq Nat, T # {}
  PROVE  \E x \in T : \A y \in T : x <= y
<1> DEFINE R == {ss \in Nat \X Nat : ss[1] < ss[2]}
<1>1. IsWellFoundedOn(R, Nat)
  BY NatLessThanWellFounded DEF OpToRel
<1> HIDE DEF R
<1>2. PICK x \in T : \A y \in T : ~ (<<y, x>> \in R)
  BY <1>1, WFMin
<1>3. \A y \in T : <<y, x>> \in R <=> y < x
  BY DEF R
<1>4. \A y \in T : ~ (y < x)
  BY <1>2, <1>3
<1>5. \A y \in T : x <= y
  <2> TAKE y \in T
  <2>1. ~ (y < x) /\ x \in Nat /\ y \in Nat
    BY <1>4
  <2> QED
    BY <2>1
<1> QED
  BY <1>5

(* A power of two is the number of subsets of a set: one more element      *)
(* doubles it.                                                             *)
LEMMA Doubling ==
  ASSUME NEW n \in Nat
  PROVE  2 ^ n \in Nat /\ 2 ^ (n + 1) = 2 * 2 ^ n
<1> DEFINE A == 1 .. n
           B == {S \cup {n + 1} : S \in SUBSET A}
<1>1. /\ IsFiniteSet(A) /\ Cardinality(A) = n
      /\ IsFiniteSet(1 .. n + 1) /\ Cardinality(1 .. n + 1) = n + 1
  BY FS_Interval
<1>2. /\ IsFiniteSet(SUBSET A) /\ Cardinality(SUBSET A) = 2 ^ n
      /\ IsFiniteSet(SUBSET (1 .. n + 1)) /\ Cardinality(SUBSET (1 .. n + 1)) = 2 ^ (n + 1)
  BY <1>1, FS_SUBSET
<1>3. n + 1 \notin A
  OBVIOUS
<1>4. ExistsBijection(SUBSET A, B)
  <2> DEFINE f == [S \in SUBSET A |-> S \cup {n + 1}]
  <2>1. f \in [SUBSET A -> B]
    OBVIOUS
  <2>2. \A S, T \in SUBSET A : f[S] = f[T] => S = T
    <3> SUFFICES ASSUME NEW S \in SUBSET A, NEW T \in SUBSET A, f[S] = f[T] PROVE S = T
      OBVIOUS
    <3>1. n + 1 \notin S /\ n + 1 \notin T
      BY <1>3
    <3>2. S \cup {n + 1} = T \cup {n + 1}
      OBVIOUS
    <3> QED
      BY <3>1, <3>2
  <2>3. \A y \in B : \E S \in SUBSET A : f[S] = y
    OBVIOUS
  <2> HIDE DEF f, A, B
  <2>4. f \in Bijection(SUBSET A, B)
    BY <2>1, <2>2, <2>3 DEF Bijection, Injection, Surjection, IsInjective
  <2> QED
    BY <2>4 DEF ExistsBijection
<1>5. IsFiniteSet(B) /\ Cardinality(B) = 2 ^ n
  BY <1>2, <1>4, FS_Bijection
<1>6. SUBSET (1 .. n + 1) = (SUBSET A) \cup B
  <2>1. 1 .. n + 1 = A \cup {n + 1}
    OBVIOUS
  <2> HIDE DEF A
  <2>2. ASSUME NEW S \in SUBSET (A \cup {n + 1}) PROVE S \in (SUBSET A) \cup B
    <3>1. CASE n + 1 \in S
      <4>1. S = (S \ {n + 1}) \cup {n + 1} /\ S \ {n + 1} \in SUBSET A
        BY <3>1
      <4> QED
        BY <4>1
    <3>2. CASE n + 1 \notin S
      BY <3>2
    <3> QED
      BY <3>1, <3>2
  <2>3. (SUBSET A) \cup B \subseteq SUBSET (A \cup {n + 1})
    OBVIOUS
  <2> QED
    BY <2>1, <2>2, <2>3
<1>7. (SUBSET A) \cap B = {}
  BY <1>3
<1>8. Cardinality({}) = 0
  BY FS_EmptySet
<1> HIDE DEF A, B
<1>9. 2 ^ n \in Nat
  <2>1. Cardinality(SUBSET A) \in Nat
    BY <1>2, FS_CardinalityType
  <2> QED
    BY <1>2, <2>1
<1>10. Cardinality((SUBSET A) \cup B) = 2 ^ n + 2 ^ n - 0
  <2>1. Cardinality((SUBSET A) \cup B) =
          Cardinality(SUBSET A) + Cardinality(B) - Cardinality((SUBSET A) \cap B)
    BY <1>2, <1>5, FS_Union
  <2> QED
    BY <1>2, <1>5, <1>7, <1>8, <2>1
<1>11. 2 ^ (n + 1) = 2 ^ n + 2 ^ n - 0
  BY <1>2, <1>6, <1>10
<1> DEFINE p == 2 ^ n
<1> HIDE DEF p
<1>12. p \in Nat /\ 2 ^ (n + 1) = p + p - 0
  BY <1>9, <1>11 DEF p
<1>13. 2 ^ (n + 1) = 2 * p
  BY <1>12
<1> QED
  BY <1>9, <1>13 DEF p

(* Powers of two outgrow their exponents.                                  *)
LEMMA Outgrows ==
  ASSUME NEW n \in Nat
  PROVE  n < 2 ^ n
<1> DEFINE T == {x \in Nat : ~ (x < 2 ^ x)}
<1>1. ASSUME NEW x \in T, \A y \in T : x <= y PROVE FALSE
  <2>1. CASE x = 0
    <3>1. 2 ^ 0 = 1
      OBVIOUS
    <3> QED
      BY <1>1, <2>1, <3>1
  <2>2. CASE x # 0
    <3> DEFINE m == x - 1
    <3>1. m \in Nat /\ x = m + 1 /\ ~ (x <= m)
      BY <2>2
    <3> HIDE DEF m
    <3>2. m < 2 ^ m
      BY <1>1, <3>1
    <3>3. 2 ^ m \in Nat /\ 2 ^ x = 2 * 2 ^ m
      BY <3>1, Doubling
    <3>4. x < 2 ^ x
      BY <3>1, <3>2, <3>3
    <3> QED
      BY <3>4
  <2> QED
    BY <2>1, <2>2
<1>2. T \subseteq Nat
  OBVIOUS
<1> HIDE DEF T
<1>3. T = {}
  BY <1>1, <1>2, Least
<1> QED
  BY <1>3 DEF T

(* A larger exponent, a larger power.                                      *)
LEMMA Monotone ==
  ASSUME NEW m \in Nat, NEW n \in Nat, m <= n
  PROVE  2 ^ m <= 2 ^ n
<1> DEFINE T == {x \in Nat : m <= x /\ ~ (2 ^ m <= 2 ^ x)}
<1>1. ASSUME NEW x \in T, \A y \in T : x <= y PROVE FALSE
  <2>1. CASE x = m
    BY <2>1, Doubling
  <2>2. CASE x # m
    <3> DEFINE p == x - 1
    <3>1. p \in Nat /\ x = p + 1 /\ m <= p /\ ~ (x <= p)
      BY <2>2
    <3> HIDE DEF p
    <3>2. 2 ^ m <= 2 ^ p
      BY <1>1, <3>1
    <3>3. 2 ^ p \in Nat /\ 2 ^ x = 2 * 2 ^ p /\ 2 ^ m \in Nat
      BY <3>1, Doubling
    <3>4. 2 ^ m <= 2 ^ x
      BY <3>2, <3>3
    <3> QED
      BY <3>4
  <2> QED
    BY <2>1, <2>2
<1>2. T \subseteq Nat
  OBVIOUS
<1> HIDE DEF T
<1>3. T = {}
  BY <1>1, <1>2, Least
<1> QED
  BY <1>3 DEF T

(* The place of the highest bit of a positive number.                      *)
LEMMA HighestBit ==
  ASSUME NEW n \in Nat, n # 0
  PROVE  \E b \in Nat : 2 ^ b <= n /\ n < 2 ^ (b + 1)
<1> DEFINE T == {b \in Nat : n < 2 ^ (b + 1)}
<1>1. n \in T
  <2>1. n < 2 ^ n /\ 2 ^ n \in Nat /\ 2 ^ (n + 1) = 2 * 2 ^ n
    BY Outgrows, Doubling
  <2>2. n < 2 ^ (n + 1)
    BY <2>1
  <2> QED
    BY <2>2
<1>2. T \subseteq Nat
  OBVIOUS
<1> HIDE DEF T
<1>3. PICK b \in T : \A y \in T : b <= y
  BY <1>1, <1>2, Least
<1>4. b \in Nat /\ n < 2 ^ (b + 1)
  BY <1>3 DEF T
<1>5. CASE b = 0
  <2>1. 2 ^ 0 = 1
    OBVIOUS
  <2>2. 2 ^ b <= n
    BY <1>5, <2>1
  <2> QED
    BY <1>4, <2>2
<1>6. CASE b # 0
  <2> DEFINE p == b - 1
  <2>1. p \in Nat /\ b = p + 1 /\ ~ (b <= p)
    BY <1>4, <1>6
  <2> HIDE DEF p
  <2>2. ~ (n < 2 ^ b)
    BY <1>3, <2>1 DEF T
  <2>3. 2 ^ b \in Nat
    BY <1>4, Doubling
  <2>4. 2 ^ b <= n
    BY <2>2, <2>3
  <2> QED
    BY <1>4, <2>4
<1> QED
  BY <1>5, <1>6

(* The highest bit has one place only.                                     *)
LEMMA OneHighestBit ==
  ASSUME NEW n \in Nat, NEW a \in Nat, NEW b \in Nat,
         2 ^ a <= n, n < 2 ^ (a + 1), 2 ^ b <= n, n < 2 ^ (b + 1)
  PROVE  a = b
<1>1. ASSUME NEW c \in Nat, NEW d \in Nat, n < 2 ^ (c + 1), 2 ^ d <= n PROVE ~ (c < d)
  <2> SUFFICES ASSUME c < d PROVE FALSE
    OBVIOUS
  <2>1. c + 1 \in Nat /\ c + 1 <= d
    OBVIOUS
  <2>2. 2 ^ (c + 1) <= 2 ^ d
    BY <2>1, Monotone
  <2>3. 2 ^ (c + 1) \in Nat /\ 2 ^ d \in Nat
    BY <2>1, Doubling
  <2> QED
    BY <1>1, <2>2, <2>3
<1>2. ~ (a < b) /\ ~ (b < a)
  BY <1>1
<1> QED
  BY <1>2

(* The recursion of Bits has a solution, the place of the highest bit:     *)
(* Bits is what it says.                                                   *)
LEMMA BitsDef == Bits = [n \in Nat |-> IF n \div 2 = 0 THEN 0 ELSE 1 + Bits[n \div 2]]
<1> DEFINE Place(n, b) == b \in Nat /\ 2 ^ b <= n /\ n < 2 ^ (b + 1)
           f == [n \in Nat |-> IF n = 0 THEN 0 ELSE CHOOSE b : Place(n, b)]
           F(g) == [n \in Nat |-> IF n \div 2 = 0 THEN 0 ELSE 1 + g[n \div 2]]
<1>1. \A n \in Nat : n # 0 => Place(n, f[n])
  <2> TAKE n \in Nat
  <2> HAVE n # 0
  <2>1. \E b : Place(n, b)
    BY HighestBit
  <2>2. f[n] = CHOOSE b : Place(n, b)
    OBVIOUS
  <2> HIDE DEF Place, f
  <2> QED
    BY <2>1, <2>2
<1>2. f[0] = 0
  OBVIOUS
<1>3. 2 ^ 0 = 1 /\ 2 ^ 1 = 2
  OBVIOUS
<1>4. ASSUME NEW n \in Nat
      PROVE  f[n] = IF n \div 2 = 0 THEN 0 ELSE 1 + f[n \div 2]
  <2> DEFINE m == n \div 2
  <2>1. m \in Nat /\ 2 * m <= n /\ n < 2 * m + 2
    OBVIOUS
  <2>2. CASE m = 0 /\ n # 0
    <3>1. n = 1
      BY <2>1, <2>2
    <3>2. Place(n, 0)
      <4>1. 2 ^ 0 <= 1 /\ 1 < 2 ^ (0 + 1)
        BY <1>3
      <4> QED
        BY <3>1, <4>1
    <3>3. Place(n, f[n])
      BY <1>1, <2>2
    <3> HIDE DEF f
    <3>4. f[n] = 0
      BY <3>2, <3>3, OneHighestBit
    <3> QED
      BY <2>2, <3>4
  <2>3. CASE m = 0 /\ n = 0
    BY <1>2, <2>3
  <2>4. CASE m # 0
    <3> HIDE DEF f, m
    <3> DEFINE b == f[m]
    <3>1. n # 0
      BY <2>1, <2>4
    <3>2. Place(n, f[n]) /\ Place(m, b)
      BY <1>1, <2>1, <2>4, <3>1
    <3> HIDE DEF b
    <3>3. /\ 2 ^ b \in Nat /\ 2 ^ (b + 1) = 2 * 2 ^ b
          /\ 2 ^ (b + 1) \in Nat /\ 2 ^ ((b + 1) + 1) = 2 * 2 ^ (b + 1)
      BY <3>2, Doubling
    <3>4. 2 ^ b <= m /\ m < 2 ^ (b + 1) /\ b + 1 \in Nat
      BY <3>2
    <3>5. 2 ^ (b + 1) <= n
      <4>1. 2 ^ (b + 1) <= 2 * m
        BY <2>1, <3>3, <3>4
      <4> QED
        BY <2>1, <3>3, <4>1
    <3>6. n < 2 ^ ((b + 1) + 1)
      <4>1. m + 1 <= 2 ^ (b + 1)
        BY <2>1, <3>3, <3>4
      <4>2. 2 * (m + 1) <= 2 ^ ((b + 1) + 1)
        BY <2>1, <3>3, <4>1
      <4> QED
        BY <2>1, <3>3, <4>2
    <3>7. f[n] = b + 1
      BY <3>2, <3>4, <3>5, <3>6, OneHighestBit
    <3> QED
      BY <2>4, <3>2, <3>7 DEF b, m
  <2> QED
    BY <2>2, <2>3, <2>4
<1> HIDE DEF Place
<1>5. f = F(f)
  <2>1. f = [n \in Nat |-> f[n]]
    OBVIOUS
  <2> HIDE DEF f
  <2>2. [n \in Nat |-> f[n]] = F(f)
    BY <1>4
  <2> QED
    BY <2>1, <2>2
<1> HIDE DEF f
<1>6. Bits = CHOOSE g : g = F(g)
  BY DEF Bits
<1> HIDE DEF F
<1>7. Bits = F(Bits)
  BY <1>5, <1>6
<1> QED
  BY <1>7 DEF F

(* yac_storage_align_size rounds a positive number down to a power of two. *)
LEMMA BitsBelow ==
  ASSUME NEW n \in Nat
  PROVE  Bits[n] \in Nat /\ (n # 0 => 2 ^ Bits[n] <= n) /\ (n = 0 => Bits[n] = 0)
<1> DEFINE Good(x) == Bits[x] \in Nat /\ (x # 0 => 2 ^ Bits[x] <= x) /\ (x = 0 => Bits[x] = 0)
           T == {x \in Nat : ~ Good(x)}
<1>1. ASSUME NEW x \in T, \A y \in T : x <= y PROVE FALSE
  <2> DEFINE m == x \div 2
  <2>1. m \in Nat /\ 2 * m <= x /\ x < 2 * m + 2
    BY <1>1
  <2>2. Bits[x] = IF m = 0 THEN 0 ELSE 1 + Bits[m]
    BY BitsDef
  <2>3. 2 ^ 0 = 1
    OBVIOUS
  <2> HIDE DEF m
  <2>4. CASE m = 0
    <3>1. Bits[x] = 0
      BY <2>2, <2>4
    <3>2. x = 0 \/ x = 1
      BY <2>1, <2>4
    <3>3. Good(x)
      BY <2>3, <3>1, <3>2
    <3> QED
      BY <3>3
  <2>5. CASE m # 0
    <3> HIDE DEF Good
    <3>1. ~ (x <= m) /\ x # 0
      BY <1>1, <2>1, <2>5
    <3>2. Good(m)
      BY <1>1, <2>1, <3>1
    <3> DEFINE b == Bits[m]
    <3>3. b \in Nat /\ 2 ^ b <= m
      BY <2>5, <3>2 DEF Good
    <3>4. Bits[x] = b + 1
      BY <2>2, <2>5, <3>3
    <3> HIDE DEF b
    <3>5. 2 ^ b \in Nat /\ 2 ^ (b + 1) = 2 * 2 ^ b
      BY <3>3, Doubling
    <3>6. 2 ^ (b + 1) <= x
      BY <1>1, <2>1, <3>3, <3>5
    <3>7. Good(x)
      BY <3>1, <3>3, <3>4, <3>6 DEF Good
    <3> QED
      BY <3>7
  <2> QED
    BY <2>4, <2>5
<1>2. T \subseteq Nat
  OBVIOUS
<1> HIDE DEF T
<1>3. T = {}
  BY <1>1, <1>2, Least
<1>4. Good(n)
  BY <1>3 DEF T
<1> QED
  BY <1>4

(* The slots lie in the segment when it has room for one, and their number *)
(* is a power of two.                                                      *)
LEMMA SlotsSizeFits ==
  ASSUME NEW segment \in Nat, HeaderBytes + SlotBytes <= segment, segment < LongSpan
  PROVE  Fit(SlotsSize(segment), segment) /\ IsPowerOfTwo(SlotsSize(segment))
<1> DEFINE bytes == (segment - HeaderBytes) % LongSpan
           room == bytes \div SlotBytes
           n == room % IntSpan
           b == Bits[n]
           real == 2 ^ b
<1>1. HeaderBytes \in Nat /\ SlotBytes \in Nat /\ SlotBytes > 0 /\ IntSpan \in Nat
      /\ IntSpan > 0 /\ LongSpan \in Nat /\ LongSpan > 0
  BY SizingAssumption
<1>2. bytes = segment - HeaderBytes /\ bytes \in Nat /\ bytes >= SlotBytes
  <2>1. segment - HeaderBytes \in Nat /\ segment - HeaderBytes < LongSpan
    BY <1>1
  <2>2. \A i, d \in Nat : i < d => i % d = i
    BY Z3
  <2> QED
    BY <1>1, <2>1, <2>2
<1> HIDE DEF bytes
<1>3. room \in Nat /\ room >= 1 /\ room * SlotBytes <= bytes
  <2>1. \A i, d \in Nat : d > 0 /\ i >= d => i \div d \in Nat /\ i \div d >= 1 /\ (i \div d) * d <= i
    BY Z3
  <2> QED
    BY <1>1, <1>2, <2>1
<1> HIDE DEF room
<1>4. n \in Nat /\ n <= room
  <2>1. \A i, d \in Nat : d > 0 => i % d \in Nat /\ i % d <= i
    BY Z3
  <2> QED
    BY <1>1, <1>3, <2>1
<1> HIDE DEF n
<1>5. b \in Nat /\ (n # 0 => real <= n) /\ (n = 0 => b = 0)
  BY <1>4, BitsBelow
<1> HIDE DEF b
<1>6. /\ real \in Nat /\ 2 ^ (b + 1) = 2 * real /\ 2 ^ 0 = 1
      /\ b < real /\ b + 1 < 2 * real
  <2>1. b + 1 \in Nat
    BY <1>5
  <2> QED
    BY <1>5, <2>1, Doubling, Outgrows
<1>7. real <= room /\ real >= 1
  <2>1. CASE n = 0
    <3>1. real = 1
      BY <1>5, <1>6, <2>1
    <3> QED
      BY <1>3, <3>1
  <2>2. CASE n # 0
    <3>1. real <= n /\ b < real
      BY <1>5, <1>6, <2>2
    <3> HIDE DEF real
    <3> QED
      BY <1>3, <1>4, <1>5, <1>6, <3>1
  <2> QED
    BY <2>1, <2>2
<1>8. SlotsSize(segment) = IF OnlyBit(room, 2 * real) THEN 2 * real ELSE real
  BY DEF SlotsSize, AlignSize, room, bytes, n, b
<1> DEFINE slots == SlotsSize(segment)
<1>9. slots \in Nat /\ slots <= room
  <2>1. CASE OnlyBit(room, 2 * real)
    <3> DEFINE d == 2 * real
               bit == (room \div d) % 2
    <3>1. d \in Nat /\ d > 0
      BY <1>6, <1>7
    <3>2. room = d * bit
      BY <2>1 DEF OnlyBit
    <3> HIDE DEF d
    <3>3. room \div d \in Nat
      <4>1. \A i, j \in Nat : j > 0 => i \div j \in Nat
        BY Z3
      <4> QED
        BY <1>3, <3>1, <4>1
    <3>4. bit \in {0, 1}
      BY <3>3
    <3> HIDE DEF bit
    <3>5. room = d
      BY <1>3, <3>1, <3>2, <3>4
    <3> QED
      BY <1>3, <1>8, <2>1, <3>5 DEF d
  <2>2. CASE ~ OnlyBit(room, 2 * real)
    BY <1>6, <1>7, <1>8, <2>2
  <2> QED
    BY <2>1, <2>2
<1>10. IsPowerOfTwo(slots)
  <2>1. slots = 2 ^ b \/ slots = 2 ^ (b + 1)
    BY <1>6, <1>8
  <2>2. \A c \in {b, b + 1} : c \in 0 .. 2 ^ c
    BY <1>5, <1>6
  <2> HIDE DEF slots
  <2> QED
    BY <2>1, <2>2 DEF IsPowerOfTwo
<1>11. Fit(slots, segment)
  <2> HIDE DEF slots
  <2>1. slots * SlotBytes <= room * SlotBytes
    <3>1. \A i, j, k \in Nat : i <= j => i * k <= j * k
      BY Z3
    <3> QED
      BY <1>1, <1>3, <1>9, <3>1
  <2>2. slots * SlotBytes \in Nat /\ room * SlotBytes \in Nat
    <3>1. \A i, j \in Nat : i * j \in Nat
      BY Z3
    <3> QED
      BY <1>1, <1>3, <1>9, <3>1
  <2>3. slots * SlotBytes <= segment - HeaderBytes
    <3>1. bytes \in Nat
      BY <1>2
    <3>2. \A i, j, k \in Nat : i <= j /\ j <= k => i <= k
      OBVIOUS
    <3> QED
      BY <1>2, <1>3, <2>1, <2>2, <3>1, <3>2
  <2> DEFINE p == slots * SlotBytes
  <2> HIDE DEF p
  <2>4. HeaderBytes + p <= segment
    BY <1>1, <2>2, <2>3 DEF p
  <2> QED
    BY <2>4 DEF Fit, p
<1> QED
  BY <1>10, <1>11

(* The slots in use are those laid out for the segment in use.             *)
LaidOut == storage.slots # 0 => \E s \in Segments : storage = StorageInfo(s, SlotsSize(s))

(* For every segment with room for one slot, whatever the sizes of slot    *)
(* and header and the widths of the integers: the slots that the memset of *)
(* yac_storage_startup clears lie in the segment, and their number is a    *)
(* power of two, which h & slots_mask relies on (yac_storage.c:28 to 58).  *)
THEOREM SlotsAreFit == Spec => []SlotsFit
<1>1. Init => LaidOut
  BY DEF Init, LaidOut, StorageInfo
<1>2. LaidOut /\ [Next]_vars => LaidOut'
  <2> SUFFICES ASSUME LaidOut, [Next]_vars PROVE LaidOut'
    OBVIOUS
  <2>1. ASSUME NEW cfg \in Configs, MInit(cfg) PROVE LaidOut'
    BY <2>1 DEF MInit, LaidOut
  <2>2. CASE UNCHANGED storage
    BY <2>2 DEF LaidOut
  <2>3. ASSUME NEW w \in Workers PROVE
          Activate(w) \/ Deactivate(w) \/ IniSet(w) \/ IniRestore(w) \/ Construct(w) \/ Info(w)
            => UNCHANGED storage
    BY DEF Activate, Deactivate, IniSet, IniRestore, Construct, Info, Becomes
  <2> QED
    BY <2>1, <2>2, <2>3 DEF Next, Stop, Fork, Exit, Kill, Becomes, vars
<1>3. LaidOut => SlotsFit
  <2> SUFFICES ASSUME LaidOut, storage.slots # 0
               PROVE  Fit(storage.slots, storage.segment) /\ IsPowerOfTwo(storage.slots)
    BY DEF SlotsFit
  <2>1. PICK s \in Segments : storage = StorageInfo(s, SlotsSize(s))
    BY DEF LaidOut
  <2>2. storage.segment = s /\ storage.slots = SlotsSize(s)
    BY <2>1 DEF StorageInfo
  <2>3. s \in Nat /\ HeaderBytes + SlotBytes <= s /\ s < LongSpan
    BY ModuleAssumption
  <2> QED
    BY <2>2, <2>3, SlotsSizeFits
<1> QED
  BY <1>1, <1>2, <1>3, PTL DEF Spec

=============================================================================
