--------------------------- MODULE TouchHighlight ---------------------------
(***************************************************************************)
(* The highlight of a touched element in demo-start.html.  Handlers and    *)
(* timers run to their ends one after another; what is interleaved is      *)
(* their order.  The browser, which delivers touches and runs timers that  *)
(* are due, is external, and so are the classes of Zepto.                  *)
(***************************************************************************)
EXTENDS Naturals, Sequences, TLAPS

CONSTANTS
  Fingers,     (* Those that can touch the page.                           *)
  Elements,    (* The elements of the page under its body.                 *)
  Actors,      (* Actors[e]: e itself or the nearest element above it that *)
               (* has data-ac, or NONE.                                    *)
  ClassOf,     (* ClassOf[e]: the class that data-ac names.                *)
  IsAndroid,   (* The browser tolerates one move.                          *)
  MaxTimers,   (* Bound on the timers pending at once.                     *)
  NONE         (* null.                                                    *)

ASSUME TouchAssumption ==
  /\ NONE \notin Elements
  /\ Actors \in [Elements -> Elements \cup {NONE}]
  /\ IsAndroid \in BOOLEAN /\ MaxTimers \in Nat

VARIABLES
  touches,     (* External: the fingers on the page, the first one first.  *)
  target,      (* The element that is highlighted, or NONE,                *)
  klass,       (* the class it was given, and                              *)
  movecount,   (* how often it was moved: 0, or 1 for any more.            *)
  classes,     (* classes[e]: the highlight classes of element e.          *)
  timers       (* How many calls of disactive are pending.                 *)

page == <<target, klass, movecount, classes>>
vars == <<touches, page, timers>>

Init ==
  /\ touches = <<>>
  /\ target = NONE /\ klass = NONE /\ movecount = 0
  /\ classes = [e \in Elements |-> {}]
  /\ timers = 0

Down(f) == \E i \in 1 .. Len(touches) : touches[i].finger = f
Without(f) == SelectSeq(touches, LAMBDA t : t.finger # f)

(* The classes once disactive has removed klass from the target. *)
Removed ==
  IF target = NONE THEN classes ELSE [classes EXCEPT ![target] = @ \ {klass}]

Disactive ==
  /\ classes' = Removed
  /\ target' = NONE
  /\ UNCHANGED <<klass, movecount>>

(* Mutations of the start of a highlight: the one before is not ended, and *)
(* the timer is forgotten.                                                 *)
HighlightOver(e) ==
  /\ target' = e /\ klass' = ClassOf[e] /\ movecount' = 0
  /\ classes' = [classes EXCEPT ![e] = @ \cup {ClassOf[e]}]
  /\ timers' = timers + 1

HighlightUntimed(e) ==
  /\ target' = e /\ klass' = ClassOf[e] /\ movecount' = 0
  /\ classes' = [Removed EXCEPT ![e] = @ \cup {ClassOf[e]}]
  /\ UNCHANGED timers

(* The end of touchstart, after disactive, on an element with data-ac. *)
Highlight(e) ==
  /\ target' = e /\ klass' = ClassOf[e] /\ movecount' = 0
  /\ classes' = [Removed EXCEPT ![e] = @ \cup {ClassOf[e]}]
  /\ timers' = timers + 1

(* A finger comes down.  The handler looks at the first finger only; the   *)
(* climb ends at the body with nothing found, and leaves klass null.       *)
TouchStart(f, e) ==
  /\ ~ Down(f)
  /\ timers < MaxTimers
  /\ touches' = Append(touches, [finger |-> f, target |-> e])
  /\ LET actor == Actors[touches'[1].target]
     IN  \/ actor # NONE /\ Highlight(actor)
         \/ /\ actor = NONE
            /\ classes' = Removed /\ target' = NONE /\ klass' = NONE
            /\ UNCHANGED <<movecount, timers>>

(* A finger moves: Android lets the first move of a highlight pass. *)
TouchMove ==
  /\ touches # <<>>
  /\ target # NONE
  /\ IF IsAndroid /\ movecount = 0
     THEN movecount' = 1 /\ UNCHANGED <<target, klass, classes>>
     ELSE Disactive
  /\ UNCHANGED <<touches, timers>>

TouchEnd(f) ==
  /\ Down(f)
  /\ touches' = Without(f)
  /\ Disactive
  /\ UNCHANGED timers

(* The browser takes a touch away, for a gesture of its own or a dialogue: *)
(* touchcancel, for which the page has no handler.                         *)
TouchCancel(f) ==
  /\ Down(f)
  /\ touches' = Without(f)
  /\ UNCHANGED <<page, timers>>

(* 500 milliseconds after some start of a highlight, not always the last. *)
Timeout ==
  /\ timers > 0
  /\ timers' = timers - 1
  /\ Disactive
  /\ UNCHANGED touches

Next ==
  \/ \E f \in Fingers : \/ \E e \in Elements : TouchStart(f, e)
                        \/ TouchEnd(f) \/ TouchCancel(f)
  \/ TouchMove \/ Timeout

Spec == Init /\ [][Next]_vars

(* The browser runs a timer that is due. *)
FairSpec == Spec /\ WF_vars(Timeout)

(***************************************************************************)
(* Correctness                                                             *)
(***************************************************************************)

(* The classes on the page are those of the one highlight, whatever the    *)
(* order of fingers and timers: klass still names the class that target    *)
(* was given when disactive (lines 28 to 31) comes to remove it.           *)
OneHighlight ==
  classes = [e \in Elements |-> IF e = target THEN {klass} ELSE {}]

(* Every highlight ends, even that of a touch whose end is never reported, *)
(* as no timer is cancelled (line 45) and one that fires early leaves the  *)
(* timer of the next highlight pending.                                    *)
HighlightEnds == \A e \in Elements : target = e ~> target # e

(***************************************************************************)
(* Proof                                                                   *)
(***************************************************************************)

(* Removing the class of the one highlight leaves none. *)
LEMMA RemovedIsNone ==
  ASSUME TouchAssumption, OneHighlight
  PROVE  Removed = [e \in Elements |-> {}]
BY DEF Removed, OneHighlight, TouchAssumption

(* OneHighlight holds for any page, class of its elements and number of    *)
(* fingers: it is inductive, since every handler of lines 33 to 55 that    *)
(* changes klass or target has called disactive first.                     *)
THEOREM OneHighlightHolds ==
  ASSUME TouchAssumption PROVE Spec => []OneHighlight
<1>1. Init => OneHighlight
  BY DEF Init, OneHighlight, TouchAssumption
<1>2. OneHighlight /\ [Next]_vars => OneHighlight'
  <2> SUFFICES ASSUME OneHighlight, [Next]_vars PROVE OneHighlight'
    OBVIOUS
  <2>1. Removed = [e \in Elements |-> {}]
    BY RemovedIsNone
  <2>2. Disactive => OneHighlight'
    BY <2>1 DEF Disactive, OneHighlight, TouchAssumption
  <2>3. ASSUME NEW e, Highlight(e) PROVE OneHighlight'
    BY <2>1, <2>3 DEF Highlight, OneHighlight
  <2>4. ASSUME UNCHANGED page PROVE OneHighlight'
    BY <2>4 DEF page, OneHighlight
  <2>5. ASSUME NEW f \in Fingers, NEW e \in Elements, TouchStart(f, e)
        PROVE  OneHighlight'
    <3>1. CASE Highlight(Actors[touches'[1].target])
      BY <2>3, <3>1
    <3>2. CASE classes' = Removed /\ target' = NONE
      BY <2>1, <3>2 DEF OneHighlight, TouchAssumption
    <3> QED
      BY <2>5, <3>1, <3>2 DEF TouchStart
  <2>6. CASE TouchMove
    <3>1. CASE target' = target /\ klass' = klass /\ classes' = classes
      BY <3>1 DEF OneHighlight
    <3> QED
      BY <2>6, <2>2, <3>1 DEF TouchMove
  <2>7. ASSUME NEW f \in Fingers, TouchEnd(f) \/ TouchCancel(f)
        PROVE  OneHighlight'
    BY <2>7, <2>2, <2>4 DEF TouchEnd, TouchCancel
  <2>8. CASE Timeout
    BY <2>8, <2>2 DEF Timeout
  <2>9. CASE UNCHANGED vars
    BY <2>9, <2>4 DEF vars
  <2> QED
    BY <2>5, <2>6, <2>7, <2>8, <2>9 DEF Next
<1> QED
  BY <1>1, <1>2, PTL DEF Spec

=============================================================================
