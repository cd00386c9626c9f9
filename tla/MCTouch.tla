------------------------------ MODULE MCTouch ------------------------------
(* Two fingers on a page of two elements that highlight in different       *)
(* classes, a text within the first and an element that does not.          *)
EXTENDS TouchHighlight

CONSTANTS f1, f2, first, second, text, plain, clickstat, clickstatbbb

MCElements == {first, second, text, plain}
MCActors ==
  [e \in MCElements |->
     CASE e \in {first, text} -> first
       [] e = second -> second
       [] OTHER -> NONE]
MCClassOf ==
  [e \in MCElements |-> IF e = first THEN clickstat ELSE clickstatbbb]

=============================================================================
