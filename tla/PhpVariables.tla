---------------------------- MODULE PhpVariables ----------------------------
(***************************************************************************)
(* What a PHP script sees of its variables: each set name has a value,     *)
(* and the names bound together by reference always share theirs.          *)
(* Nothing is said of zvals, reference counts or string buffers.           *)
(***************************************************************************)
CONSTANTS
  Names,     (* The variables, the parameters of running functions too.    *)
  Values,    (* What they can hold.                                        *)
  Null,      (* The value of a variable bound before it was set.           *)
  Nothing    (* No value.                                                  *)

VARIABLES
  value,     (* value[n]: a value, or Nothing.                               *)
  refs       (* refs[n]: the names that share n's value, n among them.     *)

vars == <<value, refs>>

Init ==
  /\ value = [n \in Names |-> Nothing]
  /\ refs = [n \in Names |-> {n}]

(* The groups once name n has left its own. *)
Alone(n) == [x \in Names |-> IF x = n THEN {n} ELSE refs[x] \ {n}]

(* A write of any value reaches the whole group of its name, and nobody    *)
(* else.                                                                   *)
Assign(n) ==
  /\ value'[n] \in Values
  /\ UNCHANGED refs
  /\ value' = [x \in Names |-> IF x \in refs[n] THEN value'[n] ELSE value[x]]

(* Names n and m become one variable. *)
Bind(n, m) ==
  LET G == refs[m] \cup {n}
      v == IF value[m] = Nothing THEN Null ELSE value[m]
  IN  /\ refs' = [x \in Names |-> IF x \in G THEN G ELSE Alone(n)[x]]
      /\ value' = [x \in Names |-> IF x \in G THEN v ELSE value[x]]

(* Name n leaves its group and keeps the value. *)
Detach(n) == refs' = Alone(n) /\ UNCHANGED value

Remove(n) ==
  /\ refs' = Alone(n)
  /\ value' = [value EXCEPT ![n] = Nothing]

(* The value of m goes to n, and m ends. *)
Move(n, m) ==
  /\ n # m
  /\ refs' = Alone(m)
  /\ value' = [x \in Names |-> IF x = m THEN Nothing
                               ELSE IF x \in refs[n] THEN value[m] ELSE value[x]]

Next ==
  \E n \in Names :
    \/ Assign(n) \/ Detach(n) \/ Remove(n)
    \/ \E m \in Names : Bind(n, m) \/ Move(n, m)

Spec == Init /\ [][Next]_vars

=============================================================================
