------------------------------- MODULE Totals -------------------------------
(***************************************************************************)
(* Sums of numbers as counts of units.                                     *)
(*                                                                         *)
(* Quantities are summed over orders and movements in several places of    *)
(* the code (SELECT SUM(...), sum(...)).  A function f with natural values *)
(* is pictured as a pile of f[x] units for each x; its total is the number *)
(* of units.  Stated this way, what a change of one value does to a total  *)
(* follows from facts about finite sets, with no induction.                *)
(***************************************************************************)
EXTENDS Integers, FiniteSets

Units(f) == UNION {{x} \X (1..f[x]) : x \in DOMAIN f}

Total(f) == Cardinality(Units(f))

(* Sums of integers: what the values add less what they take.              *)
Gain(n) == IF n > 0 THEN n ELSE 0

Net(f) == Total([x \in DOMAIN f |-> Gain(f[x])]) - Total([x \in DOMAIN f |-> Gain(-f[x])])

=============================================================================
