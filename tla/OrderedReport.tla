---------------------------- MODULE OrderedReport ----------------------------
(***************************************************************************)
(* What the parallel mode of the plugin promises: the report reads as if   *)
(* the refinement checks had run one after the other. Items are produced   *)
(* in program order, the result of a check arrives at any time, and the    *)
(* report is the list of items in that order, each check replaced by its   *)
(* result. Nothing is printed twice, out of order or before it is known.   *)
(***************************************************************************)
EXTENDS Naturals, Sequences

CONSTANTS
  Jobs,     \* the refinement checks
  Items,    \* [kind : {"line", "include"}, n : ...]: a line, or a check n
  Texts     \* what a check can print

VARIABLES
  items,    \* what the compiler has produced so far
  results,  \* for each check, whether it is known and its text
  printed   \* the report

vars == <<items, results, printed>>

Unknown   == [known |-> FALSE, text |-> <<>>]
Known(t)  == [known |-> TRUE, text |-> t]

Init ==
  /\ items = <<>>
  /\ results = [i \in Jobs |-> Unknown]
  /\ printed = <<>>

\* The compiler produces one more item.
Submit ==
  /\ \E x \in Items : items' = Append(items, x)
  /\ UNCHANGED <<results, printed>>

\* A check ends.
Finish(i) ==
  /\ ~results[i].known
  /\ results'[i].text \in Texts
  /\ results' = [results EXCEPT ![i] = Known(results'[i].text)]
  /\ UNCHANGED <<items, printed>>

Printable(x) == x.kind = "include" => results[x.n].known
Entry(x)     == [item |-> x, text |-> IF x.kind = "include" THEN results[x.n].text ELSE <<>>]

\* The next n items go to the report.
Emit(n) ==
  LET p == Len(printed)
  IN  /\ p + n <= Len(items)
      /\ \A k \in 1..n : Printable(items[p + k])
      /\ printed' = printed \o [k \in 1..n |-> Entry(items[p + k])]
      /\ UNCHANGED <<items, results>>

Next ==
  \/ Submit
  \/ \E i \in Jobs : Finish(i)
  \/ \E n \in 1..Len(items) : Emit(n)

Spec == Init /\ [][Next]_vars
=============================================================================
