----------------------------- MODULE MCPositions -----------------------------
(* Positions, states and markets for the rules of positions. *)
EXTENDS Integers

Sides == {"BUY", "SELL"}

\* Positions opened at 100: without a stop, with one behind or at the open price, or
\* locked. A second one of the same side was opened before, behind or beyond it.
First ==
  {[side |-> s, lots |-> n, open |-> 100, sl |-> IF g = 0 THEN 0 ELSE IF s = "BUY" THEN 100 + g ELSE 100 - g,
    profit |-> -4] :
     s \in Sides, n \in {1, 3, 10}, g \in {0, -10, 3, 6}}
Second ==
  {[side |-> s, lots |-> 5, open |-> o, sl |-> l, profit |-> -4] :
     s \in Sides, o \in {94, 108}, l \in {90}}

Alone == {[t \in {1} |-> a] : a \in First}
Together ==
  {[t \in {1, 2} |-> IF t = 1 THEN p[1] ELSE p[2]] :
     p \in {q \in First \X Second : q[1].lots = 10 /\ (q[1].side = q[2].side \/ q[2].open = 94)}}

State(o, tp1, tp2, be, max, best, n, tr) ==
  [openTime |-> o, tp1 |-> tp1, tp2 |-> tp2, be |-> be, max |-> max, best |-> best,
   addOns |-> n, avg |-> 0, trailing |-> tr]

\* Nothing reached yet, break-even, first target, both targets with an old add-on, and
\* a trailing close that was sent.
SomeStates ==
  {State(0, FALSE, FALSE, FALSE, 0, 0, 0, FALSE),
   State(0, FALSE, FALSE, TRUE, 16, 100, 0, FALSE),
   State(0, TRUE, FALSE, TRUE, 28, 103, 0, FALSE),
   State(0, TRUE, TRUE, TRUE, 40, 106, 1, FALSE),
   State(0, TRUE, FALSE, TRUE, 28, 100, 1, TRUE)}

StoredForOne == {[t \in {} |-> 0]} \cup {[t \in {1} |-> a] : a \in SomeStates}
StoredForBoth == {[t \in {1, 2} |-> IF t = 1 THEN a ELSE b] :
                    a \in SomeStates, b \in {s \in SomeStates : s.max \in {0, 40} \/ s.trailing}}

\* Prices around the two open prices; one indicator says something at a time.
Says(near, fading, weak, reversing, quiet) ==
  [near |-> near, fading |-> fading, weak |-> weak, reversing |-> reversing, quiet |-> quiet]
MCMarkets ==
  {[price |-> p, now |-> h, tp1 |-> 15, tp2 |-> 30, near |-> i.near, fading |-> i.fading,
    weak |-> i.weak, reversing |-> i.reversing, quiet |-> i.quiet, equity |-> 100] :
     p \in {70, 104, 110, 116, 131}, h \in {0, 30, 73},
     i \in {Says({}, {}, {}, {}, FALSE), Says(Sides, {}, {}, {}, FALSE),
            Says({}, Sides, Sides, {}, FALSE), Says({}, {}, {}, Sides, TRUE)}}

MCEvaluations ==
  [P : Alone, states : StoredForOne, m : MCMarkets]
  \cup [P : Together, states : StoredForOne \cup StoredForBoth, m : MCMarkets]
=============================================================================
