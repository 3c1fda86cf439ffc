--------------------------- MODULE MCPositionReview ---------------------------
(* Values of the constants of PositionReview for TLC. *)
EXTENDS PositionReview

\* One position opened at 100 with its stop at 90; another half its size may follow.
OneBuy == [t \in {1} |-> [side |-> "BUY", lots |-> 10, open |-> 100, sl |-> 90, profit |-> 0]]
HalfBuy == [side |-> "BUY", lots |-> 5, stop |-> 10]

\* The indicators say nothing, or that the price is near a key level.
Silent == [now |-> 0, tp1 |-> 15, tp2 |-> 30, near |-> {}, fading |-> {}, weak |-> {}, reversing |-> {},
           quiet |-> FALSE, equity |-> 0]
NoSign == {Silent}
TwoSigns == {Silent, [Silent EXCEPT !.near = {"BUY"}]}

=============================================================================
