---------------------------- MODULE MCAIApproveGate ----------------------------
(* Values of the constants of AIApproveGate for TLC. *)
EXTENDS AIApproveGate, TLC

CONSTANTS a1, a2, xau, r1, r2, r3, r4

\* r4 belongs to the second account, r3 carries a buy and a sell plan.
MCAccountOf == [r \in Requests |-> IF r = r4 THEN a2 ELSE a1]
MCSymbolOf == [r \in Requests |-> xau]
MCPlansOf == [r \in Requests |-> IF r = r3 THEN <<"buy", "sell">> ELSE <<"buy">>]

AllCutover == [a \in Accounts |-> "cutover"]

\* Requests of the first account with one buy plan are interchangeable.
RequestSymmetry == Permutations({r1, r2})

=============================================================================
