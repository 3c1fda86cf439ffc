---------------------------- MODULE MCArbitration ----------------------------
(* Values of the constants of Arbitration for TLC. *)
EXTENDS Arbitration

CONSTANTS a1, s1, s2

OneAccount == [s \in Signals |-> a1]

=============================================================================
