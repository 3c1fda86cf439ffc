-------------------------- MODULE MCCommandLifecycle --------------------------
(* Values of the constants of CommandLifecycle for TLC. *)
EXTENDS CommandLifecycle, TLC

CONSTANT a1

\* Both commands belong to one account.
OneAccount == [c \in Commands |-> a1]

\* The handlers of /poll are interchangeable.
PollSymmetry == Permutations(Polls)

=============================================================================
