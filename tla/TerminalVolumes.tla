--------------------------- MODULE TerminalVolumes ---------------------------
(***************************************************************************)
(* Order volumes as the two terminal programs compute them.  Volumes are   *)
(* natural numbers in a unit finer than the broker's volume step, so that  *)
(* the rounding of the programs is visible; the tolerances that absorb the *)
(* noise of floating point numbers are zero here.                          *)
(***************************************************************************)
EXTENDS Integers

CONSTANTS
  Step,      \* the broker's volume step, in the unit of volumes
  MinLots,   \* smallest volume of an order
  MaxLots    \* largest volume of an order

\* What a broker answers for a symbol: a positive step, and limits that are
\* whole steps.
ASSUME VolumeAssumption ==
  /\ Step \in Nat \ {0}
  /\ MinLots \in Nat \ {0}
  /\ MaxLots \in Nat
  /\ MinLots <= MaxLots
  /\ MinLots % Step = 0
  /\ MaxLots % Step = 0

\* The two sides of a comparison.
Larger(a, b) == IF a >= b THEN a ELSE b
Smaller(a, b) == IF a <= b THEN a ELSE b

\* The largest multiple of the step that fits in a volume.
WholeSteps(lots) == (lots \div Step) * Step

\* Volume of a new order: within the limits, whole steps, never below the
\* smallest volume.
NormalizeVolume(lots) ==
  Larger(MinLots, WholeSteps(Larger(MinLots, Smaller(MaxLots, lots))))

\* Volume of a partial close on MT5: nothing when less than the smallest
\* volume is left.
NormalizeCloseVolume(lots) ==
  LET whole == WholeSteps(Larger(0, Smaller(MaxLots, lots)))
  IN  IF whole < MinLots THEN 0 ELSE whole

NoSplit == [near |-> 0, far |-> 0]

\* Shares of a total: six tenths for the near target, four tenths for the
\* far one, what the rounding of both left over goes to the near one.
Shares(total) ==
  LET far  == WholeSteps((4 * total) \div 10)
      near == WholeSteps((6 * total) \div 10)
  IN  [near |-> near + WholeSteps(total - near - far), far |-> far]

\* Both shares can be ordered and together are no more than was asked.
Orderable(shares, total) ==
  /\ shares.near >= MinLots
  /\ shares.far >= MinLots
  /\ shares.near + shares.far <= total

\* SplitLotsForMultiTP_MT5: two orders of one signal, or no split.
SplitLots5(total) ==
  LET whole  == WholeSteps(total)
      shares == Shares(whole)
  IN  IF 2 * MinLots <= whole /\ Orderable(shares, whole) THEN shares ELSE NoSplit

\* SplitLotsForMultiTP of MT4: the total is first made a legal order volume,
\* which may only make it smaller.
SplitLots4(total) ==
  LET whole  == NormalizeVolume(total)
      shares == Shares(whole)
  IN  IF whole <= total /\ 2 * MinLots <= whole /\ Orderable(shares, whole)
      THEN shares ELSE NoSplit

\* CalcLotsWithConfig: the configured volume, the one of the symbol's map
\* before the default one, or the volume whose loss at the stop is the risked
\* part of the equity; "worth" is what one unit of volume loses per point.
CalcLots(config) ==
  IF config.fixed
  THEN NormalizeVolume(IF config.mapped > 0 THEN config.mapped ELSE config.default)
  ELSE IF config.worth = 0 \/ config.distance = 0
       THEN NormalizeVolume(1)
       ELSE NormalizeVolume(Larger(1, (config.equity * config.percent)
                                      \div (100 * config.distance * config.worth)))
=============================================================================
