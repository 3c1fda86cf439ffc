---------------------------- MODULE MCLiveSignals ----------------------------
(* Values of the constants of LiveSignals for TLC. *)
EXTENDS LiveSignals, TLC

Beat(enabled, equity) == [live |-> TRUE, enabled |-> enabled, equity |-> equity]
Closed == [live |-> FALSE, enabled |-> TRUE, equity |-> 100]
Chart(band, m30, other) == [band |-> band, m30 |-> m30, other |-> other]
Quote(price, suggested) == [price |-> price, suggested |-> suggested]
Scene(store, kinds, heartbeats, charts, quotes, stops, n) ==
  [store |-> store, kinds |-> kinds, heartbeats |-> heartbeats, charts |-> charts,
   quotes |-> quotes, stops |-> stops, changes |-> n]

\* The account's first equity, a loss of five percent, a strategy switched off.
Losses(store, n) ==
  Scene(store, {"bars"}, {Beat(TRUE, 100), Beat(TRUE, 95), Beat(FALSE, 0), Closed},
        {Chart(0, 1, TRUE)}, {Quote(100, 0)}, {}, n)

\* Breakouts that the M30 bars confirm, refuse or do not know.
Breakouts(store, n) ==
  Scene(store, {"bars"}, {Beat(TRUE, 0)},
        {Chart(2, 3, FALSE), Chart(2, 1, TRUE), Chart(2, 0, FALSE)}, {Quote(100, 0)}, {}, n)

\* Positions in profit of more than 1.5 ATR, or less, and a stop the AI suggests.
Reviews(store, n) ==
  Scene(store, {"positions"}, {Beat(TRUE, 0)}, {Chart(0, 1, FALSE), Chart(0, 1, TRUE)},
        {Quote(120, 110), Quote(112, 110)}, {80}, n)

MCScenes == {Losses("sqlite", 2), Losses("postgres", 2), Breakouts("sqlite", 2),
             Breakouts("postgres", 1), Reviews("sqlite", 3), Reviews("postgres", 1)}

RequestSymmetry == Permutations(Requests)

=============================================================================
