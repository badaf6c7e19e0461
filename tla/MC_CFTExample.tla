--------------------------- MODULE MC_CFTExample ---------------------------
(* The example scaled down: 3 rounds instead of 20 and a poll budget of 45 *)
(* instead of 300, which keeps the code's ratio of poll budget to         *)
(* publishing time (3 : 1). Launches within 35 ticks cover a subscriber   *)
(* started before, during and after the publisher, and one that times out.*)
EXTENDS CFTExample, TLC

CONSTANTS GE, MSFT

MC_Tickers == {GE, MSFT}

MC_Symmetry == Permutations(MC_Tickers)
=============================================================================
