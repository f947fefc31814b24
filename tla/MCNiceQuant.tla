---------------------------- MODULE MCNiceQuant -----------------------------
(* Accumulators on both sides of every step of the three scales and of both  *)
(* clamps; scores with ties and with the smallest integer.                   *)
EXTENDS NiceQuant

RealZeroPoint == [conv1 |-> 159, conv2 |-> 118, fc1 |-> 107]
EdgeAcc == {-40000, -4097, -1, 0, 1023, 4095, 4096, 28000, 29600, 60000}
EdgeScores == {MinInt, -1, 0, 7}
=============================================================================
