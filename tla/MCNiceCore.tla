----------------------------- MODULE MCNiceCore ------------------------------
(* Dimensions for model checking NiceCore: a small array whose buffers still *)
(* end in the middle of a word.                                              *)
EXTENDS NiceCore

SmallSize == [conv1 |-> 5, conv2 |-> 9, fc1 |-> 8, fc2 |-> 4, input |-> 8]
SmallCntCycles == [conv1 |-> 2, conv2 |-> 3, fc1 |-> 2, fc2 |-> 1, input |-> 2]
SmallCalCycles == [conv1 |-> 3, conv2 |-> 2, fc1 |-> 1, fc2 |-> 2]
SmallBases == [op \in Loads |-> {0, 100}]
\* The fully connected loaders work from a one-cycle memory only, the others
\* from any.
FcInTcm == [op \in Loads |-> IF op \in {"fc1", "fc2"} THEN 1 ELSE 3]
TwoCycles == [op \in Loads |-> 2]
OneBase == [op \in Loads |-> {0}]
SmallBlocks == [conv1 |-> 1, conv2 |-> 3, fc1 |-> 2, fc2 |-> 2]
=============================================================================
