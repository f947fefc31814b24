---------------------------- MODULE MCNiceArray -----------------------------
(* The accelerator's dimensions, and a driver that classifies two images in  *)
(* turn, for ever.                                                           *)
EXTENDS NiceArray

RealSize == [conv1 |-> 45, conv2 |-> 225, fc1 |-> 200, fc2 |-> 100, input |-> 784]
RealCntCycles == [conv1 |-> 12, conv2 |-> 57, fc1 |-> 50, fc2 |-> 25, input |-> 196]
RealCalCycles == [conv1 |-> 158, conv2 |-> 30, fc1 |-> 16, fc2 |-> 17]
RealBlocks == [conv1 |-> 1, conv2 |-> 5, fc1 |-> 4, fc2 |-> 2]
RealBases == [conv1 |-> {0}, conv2 |-> {64}, fc1 |-> {512}, fc2 |-> {1024}, input |-> {4096, 8192}]
OneCycle == [op \in Loads |-> 1]
RealProgram ==
    << [op |-> "conv1", base |-> 0], [op |-> "conv2", base |-> 64],
       [op |-> "fc1", base |-> 512], [op |-> "fc2", base |-> 1024],
       [op |-> "input", base |-> 4096], [op |-> "input", base |-> 8192] >>
=============================================================================
