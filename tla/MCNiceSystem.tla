---------------------------- MODULE MCNiceSystem -----------------------------
(* A small accelerator (one word per buffer, one pass per layer) in a core  *)
(* with the E203's queues and one register.                                 *)
EXTENDS NiceSystem

OneWord == [op \in Loads |-> 4]
OneCycle == [op \in Loads |-> 1]
TwoCycles == [op \in Loads |-> 2]
OnePass == [l \in Layers |-> 1]
AtZero == [op \in Loads |-> {0}]

Insn(k, o, d, s) == [kind |-> k, op |-> o, rd |-> d, rs |-> s]
Decoded == {
    Insn("alu", "none", 1, {}), Insn("alu", "none", NoReg, {1}),
    Insn("csr", "none", 1, {}), Insn("csr", "none", NoReg, {}),
    Insn("mem", "none", 1, {}), Insn("mem", "none", NoReg, {1}),
    Insn("nice", "conv1", NoReg, {}), Insn("nice", "input", 1, {})}
Program == Decoded \union {Insn("nice", "none", NoReg, {})}
=============================================================================
