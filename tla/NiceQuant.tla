------------------------------ MODULE NiceQuant -----------------------------
(***************************************************************************)
(* The numbers behind NiceArray: how e203_subsys_nice_core.sv quantises,   *)
(* pools and compares the accumulators of one result, against the C        *)
(* reference of c/insn.c.  The accelerator quantises every accumulator as  *)
(* it leaves the array and pools four stored bytes when the next layer     *)
(* reads them; the reference pools the accumulators and quantises once.    *)
(* One step is one accumulator leaving the array.                          *)
(***************************************************************************)
EXTENDS Integers

CONSTANTS
    ZeroPoint,   \* conv1_out_zp, conv2_out_zp, fc1_out_zp
    Acc,         \* the accumulators considered, bias included
    Scores,      \* the outputs of fc2 considered
    Classes,     \* FC2_OUT_WIDTH
    MaxInt       \* the largest int32_t, 2^31 - 1

Quads == {"conv1", "conv2"}
Layer == Quads \union {"fc1", "fc2"}
MinInt == - MaxInt - 1

\* int32 holds every sum below: accumulators stay under 2^30 (an output adds
\* at most 20 products of two 9-bit numbers and a bias).
ASSUME WidthAssumption == MaxInt \in Nat
ASSUME ZeroAssumption  == ZeroPoint \in [Layer \ {"fc2"} -> 0 .. 255]
ASSUME AccAssumption   == Acc \subseteq - (MaxInt \div 2) .. MaxInt \div 2
ASSUME ScoreAssumption == Scores \subseteq MinInt .. MaxInt
ASSUME ClassAssumption == Classes \in Nat \ {0}

VARIABLES
    layer,  \* the layer the accumulators belong to
    acc,    \* the accumulators, in the order they leave the array
    n,      \* how many have left it
    reg,    \* conv1_output_reg, conv2_output_reg, fc1_output_reg
    best,   \* result_max_buffer
    idx     \* result_max_idx

vars == <<layer, acc, n, reg, best, idx>>

Byte(x) == x % 256     \* a number assigned to a uint8_t

-----------------------------------------------------------------------------
(* The scales 1/510, 1/216 and 1/206, the same in both programs.  A shift  *)
(* right by k, arithmetic in both, is a division by 2^k rounded down.      *)

Scaled(l, x) ==
    IF l = "conv1" THEN (x + (x \div 256)) \div 512
    ELSE IF l = "conv2" THEN (x \div 256) + (x \div 1024) - (x \div 4096)
    ELSE (x \div 256) + (x \div 1024)

(* c/insn.c *)
ClampU8(x)  == IF x < 0 THEN 0 ELSE IF x > 255 THEN 255 ELSE x
Quant(l, x) == ClampU8(Scaled(l, x) + ZeroPoint[l])
Relu(x, zp) == IF x < zp THEN zp ELSE x
Larger(x, y) == IF y > x THEN y ELSE x
Pool(a, b, c, d) == Larger(Larger(Larger(a, b), c), d)

(* e203_subsys_nice_core.sv *)

\* (mutant) conv2 is not clamped from above
HwQuantWide(l, x) ==
    LET y == Scaled(l, x) + ZeroPoint[l] IN
    IF l = "fc1" THEN IF y < 0 THEN 0 ELSE IF y > 255 THEN -1 ELSE y
    ELSE IF y < ZeroPoint[l] THEN ZeroPoint[l] ELSE IF l = "conv2" THEN y ELSE ClampU8(y)

\* sa_output_res and sa_output_sum.  A convolution clamps to its zero point,
\* which is its relu.  The upper clamp of fc1 is the signed literal 8'sd255
\* in a signed expression, that is -1; in conv2's the unsigned zero point
\* makes the expression unsigned and the literal 255.
HwQuant(l, x) ==
    LET y == Scaled(l, x) + ZeroPoint[l] IN
    IF l = "fc1" THEN IF y < 0 THEN 0 ELSE IF y > 255 THEN -1 ELSE y
    ELSE IF y < ZeroPoint[l] THEN ZeroPoint[l] ELSE IF y > 255 THEN 255 ELSE y

\* (mutant) the pool compares the registers as they are
HwPoolRaw(a, b, c, d) == Larger(Larger(b, a), Larger(d, c))

\* The pool in sa_input_res compares bytes.
HwPool(a, b, c, d) == Larger(Larger(Byte(b), Byte(a)), Larger(Byte(d), Byte(c)))

-----------------------------------------------------------------------------
Inputs(l) == IF l = "fc2" THEN [1 .. Classes -> Scores]
             ELSE IF l = "fc1" THEN [1 .. 1 -> Acc] ELSE [1 .. 4 -> Acc]
Lanes(l)  == IF l = "fc2" THEN Classes ELSE IF l = "fc1" THEN 1 ELSE 4

Init ==
    /\ layer \in Layer
    /\ acc \in Inputs(layer)
    /\ n = 0
    /\ reg = [i \in 1 .. 4 |-> 0]
    /\ best = MinInt /\ idx = 0

\* conv1_output_reg <= sa_output_res, conv2_output_reg, fc1_output_reg <= sa_output_sum
Output ==
    /\ layer # "fc2" /\ n < Lanes(layer)
    /\ n' = n + 1
    /\ reg' = [reg EXCEPT ![n + 1] = HwQuant(layer, acc[n + 1])]
    /\ UNCHANGED <<layer, acc, best, idx>>

\* (mutant) an equal score replaces the maximum
BeatsEqual(x) == x >= best
Beats(x) == x > best

\* fc2: each score is compared with result_max_buffer
Compare ==
    /\ layer = "fc2" /\ n < Lanes(layer)
    /\ n' = n + 1
    /\ IF Beats(acc[n + 1])
       THEN best' = acc[n + 1] /\ idx' = n
       ELSE UNCHANGED <<best, idx>>
    /\ UNCHANGED <<layer, acc, reg>>

Next == Output \/ Compare
Spec == Init /\ [][Next]_vars

-----------------------------------------------------------------------------
(* Properties *)

TypeOK ==
    /\ layer \in Layer /\ acc \in Inputs(layer)
    /\ n \in 0 .. Lanes(layer)
    /\ reg \in [1 .. 4 -> -1 .. 255]
    /\ best \in Int /\ idx \in Int

\* What the next layer reads is what the reference computes: quantising four
\* accumulators and pooling the bytes gives the byte that pooling and then
\* quantising with relu does (sa_input_res against pool23_cal, quant_conv1/2
\* and relu), and the byte fc2 reads is the reference's (quant_fc1).
SameBytes ==
    n = Lanes(layer) =>
        /\ layer \in Quads =>
              HwPool(reg[1], reg[2], reg[3], reg[4]) =
              Relu(Quant(layer, Pool(acc[1], acc[2], acc[3], acc[4])), ZeroPoint[layer])
        /\ layer = "fc1" =>
              HwPool(reg[1], reg[1], reg[1], reg[1]) = Quant("fc1", acc[1])

\* The index returned is the reference's: the first of the largest scores
\* (result_max_idx, which starts from the smallest integer, against max_idx,
\* which starts from the first score).
SameClass ==
    layer = "fc2" /\ n = Classes =>
        /\ idx \in 0 .. Classes - 1
        /\ \A i \in 1 .. Classes : acc[i] <= acc[idx + 1]
        /\ \A i \in 1 .. idx : acc[i] < acc[idx + 1]

=============================================================================
