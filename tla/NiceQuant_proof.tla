-------------------------- MODULE NiceQuant_proof ---------------------------
(***************************************************************************)
(* Proofs about NiceQuant, for every zero point, every accumulator, every  *)
(* number of classes and every vector of scores.                           *)
(***************************************************************************)
EXTENDS NiceQuant, TLAPS

-----------------------------------------------------------------------------
(* Quantising is monotone, so it commutes with the maximum. *)

\* A scale never turns a larger accumulator into a smaller number.  conv2's
\* subtracts a term, but gains at least as much with the one before it.
LEMMA ScaledMonotone ==
    ASSUME NEW l, NEW a \in Int, NEW b \in Int, a <= b
    PROVE  Scaled(l, a) \in Int /\ Scaled(l, b) \in Int /\ Scaled(l, a) <= Scaled(l, b)
  <1>1. Scaled(l, a) \in Int /\ Scaled(l, b) \in Int
    BY DEF Scaled
  <1>2. a \div 256 <= b \div 256 /\ a \div 1024 <= b \div 1024
    OBVIOUS
  <1>3. (a \div 1024) - (a \div 4096) <= (b \div 1024) - (b \div 4096)
    OBVIOUS
  <1>4. (a + (a \div 256)) \div 512 <= (b + (b \div 256)) \div 512
    BY <1>2
  <1>5. Scaled(l, a) <= Scaled(l, b)
    BY <1>2, <1>3, <1>4 DEF Scaled
  <1>6. QED BY <1>1, <1>5

\* The accelerator's clamp to [zero point, 255] is the reference's clamp to
\* [0, 255] followed by its relu.
LEMMA ConvQuant ==
    ASSUME NEW l \in Quads, NEW x \in Int
    PROVE  /\ HwQuant(l, x) = Relu(Quant(l, x), ZeroPoint[l])
           /\ HwQuant(l, x) \in 0 .. 255
  <1>1. ZeroPoint[l] \in 0 .. 255 /\ l # "fc1"
    BY ZeroAssumption DEF Quads, Layer
  <1>2. Scaled(l, x) \in Int
    BY ScaledMonotone
  <1> DEFINE z == ZeroPoint[l]
             y == Scaled(l, x) + z
  <1>3. HwQuant(l, x) = IF y < z THEN z ELSE IF y > 255 THEN 255 ELSE y
    BY <1>1 DEF HwQuant
  <1>4. Relu(Quant(l, x), z) = IF ClampU8(y) < z THEN z ELSE ClampU8(y)
    BY DEF Relu, Quant
  <1>5. y \in Int /\ z \in 0 .. 255
    BY <1>1, <1>2
  <1> HIDE DEF y, z
  <1>6. (IF y < z THEN z ELSE IF y > 255 THEN 255 ELSE y) =
        (IF ClampU8(y) < z THEN z ELSE ClampU8(y))
    BY <1>5 DEF ClampU8
  <1>7. HwQuant(l, x) \in 0 .. 255
    BY <1>3, <1>5
  <1>8. QED BY <1>3, <1>4, <1>6, <1>7 DEF z

\* The two clamps of a convolution, from its zero point up.
Clamped(z, y) == IF y < z THEN z ELSE IF y > 255 THEN 255 ELSE y

\* A convolution is clamped that way.
LEMMA ConvForm ==
    ASSUME NEW l \in Quads, NEW x
    PROVE  HwQuant(l, x) = Clamped(ZeroPoint[l], Scaled(l, x) + ZeroPoint[l])
  <1>1. l # "fc1"
    BY DEF Quads
  <1>2. QED BY <1>1 DEF HwQuant, Clamped

\* Clamping is monotone.
LEMMA ClampedMonotone ==
    ASSUME NEW z \in 0 .. 255, NEW y \in Int, NEW w \in Int, y <= w
    PROVE  Clamped(z, y) <= Clamped(z, w)
  BY DEF Clamped

\* Quantising a convolution is monotone.
LEMMA ConvMonotone ==
    ASSUME NEW l \in Quads, NEW a \in Int, NEW b \in Int, a <= b
    PROVE  HwQuant(l, a) <= HwQuant(l, b)
  <1>1. ZeroPoint[l] \in 0 .. 255
    BY ZeroAssumption DEF Quads, Layer
  <1>2. Scaled(l, a) \in Int /\ Scaled(l, b) \in Int /\ Scaled(l, a) <= Scaled(l, b)
    BY ScaledMonotone
  <1> DEFINE z == ZeroPoint[l]
             ya == Scaled(l, a) + z
             yb == Scaled(l, b) + z
  <1>3. HwQuant(l, a) = Clamped(z, ya) /\ HwQuant(l, b) = Clamped(z, yb)
    BY ConvForm
  <1>4. z \in 0 .. 255 /\ ya \in Int /\ yb \in Int
    BY <1>1, <1>2
  <1>5. ya <= yb
    BY <1>1, <1>2
  <1> HIDE DEF z, ya, yb
  <1>6. Clamped(z, ya) <= Clamped(z, yb)
    BY <1>4, <1>5, ClampedMonotone
  <1>7. QED BY <1>3, <1>6

\* The larger of two quantised accumulators is the larger one quantised.
LEMMA LargerQuant ==
    ASSUME NEW l \in Quads, NEW a \in Int, NEW b \in Int
    PROVE  /\ Larger(a, b) \in Int
           /\ Larger(HwQuant(l, a), HwQuant(l, b)) = HwQuant(l, Larger(a, b))
  <1>1. HwQuant(l, a) \in Int /\ HwQuant(l, b) \in Int
    <2>1. HwQuant(l, a) \in 0 .. 255
      BY ConvQuant
    <2>2. HwQuant(l, b) \in 0 .. 255
      BY ConvQuant
    <2>3. QED BY <2>1, <2>2
  <1>2. a <= b => HwQuant(l, a) <= HwQuant(l, b)
    BY ConvMonotone
  <1>3. b <= a => HwQuant(l, b) <= HwQuant(l, a)
    BY ConvMonotone
  <1>4. QED BY <1>1, <1>2, <1>3 DEF Larger

\* Quantising four accumulators and pooling the bytes in the hardware's order
\* gives what quantising the reference's pool of the accumulators gives.
LEMMA PoolQuant ==
    ASSUME NEW l \in Quads, NEW a \in Int, NEW b \in Int, NEW c \in Int, NEW d \in Int
    PROVE  HwPool(HwQuant(l, a), HwQuant(l, b), HwQuant(l, c), HwQuant(l, d)) =
           Relu(Quant(l, Pool(a, b, c, d)), ZeroPoint[l])
  <1>1. \A x \in Int : Byte(HwQuant(l, x)) = HwQuant(l, x)
    <2> SUFFICES ASSUME NEW x \in Int PROVE Byte(HwQuant(l, x)) = HwQuant(l, x)
      OBVIOUS
    <2>1. HwQuant(l, x) \in 0 .. 255
      BY ConvQuant
    <2>2. QED BY <2>1 DEF Byte
  <1>2. Larger(b, a) \in Int /\ Larger(d, c) \in Int
    BY DEF Larger
  <1>3. HwPool(HwQuant(l, a), HwQuant(l, b), HwQuant(l, c), HwQuant(l, d)) =
        HwQuant(l, Larger(Larger(b, a), Larger(d, c)))
    BY <1>1, <1>2, LargerQuant DEF HwPool
  <1>4. Larger(Larger(b, a), Larger(d, c)) = Pool(a, b, c, d) /\ Pool(a, b, c, d) \in Int
    BY DEF Larger, Pool
  <1>5. QED BY <1>3, <1>4, ConvQuant

\* fc1 stores -1 for a saturated output; the byte fc2 reads is 255.
LEMMA FcQuant ==
    ASSUME NEW x \in Int
    PROVE  /\ HwQuant("fc1", x) \in -1 .. 255
           /\ HwPool(HwQuant("fc1", x), HwQuant("fc1", x), HwQuant("fc1", x), HwQuant("fc1", x))
                = Quant("fc1", x)
  <1>1. ZeroPoint["fc1"] \in 0 .. 255
    BY ZeroAssumption DEF Quads, Layer
  <1>2. Scaled("fc1", x) \in Int
    BY ScaledMonotone
  <1> DEFINE y == Scaled("fc1", x) + ZeroPoint["fc1"]
             h == HwQuant("fc1", x)
  <1>3. h = IF y < 0 THEN 0 ELSE IF y > 255 THEN -1 ELSE y
    BY DEF HwQuant
  <1>4. y \in Int /\ Quant("fc1", x) = ClampU8(y)
    BY <1>1, <1>2 DEF Quant
  <1> HIDE DEF y, h
  <1>5. h \in -1 .. 255 /\ Byte(h) = ClampU8(y)
    BY <1>3, <1>4 DEF Byte, ClampU8
  <1>6. HwPool(h, h, h, h) = Byte(h)
    BY DEF HwPool, Larger
  <1>7. QED BY <1>4, <1>5, <1>6 DEF h

-----------------------------------------------------------------------------
(* The inductive invariant. *)

\* The registers hold the outputs quantised so far.
Stored == layer # "fc2" => \A i \in 1 .. 4 : i <= n => reg[i] = HwQuant(layer, acc[i])

\* result_max_buffer is the maximum of the scores so far and result_max_idx
\* its first position; before the first score they are as reset.
Champion ==
    layer = "fc2" =>
        /\ n = 0 => best = MinInt /\ idx = 0
        /\ n > 0 => idx \in 0 .. n - 1 /\ acc[idx + 1] = best
        /\ \A i \in 1 .. Classes : i <= n => acc[i] <= best
        /\ \A i \in 1 .. Classes : i <= idx => acc[i] < best

IInv == TypeOK /\ Stored /\ Champion

\* What the inputs of a layer are.
LEMMA InputTyping ==
    ASSUME TypeOK
    PROVE  /\ layer = "fc2" => /\ Lanes(layer) = Classes
                               /\ \A i \in 1 .. Classes : acc[i] \in MinInt .. MaxInt
           /\ layer \in Quads => /\ Lanes(layer) = 4
                                 /\ \A i \in 1 .. 4 : acc[i] \in Int
           /\ layer = "fc1" => Lanes(layer) = 1 /\ acc[1] \in Int
  <1>1. Scores \subseteq MinInt .. MaxInt /\ Acc \subseteq Int
    BY ScoreAssumption, AccAssumption, WidthAssumption
  <1>2. acc \in Inputs(layer)
    BY DEF TypeOK
  <1>3. CASE layer = "fc2"
    <2>1. layer \notin Quads /\ layer # "fc1"
      BY <1>3 DEF Quads
    <2>2. Lanes(layer) = Classes /\ acc \in [1 .. Classes -> Scores]
      BY <1>2, <1>3 DEF Inputs, Lanes
    <2>3. QED BY <2>1, <2>2, <1>1
  <1>4. CASE layer = "fc1"
    <2>1. layer \notin Quads /\ layer # "fc2"
      BY <1>4 DEF Quads
    <2>2. Lanes(layer) = 1 /\ acc \in [1 .. 1 -> Acc]
      BY <2>1, <1>2, <1>4 DEF Inputs, Lanes
    <2>3. acc[1] \in Acc
      BY <2>2
    <2>4. QED BY <2>1, <2>2, <2>3, <1>1
  <1>5. CASE layer \in Quads
    <2>1. layer # "fc1" /\ layer # "fc2"
      BY <1>5 DEF Quads
    <2>2. Lanes(layer) = 4 /\ acc \in [1 .. 4 -> Acc]
      BY <2>1, <1>2 DEF Inputs, Lanes
    <2>3. QED BY <2>1, <2>2, <1>1
  <1>6. layer \in Layer
    BY DEF TypeOK
  <1>7. QED BY <1>3, <1>4, <1>5, <1>6 DEF Layer

\* The initial states satisfy the invariant.
LEMMA InitInv ==
    ASSUME Init PROVE IInv
  <1>1. TypeOK
    <2>1. Lanes(layer) \in Nat
      BY ClassAssumption DEF Lanes
    <2>2. QED BY <2>1, WidthAssumption DEF Init, TypeOK, MinInt
  <1>2. Stored
    BY DEF Init, Stored
  <1>3. Champion
    BY ClassAssumption DEF Init, Champion
  <1>4. QED BY <1>1, <1>2, <1>3 DEF IInv

\* An output stores one more quantised accumulator.
LEMMA OutputStep ==
    ASSUME IInv, Output PROVE IInv'
  <1>1. /\ layer' = layer /\ acc' = acc /\ best' = best /\ idx' = idx
        /\ n' = n + 1 /\ n < Lanes(layer) /\ layer # "fc2"
        /\ n \in Nat /\ layer \in Layer /\ reg \in [1 .. 4 -> -1 .. 255]
    <2>1. /\ layer' = layer /\ acc' = acc /\ best' = best /\ idx' = idx
          /\ n' = n + 1 /\ n < Lanes(layer) /\ layer # "fc2"
      BY DEF Output
    <2>2. n \in Nat /\ layer \in Layer /\ reg \in [1 .. 4 -> -1 .. 255]
      BY DEF IInv, TypeOK
    <2>3. QED BY <2>1, <2>2
  <1>2. Lanes(layer) \in 1 .. 4 /\ acc[n + 1] \in Int
    BY <1>1, InputTyping DEF Layer, IInv, Quads
  <1>3. n + 1 \in 1 .. 4
    BY <1>1, <1>2
  <1>4. HwQuant(layer, acc[n + 1]) \in -1 .. 255
    <2>1. CASE layer = "fc1"
      BY <1>2, <2>1, FcQuant
    <2>2. CASE layer \in Quads
      <3>1. HwQuant(layer, acc[n + 1]) \in 0 .. 255
        BY <1>2, <2>2, ConvQuant
      <3>2. QED BY <3>1
    <2>3. QED BY <1>1, <2>1, <2>2 DEF Layer
  <1>5. reg' = [reg EXCEPT ![n + 1] = HwQuant(layer, acc[n + 1])]
    BY DEF Output
  <1>6. TypeOK'
    <2>1. reg' \in [1 .. 4 -> -1 .. 255]
      BY <1>1, <1>3, <1>4, <1>5
    <2>2. Lanes(layer)' = Lanes(layer) /\ Inputs(layer)' = Inputs(layer)
      BY <1>1 DEF Lanes, Inputs
    <2>3. n' \in 0 .. Lanes(layer)
      BY <1>1, <1>2
    <2>4. QED BY <1>1, <2>1, <2>2, <2>3 DEF TypeOK, IInv
  <1>7. Stored'
    <2> SUFFICES ASSUME NEW i \in 1 .. 4, i <= n + 1
                 PROVE  reg'[i] = HwQuant(layer, acc[i])
      BY <1>1 DEF Stored
    <2>1. CASE i = n + 1
      BY <2>1, <1>1, <1>3, <1>5
    <2>2. CASE i <= n
      BY <2>2, <1>1, <1>5 DEF IInv, Stored
    <2>3. QED BY <2>1, <2>2, <1>1
  <1>8. Champion'
    BY <1>1 DEF Champion
  <1>9. QED BY <1>6, <1>7, <1>8 DEF IInv

\* A comparison keeps the first of the largest scores.
LEMMA CompareStep ==
    ASSUME IInv, Compare PROVE IInv'
  <1>1. /\ layer' = layer /\ acc' = acc /\ reg' = reg
        /\ n' = n + 1 /\ n < Lanes(layer) /\ layer = "fc2" /\ n \in Nat
        /\ best \in Int /\ idx \in Int
    BY DEF Compare, IInv, TypeOK
  <1>2. /\ Lanes(layer) = Classes /\ Classes \in Nat
        /\ \A i \in 1 .. Classes : acc[i] \in Int /\ acc[i] >= MinInt
    BY <1>1, InputTyping, ClassAssumption, WidthAssumption DEF IInv, MinInt
  <1>3. n + 1 \in 1 .. Classes /\ acc[n + 1] \in Int /\ acc[n + 1] >= MinInt
    BY <1>1, <1>2
  <1>4. /\ acc[n + 1] > best => best' = acc[n + 1] /\ idx' = n
        /\ ~(acc[n + 1] > best) => best' = best /\ idx' = idx
    BY DEF Compare, Beats
  <1>5. TypeOK'
    <2>1. Lanes(layer)' = Lanes(layer) /\ Inputs(layer)' = Inputs(layer)
      BY <1>1 DEF Lanes, Inputs
    <2>2. n' \in 0 .. Lanes(layer)
      BY <1>1, <1>2
    <2>3. best' \in Int /\ idx' \in Int
      BY <1>1, <1>3, <1>4
    <2>4. QED BY <1>1, <2>1, <2>2, <2>3 DEF TypeOK, IInv
  <1>6. Stored'
    BY <1>1 DEF Stored
  <1>7. Champion'
    <2>1. /\ n = 0 => best = MinInt /\ idx = 0
          /\ n > 0 => idx \in 0 .. n - 1 /\ acc[idx + 1] = best
          /\ \A i \in 1 .. Classes : i <= n => acc[i] <= best
          /\ \A i \in 1 .. Classes : i <= idx => acc[i] < best
      BY <1>1 DEF IInv, Champion
    <2>2. idx' \in 0 .. n /\ acc[idx' + 1] = best'
      <3>1. CASE acc[n + 1] > best
        BY <3>1, <1>1, <1>4
      <3>2. CASE ~(acc[n + 1] > best) /\ n = 0
        BY <3>2, <1>1, <1>3, <1>4, <2>1, WidthAssumption DEF MinInt
      <3>3. CASE ~(acc[n + 1] > best) /\ n > 0
        BY <3>3, <1>1, <1>4, <2>1
      <3>4. QED BY <3>1, <3>2, <3>3, <1>1
    <2>3. ASSUME NEW i \in 1 .. Classes, i <= n + 1
          PROVE  acc[i] <= best'
      BY <2>3, <2>1, <1>1, <1>2, <1>3, <1>4
    <2>4. ASSUME NEW i \in 1 .. Classes, i <= idx'
          PROVE  acc[i] < best'
      BY <2>4, <2>1, <1>1, <1>2, <1>3, <1>4
    <2>5. QED BY <2>2, <2>3, <2>4, <1>1 DEF Champion
  <1>8. QED BY <1>5, <1>6, <1>7 DEF IInv

\* The invariant is inductive.
LEMMA Invariance == Spec => []IInv
  <1>1. IInv /\ [Next]_vars => IInv'
    <2> SUFFICES ASSUME IInv, [Next]_vars PROVE IInv'
      OBVIOUS
    <2>1. CASE Output
      BY <2>1, OutputStep
    <2>2. CASE Compare
      BY <2>2, CompareStep
    <2>3. CASE UNCHANGED vars
      BY <2>3 DEF vars, IInv, TypeOK, Stored, Champion, Inputs, Lanes
    <2>4. QED BY <2>1, <2>2, <2>3 DEF Next
  <1>2. QED BY <1>1, InitInv, PTL DEF Spec

-----------------------------------------------------------------------------
\* Every register keeps its range, whatever the accumulators.
THEOREM Typing == Spec => []TypeOK
  <1>1. IInv => TypeOK
    BY DEF IInv
  <1>2. QED BY <1>1, Invariance, PTL

\* The bytes the next layer reads are the reference's: quantising before the
\* pool (the accelerator) and after it (insn.c) is the same.
THEOREM BytesAgree == Spec => []SameBytes
  <1>1. IInv => SameBytes
    <2> SUFFICES ASSUME IInv, n = Lanes(layer)
                 PROVE  /\ layer \in Quads =>
                              HwPool(reg[1], reg[2], reg[3], reg[4]) =
                              Relu(Quant(layer, Pool(acc[1], acc[2], acc[3], acc[4])), ZeroPoint[layer])
                        /\ layer = "fc1" =>
                              HwPool(reg[1], reg[1], reg[1], reg[1]) = Quant("fc1", acc[1])
      BY DEF SameBytes
    <2>1. CASE layer \in Quads
      <3>1. n = 4 /\ layer # "fc2" /\ layer # "fc1"
        BY <2>1, InputTyping DEF IInv, Quads
      <3>2. acc[1] \in Int /\ acc[2] \in Int /\ acc[3] \in Int /\ acc[4] \in Int
        BY <2>1, InputTyping DEF IInv
      <3>3. \A i \in 1 .. 4 : reg[i] = HwQuant(layer, acc[i])
        BY <3>1 DEF IInv, Stored
      <3>4. QED BY <2>1, <3>1, <3>2, <3>3, PoolQuant
    <2>2. CASE layer = "fc1"
      <3>1. n = 1 /\ acc[1] \in Int /\ layer \notin Quads
        BY <2>2, InputTyping DEF IInv, Quads
      <3>2. reg[1] = HwQuant("fc1", acc[1])
        BY <2>2, <3>1 DEF IInv, Stored
      <3>3. QED BY <3>1, <3>2, FcQuant
    <2>3. QED BY <2>1, <2>2
  <1>2. QED BY <1>1, Invariance, PTL

\* The class returned is the reference's: the first of the largest scores.
THEOREM ClassAgrees == Spec => []SameClass
  <1>1. IInv => SameClass
    <2> SUFFICES ASSUME IInv, layer = "fc2", n = Classes
                 PROVE  /\ idx \in 0 .. Classes - 1
                        /\ \A i \in 1 .. Classes : acc[i] <= acc[idx + 1]
                        /\ \A i \in 1 .. idx : acc[i] < acc[idx + 1]
      BY DEF SameClass
    <2>1. /\ n > 0 => idx \in 0 .. n - 1 /\ acc[idx + 1] = best
          /\ \A i \in 1 .. Classes : i <= n => acc[i] <= best
          /\ \A i \in 1 .. Classes : i <= idx => acc[i] < best
      BY DEF IInv, Champion
    <2>2. QED BY <2>1, ClassAssumption
  <1>2. QED BY <1>1, Invariance, PTL

=============================================================================
