----------------------------- MODULE NiceArray ------------------------------
(***************************************************************************)
(* The datapath of the NICE CNN accelerator: the 10 x 5 systolic array     *)
(* (systolic_array_10_5.sv, PE.sv, PE_r.sv) and the index registers that   *)
(* feed it and collect its results in e203_subsys_nice_core.sv, composed   *)
(* with the control of NiceCore and the driver of c/insn.c.  The           *)
(* dimensions are the accelerator's own.                                   *)
(*                                                                         *)
(* Arithmetic is symbolic.  A number is a set of terms, {} for zero: a     *)
(* weight or an activation is a singleton, a product a pair, a sum a       *)
(* union.  A term is tagged with the layer whose zero point was subtracted *)
(* from it, and a byte of memory is its address (see NiceCore), so that    *)
(* two numbers are equal only if they are the same expression of the same  *)
(* bytes; a sum that takes a term twice is wrong.                          *)
(***************************************************************************)
EXTENDS NiceCore, Sequences

CONSTANT Program    \* what the driver issues: first the weights, then images

ASSUME ProgramAssumption ==
    Program \in Seq([op : Loads, base : Nat]) /\ Len(Program) > 4

VARIABLES
    pc,        \* the driver's next instruction
    top,       \* sa_en_up, sa_mode and sa_data_up
    enLeft,    \* sa_en_left: the rows that are enabled
    dataLeft,  \* sa_data_left
    pe,        \* the registers of the processing elements
    sel,       \* conv<l>_input_select_row_idx, .._col_idx
    store,     \* conv<l>_output_store_row_idx, .._col_idx
    fcPick,    \* fc<l>_move_select_row_idx (of column 0) and .._col_idx
    fcSel,     \* fc1_select_idx
    conv1Out,  \* conv1_output_reg
    conv2Out,  \* conv2_output_reg
    fc1Out,    \* fc1_output_reg
    result     \* the comparisons behind result_max_idx, in order

array == <<top, enLeft, dataLeft, pe, sel, store, fcPick, fcSel>>
outs  == <<conv1Out, conv2Out, fc1Out, result>>

Rows == 0 .. SaRows - 1      \* SA_ROWS = 10
Cols == 0 .. 4               \* SA_COLS
Taps == 0 .. 8               \* CONV1_RC
Convs == {"conv1", "conv2"}
OutWidth == [conv1 |-> 12, conv2 |-> 4]    \* CONV1/2_OUTPUT_WIDTH
OutSize  == [conv1 |-> 144, conv2 |-> 16]
SelWidth == [conv1 |-> 22, conv2 |-> 6]    \* CONV1/2_SELECT_WIDTH
Pixels(l) == Cols \X (0 .. OutWidth[l] - 1) \X (0 .. OutWidth[l] - 1)

Wrong == <<"wrong">>
Plus(s, t)  == IF s \cap t = {} THEN s \union t ELSE {Wrong}
Times(x, w) == x \X w

cha == block["conv2"]
cnt == calCnt[layer]
InMove(l) == phase = "MOVE" /\ layer = l
InCal(l)  == phase = "CAL" /\ layer = l
Done(l)   == InCal(l) /\ calCnt[l] = CalCycles[l]

-----------------------------------------------------------------------------
(* What the C reference computes (normal_cnn in c/insn.c). *)

Window == (0 .. 2) \X (0 .. 2)
Quad == (0 .. 1) \X (0 .. 1)

RefPool1(r, c) == {rs1 + 28 * (2 * r + q[1]) + 2 * c + q[2] : q \in Quad}
RefConv1(n, r, c) ==
    {<< <<"conv1", RefPool1(r + k[1], c + k[2])>>,
        <<"conv1", first["conv1"] + 9 * n + 3 * k[1] + k[2]>> >> : k \in Window}

\* The name of a right conv1 output, of a right term of a conv2 output ...
Name1(n, r, c) == <<rs1, n, r, c>>
Name2(n, in, r, c) == <<rs1, n, in, r, c>>
RefPool2(in, r, c) == {Name1(in, 2 * r + q[1], 2 * c + q[2]) : q \in Quad}
RefConv2(n, in, r, c) ==
    {<< <<"conv2", RefPool2(in, r + k[1], c + k[2])>>,
        <<"conv2", first["conv2"] + 9 * (5 * n + in) + 3 * k[1] + k[2]>> >> : k \in Window}
RefOut2(n, r, c) ==
    {<<"bias", n>>, <<"quant">>} \union {Name2(n, in, r, c) : in \in 0 .. 4}

RefPool3(j) == {RefOut2(j \div 4, 2 * ((j % 4) \div 2) + q[1], 2 * (j % 2) + q[2]) : q \in Quad}
RefFc1(o, half) ==
    {<< <<"fc1", RefPool3(j)>>, <<"fc1", first["fc1"] + 20 * o + j>> >> :
        j \in 10 * half .. 10 * half + 9}
NameFc1(o, half) == <<rs1, o, half>>
RefOutFc1(o) == {<<"bias", o>>, <<"quant">>, NameFc1(o, 0), NameFc1(o, 1)}
RefFc2(o) ==
    {<< <<"fc2", {RefOutFc1(j)}>>, <<"fc2", first["fc2"] + 10 * o + j>> >> : j \in 0 .. 9}
NameFc2(o) == <<rs1, o>>

\* A result is kept by its name if it is the right one, else as Wrong.
Named(value, reference, name) == IF value = reference THEN name ELSE Wrong

-----------------------------------------------------------------------------
(* The array: one clock of every PE. *)

UpEn(i, j)     == IF i = 0 THEN top.en ELSE pe[<<i - 1, j>>].enDown
UpData(i, j)   == IF i = 0 THEN top.data[j] ELSE pe[<<i - 1, j>>].down
LeftEn(i, j)   == IF j = 0 THEN i \in enLeft ELSE pe[<<i, j - 1>>].enRight
LeftData(i, j) == IF j = 0 THEN dataLeft[i] ELSE pe[<<i, j - 1>>].right

\* A PE takes its weight from above in store mode, and passes the activation
\* right and the partial sum down when its left neighbour is enabled.
PE(i, j) ==
    LET storing == UpEn(i, j) /\ top.mode
        moving  == LeftEn(i, j)
        old     == pe[<<i, j>>]
    IN [weight  |-> IF storing THEN UpData(i, j) ELSE old.weight,
        enDown  |-> storing,
        enRight |-> moving,
        right   |-> IF moving THEN LeftData(i, j) ELSE old.right,
        down    |-> IF moving THEN Plus(Times(LeftData(i, j), old.weight), UpData(i, j))
                    ELSE IF storing THEN UpData(i, j) ELSE old.down]

ClockArray == pe' = [p \in Rows \X Cols |-> PE(p[1], p[2])]
DataDown(i) == pe[<<SaRows - 1, i>>].down

-----------------------------------------------------------------------------
(* MOVE: the weights of a block, last row first. *)

Weight(l, a) == {<<l, buf[l][a]>>}

WeightRes(i) ==
    CASE layer = "conv1" -> Weight("conv1", 9 * i + 8 - moveCnt)
      [] layer = "conv2" -> Weight("conv2", 45 * i + 9 * cha + 8 - moveCnt)
      [] layer = "fc1" -> Weight("fc1", 20 * (fcPick["fc1"].row + i) + fcPick["fc1"].col)
      [] OTHER -> Weight("fc2", 10 * (fcPick["fc2"].row + i) + fcPick["fc2"].col)

\* Ten rows are pushed; a convolution has nine weights, so row 0 gets a zero
\* and forwards it to the partial sums of row 1.
FeedTop ==
    top' = IF phase = "MOVE" /\ moveCnt < SaRows
           THEN [en |-> TRUE, mode |-> TRUE, data |-> [i \in Cols |->
                    IF moveCnt = SaRows - 1 /\ layer \in Convs THEN {} ELSE WeightRes(i)]]
           ELSE [en |-> FALSE, mode |-> FALSE, data |-> [i \in Cols |-> {}]]

\* The block of a fully connected layer: its first output and last input,
\* counted down through a register of its own width.
PickNext(l, modulus) ==
    LET b == block[l] IN
    IF Done("conv1") THEN [row |-> 0, col |-> 9]
    ELSE IF Done(l)
         THEN CASE l = "fc1" /\ b = 0 -> [row |-> 0, col |-> 19]
                [] l = "fc1" /\ b = 1 -> [row |-> 5, col |-> 9]
                [] l = "fc1" /\ b = 2 -> [row |-> 5, col |-> 19]
                [] l = "fc2" /\ b = 0 -> [row |-> 5, col |-> 9]
                [] OTHER -> fcPick[l]
    ELSE IF InMove(l) THEN [fcPick[l] EXCEPT !.col = (@ - 1) % modulus]
    ELSE fcPick[l]

Pick == fcPick' = [fc1 |-> PickNext("fc1", 1024), fc2 |-> PickNext("fc2", 256)]

-----------------------------------------------------------------------------
(* CAL: the activations, pooled and dequantised on the way in. *)

InputReg(r, c) == buf["input"][28 * r + c]

\* conv2_output_flat: two by two blocks, channel by channel.
Flat(j) ==
    LET k == j % 16 IN
    conv2Out[<<j \div 16, 2 * (k \div 8) + ((k % 4) \div 2), 2 * ((k \div 4) % 2) + (k % 2)>>]

\* sa_input_res of row i, for the rows in which it is used.
InputRes(i) ==
    CASE layer \in Convs ->
           LET r == sel[layer].row[i - 1] + 2 * ((i - 1) \div 3)
               c == sel[layer].col[i - 1] + 2 * ((i - 1) % 3)
           IN {<<layer, {IF layer = "conv1" THEN InputReg(r + q[1], c + q[2])
                         ELSE conv1Out[<<cha, r + q[1], c + q[2]>>] : q \in Quad}>>}
      [] layer = "fc1" /\ cnt - 1 = i -> {<<"fc1", {Flat(fcSel + k) : k \in 0 .. 3}>>}
      [] layer = "fc2" /\ cnt - 1 = i -> {<<"fc2", {fc1Out[i]}>>}
      [] OTHER -> {}

\* A convolution enters row i (1 to 9) from cycle i on, for OutSize cycles.
FeedConv(l) ==
    /\ dataLeft' = [i \in Rows |->
          IF i \in 1 .. cnt /\ cnt <= OutSize[l] + 9
          THEN IF i > cnt - OutSize[l] THEN InputRes(i) ELSE {}
          ELSE dataLeft[i]]
    /\ enLeft' = (IF cnt = 1 THEN 1 .. 9 ELSE IF cnt = OutSize[l] + 9 THEN {} ELSE enLeft)

\* A fully connected layer enters row i in cycle i + 1 only.
FeedFc ==
    /\ dataLeft' = [i \in Rows |->
          CASE cnt = 1 -> IF i = 0 THEN InputRes(0) ELSE dataLeft[i]
            [] cnt \in 2 .. 10 -> InputRes(i)
            [] cnt = 11 -> {}
            [] OTHER -> dataLeft[i]]
    /\ enLeft' = (IF cnt = 1 THEN Rows ELSE IF cnt = 11 THEN {} ELSE enLeft)

FeedLeft ==
    IF phase = "CAL" /\ cnt > 0
    THEN IF layer \in Convs THEN FeedConv(layer) ELSE FeedFc
    ELSE UNCHANGED <<dataLeft, enLeft>>

\* Each of the nine taps walks over the input in steps of two (the pool),
\* starting one cycle after the tap before it.
SelNext(l) ==
    LET s == sel[l] IN
    IF Done(l) THEN [row |-> [i \in Taps |-> 0], col |-> [i \in Taps |-> 0]]
    ELSE IF calCnt[l] = 0 THEN s
    ELSE [row |-> [i \in Taps |->
              IF s.col[i] = SelWidth[l]
              THEN IF s.row[i] = SelWidth[l] THEN 0 ELSE s.row[i] + 2
              ELSE s.row[i]],
          col |-> [i \in Taps |->
              IF s.col[i] = SelWidth[l] THEN 0
              ELSE IF i <= calCnt[l] - 1 THEN s.col[i] + 2 ELSE s.col[i]]]

\* (mutant) the first column starts to store one cycle late
StoreNextLate(l) ==
    LET s == store[l]
        last == OutWidth[l] - 1
    IN
    IF Done(l) THEN [row |-> [i \in Cols |-> 0], col |-> [i \in Cols |-> 0]]
    ELSE IF calCnt[l] < SaRows + 2 THEN s
    ELSE [row |-> [i \in Cols |->
              IF s.col[i] = last THEN IF s.row[i] = last THEN 0 ELSE s.row[i] + 1
              ELSE s.row[i]],
          col |-> [i \in Cols |->
              IF s.col[i] = last THEN 0
              ELSE IF i < calCnt[l] - 10 THEN s.col[i] + 1 ELSE s.col[i]]]

\* Each column stores its results in order, one cycle after its neighbour.
StoreNext(l) ==
    LET s == store[l]
        last == OutWidth[l] - 1
    IN
    IF Done(l) THEN [row |-> [i \in Cols |-> 0], col |-> [i \in Cols |-> 0]]
    ELSE IF calCnt[l] < SaRows + 1 THEN s
    ELSE [row |-> [i \in Cols |->
              IF s.col[i] = last THEN IF s.row[i] = last THEN 0 ELSE s.row[i] + 1
              ELSE s.row[i]],
          col |-> [i \in Cols |->
              IF s.col[i] = last THEN 0
              ELSE IF i < calCnt[l] - 10 THEN s.col[i] + 1 ELSE s.col[i]]]

\* (mutant) the second half of outputs 5 to 9 reads the first half of inputs
FcSelOnce ==
    fcSel' = IF Done("fc1") THEN IF block["fc1"] = 0 THEN 40 ELSE 0
             ELSE IF calCnt["fc1"] >= 1 THEN (fcSel + 4) % 128 ELSE fcSel

FcSel ==
    fcSel' = IF Done("fc1") THEN IF block["fc1"] \in {0, 2} THEN 40 ELSE 0
             ELSE IF calCnt["fc1"] >= 1 THEN (fcSel + 4) % 128 ELSE fcSel

Indices ==
    /\ sel' = [l \in Convs |-> SelNext(l)]
    /\ store' = [l \in Convs |-> StoreNext(l)]
    /\ FcSel

-----------------------------------------------------------------------------
(* The results. *)

\* Column i of a convolution stores from cycle 11 + i, for OutSize cycles.
Stores(l, i) == InCal(l) /\ cnt >= 11 /\ i < cnt - 10 /\ i >= cnt - (OutSize[l] + 10)
At(l, p) == p[2] = store[l].row[p[1]] /\ p[3] = store[l].col[p[1]]

Conv1Store ==
    conv1Out' = [p \in Pixels("conv1") |->
        IF Stores("conv1", p[1]) /\ At("conv1", p)
        THEN Named(DataDown(p[1]), RefConv1(p[1], p[2], p[3]), Name1(p[1], p[2], p[3]))
        ELSE conv1Out[p]]

\* (mutant) the accumulators of the second layer keep the last image
Conv2StoreStale ==
    conv2Out' = [p \in Pixels("conv2") |->
        IF Stores("conv2", p[1]) /\ At("conv2", p)
        THEN Plus(Plus(conv2Out[p], {Named(DataDown(p[1]), RefConv2(p[1], cha, p[2], p[3]),
                                           Name2(p[1], cha, p[2], p[3]))}),
                  IF cha = 4 THEN {<<"quant">>} ELSE {})
        ELSE conv2Out[p]]

\* The accumulators start from the bias, gain one channel per block and are
\* quantised with the last.
Conv2Store ==
    conv2Out' = [p \in Pixels("conv2") |->
        IF InCal("conv1") /\ cnt = 1 THEN {<<"bias", p[1]>>}
        ELSE IF Stores("conv2", p[1]) /\ At("conv2", p)
        THEN Plus(Plus(conv2Out[p], {Named(DataDown(p[1]), RefConv2(p[1], cha, p[2], p[3]),
                                           Name2(p[1], cha, p[2], p[3]))}),
                  IF cha = 4 THEN {<<"quant">>} ELSE {})
        ELSE conv2Out[p]]

\* Blocks 0 and 1 are the two halves of outputs 0 to 4, 2 and 3 those of 5
\* to 9; the second half is followed by the quantisation.
Fc1Store ==
    LET b == block["fc1"]
        o == cnt - 12 + (IF b <= 1 THEN 0 ELSE 5)
    IN fc1Out' =
        IF InCal("conv1") /\ cnt = 1 THEN [k \in 0 .. 9 |-> {<<"bias", k>>}]
        ELSE IF InCal("fc1") /\ cnt \in 12 .. 16
        THEN [fc1Out EXCEPT ![o] =
                Plus(Plus(@, {Named(DataDown(cnt - 12), RefFc1(o, b % 2), NameFc1(o, b % 2))}),
                     IF b \in {1, 3} THEN {<<"quant">>} ELSE {})]
        ELSE fc1Out

\* (mutant) the second block of outputs is numbered like the first
ResultStoreFlat ==
    LET o == cnt - 12 + (IF block["fc2"] = 0 THEN 0 ELSE 5) IN
    result' =
        IF InCal("conv1") /\ cnt = 1 THEN << >>
        ELSE IF InCal("fc2") /\ cnt \in 12 .. 16
        THEN Append(result, <<Named(DataDown(cnt - 12), RefFc2(o), NameFc2(o)), cnt - 12>>)
        ELSE result

\* Output o of fc2, plus its bias, is compared with the maximum so far and
\* would set result_max_idx to o.
ResultStore ==
    LET o == cnt - 12 + (IF block["fc2"] = 0 THEN 0 ELSE 5) IN
    result' =
        IF InCal("conv1") /\ cnt = 1 THEN << >>
        ELSE IF InCal("fc2") /\ cnt \in 12 .. 16
        THEN Append(result, <<Named(DataDown(cnt - 12), RefFc2(o), NameFc2(o)), o>>)
        ELSE result

-----------------------------------------------------------------------------
ArrayInit ==
    /\ Init
    /\ pc = 1
    /\ top = [en |-> FALSE, mode |-> FALSE, data |-> [i \in Cols |-> {}]]
    /\ enLeft = {} /\ dataLeft = [i \in Rows |-> {}]
    /\ pe = [p \in Rows \X Cols |-> [weight |-> {}, enDown |-> FALSE, enRight |-> FALSE,
                                     right |-> {}, down |-> {}]]
    /\ sel = [l \in Convs |-> [row |-> [i \in Taps |-> 0], col |-> [i \in Taps |-> 0]]]
    /\ store = [l \in Convs |-> [row |-> [i \in Cols |-> 0], col |-> [i \in Cols |-> 0]]]
    /\ fcPick = [l \in {"fc1", "fc2"} |-> [row |-> 0, col |-> 0]]
    /\ fcSel = 0
    /\ conv1Out = [p \in Pixels("conv1") |-> << >>]
    /\ conv2Out = [p \in Pixels("conv2") |-> {}]
    /\ fc1Out = [o \in 0 .. 9 |-> {}]
    /\ result = << >>

\* The driver: nice_load_weights, then nice_cnn for one image after another.
Driver ==
    IF phase = "IDLE"
    THEN /\ layer' = Program[pc].op /\ rs1' = Program[pc].base
         /\ pc' = IF pc = Len(Program) THEN 5 ELSE pc + 1
    ELSE UNCHANGED pc

ArrayStep ==
    /\ ClockArray /\ FeedTop /\ Pick /\ FeedLeft /\ Indices
    /\ Conv1Store /\ Conv2Store /\ Fc1Store /\ ResultStore

ArrayNext == Next /\ Driver /\ ArrayStep

avars == <<vars, pc, array, outs>>
ArraySpec == ArrayInit /\ [][ArrayNext]_avars

-----------------------------------------------------------------------------
(* Properties *)

\* After CAL_CONV1 every output of the first layer is the convolution of the
\* pooled image of this instruction with the right kernel (insn.c:118-136).
Conv1Right ==
    Computing /\ layer \in {"conv2", "fc1", "fc2"} =>
        \A p \in Pixels("conv1") : conv1Out[p] = Name1(p[1], p[2], p[3])

\* After the five passes of CAL_CONV2 every output of the second layer is
\* its bias plus each channel once, quantised once (insn.c:138-145).
Conv2Right ==
    Computing /\ layer \in {"fc1", "fc2"} =>
        \A p \in Pixels("conv2") : conv2Out[p] = RefOut2(p[1], p[2], p[3])

\* After the four blocks of CAL_FC1 every output of the hidden layer is its
\* bias plus both halves of its inputs, quantised once (insn.c:165-181).
Fc1Right ==
    Computing /\ layer = "fc2" => \A o \in 0 .. 9 : fc1Out[o] = RefOutFc1(o)

\* The answer to an image compares the ten right outputs of the last layer in
\* order and would return the index of each (insn.c:184-205).
ResultRight ==
    [][phase = "CAL" /\ phase' = "IDLE" => result' = [o \in 1 .. 10 |-> <<NameFc2(o - 1), o - 1>>]]_avars

=============================================================================
