------------------------------ MODULE NiceCore ------------------------------
(***************************************************************************)
(* The control of the NICE CNN accelerator, e203_subsys_nice_core.sv: its  *)
(* request/response channel to the core, the FSM, the five loaders that    *)
(* stream weights or an image from memory through the ICB port, and the    *)
(* MOVE/CAL counters that sequence the systolic array.  One step is one    *)
(* rising edge of nice_clk.                                                *)
(*                                                                         *)
(* A byte of memory is represented by its address, so a buffer remembers   *)
(* where each of its bytes was read from.  The datapath (what MOVE and CAL *)
(* do to the array) is module NiceArray.                                   *)
(***************************************************************************)
EXTENDS Integers

CONSTANTS
    Size,        \* bytes of each loader's buffer (CONV1_SIZE ... INPUT_SIZE)
    CntCycles,   \* *_CNT_CYCLES of each loader
    SaRows,      \* SA_ROWS, the length of a MOVE
    CalCycles,   \* CAL_*_CYCLES of each layer
    Blocks,      \* passes of each layer through the array
    AddrSpace,   \* 2^E203_XLEN, where the address accumulator wraps
    Bases,       \* the values of rs1 the software passes with each load
    Requests,    \* the load instructions the software issues
    MinLatency,  \* the memory answers a command after at least ...
    MaxLatency,  \* ... and at most as many cycles as the place of the
                 \* loader's data takes (a TCM, or memory behind the BIU)
    MemErrors,   \* the values of nice_icb_rsp_err the memory can return
    CmdStall,    \* TRUE: nice_icb_cmd_ready may be low during a LOAD
    MaxIllegal   \* how many undecoded custom instructions are ever issued

Weights == {"conv1", "conv2", "fc1", "fc2"}
Loads   == Weights \union {"input"}
Layers  == Weights

ASSUME SizeAssumption    == Size \in [Loads -> Nat \ {0}]
ASSUME CyclesAssumption  ==
    /\ CntCycles \in [Loads -> Nat \ {0}]
    /\ \A op \in Loads : Size[op] <= 4 * CntCycles[op]
ASSUME ArrayAssumption   ==
    /\ SaRows \in Nat
    /\ CalCycles \in [Layers -> Nat]
    /\ Blocks \in [Layers -> Nat \ {0}]
ASSUME RequestAssumption ==
    /\ AddrSpace \in Nat \ 0 .. 4
    /\ Bases \in [Loads -> SUBSET Nat]
    /\ \A op \in Loads : \A b \in Bases[op] : b + 4 * (CntCycles[op] + 2) < AddrSpace
    /\ Requests \subseteq Loads
    /\ MaxIllegal \in Nat
ASSUME MemoryAssumption  ==
    /\ MinLatency \in Nat \ {0}
    /\ MaxLatency \in [Loads -> Nat]
    /\ \A op \in Loads : MinLatency <= MaxLatency[op]
    /\ CmdStall \in BOOLEAN
    /\ MemErrors \subseteq BOOLEAN

VARIABLES
    phase,    \* the kind of FSM state: IDLE, LOAD, MOVE or CAL
    layer,    \* which one: LOAD_<layer>, MOVE_<layer>, CAL_<layer>
    block,    \* conv2_cha_cnt, fc1_block_cnt, fc2_block_cnt (conv1 has none)
    loadCnt,  \* load_<op>_cnt
    wptr,     \* <op>_wptr
    buf,      \* <op>_weight_flat, input_reg_flat
    moveCnt,  \* move_cnt
    calCnt,   \* cal_<layer>_cnt
    maddr,    \* maddr_acc_r
    \* the ICB port: at most one command is outstanding (E203_LSU_OUTS_NUM)
    pend,     \* number of commands accepted and not yet answered
    paddr,    \* the address of the last accepted command
    age,      \* cycles since it was accepted
    pendErr,  \* the memory will answer it with nice_icb_rsp_err
    \* the core's side
    owed,     \* accepted instructions that have not been answered
    illegal,  \* how many of them the accelerator does not decode
    rs1,      \* nice_req_rs1 of the last accepted load
    first,    \* nice_req_rs1 of the first load of each weight
    beats,    \* responses taken for the current load, up to BeatBound
    rspErr    \* nice_rsp_err of the last response

fsm   == <<phase, layer, block>>
loader == <<loadCnt, wptr, buf>>
port  == <<maddr, pend, paddr, age, pendErr>>
core  == <<owed, illegal, rs1, first, rspErr, beats>>
vars  == <<fsm, loader, moveCnt, calCnt, port, core>>

BeatBound(op) == CntCycles[op] + 2   \* bounds the history variable beats

Unset == -1    \* a buffer byte as reset leaves it, or no address at all

-----------------------------------------------------------------------------
(* The ICB port, as the core's LSU offers it. *)

\* nice_icb_rsp_valid: only for an outstanding command, MinLatency to
\* MaxLatency cycles after it was accepted (never outside a LOAD).
RspValid(v) ==
    /\ v => pend = 1 /\ age >= MinLatency
    /\ pend = 1 /\ age >= MaxLatency[layer] => v

\* nice_icb_cmd_ready: a second command waits for the answer to the first.
CmdReady(r, v) == r => pend = 0 \/ v

\* During a LOAD a port without stalls is ready whenever it can be.
NoStall(r, v) == ~CmdStall => (r <=> (pend = 0 \/ v))

Wrap(a) == IF a < AddrSpace THEN a ELSE a - AddrSpace

\* (mutant) the accumulator keeps rs1 instead of rs1 + 4
PortCycleStuck(v, c, a, e) ==
    /\ pend' = (IF c THEN 1 ELSE IF v THEN 0 ELSE pend)
    /\ age' = (IF c THEN 1 ELSE IF v THEN 0 ELSE IF pend = 1 THEN age + 1 ELSE 0)
    /\ paddr' = (IF c THEN a ELSE paddr)
    /\ pendErr' = (IF c THEN e ELSE pendErr)
    /\ maddr' = (IF c THEN a ELSE maddr)

\* What one cycle does to the port: v says a response arrives, c that the
\* command for address a is accepted and e that its answer will be an error.
PortCycle(v, c, a, e) ==
    /\ pend' = (IF c THEN 1 ELSE IF v THEN 0 ELSE pend)
    /\ age' = (IF c THEN 1 ELSE IF v THEN 0 ELSE IF pend = 1 THEN age + 1 ELSE 0)
    /\ paddr' = (IF c THEN a ELSE paddr)
    /\ pendErr' = (IF c THEN e ELSE pendErr)
    /\ maddr' = (IF c THEN Wrap(a + 4) ELSE maddr)

-----------------------------------------------------------------------------
(* The request channel, in state IDLE. *)

Init ==
    /\ phase = "IDLE" /\ layer = "none"
    /\ block = [l \in Layers |-> 0]
    /\ loadCnt = [op \in Loads |-> 0]
    /\ wptr = [op \in Loads |-> 0]
    /\ buf = [op \in Loads |-> [i \in 0 .. Size[op] - 1 |-> Unset]]
    /\ moveCnt = 0
    /\ calCnt = [l \in Layers |-> 0]
    /\ maddr = 0 /\ pend = 0 /\ paddr = Unset /\ age = 0 /\ pendErr = FALSE
    /\ owed = 0 /\ illegal = 0
    /\ rs1 = Unset
    /\ first = [op \in Loads |-> Unset]
    /\ beats = 0 /\ rspErr = FALSE

\* A load instruction is accepted in the cycle its first command is: both
\* nice_req_ready and nice_icb_cmd_valid are combinational in IDLE.
Accept(op, b, v, e) ==
    /\ phase = "IDLE"
    /\ RspValid(v) /\ CmdReady(TRUE, v)
    /\ PortCycle(v, TRUE, b, e)
    /\ phase' = "LOAD" /\ layer' = op
    /\ owed' = owed + 1
    /\ rs1' = b
    /\ first' = [first EXCEPT ![op] = IF wptr[op] < Size[op] THEN b ELSE @]
    /\ beats' = 0
    /\ UNCHANGED <<block, loader, moveCnt, calCnt, illegal, rspErr>>

\* Any other custom instruction is accepted at once (custom_mem_op is low)
\* and leaves every register of the accelerator as it is.
AcceptIllegal(v) ==
    /\ phase = "IDLE"
    /\ illegal < MaxIllegal
    /\ RspValid(v)
    /\ PortCycle(v, FALSE, maddr, FALSE)
    /\ owed' = owed + 1
    /\ illegal' = illegal + 1
    /\ UNCHANGED <<fsm, loader, moveCnt, calCnt, rs1, first, beats, rspErr>>

-----------------------------------------------------------------------------
(* LOAD_<op>: one word per response. *)

\* (mutant) the counter counts the commands but one
CntDoneEarly(op) == loadCnt[op] = CntCycles[op] - 1
CntDone(op) == loadCnt[op] = CntCycles[op]   \* load_<op>_cnt_done

\* (mutants) one command too many, one too few
CmdValidLong(op) == loadCnt[op] <= CntCycles[op]
CmdValidShort(op) == loadCnt[op] < CntCycles[op] - 1
CmdValid(op) == loadCnt[op] < CntCycles[op]  \* nice_icb_cmd_valid_load_<op>

\* (mutant) load_<op>_cnt is not cleared
NextCntKeeps(op, v) == IF v THEN loadCnt[op] + 1 ELSE loadCnt[op]

\* load_<op>_cnt.  The fully connected loaders clear it as soon as it is
\* full, the others only with the response that ends the load.
NextCnt(op, v) ==
    IF CntDone(op)
    THEN IF v \/ op \in {"fc1", "fc2"} THEN 0 ELSE loadCnt[op]
    ELSE IF v THEN loadCnt[op] + 1 ELSE loadCnt[op]

\* The four bytes of a word go to wptr .. wptr+3, those beyond the buffer
\* are dropped; byte a + b of memory is represented by its address.
Store(op) ==
    IF wptr[op] < Size[op]
    THEN /\ buf' = [buf EXCEPT ![op] = [i \in 0 .. Size[op] - 1 |->
                       IF i \in wptr[op] .. wptr[op] + 3
                       THEN paddr + (i - wptr[op]) ELSE buf[op][i]]]
         /\ wptr' = [wptr EXCEPT ![op] = @ + 4]
    ELSE UNCHANGED <<buf, wptr>>

\* (mutant) no write pointer is ever cleared
RewindNever(op) == UNCHANGED <<wptr, buf>>

\* input_wptr is cleared when the counter is full; a weight's never is.
Rewind(op) ==
    /\ wptr' = (IF op = "input" THEN [wptr EXCEPT ![op] = 0] ELSE wptr)
    /\ UNCHANGED buf

\* What every cycle of LOAD_<op> does to the port and to the counter.
LoadCycle(op, v, r, e) ==
    /\ phase = "LOAD" /\ layer = op
    /\ RspValid(v) /\ CmdReady(r, v) /\ NoStall(r, v)
    /\ PortCycle(v, r /\ CmdValid(op), maddr, e)
    /\ loadCnt' = [loadCnt EXCEPT ![op] = NextCnt(op, v)]
    /\ beats' = IF v /\ beats < BeatBound(op) THEN beats + 1 ELSE beats

\* No response this cycle.
LoadWait(op, r, e) ==
    /\ LoadCycle(op, FALSE, r, e)
    /\ IF CntDone(op) THEN Rewind(op) ELSE UNCHANGED <<wptr, buf>>
    /\ UNCHANGED <<fsm, moveCnt, calCnt, owed, illegal, rs1, first, rspErr>>

\* A response that is stored.
LoadBeat(op, r, e) ==
    /\ ~CntDone(op)
    /\ LoadCycle(op, TRUE, r, e)
    /\ Store(op)
    /\ UNCHANGED <<fsm, moveCnt, calCnt, owed, illegal, rs1, first, rspErr>>

\* The response that finds the counter full ends the load: a weight load
\* answers the core in this cycle, an image goes on to the array.
LoadDone(op, r, e) ==
    /\ CntDone(op)
    /\ LoadCycle(op, TRUE, r, e)
    /\ Rewind(op)
    /\ IF op = "input"
       THEN /\ phase' = "MOVE" /\ layer' = "conv1"
            /\ UNCHANGED <<owed, rspErr>>
       ELSE /\ phase' = "IDLE" /\ layer' = "none"
            /\ owed' = owed - 1
            /\ rspErr' = pendErr
    /\ UNCHANGED <<block, moveCnt, calCnt, illegal, rs1, first>>

-----------------------------------------------------------------------------
(* MOVE_<layer> pushes a block of weights into the array, CAL_<layer>      *)
(* streams the activations through it.                                     *)

Quiet(v) ==
    /\ RspValid(v)
    /\ PortCycle(v, FALSE, maddr, FALSE)
    /\ UNCHANGED <<loader, illegal, rs1, first, beats>>

Move(l, v) ==
    /\ phase = "MOVE" /\ layer = l
    /\ Quiet(v)
    /\ IF moveCnt = SaRows
       THEN moveCnt' = 0 /\ phase' = "CAL"
       ELSE moveCnt' = moveCnt + 1 /\ UNCHANGED phase
    /\ UNCHANGED <<layer, block, calCnt, owed, rspErr>>

CalCount(l, v) ==
    /\ phase = "CAL" /\ layer = l
    /\ calCnt[l] < CalCycles[l]
    /\ Quiet(v)
    /\ calCnt' = [calCnt EXCEPT ![l] = @ + 1]
    /\ UNCHANGED <<fsm, moveCnt, owed, rspErr>>

Following(l) ==
    IF l = "conv1" THEN "conv2" ELSE IF l = "conv2" THEN "fc1"
    ELSE IF l = "fc1" THEN "fc2" ELSE "none"

\* (mutant) the last but one block ends the layer
LastBlockEarly(l) == block[l] + 2 >= Blocks[l]
LastBlock(l) == block[l] = Blocks[l] - 1

\* (mutant) every block of fc2 answers
AnswersEach(l) == l = "fc2"
Answers(l) == l = "fc2" /\ LastBlock(l)   \* nice_rsp_valid_load_input

\* The end of a CAL: the next block of the same layer, the next layer, or,
\* after the last block of fc2, the response that ends the instruction.
\* The bus is idle then, so nice_rsp_err is low.
CalDone(l, v) ==
    /\ phase = "CAL" /\ layer = l
    /\ calCnt[l] = CalCycles[l]
    /\ Quiet(v)
    /\ calCnt' = [calCnt EXCEPT ![l] = 0]
    /\ block' = [block EXCEPT ![l] = IF LastBlock(l) THEN 0 ELSE @ + 1]
    /\ layer' = IF LastBlock(l) THEN Following(l) ELSE l
    /\ phase' = IF LastBlock(l) /\ Following(l) = "none" THEN "IDLE" ELSE "MOVE"
    /\ IF Answers(l)
       THEN owed' = owed - 1 /\ rspErr' = (v /\ pendErr)
       ELSE UNCHANGED <<owed, rspErr>>
    /\ UNCHANGED moveCnt

-----------------------------------------------------------------------------
Next ==
    \E v, r \in BOOLEAN, e \in MemErrors :
       \/ \E op \in Requests : \E b \in Bases[op] : Accept(op, b, v, e)
       \/ AcceptIllegal(v)
       \/ \E op \in Loads : \/ LoadWait(op, r, e)
                            \/ LoadBeat(op, r, e)
                            \/ LoadDone(op, r, e)
       \/ \E l \in Layers : Move(l, v) \/ CalCount(l, v) \/ CalDone(l, v)

Spec == Init /\ [][Next]_vars

\* nice_clk runs while nice_active is high, which it is in every state but
\* IDLE: a busy accelerator keeps stepping.
Busy == phase # "IDLE" /\ Next
FairSpec == Spec /\ WF_vars(Busy)

-----------------------------------------------------------------------------
(* Properties *)

ControlOK ==
    /\ phase \in {"IDLE", "LOAD", "MOVE", "CAL"}
    /\ phase = "IDLE" => layer = "none"
    /\ phase = "LOAD" => layer \in Loads
    /\ phase \in {"MOVE", "CAL"} => layer \in Layers
    /\ block \in [Layers -> Nat]
    /\ \A l \in Layers : block[l] < Blocks[l]
    /\ moveCnt \in 0 .. SaRows
    /\ calCnt \in [Layers -> Nat]
    /\ \A l \in Layers : calCnt[l] <= CalCycles[l]

LoaderOK ==
    /\ loadCnt \in [Loads -> Nat]
    /\ \A op \in Loads : loadCnt[op] <= CntCycles[op]
    /\ wptr \in [Loads -> Nat]
    /\ DOMAIN buf = Loads
    /\ \A op \in Loads : buf[op] \in [0 .. Size[op] - 1 -> Int]

PortOK ==
    /\ maddr \in Nat /\ pend \in 0 .. 1 /\ paddr \in Int
    /\ age \in Nat

CoreOK ==
    /\ owed \in Int /\ illegal \in 0 .. MaxIllegal
    /\ rs1 \in Int /\ first \in [Loads -> Int]
    /\ beats \in Nat

FlagsOK == pendErr \in BOOLEAN /\ rspErr \in BOOLEAN

\* Every register keeps within its counter's range, and the FSM is in one
\* of the fourteen states of the code.
TypeOK == ControlOK /\ LoaderOK /\ PortOK /\ CoreOK /\ FlagsOK

\* A load asks for consecutive words from rs1 on, each once: the address
\* accumulator counts the answered beats and the one in flight, whatever
\* the load counter does (lines 1484 to 1518, against 370 to 650).
WordsInOrder ==
    phase = "LOAD" /\ beats < BeatBound(layer) =>
        /\ maddr = rs1 + 4 * (beats + pend)
        /\ pend = 1 => paddr = maddr - 4

\* The commands a load sends are those its counter waits for: it reads the
\* words its buffer needs and exactly one more, so that none is in flight
\* when the FSM leaves LOAD and the next load cannot take a stray response.
ReadsOneExtraWord ==
    /\ phase = "LOAD" => beats + pend <= CntCycles[layer] + 1
    /\ phase # "LOAD" => pend = 0
    /\ phase \in {"MOVE", "CAL"} => beats = CntCycles["input"] + 1

\* A weight buffer is loaded from its first rs1 byte by byte, and outside
\* its load it is either untouched or complete.
WeightsComplete ==
    \A op \in Weights :
        /\ \A i \in 0 .. Size[op] - 1 :
              buf[op][i] = IF i < wptr[op] THEN first[op] + i ELSE Unset
        /\ ~(phase = "LOAD" /\ layer = op) => wptr[op] = 0 \/ wptr[op] >= Size[op]

\* While the array works, the image buffer holds exactly the image of this
\* instruction, nothing of the one before (input_wptr is rewound in time).
ImageComplete ==
    phase \in {"MOVE", "CAL"} =>
        \A i \in 0 .. Size["input"] - 1 : buf["input"][i] = rs1 + i

\* The accelerator owes the core one answer exactly while it is busy, so a
\* load is answered once, whatever is issued (line 1541); an instruction it
\* does not decode is never answered.
OneAnswer ==
    owed = illegal + (IF phase = "IDLE" THEN 0 ELSE 1)

\* Every load that is accepted is answered (nice_rsp_valid, line 1541).
Answered == owed > illegal ~> owed = illegal

-----------------------------------------------------------------------------
(* What the accelerator promises: NiceService. *)

Content(op) ==
    IF \A i \in 0 .. Size[op] - 1 : buf[op][i] = buf[op][0] + i
    THEN buf[op][0] ELSE Unset

BlocksBefore(l) ==
    CASE l = "conv1" -> 0
      [] l = "conv2" -> Blocks["conv1"]
      [] l = "fc1"   -> Blocks["conv1"] + Blocks["conv2"]
      [] OTHER       -> Blocks["conv1"] + Blocks["conv2"] + Blocks["fc1"]

Computing == phase \in {"MOVE", "CAL"}

Service == INSTANCE NiceService WITH
    Tiles   <- BlocksBefore("fc2") + Blocks["fc2"],
    job     <- IF phase = "LOAD" THEN layer ELSE IF Computing THEN "input" ELSE "none",
    base    <- rs1,
    weights <- [op \in Weights |-> IF wptr[op] >= Size[op] THEN Content(op) ELSE Unset],
    image   <- IF Computing THEN Content("input") ELSE Unset,
    tile    <- IF Computing THEN BlocksBefore(layer) + block[layer] + 1 ELSE 0,
    part    <- IF phase = "CAL" THEN "stream" ELSE "fill"

\* The loaders, the FSM and the three block counters together do what the
\* instruction set promises: a weight load fills an empty buffer and is
\* answered; an image load goes through every tile in order and is answered.
ImplementsService == Service!Spec

=============================================================================
