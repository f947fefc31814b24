----------------------------- MODULE Ifetch_proof -----------------------------
(***************************************************************************)
(* Proofs about Ifetch, for every program, every place of the border       *)
(* between ITCM and memory and every set of erroneous words: the request   *)
(* that is out is one access, and what comes to dispatch is the            *)
(* instruction at the program counter.                                     *)
(***************************************************************************)
EXTENDS Ifetch, TLAPS

-----------------------------------------------------------------------------
(* Types *)

Words == Nat \union {Junk, Zero}
Instruction == [lo : Int, hi : Int, err : BOOLEAN]

FlagsOK ==
    /\ resetFlag \in BOOLEAN /\ resetReq \in BOOLEAN /\ haltAck \in BOOLEAN
    /\ dlyFlush \in BOOLEAN /\ irValid \in BOOLEAN /\ irPcVld \in BOOLEAN
    /\ pcNewpend \in BOOLEAN /\ outFlag \in BOOLEAN /\ sameCrossHoldup \in BOOLEAN
    /\ need2 \in BOOLEAN /\ need0 \in BOOLEAN /\ laneCross \in BOOLEAN
    /\ leftoverErr \in BOOLEAN /\ holdup \in BOOLEAN

PcOK ==
    /\ code \in Programs /\ pc \in Nat /\ arch \in Nat /\ flushes \in Nat
    /\ halt \in {"no", "halt", "trap"}

IcbOK ==
    /\ st \in {"IDLE", "1ST", "WAIT2ND", "2ND"}
    /\ cmd2 \in {"none", "itcm", "biu"}
    /\ addr21 \in 0 .. 3 /\ leftover \in Words
    /\ rspBuf \in Instruction

\* A command of the LSU is never in the buffer, and the RAM does not hold a lane of
\* fetch while the LSU's answer waits.
MemOK ==
    /\ itcmCmd \in Nat \union {None} /\ e1 \in {"none", "ifu", "lsu"}
    /\ ramOut \in Nat \union {Junk}
    /\ biu \in {"idle", "ifu", "rsp", "lsu"}
    /\ biuOut \in Nat \union {Junk} /\ biuAddr \in Nat \union {None}
    /\ lsuCmd \in BOOLEAN /\ lsuOut \in BOOLEAN
    /\ e1 = "lsu" => lsuOut /\ ~holdup

TypeOK == FlagsOK /\ PcOK /\ IcbOK /\ MemOK

\* The inputs of a clock.
LEMMA InputFacts ==
    ASSUME NEW in \in Inputs
    PROVE  /\ in.take \in BOOLEAN /\ (in.take => irValid /\ halt = "no")
           /\ in.wfi \in BOOLEAN /\ (in.wfi => irValid /\ halt = "no")
           /\ in.wake \in BOOLEAN /\ (in.wake => halt = "halt")
           /\ in.lsuRdy \in BOOLEAN /\ in.bus \in BOOLEAN /\ in.wait \in BOOLEAN
           /\ in.lsu \in {"none", "itcm", "biu"}
           /\ in.flush \in Nat \union {None}
           /\ resetFlag \/ resetReq => in.flush = None
<1>1. /\ in.take \in Either(Dispatches) /\ in.wfi \in Either(Dispatches)
      /\ in.wake \in Either(halt = "halt") /\ in.lsuRdy \in Either(e1 = "lsu")
      /\ in.bus \in Either(biu \in {"ifu", "lsu"})
      /\ in.wait \in Either(RspValid /\ RspInstr.lo \in code.jalr)
      /\ in.lsu \in {"none"} \cup (IF Dispatches THEN {"itcm", "biu"} ELSE {})
      /\ in.flush \in {None} \cup (IF resetFlag \/ resetReq THEN {} ELSE Targets)
  BY DEF Inputs
<1>2. ASSUME NEW b, NEW x \in Either(b) PROVE x \in BOOLEAN /\ (x => b)
  BY DEF Either
<1>3. in.take \in BOOLEAN /\ (in.take => Dispatches)
  BY <1>1, <1>2
<1>4. in.wfi \in BOOLEAN /\ (in.wfi => Dispatches)
  BY <1>1, <1>2
<1>5. in.wake \in BOOLEAN /\ (in.wake => halt = "halt")
  BY <1>1, <1>2
<1>6. in.lsuRdy \in BOOLEAN /\ in.bus \in BOOLEAN /\ in.wait \in BOOLEAN
  BY <1>1, <1>2
<1>7. in.lsu \in {"none", "itcm", "biu"}
  BY <1>1
<1>8. in.flush \in Nat \union {None} /\ (resetFlag \/ resetReq => in.flush = None)
  BY <1>1, ProgramAssumption
<1> QED BY <1>3, <1>4, <1>5, <1>6, <1>7, <1>8 DEF Dispatches

\* The wires of a clock one by one.
NewReq(in) == ~BpuWait(in) /\ ~HaltReq(in) /\ ~resetFlag
ReqVal(in, w) == /\ NewReq(in) \/ resetReq \/ FlushReal(in)
                 /\ ~outFlag \/ w.rsp
Second == need2 /\ ((st = "1ST" /\ IcbRspHsked) \/ st = "WAIT2ND")

WiresOK(in, w) ==
    /\ w.a = PcNxt(in)
    /\ w.need = Need(w.a, ReqSeq(in))
    /\ w.addr = CmdAddr(w.a, w.need)
    /\ w.cmdRdy <=> CmdReady(w.addr, in.lsuRdy)
    /\ w.irRdy <=> ~irValid \/ IrClr(in)
    /\ w.rsp <=> /\ RspValid
                 /\ \/ FlushReal(in)
                    \/ w.irRdy /\ w.cmdRdy /\ ReqCondi /\ ~BpuWait(in)
    /\ w.req <=> ReqVal(in, w) /\ w.cmdRdy /\ ReqCondi
    /\ w.ask <=> (ReqVal(in, w) /\ ReqCondi /\ ~w.need.zero) \/ Second
    /\ w.cmd <=> w.ask /\ w.cmdRdy

\* The record of a clock's wires has those values.
LEMMA WireFacts == ASSUME NEW in, NEW w, w = Wires(in) PROVE WiresOK(in, w)
BY DEF Wires, WiresOK, ReqVal, NewReq, Second

-----------------------------------------------------------------------------
(* Positions and words *)

\* Where a halfword lies in its word: four to a lane of the ITCM, two to a word of the bus.
LEMMA Positions ==
    ASSUME NEW a \in Nat
    PROVE  /\ Lane(a) \in Nat /\ InItcm(a) \in BOOLEAN /\ Cross(a) \in BOOLEAN
           /\ InItcm(a) => /\ a = 4 * Lane(a) + (a % 4) /\ (a % 4) \in 0 .. 3
                           /\ (Cross(a) <=> (a % 4) = 3)
                           /\ (Begin(a) <=> (a % 4) = 0)
           /\ ~InItcm(a) => /\ a = 2 * Lane(a) + (a % 2) /\ (a % 2) \in 0 .. 1
                            /\ (Cross(a) <=> (a % 2) = 1)
                            /\ (Begin(a) <=> (a % 2) = 0)
           /\ (a % 4) \in 0 .. 3
<1>1. ItcmTop \in Nat
  BY SplitAssumption
<1>2. CASE InItcm(a)
  BY <1>1, <1>2 DEF InItcm, Lane, Cross, Begin
<1>3. CASE ~InItcm(a)
  BY <1>1, <1>3 DEF InItcm, Lane, Cross, Begin
<1> QED BY <1>2, <1>3

\* The halfword after a: in the same word, or the first of the next one.
LEMMA NextHalf ==
    ASSUME NEW a \in Nat
    PROVE  /\ ~Cross(a) => (InItcm(a + 1) <=> InItcm(a)) /\ Lane(a + 1) = Lane(a)
           /\ Cross(a) /\ InItcm(a + 1) => InItcm(a) /\ a + 1 = 4 * Lane(a + 1)
           /\ Cross(a) /\ ~InItcm(a + 1) => a + 1 = 2 * Lane(a + 1)
<1>1. ItcmTop \in Nat /\ ItcmTop % 4 = 0
  BY SplitAssumption
<1>2. PICK k \in Nat : ItcmTop = 4 * k
  <2>1. ItcmTop = 4 * (ItcmTop \div 4) /\ ItcmTop \div 4 \in Nat
    BY <1>1
  <2>2. QED BY <2>1
<1>3. CASE InItcm(a)
  <2>1. ~Cross(a) => InItcm(a + 1)
    BY <1>2, <1>3 DEF InItcm, Cross
  <2>2. QED BY <1>1, <1>2, <1>3, <2>1 DEF InItcm, Lane, Cross
<1>4. CASE ~InItcm(a)
  BY <1>1, <1>2, <1>4 DEF InItcm, Lane, Cross
<1> QED BY <1>3, <1>4

\* A halfword of the response is a word of memory or junk.
LEMMA HalfFacts ==
    ASSUME MemOK, IcbOK, NEW i \in 0 .. 3
    PROVE  Half(i) \in Words
BY DEF MemOK, IcbOK, Half, Words, Junk, Zero

\* So is the instruction the response is shifted to.
LEMMA AlignedFacts ==
    ASSUME MemOK, IcbOK
    PROVE  Aligned \in Instruction /\ Aligned.lo \in Words
<1>1. /\ Half(0) \in Words /\ Half(1) \in Words /\ Half(2) \in Words /\ Half(3) \in Words
  BY HalfFacts
<1>2. Zero \in Words /\ Words \subseteq Int
  BY DEF Words, Zero, Junk
<1>3. IcbRspErr \in BOOLEAN
  BY DEF IcbRspErr
<1>4. CASE cmd2 # "itcm"
  <2>1. Aligned = [lo |-> Half(0), hi |-> Half(1), err |-> IcbRspErr]
    BY <1>4 DEF Aligned
  <2>2. QED BY <1>1, <1>2, <1>3, <2>1 DEF Instruction
<1>5. CASE cmd2 = "itcm" /\ addr21 = 3
  <2>1. Aligned = [lo |-> Zero, hi |-> Zero, err |-> FALSE]
    BY <1>5 DEF Aligned
  <2>2. QED BY <1>2, <2>1 DEF Instruction
<1>6. CASE cmd2 = "itcm" /\ addr21 # 3
  <2>1. Aligned = [lo |-> Half(addr21), hi |-> Half(addr21 + 1), err |-> FALSE]
    BY <1>6 DEF Aligned
  <2>2. addr21 \in 0 .. 3 /\ addr21 + 1 \in 0 .. 3
    BY <1>6 DEF IcbOK
  <2>3. Half(addr21) \in Words /\ Half(addr21 + 1) \in Words
    BY <2>2, HalfFacts
  <2>4. QED BY <1>2, <2>1, <2>3 DEF Instruction
<1> QED BY <1>4, <1>5, <1>6

\* An instruction on the response wires is never the mark of an empty buffer.
LEMMA InstrFacts ==
    ASSUME TypeOK
    PROVE  /\ IcbInstr \in Instruction /\ IcbInstr # NoInstr
           /\ RspInstr \in Instruction /\ RspInstr.lo \in Int
           /\ TopHalf \in Words
<1>1. Aligned \in Instruction /\ Aligned.lo \in Words
  BY AlignedFacts DEF TypeOK
<1>2. Half(0) \in Words /\ Half(1) \in Words /\ Half(3) \in Words
  BY HalfFacts DEF TypeOK
<1>3. leftover \in Words /\ leftoverErr \in BOOLEAN /\ IcbRspErr \in BOOLEAN
  BY DEF TypeOK, IcbOK, FlagsOK, IcbRspErr
<1>4. Words \subseteq Int /\ None \notin Words
  BY DEF Words, Zero, Junk, None
<1>5. IcbInstr \in Instruction /\ IcbInstr.lo \in Words
  <2>1. CASE SelLeftover
    <3>1. IcbInstr = [lo |-> leftover, hi |-> Half(0), err |-> IcbRspErr \/ leftoverErr]
      BY <2>1 DEF IcbInstr
    <3>2. (IcbRspErr \/ leftoverErr) \in BOOLEAN
      OBVIOUS
    <3>3. QED BY <1>2, <1>3, <1>4, <3>1, <3>2 DEF Instruction
  <2>2. CASE ~SelLeftover
    BY <1>1, <2>2 DEF IcbInstr
  <2>3. QED BY <2>1, <2>2
<1>6. NoInstr.lo = None
  BY DEF NoInstr
<1>7. RspInstr \in Instruction
  BY <1>5 DEF RspInstr, TypeOK, IcbOK
<1>8. RspInstr.lo \in Int
  BY <1>7 DEF Instruction
<1>9. TopHalf \in Words
  BY <1>2 DEF TopHalf
<1> QED BY <1>4, <1>5, <1>6, <1>7, <1>8, <1>9

-----------------------------------------------------------------------------
(* The shape of what is under way *)

\* Nothing of fetch is in the ITCM or the BIU.
Calm == itcmCmd = None /\ e1 # "ifu" /\ biu \notin {"ifu", "rsp"}

\* The word of halfword a, and no other, is on its way or at hand.
Fetching(a) ==
    IF InItcm(a)
    THEN /\ cmd2 = "itcm" /\ biu \notin {"ifu", "rsp"}
         /\ \/ itcmCmd = Lane(a) /\ e1 # "ifu"
            \/ itcmCmd = None /\ e1 = "ifu" /\ ramOut = Lane(a)
    ELSE /\ cmd2 = "biu" /\ itcmCmd = None /\ e1 # "ifu" /\ biuAddr = Lane(a)
         /\ biu = "ifu" \/ (biu = "rsp" /\ biuOut = Lane(a))
SomeFetch == \E a \in Nat : Fetching(a)

Shape ==
    /\ outFlag <=> (st # "IDLE" \/ rspBuf # NoInstr)
    /\ st # "IDLE" => rspBuf = NoInstr
    /\ st = "IDLE" => Calm
    /\ st = "1ST" => IF need0 THEN Calm /\ ~need2 ELSE SomeFetch
    /\ st = "WAIT2ND" => need2 /\ Calm
    /\ st = "2ND" => need2 /\ SomeFetch

\* A halt, during which nothing moves but by the flush of a load that fails, a
\* delayed flush and the reset.
Halting ==
    /\ halt = "halt" => IF flushes = 0 THEN ~dlyFlush ELSE pc = arch
    /\ haltAck => halt = "halt" /\ (flushes = 0 => st = "IDLE")
    /\ dlyFlush => pc = arch /\ ~irValid /\ pcNewpend
    /\ resetFlag \/ resetReq =>
         /\ ~irValid /\ ~outFlag /\ ~dlyFlush /\ halt = "no" /\ cmd2 = "none"
         /\ ~irPcVld /\ ~pcNewpend /\ arch = ResetVec

\* A clock with its wires.
Step(in, w) ==
    /\ WiresOK(in, w) /\ Possible(in) /\ Commit(in)
    /\ Bus(in, w) /\ Itcm(in, w)
    /\ Pending(in, w) /\ InstructionRegister(in, w) /\ ProgramCounter(in, w)
    /\ IcbState(w) /\ IcbRequest(w) /\ Leftover(w) /\ RspBuffer(w)
    /\ UNCHANGED code

\* A step is a clock with some inputs and their wires.
LEMMA StepFacts == ASSUME Next PROVE \E in \in Inputs : \E w : Step(in, w)
<1>1. PICK in \in Inputs : Clock(in)
  BY DEF Next
<1>2. PICK w \in {Wires(in)} :
         /\ Bus(in, w) /\ Itcm(in, w)
         /\ Pending(in, w) /\ InstructionRegister(in, w) /\ ProgramCounter(in, w)
         /\ IcbState(w) /\ IcbRequest(w) /\ Leftover(w) /\ RspBuffer(w)
  BY <1>1 DEF Clock
<1>3. Possible(in) /\ Commit(in) /\ UNCHANGED code
  BY <1>1 DEF Clock
<1>4. WiresOK(in, w)
  BY <1>2, WireFacts
<1>5. Step(in, w)
  BY <1>2, <1>3, <1>4 DEF Step
<1> QED BY <1>5

\* An answer there is answers the request that is out, and is taken in its clock.
LEMMA AnswerFacts ==
    ASSUME TypeOK, Shape
    PROVE  /\ Calm => ~SomeFetch
           /\ Calm => ~IcbRspValid
           /\ IcbRspValid => /\ (st = "1ST" /\ ~need0) \/ st = "2ND"
                             /\ itcmCmd = None /\ rspBuf = NoInstr /\ IcbRspHsked
                             /\ SomeFetch
           /\ e1 = "ifu" => IcbRspValid /\ IcbRspReady
           /\ biu = "rsp" => IcbRspValid /\ IcbRspHsked
           /\ IcbInstrHsked <=> IcbInstrValid
           /\ Calm \/ SomeFetch
<1>1. Calm \/ SomeFetch
  BY DEF TypeOK, IcbOK, Shape
<1>2. ASSUME NEW a \in Nat, Fetching(a)
      PROVE  /\ ~Calm
             /\ e1 = "ifu" => cmd2 = "itcm" /\ itcmCmd = None /\ biu # "rsp"
             /\ biu = "rsp" => cmd2 = "biu" /\ itcmCmd = None /\ e1 # "ifu"
  <2>1. Lane(a) \in Nat
    BY Positions
  <2>2. QED BY <1>2, <2>1 DEF Fetching, Calm, None
<1>3. Calm => ~SomeFetch
  BY <1>2 DEF SomeFetch
<1>4. Calm => ~IcbRspValid
  BY DEF Calm, IcbRspValid
<1>5. SomeFetch => /\ (st = "1ST" /\ ~need0) \/ st = "2ND"
                   /\ rspBuf = NoInstr /\ BufReady
  BY <1>3 DEF Shape, TypeOK, IcbOK, BufReady
<1>6. e1 = "ifu" => SomeFetch
  BY <1>1 DEF Calm
<1>7. biu = "rsp" => SomeFetch
  BY <1>1 DEF Calm
<1>8. IcbRspValid => SomeFetch
  BY <1>1, <1>4
<1>9. IcbRspValid => itcmCmd = None
  BY <1>2, <1>8 DEF IcbRspValid, SomeFetch
<1>10. SomeFetch => IcbRspReady
  BY <1>5 DEF IcbRspReady
<1>11. e1 = "ifu" => IcbRspValid
  BY <1>2, <1>6 DEF IcbRspValid, SomeFetch
<1>12. biu = "rsp" => IcbRspValid
  BY <1>2, <1>7 DEF IcbRspValid, SomeFetch
<1>13. IcbInstrHsked <=> IcbInstrValid
  <2>1. IcbInstrValid => st # "IDLE"
    BY <1>5, <1>8 DEF IcbInstrValid
  <2>2. QED BY <2>1 DEF IcbInstrHsked, BufReady, Shape
<1> QED BY <1>1, <1>3, <1>4, <1>5, <1>6, <1>7, <1>8, <1>9, <1>10, <1>11, <1>12, <1>13
        DEF IcbRspHsked

\* Fetch asks only when nothing is under way or in the clock of the answer; what it
\* asks for is the request or, never at once with it, the second word.
LEMMA AskFacts ==
    ASSUME TypeOK, Shape, NEW in \in Inputs, NEW w, WiresOK(in, w)
    PROVE  /\ ReqCondi => ~Second
           /\ ReqCondi => (Calm \/ IcbRspValid)
           /\ Second => (Calm \/ IcbRspValid) /\ ~IcbInstrValid
           /\ w.ask => (Calm \/ IcbRspValid)
           /\ w.req => /\ w.cmdRdy /\ ReqCondi /\ ReqVal(in, w)
                       /\ w.cmd <=> ~w.need.zero
           /\ ~w.req => (w.cmd <=> Second /\ w.cmdRdy)
<1>1. ReqCondi => ~Second
  BY DEF ReqCondi, Second
<1>2. ReqCondi => (Calm \/ IcbRspValid)
  BY AnswerFacts DEF ReqCondi, IcbInstrHsked, IcbInstrValid, Shape
<1>3. Second => (Calm \/ IcbRspValid) /\ ~IcbInstrValid
  <2>1. CASE st = "1ST" /\ need2 /\ IcbRspHsked
    BY <2>1 DEF IcbRspHsked, IcbInstrValid, Rsp2Leftover, Shape
  <2>2. CASE st = "WAIT2ND" /\ need2
    BY <2>2, AnswerFacts DEF IcbInstrValid, Shape
  <2>3. QED BY <2>1, <2>2 DEF Second
<1>4. /\ w.req <=> ReqVal(in, w) /\ w.cmdRdy /\ ReqCondi
      /\ w.ask <=> (ReqVal(in, w) /\ ReqCondi /\ ~w.need.zero) \/ Second
      /\ w.cmd <=> w.ask /\ w.cmdRdy
  BY DEF WiresOK
<1> QED BY <1>1, <1>2, <1>3, <1>4

\* What PcNxt and CmdAddr may be.
LEMMA AddrFacts ==
    ASSUME TypeOK, NEW in \in Inputs, NEW w, WiresOK(in, w)
    PROVE  w.a \in Nat /\ w.addr \in Nat
<1>1. /\ pc \in Nat /\ code \in Programs /\ ResetVec \in Nat
      /\ \A l \in DOMAIN code.jump : code.jump[l] \in Nat
  BY ProgramAssumption DEF TypeOK, PcOK
<1>2. PcNxt(in) \in Nat
  <2>1. CASE in.flush # None
    BY <2>1, InputFacts DEF PcNxt, FlushReal
  <2>2. CASE in.flush = None /\ dlyFlush
    BY <1>1, <2>2 DEF PcNxt, FlushReal
  <2>3. CASE ~FlushReal(in) /\ Jumps(RspInstr.lo)
    <3>1. PcNxt(in) = code.jump[RspInstr.lo]
      BY <2>3 DEF PcNxt, FlushReal
    <3>2. RspInstr.lo \in DOMAIN code.jump
      BY <2>3 DEF Jumps
    <3>3. QED BY <1>1, <3>1, <3>2
  <2>4. CASE ~FlushReal(in) /\ ~Jumps(RspInstr.lo) /\ resetReq
    BY <1>1, <2>4 DEF PcNxt, FlushReal
  <2>5. CASE ~FlushReal(in) /\ ~Jumps(RspInstr.lo) /\ ~resetReq
    <3>1. PcNxt(in) = IF Wide(RspInstr.lo) THEN pc + 2 ELSE pc + 1
      BY <2>5 DEF PcNxt, FlushReal
    <3>2. QED BY <1>1, <3>1
  <2>6. QED BY <2>1, <2>2, <2>3, <2>4, <2>5 DEF FlushReal
<1>3. w.a \in Nat
  BY <1>2 DEF WiresOK
<1>4. CmdAddr(w.a, w.need) \in Nat
  BY <1>1, <1>3 DEF CmdAddr
<1> QED BY <1>3, <1>4 DEF WiresOK

\* The stage of the ITCM is free whenever the LSU may have the RAM.
LEMMA StageFacts ==
    ASSUME TypeOK, Shape, NEW in \in Inputs
    PROVE  /\ ArbtValid(in.lsuRdy) => (e1 = "lsu" => in.lsuRdy)
           /\ e1 = "ifu" => IcbRspReady
           /\ e1 = "lsu" => lsuOut /\ ~holdup
BY AnswerFacts DEF ArbtValid, LsuAnswered, TypeOK, MemOK

-----------------------------------------------------------------------------
(* The ITCM and the BIU in a clock *)

\* The command that fetch puts on the ITCM in this clock.
Asks(in, w) == ~ArbtValid(in.lsuRdy) /\ w.ask /\ InItcm(w.addr)

\* When fetch has the ITCM's or the BIU's ear, and what it finds there.
LEMMA AsksFacts ==
    ASSUME TypeOK, Shape, NEW in \in Inputs, NEW w, WiresOK(in, w)
    PROVE  /\ itcmCmd = None => (Asks(in, w) <=> w.cmd /\ InItcm(w.addr))
           /\ Asks(in, w) => w.cmd /\ InItcm(w.addr) /\ (Calm \/ IcbRspValid)
           /\ w.cmd /\ InItcm(w.addr) => itcmCmd = None /\ Asks(in, w)
           /\ w.cmd /\ ~InItcm(w.addr) => biu = "idle" /\ lsuBiu # "cmd"
<1>1. /\ w.cmd <=> w.ask /\ w.cmdRdy
      /\ w.cmdRdy <=> CmdReady(w.addr, in.lsuRdy)
  BY DEF WiresOK
<1>2. w.ask => (Calm \/ IcbRspValid)
  BY AskFacts
<1>3. Calm \/ IcbRspValid => itcmCmd = None
  BY AnswerFacts DEF Calm
<1>4. InItcm(w.addr) => (w.cmdRdy <=> itcmCmd = None /\ ~ArbtValid(in.lsuRdy))
  BY <1>1 DEF CmdReady, SramReady2Ifu
<1>5. ~InItcm(w.addr) => (w.cmdRdy <=> biu = "idle" /\ lsuBiu # "cmd")
  BY <1>1 DEF CmdReady
<1> QED BY <1>1, <1>2, <1>3, <1>4, <1>5 DEF Asks

\* The stage of the ITCM: what Itcm says, case by case.
E1Rdy(in) == (e1 = "ifu" => IcbRspReady) /\ (e1 = "lsu" => in.lsuRdy)
NextCmd(in, w) == IF itcmCmd # None THEN itcmCmd
                  ELSE IF ArbtValid(in.lsuRdy) THEN Junk
                  ELSE IF Asks(in, w) THEN Lane(w.addr) ELSE None

\* A command that enters the RAM's stage replaces what the RAM holds.
LEMMA ItcmFacts ==
    ASSUME TypeOK, NEW in, NEW w, Itcm(in, w), NextCmd(in, w) # None, E1Rdy(in)
    PROVE  /\ itcmCmd' = None /\ ramOut' = NextCmd(in, w) /\ holdup' = Asks(in, w)
           /\ e1' = IF NextCmd(in, w) = Junk THEN "lsu" ELSE "ifu"
BY DEF Itcm, NextCmd, Asks, E1Rdy, TypeOK, MemOK

\* Without one, the RAM's output and its flag stay.
LEMMA ItcmRest ==
    ASSUME TypeOK, NEW in, NEW w, Itcm(in, w), NextCmd(in, w) = None \/ ~E1Rdy(in)
    PROVE  /\ itcmCmd' = NextCmd(in, w) /\ ramOut' = ramOut /\ holdup' = holdup
           /\ e1' = IF E1Rdy(in) THEN "none" ELSE e1
BY DEF Itcm, NextCmd, Asks, E1Rdy, TypeOK, MemOK

\* The LSU's command and answer: what holds the stage waits for the LSU to take it.
LEMMA LsuFacts ==
    ASSUME TypeOK, Shape, NEW in \in Inputs, NEW w, Itcm(in, w)
    PROVE  /\ lsuCmd' \in BOOLEAN /\ lsuOut' \in BOOLEAN
           /\ ~E1Rdy(in) => e1 = "lsu" /\ ~ArbtValid(in.lsuRdy)
           /\ ~E1Rdy(in) => lsuOut'
           /\ itcmCmd = None /\ ArbtValid(in.lsuRdy) => lsuOut'
<1>1. ~E1Rdy(in) => e1 = "lsu" /\ ~in.lsuRdy
  BY StageFacts DEF E1Rdy
<1>2. ~E1Rdy(in) => ~ArbtValid(in.lsuRdy)
  BY <1>1, StageFacts
<1>3. /\ lsuOut' <=> \/ ArbtValid(in.lsuRdy) /\ itcmCmd = None
                     \/ lsuOut /\ ~LsuAnswered(in.lsuRdy)
      /\ lsuOut' \in BOOLEAN /\ lsuCmd' \in BOOLEAN
  BY DEF Itcm
<1>4. ~E1Rdy(in) => lsuOut /\ ~LsuAnswered(in.lsuRdy)
  BY <1>1, StageFacts DEF LsuAnswered
<1> QED BY <1>1, <1>2, <1>3, <1>4

\* A command of fetch that is taken is the fetch from then on, and the flag that
\* says so is about its lane.
Kept(a) == InItcm(a) /\ holdup => cmd2 = "itcm" /\ ramOut = Lane(a)

\* A command that is accepted is a fetch under way, in the one place its address says.
LEMMA CommandTaken ==
    ASSUME TypeOK, Shape, NEW in \in Inputs, NEW w, Step(in, w), w.cmd
    PROVE  Fetching(w.addr)' /\ Kept(w.addr)'
<1>1. /\ WiresOK(in, w) /\ Itcm(in, w) /\ Bus(in, w) /\ IcbRequest(w)
  BY DEF Step
<1>2. Calm \/ IcbRspValid
  BY <1>1, AskFacts DEF WiresOK
<1>3. itcmCmd = None
  BY <1>2, AnswerFacts DEF Calm
<1>4. w.addr \in Nat /\ Lane(w.addr) \in Nat
  BY <1>1, AddrFacts, Positions
<1>5. cmd2' = IF InItcm(w.addr) THEN "itcm" ELSE "biu"
  BY <1>1 DEF IcbRequest
<1>6. biu = "rsp" => IcbRspHsked
  BY AnswerFacts
<1>7. biu = "ifu" => FALSE
  <2>1. biu = "ifu" => ~Calm /\ ~IcbRspValid
    <3>1. ASSUME biu = "ifu", NEW a \in Nat, Fetching(a) PROVE ~IcbRspValid
      BY <3>1 DEF Fetching, IcbRspValid
    <3>2. QED BY <3>1, AnswerFacts DEF Calm, SomeFetch
  <2>2. QED BY <1>2, <2>1
<1>8. (InItcm(w.addr))' <=> InItcm(w.addr)
  BY DEF InItcm
<1>9. CASE InItcm(w.addr)
  <2>1. Asks(in, w) /\ ~ArbtValid(in.lsuRdy) /\ NextCmd(in, w) = Lane(w.addr)
    BY <1>1, <1>3, <1>9, AsksFacts DEF NextCmd, Asks
  <2>2. biu' \notin {"ifu", "rsp"}
    BY <1>1, <1>6, <1>7, <1>9 DEF Bus, TypeOK, MemOK
  <2>3. CASE E1Rdy(in)
    <3>1. /\ itcmCmd' = None /\ ramOut' = Lane(w.addr) /\ e1' = "ifu"
      BY <1>1, <1>4, <2>1, <2>3, ItcmFacts DEF None, Junk
    <3>2. QED BY <1>5, <1>9, <2>2, <3>1 DEF Fetching, Kept, InItcm, Lane
  <2>4. CASE ~E1Rdy(in)
    <3>1. /\ itcmCmd' = Lane(w.addr) /\ e1' = e1 /\ holdup' = holdup
      BY <1>1, <2>1, <2>4, ItcmRest
    <3>2. e1 = "lsu" /\ ~holdup
      BY <1>1, <2>4, LsuFacts, StageFacts
    <3>3. QED BY <1>5, <1>9, <2>2, <3>1, <3>2 DEF Fetching, Kept, InItcm, Lane
  <2>5. QED BY <2>3, <2>4
<1>10. CASE ~InItcm(w.addr)
  <2>1. ~Asks(in, w)
    BY <1>10 DEF Asks
  <2>2. NextCmd(in, w) \in {None, Junk}
    BY <1>3, <2>1 DEF NextCmd
  <2>3. itcmCmd' = None /\ e1' # "ifu"
    <3>1. CASE NextCmd(in, w) = Junk
      <4>1. E1Rdy(in)
        BY <1>1, <1>3, <2>1, <3>1, LsuFacts DEF NextCmd, None, Junk
      <4>2. QED BY <1>1, <3>1, <4>1, ItcmFacts DEF None, Junk
    <3>2. CASE NextCmd(in, w) = None
      <4>1. itcmCmd' = None /\ e1' = IF E1Rdy(in) THEN "none" ELSE e1
        BY <1>1, <3>2, ItcmRest
      <4>2. QED BY <1>1, <4>1, LsuFacts
    <3>3. QED BY <2>2, <3>1, <3>2
  <2>4. biu = "idle" /\ lsuBiu # "cmd"
    BY <1>1, <1>10, AsksFacts
  <2>5. biu' = "ifu" /\ biuAddr' = Lane(w.addr)
    BY <1>1, <1>10, <2>4 DEF Bus
  <2>6. QED BY <1>5, <1>10, <2>3, <2>5 DEF Fetching, Kept, InItcm, Lane
<1> QED BY <1>9, <1>10

\* Without a command of fetch nothing is under way after the answer.
LEMMA NoCommand ==
    ASSUME TypeOK, Shape, NEW in \in Inputs, NEW w, Step(in, w), ~w.cmd,
           Calm \/ IcbRspValid
    PROVE  /\ Calm' /\ cmd2' = cmd2
           /\ NextCmd(in, w) \in {None, Junk}
           /\ \A a : Kept(a) => Kept(a)'
<1>1. /\ WiresOK(in, w) /\ Itcm(in, w) /\ Bus(in, w) /\ IcbRequest(w)
  BY DEF Step
<1>2. itcmCmd = None
  BY AnswerFacts DEF Calm
<1>3. ~Asks(in, w)
  BY <1>1, <1>2, AsksFacts
<1>4. NextCmd(in, w) \in {None, Junk}
  BY <1>2, <1>3 DEF NextCmd
<1>5. cmd2' = cmd2
  BY <1>1 DEF IcbRequest
<1>6. biu = "ifu" => FALSE
  <2>1. ASSUME biu = "ifu", NEW a \in Nat, Fetching(a) PROVE ~IcbRspValid
    BY <2>1 DEF Fetching, IcbRspValid
  <2>2. QED BY <2>1, AnswerFacts DEF Calm, SomeFetch
<1>7. biu = "rsp" => IcbRspHsked
  BY AnswerFacts
<1>8. biu' \notin {"ifu", "rsp"}
  BY <1>1, <1>6, <1>7 DEF Bus, TypeOK, MemOK
<1>9. CASE NextCmd(in, w) = Junk
  <2>1. E1Rdy(in)
    BY <1>1, <1>2, <1>3, <1>9, LsuFacts DEF NextCmd, None, Junk
  <2>2. itcmCmd' = None /\ e1' = "lsu" /\ ~holdup'
    BY <1>1, <1>3, <1>9, <2>1, ItcmFacts DEF None, Junk
  <2>3. QED BY <1>4, <1>5, <1>8, <2>2 DEF Calm, Kept, InItcm
<1>10. CASE NextCmd(in, w) = None
  <2>1. itcmCmd' = None /\ e1' = (IF E1Rdy(in) THEN "none" ELSE e1)
        /\ ramOut' = ramOut /\ holdup' = holdup
    BY <1>1, <1>10, ItcmRest
  <2>2. e1' # "ifu"
    BY <1>1, <2>1, LsuFacts
  <2>3. QED BY <1>4, <1>5, <1>8, <2>1, <2>2 DEF Calm, Kept, InItcm, Lane
<1> QED BY <1>4, <1>9, <1>10

\* A fetch goes on until it is answered.
LEMMA FetchStays ==
    ASSUME TypeOK, Shape, NEW in \in Inputs, NEW w, Step(in, w),
           NEW a \in Nat, Fetching(a), ~IcbRspValid
    PROVE  Fetching(a)' /\ (Kept(a) => Kept(a)') /\ ~w.cmd /\ cmd2' = cmd2
<1>1. /\ WiresOK(in, w) /\ Itcm(in, w) /\ Bus(in, w) /\ IcbRequest(w)
  BY DEF Step
<1>2. ~Calm
  BY AnswerFacts DEF SomeFetch
<1>3. ~w.cmd /\ ~Asks(in, w)
  BY <1>1, <1>2, AskFacts, AsksFacts DEF WiresOK
<1>4. cmd2' = cmd2
  BY <1>1, <1>3 DEF IcbRequest
<1>5. Lane(a) \in Nat
  BY Positions
<1>6. CASE InItcm(a)
  <2>1. cmd2 = "itcm" /\ itcmCmd = Lane(a) /\ e1 # "ifu" /\ biu \notin {"ifu", "rsp"}
    BY <1>6 DEF Fetching, IcbRspValid
  <2>2. NextCmd(in, w) = Lane(a) /\ Lane(a) # None /\ Lane(a) # Junk
    BY <1>5, <2>1 DEF NextCmd, None, Junk
  <2>3. biu' \notin {"ifu", "rsp"}
    BY <1>1, <1>3, <2>1 DEF Bus, TypeOK, MemOK
  <2>4. CASE E1Rdy(in)
    <3>1. itcmCmd' = None /\ ramOut' = Lane(a) /\ e1' = "ifu"
      BY <1>1, <2>2, <2>4, ItcmFacts
    <3>2. QED BY <1>3, <1>4, <1>6, <2>1, <2>3, <3>1 DEF Fetching, Kept, InItcm, Lane
  <2>5. CASE ~E1Rdy(in)
    <3>1. itcmCmd' = Lane(a) /\ ramOut' = ramOut /\ e1' = e1 /\ holdup' = holdup
      BY <1>1, <2>2, <2>5, ItcmRest
    <3>2. QED BY <1>3, <1>4, <1>6, <2>1, <2>3, <3>1 DEF Fetching, Kept, InItcm, Lane
  <2>6. QED BY <2>4, <2>5
<1>7. CASE ~InItcm(a)
  <2>1. /\ cmd2 = "biu" /\ itcmCmd = None /\ e1 # "ifu" /\ biu = "ifu"
        /\ biuAddr = Lane(a)
    BY <1>7 DEF Fetching, IcbRspValid
  <2>2. NextCmd(in, w) \in {None, Junk}
    BY <1>3, <2>1 DEF NextCmd
  <2>3. itcmCmd' = None /\ e1' # "ifu"
    <3>1. CASE NextCmd(in, w) = Junk
      <4>1. E1Rdy(in)
        BY <1>1, <1>3, <2>1, <3>1, LsuFacts DEF NextCmd, None, Junk
      <4>2. QED BY <1>1, <3>1, <4>1, ItcmFacts DEF None, Junk
    <3>2. CASE NextCmd(in, w) = None
      <4>1. itcmCmd' = None /\ e1' = IF E1Rdy(in) THEN "none" ELSE e1
        BY <1>1, <3>2, ItcmRest
      <4>2. QED BY <2>1, <4>1
    <3>3. QED BY <2>2, <3>1, <3>2
  <2>4. biuAddr' = Lane(a)
    BY <1>1, <2>1 DEF Bus
  <2>5. biu' = "ifu" \/ (biu' = "rsp" /\ biuOut' = Lane(a))
    BY <1>1, <2>1 DEF Bus
  <2>6. QED BY <1>3, <1>4, <1>7, <2>1, <2>3, <2>4, <2>5 DEF Fetching, Kept, InItcm, Lane
<1> QED BY <1>6, <1>7

-----------------------------------------------------------------------------
(* One access at a time *)

\* A clock keeps the types.
LEMMA TypeStep ==
    ASSUME TypeOK, Shape, NEW in \in Inputs, NEW w, Step(in, w)
    PROVE  TypeOK'
<1>1. /\ WiresOK(in, w) /\ Itcm(in, w) /\ Bus(in, w) /\ IcbRequest(w)
      /\ Pending(in, w) /\ InstructionRegister(in, w) /\ ProgramCounter(in, w)
      /\ IcbState(w) /\ Leftover(w) /\ RspBuffer(w) /\ Commit(in) /\ code' = code
  BY DEF Step
<1>2. w.a \in Nat /\ w.addr \in Nat /\ Lane(w.addr) \in Nat
  BY <1>1, AddrFacts, Positions
<1>3. /\ w.need.hold \in BOOLEAN /\ w.need.two \in BOOLEAN /\ w.need.zero \in BOOLEAN
  <2>1. w.need = Need(w.a, ReqSeq(in))
    BY <1>1 DEF WiresOK
  <2>2. ReqSeq(in) \in BOOLEAN /\ laneCross \in BOOLEAN /\ holdup \in BOOLEAN
    BY DEF ReqSeq, TypeOK, FlagsOK
  <2>3. w.need.hold \in BOOLEAN /\ w.need.two \in BOOLEAN /\ w.need.zero \in BOOLEAN
    BY <2>1 DEF Need, LaneSame, Held
  <2>4. QED BY <2>3
<1>4. FlagsOK'
  <2>1. /\ resetFlag' \in BOOLEAN /\ resetReq' \in BOOLEAN /\ haltAck' \in BOOLEAN
        /\ dlyFlush' \in BOOLEAN
    BY <1>1 DEF Pending, TypeOK, FlagsOK
  <2>2. irValid' \in BOOLEAN /\ irPcVld' \in BOOLEAN /\ pcNewpend' \in BOOLEAN
    BY <1>1 DEF InstructionRegister
  <2>3. outFlag' \in BOOLEAN
    BY <1>1 DEF ProgramCounter
  <2>4. /\ sameCrossHoldup' \in BOOLEAN /\ need2' \in BOOLEAN /\ need0' \in BOOLEAN
        /\ laneCross' \in BOOLEAN
    BY <1>1, <1>3 DEF IcbRequest, TypeOK, FlagsOK, Cross
  <2>5. leftoverErr' \in BOOLEAN
    BY <1>1 DEF Leftover, TypeOK, FlagsOK
  <2>6. holdup' \in BOOLEAN
    BY <1>1 DEF Itcm, TypeOK, FlagsOK
  <2>7. QED BY <2>1, <2>2, <2>3, <2>4, <2>5, <2>6 DEF FlagsOK
<1>5. PcOK'
  <2>1. pc' \in Nat
    BY <1>1, <1>2 DEF ProgramCounter, TypeOK, PcOK
  <2>2. Succ(arch) \in Nat
    BY ProgramAssumption DEF Succ, Jumps, TypeOK, PcOK
  <2>3. arch' \in Nat
    BY <1>1, <2>2, InputFacts DEF Commit, TypeOK, PcOK
  <2>4. halt' \in {"no", "halt", "trap"}
    BY <1>1, InputFacts DEF Commit, TypeOK, PcOK
  <2>5. flushes' \in Nat
    BY <1>1, InputFacts DEF Commit, TypeOK, PcOK
  <2>6. QED BY <1>1, <2>1, <2>3, <2>4, <2>5 DEF TypeOK, PcOK
<1>6. IcbOK'
  <2>1. st' \in {"IDLE", "1ST", "WAIT2ND", "2ND"}
    BY <1>1 DEF IcbState, TypeOK, IcbOK
  <2>2. cmd2' \in {"none", "itcm", "biu"}
    BY <1>1 DEF IcbRequest, TypeOK, IcbOK
  <2>3. addr21' \in 0 .. 3
    BY <1>1, <1>2, Positions DEF IcbRequest, TypeOK, IcbOK
  <2>4. leftover' \in Words
    BY <1>1, InstrFacts DEF Leftover, TypeOK, IcbOK
  <2>5. NoInstr \in Instruction
    BY DEF NoInstr, Instruction, None
  <2>6. rspBuf' \in Instruction
    BY <1>1, <2>5, InstrFacts DEF RspBuffer, TypeOK, IcbOK
  <2>7. QED BY <2>1, <2>2, <2>3, <2>4, <2>6 DEF IcbOK
<1>7. MemOK'
  <2>1. biu' \in {"idle", "ifu", "rsp", "lsu"}
    BY <1>1 DEF Bus, TypeOK, MemOK
  <2>2. biuAddr' \in Nat \union {None}
    BY <1>1, <1>2 DEF Bus, TypeOK, MemOK
  <2>3. biuOut' \in Nat \union {Junk}
    <3>1. biu = "ifu" => biuAddr \in Nat
      <4>1. ASSUME biu = "ifu", NEW a \in Nat, Fetching(a) PROVE biuAddr \in Nat
        BY <4>1, Positions DEF Fetching
      <4>2. QED BY <4>1, AnswerFacts DEF Calm, SomeFetch
    <3>2. QED BY <1>1, <3>1 DEF Bus, TypeOK, MemOK
  <2>4. NextCmd(in, w) \in Nat \union {None, Junk}
    BY <1>2 DEF NextCmd, TypeOK, MemOK
  <2>5. NextCmd(in, w) = Junk => itcmCmd = None /\ ArbtValid(in.lsuRdy)
    BY <1>2 DEF NextCmd, TypeOK, MemOK, None, Junk
  <2>6. NextCmd(in, w) = Junk => ~Asks(in, w)
    BY <2>5 DEF Asks
  <2>7. lsuCmd' \in BOOLEAN /\ lsuOut' \in BOOLEAN
    BY <1>1, LsuFacts
  <2>8. CASE NextCmd(in, w) # None /\ E1Rdy(in)
    <3>1. /\ itcmCmd' = None /\ ramOut' = NextCmd(in, w) /\ holdup' = Asks(in, w)
          /\ e1' = IF NextCmd(in, w) = Junk THEN "lsu" ELSE "ifu"
      BY <1>1, <2>8, ItcmFacts
    <3>2. e1' = "lsu" => lsuOut' /\ ~holdup'
      BY <1>1, <2>5, <2>6, <3>1, LsuFacts
    <3>3. QED BY <2>1, <2>2, <2>3, <2>4, <2>7, <2>8, <3>1, <3>2 DEF MemOK
  <2>9. CASE NextCmd(in, w) = None \/ ~E1Rdy(in)
    <3>1. /\ itcmCmd' = NextCmd(in, w) /\ ramOut' = ramOut /\ holdup' = holdup
          /\ e1' = IF E1Rdy(in) THEN "none" ELSE e1
      BY <1>1, <2>9, ItcmRest
    <3>2. NextCmd(in, w) # Junk
      BY <1>1, <2>5, <2>9, LsuFacts DEF None, Junk
    <3>3. e1' = "lsu" => lsuOut' /\ ~holdup'
      BY <1>1, <3>1, LsuFacts, StageFacts
    <3>4. QED BY <2>1, <2>2, <2>3, <2>4, <2>7, <3>1, <3>2, <3>3 DEF MemOK, TypeOK
  <2>10. QED BY <2>8, <2>9
<1> QED BY <1>4, <1>5, <1>6, <1>7 DEF TypeOK

\* How many accesses a request needs, one condition per kind.
LEMMA NeedFacts ==
    ASSUME NEW in, NEW w, WiresOK(in, w)
    PROVE  /\ w.need.hold <=> LaneSame(w.a, ReqSeq(in)) /\ Cross(w.a) /\ Held(w.a)
           /\ w.need.two <=> Cross(w.a) /\ ~(LaneSame(w.a, ReqSeq(in)) /\ Held(w.a))
           /\ w.need.zero <=> LaneSame(w.a, ReqSeq(in)) /\ ~Cross(w.a) /\ Held(w.a)
<1>1. w.need = Need(w.a, ReqSeq(in))
  BY DEF WiresOK
<1>2. /\ w.need.hold = (LaneSame(w.a, ReqSeq(in)) /\ Cross(w.a) /\ Held(w.a))
      /\ w.need.two = (Cross(w.a) /\ ~(LaneSame(w.a, ReqSeq(in)) /\ Held(w.a)))
      /\ w.need.zero = (LaneSame(w.a, ReqSeq(in)) /\ ~Cross(w.a) /\ Held(w.a))
  BY <1>1 DEF Need
<1> QED BY <1>2

\* The request that is taken in a clock is the access from then on.
LEMMA RequestStep ==
    ASSUME TypeOK, Shape, NEW in \in Inputs, NEW w, Step(in, w), w.req
    PROVE  /\ st' = "1ST" /\ rspBuf' = NoInstr /\ outFlag'
           /\ IF need0' THEN Calm' /\ ~need2' /\ ~w.cmd
              ELSE w.cmd /\ Fetching(w.addr)' /\ Kept(w.addr)'
<1>1. /\ WiresOK(in, w) /\ IcbState(w) /\ IcbRequest(w) /\ RspBuffer(w)
      /\ ProgramCounter(in, w)
  BY DEF Step
<1>2. ReqCondi /\ (Calm \/ IcbRspValid) /\ (w.cmd <=> ~w.need.zero)
  BY <1>1, AskFacts
<1>3. ~outFlag \/ w.rsp
  BY <1>1, AskFacts DEF ReqVal
<1>4. st' = "1ST"
  BY <1>1, <1>2 DEF ReqCondi, IcbState, Rsp2Leftover
<1>5. rspBuf' = NoInstr
  <2>1. CASE w.rsp
    BY <1>1, <2>1 DEF RspBuffer
  <2>2. CASE ~outFlag
    <3>1. st = "IDLE" /\ rspBuf = NoInstr
      BY <2>2 DEF Shape
    <3>2. ~IcbInstrValid
      BY <3>1, AnswerFacts DEF IcbInstrValid, Shape
    <3>3. QED BY <1>1, <3>1, <3>2 DEF RspBuffer
  <2>3. QED BY <1>3, <2>1, <2>2
<1>6. outFlag'
  BY <1>1 DEF ProgramCounter
<1>7. need0' = w.need.zero /\ need2' = w.need.two
  BY <1>1 DEF IcbRequest
<1>8. w.need.zero => ~w.need.two
  BY <1>1, NeedFacts
<1>9. CASE w.need.zero
  BY <1>2, <1>4, <1>5, <1>6, <1>7, <1>8, <1>9, NoCommand
<1>10. CASE ~w.need.zero
  BY <1>2, <1>4, <1>5, <1>6, <1>7, <1>10, CommandTaken
<1> QED BY <1>9, <1>10

\* In a clock without a request the access goes on, or its answer is kept or taken.
LEMMA NoRequestStep ==
    ASSUME TypeOK, Shape, NEW in \in Inputs, NEW w, Step(in, w), ~w.req
    PROVE  /\ need2' = need2 /\ need0' = need0 /\ sameCrossHoldup' = sameCrossHoldup
           /\ laneCross' = laneCross /\ (~w.cmd => addr21' = addr21)
           /\ IcbInstrValid =>
                /\ st # "IDLE" /\ st' = "IDLE" /\ Calm' /\ ~w.cmd /\ rspBuf = NoInstr
                /\ rspBuf' = IF w.rsp THEN NoInstr ELSE IcbInstr
           /\ ~IcbInstrValid /\ st # "IDLE" => rspBuf' = NoInstr /\ ~w.rsp /\ outFlag
           /\ st = "IDLE" =>
                /\ st' = "IDLE" /\ Calm' /\ ~w.cmd
                /\ rspBuf' = IF w.rsp THEN NoInstr ELSE rspBuf
           /\ Second => /\ st' = IF w.cmdRdy THEN "2ND" ELSE "WAIT2ND"
                        /\ w.cmd <=> w.cmdRdy
                        /\ ~w.cmdRdy => Calm'
           /\ ~IcbInstrValid /\ ~Second => st' = st /\ ~w.cmd
<1>1. /\ WiresOK(in, w) /\ IcbState(w) /\ IcbRequest(w) /\ RspBuffer(w)
  BY DEF Step
<1>2. /\ need2' = need2 /\ need0' = need0 /\ sameCrossHoldup' = sameCrossHoldup
      /\ laneCross' = laneCross /\ (~w.cmd => addr21' = addr21)
  BY <1>1 DEF IcbRequest
<1>3. /\ w.cmd <=> Second /\ w.cmdRdy
      /\ Second => (Calm \/ IcbRspValid) /\ ~IcbInstrValid
  BY <1>1, AskFacts
<1>4. w.rsp => RspValid
  BY <1>1 DEF WiresOK
<1>5. IcbInstrValid => IcbInstrHsked /\ (Calm \/ IcbRspValid) /\ rspBuf = NoInstr
                       /\ (st = "1ST" \/ st = "2ND")
  BY AnswerFacts DEF IcbInstrValid, Shape
<1>6. ASSUME IcbInstrValid
      PROVE  /\ st # "IDLE" /\ st' = "IDLE" /\ Calm' /\ ~w.cmd /\ rspBuf = NoInstr
             /\ rspBuf' = IF w.rsp THEN NoInstr ELSE IcbInstr
  <2>1. st = "1ST" => ~Rsp2Leftover
    BY <1>6 DEF IcbInstrValid, Rsp2Leftover, Shape
  <2>2. st' = "IDLE"
    BY <1>1, <1>5, <1>6, <2>1 DEF IcbState
  <2>3. Calm'
    BY <1>3, <1>5, <1>6, NoCommand
  <2>4. rspBuf' = IF w.rsp THEN NoInstr ELSE IcbInstr
    BY <1>1, <1>5, <1>6 DEF RspBuffer
  <2>5. QED BY <1>3, <1>5, <1>6, <2>2, <2>3, <2>4
<1>7. ASSUME ~IcbInstrValid, st # "IDLE" PROVE rspBuf' = NoInstr /\ ~w.rsp /\ outFlag
  <2>1. rspBuf = NoInstr /\ outFlag
    BY <1>7 DEF Shape
  <2>2. QED BY <1>1, <1>4, <1>7, <2>1 DEF RspBuffer, RspValid
<1>8. ASSUME st = "IDLE"
      PROVE  /\ st' = "IDLE" /\ Calm' /\ ~w.cmd
             /\ rspBuf' = IF w.rsp THEN NoInstr ELSE rspBuf
  <2>1. st' = "IDLE"
    BY <1>1, <1>8 DEF IcbState
  <2>2. ~w.cmd /\ ~IcbInstrValid
    BY <1>3, <1>5, <1>8 DEF Second
  <2>3. Calm'
    BY <1>8, <2>2, NoCommand DEF Shape
  <2>4. rspBuf' = IF w.rsp THEN NoInstr ELSE rspBuf
    BY <1>1, <2>2 DEF RspBuffer
  <2>5. QED BY <2>1, <2>2, <2>3, <2>4
<1>9. ASSUME Second
      PROVE  /\ st' = IF w.cmdRdy THEN "2ND" ELSE "WAIT2ND"
             /\ w.cmd <=> w.cmdRdy
             /\ ~w.cmdRdy => Calm'
  <2>1. st' = IF w.cmdRdy THEN "2ND" ELSE "WAIT2ND"
    BY <1>1, <1>9 DEF IcbState, Second, Rsp2Leftover
  <2>2. QED BY <1>3, <1>9, <2>1, NoCommand
<1>10. ASSUME ~IcbInstrValid, ~Second PROVE st' = st /\ ~w.cmd
  <2>1. ~IcbInstrHsked
    BY <1>10 DEF IcbInstrHsked
  <2>2. st' = st
    BY <1>1, <1>8, <1>10, <2>1 DEF IcbState, Second, Rsp2Leftover, Shape
  <2>3. QED BY <1>3, <1>10, <2>2
<1> QED BY <1>2, <1>6, <1>7, <1>8, <1>9, <1>10

\* A clock keeps the shape of what is under way.
LEMMA ShapeStep ==
    ASSUME TypeOK, Shape, NEW in \in Inputs, NEW w, Step(in, w)
    PROVE  Shape'
<1>1. WiresOK(in, w) /\ (outFlag' <=> (w.req \/ (outFlag /\ ~w.rsp)))
  BY DEF Step, ProgramCounter
<1>2. ASSUME NEW a \in Nat, Fetching(a)' PROVE SomeFetch'
  BY <1>2 DEF SomeFetch
<1>3. w.addr \in Nat
  BY <1>1, AddrFacts
<1>4. CASE w.req
  <2>1. /\ st' = "1ST" /\ rspBuf' = NoInstr /\ outFlag'
        /\ IF need0' THEN Calm' /\ ~need2' ELSE Fetching(w.addr)'
    BY <1>4, RequestStep
  <2>2. QED BY <1>2, <1>3, <2>1 DEF Shape
<1>5. CASE ~w.req
  <2>1. CASE st = "IDLE"
    <3>1. st' = "IDLE" /\ Calm' /\ rspBuf' = IF w.rsp THEN NoInstr ELSE rspBuf
      BY <1>5, <2>1, NoRequestStep
    <3>2. outFlag <=> rspBuf # NoInstr
      BY <2>1 DEF Shape
    <3>3. QED BY <1>1, <1>5, <3>1, <3>2 DEF Shape
  <2>2. CASE IcbInstrValid
    <3>1. /\ st # "IDLE" /\ st' = "IDLE" /\ Calm'
          /\ rspBuf' = IF w.rsp THEN NoInstr ELSE IcbInstr
      BY <1>5, <2>2, NoRequestStep
    <3>2. outFlag /\ IcbInstr # NoInstr
      BY <3>1, InstrFacts DEF Shape
    <3>3. QED BY <1>1, <1>5, <3>1, <3>2 DEF Shape
  <2>3. CASE Second
    <3>1. st \in {"1ST", "WAIT2ND"} /\ need2
      BY <2>3 DEF Second
    <3>2. ~IcbInstrValid
      BY <1>1, <2>3, AskFacts
    <3>3. /\ rspBuf' = NoInstr /\ ~w.rsp /\ outFlag /\ need2' = need2
          /\ st' = IF w.cmdRdy THEN "2ND" ELSE "WAIT2ND"
          /\ w.cmd <=> w.cmdRdy
          /\ ~w.cmdRdy => Calm'
      BY <1>5, <2>3, <3>1, <3>2, NoRequestStep
    <3>4. w.cmdRdy => SomeFetch'
      BY <1>2, <1>3, <3>3, CommandTaken
    <3>5. QED BY <1>1, <3>1, <3>3, <3>4 DEF Shape
  <2>4. CASE st # "IDLE" /\ ~IcbInstrValid /\ ~Second
    <3>1. /\ rspBuf' = NoInstr /\ ~w.rsp /\ outFlag /\ st' = st /\ ~w.cmd
          /\ need2' = need2 /\ need0' = need0
      BY <1>5, <2>4, NoRequestStep
    <3>2. ~IcbRspValid
      BY <2>4, AnswerFacts DEF IcbInstrValid, Second, Rsp2Leftover
    <3>3. SomeFetch => SomeFetch'
      BY <1>2, <3>2, FetchStays DEF SomeFetch
    <3>4. Calm => Calm'
      BY <3>1, NoCommand
    <3>5. QED BY <1>1, <2>4, <3>1, <3>3, <3>4 DEF Shape
  <2>5. QED BY <2>1, <2>2, <2>3, <2>4
<1> QED BY <1>4, <1>5

\* A clock keeps what a halt waits for.
LEMMA HaltingStep ==
    ASSUME TypeOK, Shape, Halting, NEW in \in Inputs, NEW w, Step(in, w)
    PROVE  Halting'
<1>1. /\ WiresOK(in, w) /\ Possible(in) /\ Commit(in) /\ Pending(in, w)
      /\ InstructionRegister(in, w) /\ ProgramCounter(in, w) /\ IcbRequest(w)
  BY DEF Step
<1>2. /\ in.take => irValid /\ halt = "no"
      /\ in.wfi => irValid /\ halt = "no"
      /\ in.wake => halt = "halt"
      /\ resetFlag \/ resetReq => in.flush = None
  BY InputFacts
<1>3. in.wfi => in.flush = None
  BY <1>1 DEF Possible
<1>4. flushes \in Nat
  BY DEF TypeOK, PcOK
<1>5. dlyFlush' <=> ~w.req /\ (in.flush # None \/ dlyFlush)
  BY <1>1 DEF Pending, FlushReal
<1>6. halt' = "halt" => IF flushes' = 0 THEN ~dlyFlush' ELSE pc' = arch'
  <2>1. SUFFICES ASSUME halt' = "halt"
                 PROVE  IF flushes' = 0 THEN ~dlyFlush' ELSE pc' = arch'
    OBVIOUS
  <2>2. CASE in.wfi
    <3>1. in.take /\ in.flush = None /\ irValid
      BY <1>1, <1>2, <2>2 DEF Possible
    <3>2. flushes' = 0 /\ ~dlyFlush'
      BY <1>1, <1>5, <3>1 DEF Commit, Halting
    <3>3. QED BY <3>2
  <2>3. CASE ~in.wfi
    <3>1. HaltReq(in) /\ halt = "halt" /\ ~in.take
      BY <1>1, <1>2, <2>1, <2>3 DEF Commit, HaltReq
    <3>2. CASE in.flush # None
      <4>1. flushes' # 0 /\ arch' = in.flush
        BY <1>1, <1>4, <3>1, <3>2 DEF Commit
      <4>2. pc' = in.flush
        BY <1>1, <3>2 DEF ProgramCounter, WiresOK, PcNxt, FlushReal
      <4>3. QED BY <4>1, <4>2
    <3>3. CASE in.flush = None
      <4>1. flushes' = flushes /\ arch' = arch
        BY <1>1, <3>1, <3>3 DEF Commit
      <4>2. flushes = 0 => ~dlyFlush'
        BY <1>5, <3>1, <3>3 DEF Halting
      <4>3. ~resetReq /\ ~resetFlag
        BY <3>1 DEF Halting
      <4>4. w.req => dlyFlush
        BY <1>1, <3>1, <3>3, <4>3 DEF WiresOK, ReqVal, NewReq, FlushReal
      <4>5. pc' = pc
        BY <1>1, <3>3, <4>4 DEF ProgramCounter, WiresOK, PcNxt, FlushReal
      <4>6. QED BY <3>1, <4>1, <4>2, <4>5 DEF Halting
    <3>4. QED BY <3>2, <3>3
  <2>4. QED BY <2>2, <2>3
<1>7. haltAck' => halt' = "halt" /\ (flushes' = 0 => st' = "IDLE")
  <2>1. SUFFICES ASSUME HaltReq(in), haltAck \/ ~outFlag \/ RspValid
                 PROVE  halt' = "halt" /\ (flushes' = 0 => st' = "IDLE")
    BY <1>1 DEF Pending
  <2>2. halt = "halt" /\ ~in.wake /\ ~in.wfi /\ ~in.take
    BY <1>2, <2>1 DEF HaltReq
  <2>3. halt' = "halt"
    BY <1>1, <2>1, <2>2 DEF Commit, HaltReq
  <2>4. SUFFICES ASSUME flushes' = 0 PROVE st' = "IDLE"
    BY <2>3
  <2>5. in.flush = None /\ flushes = 0
    BY <1>1, <1>4, <2>2, <2>4 DEF Commit
  <2>6. ~dlyFlush /\ ~resetReq /\ ~resetFlag
    BY <2>2, <2>5 DEF Halting
  <2>7. ~w.req
    BY <1>1, <2>1, <2>5, <2>6 DEF WiresOK, ReqVal, NewReq, FlushReal
  <2>8. st = "IDLE" \/ IcbInstrValid
    BY <2>1, <2>5 DEF Halting, Shape, RspValid
  <2>9. QED BY <2>7, <2>8, NoRequestStep
<1>8. dlyFlush' => pc' = arch' /\ ~irValid' /\ pcNewpend'
  <2>1. SUFFICES ASSUME ~w.req, in.flush # None \/ dlyFlush
                 PROVE  pc' = arch' /\ ~irValid' /\ pcNewpend'
    BY <1>5
  <2>2. FlushReal(in)
    BY <2>1 DEF FlushReal
  <2>3. CASE in.flush # None
    <3>1. w.a = in.flush
      BY <1>1, <2>3 DEF WiresOK, PcNxt, FlushReal
    <3>2. pc' = arch'
      BY <1>1, <2>3, <3>1 DEF ProgramCounter, Commit
    <3>3. QED BY <1>1, <2>2, <2>3, <3>2 DEF InstructionRegister, IrClr
  <2>4. CASE in.flush = None /\ dlyFlush
    <3>1. pc = arch /\ ~irValid /\ pcNewpend /\ ~in.take
      BY <1>2, <2>4 DEF Halting
    <3>2. pc' = arch'
      BY <1>1, <2>1, <2>4, <3>1 DEF ProgramCounter, Commit
    <3>3. QED BY <1>1, <2>2, <3>1, <3>2 DEF InstructionRegister
  <2>5. QED BY <2>1, <2>3, <2>4
<1>9. resetFlag' \/ resetReq' =>
         /\ ~irValid' /\ ~outFlag' /\ ~dlyFlush' /\ halt' = "no" /\ cmd2' = "none"
         /\ ~irPcVld' /\ ~pcNewpend' /\ arch' = ResetVec
  <2>1. SUFFICES ASSUME resetFlag' \/ resetReq'
                 PROVE  /\ ~irValid' /\ ~outFlag' /\ ~dlyFlush' /\ halt' = "no"
                        /\ cmd2' = "none" /\ ~irPcVld' /\ ~pcNewpend' /\ arch' = ResetVec
    OBVIOUS
  <2>2. (resetReq /\ ~w.req) \/ (~resetReq /\ resetFlag)
    BY <1>1, <2>1 DEF Pending
  <2>3. /\ ~irValid /\ ~outFlag /\ ~dlyFlush /\ halt = "no" /\ cmd2 = "none"
        /\ ~irPcVld /\ ~pcNewpend /\ arch = ResetVec
    BY <2>2 DEF Halting
  <2>4. in.flush = None /\ ~in.take /\ ~in.wfi /\ ~in.wake
    BY <1>2, <2>2, <2>3
  <2>5. ~FlushReal(in)
    BY <2>3, <2>4 DEF FlushReal
  <2>6. ~w.req
    BY <1>1, <2>2, <2>5 DEF WiresOK, ReqVal, NewReq
  <2>7. st = "IDLE" /\ rspBuf = NoInstr
    BY <2>3 DEF Shape
  <2>8. ~w.cmd
    BY <2>6, <2>7, NoRequestStep
  <2>9. ~w.rsp
    <3>1. ~IcbInstrValid
      BY <2>7, AnswerFacts DEF IcbInstrValid, Shape
    <3>2. QED BY <1>1, <2>7, <3>1 DEF WiresOK, RspValid
  <2>10. ~irValid' /\ ~irPcVld' /\ ~pcNewpend'
    BY <1>1, <2>3, <2>4, <2>6, <2>9 DEF InstructionRegister
  <2>11. ~outFlag' /\ ~dlyFlush' /\ cmd2' = "none"
    BY <1>1, <1>5, <2>3, <2>4, <2>6, <2>8 DEF ProgramCounter, IcbRequest
  <2>12. halt' = "no" /\ arch' = ResetVec
    BY <1>1, <2>3, <2>4 DEF Commit, HaltReq
  <2>13. QED BY <2>10, <2>11, <2>12
<1> QED BY <1>6, <1>7, <1>8, <1>9 DEF Halting

-----------------------------------------------------------------------------
(* The first two theorems *)

Access == TypeOK /\ Shape /\ Halting

\* The three hold after reset.
LEMMA AccessInit == ASSUME Init PROVE Access
<1>1. FlagsOK /\ PcOK
  BY ProgramAssumption DEF Init, FlagsOK, PcOK
<1>2. IcbOK
  BY DEF Init, IcbOK, Words, Instruction, NoInstr, None, Junk
<1>3. Shape /\ MemOK
  <2>1. MemOK
    BY DEF Init, MemOK, None, Junk
  <2>2. Shape
    BY DEF Init, Shape, Calm
  <2>3. QED BY <2>1, <2>2
<1>4. Halting
  BY DEF Init, Halting
<1> QED BY <1>1, <1>2, <1>3, <1>4 DEF Access, TypeOK

\* They depend on the state alone.
LEMMA AccessStutter == ASSUME Access, UNCHANGED vars PROVE Access'
BY DEF Access, TypeOK, FlagsOK, PcOK, IcbOK, MemOK, Shape, Halting, SomeFetch, Fetching,
       Calm, InItcm, Lane, vars, pcVars, icbVars, memVars, envVars

\* They are inductive together.
LEMMA AccessStep == ASSUME Access, [Next]_vars PROVE Access'
<1>1. CASE Next
  <2>1. PICK in \in Inputs : \E w : Step(in, w)
    BY <1>1, StepFacts
  <2>2. PICK w : Step(in, w)
    BY <2>1
  <2>3. TypeOK' /\ Shape' /\ Halting'
    BY <2>2, TypeStep, ShapeStep, HaltingStep DEF Access
  <2>4. QED BY <2>3 DEF Access
<1>2. CASE UNCHANGED vars
  BY <1>2, AccessStutter
<1> QED BY <1>1, <1>2

\* What is under way of a request is at every time of one of the shapes of Shape, and
\* an acknowledged halt finds none of it, but for what a failed load has flushed to.
THEOREM AccessInvariant == Spec => []Access
<1>1. Init => Access
  BY AccessInit
<1>2. Access /\ [Next]_vars => Access'
  BY AccessStep
<1> QED BY <1>1, <1>2, PTL DEF Spec

\* The state of the request says in how many places its access is: none or one.
LEMMA AccessOne == ASSUME Access PROVE OneAtATime
<1> DEFINE here == <<itcmCmd \notin {None, Junk}, e1 = "ifu", biu \in {"ifu", "rsp"}>>
           under == {i \in DOMAIN here : here[i]}
<1>1. Shape /\ TypeOK
  BY DEF Access
<1>2. /\ outFlag <=> (st # "IDLE" \/ rspBuf # NoInstr)
      /\ st # "IDLE" => rspBuf = NoInstr
  BY <1>1 DEF Shape
<1>3. DOMAIN here = 1 .. 3
  OBVIOUS
<1>4. /\ here[1] <=> itcmCmd \notin {None, Junk}
      /\ here[2] <=> e1 = "ifu"
      /\ here[3] <=> biu \in {"ifu", "rsp"}
  OBVIOUS
<1> HIDE DEF here
<1>5. Calm => under = {}
  BY <1>3, <1>4 DEF Calm
<1>6. SomeFetch => \E i \in 1 .. 3 : under = {i}
  <2>1. SUFFICES ASSUME NEW a \in Nat, Fetching(a)
                 PROVE  \E i \in 1 .. 3 : under = {i}
    BY DEF SomeFetch
  <2>2. Lane(a) \in Nat
    BY Positions
  <2>3. CASE itcmCmd = Lane(a) /\ e1 # "ifu" /\ biu \notin {"ifu", "rsp"}
    <3>1. itcmCmd # None /\ itcmCmd # Junk
      BY <2>2, <2>3 DEF None, Junk
    <3>2. under = {1}
      BY <1>3, <1>4, <2>3, <3>1
    <3>3. QED BY <3>2
  <2>4. CASE itcmCmd = None /\ e1 = "ifu" /\ biu \notin {"ifu", "rsp"}
    <3>1. under = {2}
      BY <1>3, <1>4, <2>4
    <3>2. QED BY <3>1
  <2>5. CASE itcmCmd = None /\ e1 # "ifu" /\ biu \in {"ifu", "rsp"}
    <3>1. under = {3}
      BY <1>3, <1>4, <2>5
    <3>2. QED BY <3>1
  <2>6. QED BY <2>1, <2>3, <2>4, <2>5 DEF Fetching
<1>7. IF st = "2ND" \/ (st = "1ST" /\ ~need0) THEN SomeFetch ELSE Calm
  BY <1>1 DEF Shape, TypeOK, IcbOK
<1>8. IF st = "2ND" \/ (st = "1ST" /\ ~need0)
      THEN \E i \in 1 .. 3 : under = {i} ELSE under = {}
  BY <1>5, <1>6, <1>7
<1> QED BY <1>2, <1>8 DEF OneAtATime, here

\* The request that is out is one access and no more, in one place, for every
\* program, address map and schedule of the LSU and the bus.
THEOREM OneAccess == Spec => []OneAtATime
BY AccessInvariant, AccessOne, PTL

\* When a halt is acknowledged, nothing is under way, until a load fails.
LEMMA AccessQuiet == ASSUME Access PROVE HaltQuiet
<1>1. Shape /\ Halting /\ flushes \in Nat
  BY DEF Access, TypeOK, PcOK
<1>2. CASE haltAck /\ flushes = 0
  <2>1. Calm
    BY <1>1, <1>2 DEF Shape, Halting
  <2>2. QED BY <2>1 DEF HaltQuiet, Calm
<1>3. CASE haltAck /\ flushes # 0
  <2>1. pc = arch /\ flushes > 0
    BY <1>1, <1>3 DEF Halting
  <2>2. QED BY <2>1 DEF HaltQuiet
<1> QED BY <1>2, <1>3 DEF HaltQuiet

\* A halt that is acknowledged stops a clock that fetch does not need, unless a load
\* that WFI did not wait for fails; then only the fetch it flushed to is under way.
THEOREM QuietHalt == Spec => []HaltQuiet
BY AccessInvariant, AccessQuiet, PTL

-----------------------------------------------------------------------------
(* The right instruction *)

\* The last halfword that the words fetched for a hold of it, if it is wide.
Last(a) == IF Cross(a) THEN a + 1 ELSE a

\* i is the instruction at a, with the errors of its words.
Right(i, a) ==
    /\ i.lo = a /\ (Wide(a) => i.hi = a + 1)
    /\ (\E h \in Halves(a) : BadHalf(h)) => i.err
    /\ i.err => BadHalf(a) \/ BadHalf(a + 1)

\* The first half of what crosses into the next word is at hand.
HasLeft(a) == Cross(a) /\ leftover = a /\ (leftoverErr <=> BadHalf(a))

\* The access under way, or the answer kept, is the one for a; the output of the
\* RAM is not taken for a lane that it does not hold.
Engine(a) ==
    /\ laneCross <=> Cross(a)
    /\ st = "IDLE" => Right(rspBuf, a)
    /\ st = "1ST" /\ need2 => Cross(a) /\ ~sameCrossHoldup /\ Fetching(a)
    /\ st = "1ST" /\ sameCrossHoldup => HasLeft(a) /\ ~need0 /\ ~need2 /\ Fetching(a + 1)
    /\ st = "1ST" /\ ~need2 /\ ~sameCrossHoldup =>
         /\ ~Cross(a) /\ addr21 = a % 4
         /\ IF need0 THEN InItcm(a) /\ cmd2 = "itcm" /\ ramOut = Lane(a) ELSE Fetching(a)
    /\ st = "WAIT2ND" => HasLeft(a)
    /\ st = "2ND" => HasLeft(a) /\ Fetching(a + 1)
    /\ st = "WAIT2ND" \/ (st = "1ST" /\ need2) \/ Kept(Last(a))

\* The request that is out will be dispatched, if it is not flushed: the trap that
\* ends a halt flushes it.
Steady == outFlag /\ ~dlyFlush /\ ~(halt = "trap" /\ irValid)

Stream ==
    /\ irValid => Right(ir, arch) /\ irPc = arch /\ irPcVld
    /\ Steady => /\ pc = IF irValid THEN Succ(arch) ELSE arch
                 /\ Engine(pc)
                 /\ pcNewpend \/ (~irValid /\ irPcVld /\ irPc = pc)
    /\ ~outFlag /\ ~dlyFlush /\ ~resetFlag /\ ~resetReq => halt # "no" /\ irValid

\* Being right concerns the upper half of a wide instruction only.
LEMMA RightSame ==
    ASSUME NEW i, NEW j, NEW a, Right(i, a), j.lo = i.lo, j.err = i.err,
           Wide(a) => j.hi = i.hi
    PROVE  Right(j, a)
BY DEF Right

\* An instruction that stays in the register stays right.
LEMMA RightIr ==
    ASSUME NEW a, Right(ir, a), ir' = ir, arch' = a, code' = code
    PROVE  Right(ir, arch)'
BY DEF Right, Wide, Halves, BadHalf, InItcm, Lane

\* The register takes over a right instruction, whatever upper half it keeps of a
\* narrow one.
LEMMA RightLoaded ==
    ASSUME NEW i, NEW a, Right(i, a), ir'.lo = i.lo, ir'.err = i.err,
           Wide(a) => ir'.hi = i.hi, arch' = a, code' = code
    PROVE  Right(ir, arch)'
BY DEF Right, Wide, Halves, BadHalf, InItcm, Lane

\* The bypass buffer takes over a right instruction.
LEMMA RightKept ==
    ASSUME NEW i, NEW a, Right(i, a), rspBuf' = i, pc' = a, code' = code
    PROVE  Right(rspBuf, pc)'
BY DEF Right, Wide, Halves, BadHalf, InItcm, Lane

\* An instruction is right when its halves are, its error being that of its words.
LEMMA RightIf ==
    ASSUME NEW i, NEW a \in Nat, i.lo = a, Wide(a) => i.hi = a + 1,
           \/ ~Cross(a) /\ (i.err <=> BadHalf(a))
           \/ Cross(a) /\ (i.err <=> BadHalf(a) \/ BadHalf(a + 1))
    PROVE  Right(i, a)
<1>1. ~Cross(a) => (BadHalf(a + 1) <=> BadHalf(a))
  BY NextHalf DEF BadHalf
<1>2. \A h \in Halves(a) : h = a \/ h = a + 1
  BY DEF Halves
<1>3. CASE ~Cross(a) /\ (i.err <=> BadHalf(a))
  BY <1>1, <1>2, <1>3 DEF Right
<1>4. CASE Cross(a) /\ Wide(a) /\ (i.err <=> BadHalf(a) \/ BadHalf(a + 1))
  BY <1>2, <1>4 DEF Right
<1>5. CASE Cross(a) /\ ~Wide(a) /\ (i.err <=> BadHalf(a) \/ BadHalf(a + 1))
  BY <1>2, <1>5 DEF Right
<1> QED BY <1>3, <1>4, <1>5

\* The word that answers a fetch is that of its halfword.
LEMMA AnswerWord ==
    ASSUME TypeOK, Shape, NEW a \in Nat, Fetching(a), IcbRspValid
    PROVE  /\ InItcm(a) => /\ cmd2 = "itcm" /\ ramOut = Lane(a)
                           /\ \A i \in 0 .. 3 : Half(i) = 4 * Lane(a) + i
           /\ ~InItcm(a) => /\ cmd2 = "biu" /\ biuOut = Lane(a)
                            /\ \A i \in 0 .. 3 : Half(i) = 2 * Lane(a) + i
           /\ IcbRspErr <=> BadHalf(a)
<1>1. Lane(a) \in Nat
  BY Positions
<1>2. CASE InItcm(a)
  <2>1. cmd2 = "itcm" /\ ramOut = Lane(a)
    BY <1>2 DEF Fetching, IcbRspValid, TypeOK, MemOK
  <2>2. ramOut # Junk
    BY <1>1, <2>1 DEF Junk
  <2>3. \A i \in 0 .. 3 : Half(i) = 4 * Lane(a) + i
    BY <2>1, <2>2 DEF Half
  <2>4. QED BY <1>2, <2>1, <2>3 DEF IcbRspErr, BadHalf
<1>3. CASE ~InItcm(a)
  <2>1. cmd2 = "biu" /\ biu = "rsp" /\ biuOut = Lane(a)
    BY <1>3 DEF Fetching, IcbRspValid
  <2>2. biuOut # Junk
    BY <1>1, <2>1 DEF Junk
  <2>3. \A i \in 0 .. 3 : Half(i) = 2 * Lane(a) + i
    BY <2>1, <2>2 DEF Half
  <2>4. QED BY <1>3, <2>1, <2>3 DEF IcbRspErr, BadHalf
<1> QED BY <1>2, <1>3

\* The first halfword of the word after a crossing one, and the last of its own.
LEMMA CrossHalves ==
    ASSUME TypeOK, Shape, NEW a \in Nat, Cross(a), IcbRspValid
    PROVE  /\ Fetching(a + 1) => Half(0) = a + 1 /\ (IcbRspErr <=> BadHalf(a + 1))
           /\ Fetching(a) => TopHalf = a /\ (IcbRspErr <=> BadHalf(a))
<1>1. a + 1 \in Nat /\ Lane(a) \in Nat /\ Lane(a + 1) \in Nat
  BY Positions
<1>2. Fetching(a + 1) => Half(0) = a + 1 /\ (IcbRspErr <=> BadHalf(a + 1))
  <2>1. SUFFICES ASSUME Fetching(a + 1)
                 PROVE  Half(0) = a + 1 /\ (IcbRspErr <=> BadHalf(a + 1))
    OBVIOUS
  <2>2. IcbRspErr <=> BadHalf(a + 1)
    BY <1>1, <2>1, AnswerWord
  <2>3. CASE InItcm(a + 1)
    <3>1. Half(0) = 4 * Lane(a + 1) + 0
      BY <1>1, <2>1, <2>3, AnswerWord
    <3>2. a + 1 = 4 * Lane(a + 1)
      BY <2>3, NextHalf
    <3>3. QED BY <1>1, <2>2, <3>1, <3>2
  <2>4. CASE ~InItcm(a + 1)
    <3>1. Half(0) = 2 * Lane(a + 1) + 0
      BY <1>1, <2>1, <2>4, AnswerWord
    <3>2. a + 1 = 2 * Lane(a + 1)
      BY <2>4, NextHalf
    <3>3. QED BY <1>1, <2>2, <3>1, <3>2
  <2>5. QED BY <2>3, <2>4
<1>3. Fetching(a) => TopHalf = a /\ (IcbRspErr <=> BadHalf(a))
  <2>1. SUFFICES ASSUME Fetching(a) PROVE TopHalf = a /\ (IcbRspErr <=> BadHalf(a))
    OBVIOUS
  <2>2. IcbRspErr <=> BadHalf(a)
    BY <2>1, AnswerWord
  <2>3. CASE InItcm(a)
    <3>1. cmd2 = "itcm" /\ Half(3) = 4 * Lane(a) + 3
      BY <2>1, <2>3, AnswerWord
    <3>2. a = 4 * Lane(a) + 3
      BY <2>3, Positions
    <3>3. QED BY <2>2, <3>1, <3>2 DEF TopHalf
  <2>4. CASE ~InItcm(a)
    <3>1. cmd2 = "biu" /\ Half(1) = 2 * Lane(a) + 1
      BY <2>1, <2>4, AnswerWord
    <3>2. a = 2 * Lane(a) + 1
      BY <2>4, Positions
    <3>3. QED BY <2>2, <3>1, <3>2 DEF TopHalf
  <2>5. QED BY <2>3, <2>4
<1> QED BY <1>2, <1>3

\* What fetch makes of an answer for a is the instruction at a.
LEMMA InstrRight ==
    ASSUME TypeOK, Shape, NEW a \in Nat, Engine(a), IcbInstrValid
    PROVE  Right(IcbInstr, a)
<1>1. st = "1ST" \/ st = "2ND"
  BY AnswerFacts DEF IcbInstrValid
<1>2. IcbRspErr \in BOOLEAN
  BY DEF IcbRspErr
<1>3. CASE SelLeftover
  <2>1. HasLeft(a) /\ Fetching(a + 1) /\ IcbRspValid
    BY <1>3 DEF SelLeftover, Engine, IcbInstrValid
  <2>2. Half(0) = a + 1 /\ (IcbRspErr <=> BadHalf(a + 1))
    BY <2>1, CrossHalves DEF HasLeft
  <2>3. IcbInstr = [lo |-> leftover, hi |-> Half(0), err |-> IcbRspErr \/ leftoverErr]
    BY <1>3 DEF IcbInstr
  <2>4. /\ IcbInstr.lo = leftover /\ IcbInstr.hi = Half(0)
        /\ IcbInstr.err = (IcbRspErr \/ leftoverErr)
    BY <2>3
  <2>5. IcbInstr.err <=> BadHalf(a) \/ BadHalf(a + 1)
    BY <2>1, <2>2, <2>4 DEF HasLeft
  <2>6. QED BY <2>1, <2>2, <2>4, <2>5, RightIf DEF HasLeft
<1>4. CASE ~SelLeftover
  <2>1. st = "1ST" /\ ~sameCrossHoldup /\ ~need2
    BY <1>1, <1>4 DEF SelLeftover, IcbInstrValid, Rsp2Leftover, Shape
  <2>2. /\ ~Cross(a) /\ addr21 = a % 4
        /\ IF need0 THEN InItcm(a) /\ cmd2 = "itcm" /\ ramOut = Lane(a) ELSE Fetching(a)
    BY <2>1 DEF Engine
  <2>3. IcbInstr = Aligned
    BY <1>4 DEF IcbInstr
  <2>4. ~need0 => IcbRspValid
    BY DEF IcbInstrValid
  <2>5. Lane(a) \in Nat
    BY Positions
  <2>6. CASE InItcm(a)
    <3>1. cmd2 = "itcm" /\ ramOut = Lane(a) /\ ramOut # Junk
      BY <2>2, <2>4, <2>5, <2>6, AnswerWord DEF Junk
    <3>2. addr21 \in 0 .. 2 /\ a = 4 * Lane(a) + addr21
      BY <2>2, <2>6, Positions
    <3>3. Half(addr21) = 4 * Lane(a) + addr21 /\ Half(addr21 + 1) = 4 * Lane(a) + (addr21 + 1)
      BY <3>1 DEF Half
    <3>4. Aligned = [lo |-> Half(addr21), hi |-> Half(addr21 + 1), err |-> FALSE]
      BY <3>1, <3>2 DEF Aligned
    <3>5. IcbInstr.lo = Half(addr21) /\ IcbInstr.hi = Half(addr21 + 1) /\ ~IcbInstr.err
      BY <2>3, <3>4
    <3>6. IcbInstr.lo = a /\ IcbInstr.hi = a + 1
      BY <2>5, <3>2, <3>3, <3>5
    <3>7. ~BadHalf(a)
      BY <2>6 DEF BadHalf
    <3>8. QED BY <2>2, <3>5, <3>6, <3>7, RightIf
  <2>7. CASE ~InItcm(a)
    <3>1. Fetching(a) /\ IcbRspValid
      BY <2>2, <2>4, <2>7
    <3>2. /\ cmd2 = "biu" /\ Half(0) = 2 * Lane(a) + 0 /\ Half(1) = 2 * Lane(a) + 1
          /\ IcbRspErr <=> BadHalf(a)
      BY <2>7, <3>1, AnswerWord
    <3>3. a = 2 * Lane(a)
      BY <2>2, <2>5, <2>7, Positions
    <3>4. Aligned = [lo |-> Half(0), hi |-> Half(1), err |-> IcbRspErr]
      BY <3>2 DEF Aligned
    <3>5. /\ IcbInstr.lo = Half(0) /\ IcbInstr.hi = Half(1)
          /\ IcbInstr.err = IcbRspErr
      BY <2>3, <3>4
    <3>6. IcbInstr.lo = a /\ IcbInstr.hi = a + 1
      BY <2>5, <3>2, <3>3, <3>5
    <3>7. QED BY <2>2, <3>2, <3>5, <3>6, RightIf
  <2>8. QED BY <2>6, <2>7
<1> QED BY <1>3, <1>4

\* What is offered to the instruction register, from the bus or from the bypass buffer,
\* is the instruction asked for.
LEMMA ResponseRight ==
    ASSUME TypeOK, Shape, NEW a \in Nat, Engine(a), RspValid
    PROVE  Right(RspInstr, a)
BY InstrRight DEF RspValid, RspInstr, Shape, Engine

\* An address one instruction ahead that begins no new word lies in the word that
\* the RAM holds.
LEMMA LaneAhead ==
    ASSUME NEW p \in Nat, NEW a \in {p + 1, p + 2}, InItcm(a), Begin(a) => Cross(p)
    PROVE  InItcm(Last(p)) /\ Lane(Last(p)) = Lane(a)
<1>1. p + 1 \in Nat
  OBVIOUS
<1>2. ItcmTop \in Nat
  BY SplitAssumption
<1>3. InItcm(p) /\ InItcm(p + 1)
  BY <1>2 DEF InItcm
<1>4. CASE a = p + 1
  <2>1. CASE Cross(p)
    BY <1>3, <1>4, <2>1 DEF Last
  <2>2. CASE ~Cross(p)
    BY <1>3, <1>4, <2>2, NextHalf DEF Last
  <2>3. QED BY <2>1, <2>2
<1>5. CASE a = p + 2
  <2>1. a = (p + 1) + 1
    BY <1>5
  <2>2. Cross(p + 1) => Begin(a)
    BY <1>2, <1>3, <2>1 DEF Cross, Begin, InItcm
  <2>3. CASE Cross(p)
    <3>1. ~Cross(p + 1)
      BY <1>3, <2>3 DEF Cross
    <3>2. Lane(a) = Lane(p + 1)
      BY <1>1, <2>1, <3>1, NextHalf
    <3>3. QED BY <1>3, <2>3, <3>2 DEF Last
  <2>4. CASE ~Cross(p)
    <3>1. ~Cross(p + 1)
      BY <2>2, <2>4
    <3>2. Lane(a) = Lane(p + 1)
      BY <1>1, <2>1, <3>1, NextHalf
    <3>3. Lane(p + 1) = Lane(p)
      BY <2>4, NextHalf
    <3>4. QED BY <1>3, <2>4, <3>2, <3>3 DEF Last
  <2>5. QED BY <2>3, <2>4
<1> QED BY <1>4, <1>5

-----------------------------------------------------------------------------
(* What is dispatched *)

\* A response that is not flushed is loaded into the instruction register for the
\* instruction that is next to be dispatched.
LEMMA Responding ==
    ASSUME TypeOK, Shape, Halting, Stream, NEW in \in Inputs, NEW w, Step(in, w),
           w.rsp, ~FlushReal(in)
    PROVE  /\ Steady /\ outFlag /\ in.flush = None /\ ~resetReq /\ ~resetFlag
           /\ RspValid /\ w.irRdy /\ w.cmdRdy /\ ReqCondi /\ ~BpuWait(in)
           /\ Right(RspInstr, pc) /\ arch' = pc /\ irValid' /\ code' = code
           /\ Right(ir, arch)' /\ irPcVld' /\ irPc' = pc
<1>1. /\ WiresOK(in, w) /\ Commit(in) /\ InstructionRegister(in, w) /\ code' = code
  BY DEF Step
<1>2. RspValid /\ w.irRdy /\ w.cmdRdy /\ ReqCondi /\ ~BpuWait(in)
  BY <1>1 DEF WiresOK
<1>3. in.flush = None /\ ~dlyFlush
  BY DEF FlushReal
<1>4. outFlag
  BY <1>2, AnswerFacts DEF RspValid, IcbInstrValid, Shape
<1>5. ~resetReq /\ ~resetFlag
  BY <1>4 DEF Halting
<1>6. ~irValid \/ in.take
  BY <1>1, <1>2, <1>3 DEF WiresOK, IrClr
<1>7. in.take => irValid /\ halt = "no"
  BY InputFacts
<1>8. Steady
  BY <1>3, <1>4, <1>6, <1>7 DEF Steady
<1>9. /\ pc = IF irValid THEN Succ(arch) ELSE arch
      /\ Engine(pc)
      /\ pcNewpend \/ (~irValid /\ irPcVld /\ irPc = pc)
  BY <1>8 DEF Stream
<1>10. arch' = pc
  BY <1>1, <1>3, <1>6, <1>7, <1>9 DEF Commit
<1>11. PICK p \in Nat : p = pc
  BY DEF TypeOK, PcOK
<1>12. Right(RspInstr, p)
  BY <1>2, <1>9, <1>11, ResponseRight
<1>13. irValid' /\ irPcVld' /\ irPc' = pc
  <2>1. irValid'
    BY <1>1 DEF InstructionRegister
  <2>2. CASE pcNewpend
    BY <1>1, <1>2, <2>1, <2>2 DEF InstructionRegister
  <2>3. CASE ~pcNewpend
    <3>1. ~irValid /\ irPcVld /\ irPc = pc
      BY <1>9, <2>3
    <3>2. QED BY <1>1, <2>1, <2>3, <3>1 DEF InstructionRegister, IrClr
  <2>4. QED BY <2>2, <2>3
<1>14. Right(ir, arch)'
  <2>1. ir' = [RspInstr EXCEPT !.hi = IF Wide(RspInstr.lo) THEN @ ELSE ir.hi]
    BY <1>1 DEF InstructionRegister
  <2>2. RspInstr \in Instruction
    BY InstrFacts
  <2>3. /\ ir'.lo = RspInstr.lo /\ ir'.err = RspInstr.err
        /\ Wide(RspInstr.lo) => ir'.hi = RspInstr.hi
    BY <2>1, <2>2 DEF Instruction
  <2>4. RspInstr.lo = p
    BY <1>12 DEF Right
  <2>5. QED BY <1>1, <1>10, <1>11, <1>12, <2>3, <2>4, RightLoaded
<1> QED BY <1>1, <1>2, <1>3, <1>4, <1>5, <1>8, <1>10, <1>11, <1>12, <1>13, <1>14

\* Without one, what is in the register stays as it is or is gone.
LEMMA NotResponding ==
    ASSUME TypeOK, Stream, NEW in \in Inputs, NEW w, Step(in, w), ~w.rsp \/ FlushReal(in)
    PROVE  /\ irValid' <=> irValid /\ ~in.take /\ in.flush = None
           /\ irValid' => /\ Right(ir, arch)' /\ irPc' = irPc /\ irPcVld'
                          /\ arch' = arch /\ irPc = arch
<1>1. /\ WiresOK(in, w) /\ Commit(in) /\ InstructionRegister(in, w) /\ code' = code
  BY DEF Step
<1>2. irValid' <=> irValid /\ ~in.take /\ in.flush = None
  BY <1>1 DEF InstructionRegister, IrClr
<1>3. ASSUME irValid' PROVE /\ Right(ir, arch)' /\ irPc' = irPc /\ irPcVld'
                            /\ arch' = arch /\ irPc = arch
  <2>1. irValid /\ ~in.take /\ in.flush = None /\ ~IrClr(in) /\ ~w.irRdy
    BY <1>1, <1>2, <1>3 DEF IrClr, WiresOK
  <2>2. Right(ir, arch) /\ irPc = arch /\ irPcVld
    BY <2>1 DEF Stream
  <2>3. arch' = arch
    BY <1>1, <2>1 DEF Commit
  <2>4. ir' = ir /\ irPc' = irPc /\ irPcVld'
    BY <1>1, <2>1, <2>2 DEF InstructionRegister
  <2>5. PICK a : a = arch
    OBVIOUS
  <2>6. QED BY <1>1, <2>2, <2>3, <2>4, <2>5, RightIr
<1> QED BY <1>2, <1>3

\* After a clock what is in the instruction register is right.
LEMMA RegisterStep ==
    ASSUME TypeOK, Shape, Halting, Stream, NEW in \in Inputs, NEW w, Step(in, w), irValid'
    PROVE  Right(ir, arch)' /\ irPc' = arch' /\ irPcVld'
<1>1. CASE w.rsp /\ ~FlushReal(in)
  BY <1>1, Responding
<1>2. CASE ~w.rsp \/ FlushReal(in)
  BY <1>2, NotResponding
<1> QED BY <1>1, <1>2

\* Nothing is out only while a halt has left an instruction in the register.
LEMMA OutStep ==
    ASSUME ~WakeInPlace, TypeOK, Shape, Halting, Stream,
           NEW in \in Inputs, NEW w, Step(in, w),
           ~outFlag', ~dlyFlush', ~resetFlag', ~resetReq'
    PROVE  halt' # "no" /\ irValid'
<1>1. /\ WiresOK(in, w) /\ Commit(in) /\ Pending(in, w) /\ ProgramCounter(in, w)
  BY DEF Step
<1>2. ~w.req /\ (~outFlag \/ w.rsp)
  BY <1>1 DEF ProgramCounter
<1>3. ~FlushReal(in) /\ in.flush = None /\ ~dlyFlush
  BY <1>1, <1>2 DEF Pending, FlushReal
<1>4. ~resetReq /\ ~resetFlag
  BY <1>1, <1>2 DEF Pending
<1>5. /\ in.wfi => halt = "no"
      /\ in.wake => halt = "halt"
      /\ in.take => halt = "no"
  BY InputFacts
<1>6. CASE w.rsp
  <2>1. w.cmdRdy /\ ReqCondi /\ ~BpuWait(in) /\ irValid'
    BY <1>3, <1>6, Responding
  <2>2. ~ReqVal(in, w)
    BY <1>1, <1>2, <2>1 DEF WiresOK
  <2>3. HaltReq(in)
    BY <1>4, <1>6, <2>1, <2>2 DEF ReqVal, NewReq
  <2>4. halt' = "halt"
    BY <1>1, <1>3, <1>5, <2>3 DEF Commit, HaltReq
  <2>5. QED BY <2>1, <2>4
<1>7. CASE ~outFlag /\ ~w.rsp
  <2>1. halt # "no" /\ irValid
    BY <1>3, <1>4, <1>7 DEF Stream
  <2>2. irValid'
    BY <1>3, <1>5, <1>7, <2>1, NotResponding
  <2>3. halt' # "no"
    BY <1>1, <1>3, <1>5, <2>1 DEF Commit
  <2>4. QED BY <2>2, <2>3
<1> QED BY <1>2, <1>6, <1>7

\* A request is for the instruction that comes after the one in the register.  It
\* is in sequence only with the response before it in the same clock.
LEMMA RequestPc ==
    ASSUME ~WakeInPlace, TypeOK, Shape, Halting, Stream,
           NEW in \in Inputs, NEW w, Step(in, w), w.req, Steady'
    PROVE  /\ pc' = w.a
           /\ w.a = IF irValid' THEN Succ(arch') ELSE arch'
           /\ ReqSeq(in) => /\ w.rsp /\ Steady /\ RspInstr.lo = pc
                            /\ w.a = IF Wide(RspInstr.lo) THEN pc + 2 ELSE pc + 1
<1>1. /\ WiresOK(in, w) /\ Commit(in) /\ ProgramCounter(in, w)
  BY DEF Step
<1>2. pc' = w.a /\ w.a = PcNxt(in)
  BY <1>1 DEF ProgramCounter, WiresOK
<1>3. /\ in.wfi => irValid /\ halt = "no"
      /\ in.wake => halt = "halt"
      /\ in.take => irValid /\ halt = "no"
      /\ resetFlag \/ resetReq => in.flush = None
  BY InputFacts
<1>4. ReqVal(in, w)
  BY <1>1 DEF WiresOK
<1>5. CASE in.flush # None
  <2>1. w.a = in.flush
    BY <1>2, <1>5 DEF PcNxt, FlushReal
  <2>2. arch' = in.flush
    BY <1>1, <1>5 DEF Commit
  <2>3. ~irValid' /\ ~ReqSeq(in)
    BY <1>5, NotResponding DEF FlushReal, ReqSeq
  <2>4. QED BY <1>2, <2>1, <2>2, <2>3
<1>6. CASE in.flush = None /\ dlyFlush
  <2>1. w.a = pc
    BY <1>2, <1>6 DEF PcNxt, FlushReal
  <2>2. pc = arch /\ ~irValid
    BY <1>6 DEF Halting
  <2>3. arch' = arch
    BY <1>1, <1>3, <1>6, <2>2 DEF Commit
  <2>4. ~irValid' /\ ~ReqSeq(in)
    BY <1>6, <2>2, NotResponding DEF FlushReal, ReqSeq
  <2>5. QED BY <1>2, <2>1, <2>2, <2>3, <2>4
<1>7. CASE ~FlushReal(in) /\ w.rsp
  <2>1. /\ Right(RspInstr, pc) /\ arch' = pc /\ irValid' /\ ~resetReq /\ Steady
    BY <1>7, Responding
  <2>2. RspInstr.lo = pc
    BY <2>1 DEF Right
  <2>3. CASE Jumps(RspInstr.lo)
    <3>1. w.a = code.jump[RspInstr.lo]
      BY <1>2, <1>7, <2>3 DEF PcNxt, FlushReal
    <3>2. ~ReqSeq(in)
      BY <2>3 DEF ReqSeq
    <3>3. w.a = Succ(arch')
      BY <2>1, <2>2, <2>3, <3>1 DEF Succ
    <3>4. QED BY <1>2, <2>1, <3>2, <3>3
  <2>4. CASE ~Jumps(RspInstr.lo)
    <3>1. w.a = IF Wide(RspInstr.lo) THEN pc + 2 ELSE pc + 1
      BY <1>2, <1>7, <2>1, <2>4 DEF PcNxt, FlushReal
    <3>2. w.a = Succ(arch')
      BY <2>1, <2>2, <2>4, <3>1 DEF Succ
    <3>3. QED BY <1>2, <1>7, <2>1, <2>2, <3>1, <3>2
  <2>5. QED BY <2>3, <2>4
<1>8. CASE ~FlushReal(in) /\ ~w.rsp
  <2>1. ~outFlag /\ in.flush = None /\ ~dlyFlush
    BY <1>4, <1>8 DEF ReqVal, FlushReal
  <2>2. CASE resetReq
    <3>1. arch = ResetVec /\ ~irValid /\ cmd2 = "none"
      BY <2>2 DEF Halting
    <3>2. arch' = ResetVec /\ ~irValid'
      BY <1>1, <1>3, <1>8, <2>1, <3>1, NotResponding DEF Commit
    <3>3. st = "IDLE" /\ rspBuf = NoInstr
      BY <2>1 DEF Shape
    <3>4. RspInstr = [lo |-> Half(0), hi |-> Half(1), err |-> IcbRspErr]
      BY <3>1, <3>3 DEF RspInstr, IcbInstr, SelLeftover, Aligned
    <3>5. RspInstr.lo = Zero
      BY <3>1, <3>4 DEF Half
    <3>6. ~Jumps(RspInstr.lo)
      BY <3>5, ProgramAssumption DEF Jumps, Zero, Junk, TypeOK, PcOK
    <3>7. w.a = ResetVec
      BY <1>2, <1>8, <2>2, <3>6 DEF PcNxt, FlushReal
    <3>8. ~ReqSeq(in)
      BY <2>2 DEF ReqSeq
    <3>9. QED BY <1>2, <3>2, <3>7, <3>8
  <2>3. CASE ~resetReq
    <3>1. ~BpuWait(in) /\ ~HaltReq(in) /\ ~resetFlag
      BY <1>4, <1>8, <2>3 DEF ReqVal, NewReq
    <3>2. halt # "no" /\ irValid
      BY <2>1, <2>3, <3>1 DEF Stream
    <3>3. irValid'
      BY <1>3, <1>8, <2>1, <3>2, NotResponding
    <3>4. halt' = "trap"
      BY <1>1, <1>3, <2>1, <3>1, <3>2 DEF Commit, HaltReq, TypeOK, PcOK
    <3>5. QED BY <3>3, <3>4 DEF Steady
  <2>4. QED BY <2>2, <2>3
<1> QED BY <1>5, <1>6, <1>7, <1>8 DEF FlushReal

\* A request in the lane of the last one finds its lane in the RAM when the flag
\* says so.
LEMMA HeldWord ==
    ASSUME ~WakeInPlace, TypeOK, Shape, Halting, Stream,
           NEW in \in Inputs, NEW w, Step(in, w), w.req, Steady',
           LaneSame(w.a, ReqSeq(in)), Held(w.a)
    PROVE  cmd2 = "itcm" /\ ramOut = Lane(w.a) /\ InItcm(w.a)
<1>1. InItcm(w.a) /\ holdup /\ ReqSeq(in) /\ (Begin(w.a) => laneCross)
  BY DEF Held, LaneSame
<1>2. /\ Steady
      /\ w.a = IF Wide(RspInstr.lo) THEN pc + 2 ELSE pc + 1
  BY <1>1, RequestPc
<1>3. ReqCondi
  BY AskFacts DEF Step
<1>4. Engine(pc)
  BY <1>2 DEF Stream
<1>5. PICK p \in Nat : p = pc
  BY DEF TypeOK, PcOK
<1>6. laneCross <=> Cross(p)
  BY <1>4, <1>5 DEF Engine
<1>7. Kept(Last(p))
  BY <1>3, <1>4, <1>5 DEF Engine, ReqCondi
<1>8. w.a \in {p + 1, p + 2}
  BY <1>2, <1>5
<1>9. InItcm(Last(p)) /\ Lane(Last(p)) = Lane(w.a)
  BY <1>1, <1>6, <1>8, LaneAhead
<1> QED BY <1>1, <1>7, <1>9 DEF Kept

\* A request goes to the word of its address, or to the next one when the RAM holds it.
LEMMA RequestAddr ==
    ASSUME ~WakeInPlace, TypeOK, Shape, Halting, Stream,
           NEW in \in Inputs, NEW w, Step(in, w), w.req, Steady'
    PROVE  /\ w.a \in Nat
           /\ w.addr = IF w.need.hold THEN w.a + 1 ELSE w.a
<1>1. WiresOK(in, w)
  BY DEF Step
<1>2. w.a \in Nat
  BY <1>1, AddrFacts
<1>3. ReqCondi
  BY <1>1, AskFacts
<1>4. w.addr = IF w.need.hold THEN pc + (IF Wide(RspInstr.lo) THEN 3 ELSE 2) ELSE w.a
  BY <1>1, <1>3 DEF WiresOK, CmdAddr, ReqCondi
<1>5. CASE w.need.hold
  <2>1. ReqSeq(in)
    BY <1>1, <1>5, NeedFacts DEF LaneSame
  <2>2. w.a = IF Wide(RspInstr.lo) THEN pc + 2 ELSE pc + 1
    BY <2>1, RequestPc
  <2>3. pc \in Nat
    BY DEF TypeOK, PcOK
  <2>4. QED BY <1>2, <1>4, <1>5, <2>2, <2>3
<1>6. CASE ~w.need.hold
  BY <1>2, <1>4, <1>6
<1> QED BY <1>5, <1>6

\* With no command in a clock of the ITCM that is ready, its output stays.
LEMMA OutputStays ==
    ASSUME TypeOK, Shape, NEW in \in Inputs, NEW w, Step(in, w), ~w.cmd, w.cmdRdy,
           Calm \/ IcbRspValid, InItcm(w.addr)
    PROVE  ramOut' = ramOut
<1>1. WiresOK(in, w) /\ Itcm(in, w)
  BY DEF Step
<1>2. itcmCmd = None /\ ~ArbtValid(in.lsuRdy)
  BY <1>1 DEF WiresOK, CmdReady, SramReady2Ifu
<1>3. ~Asks(in, w)
  BY <1>1, <1>2, AsksFacts
<1>4. NextCmd(in, w) = None
  BY <1>2, <1>3 DEF NextCmd
<1> QED BY <1>1, <1>4, ItcmRest

\* What Engine says of an address it says of the PC that has become it.
LEMMA EnginePc ==
    ASSUME NEW a, Engine(a)', pc' = a
    PROVE  Engine(pc)'
BY DEF Engine, Right, Halves, Wide, BadHalf, HasLeft, Fetching, Kept, Last, Lane, InItcm,
       Cross

\* A new request leaves the engine at work on the new PC.
LEMMA RequestEngine ==
    ASSUME ~WakeInPlace, TypeOK, Shape, Halting, Stream,
           NEW in \in Inputs, NEW w, Step(in, w), w.req, Steady'
    PROVE  Engine(pc)'
<1>1. /\ WiresOK(in, w) /\ IcbRequest(w) /\ Leftover(w)
  BY DEF Step
<1>2. PICK a \in Nat : a = w.a
  BY RequestAddr
<1>3. /\ st' = "1ST"
      /\ IF need0' THEN Calm' /\ ~need2' /\ ~w.cmd
         ELSE w.cmd /\ Fetching(w.addr)' /\ Kept(w.addr)'
  BY RequestStep
<1>4. /\ laneCross' = Cross(a) /\ sameCrossHoldup' = w.need.hold
      /\ need2' = w.need.two /\ need0' = w.need.zero
      /\ addr21' = w.addr % 4
  BY <1>1, <1>2 DEF IcbRequest
<1>5. /\ w.need.hold <=> LaneSame(a, ReqSeq(in)) /\ Cross(a) /\ Held(a)
      /\ w.need.two <=> Cross(a) /\ ~(LaneSame(a, ReqSeq(in)) /\ Held(a))
      /\ w.need.zero <=> LaneSame(a, ReqSeq(in)) /\ ~Cross(a) /\ Held(a)
  BY <1>1, <1>2, NeedFacts
<1>6. w.cmdRdy /\ ReqCondi /\ (Calm \/ IcbRspValid)
  BY <1>1, AskFacts
<1>7. laneCross' <=> Cross(a)'
  BY <1>4 DEF Cross, InItcm
<1>8. CASE w.need.hold
  <2>1. cmd2 = "itcm" /\ ramOut = Lane(a) /\ InItcm(a) /\ Cross(a)
    BY <1>2, <1>5, <1>8, HeldWord
  <2>2. Lane(a) \in Nat /\ a = 4 * Lane(a) + 3
    BY <2>1, Positions
  <2>3. TopHalf = a
    BY <2>1, <2>2 DEF TopHalf, Half, Junk
  <2>4. ~Rsp2Leftover
    BY <1>6 DEF ReqCondi, Rsp2Leftover
  <2>5. leftover' = a /\ ~leftoverErr'
    BY <1>1, <1>8, <2>3, <2>4 DEF Leftover
  <2>6. HasLeft(a)'
    BY <2>1, <2>5 DEF HasLeft, BadHalf, InItcm, Cross
  <2>7. ~need0' /\ ~need2' /\ sameCrossHoldup'
    BY <1>4, <1>5, <1>8
  <2>8. w.addr = a + 1
    BY <1>2, <1>8, RequestAddr
  <2>9. Fetching(a + 1)'
    BY <1>3, <2>7, <2>8
  <2>10. Kept(Last(a))'
    BY <1>3, <2>1, <2>7, <2>8 DEF Kept, Last, Cross, InItcm, Lane
  <2>11. Engine(a)'
    BY <1>3, <1>7, <2>6, <2>7, <2>9, <2>10 DEF Engine
  <2>12. QED BY <1>2, <2>11, EnginePc, RequestPc
<1>9. CASE w.need.zero
  <2>1. cmd2 = "itcm" /\ ramOut = Lane(a) /\ InItcm(a) /\ ~Cross(a)
    BY <1>2, <1>5, <1>9, HeldWord
  <2>2. need0' /\ ~need2' /\ ~sameCrossHoldup' /\ ~w.cmd /\ ~w.need.hold
    BY <1>3, <1>4, <1>5, <1>9
  <2>3. w.addr = a
    BY <1>2, <2>2, RequestAddr
  <2>4. ramOut' = Lane(a)
    BY <1>6, <2>1, <2>2, <2>3, OutputStays
  <2>5. cmd2' = "itcm"
    BY <1>1, <2>1, <2>2 DEF IcbRequest
  <2>6. addr21' = a % 4
    BY <1>4, <2>3
  <2>7. ~Cross(a)' /\ InItcm(a)' /\ ramOut' = Lane(a)' /\ addr21' = (a % 4)'
    BY <2>1, <2>4, <2>6 DEF Cross, InItcm, Lane
  <2>8. Kept(Last(a))'
    BY <2>1, <2>4, <2>5 DEF Kept, Last, Cross, InItcm, Lane
  <2>9. Engine(a)'
    BY <1>3, <1>7, <2>2, <2>5, <2>7, <2>8 DEF Engine
  <2>10. QED BY <1>2, <2>9, EnginePc, RequestPc
<1>10. CASE ~w.need.hold /\ ~w.need.zero
  <2>1. w.addr = a /\ ~need0' /\ ~sameCrossHoldup'
    BY <1>2, <1>4, <1>10, RequestAddr
  <2>2. Fetching(a)' /\ Kept(a)'
    BY <1>3, <2>1
  <2>3. need2' <=> Cross(a)
    BY <1>4, <1>5, <1>10
  <2>4. addr21' = (a % 4)' /\ (Cross(a)' <=> Cross(a))
    BY <1>4, <2>1 DEF Cross, InItcm
  <2>5. ~need2' => Kept(Last(a))'
    BY <2>2, <2>3 DEF Kept, Last, Cross, InItcm, Lane
  <2>6. Engine(a)'
    BY <1>3, <1>7, <2>1, <2>2, <2>3, <2>4, <2>5 DEF Engine
  <2>7. QED BY <1>2, <2>6, EnginePc, RequestPc
<1> QED BY <1>8, <1>9, <1>10

\* Without a request the access is still the one for the PC.
LEMMA StayFacts ==
    ASSUME TypeOK, Shape, Halting, Stream,
           NEW in \in Inputs, NEW w, Step(in, w), ~w.req, Steady'
    PROVE  /\ outFlag /\ ~w.rsp /\ ~FlushReal(in) /\ in.flush = None /\ ~dlyFlush
           /\ pc' = pc /\ Steady
<1>1. /\ WiresOK(in, w) /\ Commit(in) /\ Pending(in, w) /\ ProgramCounter(in, w)
  BY DEF Step
<1>2. outFlag /\ ~w.rsp
  BY <1>1 DEF ProgramCounter, Steady
<1>3. ~FlushReal(in) /\ in.flush = None /\ ~dlyFlush
  BY <1>1 DEF Pending, Steady, FlushReal
<1>4. pc' = pc
  BY <1>1, <1>3 DEF ProgramCounter
<1>5. ~(halt = "trap" /\ irValid)
  <2>1. SUFFICES ASSUME halt = "trap", irValid PROVE FALSE
    OBVIOUS
  <2>2. ~in.take /\ ~in.wfi /\ ~in.wake
    BY <2>1, InputFacts
  <2>3. irValid'
    BY <1>2, <1>3, <2>1, <2>2, NotResponding
  <2>4. halt' = "trap"
    BY <1>1, <1>3, <2>1, <2>2 DEF Commit, HaltReq
  <2>5. QED BY <2>3, <2>4 DEF Steady
<1> QED BY <1>2, <1>3, <1>4, <1>5 DEF Steady

\* Without one it stays at work on the old PC.
LEMMA StayEngine ==
    ASSUME TypeOK, Shape, Halting, Stream,
           NEW in \in Inputs, NEW w, Step(in, w), ~w.req, Steady'
    PROVE  Engine(pc)'
<1>1. /\ WiresOK(in, w) /\ IcbRequest(w) /\ Leftover(w) /\ code' = code
  BY DEF Step
<1>2. outFlag /\ ~w.rsp /\ pc' = pc /\ Steady
  BY StayFacts
<1>3. PICK a \in Nat : a = pc
  BY DEF TypeOK, PcOK
<1>4. Engine(a)
  BY <1>2, <1>3 DEF Stream
<1>5. /\ need2' = need2 /\ need0' = need0 /\ sameCrossHoldup' = sameCrossHoldup
      /\ laneCross' = laneCross /\ (~w.cmd => addr21' = addr21)
  BY NoRequestStep
<1>6. laneCross' <=> Cross(a)'
  BY <1>4, <1>5 DEF Engine, Cross, InItcm
<1>7. a + 1 \in Nat /\ Last(a) \in Nat
  BY DEF Last
<1>8. (Last(a)' = Last(a)) /\ (Cross(a)' <=> Cross(a)) /\ (InItcm(a)' <=> InItcm(a))
      /\ (BadHalf(a)' <=> BadHalf(a)) /\ Lane(a)' = Lane(a)
  BY DEF Last, Cross, InItcm, BadHalf, Lane
<1>9. ~(IcbRspHsked /\ Rsp2Leftover) => leftover' = leftover /\ leftoverErr' = leftoverErr
  BY <1>1 DEF Leftover
<1>10. Kept(Last(a)) /\ ~w.cmd /\ (Calm \/ IcbRspValid) => Kept(Last(a))'
  <2>1. SUFFICES ASSUME Kept(Last(a)), ~w.cmd, Calm \/ IcbRspValid PROVE Kept(Last(a))'
    OBVIOUS
  <2>2. PICK l \in Nat : l = Last(a)
    BY <1>7
  <2>3. Kept(l)'
    BY <2>1, <2>2, NoCommand
  <2>4. QED BY <1>8, <2>2, <2>3 DEF Kept
<1>11. CASE st = "IDLE"
  <2>1. /\ st' = "IDLE" /\ ~w.cmd /\ rspBuf' = rspBuf /\ Calm
    BY <1>2, <1>11, NoRequestStep DEF Shape
  <2>2. Right(rspBuf, a)
    BY <1>4, <1>11 DEF Engine
  <2>3. PICK i : i = rspBuf
    OBVIOUS
  <2>4. Right(rspBuf, pc)'
    BY <1>1, <1>2, <1>3, <2>1, <2>2, <2>3, RightKept
  <2>5. Right(rspBuf, a)'
    BY <1>2, <1>3, <2>4 DEF Right, Halves, Wide, BadHalf, InItcm, Lane
  <2>6. Kept(Last(a))'
    BY <1>4, <1>10, <1>11, <2>1 DEF Engine
  <2>7. Engine(a)'
    BY <1>6, <2>1, <2>5, <2>6 DEF Engine
  <2>8. QED BY <1>2, <1>3, <2>7, EnginePc
<1>12. CASE IcbInstrValid
  <2>1. /\ st' = "IDLE" /\ ~w.cmd /\ rspBuf' = IcbInstr /\ st # "IDLE"
    BY <1>2, <1>12, NoRequestStep
  <2>2. Right(IcbInstr, a)
    BY <1>4, <1>12, InstrRight
  <2>3. PICK i : i = IcbInstr
    OBVIOUS
  <2>4. Right(rspBuf, pc)'
    BY <1>1, <1>2, <1>3, <2>1, <2>2, <2>3, RightKept
  <2>5. Right(rspBuf, a)'
    BY <1>2, <1>3, <2>4 DEF Right, Halves, Wide, BadHalf, InItcm, Lane
  <2>6. Calm \/ IcbRspValid
    BY <1>12 DEF IcbInstrValid, Shape
  <2>7. Kept(Last(a))
    BY <1>4, <1>12, AnswerFacts DEF Engine, IcbInstrValid, Rsp2Leftover, Shape
  <2>8. Kept(Last(a))'
    BY <1>10, <2>1, <2>6, <2>7
  <2>9. Engine(a)'
    BY <1>6, <2>1, <2>5, <2>8 DEF Engine
  <2>10. QED BY <1>2, <1>3, <2>9, EnginePc
<1>13. CASE Second
  <2>1. /\ st' = IF w.cmdRdy THEN "2ND" ELSE "WAIT2ND"
        /\ w.cmd <=> w.cmdRdy
    BY <1>13, NoRequestStep
  <2>2. HasLeft(a)'
    <3>1. CASE st = "1ST" /\ need2 /\ IcbRspHsked
      <4>1. Cross(a) /\ Fetching(a) /\ IcbRspValid /\ Rsp2Leftover
        BY <1>4, <3>1 DEF Engine, IcbRspHsked, Rsp2Leftover
      <4>2. TopHalf = a /\ (IcbRspErr <=> BadHalf(a))
        BY <4>1, CrossHalves
      <4>3. leftover' = a /\ (leftoverErr' <=> BadHalf(a))
        BY <1>1, <3>1, <4>1, <4>2 DEF Leftover
      <4>4. QED BY <1>8, <4>1, <4>3 DEF HasLeft
    <3>2. CASE st = "WAIT2ND"
      <4>1. HasLeft(a)
        BY <1>4, <3>2 DEF Engine
      <4>2. ~Rsp2Leftover
        BY <3>2 DEF Rsp2Leftover
      <4>3. QED BY <1>8, <1>9, <4>1, <4>2 DEF HasLeft
    <3>3. QED BY <1>13, <3>1, <3>2 DEF Second
  <2>3. Cross(a)
    BY <1>8, <2>2 DEF HasLeft
  <2>4. w.addr = a + 1
    BY <1>1, <1>3, <1>13 DEF WiresOK, CmdAddr, Second
  <2>5. w.cmdRdy => Fetching(a + 1)' /\ Kept(a + 1)'
    BY <2>1, <2>4, CommandTaken
  <2>6. w.cmdRdy => Kept(Last(a))'
    BY <2>3, <2>5 DEF Kept, Last, Cross, InItcm, Lane
  <2>7. Engine(a)'
    BY <1>6, <2>1, <2>2, <2>5, <2>6 DEF Engine
  <2>8. QED BY <1>2, <1>3, <2>7, EnginePc
<1>14. CASE st # "IDLE" /\ ~IcbInstrValid /\ ~Second
  <2>1. st' = st /\ ~w.cmd
    BY <1>14, NoRequestStep
  <2>2. ~IcbRspValid
    BY <1>14, AnswerFacts DEF IcbInstrValid, Second, Rsp2Leftover
  <2>3. leftover' = leftover /\ leftoverErr' = leftoverErr
    BY <1>9, <2>2 DEF IcbRspHsked
  <2>4. HasLeft(a) => HasLeft(a)'
    BY <1>8, <2>3 DEF HasLeft
  <2>5. /\ Fetching(a) => Fetching(a)' /\ (Kept(a) => Kept(a)')
        /\ Fetching(a + 1) => Fetching(a + 1)' /\ (Kept(a + 1) => Kept(a + 1)')
    BY <1>7, <2>2, FetchStays
  <2>6. addr21' = addr21 /\ (a % 4)' = a % 4
    BY <1>5, <2>1
  <2>7. st = "1ST" => ~need0
    BY <1>14 DEF IcbInstrValid
  <2>8. st = "WAIT2ND" => Second
    BY DEF Second, Shape
  <2>9. CASE Cross(a)
    <3>1. Last(a) = a + 1
      BY <2>9 DEF Last
    <3>2. Kept(Last(a)) => Kept(a + 1)
      BY <3>1
    <3>3. Kept(a + 1)' => Kept(Last(a))'
      BY <2>9 DEF Kept, Last, Cross, InItcm, Lane
    <3>4. st = "1ST" /\ ~need2 => Fetching(a + 1)
      BY <1>4, <2>9 DEF Engine
    <3>5. st = "2ND" => Fetching(a + 1)
      BY <1>4 DEF Engine
    <3>6. st' = "WAIT2ND" \/ (st' = "1ST" /\ need2') \/ Kept(Last(a))'
      BY <1>4, <1>5, <1>14, <2>1, <2>5, <3>2, <3>3, <3>4, <3>5 DEF Engine, TypeOK, IcbOK
    <3>7. Engine(a)'
      BY <1>4, <1>5, <1>6, <1>8, <1>14, <2>1, <2>4, <2>5, <2>6, <2>7, <3>6 DEF Engine
    <3>8. QED BY <1>2, <1>3, <3>7, EnginePc
  <2>10. CASE ~Cross(a)
    <3>1. Last(a) = a
      BY <2>10 DEF Last
    <3>2. Kept(Last(a)) => Kept(a)
      BY <3>1
    <3>3. Kept(a)' => Kept(Last(a))'
      BY <2>10 DEF Kept, Last, Cross, InItcm, Lane
    <3>4. st = "1ST" /\ Fetching(a)
      BY <1>4, <1>14, <2>7, <2>8, <2>10 DEF Engine, HasLeft, TypeOK, IcbOK
    <3>5. st' = "WAIT2ND" \/ (st' = "1ST" /\ need2') \/ Kept(Last(a))'
      BY <1>4, <1>5, <2>1, <2>5, <3>2, <3>3, <3>4 DEF Engine
    <3>6. Engine(a)'
      BY <1>4, <1>5, <1>6, <1>8, <1>14, <2>1, <2>4, <2>5, <2>6, <2>7, <3>5 DEF Engine
    <3>7. QED BY <1>2, <1>3, <3>6, EnginePc
  <2>11. QED BY <2>9, <2>10
<1> QED BY <1>11, <1>12, <1>13, <1>14

\* Unless a flush is pending, the PC after a clock is the next to be fetched.
LEMMA SteadyStep ==
    ASSUME ~WakeInPlace, TypeOK, Shape, Halting, Stream,
           NEW in \in Inputs, NEW w, Step(in, w), Steady'
    PROVE  /\ pc' = IF irValid' THEN Succ(arch)' ELSE arch'
           /\ Engine(pc)'
           /\ pcNewpend' \/ (~irValid' /\ irPcVld' /\ irPc' = pc')
<1>1. /\ WiresOK(in, w) /\ Commit(in) /\ InstructionRegister(in, w) /\ code' = code
  BY DEF Step
<1>2. Succ(arch)' = Succ(arch')
  BY <1>1 DEF Succ, Jumps, Wide
<1>3. CASE w.req
  <2>1. pcNewpend'
    BY <1>1, <1>3 DEF InstructionRegister
  <2>2. QED BY <1>2, <1>3, <2>1, RequestPc, RequestEngine
<1>4. CASE ~w.req
  <2>1. /\ outFlag /\ ~w.rsp /\ ~FlushReal(in) /\ in.flush = None /\ ~dlyFlush
        /\ pc' = pc /\ Steady
    BY <1>4, StayFacts
  <2>2. /\ pc = IF irValid THEN Succ(arch) ELSE arch
        /\ pcNewpend \/ (~irValid /\ irPcVld /\ irPc = pc)
    BY <2>1 DEF Stream
  <2>3. irValid' <=> irValid /\ ~in.take
    BY <2>1, NotResponding
  <2>4. in.take => irValid
    BY InputFacts
  <2>5. arch' = IF in.take THEN Succ(arch) ELSE arch
    BY <1>1, <2>1 DEF Commit
  <2>6. pc' = IF irValid' THEN Succ(arch)' ELSE arch'
    BY <1>2, <2>1, <2>2, <2>3, <2>4, <2>5
  <2>7. pcNewpend' \/ (~irValid' /\ irPcVld' /\ irPc' = pc')
    <3>1. w.irRdy <=> ~irValid \/ in.take
      BY <1>1, <2>1, <2>4 DEF WiresOK, IrClr
    <3>2. CASE pcNewpend
      BY <1>1, <2>1, <2>3, <3>1, <3>2 DEF InstructionRegister
    <3>3. CASE ~pcNewpend
      <4>1. ~irValid /\ irPcVld /\ irPc = pc /\ ~irValid'
        BY <2>2, <2>3, <3>3
      <4>2. QED BY <1>1, <2>1, <3>3, <4>1 DEF InstructionRegister, IrClr
    <3>4. QED BY <3>2, <3>3
  <2>8. QED BY <1>4, <2>6, <2>7, StayEngine
<1> QED BY <1>3, <1>4

\* A clock keeps the stream of instructions.
LEMMA StreamStep ==
    ASSUME ~WakeInPlace, TypeOK, Shape, Halting, Stream,
           NEW in \in Inputs, NEW w, Step(in, w)
    PROVE  Stream'
<1>1. irValid' => Right(ir, arch)' /\ irPc' = arch' /\ irPcVld'
  BY RegisterStep
<1>2. ~outFlag' /\ ~dlyFlush' /\ ~resetFlag' /\ ~resetReq' => halt' # "no" /\ irValid'
  BY OutStep
<1>3. Steady' => /\ pc' = IF irValid' THEN Succ(arch)' ELSE arch'
                 /\ Engine(pc)'
                 /\ pcNewpend' \/ (~irValid' /\ irPcVld' /\ irPc' = pc')
  BY SteadyStep
<1> QED BY <1>1, <1>2, <1>3 DEF Stream

Fetch == Access /\ Stream

\* The invariant of fetch holds after reset.
LEMMA FetchInit == ASSUME Init PROVE Fetch
<1>1. Stream
  BY DEF Init, Stream, Steady
<1> QED BY <1>1, AccessInit DEF Fetch

\* It depends on the state alone.
LEMMA FetchStutter == ASSUME Stream, UNCHANGED vars PROVE Stream'
<1>1. UNCHANGED <<code, pcVars, icbVars, memVars, envVars>>
  BY DEF vars
<1>2. ASSUME NEW i, NEW a PROVE Right(i, a)' = Right(i, a)
  BY <1>1 DEF Right, Halves, Wide, BadHalf, Lane, InItcm
<1>3. ASSUME NEW a PROVE Succ(a)' = Succ(a)
  BY <1>1 DEF Succ, Jumps, Wide
<1>4. ASSUME NEW a PROVE HasLeft(a)' = HasLeft(a) /\ Fetching(a)' = Fetching(a) /\ Kept(a)' = Kept(a)
  BY <1>1 DEF HasLeft, Fetching, Kept, icbVars, memVars
<1>5. ASSUME NEW a PROVE Engine(a)' = Engine(a)
  BY <1>1, <1>2, <1>4 DEF Engine, icbVars, memVars
<1>6. Steady' = Steady
  BY <1>1 DEF Steady, pcVars, envVars
<1> QED BY <1>1, <1>2, <1>3, <1>5, <1>6 DEF Stream, pcVars, envVars

\* It is inductive.
LEMMA FetchStep == ASSUME ~WakeInPlace, Fetch, [Next]_vars PROVE Fetch'
<1>1. Access'
  BY AccessStep DEF Fetch
<1>2. CASE Next
  <2>1. PICK in \in Inputs : \E w : Step(in, w)
    BY <1>2, StepFacts
  <2>2. PICK w : Step(in, w)
    BY <2>1
  <2>3. Stream'
    BY <2>2, StreamStep DEF Fetch, Access
  <2>4. QED BY <1>1, <2>3 DEF Fetch
<1>3. CASE UNCHANGED vars
  BY <1>1, <1>3, FetchStutter DEF Fetch
<1> QED BY <1>2, <1>3

\* The inductive invariant of fetch, in a core where WFI ends in a trap.
THEOREM FetchInvariant == ASSUME ~WakeInPlace PROVE Spec => []Fetch
<1>1. Init => Fetch
  BY FetchInit
<1>2. Fetch /\ [Next]_vars => Fetch'
  BY FetchStep
<1> QED BY <1>1, <1>2, PTL DEF Spec

\* A valid instruction register holds the instruction of the stream.
LEMMA FetchRight == ASSUME Fetch PROVE InstructionRight
BY DEF Fetch, Stream, InstructionRight, Right

\* What is dispatched is the instruction at the PC, whole, with its PC and with the
\* errors of its words.
THEOREM RightInstruction == ASSUME ~WakeInPlace PROVE Spec => []InstructionRight
BY FetchInvariant, FetchRight, PTL

\* The PC beside it, once it is settled, is that of the stream.
LEMMA FetchSettled == ASSUME Fetch PROVE PcSettled
<1>1. SUFFICES ASSUME irPcVld, irValid \/ ~pcNewpend PROVE irPc = arch
  BY DEF PcSettled
<1>2. Stream /\ Halting
  BY DEF Fetch, Access
<1>3. CASE irValid
  BY <1>2, <1>3 DEF Stream
<1>4. CASE ~irValid /\ ~pcNewpend
  <2>1. ~dlyFlush /\ ~resetFlag /\ ~resetReq
    BY <1>1, <1>2, <1>4 DEF Halting
  <2>2. outFlag
    BY <1>2, <1>4, <2>1 DEF Stream
  <2>3. Steady
    BY <1>4, <2>1, <2>2 DEF Steady
  <2>4. QED BY <1>2, <1>4, <2>3 DEF Stream
<1> QED BY <1>1, <1>3, <1>4

\* The PC that a trap saves is that of the instruction next to be dispatched.
THEOREM SettledPc == ASSUME ~WakeInPlace PROVE Spec => []PcSettled
BY FetchInvariant, FetchSettled, PTL
===============================================================================
