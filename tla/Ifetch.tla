-------------------------------- MODULE Ifetch --------------------------------
(***************************************************************************)
(* Instruction fetch: core/e203_ifu_ifetch.v (PC, instruction register,    *)
(* flush and halt) and core/e203_ifu_ift2icb.v (32-bit instructions out of *)
(* wider or misaligned words), on the ITCM, core/e203_itcm_ctrl.v, which   *)
(* it shares with the LSU, and the BIU, which it shares too.  One step is  *)
(* one clock edge.  Addresses count halfwords.  The contents of a halfword *)
(* are its address, so that data out of place shows; which halfwords start *)
(* a 32-bit instruction or a jump is the program's.                        *)
(***************************************************************************)
EXTENDS Integers

CONSTANTS
    Programs,     \* the programs: [wide, jump, jalr], chosen at reset
    ItcmTop,      \* halfwords below are in the ITCM, the others in memory
    Bad,          \* the words of memory that answer with an error
    ResetVec,     \* pc_rtvec
    Targets,      \* where a flush may go
    FlushesInRow, \* bound: flushes without an instruction dispatched between
    WakeInPlace   \* WFI ends without a trap: the interrupt is masked (MIE)

ASSUME SplitAssumption == ItcmTop \in Nat /\ ItcmTop % 4 = 0
ASSUME BoundAssumption == FlushesInRow \in Nat \ {0} /\ WakeInPlace \in BOOLEAN

None == -1
Junk == -2   \* what the LSU left on the bus
Zero == -3   \* on the bus before the first command

\* A halfword of zeros is no jump.
ASSUME ProgramAssumption ==
    /\ ResetVec \in Nat /\ Targets \subseteq Nat
    /\ \A c \in Programs : /\ DOMAIN c.jump \subseteq Nat \union {Junk}
                           /\ c.jump \in [DOMAIN c.jump -> Nat]
NoInstr == [lo |-> None, hi |-> None, err |-> FALSE]

VARIABLES
    code,                                  \* the program
    \* e203_ifu_ifetch.v
    resetFlag, resetReq, haltAck, dlyFlush,
    irValid, ir, irPcVld, irPc,            \* the instruction register and its PC
    pc, pcNewpend, outFlag,
    \* e203_ifu_ift2icb.v
    st, sameCrossHoldup, need2, need0, laneCross, cmd2, addr21,
    leftover, leftoverErr, rspBuf,
    \* the ITCM: command buffer, pipe stage, output of the RAM, holdup flag
    itcmCmd, e1, ramOut, holdup,
    \* the BIU, here one transaction at a time: its address and the last word
    biu, biuAddr, biuOut,
    \* LSU and execution unit: loads under way, wfi_halt_req_r, flush bound
    lsuCmd, lsuOut, lsuBiu, halt, flushes,
    arch                                   \* history: the PC next to dispatch

pcVars  == <<resetFlag, resetReq, haltAck, dlyFlush, irValid, ir, irPcVld, irPc,
             pc, pcNewpend, outFlag>>
icbVars == <<st, sameCrossHoldup, need2, need0, laneCross, cmd2, addr21,
             leftover, leftoverErr, rspBuf>>
memVars == <<itcmCmd, e1, ramOut, holdup, biu, biuAddr, biuOut>>
envVars == <<lsuCmd, lsuOut, lsuBiu, halt, flushes, arch>>
vars == <<code, pcVars, icbVars, memVars, envVars>>

Init ==
    /\ code \in Programs
    /\ resetFlag = TRUE
    /\ resetReq = FALSE /\ haltAck = FALSE /\ dlyFlush = FALSE /\ irValid = FALSE
    /\ irPcVld = FALSE /\ pcNewpend = FALSE /\ outFlag = FALSE
    /\ sameCrossHoldup = FALSE /\ need2 = FALSE /\ need0 = FALSE /\ laneCross = FALSE
    /\ leftoverErr = FALSE /\ holdup = FALSE /\ lsuCmd = FALSE /\ lsuOut = FALSE
    /\ ir = NoInstr /\ irPc = 0 /\ pc = 0
    /\ st = "IDLE" /\ cmd2 = "none" /\ addr21 = 0 /\ leftover = Junk /\ rspBuf = NoInstr
    /\ itcmCmd = None /\ e1 = "none" /\ ramOut = Junk
    /\ biu = "idle" /\ biuAddr = None /\ biuOut = Junk
    /\ lsuBiu = "no" /\ halt = "no" /\ flushes = 0
    /\ arch = ResetVec

-----------------------------------------------------------------------------
(* The program *)

Wide(lo) == lo \in code.wide
Jumps(lo) == lo \in DOMAIN code.jump
Succ(a) == IF Jumps(a) THEN code.jump[a] ELSE IF Wide(a) THEN a + 2 ELSE a + 1

InItcm(a) == a < ItcmTop
Lane(a) == IF InItcm(a) THEN a \div 4 ELSE a \div 2

-----------------------------------------------------------------------------
(* Responses: what e203_ifu_ift2icb makes of the words it gets *)

\* rdata, by halfwords, of the target of the last command
Half(i) == CASE cmd2 = "none" -> Zero
             [] cmd2 = "itcm" -> IF ramOut = Junk THEN Junk ELSE 4 * ramOut + i
             [] cmd2 = "biu"  -> IF biuOut = Junk THEN Junk ELSE 2 * biuOut + i
TopHalf == Half(IF cmd2 = "itcm" THEN 3 ELSE 1)

IcbRspErr == cmd2 = "biu" /\ biu = "rsp" /\ biuOut \in Bad
IcbRspValid == \/ cmd2 = "itcm" /\ e1 = "ifu"
               \/ cmd2 = "biu" /\ biu = "rsp"

Rsp2Leftover == need2 /\ st = "1ST"
SelLeftover == st = "2ND" \/ (st = "1ST" /\ sameCrossHoldup)

Aligned == CASE cmd2 # "itcm" -> [lo |-> Half(0), hi |-> Half(1), err |-> IcbRspErr]
             [] cmd2 = "itcm" /\ addr21 = 3 -> [lo |-> Zero, hi |-> Zero, err |-> FALSE]
             [] OTHER -> [lo |-> Half(addr21), hi |-> Half(addr21 + 1), err |-> FALSE]
IcbInstr == IF SelLeftover
            THEN [lo |-> leftover, hi |-> Half(0), err |-> IcbRspErr \/ leftoverErr]
            ELSE Aligned

\* the bypass buffer of one response: a fetch never holds up its target
IcbInstrValid == (st = "1ST" /\ need0) \/ (IcbRspValid /\ ~Rsp2Leftover)
\* (mutant) no buffer: a response waits for the instruction register
BufReadyLate == rspBuf = NoInstr /\ ~irValid
BufReady == rspBuf = NoInstr
IcbInstrHsked == IcbInstrValid /\ BufReady
IcbRspReady == Rsp2Leftover \/ BufReady
IcbRspHsked == IcbRspValid /\ IcbRspReady

RspValid == rspBuf # NoInstr \/ IcbInstrValid
RspInstr == IF rspBuf # NoInstr THEN rspBuf ELSE IcbInstr

-----------------------------------------------------------------------------
(* The ITCM and the BIU as fetch sees them *)

\* arbt_icb_cmd_valid: the LSU asks, and its one outstanding place is free
LsuAnswered(lsuRdy) == e1 = "lsu" /\ lsuRdy
ArbtValid(lsuRdy) == lsuCmd /\ (~lsuOut \/ LsuAnswered(lsuRdy))

\* the SRAM goes to the LSU first, and its command buffer must be empty
SramReady2Ifu(lsuRdy) == itcmCmd = None /\ ~ArbtValid(lsuRdy)
CmdReady(a, lsuRdy) == IF InItcm(a) THEN SramReady2Ifu(lsuRdy)
                       ELSE biu = "idle" /\ lsuBiu # "cmd"

-----------------------------------------------------------------------------
(* One clock.  in: what the execution unit and the slaves do in it *)

IrClr(in) == irValid /\ (in.take \/ in.flush # None)
FlushReal(in) == in.flush # None \/ dlyFlush
HaltReq(in) == halt = "halt" /\ ~in.wake

\* minidec and litebpu on the response
BpuWait(in) == RspValid /\ RspInstr.lo \in code.jalr /\ in.wait

PcNxt(in) ==
    CASE in.flush # None -> in.flush
      [] in.flush = None /\ dlyFlush -> pc
      [] ~FlushReal(in) /\ Jumps(RspInstr.lo) -> code.jump[RspInstr.lo]
      [] ~FlushReal(in) /\ ~Jumps(RspInstr.lo) /\ resetReq -> ResetVec
      [] OTHER -> IF Wide(RspInstr.lo) THEN pc + 2 ELSE pc + 1

ReqSeq(in) == ~FlushReal(in) /\ ~resetReq /\ ~Jumps(RspInstr.lo)

\* position of a PC in the word its target returns, and what to fetch for it
Cross(a) == a % (IF InItcm(a) THEN 4 ELSE 2) = (IF InItcm(a) THEN 3 ELSE 1)
Begin(a) == a % (IF InItcm(a) THEN 4 ELSE 2) = 0
LaneSame(a, seq) == seq /\ (Begin(a) => laneCross)
\* (mutant) the RAM is taken to hold the last word fetched whoever used it since
HeldAlways(a) == InItcm(a)
Held(a) == InItcm(a) /\ holdup

Need(a, seq) == [hold |-> LaneSame(a, seq) /\ Cross(a) /\ Held(a),
                 two  |-> Cross(a) /\ ~(LaneSame(a, seq) /\ Held(a)),
                 zero |-> LaneSame(a, seq) /\ ~Cross(a) /\ Held(a)]

CmdAddr(a, need) ==
    IF need2 /\ st \in {"1ST", "WAIT2ND"} THEN pc + 1
    ELSE IF need.hold THEN pc + (IF Wide(RspInstr.lo) THEN 3 ELSE 2)
    ELSE a

ReqCondi == \/ st = "IDLE"
            \/ ~need2 /\ st = "1ST" /\ IcbInstrHsked
            \/ need2 /\ st = "2ND" /\ IcbInstrHsked

\* The handshakes of the clock, from the wires above.
Wires(in) ==
    LET a       == PcNxt(in)
        need    == Need(a, ReqSeq(in))
        addr    == CmdAddr(a, need)
        cmdRdy  == CmdReady(addr, in.lsuRdy)
        reqRdy  == cmdRdy /\ ReqCondi
        irRdy   == ~irValid \/ IrClr(in)
        rspHsk  == RspValid /\ (FlushReal(in) \/ (irRdy /\ reqRdy /\ ~BpuWait(in)))
        newReq  == ~BpuWait(in) /\ ~HaltReq(in) /\ ~resetFlag
        reqVal  == /\ newReq \/ resetReq \/ FlushReal(in)
                   /\ ~outFlag \/ rspHsk
        second  == need2 /\ ((st = "1ST" /\ IcbRspHsked) \/ st = "WAIT2ND")
        cmdVal  == (reqVal /\ ReqCondi /\ ~need.zero) \/ second
    IN [a |-> a, need |-> need, addr |-> addr, cmdRdy |-> cmdRdy, irRdy |-> irRdy,
        rsp |-> rspHsk, req |-> reqVal /\ reqRdy,
        ask |-> cmdVal, cmd |-> cmdVal /\ cmdRdy]

\* (mutant) the halt is acknowledged once the response is taken, not once it is there
PendingLate(in, w) ==
    /\ resetFlag' = FALSE
    /\ resetReq' = IF resetReq THEN ~w.req ELSE resetFlag
    /\ haltAck' = (HaltReq(in) /\ (haltAck \/ ~outFlag))
    /\ dlyFlush' = (~w.req /\ FlushReal(in))
\* (mutant) the halt is acknowledged whatever is under way
PendingAtOnce(in, w) ==
    /\ resetFlag' = FALSE
    /\ resetReq' = IF resetReq THEN ~w.req ELSE resetFlag
    /\ haltAck' = HaltReq(in)
    /\ dlyFlush' = (~w.req /\ FlushReal(in))
\* reset, halt and flush requests
Pending(in, w) ==
    /\ resetFlag' = FALSE
    /\ resetReq' = IF resetReq THEN ~w.req ELSE resetFlag
    /\ haltAck' = (HaltReq(in) /\ (haltAck \/ ~outFlag \/ RspValid))
    /\ dlyFlush' = (~w.req /\ FlushReal(in))

\* (mutant) a flush that has to wait announces no new PC
InstructionRegisterStale(in, w) ==
    LET set   == w.rsp /\ ~FlushReal(in)
        pcSet == pcNewpend /\ w.irRdy /\ ~FlushReal(in)
    IN /\ irValid' = (set \/ (irValid /\ ~IrClr(in)))
       /\ ir' = IF set THEN [RspInstr EXCEPT !.hi = IF Wide(RspInstr.lo) THEN @ ELSE ir.hi]
                ELSE ir
       /\ irPcVld' = (pcSet \/ (irPcVld /\ ~IrClr(in)))
       /\ irPc' = IF pcSet THEN pc ELSE irPc
       /\ pcNewpend' = (w.req \/ (pcNewpend /\ ~pcSet))
\* instruction register and its PC; the PC may be there before the instruction
InstructionRegister(in, w) ==
    LET set   == w.rsp /\ ~FlushReal(in)
        pcSet == pcNewpend /\ w.irRdy /\ ~FlushReal(in)
    IN /\ irValid' = (set \/ (irValid /\ ~IrClr(in)))
       /\ ir' = IF set THEN [RspInstr EXCEPT !.hi = IF Wide(RspInstr.lo) THEN @ ELSE ir.hi]
                ELSE ir
       /\ irPcVld' = (pcSet \/ (irPcVld /\ ~IrClr(in)))
       /\ irPc' = IF pcSet THEN pc ELSE irPc
       /\ pcNewpend' = (w.req \/ in.flush # None \/ (pcNewpend /\ ~pcSet))

ProgramCounter(in, w) ==
    /\ pc' = IF w.req \/ in.flush # None THEN w.a ELSE pc
    /\ outFlag' = (w.req \/ (outFlag /\ ~w.rsp))

\* (mutant) the second access is taken for granted
IcbStateHasty(w) ==
    LET next == IF w.req THEN "1ST" ELSE "IDLE"
    IN st' = CASE st = "IDLE" -> next
               [] st = "1ST" /\ Rsp2Leftover /\ IcbRspHsked -> "2ND"
               [] st = "1ST" /\ ~Rsp2Leftover /\ IcbInstrHsked -> next
               [] st = "2ND" /\ IcbInstrHsked -> next
               [] OTHER -> st
\* the state of the access and what is kept of the request
IcbState(w) ==
    LET next == IF w.req THEN "1ST" ELSE "IDLE"
    IN st' = CASE st = "IDLE" -> next
               [] st = "1ST" /\ Rsp2Leftover /\ IcbRspHsked ->
                     IF w.cmdRdy THEN "2ND" ELSE "WAIT2ND"
               [] st = "1ST" /\ ~Rsp2Leftover /\ IcbInstrHsked -> next
               [] st = "WAIT2ND" /\ w.cmdRdy -> "2ND"
               [] st = "2ND" /\ IcbInstrHsked -> next
               [] OTHER -> st

IcbRequest(w) ==
    /\ sameCrossHoldup' = IF w.req THEN w.need.hold ELSE sameCrossHoldup
    /\ need2' = IF w.req THEN w.need.two ELSE need2
    /\ need0' = IF w.req THEN w.need.zero ELSE need0
    /\ laneCross' = IF w.req THEN Cross(w.a) ELSE laneCross
    /\ cmd2' = IF w.cmd THEN (IF InItcm(w.addr) THEN "itcm" ELSE "biu") ELSE cmd2
    /\ addr21' = IF w.cmd \/ w.req THEN w.addr % 4 ELSE addr21

Leftover(w) ==
    LET held  == w.req /\ w.need.hold
        first == IcbRspHsked /\ Rsp2Leftover
    IN /\ leftover' = IF held \/ first THEN TopHalf ELSE leftover
       /\ leftoverErr' = IF held \/ first THEN Rsp2Leftover /\ IcbRspErr ELSE leftoverErr

RspBuffer(w) ==
    rspBuf' = CASE rspBuf # NoInstr -> IF w.rsp THEN NoInstr ELSE rspBuf
                [] rspBuf = NoInstr /\ IcbInstrValid /\ ~w.rsp -> IcbInstr
                [] OTHER -> NoInstr

\* the ITCM: one command buffer, one stage; the holdup flag looks at the command
\* that comes in while the RAM runs the one in the buffer, if there is one
Itcm(in, w) ==
    LET lsu   == ArbtValid(in.lsuRdy)
        fetch == ~lsu /\ w.ask /\ InItcm(w.addr)
        e1Rdy == CASE e1 = "none" -> TRUE
                   [] e1 = "ifu" -> IcbRspReady
                   [] e1 = "lsu" -> in.lsuRdy
        next  == IF itcmCmd # None THEN itcmCmd
                 ELSE IF lsu THEN Junk ELSE IF fetch THEN Lane(w.addr) ELSE None
        cs    == next # None /\ e1Rdy
    IN /\ itcmCmd' = IF cs THEN None ELSE next
       /\ e1' = IF cs THEN (IF next = Junk THEN "lsu" ELSE "ifu")
                ELSE IF e1Rdy THEN "none" ELSE e1
       /\ ramOut' = IF cs THEN next ELSE ramOut
       /\ holdup' = IF cs THEN fetch ELSE holdup
       /\ lsuOut' = ((lsu /\ itcmCmd = None) \/ (lsuOut /\ ~LsuAnswered(in.lsuRdy)))
       /\ lsuCmd' = ((lsuCmd /\ ~(lsu /\ itcmCmd = None)) \/ in.lsu = "itcm")

\* the BIU: the LSU first; an answer waits until fetch takes it
Bus(in, w) ==
    LET fetch == w.cmd /\ ~InItcm(w.addr)
    IN /\ biu' = CASE biu = "idle" /\ lsuBiu = "cmd" -> "lsu"
                   [] biu = "idle" /\ lsuBiu # "cmd" /\ fetch -> "ifu"
                   [] biu = "ifu" /\ in.bus -> "rsp"
                   [] biu = "lsu" /\ in.bus -> "idle"
                   [] biu = "rsp" /\ IcbRspHsked -> "idle"
                   [] OTHER -> biu
       /\ biuAddr' = IF biu = "idle" /\ lsuBiu # "cmd" /\ fetch THEN Lane(w.addr) ELSE biuAddr
       /\ biuOut' = CASE biu = "ifu" /\ in.bus -> biuAddr
                      [] biu = "lsu" /\ in.bus -> Junk
                      [] OTHER -> biuOut
       /\ lsuBiu' = CASE in.lsu = "biu" -> "cmd"
                      [] biu = "idle" /\ lsuBiu = "cmd" -> "out"
                      [] biu = "lsu" /\ in.bus -> "no"
                      [] OTHER -> lsuBiu

\* commit: WFI halts from the next clock on, whatever is flushed meanwhile; it ends
\* in place or in a trap, until whose flush nothing commits
Commit(in) ==
    /\ halt' = CASE in.wfi \/ HaltReq(in) -> "halt"
                 [] ~HaltReq(in) /\ in.flush # None -> "no"
                 [] in.flush = None /\ in.wake -> IF WakeInPlace THEN "no" ELSE "trap"
                 [] OTHER -> halt
    /\ flushes' = IF in.flush # None THEN (IF in.take THEN 1 ELSE flushes + 1)
                  ELSE IF in.take THEN 0 ELSE flushes
    /\ arch' = IF in.flush # None THEN in.flush ELSE IF in.take THEN Succ(arch) ELSE arch

\* What the execution unit, the slaves and the register file may do in a clock: an
\* input that nothing looks at is FALSE.
Either(b) == IF b THEN BOOLEAN ELSE {FALSE}
Dispatches == irValid /\ halt = "no"
Inputs == [take   : Either(Dispatches),
           flush  : {None} \cup (IF resetFlag \/ resetReq THEN {} ELSE Targets),
           lsu    : {"none"} \cup (IF Dispatches THEN {"itcm", "biu"} ELSE {}),
           lsuRdy : Either(e1 = "lsu"),
           bus    : Either(biu \in {"ifu", "lsu"}),
           wait   : Either(RspValid /\ RspInstr.lo \in code.jalr),
           wfi    : Either(Dispatches),
           wake   : Either(halt = "halt")]

\* A load or store that the bus answers with an error flushes, while a halt is
\* requested too: WFI does not wait for it.
LoadFails(in) == lsuBiu = "out" /\ in.bus

Possible(in) ==
    /\ in.lsu = "itcm" => in.take /\ ~lsuCmd
    /\ in.lsu = "biu" => in.take /\ lsuBiu = "no"
    /\ in.wfi => in.take /\ in.flush = None /\ in.lsu = "none"
    /\ in.flush # None => \/ in.take
                          \/ halt # "no" /\ irPcVld /\ ~HaltReq(in)
                          \/ /\ flushes < FlushesInRow
                             /\ (irPcVld /\ ~HaltReq(in)) \/ LoadFails(in)

Clock(in) ==
    /\ Possible(in)
    /\ Commit(in)
    /\ \E w \in {Wires(in)} :
         /\ Bus(in, w) /\ Itcm(in, w)
         /\ Pending(in, w) /\ InstructionRegister(in, w) /\ ProgramCounter(in, w)
         /\ IcbState(w) /\ IcbRequest(w) /\ Leftover(w) /\ RspBuffer(w)
    /\ UNCHANGED code

Next == \E in \in Inputs : Clock(in)

\* A clock in which the LSU takes its answer, the bus moves on and a jalr has its
\* register, and in which nothing is dispatched, flushed or woken.
Quiet == [take |-> FALSE, flush |-> None, lsu |-> "none", lsuRdy |-> e1 = "lsu",
          bus |-> biu \in {"ifu", "lsu"}, wait |-> FALSE, wfi |-> FALSE, wake |-> FALSE]

\* There is always another such clock: all that is waited for stays until it comes.
\* Nothing says that an instruction is dispatched.
Fairness == WF_vars(Clock(Quiet))

Spec == Init /\ [][Next]_vars /\ Fairness

-----------------------------------------------------------------------------
(* Properties *)

\* What is under way agrees with what the registers say: the request that is out is
\* an access, one and no more, in the buffer or the stage of the ITCM or in the BIU,
\* or waits for its second word, or is answered out of the word at hand, or its
\* answer waits in the buffer (out_flag_r, icb_state_r and the bypass buffer).
OneAtATime ==
    LET here == <<itcmCmd \notin {None, Junk}, e1 = "ifu", biu \in {"ifu", "rsp"}>>
        under == {i \in DOMAIN here : here[i]}
    IN /\ outFlag <=> (st # "IDLE" \/ rspBuf # NoInstr)
       /\ st # "IDLE" => rspBuf = NoInstr
       /\ IF st = "2ND" \/ (st = "1ST" /\ ~need0)
          THEN \E i \in 1..3 : under = {i} ELSE under = {}

Halves(a) == IF Wide(a) THEN {a, a + 1} ELSE {a}
BadHalf(a) == ~InItcm(a) /\ Lane(a) \in Bad

\* The instruction register holds the instruction that is next to be dispatched,
\* both halves of it out of the words at its own PC, with that PC beside it, and a
\* bus error if and only if a word it was put together from had one, whatever
\* flushes, loads into the same RAM and waits came between: the leftover, holdup
\* and alignment logic of e203_ifu_ift2icb.v and the flush of e203_ifu_ifetch.v.
InstructionRight ==
    irValid =>
      /\ ir.lo = arch /\ (Wide(arch) => ir.hi = arch + 1)
      /\ irPcVld /\ irPc = arch
      /\ (\E a \in Halves(arch) : BadHalf(a)) => ir.err
      /\ ir.err => BadHalf(arch) \/ BadHalf(arch + 1)

\* The PC that interrupts and debug entries save (mepc, dpc) is that of the
\* instruction next to be dispatched.  Once an instruction is in the register, or
\* no new PC waits to be loaded, it is right.  (Between a flush and the clock after,
\* with no instruction in the register, irPcVld alone does not make it so.)
PcSettled == irPcVld /\ (irValid \/ ~pcNewpend) => irPc = arch

\* With the halt acknowledged nothing of fetch is under way in ITCM or BIU, so
\* that the clock may stop (e203_ifu_ifetch.v, halt_ack_set), unless a load failed
\* since the WFI: its flush is not held back by the halt and starts an access under
\* the acknowledgement (e203_ifu_ifetch.v:483).  Fetch then stays where that flush
\* sent it and runs no further ahead.
HaltQuiet ==
    haltAck =>
        \/ e1 # "ifu" /\ itcmCmd \in {None, Junk} /\ biu \notin {"ifu", "rsp"}
        \/ flushes > 0 /\ pc = arch

\* A load or store under way gets the RAM or the bus in the end although nothing
\* is ever dispatched again: there is no deadlock of dispatch waiting for a load,
\* the load for the memory, the memory for fetch and fetch for dispatch
\* (e203_ifu_ift2icb.v:131, e203_biu.v:492).
LsuServed == /\ lsuCmd ~> ~lsuCmd
             /\ (lsuBiu = "cmd") ~> (lsuBiu # "cmd")

\* A halt is acknowledged although the response in the buffer is never taken.
HaltAcked == (halt = "halt") ~> (haltAck \/ halt # "halt")

===============================================================================
