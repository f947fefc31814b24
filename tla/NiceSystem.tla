----------------------------- MODULE NiceSystem ------------------------------
(***************************************************************************)
(* The accelerator in the core: dispatch (e203_exu_disp), the queue of     *)
(* outstanding long instructions (e203_exu_oitf), the NICE interface's     *)
(* queue of tags (e203_exu_nice), in-order write-back                      *)
(* (e203_exu_longpwbck, e203_exu_wbck) and the memory port the accelerator *)
(* shares with the core's loads and stores (e203_lsu_ctrl), composed with  *)
(* NiceCore.  One step is one clock of the core.                           *)
(*                                                                         *)
(* Fetch and decode are the choice of the next instruction; the NICE unit  *)
(* is enabled (mstatus.XS is not off).                                     *)
(***************************************************************************)
EXTENDS NiceCore, Sequences

CONSTANTS
    OitfDepth,   \* E203_OITF_DEPTH
    ItagDepth,   \* DP of u_nice_itag_fifo
    NoReg,       \* instead of a register: the instruction has no rd
    Instrs,      \* instructions: [kind, op, rd, rs]
    AguLatency   \* a load or store of the core is answered within so many cycles

Bubble == [kind |-> "none", op |-> "none", rd |-> NoReg, rs |-> {}]

ASSUME SystemAssumption ==
    /\ OitfDepth \in Nat \ {0, 1}
    /\ ItagDepth \in Nat \ {0}
    /\ AguLatency \in Nat \ {0}
    /\ \A i \in Instrs :
          /\ i.kind \in {"alu", "csr", "mem", "nice"}
          /\ i.kind = "nice" /\ i.op \in Loads => i.op \in Requests
          /\ NoReg \notin i.rs

VARIABLES
    ir,      \* the instruction at dispatch
    alc,     \* alc_ptr_r with its flag: counts modulo 2 * OitfDepth
    ret,     \* ret_ptr_r with its flag
    slot,    \* the OITF's entries: vld_r, and rdidx_r with rdwen_r as rd
    itags,   \* u_nice_itag_fifo: the tags of the NICE instructions
    agu,     \* the core's load or store at the memory port: busy, its tag,
             \* and the cycles left until its response is there
    flight   \* history: the dispatched and not yet retired long
             \* instructions, in program order

oitf == <<alc, ret, slot>>
sysvars == <<vars, ir, oitf, itags, agu, flight>>

Tag(p)  == p % OitfDepth
\* (mutant) the flag of the pointer does not change when it wraps
SuccNoFlag(p) == IF p % OitfDepth = OitfDepth - 1 THEN p + 1 - OitfDepth ELSE p + 1
\* a pointer moves on, its flag changes when it wraps
Succ(p) == (p + 1) % (2 * OitfDepth)
Tags    == 0 .. OitfDepth - 1

Empty == alc = ret
Full  == alc # ret /\ Tag(alc) = Tag(ret)

SysInit ==
    /\ Init
    /\ ir = Bubble
    /\ alc = 0 /\ ret = 0
    /\ slot = [k \in Tags |-> [vld |-> FALSE, rd |-> NoReg]]
    /\ itags = <<>>
    /\ agu = [busy |-> FALSE, tag |-> 0, left |-> 0]
    /\ flight = <<>>

-----------------------------------------------------------------------------
(* In-order write-back: only the oldest outstanding instruction retires. *)

\* (mutant) a load or store retires as soon as it is answered
SelLsuAny == agu.busy /\ agu.left = 0 /\ ~Empty
\* wbck_sel_lsu; a response that is not selected stays where it is
SelLsu == agu.busy /\ agu.left = 0 /\ agu.tag = Tag(ret) /\ ~Empty

\* nice_rsp_valid in this cycle; v says that the memory answers the accelerator
NiceRspValid(v) ==
    \/ phase = "LOAD" /\ layer # "input" /\ CntDone(layer) /\ v
    \/ phase = "CAL" /\ calCnt[layer] = CalCycles[layer] /\ Answers(layer)

\* wbck_sel_nice
SelNice(v) ==
    /\ NiceRspValid(v)
    /\ itags # <<>> /\ Head(itags) = Tag(ret) /\ ~Empty

Retires(v)    == SelLsu \/ SelNice(v)                         \* oitf_ret_ena
WritesBack(v) == Retires(v) /\ slot[Tag(ret)].rd # NoReg      \* longp_wbck_o_valid

-----------------------------------------------------------------------------
(* Dispatch. *)

\* raw_dep and waw_dep
Dep ==
    \E k \in Tags : /\ slot[k].vld /\ slot[k].rd # NoReg
                    /\ slot[k].rd \in ir.rs \union {ir.rd}

\* (mutant) the port takes a command before the last answer is written back
LsuFreeTwo(v) == pend = 0 \/ v
\* The memory port takes one command at a time, and the next one in the
\* cycle in which the answer to the last is taken (the splt stage).
LsuFree(v) == (pend = 0 \/ v) /\ (~agu.busy \/ SelLsu)

\* (mutant) the core's accesses go first and are not held up
AguGoesFirst(v) == ir.kind = "mem" /\ ~Dep /\ ~Full /\ LsuFree(v)
\* A load or store of the core is dispatched in the cycle its command is
\* accepted: the accelerator goes first, and nice_mem_holdup keeps it out.
AguGoes(v) ==
    /\ ir.kind = "mem" /\ ~Dep /\ ~Full
    /\ phase # "LOAD"
    /\ LsuFree(v)

\* nice_icb_cmd_ready
PortReady(v) == LsuFree(v) /\ ~AguGoes(v)

\* A custom instruction goes when the accelerator takes it; dispatch does
\* not ask the OITF for room.  (The bound on illegal is the model's.)
NiceGoes(v) ==
    /\ ir.kind = "nice" /\ ~Dep
    /\ phase = "IDLE"
    /\ IF ir.op \in Loads THEN PortReady(v) ELSE illegal < MaxIllegal

\* (mutant) a CSR instruction or a fence does not wait for the OITF
AluGoesAnyway(v) ==
    ir.kind \in {"alu", "csr"} /\ ~Dep /\ (ir.rd = NoReg \/ ~WritesBack(v))
\* An instruction of one cycle; "csr" stands for the CSR instructions and
\* the fences, which wait until nothing is outstanding.
AluGoes(v) ==
    /\ ir.kind \in {"alu", "csr"} /\ ~Dep
    /\ ir.kind = "csr" => Empty
    /\ ir.rd = NoReg \/ ~WritesBack(v)

Allocates(v) == AguGoes(v) \/ NiceGoes(v)   \* disp_oitf_ena

-----------------------------------------------------------------------------
(* The clock. *)

\* The OITF: setting an entry wins over clearing it.
OitfStep(v) ==
    /\ alc' = (IF Allocates(v) THEN Succ(alc) ELSE alc)
    /\ ret' = (IF Retires(v) THEN Succ(ret) ELSE ret)
    /\ slot' = [k \in Tags |->
                  IF Allocates(v) /\ k = Tag(alc) THEN [vld |-> TRUE, rd |-> ir.rd]
                  ELSE IF Retires(v) /\ k = Tag(ret) THEN [slot[k] EXCEPT !.vld = FALSE]
                  ELSE slot[k]]

\* A tag is pushed with the request (and lost if the queue is full) and
\* popped when the answer is accepted.
Popped(v) == IF SelNice(v) THEN Tail(itags) ELSE itags
ItagStep(v) ==
    itags' = IF NiceGoes(v) /\ Len(itags) < ItagDepth
             THEN Append(Popped(v), Tag(alc)) ELSE Popped(v)

AguStep(v, d) ==
    agu' = IF AguGoes(v) THEN [busy |-> TRUE, tag |-> Tag(alc), left |-> d - 1]
           ELSE IF SelLsu THEN [agu EXCEPT !.busy = FALSE]
           ELSE IF agu.left > 0 THEN [agu EXCEPT !.left = @ - 1] ELSE agu

FlightStep(v) ==
    LET rest == IF Retires(v) /\ flight # <<>> THEN Tail(flight) ELSE flight
        new  == [unit |-> ir.kind, rd |-> ir.rd, op |-> ir.op]
    IN  flight' = IF Allocates(v) THEN Append(rest, new) ELSE rest

\* The accelerator's cycle; its clock is gated while it is idle and no
\* request arrives.
Idling(v) == phase = "IDLE" /\ ~NiceGoes(v) /\ ~v /\ UNCHANGED vars

Taking(v, e) ==
    /\ NiceGoes(v)
    /\ \/ ir.op \in Loads /\ \E b \in Bases[ir.op] : Accept(ir.op, b, v, e)
       \/ ir.op \notin Loads /\ AcceptIllegal(v)

Working(v, e) ==
    \/ \E op \in Loads :
          \/ ~v /\ LoadWait(op, PortReady(v), e)
          \/ v /\ (LoadBeat(op, PortReady(v), e) \/ LoadDone(op, PortReady(v), e))
    \/ \E l \in Layers : Move(l, v) \/ CalCount(l, v) \/ CalDone(l, v)

Clock(v, e, d, i) ==
    /\ Idling(v) \/ Taking(v, e) \/ Working(v, e)
    /\ OitfStep(v) /\ ItagStep(v) /\ AguStep(v, d) /\ FlightStep(v)
    /\ ir' = (IF ir = Bubble \/ Allocates(v) \/ AluGoes(v) THEN i ELSE ir)

SysNext ==
    \E v \in BOOLEAN, e \in MemErrors, d \in 1 .. AguLatency, i \in Instrs \union {Bubble} :
        Clock(v, e, d, i)

\* The clock of the core runs.
SysSpec == SysInit /\ [][SysNext]_sysvars /\ WF_sysvars(SysNext)

-----------------------------------------------------------------------------
(* Properties *)

InFlight(unit) == {n \in 1 .. Len(flight) : flight[n].unit = unit}
TagOf(n) == Tag(ret + n - 1)

\* The OITF, the NICE interface's tags and the memory port agree on what is
\* outstanding: every dispatched and not retired instruction has the entry
\* of its place, every NICE one its tag in the queue, and a load or store
\* is at the port exactly while it is outstanding.  Dispatch checks the
\* OITF for room for loads and stores only (e203_exu_disp.v line 223); it
\* is the one memory command and the one NICE instruction at a time that
\* keep a custom instruction from overwriting an entry.
Tracked ==
    /\ Len(flight) <= OitfDepth
    /\ alc = (ret + Len(flight)) % (2 * OitfDepth)
    /\ \A n \in 1 .. Len(flight) : slot[TagOf(n)] = [vld |-> TRUE, rd |-> flight[n].rd]
    /\ \A k \in Tags : slot[k].vld => \E n \in 1 .. Len(flight) : TagOf(n) = k
    /\ agu.busy <=> InFlight("mem") # {}
    /\ \A n \in InFlight("mem") : agu.tag = TagOf(n)
    /\ Len(itags) <= OitfDepth
    /\ {itags[q] : q \in 1 .. Len(itags)} = {TagOf(n) : n \in InFlight("nice")}

\* The accelerator holds its answer for one cycle only (line 1543): in that
\* very cycle the core retires the oldest outstanding instruction with it,
\* a custom one.  (Whether that one is the answer's own: RetiresInOrder.)
AnswerTaken ==
    [][owed' < owed => ret' # ret /\ flight # <<>> /\ Head(flight).unit = "nice"]_sysvars

\* The load the accelerator executes: moving and calculating belong to "input".
Running == IF phase = "LOAD" THEN layer ELSE "input"

\* The accelerator executes the custom instruction dispatched last, and that
\* is the oldest outstanding one exactly when no undecoded one was issued.
RunsLast ==
    \E n \in InFlight("nice") :
        /\ \A m \in InFlight("nice") : m <= n
        /\ flight[n].op = Running
        /\ n = 1 <=> illegal = 0

\* The entries retire in program order, each by its own kind of unit and
\* with its own register, never two in one cycle.  A load or store retires by
\* its own answer.  An answer of the accelerator retires its own instruction
\* exactly when no undecoded one was issued: after one, it takes the tag at
\* the head of the queue (e203_exu_nice.v line 106), retires the entry of an
\* older custom instruction and writes that one's register, not its own.
RetiresInOrder ==
    [][ret' # ret =>
         /\ flight # <<>>
         /\ slot[Tag(ret)].rd = Head(flight).rd
         /\ IF owed' < owed
            THEN Head(flight).unit = "nice" /\ ~SelLsu /\ RunsLast
            ELSE Head(flight).unit = "mem"]_sysvars

\* A one-cycle instruction that reads or writes a register never passes an
\* outstanding instruction that writes it, and a CSR instruction or a
\* fence passes none: it leaves dispatch when all have completed
\* (e203_exu_disp.v line 133).
Passes == ir # Bubble /\ ir' # ir
Interlocked ==
    [][Passes => /\ \A n \in 1 .. Len(flight) : flight[n].rd = NoReg
                       \/ flight[n].rd \notin ir.rs \union {ir.rd}
                 /\ ir.kind = "csr" => flight = <<>>]_sysvars

\* A CSR instruction or a fence at dispatch eventually finds nothing
\* outstanding, unless an undecoded custom instruction was issued: the
\* accelerator, the memory port and in-order write-back never wait for one
\* another in a circle ("avoid of dead-loop", e203_core.v line 276).
Drained == ir.kind = "csr" ~> flight = <<>> \/ illegal > 0

\* During a load the accelerator has the memory port for itself: what the
\* core does is a behaviour of NiceCore without command stalls, which is
\* what the loaders rely on: a command their counter withdraws (line 378) is lost.
Alone == INSTANCE NiceCore WITH CmdStall <- FALSE
PortIsOwn == Alone!Spec

\* e203_exu_disp.v line 133: a fence makes sure that all outstanding
\* instructions have been completed.
FenceComplete == Empty => flight = <<>>

=============================================================================
