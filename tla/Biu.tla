--------------------------------- MODULE Biu ---------------------------------
(***************************************************************************)
(* The bus interface unit, core/e203_biu.v: the arbiter                    *)
(* (sirv_gnrl_icb_arbt) of the LSU and the instruction fetch, the buffer   *)
(* (sirv_gnrl_icb_buffer) of commands and responses, and the splitter      *)
(* (sirv_gnrl_icb_splt) to the slaves.  Its FIFOs are the queues that      *)
(* GnrlFifo implements, all with CUT_READY.  One step is one edge of the   *)
(* BIU's clock, which runs only while the BIU says that it is active.      *)
(***************************************************************************)
EXTENDS Integers, Sequences

CONSTANTS
    Periph,   \* the peripheral regions: PPI, CLINT, PLIC, FIO
    Outs,     \* E203_BIU_OUTS_NUM, the depth of the arbiter's and the splitter's queue
    CmdDP,    \* E203_BIU_CMD_DP
    RspDP,    \* E203_BIU_RSP_DP
    CgStop    \* core_cgstop: the clock is never gated

ASSUME DepthAssumption == {Outs, CmdDP, RspDP} \subseteq Nat \ {0}
ASSUME RegionAssumption == {"mem", "ifuerr", "none"} \cap Periph = {}
ASSUME GateAssumption == CgStop \in BOOLEAN

Masters == {"lsu", "ifu"}
Regions == Periph \cup {"mem"}
Slaves  == Regions \cup {"ifuerr"}
Commands == [from : Masters, region : Regions]

VARIABLES
    arbQ,  \* u_sirv_gnrl_rspid_fifo of the arbiter: who asked
    cmdQ,  \* u_sirv_gnrl_cmd_fifo
    rspQ,  \* u_sirv_gnrl_rsp_fifo; a response is named by its command
    outs,  \* outs_cnt_r
    splQ,  \* u_sirv_gnrl_rspid_fifo of the splitter: who is to answer
    pend,  \* the slaves: accepted commands, not answered yet
    \* history: the last word accepted from and delivered to a master
    inp, out

vars == <<arbQ, cmdQ, rspQ, outs, splQ, pend, inp, out>>

Turn(port, w) == [word |-> w, odd |-> ~port.odd]

Init ==
    /\ arbQ = <<>> /\ cmdQ = <<>> /\ rspQ = <<>> /\ splQ = <<>>
    /\ outs = 0
    /\ pend = [s \in Slaves |-> <<>>]
    /\ \E c \in Commands : inp = [word |-> <<c.from, c>>, odd |-> FALSE]
    /\ out = inp

-----------------------------------------------------------------------------
(* Arbiter *)

Asks(req, m) == req[m] # "none"
\* the LSU has priority
Granted(req) == IF Asks(req, "lsu") THEN "lsu" ELSE "ifu"
\* (mutant) the arbiter's queue is not asked for room
IssuesOver(req) == Asks(req, Granted(req)) /\ Len(cmdQ) < CmdDP
Issues(req) == Asks(req, Granted(req)) /\ Len(arbQ) < Outs /\ Len(cmdQ) < CmdDP

\* A response goes to the master that the head of the queue names.
Delivers(take) == rspQ # <<>> /\ arbQ # <<>> /\ take

\* icb_buffer_active, biu_active: outs_cnt_r is one bit wide
Active(req) == outs # 0 \/ \E m \in Masters : Asks(req, m)

(* Splitter *)

\* A fetch from a peripheral region is answered with an error.
Target(c) == IF c.from = "ifu" /\ c.region \in Periph THEN "ifuerr" ELSE c.region

\* (mutant) commands to different slaves may be outstanding together
OpenAny == cmdQ # <<>> /\ Len(splQ) < Outs
\* ALLOW_DIFF is 0
Open == /\ cmdQ # <<>> /\ Len(splQ) < Outs
        /\ splQ # <<>> => Head(splQ) = Target(Head(cmdQ))

RspRoom == Len(rspQ) < RspDP

\* (mutant) the port is the slave of the command, whatever is outstanding
PortOfCommand == IF cmdQ # <<>> THEN Target(Head(cmdQ)) ELSE "none"
\* o_icb_rsp_port_id: with an empty queue that of the command, which may be
\* answered in the cycle in which it is accepted
Port == IF splQ # <<>> THEN Head(splQ)
        ELSE IF cmdQ # <<>> THEN Target(Head(cmdQ)) ELSE "none"

\* A slave takes the command; the error slave when its answer is taken.
Sends(ready) ==
    Open /\ LET s == Target(Head(cmdQ))
            IN  IF s = "ifuerr" THEN Port = "ifuerr" /\ RspRoom ELSE ready

\* Commands a slave holds in this cycle, with the one it has just taken.
Held(ready, s) == IF Sends(ready) /\ Target(Head(cmdQ)) = s
                  THEN Append(pend[s], Head(cmdQ)) ELSE pend[s]

\* A slave answers what it holds in some cycle; the error slave at once.
Answers(ready, reply) ==
    /\ RspRoom /\ Port \in Slaves /\ Held(ready, Port) # <<>>
    /\ reply \/ Port = "ifuerr"

\* A queue after a pop and a push in one cycle
After(q, pop, push, x) ==
    LET rest == IF pop THEN Tail(q) ELSE q IN IF push THEN Append(rest, x) ELSE rest

\* (mutant) the slave of a command answered at once is queued all the same
SplQNextQueued(wen, ren, s) == After(splQ, ren /\ splQ # <<>>, wen, s)
SplQNext(wen, ren, s) ==
    LET bypass == splQ = <<>> /\ wen /\ ren
    IN  After(splQ, ren /\ ~bypass /\ splQ # <<>>, wen /\ ~bypass, s)

\* (mutant) the counter follows the splitter's side of the buffer
CountsSplit(issue, send, answer, deliver) ==
    IF issue # answer THEN (IF issue THEN (outs + 1) % 2 ELSE (outs - 1) % 2) ELSE outs
Counts(issue, send, answer, deliver) ==
    IF issue # deliver THEN (IF issue THEN (outs + 1) % 2 ELSE (outs - 1) % 2) ELSE outs

-----------------------------------------------------------------------------
\* One clock.  req are the masters' commands; take says that the master the
\* next response is for is ready for it, ready that the slave the next command
\* is for takes it, and reply that the slave whose turn it is answers.
Clock(req, take, ready, reply) ==
    LET m == Granted(req)
        c == [from |-> m, region |-> req[m]]
        issue == Issues(req)
        deliver == Delivers(take)
        send == Sends(ready)
        answer == Answers(ready, reply)
    IN  /\ CgStop \/ Active(req)
        /\ arbQ' = After(arbQ, deliver, issue, m)
        /\ cmdQ' = After(cmdQ, send, issue, c)
        /\ rspQ' = After(rspQ, deliver, answer,
                         IF answer THEN Head(Held(ready, Port)) ELSE c)
        /\ splQ' = SplQNext(send, answer, IF send THEN Target(Head(cmdQ)) ELSE "none")
        /\ outs' = Counts(issue, send, answer, deliver)
        /\ pend' = [s \in Slaves |-> IF answer /\ Port = s THEN Tail(Held(ready, s))
                                     ELSE Held(ready, s)]
        /\ inp' = IF issue THEN Turn(inp, <<m, c>>) ELSE inp
        /\ out' = IF deliver THEN Turn(out, <<Head(arbQ), Head(rspQ)>>) ELSE out

Requests == [Masters -> Regions \cup {"none"}]

Next == \E req \in Requests, take, ready, reply \in BOOLEAN : Clock(req, take, ready, reply)

Spec == Init /\ [][Next]_vars

\* The clock runs while it is not gated, and each slave takes a command and
\* answers, and each master takes a response, now and again.
Accepting == \E req \in Requests, take, reply \in BOOLEAN : Clock(req, take, TRUE, reply)
Replying  == \E req \in Requests, take, ready \in BOOLEAN : Clock(req, take, ready, TRUE)
Receiving == \E req \in Requests, ready, reply \in BOOLEAN : Clock(req, TRUE, ready, reply)
FairSpec == Spec /\ WF_vars(Accepting) /\ WF_vars(Replying) /\ WF_vars(Receiving)

-----------------------------------------------------------------------------
(* Properties *)

TypeOK ==
    /\ arbQ \in Seq(Masters) /\ Len(arbQ) <= Outs
    /\ cmdQ \in Seq(Commands) /\ Len(cmdQ) <= CmdDP
    /\ rspQ \in Seq(Commands) /\ Len(rspQ) <= RspDP
    /\ splQ \in Seq(Slaves) /\ Len(splQ) <= Outs
    /\ outs \in {0, 1}
    /\ pend \in [Slaves -> Seq(Commands)]

\* All that is outstanding below the splitter is with one slave.
Below == IF splQ = <<>> THEN <<>> ELSE pend[Head(splQ)]
Flight == rspQ \o Below \o cmdQ

\* The two queues of identities are those of the commands on their way: the
\* arbiter's holds their masters in order, the splitter's the slave of those
\* it has sent, and no other slave has anything to answer.
Routed ==
    /\ arbQ = [k \in 1 .. Len(Flight) |-> Flight[k].from]
    /\ splQ = [k \in 1 .. Len(Below) |-> Target(Below[k])]
    /\ \A s \in Slaves : pend[s] # <<>> => splQ # <<>> /\ Head(splQ) = s

\* What the masters see is one channel: every command is answered once, in
\* the order of acceptance, to the master that asked and by the slave that
\* was asked, although answers may come in the cycle of the command.
Contents == [k \in 1 .. Len(arbQ) |-> <<arbQ[k], Flight[k]>>]
Chan == INSTANCE Channel WITH chan <- Contents, Data <- Masters \X Commands,
                              Capacity <- Outs, Bypass <- FALSE
IsChannel == Chan!Spec

\* While anything is on its way the BIU asks for its clock, without the help
\* of a new request: otherwise its clock would be gated with an answer inside.
StaysAwake == arbQ # <<>> => outs # 0

\* Every accepted command is answered.
Answered == \A b \in BOOLEAN : arbQ # <<>> /\ out.odd = b ~> out.odd = ~b

=============================================================================
