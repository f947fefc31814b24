# The E203 NICE CNN accelerator, specified

This directory holds TLA+ specifications of the repository's accelerator, a
CNN engine (`rtl/e203/subsys/e203_subsys_nice_core.sv`) on the NICE
coprocessor interface of a Hummingbird E203 RISC-V core, of the parts of the
core it depends on, and of the multi-core programs of the test suite.  TLC
model-checks the specifications on the instances named below; TLAPS proves the
theorems of the `_proof` modules for all parameters (those on the systolic array at
the dimensions of the hardware).  Paths are relative to the
repository; *NC* is the accelerator's file and `core/`, `general/` ... are the
directories under `rtl/e203/`.

`PROJECT.json` lists the components, the runs, the mutated definitions each
property was tried against, the source lines of every definition, the
hazards and the theorems.

## 1. The system

A program (`c/main.c`) loads the weights of four layers with four custom
instructions, then classifies images with one custom instruction each and
compares the class with that of a C implementation of the same network
(`c/insn.c`, `normal_cnn`).

    fetch -> decode -> dispatch ----> ALU, AGU -------> commit, write-back
                          |            |                      ^
                          | OITF       v                      | in order
                          |        LSU port <---- NICE memory |
                          +------> NICE request               |
                                       |     accelerator      |
                                       +----> NICE response --+

### Inventory

| Component | State it keeps | Operations | Interacts through | What is hard | What makes it correct |
|---|---|---|---|---|---|
| Accelerator, control (NC 80-720, 1466-1597) | FSM of 14 states, three block counters, per loader a counter, a write pointer and a buffer, address accumulator | accept an instruction, load words, MOVE and CAL passes, answer | NICE request/response, ICB memory port | memory latency and stalls against two counters; stop conditions split over several `always` blocks; error and answer in the same cycle | every word is read once and stored where it belongs; every accepted load ends and is answered once |
| Accelerator, array (NC 657-1464, `PE.sv`, `systolic_array_10_5.sv`) | 50 PEs, about 30 index registers, the feature maps | one clock | the control's counters | staggered indices, wraps, accumulators initialised long before use, state left by the previous image | each output is the sum the reference computes |
| Accelerator, numerics (NC 1183-1273, 1454-1462) | maximum and its index | quantise, pool, compare | the array | signed 8-bit constants, order of pool and clamp, ties | the same bytes and the same class as the reference |
| Dispatch, OITF, write-back (`core/e203_exu_disp.v`, `_oitf.v`, `_longpwbck.v`, `_wbck.v`) | OITF entries and pointers | dispatch, retire | valid/ready to every unit | set and clear in one cycle, units answering out of order, OITF full | an instruction retires once, in order, into its own register; dependent instructions wait |
| NICE interface (`core/e203_exu_nice.v`) | queue of four tags | push with the request, pop with the answer | dispatch, long write-back | the queue's ready is ignored; the accelerator's answer lasts one cycle | no answer is missed or taken for another instruction's |
| LSU and AGU (`core/e203_lsu_ctrl.v`, `e203_exu_alu_lsuagu.v`) | one outstanding command, AMO state machine, reservation | load, store, AMO | ICB to DTCM, ITCM, BIU; NICE memory port | who may take the port; answers held until write-back | no deadlock among accelerator, port and write-back |
| Fetch and branch prediction (`core/e203_ifu*.v`) | PC, instruction register, leftover buffer, state of the access, outstanding flag | fetch, flush, halt | ITCM and BIU, which the LSU uses too; flush and halt handshakes with commit | unaligned fetch over two responses, or over one and the RAM's held output; flush racing a response; bypass buffer against deadlock; waking from a halt | the instruction at dispatch is the one at its PC; fetch blocks neither LSU nor halt |
| Commit, exceptions, CSRs (`core/e203_exu_commit.v`, `_excp.v`, `_branchslv.v`, `_csr.v`) | CSRs, WFI flag | commit, trap, return | flush and halt handshakes | priority of simultaneous causes, long-pipe errors, debug | traps are precise |
| Multiplier/divider (`core/e203_exu_alu_muldiv.v`) | 17- and 33-cycle sequencer | multiply, divide, remainder | shares the ALU data path | corrections after the last cycle, back-to-back reuse | the RISC-V result |
| TCM controllers, RAMs (`core/e203_*tcm_ctrl.v`, `general/sirv_sram_icb_ctrl.v`) | one pipeline stage | read, write | ICB | arbitration of LSU, external bus and fetch | one answer per command, in order |
| BIU and fabric (`core/e203_biu.v`, `fab/`) | arbiter and splitter FIFOs | route | ICB | responses of different slaves | an answer goes to the master that asked |
| General library (`general/sirv_gnrl_bufs.v`, `sirv_gnrl_icbs.v`) | FIFOs, stages, arbiters, clock crossing | push, pop, route | valid/ready | full and empty at once; asynchronous clocks | order kept, nothing lost or duplicated |
| Debug, JTAG (`debug/`) | debug RAM, mailbox | halt, step, access | clock crossing | two clock domains | - |
| Always-on domain, PLIC, CLINT, QSPI, UART, GPIO, I2C (`perips/`) | registers | register access | ICB, APB | generated or vendored code | - |
| Clock generation (`subsys/e203_subsys_hclkgen*.v`, `_gfcm.v`) | dividers, glitch-free mux | switch | asynchronous | below the level of clocked steps | - |
| Multi-core programs (`riscv-tools/riscv-tests/mt`, `benchmarks/common/util.h`, `mt-matmul.c`, `mt-vvadd.c`) | `sense`, `count`, each core's `threadsense`, the result matrix, a shared copy of B | `barrier`, 44 `matmul`, 5 `vvadd`, `verify`, `exit` | shared memory | every interleaving of cores at different speeds; a barrier used again at once; blocks that must not overlap, leave nothing out and survive remainders | nobody leaves a barrier early or stays in it; no two cores on one cell; every product in its cell once |
| Training scripts (`python/`), test benches, FPGA, single-core benchmarks | none at run time | - | - | - | - |

The hazards this leads to, each at its line and with the properties aimed at
it, are in `PROJECT.json`.

## 2. The modules

| Module | Models | Step |
|---|---|---|
| `NiceCore` | the accelerator's control and its two channels | one edge of `nice_clk` |
| `NiceService` | what the instruction set promises, abstractly | one load, one tile, one answer |
| `NiceArray` | the systolic array and every index register around it | one edge of `nice_clk` |
| `NiceQuant` | the arithmetic of the two programs | one output, one score |
| `NiceSystem` | dispatch, OITF, tag queue, write-back and LSU port, composed with `NiceCore` | one edge of the core's clock |
| `Biu` | arbiter, buffer and splitter of the bus interface unit | one edge of the BIU's clock |
| `GnrlFifo` | the library's FIFO, pipe stage and bypass buffer | one clock |
| `Cdc` | the four-phase clock crossing | an edge of one clock, or of both |
| `Channel` | what a queue promises, abstractly | words taken in and handed out |
| `Ifetch` | fetch, its bus adapter, and ITCM and BIU as it shares them with the LSU | one edge of the core's clock |
| `Barrier` | the sense-reversing barrier of `util.h` | one access to shared memory |
| `Rendezvous` | what a barrier promises, abstractly | a core arrives, a core passes |
| `MtPrograms` | the matrix products and vector sums: who touches which cells between which barriers | (operators) |
| `Mt` | cores that run such a program and meet in `Barrier` | a stretch of code begins, ends; an access of the barrier |
| `NiceCore_proof`, `NiceQuant_proof`, `NiceComposed_proof`, `GnrlFifo_proof`, `Cdc_proof`, `Biu_proof`, `Ifetch_proof`, `Mt_proof` | theorems (those on `Barrier` are in `Mt_proof`, those on `NiceSystem` and `NiceArray`, the two compositions of `NiceCore`, in `NiceComposed_proof`) | |
| `MC*` | instances for TLC | |

### NiceCore

The state variables carry the names of the registers; the five loaders' and
the four layers' registers are functions from `Loads` and `Layers`.  The FSM
state is `phase` (IDLE, LOAD, MOVE, CAL) and `layer`.  A byte of memory is
represented by its address, so a buffer remembers where each of its bytes came
from.  Each action is a whole clock cycle in one kind of state and performs what
every `always` block of the file does in it:

| Action | Cycle |
|---|---|
| `Accept`, `AcceptIllegal` | IDLE with a request: a decoded load goes with its first memory command; any other instruction is taken and leaves no trace |
| `LoadWait`, `LoadBeat`, `LoadDone` | LOAD_x without a response, with a stored response, with the response that ends the load |
| `Move` | MOVE_x |
| `CalCount`, `CalDone` | CAL_x before and in its last cycle: next block, next layer, or answer |

The inputs `v` (a response arrives), `r` (the port is ready) and `e` (the
accepted command will be answered with an error) are chosen within what the
LSU offers: one outstanding command, a response `MinLatency` to
`MaxLatency[op]` cycles after its command, depending on where the program keeps
the data of that load.  History variables: `rs1`, `first`, `beats`, `owed`,
`illegal`.

### NiceService

Four weights, one image and a tile counter: a load fills what is empty, an
image goes through every tile, each in two parts, and is answered.
`ImplementsService` states that `NiceCore` under the mapping `Service` is a
behaviour of it: the loaders, the FSM loop and three block counters together
count the tiles in order.

### NiceArray

The datapath at its real dimensions, with products, sums, pools and
quantisations as symbolic terms that name their operands (image pixel, weight
index, and the biases of conv2 and fc1; those of conv1 and fc2, one constant per
channel or class, are left out and no property is about them).  One step is one clock of MOVE or CAL and moves every register of
the array, the index registers, the accumulators and the feature maps.  The
references (`RefConv1`, ...) are translated from `normal_cnn`; the invariants say
that when a layer ends its outputs are those terms.  The model runs two
different images in turn, so what the first leaves behind meets the second.

### NiceQuant

The numeric functions of both sides on integers of the registers' widths:
scaling by sums of shifts, clamping, the 8-bit registers (with the signed
constant 255), pooling before or after, and the running maximum.

### NiceSystem

`NiceSystem` extends `NiceCore`: its clock is one `NiceCore` action (or none,
when the accelerator idles with its clock gated) together with the step of the
core.  The core's next instruction is any of a set: a one-cycle instruction, a
CSR instruction or fence, a load or store, a custom instruction.

| Definition | Code |
|---|---|
| `Dep`, `AluGoes`, `AguGoes`, `NiceGoes` | `disp_condition`, the interlock with the OITF, and the readiness of the unit |
| `LsuFree`, `PortReady` | one command at the splitter stage, arbiter with the accelerator first, `nice_mem_holdup` |
| `SelLsu`, `SelNice`, `Retires`, `WritesBack` | in-order write-back by `itag`, its priority over the ALU |
| `OitfStep`, `ItagStep`, `AguStep` | entries and pointers, tag queue, outstanding access |

`flight` is a history: the dispatched long instructions in program order.

### Channel, GnrlFifo, Cdc, Biu

`Channel` is a queue of at most `Capacity` words with a word accepted and a word
delivered last, each with a bit that turns with every word, so that a word
accepted twice in a row or lost between two equal ones shows.  `Bypass` allows a
word to pass while the queue is empty.  Three modules implement it, each with
the same two history variables and a `Contents` that maps its registers:

- `GnrlFifo`: registers, two pointers and the thermometer vector `vec` that tells
  full and empty (`general/sirv_gnrl_bufs.v`).  A clock is `Clock(iVld, d, oRdy)`;
  `Ready` and `Through` are the two ready rules and the bypass around the FIFO.
- `Cdc`: `TxTick` and `RxTick` are a clock of transmitter and receiver.  The
  ticks come in any order or together, which is what a synchroniser's first flop
  resolves to when it samples a changing level.
- `Biu`: the arbiter's queue of masters, the command and response FIFOs, the
  splitter's queue of slaves, and `outs_cnt_r`, one bit wide as declared.  `Clock` is
  enabled only while `biu_active` or `core_cgstop` opens the clock gate.  Masters
  and slaves are chosen freely; the slave for fetches from a peripheral region
  answers in the cycle of the command.  The FIFOs are sequences here, which
  `GnrlFifo_proof` justifies.

### Ifetch

A halfword's contents are its address (an LSU access leaves `Junk` on the bus),
and the program says which halfwords begin a 32-bit instruction or a jump, so a
halfword out of place shows in the instruction register.  A clock is
`Clock(in)`, where `in` says what the other units do: dispatch, flush, start a
load, take an answer, answer on the bus, keep a jalr waiting, commit a WFI, wake.

| Definition | Code |
|---|---|
| `Wires` | the handshakes of the clock, from `ifu_req_valid` to `ifu_icb_cmd_ready` |
| `Pending`, `InstructionRegister`, `ProgramCounter` | `e203_ifu_ifetch.v` |
| `Need`, `IcbState`, `IcbRequest`, `Leftover`, `RspBuffer` | `e203_ifu_ift2icb.v`: same lane or not, held output or not, one access or two, leftover, bypass buffer |
| `Itcm`, `Bus` | the ITCM with its command buffer, stage and holdup flag; the BIU with one transaction |
| `Commit`, `Possible`, `LoadFails` | which flushes and halts `e203_exu_excp.v` can produce: during a halt only the flush of a load that the bus answers with an error (the TCMs never do, `nice` errors do not flush) |

`arch` is a history: the PC of the instruction next to be dispatched.  The
properties relate it to instruction register and PC.

### Barrier, Rendezvous, MtPrograms, Mt

`Barrier` has one action per access to `sense` and `count` (the fetch-and-add is
one).  It implements `Rendezvous`, where a core passes when all have arrived.

A program of `MtPrograms` is, for each core, a sequence of stretches with a
`barrier()` between one and the next; a stretch is a set of tiles of the loop
nest, with the operation (`add`, `set`, through the shared copy of B or not,
copy, verify).  What a loop overshoots when its step does not divide its range
is kept, what is unrolled is not.  `Mt` lets each core begin and end its
stretches at its own speed, so that two are at work together whenever the
barriers allow it, and collects the tiles that have gone into C.

## 3. Runs

| Run | Instance | Shows |
|---|---|---|
| `nice_slow` | buffers of 4 to 9 bytes, 1 to 3 blocks, latency 1 to 3 (fc1 and fc2: 1), two base addresses, errors, one undecoded instruction | words, buffers and answers for all five loads in any order, repeated; one answer per load; the refinement of `NiceService` |
| `nice_array` | real dimensions, a TCM, all weights and two images | each layer's outputs are the reference's terms |
| `nice_quant` | accumulators around every step and clamp, three scores with ties | both programs compute the same bytes and the same class |
| `nice_system` | one-word buffers, one block per layer, two OITF entries, four tags, latencies up to 2 (accelerator) and 4 (core) | in-order retirement, each answer to its own instruction without an undecoded one and to an older one's entry with one, the OITF's agreement with what is outstanding, no deadlock, no missed answer |
| `fifo` | bypass buffer of depth 3, two values | the pointers and the vector agree, and the buffer is a channel |
| `cdc` | two values, synchronisers of two flops as instantiated | the four phases, a channel of two words, and that every word gets through |
| `biu` | as configured: one outstanding, FIFOs of one, gated clock; two peripheral regions | the BIU never stops its own clock with an answer inside, answers everything, and each answer goes to the master that asked, from the slave that was asked |
| `ifetch` | two lanes of ITCM and two words of memory, one with a bus error; two programs with 32-bit instructions at every position of a lane and jumps between both memories | the instruction register always holds the right instruction, PC and error; a load is served and a halt acknowledged although nothing is dispatched any more; nothing is under way once it is, unless a load fails after the WFI |
| `mt` | two cores; 42 of the 44 products and the five sums, each at the smallest size that reaches all its loops, those written for 32 at 32 | no race, each product in its cell once when the result is verified, a true rendezvous, and every core comes to its exit |
| `nice_fc_slow` (violation) | a memory of latency 2 | finding 1 |
| `fence_undecoded` (violation) | four undecoded instructions | finding 2 |
| `ifetch_wfi` (violation) | as `ifetch`, with a WFI that ends without a trap | finding 3 |

**Why the bounds are enough.**  `nice_array` runs the control, too, without any
reduction; a second image is what it takes to see what the first leaves behind, and the theorems
cover any number.  The small instance of `nice_slow` keeps what the code distinguishes: buffers that end
in the middle of a word (5, 9) and at its end (8, 4), one and more than one
block per layer, latencies below, at and above the one the loaders were written
for, and a second load of everything.  `BeatBound` bounds the history `beats`
at two more than the counter, so an extra word is seen.  `MaxIllegal` bounds the
undecoded instructions; for the OITF's overflow four suffice as its pointers
count modulo four.  In `nice_quant` the scaling functions are piecewise constant
with steps and clamps among the chosen accumulators; the theorems cover all of
them.  In `nice_system` one word per buffer is enough to have the accelerator
want the port in two successive cycles, and one register to have every kind of
dependence.  A FIFO of three has a pointer that wraps where it is no power of two,
a middle entry, and every pair of wraps; the theorems cover all depths, as they
do all lengths of the synchronisers; the ready rule of depth 1 is covered by the
theorem alone.  `biu` has the depths the design is built with
(`core/e203_defines.v` 741-790).  In `ifetch` a lane has its four halfwords; a
sequence of three lanes brings nothing that two lanes fetched in a circle do not,
as the adapter remembers one lane.  `FlushesInRow` bounds flushes between two
dispatched instructions at two, so that one meets the delayed flush of another.
`mt` has the two cores of `mt/Makefile` (`spike -p2`); many of the 44 programs
have the same tiles, and TLC sees them as 32 different codes.  What holds of the
barrier for any number of cores is proved.

**Fairness.**  `FairSpec` of `NiceCore` assumes that a busy accelerator is
clocked: `nice_active` (NC 1597) is high in every state but IDLE and opens the
clock gate.  Nothing is assumed of new requests.  The memory answers within
`MaxLatency` by the guard `RspValid`, not by fairness.  `NiceSystem` assumes that
the core's clock runs.  The TCM controllers answer in the cycle after the
command (`general/sirv_1cyc_sram_ctrl.v`), which is latency one; larger ones
stand for memory behind the BIU.  `Cdc` assumes that the transmitter's clock
ticks and that the receiver's user takes what it is offered now and again: the
clocks run freely, and the debug module takes a request as soon as the debug RAM is
not accessed and its last response has left.  `Biu` assumes that slaves accept and answer and masters take their
response now and again, but the clock only while the gate is open: `Clock` is not
enabled otherwise, so weak fairness says nothing of it.  `Ifetch` assumes that
clocks come in which the LSU takes its answer and the bus moves on (`Quiet`), and
nothing about dispatch, flushes or waking: what is waited for may not depend on
them.  In `Mt` every core is a hardware thread and makes its next step in the end;
memory is sequentially consistent, as in the simulator the programs run on.

## 4. Findings

1. **fc1 and fc2 need a one-cycle memory** (`nice_fc_slow`, NC 493).  Their
   counters are cleared when full, not with the last response; with two cycles of
   latency the load restarts and never ends.
2. **Undecoded custom instructions** (`fence_undecoded`, `core/e203_exu_disp.v`
   223): they are accepted and never answered, dispatch does not ask the OITF for
   room, and four of them make it look empty, so that a fence passes.  One is enough
   to shift the answers: the next custom instruction's answer takes the tag at the head
   of the queue (`core/e203_exu_nice.v` 106), the undecoded one's, retires that entry and
   writes that one's register.  Its own entry is left for the answer after, and so on;
   its own answer never reaches its own register.  `RetiresInOrder` says so in both
   cases: an answer is for the custom instruction dispatched last, and this is the
   one it retires exactly when no undecoded one was issued.
3. **Fetch after a WFI that ends in place** (`ifetch_wfi`,
   `core/e203_ifu_ifetch.v` 432).  During the halt the waiting response moves from
   the bypass buffer into the empty instruction register (line 498) without a
   request following it.  When the core wakes without a trap, as it does with
   `mstatus.MIE` clear, the next PC adds the length of whatever is on the bus at
   that time: half of an instruction that lies across two lanes, or data of the
   LSU.  Fetch goes on in the middle of the next instruction or behind it.

Remarks, on what no run is spent on:

- `CHECK_1HOT_FLUSH_HALT` (`core/e203_exu_commit.v` 334-340: "This should never
  happen") is not what the code does.  A WFI is dispatched with loads outstanding
  (`core/e203_exu_disp.v` 203-223).  If the bus answers one with an error, the flush
  is requested under the halt (`core/e203_exu_excp.v` 193, 245; `core/e203_exu_commit.v`
  307) and fetch starts an access while it acknowledges that halt
  (`core/e203_ifu_ifetch.v` 483).  `Possible` allows it, and `HaltQuiet` says what is left.
  `Ifetch` has fetch's clock in every step, as with `core_cgstop`.  The code stops it with
  `core_wfi` (`core/e203_clk_ctrl.v` 77), two clocks after the acknowledgement
  (`core/e203_exu_excp.v` 135-148).  Where nothing is under way, all that changes in fetch
  is that an answer in the bypass buffer moves to the empty instruction register, in
  the last clock before the stop; with a jalr waiting it moves after it, which the model
  has too, as `wait` may last as long as the halt.  After such a flush an access may be under way in the BIU or have
  its second word to come; its answer then finds fetch without a clock.
  The exception also clears `mstatus.MIE`, so that an interrupt ends this WFI in
  place (finding 3); with `WakeInPlace` false, a debug request ends it.
- `nice_icb_cmd_valid` falls when the load counter is full, also when the command
  on offer has not been accepted (NC 378; `doc/source/core/core.rst` 328 has the
  signals wait for ready).  If the port is not ready in that cycle the load waits
  for ever.  `PortIsOwn` shows that the core's own loads and stores cannot cause
  this; a port kept waiting by the BIU can.
- `nice_rsp_err` is that of the last word only (NC 1552): an error on an earlier
  word, and any of an image, never reaches the answer.
- `nice_mem_holdup` rises a cycle after the first command of a load (NC 1590).
  `PortIsOwn` shows that this does no harm, since the dispatch of the custom
  instruction occupies that cycle.
- `outs_cnt_r` is declared one bit wide whatever `OUTS_CNT_W` is
  (`general/sirv_gnrl_icbs.v` 488), so `StaysAwake` holds for one outstanding
  command only: `Biu` with `Outs` and the depths at 2, as a comment in
  `core/e203_defines.v` 736 offers, has its clock gated with two answers to come.
  The built configuration is not affected.
- After a flush that finds the instruction register empty, `ir_pc_vld_r` stays
  set with the old PC for a cycle (`core/e203_ifu_ifetch.v` 231, against the
  comment in `core/e203_exu_excp.v` 201); an interrupt or debug request taken in
  that cycle would save it.  `PcSettled` is stated for the clocks after.
- `cf_matmul.c` (47) and `cm_matmul.c` (44) share out the products of one cell
  and add to C without a lock: `NoRace` fails for them, and they are not in the
  run.
- `vvadd1.c` (12) writes behind the end of the vectors unless their length is a
  multiple of eight times the cores, which the shipped length of 1000 is not.
- The products written for 32 give a wrong result in other sizes, among them the
  16 of the shipped data set of `mt-matmul`: those with 32 as a stride, and
  `at_matmul.c`, which transposes B with loops to 32 and the stride `lda` (121-127)
  and at 16 reads behind B into what it has already transposed; `ap_matmul.c` (16) leaves out rows
  when the cores do not divide them, and `vvadd0.c` (7) elements when the remainder is as
  large as a block.
- `barrier` has no fence between the reset of `count` and the turn of `sense`
  (`util.h` 55-56), which a weaker memory than the model's would need.

## 5. Proofs

`NiceCore_proof` proves, for every assignment of the constants that satisfies
the assumptions of `NiceCore` (any dimensions, latencies, base addresses and
stalls), that `Spec` implies `[]TypeOK`, `[]WordsInOrder`, `[]WeightsComplete`,
`[]ImageComplete`, `[]OneAnswer`, and that no command is outstanding outside a
LOAD.  The assumptions are that four times the counter's limit covers the buffer
(NC 99-108) and that addresses do not wrap during a load.

None of these is inductive alone.  The invariant is `IInv`:

- `AtRest`: outside LOAD nothing is outstanding and the counters are at rest;
  needed because a stray response would break every other part.
- `Counted`: in a LOAD the load counter never exceeds the number of responses
  and, but for the fully connected loaders (whose counter may start again), equals
  it.
- `WordsInOrder`: the address of the word in flight, so that what is stored next
  is known.
- `WeightsFilling`, `ImageFilling`: until the buffer is full its write pointer is
  four times the number of responses, and the image bytes below it are those of
  this load; with `Size <= 4 * CntCycles` the end of the load gives
  `WeightsComplete` and `ImageComplete`.
- `OneAnswer`: answers owed against FSM state.

The proof has one lemma per action and conjunct that the action can disturb.

`ReadsOneExtra` proves `ReadsOneExtraWord` with `InTime` as hypothesis: the port does
not stall the two fully connected loaders and answers them in one cycle, if the program
uses them.  Without it the property is false, which is finding 1; the other
loaders may have any latency and stalls.  `Timely` adds to `IInv` that the load counter equals the
number of responses, and that an fc load gets a response in every clock.

`Implements` proves the refinement of `NiceService` for all parameters.  `Marks` is
what it needs besides `IInv`: a buffer that holds a byte has been asked for, and
only the layer being computed stands between two blocks.  `FilledIs` and `ImageIs` then turn
the contents of the buffers, which the mapping looks at, into the addresses they were
loaded from, so that each action becomes an equation on registers; there is one lemma for
each action that is a step of `NiceService` (`AcceptMaps`, `LoadBeatMaps`,
`LoadDoneMaps`, `MoveMaps`, `CalDoneMaps`), and all others stutter.  `BlockCounts` says that
the tile counter goes on by one where a layer ends and the next one begins.

`NiceQuant_proof` proves `TypeOK`, `SameBytes` and `SameClass` for all
accumulators up to half of `MaxInt`, all zero points and every number of classes.  `Stored` says
the stored bytes are the reference's; it rests on lemmas that each scaling is
monotone and that clamping after a maximum is the maximum of the clamped.
`Champion` says that the register holds the first largest of the scores seen so
far, or its initial value before a larger one.

`GnrlFifo_proof` proves for every depth, both ready rules, with and without
bypass, that the vector and the two pointers agree on the number of words
(`Agreement`), and that the FIFO is a channel (`FifoIsQueue`).  `Agree` is inductive
with `TypeOK`: for each pair of handshakes, what happens to the count.  The
refinement maps a clock to accepting, delivering, both, passing, or a stutter; its
lemmas say that writing at the write pointer appends to `Words(n)` and that moving
the read pointer takes the tail.

`Cdc_proof` proves for synchronisers of any length that `FourPhases` is
invariant (`PhasesHold`) and that the crossing is a channel of two words
(`CrossingIsChannel`).  `FourPhases` is inductive with `TypeOK`: in each phase
one level has changed and its edge is on its way through the other chain, which the
lemmas on `Edge` and `All` carry through a shift.  The refinement crosses what
the transmitter does (accept or not) with what the receiver does (load, deliver,
neither).

`Biu_proof` proves for queues of any depth and any set of peripheral regions that
`Routed` holds (`Routing`) and that the unit is a channel (`BiuIsChannel`): each
command is answered once, in order, to the master that asked.  `Routed` is
inductive with `TypeOK` and `AtHome`, which says that a slave holds only commands
for it; without it the head of the splitter's queue would not name the slave that
holds the commands below.  The argument is that the commands on their way
(responses, those with the slave, commands) change only at their two ends: moving
the head of one queue to the end of the one before leaves their concatenation as
it is, also when a command is accepted and answered in one clock and the
splitter's queue is passed by.  `Awake` proves `StaysAwake` for `Outs = 1`, which
is what the core configures; deeper, the one-bit counter does not tell (section 4).

`Mt_proof` first proves for every number of cores that `Barrier` implements
`Rendezvous` (`BarrierRendezvous`).  The invariant `BInv` has two phases.
While the cores gather, `count` is the number of those that have arrived in the
present round: who is outside has yet to come, who spins has come or has yet to see
that the round before is over, and the last to come finds all others spinning.  When
it has cleared `count` and not yet turned the sense, all others spin in the same
round.  Counting needs that the cores inside are a finite set and that adding the
last makes it all of them.  `OutsideTogether` follows: two cores outside
the barrier have passed it equally often.

It carries both over to the whole programs (`MtRendezvous`) and reduces what
a run of a program does to what its text says:

- `RaceFree`: a program whose stretches of one number do not conflict (`Apart`)
  has no race however fast the cores are.
- `RightResult`: if the text is `Whole`, `Result` holds.  `Whole` asks for stretches of
  equal number on all cores, copies made before they are used, nobody else writing while a
  core reloads or verifies C, and that the tiles written before a verification, since the last
  reload, are a partition of the loop nest.  The invariant is `Books`: C is exactly
  what the finished stretches have brought since the last finished one that
  reloaded it (`Booked`), and the copies of all finished stretches are there
  (`Provided`).  `Level`, which the barrier gives, is why this is enough: when a
  core is at work, all earlier stretches of all cores are finished and no later one is,
  so the contents of C, which depend on the interleaving, are then a function of the text.

`Apart` and `Whole` quantify over the text only.  TLC has evaluated both to true for all
programs of `MCMt`, and `Ledger` and `CopiesThere`, which are `Books` with finite
bounds, on all states of that run; the run itself checks `NoRace` and `Result` directly.

`Ifetch_proof` proves the four invariants of `Ifetch` for every program, every border
between ITCM and memory, every set of erroneous words and any number of flushes.  The only
assumption on programs is that jump targets are addresses (`ProgramAssumption`).  There
are two layers.

- `Access` holds of every core.  `Shape` says what is under way in each state of the
  bus adapter: outside `1ST` and `2ND` nothing, in them one access, which is in
  exactly one place (command buffer, RAM stage, bus), and the bypass buffer is full only when
  the adapter is idle.  `Halting` says what a halt, a delayed flush and the reset exclude:
  an acknowledged halt finds the adapter idle and goes on doing so, until a load fails
  and its flush fetches from the new PC, which nothing is dispatched from
  (`flushes > 0 /\ pc = arch`).  `OneAccess` and `QuietHalt` follow.
- `Fetch` adds `Stream`.  What is in the instruction register is right, and the request that
  is out is for the instruction after it.  `Engine` says what the latter means in
  each state of the adapter: the leftover is the first half of what crosses into the next word, the
  access under way is for this word or the next, and, as the last part, the RAM's
  output is not taken for a lane it does not hold, although the LSU may have read in
  between (`Kept`).  Without that part the invariant is not inductive: the next
  sequential request might do without an access on the strength of the holdup flag.
  `RightInstruction` and `SettledPc` follow.

`Fetch` is proved with `~WakeInPlace` as hypothesis: a WFI ends in a trap or debug halt.
Where it ends in place, `InstructionRight` is false (finding 3).  `Steady` excludes
exactly the states in which the outstanding request is going to be flushed and its PC
means nothing.

`NiceComposed_proof` proves of `NiceSystem` `Tracked`, `AnswerTaken`, `RetiresInOrder`, `Interlocked`
and `PortIsOwn` for every depth of the OITF and of the queue of tags, every program
and every latency of the two kinds of access.  It assumes `Roomy`: fewer undecoded
custom instructions than either queue has places.  Such an instruction is never
answered and keeps its places for good, and dispatch gives a custom instruction an
entry without asking whether there is one; where all are decoded
(`c/insn.h`) it asks for nothing beyond the two entries the OITF has.  The run's constants satisfy it with one undecoded instruction.  The invariant
adds `SysInv` and `Own` to `IInv`:

- `Entered`: the entries from `ret` to `alc` are those of `flight`, in its order, and no
  other is valid.  A pointer with its flag is a number modulo twice the depth; `Behind`
  and `AtNext` are the arithmetic that this takes for depths that are no powers of two.
- `Placed`: at most one of them, the `p`-th, is a load or store, and the port has its
  tag; the queue holds the tags of all others, oldest first; its length is `owed`.
- in the same place: while the accelerator works `p` is not 1.  This is what
  `AnswerTaken` stands on.  An accepted load finds the port free or its access retiring,
  so that all before it are undecoded or it is itself the oldest; a load or
  store dispatched later comes behind it.  So the oldest has its tag at the head of the
  queue and the single cycle of the answer is not missed.
- `Own`: while the accelerator works, the last of its entries is that of the instruction it
  executes.  Nothing retires and no custom instruction enters before its answer.  With
  the length of the queue, one tag for it and one for each undecoded instruction, it is
  the oldest exactly when there is none of these (`LastRuns`), which is the part of
  `RetiresInOrder` about whose answer retires what.

The clock is one lemma (`CoreStep`) about the accelerator, one about what
retires (`Retirement`), and then the three things that can enter: a load or store, a
custom instruction, nothing.  `PortIsOwn` needs in addition that no access of the core
is at the port during a load (`PortFree`), which turns the port's ready into that of
`NiceCore` without stalls.

`NiceComposed_proof` also proves of `NiceArray` `Conv1Right`, `Conv2Right`, `Fc1Right`
and `ResultRight`.  There are two hypotheses.  `Dimensions` fixes the sizes, rows,
cycles and blocks of the hardware, which `NiceArray` is written for.  `LoadsFirst`
says of the driver's program that its first four instructions load the four weights,
as `nice_load_weights` does before `main` classifies an image.  The run's constants
satisfy both.  The theorems then hold for every program that goes on from there with
any number of images, every base address and every memory latency, stall and error.
The run explores two images from a memory that answers in one cycle.

The results are right because of where every operand is in every cycle, and the
invariant `AInv` has to say so, added to `IInv` of the control and `Marks`:

- `Issued`, `Counters`: the weights of the instructions issued so far are complete, all
  four before an image is read, and a counter runs in its own state only.
- `PickInv`, `TopInv`, `FallInv`, `HeldInv`: in the n-th cycle of a MOVE the top of the
  array takes the weights of row 10 - n; every element holds the weight that is on its
  way to the row below, and, once the CAL begins, that of its own place.  A
  convolution uses nine of the ten rows, and the unused one passes zero down.
- `EnableInv`, `LeftInv`, `FlowInv`: the activation of slot k (a pixel of the output, or
  the one vector of a fully connected layer) is at the edge of row i in cycle
  k + i + 1 and in column j in cycle k + i + j + 2, where it meets the partial sum of exactly
  the rows above it (`PSum`).
- `SelInv`, `StoreInv`, `FcSelInv`: the index registers that choose activations and the places of
  results, all incremented and wrapped on their own, stand where the schedule needs them
  (`Walked`: at row r, column x of an image of width W after W r + x cycles).
- `Out1Inv`, `Out2Inv`, `OutFc1Inv`, `ResultInv`: each output holds the bias and the sums of as
  many channels, halves or comparisons as have left the array, nothing of the
  image before (which is cleared at the first cycle of CAL_CONV1, hence `Begun`), and its
  quantisation once the last is in.

None of `Conv1Right`, `Conv2Right` and `Fc1Right` is inductive, since each says nothing until its
layer is over.  A partial sum is a set of terms, and that of row i is that of the row above
and one product (`SumStep`), so that the sum over the rows needs one step per clock and
no induction over data.  TLC has evaluated every part of `AInv`, the two
hypotheses and `IInv` and `Marks` on all states of the run's instance.
`WeightsReady` and `WeightsInPlace` are two consequences worth knowing for themselves.

**Only model-checked:** the liveness properties (`Answered` of the accelerator and of
the BIU, `Drained`, `Progress`, `LsuServed`, `HaltAcked`, `Finishes`), because fairness and ENABLED are
out of the prover's reach, and that the programs' texts are `Apart` and `Whole`, which is
evaluation.

## 6. Not modelled

The components marked so in `PROJECT.json`.  Inside the modelled parts: reset
during operation, accelerator requests with the unit disabled, loads and stores
that fail, AMO instructions and the exclusive monitor; in fetch an external master
in the ITCM and stores into code.  In `NiceSystem` there are no flushes (a custom
instruction is handed over in the cycle it commits, so none is ever flushed) and
no WFI.  In the programs the order, registers and private arrays inside a tile, and
what stops the other cores once one has called `exit`.  The single-core benchmarks
and the instruction-set tests are third-party programs that run on the core, not
parts of it.

## 7. Plan

Done: `NiceCore` with `NiceService`, `NiceArray`, `NiceQuant`, `NiceSystem`; `Channel`
with `GnrlFifo`, `Cdc` and `Biu`; `Ifetch`; `Rendezvous` with `Barrier`,
`MtPrograms` and `Mt`; the proof modules.  Next, in this order:

1. `LsuAgu`: the AMO state machine and the exclusive monitor, composed into
   `NiceSystem` and its run.
2. `Commit`: exceptions, interrupts, WFI and debug halt against an abstract
   precise machine, in the place of `Possible` of `Ifetch`.
3. `MulDiv`: the sequential multiplier and divider against their definition.
4. The external master of the TCM controllers, `Plic`, round-robin arbitration and
   the clock mux.
