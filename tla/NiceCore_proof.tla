--------------------------- MODULE NiceCore_proof ---------------------------
(***************************************************************************)
(* Proofs about NiceCore, for every size of buffer and array, every memory *)
(* latency and every ability of the port to stall.                         *)
(***************************************************************************)
EXTENDS NiceCore, TLAPS

-----------------------------------------------------------------------------
(* What one cycle does to the port, to a counter and to a buffer. *)

\* The port's registers keep their types: the address accumulator wraps.
LEMMA PortTyping ==
    ASSUME NEW v \in BOOLEAN, NEW c \in BOOLEAN, NEW a \in Nat, NEW e \in BOOLEAN,
           PortOK, pendErr \in BOOLEAN, PortCycle(v, c, a, e)
    PROVE  PortOK' /\ pendErr' \in BOOLEAN
  <1>1. PortOK'
    BY RequestAssumption DEF PortOK, PortCycle, Wrap
  <1>2. pendErr' \in BOOLEAN
    BY DEF PortCycle
  <1>3. QED BY <1>1, <1>2

\* A load counter stays between 0 and its number of cycles.
LEMMA CounterTyping ==
    ASSUME NEW op \in Loads, NEW v \in BOOLEAN, LoaderOK,
           loadCnt' = [loadCnt EXCEPT ![op] = NextCnt(op, v)]
    PROVE  loadCnt' \in [Loads -> Nat] /\ \A o \in Loads : loadCnt'[o] <= CntCycles[o]
  <1>1. /\ loadCnt \in [Loads -> Nat] /\ \A o \in Loads : loadCnt[o] <= CntCycles[o]
        /\ CntCycles \in [Loads -> Nat \ {0}]
    BY CyclesAssumption DEF LoaderOK
  <1>2. NextCnt(op, v) \in Nat /\ NextCnt(op, v) <= CntCycles[op]
    BY <1>1 DEF NextCnt, CntDone
  <1>3. QED BY <1>1, <1>2

\* A stored word leaves a buffer a function on the same bytes.
LEMMA WordTyping ==
    ASSUME NEW N \in Nat, NEW f \in [0 .. N - 1 -> Int], NEW p \in Int, NEW w \in Nat
    PROVE  [i \in 0 .. N - 1 |-> IF i \in w .. w + 3 THEN p + (i - w) ELSE f[i]]
             \in [0 .. N - 1 -> Int]
  OBVIOUS

\* Storing a word keeps the write pointers natural and the buffers' shape.
LEMMA StoreTyping ==
    ASSUME NEW op \in Loads, LoaderOK, PortOK, Store(op)
    PROVE  /\ wptr' \in [Loads -> Nat]
           /\ DOMAIN buf' = Loads
           /\ \A o \in Loads : buf'[o] \in [0 .. Size[o] - 1 -> Int]
  <1>1. CASE wptr[op] < Size[op]
    <2> DEFINE word == [i \in 0 .. Size[op] - 1 |->
                          IF i \in wptr[op] .. wptr[op] + 3
                          THEN paddr + (i - wptr[op]) ELSE buf[op][i]]
    <2>1. /\ Size[op] \in Nat /\ buf[op] \in [0 .. Size[op] - 1 -> Int]
          /\ paddr \in Int /\ wptr[op] \in Nat
      BY SizeAssumption DEF LoaderOK, PortOK
    <2>2. word \in [0 .. Size[op] - 1 -> Int]
      BY <2>1, WordTyping
    <2>3. buf' = [buf EXCEPT ![op] = word] /\ wptr' = [wptr EXCEPT ![op] = @ + 4]
      BY <1>1 DEF Store
    <2> HIDE DEF word
    <2>4. wptr' \in [Loads -> Nat]
      BY <2>3 DEF LoaderOK
    <2>5. DOMAIN buf' = Loads /\ \A o \in Loads : buf'[o] \in [0 .. Size[o] - 1 -> Int]
      BY <2>2, <2>3 DEF LoaderOK
    <2>6. QED BY <2>4, <2>5
  <1>2. CASE ~(wptr[op] < Size[op])
    BY <1>2 DEF Store, LoaderOK
  <1>3. QED BY <1>1, <1>2

\* Clearing input_wptr keeps the loaders' types.
LEMMA RewindTyping ==
    ASSUME NEW op \in Loads, LoaderOK, Rewind(op) \/ UNCHANGED <<wptr, buf>>
    PROVE  /\ wptr' \in [Loads -> Nat] /\ DOMAIN buf' = Loads
           /\ \A o \in Loads : buf'[o] \in [0 .. Size[o] - 1 -> Int]
  BY DEF Rewind, LoaderOK

\* The part common to all cycles of a LOAD.
LEMMA LoadCycleTyping ==
    ASSUME NEW op \in Loads, NEW v \in BOOLEAN, NEW r \in BOOLEAN, NEW e \in BOOLEAN,
           TypeOK, LoadCycle(op, v, r, e)
    PROVE  /\ PortOK'
           /\ loadCnt' \in [Loads -> Nat] /\ \A o \in Loads : loadCnt'[o] <= CntCycles[o]
           /\ beats' \in Nat
           /\ pendErr' \in BOOLEAN
  <1>1. /\ (r /\ CmdValid(op)) \in BOOLEAN /\ maddr \in Nat /\ PortOK /\ LoaderOK
        /\ pendErr \in BOOLEAN
    BY DEF CmdValid, TypeOK, PortOK, FlagsOK
  <1>2. PortCycle(v, r /\ CmdValid(op), maddr, e)
    BY DEF LoadCycle
  <1>3. PortOK' /\ pendErr' \in BOOLEAN
    BY <1>1, <1>2, PortTyping
  <1>4. loadCnt' \in [Loads -> Nat] /\ \A o \in Loads : loadCnt'[o] <= CntCycles[o]
    BY <1>1, CounterTyping DEF LoadCycle
  <1>5. beats' \in Nat
    BY DEF LoadCycle, TypeOK, CoreOK
  <1>6. QED BY <1>3, <1>4, <1>5

\* A cycle without a LOAD moves the port only, within its types.
LEMMA QuietTyping ==
    ASSUME NEW v \in BOOLEAN, TypeOK, Quiet(v)
    PROVE  /\ PortOK' /\ LoaderOK' /\ pendErr' \in BOOLEAN
           /\ UNCHANGED <<illegal, rs1, first, beats>>
  <1>1. /\ PortOK /\ maddr \in Nat /\ pendErr \in BOOLEAN
        /\ PortCycle(v, FALSE, maddr, FALSE)
    BY DEF Quiet, TypeOK, PortOK, FlagsOK
  <1>2. PortOK' /\ pendErr' \in BOOLEAN
    BY <1>1, PortTyping
  <1>3. QED BY <1>2 DEF Quiet, TypeOK, LoaderOK, loader

-----------------------------------------------------------------------------
\* Reset establishes the types.
LEMMA InitTyping == Init => TypeOK
  <1> SUFFICES ASSUME Init PROVE TypeOK
    OBVIOUS
  <1>1. ControlOK
    BY ArrayAssumption DEF Init, ControlOK
  <1>2. LoaderOK
    BY CyclesAssumption DEF Init, LoaderOK, Unset
  <1>3. PortOK
    <2>1. maddr = 0 /\ pend = 0 /\ paddr = -1 /\ age = 0
      BY DEF Init, Unset
    <2>2. QED BY <2>1 DEF PortOK
  <1>4. CoreOK
    <2>1. /\ owed = 0 /\ illegal = 0 /\ rs1 = -1 /\ beats = 0
          /\ first = [op \in Loads |-> -1]
      BY DEF Init, Unset
    <2>2. MaxIllegal \in Nat
      BY RequestAssumption
    <2>3. QED BY <2>1, <2>2 DEF CoreOK
  <1>5. FlagsOK
    BY DEF Init, FlagsOK
  <1>6. QED BY <1>1, <1>2, <1>3, <1>4, <1>5 DEF TypeOK

\* Every cycle of every FSM state keeps the types: one case per action.
LEMMA StepTyping == TypeOK /\ [Next]_vars => TypeOK'
  <1> SUFFICES ASSUME TypeOK, [Next]_vars PROVE TypeOK'
    OBVIOUS
  <1> USE DEF TypeOK
  <1>1. ASSUME NEW op \in Requests, NEW b \in Bases[op], NEW v \in BOOLEAN, NEW e \in BOOLEAN,
               Accept(op, b, v, e)
        PROVE  TypeOK'
    <2>1. b \in Nat /\ op \in Loads
      BY RequestAssumption
    <2>2. PortOK' /\ FlagsOK'
      BY <1>1, <2>1, PortTyping DEF Accept, FlagsOK
    <2>3. ControlOK' /\ LoaderOK'
      BY <1>1, <2>1 DEF Accept, ControlOK, LoaderOK, loader
    <2>4. CoreOK'
      <3>1. /\ owed' = owed + 1 /\ rs1' = b /\ beats' = 0
            /\ first' = [first EXCEPT ![op] = IF wptr[op] < Size[op] THEN b ELSE @]
            /\ UNCHANGED illegal
        BY <1>1 DEF Accept
      <3>2. first' \in [Loads -> Int]
        BY <3>1, <2>1 DEF CoreOK
      <3>3. QED BY <3>1, <3>2, <2>1 DEF CoreOK
    <2>5. QED BY <2>2, <2>3, <2>4
  <1>2. ASSUME NEW v \in BOOLEAN, AcceptIllegal(v) PROVE TypeOK'
    <2>1. PortOK' /\ FlagsOK'
      BY <1>2, PortTyping DEF AcceptIllegal, PortOK, FlagsOK
    <2>2. ControlOK' /\ LoaderOK'
      BY <1>2 DEF AcceptIllegal, ControlOK, LoaderOK, fsm, loader
    <2>3. CoreOK'
      BY <1>2, RequestAssumption DEF AcceptIllegal, CoreOK
    <2>4. QED BY <2>1, <2>2, <2>3
  <1>3. ASSUME NEW op \in Loads, NEW r \in BOOLEAN, NEW e \in BOOLEAN, LoadWait(op, r, e)
        PROVE  TypeOK'
    <2>1. LoadCycle(op, FALSE, r, e) /\ (Rewind(op) \/ UNCHANGED <<wptr, buf>>)
          /\ UNCHANGED <<fsm, moveCnt, calCnt, owed, illegal, rs1, first, rspErr>>
      BY <1>3 DEF LoadWait
    <2>2. ControlOK'
      BY <2>1 DEF ControlOK, fsm
    <2>3. PortOK' /\ LoaderOK'
      BY <2>1, LoadCycleTyping, RewindTyping DEF LoaderOK
    <2>4. CoreOK'
      BY <2>1, LoadCycleTyping DEF CoreOK
    <2>6. FlagsOK'
      BY <2>1, LoadCycleTyping DEF FlagsOK
    <2>7. QED BY <2>2, <2>3, <2>4, <2>6
  <1>4. ASSUME NEW op \in Loads, NEW r \in BOOLEAN, NEW e \in BOOLEAN, LoadBeat(op, r, e)
        PROVE  TypeOK'
    <2>1. LoadCycle(op, TRUE, r, e) /\ Store(op)
          /\ UNCHANGED <<fsm, moveCnt, calCnt, owed, illegal, rs1, first, rspErr>>
      BY <1>4 DEF LoadBeat
    <2>2. ControlOK'
      BY <2>1 DEF ControlOK, fsm
    <2>3. PortOK' /\ LoaderOK'
      BY <2>1, LoadCycleTyping, StoreTyping DEF LoaderOK
    <2>4. CoreOK'
      BY <2>1, LoadCycleTyping DEF CoreOK
    <2>6. FlagsOK'
      BY <2>1, LoadCycleTyping DEF FlagsOK
    <2>7. QED BY <2>2, <2>3, <2>4, <2>6
  <1>5. ASSUME NEW op \in Loads, NEW r \in BOOLEAN, NEW e \in BOOLEAN, LoadDone(op, r, e)
        PROVE  TypeOK'
    <2>1. LoadCycle(op, TRUE, r, e) /\ Rewind(op)
          /\ UNCHANGED <<block, moveCnt, calCnt, illegal, rs1, first>>
      BY <1>5 DEF LoadDone
    <2>2. ControlOK'
      BY <1>5 DEF LoadDone, ControlOK, Layers, Weights
    <2>3. PortOK' /\ LoaderOK'
      BY <2>1, LoadCycleTyping, RewindTyping DEF LoaderOK
    <2>4. owed' \in Int
      BY <1>5 DEF LoadDone, CoreOK
    <2>5. CoreOK'
      BY <2>1, <2>4, LoadCycleTyping DEF CoreOK
    <2>6. FlagsOK'
      BY <1>5, <2>1, LoadCycleTyping DEF LoadDone, FlagsOK
    <2>7. QED BY <2>2, <2>3, <2>5, <2>6
  <1>6. ASSUME NEW l \in Layers, NEW v \in BOOLEAN, Move(l, v) PROVE TypeOK'
    <2>1. Quiet(v) /\ UNCHANGED <<layer, block, calCnt, owed, rspErr>>
      BY <1>6 DEF Move
    <2>2. ControlOK'
      BY <1>6, ArrayAssumption DEF Move, ControlOK
    <2>3. CoreOK' /\ FlagsOK'
      BY <2>1, QuietTyping DEF CoreOK, FlagsOK
    <2>4. QED BY <2>1, <2>2, <2>3, QuietTyping
  <1>7. ASSUME NEW l \in Layers, NEW v \in BOOLEAN, CalCount(l, v) PROVE TypeOK'
    <2>1. Quiet(v) /\ UNCHANGED <<fsm, moveCnt, owed, rspErr>>
      BY <1>7 DEF CalCount
    <2>2. ControlOK'
      <3>1. calCnt' = [calCnt EXCEPT ![l] = @ + 1] /\ calCnt[l] < CalCycles[l]
        BY <1>7 DEF CalCount
      <3>2. calCnt' \in [Layers -> Nat]
        BY <3>1 DEF ControlOK
      <3>3. ASSUME NEW k \in Layers PROVE calCnt'[k] <= CalCycles[k]
        <4>1. CalCycles[k] \in Nat /\ calCnt[k] <= CalCycles[k] /\ calCnt[k] \in Nat
          BY ArrayAssumption DEF ControlOK
        <4>2. calCnt'[k] = IF k = l THEN calCnt[k] + 1 ELSE calCnt[k]
          BY <3>1 DEF ControlOK
        <4>3. QED BY <3>1, <4>1, <4>2
      <3>4. QED BY <2>1, <3>2, <3>3 DEF ControlOK, fsm
    <2>3. CoreOK' /\ FlagsOK'
      BY <2>1, QuietTyping DEF CoreOK, FlagsOK
    <2>4. QED BY <2>1, <2>2, <2>3, QuietTyping
  <1>8. ASSUME NEW l \in Layers, NEW v \in BOOLEAN, CalDone(l, v) PROVE TypeOK'
    <2>1. Quiet(v) /\ UNCHANGED moveCnt /\ calCnt' = [calCnt EXCEPT ![l] = 0]
      BY <1>8 DEF CalDone
    <2>2. block' \in [Layers -> Nat] /\ \A k \in Layers : block'[k] < Blocks[k]
      <3>1. block' = [block EXCEPT ![l] = IF block[l] = Blocks[l] - 1 THEN 0 ELSE @ + 1]
        BY <1>8 DEF CalDone, LastBlock
      <3>2. block[l] \in Nat /\ Blocks[l] \in Nat \ {0} /\ block[l] < Blocks[l]
        BY ArrayAssumption DEF ControlOK
      <3>3. QED BY <3>1, <3>2 DEF ControlOK
    <2>3. /\ phase' \in {"IDLE", "MOVE"}
          /\ phase' = "IDLE" => layer' = "none"
          /\ phase' = "MOVE" => layer' \in Layers
      BY <1>8 DEF CalDone, Following, LastBlock, Layers, Weights
    <2>4. calCnt' \in [Layers -> Nat] /\ \A k \in Layers : calCnt'[k] <= CalCycles[k]
      <3>1. calCnt' \in [Layers -> Nat]
        BY <2>1 DEF ControlOK
      <3>2. ASSUME NEW k \in Layers PROVE calCnt'[k] <= CalCycles[k]
        <4>1. CalCycles[k] \in Nat /\ calCnt[k] <= CalCycles[k] /\ calCnt'[k] \in {0, calCnt[k]}
          BY <2>1, ArrayAssumption DEF ControlOK
        <4>2. QED BY <4>1
      <3>3. QED BY <3>1, <3>2
    <2>5. ControlOK'
      BY <2>1, <2>2, <2>3, <2>4 DEF ControlOK
    <2>6. owed' \in Int
      BY <1>8 DEF CalDone, CoreOK
    <2>7. CoreOK'
      BY <2>1, <2>6, QuietTyping DEF CoreOK
    <2>8. FlagsOK'
      BY <1>8, <2>1, QuietTyping DEF CalDone, FlagsOK
    <2>9. QED BY <2>1, <2>5, <2>7, <2>8, QuietTyping
  <1>9. CASE UNCHANGED vars
    BY <1>9 DEF ControlOK, LoaderOK, PortOK, CoreOK, FlagsOK, vars, fsm, loader, port, core
  <1>10. QED BY <1>1, <1>2, <1>3, <1>4, <1>5, <1>6, <1>7, <1>8, <1>9, MemoryAssumption DEF Next

\* Type correctness: every register keeps within the range of its counter.
THEOREM Typing == Spec => []TypeOK
  BY InitTyping, StepTyping, PTL DEF Spec

-----------------------------------------------------------------------------
(* The inductive invariant. *)

Loading(op) == phase = "LOAD" /\ layer = op

\* Outside a load its counter is clear and nothing is in flight.
AtRest ==
    /\ phase # "LOAD" => pend = 0
    /\ \A op \in Loads : ~Loading(op) => loadCnt[op] = 0

\* The history variable beats against the counter: the fully connected
\* loaders may clear theirs early, the others count every response.
Counted ==
    \A op \in Loads : Loading(op) =>
        /\ rs1 \in Bases[op]
        /\ loadCnt[op] <= beats
        /\ op \notin {"fc1", "fc2"} => loadCnt[op] = beats

\* A weight that is not yet complete has taken every beat of its load.
WeightsFilling ==
    \A op \in Weights : Loading(op) /\ wptr[op] < Size[op] =>
        wptr[op] = 4 * beats /\ first[op] = rs1

\* Until the counter is full input_wptr follows it; whatever lies below it,
\* or everything once the counter is full, is this instruction's image.
ImageFilling ==
    /\ ~Loading("input") => wptr["input"] = 0
    /\ Loading("input") =>
         /\ ~CntDone("input") /\ wptr["input"] < Size["input"] =>
              wptr["input"] = 4 * beats
         /\ \A i \in 0 .. Size["input"] - 1 :
              CntDone("input") \/ i < wptr["input"] => buf["input"][i] = rs1 + i

IInv == /\ TypeOK /\ AtRest /\ Counted /\ WordsInOrder
        /\ WeightsComplete /\ WeightsFilling
        /\ ImageComplete /\ ImageFilling
        /\ OneAnswer

-----------------------------------------------------------------------------
(* A cycle of LOAD_<op>, whatever it does with the buffer. *)

\* The response of this cycle carries the next word, and the address
\* accumulator is ahead of the responses by what is in flight.
LEMMA CycleAddresses ==
    ASSUME NEW op \in Loads, NEW v \in BOOLEAN, NEW r \in BOOLEAN, NEW e \in BOOLEAN,
           IInv, LoadCycle(op, v, r, e)
    PROVE  /\ v /\ beats < BeatBound(op) => paddr = rs1 + 4 * beats /\ beats' = beats + 1
           /\ ~v => beats' = beats
           /\ beats' < BeatBound(op) =>
                /\ maddr' = rs1 + 4 * (beats' + pend')
                /\ pend' = 1 => paddr' = maddr' - 4
  <1> DEFINE c == r /\ CmdValid(op)
  <1>1. /\ maddr \in Nat /\ pend \in 0 .. 1 /\ paddr \in Int /\ beats \in Nat /\ rs1 \in Nat
        /\ CntCycles[op] \in Nat /\ AddrSpace \in Nat
        /\ rs1 + 4 * (CntCycles[op] + 2) < AddrSpace
    BY RequestAssumption, CyclesAssumption
       DEF IInv, TypeOK, PortOK, CoreOK, Counted, Loading, LoadCycle
  <1>2. /\ v => pend = 1
        /\ c => pend = 0 \/ v
        /\ beats' = IF v /\ beats < BeatBound(op) THEN beats + 1 ELSE beats
        /\ PortCycle(v, c, maddr, e)
    BY DEF LoadCycle, RspValid, CmdReady
  <1>3. beats < BeatBound(op) =>
          maddr = rs1 + 4 * (beats + pend) /\ (pend = 1 => paddr = maddr - 4)
    BY DEF IInv, WordsInOrder, LoadCycle
  <1>4. v /\ beats < BeatBound(op) => paddr = rs1 + 4 * beats /\ beats' = beats + 1
    BY <1>1, <1>2, <1>3
  <1>5. ASSUME beats' < BeatBound(op)
        PROVE  maddr' = rs1 + 4 * (beats' + pend') /\ (pend' = 1 => paddr' = maddr' - 4)
    <2>1. beats < BeatBound(op) /\ beats' = IF v THEN beats + 1 ELSE beats
      BY <1>1, <1>2, <1>5 DEF BeatBound
    <2>2. CASE c
      <3>1. pend' = 1 /\ paddr' = maddr /\ maddr' = Wrap(maddr + 4)
        BY <1>2, <2>2 DEF PortCycle
      <3>2. maddr = rs1 + 4 * beats'
        BY <1>1, <1>2, <1>3, <2>1, <2>2
      <3>3. maddr + 4 < AddrSpace
        BY <1>1, <1>5, <2>1, <3>2 DEF BeatBound
      <3>4. QED BY <1>1, <2>1, <3>1, <3>2, <3>3 DEF Wrap
    <2>3. CASE ~c
      <3>1. pend' = (IF v THEN 0 ELSE pend) /\ paddr' = paddr /\ maddr' = maddr
        BY <1>2, <2>3 DEF PortCycle
      <3>2. QED BY <1>1, <1>2, <1>3, <2>1, <3>1
    <2>4. QED BY <2>2, <2>3
  <1>6. ~v => beats' = beats
    BY <1>2
  <1>7. QED BY <1>4, <1>5, <1>6

\* Only this load's counter moves, never beyond the responses.
LEMMA CycleCounts ==
    ASSUME NEW op \in Loads, NEW v \in BOOLEAN, NEW r \in BOOLEAN, NEW e \in BOOLEAN,
           IInv, LoadCycle(op, v, r, e), ~CntDone(op) \/ ~v
    PROVE  /\ loadCnt'[op] <= beats'
           /\ op \notin {"fc1", "fc2"} => loadCnt'[op] = beats'
           /\ \A o \in Loads : o # op => loadCnt'[o] = loadCnt[o]
  <1>1. /\ loadCnt[op] \in Nat /\ loadCnt[op] <= CntCycles[op] /\ beats \in Nat
        /\ CntCycles[op] \in Nat /\ loadCnt \in [Loads -> Nat]
    BY CyclesAssumption DEF IInv, TypeOK, LoaderOK, CoreOK
  <1>2. loadCnt[op] <= beats /\ (op \notin {"fc1", "fc2"} => loadCnt[op] = beats)
    BY DEF IInv, Counted, Loading, LoadCycle
  <1>3. /\ loadCnt' = [loadCnt EXCEPT ![op] = NextCnt(op, v)]
        /\ beats' = IF v /\ beats < BeatBound(op) THEN beats + 1 ELSE beats
    BY DEF LoadCycle
  <1>4. loadCnt'[op] = NextCnt(op, v) /\ \A o \in Loads : o # op => loadCnt'[o] = loadCnt[o]
    BY <1>1, <1>3
  <1>5. CASE CntDone(op)
    <2>1. NextCnt(op, v) = IF op \in {"fc1", "fc2"} THEN 0 ELSE loadCnt[op]
      BY <1>5 DEF NextCnt
    <2>2. beats' = beats
      BY <1>3, <1>5
    <2>3. QED BY <1>1, <1>2, <1>4, <2>1, <2>2
  <1>6. CASE ~CntDone(op)
    <2>1. NextCnt(op, v) = IF v THEN loadCnt[op] + 1 ELSE loadCnt[op]
      BY <1>6 DEF NextCnt
    <2>2. loadCnt[op] < CntCycles[op]
      BY <1>1, <1>6 DEF CntDone
    <2>3. CASE v
      <3>1. loadCnt'[op] = loadCnt[op] + 1
        BY <1>4, <2>1, <2>3
      <3>2. beats' = IF beats < CntCycles[op] + 2 THEN beats + 1 ELSE beats
        BY <1>3, <2>3 DEF BeatBound
      <3>3. QED BY <1>1, <1>2, <1>4, <2>2, <3>1, <3>2
    <2>4. CASE ~v
      BY <1>2, <1>3, <1>4, <2>1, <2>4
    <2>5. QED BY <2>3, <2>4
  <1>7. QED BY <1>5, <1>6

\* Once the counter is full, or the buffer is, every byte of it was read.
LEMMA FullMeansRead ==
    ASSUME NEW op \in Weights, IInv, Loading(op), CntDone(op)
    PROVE  wptr[op] >= Size[op]
  <1>1. /\ loadCnt[op] = CntCycles[op] /\ loadCnt[op] <= beats
        /\ wptr[op] < Size[op] => wptr[op] = 4 * beats
    BY DEF CntDone, IInv, Counted, WeightsFilling, Loads
  <1>2. /\ Size[op] \in Nat /\ CntCycles[op] \in Nat /\ Size[op] <= 4 * CntCycles[op]
        /\ wptr[op] \in Nat /\ beats \in Nat
    BY SizeAssumption, CyclesAssumption DEF IInv, TypeOK, LoaderOK, CoreOK, Loads
  <1>3. QED BY <1>1, <1>2

-----------------------------------------------------------------------------
(* Each action preserves the invariant. *)

SafetyInv == /\ AtRest /\ Counted /\ WordsInOrder
             /\ WeightsComplete /\ WeightsFilling
             /\ ImageComplete /\ ImageFilling
             /\ OneAnswer

\* Reset establishes the safety half of the inductive invariant.
LEMMA InitSafety == Init => SafetyInv
  <1> SUFFICES ASSUME Init PROVE SafetyInv
    OBVIOUS
  <1>1. AtRest /\ Counted /\ WordsInOrder
    BY DEF Init, AtRest, Counted, WordsInOrder, Loading
  <1>2. WeightsComplete
    <2> SUFFICES ASSUME NEW op \in Weights
                 PROVE  wptr[op] = 0 /\ \A i \in 0 .. Size[op] - 1 : buf[op][i] = Unset
      BY SizeAssumption DEF WeightsComplete, Loads
    <2>1. QED BY DEF Init, Loads
  <1>3. WeightsFilling /\ ImageComplete /\ ImageFilling /\ OneAnswer
    BY DEF Init, WeightsFilling, ImageComplete, ImageFilling, OneAnswer, Loading, Loads
  <1>4. QED BY <1>1, <1>2, <1>3 DEF SafetyInv

\* Accepting a load: its first command is in flight, its counter clear.
LEMMA AcceptStep ==
    ASSUME IInv, NEW op \in Requests, NEW b \in Bases[op], NEW v \in BOOLEAN,
           NEW e \in BOOLEAN, Accept(op, b, v, e)
    PROVE  SafetyInv'
  <1>1. /\ op \in Loads /\ b \in Nat /\ b + 4 < AddrSpace /\ AddrSpace \in Nat
    BY RequestAssumption, CyclesAssumption
  <1>2. /\ phase = "IDLE" /\ phase' = "LOAD" /\ layer' = op
        /\ rs1' = b /\ beats' = 0 /\ owed' = owed + 1
        /\ first' = [first EXCEPT ![op] = IF wptr[op] < Size[op] THEN b ELSE @]
        /\ UNCHANGED <<loadCnt, wptr, buf, illegal>>
        /\ PortCycle(v, TRUE, b, e)
    BY DEF Accept, loader
  <1>3. pend' = 1 /\ paddr' = b /\ maddr' = b + 4
    BY <1>1, <1>2 DEF PortCycle, Wrap
  <1>4. \A o \in Loads : loadCnt[o] = 0
    BY <1>2 DEF IInv, AtRest, Loading
  <1>5. AtRest' /\ Counted'
    BY <1>1, <1>2, <1>4 DEF AtRest, Counted, Loading
  <1>6. WordsInOrder'
    BY <1>1, <1>2, <1>3 DEF WordsInOrder
  <1>7. \A o \in Weights : wptr[o] = 0 \/ wptr[o] >= Size[o]
    BY <1>2 DEF IInv, WeightsComplete
  <1>8. /\ first \in [Loads -> Int] /\ Size \in [Loads -> Nat \ {0}] /\ wptr \in [Loads -> Nat]
    BY SizeAssumption DEF IInv, TypeOK, CoreOK, LoaderOK
  <1>9. WeightsComplete'
    <2> SUFFICES ASSUME NEW o \in Weights
                 PROVE  \A i \in 0 .. Size[o] - 1 :
                          buf[o][i] = IF i < wptr[o] THEN first'[o] + i ELSE Unset
      BY <1>2, <1>7 DEF WeightsComplete
    <2>1. \A i \in 0 .. Size[o] - 1 :
            buf[o][i] = IF i < wptr[o] THEN first[o] + i ELSE Unset
      BY DEF IInv, WeightsComplete
    <2>2. first'[o] = first[o] \/ wptr[o] = 0
      BY <1>1, <1>2, <1>7, <1>8 DEF Loads
    <2>3. QED BY <2>1, <2>2
  <1>10. WeightsFilling'
    BY <1>1, <1>2, <1>7, <1>8 DEF WeightsFilling, Loading, Loads
  <1>11. wptr["input"] = 0 /\ "input" \in Loads
    BY <1>2 DEF IInv, ImageFilling, Loading, Loads
  <1>12. ImageComplete' /\ ImageFilling'
    <2>1. ~CntDone("input")'
      BY <1>2, <1>4, <1>11, CyclesAssumption DEF CntDone
    <2>2. ImageComplete'
      BY <1>2 DEF ImageComplete
    <2>3. ImageFilling'
      BY <1>2, <1>11, <2>1 DEF ImageFilling
    <2>4. QED BY <2>2, <2>3
  <1>13. OneAnswer'
    BY <1>2 DEF IInv, OneAnswer, TypeOK, CoreOK
  <1>14. QED BY <1>5, <1>6, <1>9, <1>10, <1>12, <1>13 DEF SafetyInv

\* A cycle that leaves the loaders alone and does not enter or leave LOAD:
\* an undecoded instruction, and every cycle of MOVE and CAL.
LEMMA OutsideLoad ==
    ASSUME IInv, phase # "LOAD", phase' # "LOAD",
           NEW v \in BOOLEAN, RspValid(v), PortCycle(v, FALSE, maddr, FALSE),
           UNCHANGED <<loader, rs1, first, beats>>,
           phase' \in {"MOVE", "CAL"} => phase \in {"MOVE", "CAL"}
    PROVE  /\ AtRest' /\ Counted' /\ WordsInOrder'
           /\ WeightsComplete' /\ WeightsFilling'
           /\ ImageComplete' /\ ImageFilling'
  <1>1. pend' = 0
    BY DEF IInv, AtRest, RspValid, PortCycle
  <1>2. AtRest' /\ Counted' /\ WordsInOrder'
    BY <1>1 DEF IInv, AtRest, Counted, WordsInOrder, Loading, loader
  <1>3. WeightsComplete' /\ WeightsFilling'
    BY DEF IInv, WeightsComplete, WeightsFilling, Loading, loader
  <1>4. ImageComplete' /\ ImageFilling'
    BY DEF IInv, ImageComplete, ImageFilling, Loading, loader
  <1>5. QED BY <1>2, <1>3, <1>4

\* What a LOAD cycle that stays in LOAD_<op> does to the counters.
LEMMA StayInLoad ==
    ASSUME IInv, NEW op \in Loads, NEW v \in BOOLEAN, NEW r \in BOOLEAN, NEW e \in BOOLEAN,
           LoadCycle(op, v, r, e), ~CntDone(op) \/ ~v, UNCHANGED <<fsm, rs1, owed, illegal>>
    PROVE  AtRest' /\ Counted' /\ WordsInOrder' /\ ImageComplete' /\ OneAnswer'
  <1>1. phase = "LOAD" /\ layer = op /\ phase' = "LOAD" /\ layer' = op
    BY DEF LoadCycle, fsm
  <1>2. AtRest'
    BY <1>1, CycleCounts DEF IInv, AtRest, Loading
  <1>3. Counted'
    BY <1>1, CycleCounts DEF IInv, Counted, Loading
  <1>4. WordsInOrder'
    BY <1>1, CycleAddresses DEF WordsInOrder, BeatBound
  <1>5. ImageComplete' /\ OneAnswer'
    BY <1>1 DEF IInv, ImageComplete, OneAnswer
  <1>6. QED BY <1>2, <1>3, <1>4, <1>5

\* A LOAD cycle without a response keeps the safety half: nothing is
\* stored, and input_wptr is cleared only when the image is complete.
LEMMA LoadWaitStep ==
    ASSUME IInv, NEW op \in Loads, NEW r \in BOOLEAN, NEW e \in BOOLEAN, LoadWait(op, r, e)
    PROVE  SafetyInv'
  <1>1. /\ LoadCycle(op, FALSE, r, e)
        /\ UNCHANGED <<fsm, rs1, owed, illegal, first, buf>>
        /\ wptr' = IF CntDone(op) /\ op = "input" THEN [wptr EXCEPT ![op] = 0] ELSE wptr
    BY DEF LoadWait, Rewind
  <1>2. phase = "LOAD" /\ layer = op /\ phase' = "LOAD" /\ layer' = op /\ beats' = beats
    BY <1>1, CycleAddresses DEF LoadCycle, fsm
  <1>3. AtRest' /\ Counted' /\ WordsInOrder' /\ ImageComplete' /\ OneAnswer'
    BY <1>1, StayInLoad
  <1>4. wptr \in [Loads -> Nat] /\ "input" \in Loads /\ "input" \notin Weights
    BY DEF IInv, TypeOK, LoaderOK, Loads, Weights
  <1>5. \A o \in Weights : wptr'[o] = wptr[o]
    BY <1>1, <1>4 DEF Loads
  <1>6. WeightsComplete' /\ WeightsFilling'
    BY <1>1, <1>2, <1>5 DEF IInv, WeightsComplete, WeightsFilling, Loading
  <1>7. ImageFilling'
    <2>1. CASE op # "input"
      BY <1>1, <1>2, <2>1 DEF IInv, ImageFilling, Loading
    <2>2. CASE op = "input" /\ CntDone(op)
      <3>1. NextCnt(op, FALSE) = loadCnt[op]
        BY <2>2 DEF NextCnt
      <3>2. loadCnt' = [loadCnt EXCEPT ![op] = loadCnt[op]] /\ loadCnt \in [Loads -> Nat]
        BY <1>1, <3>1 DEF LoadCycle, IInv, TypeOK, LoaderOK
      <3>3. CntDone("input")'
        BY <2>2, <3>2, <1>4 DEF CntDone
      <3>4. \A i \in 0 .. Size["input"] - 1 : buf["input"][i] = rs1 + i
        BY <1>2, <2>2 DEF IInv, ImageFilling, Loading
      <3>5. QED BY <1>1, <1>2, <2>2, <3>3, <3>4 DEF ImageFilling, Loading
    <2>3. CASE op = "input" /\ ~CntDone(op)
      <3>1. NextCnt(op, FALSE) = loadCnt[op]
        BY <2>3 DEF NextCnt
      <3>2. loadCnt' = [loadCnt EXCEPT ![op] = loadCnt[op]] /\ loadCnt \in [Loads -> Nat]
        BY <1>1, <3>1 DEF LoadCycle, IInv, TypeOK, LoaderOK
      <3>3. ~CntDone("input")'
        BY <2>3, <3>2, <1>4 DEF CntDone
      <3>4. QED BY <1>1, <1>2, <2>3, <3>3 DEF IInv, ImageFilling, Loading
    <2>4. QED BY <2>1, <2>2, <2>3
  <1>8. QED BY <1>3, <1>6, <1>7 DEF SafetyInv

\* Storing a word: it is the next one, and it goes behind the last.
LEMMA LoadBeatStep ==
    ASSUME IInv, NEW op \in Loads, NEW r \in BOOLEAN, NEW e \in BOOLEAN, LoadBeat(op, r, e)
    PROVE  SafetyInv'
  <1>1. /\ LoadCycle(op, TRUE, r, e) /\ Store(op) /\ ~CntDone(op)
        /\ UNCHANGED <<fsm, rs1, owed, illegal, first>>
    BY DEF LoadBeat
  <1>2. phase = "LOAD" /\ layer = op /\ phase' = "LOAD" /\ layer' = op
    BY <1>1 DEF LoadCycle, fsm
  <1>3. AtRest' /\ Counted' /\ WordsInOrder' /\ ImageComplete' /\ OneAnswer'
    BY <1>1, StayInLoad
  <1>4. /\ wptr \in [Loads -> Nat] /\ beats \in Nat /\ Size \in [Loads -> Nat \ {0}]
        /\ CntCycles[op] \in Nat /\ Size[op] <= 4 * CntCycles[op] /\ DOMAIN buf = Loads
        /\ rs1 \in Int /\ first \in [Loads -> Int]
        /\ \A o \in Loads : buf[o] \in [0 .. Size[o] - 1 -> Int]
    BY SizeAssumption, CyclesAssumption DEF IInv, TypeOK, LoaderOK, CoreOK
  <1>5. ASSUME wptr[op] < Size[op], wptr[op] = 4 * beats
        PROVE  /\ wptr'[op] = 4 * beats'
               /\ \A i \in 0 .. Size[op] - 1 : buf'[op][i] =
                     IF i \in wptr[op] .. wptr[op] + 3 THEN rs1 + i ELSE buf[op][i]
    <2>1. beats < BeatBound(op)
      BY <1>4, <1>5 DEF BeatBound
    <2>2. paddr = rs1 + wptr[op] /\ beats' = beats + 1
      BY <1>1, <1>4, <1>5, <2>1, CycleAddresses
    <2>3. wptr' = [wptr EXCEPT ![op] = @ + 4]
      BY <1>1, <1>5 DEF Store
    <2>4. \A i \in 0 .. Size[op] - 1 : buf'[op][i] =
            IF i \in wptr[op] .. wptr[op] + 3 THEN paddr + (i - wptr[op]) ELSE buf[op][i]
      BY <1>1, <1>4, <1>5 DEF Store
    <2>5. \A i \in 0 .. Size[op] - 1 : paddr + (i - wptr[op]) = rs1 + i
      BY <1>4, <2>2
    <2>6. wptr'[op] = 4 * beats'
      BY <1>4, <1>5, <2>2, <2>3
    <2>7. QED BY <2>4, <2>5, <2>6
  <1>6. ~(wptr[op] < Size[op]) => UNCHANGED <<wptr, buf>>
    BY <1>1 DEF Store
  <1>7. \A o \in Loads : o # op => wptr'[o] = wptr[o] /\ buf'[o] = buf[o]
    BY <1>1, <1>4 DEF Store
  <1>8. ASSUME NEW o \in Weights
        PROVE  /\ \A i \in 0 .. Size[o] - 1 :
                     buf'[o][i] = IF i < wptr'[o] THEN first[o] + i ELSE Unset
               /\ o # op => wptr'[o] = 0 \/ wptr'[o] >= Size[o]
               /\ o = op /\ wptr'[o] < Size[o] => wptr'[o] = 4 * beats' /\ first[o] = rs1
    <2>1. /\ \A i \in 0 .. Size[o] - 1 :
                buf[o][i] = IF i < wptr[o] THEN first[o] + i ELSE Unset
          /\ o # op => wptr[o] = 0 \/ wptr[o] >= Size[o]
          /\ o = op /\ wptr[o] < Size[o] => wptr[o] = 4 * beats /\ first[o] = rs1
          /\ o \in Loads
      BY <1>2 DEF IInv, WeightsComplete, WeightsFilling, Loading, Loads
    <2>2. CASE o # op
      BY <1>7, <2>1, <2>2
    <2>3. CASE o = op /\ ~(wptr[op] < Size[op])
      BY <1>6, <2>1, <2>3
    <2>4. CASE o = op /\ wptr[op] < Size[op]
      <3>1. /\ wptr'[op] = 4 * beats' /\ first[op] = rs1 /\ wptr'[op] = wptr[op] + 4
            /\ \A i \in 0 .. Size[op] - 1 : buf'[op][i] =
                  IF i \in wptr[op] .. wptr[op] + 3 THEN rs1 + i ELSE buf[op][i]
        BY <1>1, <1>4, <1>5, <2>1, <2>4 DEF Store
      <3>2. ASSUME NEW i \in 0 .. Size[op] - 1
            PROVE  buf'[op][i] = IF i < wptr'[op] THEN first[op] + i ELSE Unset
        <4>1. i \in Nat /\ wptr[op] \in Nat
          BY <1>4
        <4>2. CASE i \in wptr[op] .. wptr[op] + 3
          BY <3>1, <4>1, <4>2
        <4>3. CASE i < wptr[op]
          BY <2>1, <2>4, <3>1, <4>1, <4>3
        <4>4. CASE i >= wptr[op] + 4
          BY <2>1, <2>4, <3>1, <4>1, <4>4
        <4>5. QED BY <4>1, <4>2, <4>3, <4>4
      <3>3. QED BY <2>4, <3>1, <3>2
    <2>5. QED BY <2>2, <2>3, <2>4
  <1>9. WeightsComplete' /\ WeightsFilling'
    BY <1>1, <1>2, <1>8 DEF WeightsComplete, WeightsFilling, Loading
  <1>10. ImageFilling'
    <2>1. CASE op # "input"
      <3>1. "input" \in Loads
        BY DEF Loads
      <3>2. QED BY <1>2, <1>7, <2>1, <3>1 DEF IInv, ImageFilling, Loading
    <2>2. CASE op = "input"
      <3>1. /\ wptr[op] < Size[op] => wptr[op] = 4 * beats
            /\ \A i \in 0 .. Size[op] - 1 : i < wptr[op] => buf[op][i] = rs1 + i
        BY <1>1, <1>2, <2>2 DEF IInv, ImageFilling, Loading
      <3>2. loadCnt[op] = beats /\ loadCnt[op] <= CntCycles[op]
        BY <1>2, <2>2 DEF IInv, Counted, Loading, TypeOK, LoaderOK, Loads
      <3>3. beats' = beats + 1 /\ loadCnt'[op] = beats'
        <4>1. beats < BeatBound(op)
          BY <1>4, <3>2 DEF BeatBound
        <4>2. QED BY <1>1, <2>2, <4>1, CycleAddresses, CycleCounts
      <3>4. CntDone(op)' => beats' = CntCycles[op]
        BY <3>3 DEF CntDone
      <3>5. CASE wptr[op] < Size[op]
        <4>1. /\ wptr'[op] = 4 * beats'
              /\ \A i \in 0 .. Size[op] - 1 : buf'[op][i] =
                    IF i \in wptr[op] .. wptr[op] + 3 THEN rs1 + i ELSE buf[op][i]
          BY <1>5, <3>1, <3>5
        <4>2. wptr'[op] = wptr[op] + 4 /\ wptr[op] \in Nat
          BY <1>4, <3>1, <3>3, <3>5, <4>1
        <4>3. ASSUME NEW i \in 0 .. Size[op] - 1, CntDone(op)' \/ i < wptr'[op]
              PROVE  buf'[op][i] = rs1 + i
          <5>1. i \in Nat /\ i < wptr'[op]
            BY <1>4, <3>4, <4>1, <4>3
          <5>2. CASE i \in wptr[op] .. wptr[op] + 3
            BY <4>1, <5>2
          <5>3. CASE i \notin wptr[op] .. wptr[op] + 3
            BY <3>1, <4>1, <4>2, <5>1, <5>3
          <5>4. QED BY <5>2, <5>3
        <4>4. QED BY <1>1, <1>2, <2>2, <4>1, <4>3 DEF ImageFilling, Loading
      <3>6. CASE ~(wptr[op] < Size[op])
        <4>1. \A i \in 0 .. Size[op] - 1 : i < wptr[op]
          BY <1>4, <3>6
        <4>2. QED BY <1>1, <1>2, <1>6, <2>2, <3>1, <3>6, <4>1 DEF ImageFilling, Loading
      <3>7. QED BY <3>5, <3>6
    <2>3. QED BY <2>1, <2>2
  <1>11. QED BY <1>3, <1>9, <1>10 DEF SafetyInv

\* The end of a load: the counter was full, so the buffer is complete and
\* no further command was sent.
LEMMA LoadDoneStep ==
    ASSUME IInv, NEW op \in Loads, NEW r \in BOOLEAN, NEW e \in BOOLEAN, LoadDone(op, r, e)
    PROVE  SafetyInv'
  <1>1. /\ LoadCycle(op, TRUE, r, e) /\ CntDone(op)
        /\ UNCHANGED <<rs1, illegal, first, buf>>
        /\ wptr' = IF op = "input" THEN [wptr EXCEPT ![op] = 0] ELSE wptr
        /\ op = "input" => phase' = "MOVE" /\ owed' = owed
        /\ op # "input" => phase' = "IDLE" /\ owed' = owed - 1
        /\ phase = "LOAD" /\ layer = op
    BY DEF LoadDone, Rewind, LoadCycle
  <1>2. pend' = 0
    <2>1. ~CmdValid(op)
      BY <1>1, CyclesAssumption DEF CmdValid, CntDone
    <2>2. PortCycle(TRUE, r /\ CmdValid(op), maddr, e)
      BY <1>1 DEF LoadCycle
    <2>3. QED BY <2>1, <2>2 DEF PortCycle
  <1>3. \A o \in Loads : loadCnt'[o] = 0
    <2>1. NextCnt(op, TRUE) = 0
      BY <1>1 DEF NextCnt
    <2>2. loadCnt' = [loadCnt EXCEPT ![op] = 0] /\ loadCnt \in [Loads -> Nat]
      BY <1>1, <2>1 DEF LoadCycle, IInv, TypeOK, LoaderOK
    <2>3. \A o \in Loads : o # op => loadCnt[o] = 0
      BY <1>1 DEF IInv, AtRest, Loading
    <2>4. QED BY <2>2, <2>3
  <1>4. phase' # "LOAD"
    BY <1>1
  <1>5. AtRest' /\ Counted' /\ WordsInOrder'
    BY <1>2, <1>3, <1>4 DEF AtRest, Counted, WordsInOrder, Loading
  <1>6. wptr \in [Loads -> Nat] /\ "input" \in Loads /\ "input" \notin Weights
    BY DEF IInv, TypeOK, LoaderOK, Loads, Weights
  <1>7. \A o \in Weights : wptr'[o] = wptr[o]
    BY <1>1, <1>6 DEF Loads
  <1>8. \A o \in Weights : wptr[o] = 0 \/ wptr[o] >= Size[o]
    BY <1>1, FullMeansRead DEF IInv, WeightsComplete, Loading
  <1>9. WeightsComplete' /\ WeightsFilling'
    BY <1>1, <1>4, <1>7, <1>8 DEF IInv, WeightsComplete, WeightsFilling, Loading
  <1>10. ImageFilling'
    <2>1. wptr'["input"] = 0
      BY <1>1, <1>6 DEF IInv, ImageFilling, Loading
    <2>2. QED BY <1>4, <2>1 DEF ImageFilling, Loading
  <1>11. ImageComplete'
    BY <1>1 DEF IInv, ImageFilling, ImageComplete, Loading
  <1>12. OneAnswer'
    BY <1>1 DEF IInv, OneAnswer, TypeOK, CoreOK
  <1>13. QED BY <1>5, <1>9, <1>10, <1>11, <1>12 DEF SafetyInv

\* Every cycle keeps the safety half of the inductive invariant.
LEMMA StepSafety == IInv /\ [Next]_vars => SafetyInv'
  <1> SUFFICES ASSUME IInv, [Next]_vars PROVE SafetyInv'
    OBVIOUS
  <1>1. ASSUME NEW v \in BOOLEAN, AcceptIllegal(v) PROVE SafetyInv'
    <2>1. /\ phase = "IDLE" /\ phase' = "IDLE" /\ RspValid(v)
          /\ PortCycle(v, FALSE, maddr, FALSE)
          /\ UNCHANGED <<loader, rs1, first, beats>>
          /\ owed' = owed + 1 /\ illegal' = illegal + 1
      BY <1>1 DEF AcceptIllegal, fsm
    <2>2. OneAnswer'
      BY <2>1 DEF IInv, OneAnswer, TypeOK, CoreOK
    <2>3. QED BY <2>1, <2>2, OutsideLoad DEF SafetyInv
  <1>2. ASSUME NEW l \in Layers, NEW v \in BOOLEAN, Move(l, v) PROVE SafetyInv'
    <2>1. /\ phase = "MOVE" /\ phase' \in {"MOVE", "CAL"} /\ RspValid(v)
          /\ PortCycle(v, FALSE, maddr, FALSE)
          /\ UNCHANGED <<loader, rs1, first, beats, owed, illegal>>
      BY <1>2 DEF Move, Quiet
    <2>2. OneAnswer'
      BY <2>1 DEF IInv, OneAnswer
    <2>3. QED BY <2>1, <2>2, OutsideLoad DEF SafetyInv
  <1>3. ASSUME NEW l \in Layers, NEW v \in BOOLEAN, CalCount(l, v) PROVE SafetyInv'
    <2>1. /\ phase = "CAL" /\ phase' = "CAL" /\ RspValid(v)
          /\ PortCycle(v, FALSE, maddr, FALSE)
          /\ UNCHANGED <<loader, rs1, first, beats, owed, illegal>>
      BY <1>3 DEF CalCount, Quiet, fsm
    <2>2. OneAnswer'
      BY <2>1 DEF IInv, OneAnswer
    <2>3. QED BY <2>1, <2>2, OutsideLoad DEF SafetyInv
  <1>4. ASSUME NEW l \in Layers, NEW v \in BOOLEAN, CalDone(l, v) PROVE SafetyInv'
    <2>1. /\ phase = "CAL" /\ phase' \in {"MOVE", "IDLE"} /\ RspValid(v)
          /\ PortCycle(v, FALSE, maddr, FALSE)
          /\ UNCHANGED <<loader, rs1, first, beats, illegal>>
      BY <1>4 DEF CalDone, Quiet
    <2>2. phase' = "IDLE" <=> Answers(l)
      BY <1>4 DEF CalDone, Answers, Following, LastBlock, Layers, Weights
    <2>3. owed' = IF Answers(l) THEN owed - 1 ELSE owed
      BY <1>4 DEF CalDone
    <2>4. OneAnswer'
      BY <2>1, <2>2, <2>3 DEF IInv, OneAnswer, TypeOK, CoreOK
    <2>5. QED BY <2>1, <2>4, OutsideLoad DEF SafetyInv
  <1>5. CASE UNCHANGED vars
    <2> USE <1>5 DEF vars, fsm, loader, port, core, IInv
    <2>1. AtRest' /\ Counted' /\ WordsInOrder'
      BY DEF AtRest, Counted, WordsInOrder, Loading
    <2>2. WeightsComplete' /\ WeightsFilling'
      BY DEF WeightsComplete, WeightsFilling, Loading
    <2>3. ImageComplete' /\ ImageFilling' /\ OneAnswer'
      BY DEF ImageComplete, ImageFilling, Loading, CntDone, OneAnswer
    <2>4. QED BY <2>1, <2>2, <2>3 DEF SafetyInv
  <1>6. QED BY <1>1, <1>2, <1>3, <1>4, <1>5, AcceptStep, LoadWaitStep, LoadBeatStep,
              LoadDoneStep, MemoryAssumption DEF Next

\* The inductive invariant holds in every reachable state.
LEMMA Invariance == Spec => []IInv
  <1>1. Init => IInv
    BY InitTyping, InitSafety DEF IInv, SafetyInv
  <1>2. IInv /\ [Next]_vars => IInv'
    BY StepTyping, StepSafety DEF IInv, SafetyInv
  <1>3. QED BY <1>1, <1>2, PTL DEF Spec

-----------------------------------------------------------------------------
(* The results. *)

\* A load reads consecutive words from rs1 on, whatever the latency and the
\* stalls of the memory.
THEOREM ReadsInOrder == Spec => []WordsInOrder
  BY Invariance, PTL DEF IInv

\* A weight buffer holds what its first load asked for, complete whenever
\* that load is over.
THEOREM WeightsCorrect == Spec => []WeightsComplete
  BY Invariance, PTL DEF IInv

\* The array always works on the image of the instruction in progress.
THEOREM ImageCorrect == Spec => []ImageComplete
  BY Invariance, PTL DEF IInv

\* One answer is owed for each accepted load, and only while it executes.
THEOREM AnswersOnce == Spec => []OneAnswer
  BY Invariance, PTL DEF IInv

\* Outside LOAD no response is outstanding, so that none can be mistaken
\* for a word of the next load.
THEOREM NoStrayResponse == Spec => [](phase # "LOAD" => pend = 0)
  BY Invariance, PTL DEF IInv, AtRest

-----------------------------------------------------------------------------
(* The fully connected loaders on a memory that keeps up with them. *)

\* fc1 and fc2 clear their counter in the clock after it is full, so they need the
\* last word in that clock: a memory of one cycle whose port never stalls.
InTime == \A op \in Requests \intersect {"fc1", "fc2"} : ~CmdStall /\ MaxLatency[op] = 1

\* Then their answers come in every clock, and every loader counts the responses.
Timely ==
    /\ phase = "LOAD" => /\ layer \in Requests /\ loadCnt[layer] = beats
                         /\ layer \in {"fc1", "fc2"} => pend = 1 /\ age >= 1
    /\ phase \in {"MOVE", "CAL"} => beats = CntCycles["input"] + 1

\* In a clock of an fc load a response arrives and the next command is accepted.
LEMMA ResponseEachClock ==
    ASSUME InTime, IInv, Timely, NEW op \in {"fc1", "fc2"}, NEW v \in BOOLEAN,
           NEW r \in BOOLEAN, NEW e \in BOOLEAN, LoadCycle(op, v, r, e)
    PROVE  v /\ r
  <1>1. op \in Requests /\ pend = 1 /\ age >= 1 /\ phase = "LOAD" /\ layer = op
    BY DEF Timely, LoadCycle
  <1>2. ~CmdStall /\ MaxLatency[layer] = 1
    BY <1>1 DEF InTime
  <1>3. v
    BY <1>1, <1>2 DEF LoadCycle, RspValid
  <1>4. r
    BY <1>2, <1>3 DEF LoadCycle, NoStall
  <1>5. QED BY <1>3, <1>4

\* A clock that stays in a load.
LEMMA TimelyLoad ==
    ASSUME InTime, IInv, Timely, NEW op \in Loads, NEW v \in BOOLEAN, NEW r \in BOOLEAN,
           NEW e \in BOOLEAN, LoadCycle(op, v, r, e), ~CntDone(op) \/ ~v, UNCHANGED fsm
    PROVE  Timely'
  <1>1. /\ phase = "LOAD" /\ layer = op /\ phase' = "LOAD" /\ layer' = op
        /\ op \in Requests /\ loadCnt[op] = beats
    BY DEF LoadCycle, fsm, Timely
  <1>2. CASE op \notin {"fc1", "fc2"}
    <2>1. loadCnt'[op] = beats'
      BY <1>2, CycleCounts
    <2>2. QED BY <1>1, <1>2, <2>1 DEF Timely
  <1>3. CASE op \in {"fc1", "fc2"}
    <2>1. v /\ r /\ ~CntDone(op)
      BY <1>3, ResponseEachClock
    <2>2. /\ loadCnt[op] \in Nat /\ loadCnt[op] <= CntCycles[op] /\ CntCycles[op] \in Nat
          /\ loadCnt \in [Loads -> Nat]
      BY CyclesAssumption DEF IInv, TypeOK, LoaderOK
    <2>3. loadCnt[op] < CntCycles[op]
      BY <2>1, <2>2 DEF CntDone
    <2>4. PortCycle(v, r /\ CmdValid(op), maddr, e)
      BY DEF LoadCycle
    <2>5. pend' = 1 /\ age' = 1
      BY <2>1, <2>3, <2>4 DEF PortCycle, CmdValid
    <2>6. /\ loadCnt' = [loadCnt EXCEPT ![op] = NextCnt(op, v)]
          /\ beats' = IF v /\ beats < BeatBound(op) THEN beats + 1 ELSE beats
      BY DEF LoadCycle
    <2>7. NextCnt(op, v) = loadCnt[op] + 1
      BY <2>1 DEF NextCnt
    <2>8. loadCnt'[op] = loadCnt[op] + 1
      BY <2>2, <2>6, <2>7
    <2>9. beats' = beats + 1
      BY <1>1, <2>1, <2>2, <2>3, <2>6 DEF BeatBound
    <2>10. QED BY <1>1, <1>3, <2>5, <2>8, <2>9 DEF Timely
  <1>4. QED BY <1>2, <1>3

\* Timely is inductive with IInv.
LEMMA TimelyStep == ASSUME InTime, IInv, Timely, [Next]_vars PROVE Timely'
  <1>1. ASSUME NEW op \in Requests, NEW b \in Bases[op], NEW v \in BOOLEAN, NEW e \in BOOLEAN,
               Accept(op, b, v, e)
        PROVE  Timely'
    <2>1. /\ phase = "IDLE" /\ phase' = "LOAD" /\ layer' = op /\ beats' = 0
          /\ loadCnt' = loadCnt /\ PortCycle(v, TRUE, b, e) /\ op \in Loads
      BY <1>1, RequestAssumption DEF Accept, loader
    <2>2. loadCnt[op] = 0
      BY <2>1 DEF IInv, AtRest, Loading
    <2>3. pend' = 1 /\ age' = 1
      BY <2>1 DEF PortCycle
    <2>4. QED BY <2>1, <2>2, <2>3 DEF Timely
  <1>2. ASSUME NEW v \in BOOLEAN, AcceptIllegal(v) PROVE Timely'
    BY <1>2 DEF AcceptIllegal, fsm, Timely
  <1>3. ASSUME NEW op \in Loads, NEW r \in BOOLEAN, NEW e \in BOOLEAN, LoadWait(op, r, e)
        PROVE  Timely'
    BY <1>3, TimelyLoad DEF LoadWait
  <1>4. ASSUME NEW op \in Loads, NEW r \in BOOLEAN, NEW e \in BOOLEAN, LoadBeat(op, r, e)
        PROVE  Timely'
    BY <1>4, TimelyLoad DEF LoadBeat
  <1>5. ASSUME NEW op \in Loads, NEW r \in BOOLEAN, NEW e \in BOOLEAN, LoadDone(op, r, e)
        PROVE  Timely'
    <2>1. /\ LoadCycle(op, TRUE, r, e) /\ CntDone(op) /\ phase = "LOAD" /\ layer = op
          /\ phase' \in {"MOVE", "IDLE"} /\ (phase' = "MOVE" => op = "input")
      BY <1>5 DEF LoadDone, LoadCycle
    <2>2. beats = CntCycles[op] /\ CntCycles[op] \in Nat
      BY <2>1, CyclesAssumption DEF Timely, CntDone
    <2>3. beats' = CntCycles[op] + 1
      BY <2>1, <2>2 DEF LoadCycle, BeatBound
    <2>4. QED BY <2>1, <2>3 DEF Timely
  <1>6. ASSUME NEW l \in Layers, NEW v \in BOOLEAN, Move(l, v) PROVE Timely'
    BY <1>6 DEF Move, Quiet, Timely
  <1>7. ASSUME NEW l \in Layers, NEW v \in BOOLEAN, CalCount(l, v) PROVE Timely'
    BY <1>7 DEF CalCount, Quiet, fsm, Timely
  <1>8. ASSUME NEW l \in Layers, NEW v \in BOOLEAN, CalDone(l, v) PROVE Timely'
    BY <1>8 DEF CalDone, Quiet, Timely
  <1>9. CASE UNCHANGED vars
    BY <1>9 DEF vars, fsm, loader, port, core, Timely
  <1>10. QED BY <1>1, <1>2, <1>3, <1>4, <1>5, <1>6, <1>7, <1>8, <1>9, MemoryAssumption DEF Next

\* A counter that counts responses bounds them by its limit, and the last command by one.
LEMMA TimelyReads == ASSUME IInv, Timely PROVE ReadsOneExtraWord
  <1>1. phase = "LOAD" => beats + pend <= CntCycles[layer] + 1
    <2>1. ASSUME phase = "LOAD" PROVE beats + pend <= CntCycles[layer] + 1
      <3>1. layer \in Loads /\ beats = loadCnt[layer]
        BY <2>1 DEF IInv, TypeOK, ControlOK, Timely
      <3>2. /\ loadCnt[layer] \in Nat /\ loadCnt[layer] <= CntCycles[layer]
            /\ CntCycles[layer] \in Nat /\ pend \in 0 .. 1
        BY <3>1, CyclesAssumption DEF IInv, TypeOK, LoaderOK, PortOK
      <3>3. QED BY <3>1, <3>2
    <2>2. QED BY <2>1
  <1>2. QED BY <1>1 DEF ReadsOneExtraWord, IInv, AtRest, Timely

\* A load reads the words it needs and one more, and nothing is in flight when it is
\* over: with every memory for the loaders that wait for their last response, with a
\* memory of one cycle for those of the fully connected layers.
THEOREM ReadsOneExtra == ASSUME InTime PROVE Spec => []ReadsOneExtraWord
  <1>1. Init => Timely
    BY DEF Init, Timely
  <1>2. IInv /\ Timely /\ [Next]_vars => Timely'
    BY TimelyStep
  <1>3. IInv /\ Timely => ReadsOneExtraWord
    BY TimelyReads
  <1>4. QED BY <1>1, <1>2, <1>3, Invariance, PTL DEF Spec

-----------------------------------------------------------------------------
(* The refinement of NiceService. *)

\* What the refinement needs besides: a buffer with a byte in it has been loaded from
\* an address, and only the layer being computed is between two blocks.
Marks ==
    /\ \A op \in Weights : wptr[op] > 0 => first[op] \in Nat
    /\ \A l \in Layers : block[l] # 0 => Computing /\ layer = l

\* The values of NiceService's variables.
Job     == IF phase = "LOAD" THEN layer ELSE IF Computing THEN "input" ELSE "none"
Filled  == [op \in Weights |-> IF wptr[op] >= Size[op] THEN Content(op) ELSE Unset]
Image   == IF Computing THEN Content("input") ELSE Unset
Tile    == IF Computing THEN BlocksBefore(layer) + block[layer] + 1 ELSE 0
Part    == IF phase = "CAL" THEN "stream" ELSE "fill"
Tiles   == BlocksBefore("fc2") + Blocks["fc2"]

\* Marks is inductive with IInv.
LEMMA MarksStep == ASSUME IInv, Marks, [Next]_vars PROVE Marks'
  <1>1. ASSUME NEW op \in Requests, NEW b \in Bases[op], NEW v \in BOOLEAN, NEW e \in BOOLEAN,
               Accept(op, b, v, e)
        PROVE  Marks'
    <2>1. /\ phase = "IDLE" /\ block' = block /\ wptr' = wptr /\ b \in Nat /\ op \in Loads
          /\ first' = [first EXCEPT ![op] = IF wptr[op] < Size[op] THEN b ELSE @]
      BY <1>1, RequestAssumption DEF Accept, loader
    <2>2. first \in [Loads -> Int] /\ Weights \subseteq Loads
      BY DEF IInv, TypeOK, CoreOK, Loads
    <2>3. ASSUME NEW o \in Weights, wptr[o] > 0 PROVE first'[o] \in Nat
      <3>1. first[o] \in Nat
        BY <2>3 DEF Marks
      <3>2. QED BY <2>1, <2>2, <3>1
    <2>4. \A l \in Layers : block[l] = 0
      BY <2>1 DEF Marks, Computing
    <2>5. QED BY <2>1, <2>3, <2>4 DEF Marks
  <1>2. ASSUME NEW v \in BOOLEAN, AcceptIllegal(v) PROVE Marks'
    BY <1>2 DEF AcceptIllegal, fsm, loader, Marks, Computing
  <1>3. ASSUME NEW op \in Loads, NEW r \in BOOLEAN, NEW e \in BOOLEAN, LoadWait(op, r, e)
        PROVE  Marks'
    <2>1. phase' = phase /\ layer' = layer /\ block' = block /\ first' = first
      BY <1>3 DEF LoadWait, fsm
    <2>2. wptr \in [Loads -> Nat] /\ "input" \notin Weights /\ Weights \subseteq Loads
      BY DEF IInv, TypeOK, LoaderOK, Weights, Loads
    <2>3. \A o \in Weights : wptr'[o] = wptr[o]
      BY <1>3, <2>2 DEF LoadWait, Rewind
    <2>4. QED BY <2>1, <2>3 DEF Marks, Computing
  <1>4. ASSUME NEW op \in Loads, NEW r \in BOOLEAN, NEW e \in BOOLEAN, LoadBeat(op, r, e)
        PROVE  Marks'
    <2>1. /\ phase' = phase /\ layer' = layer /\ block' = block /\ first' = first
          /\ phase = "LOAD" /\ layer = op /\ Store(op)
      BY <1>4 DEF LoadBeat, LoadCycle, fsm
    <2>2. wptr \in [Loads -> Nat] /\ Weights \subseteq Loads /\ Bases[op] \subseteq Nat
      BY RequestAssumption DEF IInv, TypeOK, LoaderOK, Loads
    <2>3. \A o \in Weights : o # op => wptr'[o] = wptr[o]
      BY <2>1, <2>2 DEF Store
    <2>4. op \in Weights /\ wptr[op] < Size[op] => first[op] \in Nat
      BY <2>1, <2>2 DEF IInv, WeightsFilling, Counted, Loading
    <2>5. ~(wptr[op] < Size[op]) => wptr' = wptr
      BY <2>1 DEF Store
    <2>6. QED BY <2>1, <2>3, <2>4, <2>5 DEF Marks, Computing
  <1>5. ASSUME NEW op \in Loads, NEW r \in BOOLEAN, NEW e \in BOOLEAN, LoadDone(op, r, e)
        PROVE  Marks'
    <2>1. block' = block /\ first' = first /\ phase = "LOAD"
      BY <1>5 DEF LoadDone, LoadCycle
    <2>2. wptr \in [Loads -> Nat] /\ "input" \notin Weights /\ Weights \subseteq Loads
      BY DEF IInv, TypeOK, LoaderOK, Weights, Loads
    <2>3. \A o \in Weights : wptr'[o] = wptr[o]
      BY <1>5, <2>2 DEF LoadDone, Rewind
    <2>4. \A l \in Layers : block[l] = 0
      BY <2>1 DEF Marks, Computing
    <2>5. QED BY <2>1, <2>3, <2>4 DEF Marks
  <1>6. ASSUME NEW l \in Layers, NEW v \in BOOLEAN, Move(l, v) PROVE Marks'
    BY <1>6 DEF Move, Quiet, loader, Marks, Computing
  <1>7. ASSUME NEW l \in Layers, NEW v \in BOOLEAN, CalCount(l, v) PROVE Marks'
    BY <1>7 DEF CalCount, Quiet, fsm, loader, Marks, Computing
  <1>8. ASSUME NEW l \in Layers, NEW v \in BOOLEAN, CalDone(l, v) PROVE Marks'
    <2>1. /\ layer = l /\ phase = "CAL" /\ wptr' = wptr /\ first' = first
          /\ block' = [block EXCEPT ![l] = IF LastBlock(l) THEN 0 ELSE @ + 1]
          /\ ~LastBlock(l) => phase' = "MOVE" /\ layer' = l
      BY <1>8 DEF CalDone, Quiet, loader
    <2>2. block \in [Layers -> Nat]
      BY DEF IInv, TypeOK, ControlOK
    <2>3. \A k \in Layers : k # l => block'[k] = 0
      BY <2>1, <2>2 DEF Marks
    <2>4. LastBlock(l) => block'[l] = 0
      BY <2>1, <2>2
    <2>5. QED BY <2>1, <2>3, <2>4 DEF Marks, Computing
  <1>9. CASE UNCHANGED vars
    BY <1>9 DEF vars, fsm, loader, core, Marks, Computing
  <1>10. QED BY <1>1, <1>2, <1>3, <1>4, <1>5, <1>6, <1>7, <1>8, <1>9, MemoryAssumption DEF Next

\* So both hold always.
LEMMA MarksInvariance == Spec => [](IInv /\ Marks)
  <1>1. Init => Marks
    BY DEF Init, Marks, Loads
  <1>2. IInv /\ Marks /\ [Next]_vars => Marks'
    BY MarksStep
  <1>3. QED BY <1>1, <1>2, Invariance, PTL DEF Spec

\* A complete buffer is known by the address it was loaded from.
LEMMA FilledIs ==
    ASSUME IInv
    PROVE  Filled = [op \in Weights |-> IF wptr[op] >= Size[op] THEN first[op] ELSE Unset]
  <1>1. ASSUME NEW op \in Weights, wptr[op] >= Size[op] PROVE Content(op) = first[op]
    <2>1. /\ Size[op] \in Nat \ {0} /\ wptr[op] \in Nat /\ first[op] \in Int
      BY SizeAssumption DEF IInv, TypeOK, LoaderOK, CoreOK, Loads
    <2>2. \A i \in 0 .. Size[op] - 1 : buf[op][i] = first[op] + i
      BY <1>1, <2>1 DEF IInv, WeightsComplete
    <2>3. 0 \in 0 .. Size[op] - 1
      BY <2>1
    <2>4. buf[op][0] = first[op]
      BY <2>1, <2>2, <2>3
    <2>5. QED BY <2>2, <2>4 DEF Content
  <1>2. QED BY <1>1 DEF Filled

\* The image in the buffer is known by the address in rs1.
LEMMA ImageIs ==
    ASSUME IInv, Computing
    PROVE  Content("input") = rs1
  <1>1. Size["input"] \in Nat \ {0} /\ rs1 \in Int
    BY SizeAssumption DEF IInv, TypeOK, CoreOK, Loads
  <1>2. \A i \in 0 .. Size["input"] - 1 : buf["input"][i] = rs1 + i
    BY DEF IInv, ImageComplete, Computing
  <1>3. 0 \in 0 .. Size["input"] - 1
    BY <1>1
  <1>4. buf["input"][0] = rs1
    BY <1>1, <1>2, <1>3
  <1>5. QED BY <1>2, <1>4 DEF Content

\* The tiles of the layers follow each other.
LEMMA BlockCounts ==
    /\ \A l \in Layers : Blocks[l] \in Nat \ {0} /\ BlocksBefore(l) \in Nat
    /\ \A l \in Layers : BlocksBefore(l) + Blocks[l] <= Tiles
    /\ \A l \in Layers \ {"fc2"} : /\ Following(l) \in Layers
                                   /\ BlocksBefore(Following(l)) = BlocksBefore(l) + Blocks[l]
                                   /\ BlocksBefore(l) + Blocks[l] < Tiles
    /\ Following("fc2") = "none"
    /\ BlocksBefore("conv1") = 0 /\ Tiles \in Nat
  <1>1. \A l \in Layers : Blocks[l] \in Nat \ {0}
    BY ArrayAssumption
  <1>2. Layers = {"conv1", "conv2", "fc1", "fc2"}
    BY DEF Layers, Weights
  <1>3. /\ BlocksBefore("conv1") = 0
        /\ BlocksBefore("conv2") = Blocks["conv1"]
        /\ BlocksBefore("fc1") = Blocks["conv1"] + Blocks["conv2"]
        /\ BlocksBefore("fc2") = Blocks["conv1"] + Blocks["conv2"] + Blocks["fc1"]
    BY DEF BlocksBefore
  <1>4. /\ Following("conv1") = "conv2" /\ Following("conv2") = "fc1"
        /\ Following("fc1") = "fc2" /\ Following("fc2") = "none"
    BY DEF Following
  <1>5. QED BY <1>1, <1>2, <1>3, <1>4 DEF Tiles

Abstract == <<Job, rs1, Filled, Image, Tile, Part>>

\* The values of NiceService's variables stay when what they are made of stays.
LEMMA ServiceStutter == ASSUME UNCHANGED Abstract PROVE UNCHANGED Service!vars
BY DEF Service!vars, Abstract, Job, Filled, Image, Tile, Part

\* What the refinement knows of a state.
RefInv ==
    /\ IInv /\ Marks
    /\ Filled = [op \in Weights |-> IF wptr[op] >= Size[op] THEN first[op] ELSE Unset]
    /\ Image = IF Computing THEN rs1 ELSE Unset

\* It is what IInv and Marks say of those values.
LEMMA RefInvariance == Spec => []RefInv
  <1>1. IInv /\ Marks => RefInv
    BY FilledIs, ImageIs DEF RefInv, Image
  <1>2. QED BY <1>1, MarksInvariance, PTL

\* Where the loaders' write pointers and first addresses stay, so does what is filled.
LEMMA FilledStays ==
    ASSUME RefInv, RefInv',
           \A op \in Weights : /\ (wptr'[op] >= Size[op]) <=> (wptr[op] >= Size[op])
                               /\ wptr[op] >= Size[op] => first'[op] = first[op]
    PROVE  Filled' = Filled
BY DEF RefInv

\* While the array works, its image is the same.
LEMMA ImageStays ==
    ASSUME RefInv, RefInv', Computing' <=> Computing, rs1' = rs1 \/ ~Computing
    PROVE  Image' = Image
BY DEF RefInv

\* An instruction is accepted.
LEMMA AcceptMaps ==
    ASSUME RefInv, RefInv', NEW op \in Requests, NEW b \in Bases[op], NEW v \in BOOLEAN,
           NEW e \in BOOLEAN, Accept(op, b, v, e)
    PROVE  Service!Next
  <1>1. op \in Loads /\ op \in Weights \union {"input"}
    BY RequestAssumption DEF Loads
  <1>2. /\ phase = "IDLE" /\ phase' = "LOAD" /\ layer' = op /\ rs1' = b /\ wptr' = wptr
        /\ first' = [first EXCEPT ![op] = IF wptr[op] < Size[op] THEN b ELSE @]
    BY DEF Accept, loader
  <1>3. ~Computing /\ ~Computing'
    BY <1>2 DEF Computing
  <1>4. first \in [Loads -> Int] /\ wptr \in [Loads -> Nat] /\ Size \in [Loads -> Nat \ {0}]
    BY SizeAssumption DEF RefInv, IInv, TypeOK, CoreOK, LoaderOK
  <1>5. ASSUME NEW o \in Weights, wptr[o] >= Size[o] PROVE first'[o] = first[o]
    BY <1>1, <1>2, <1>4, <1>5 DEF Loads
  <1>6. Filled' = Filled
    BY <1>2, <1>5, FilledStays
  <1>7. Image' = Image /\ Tile' = Tile /\ Part' = Part
    BY <1>2, <1>3 DEF Image, Tile, Part
  <1>8. Job = "none" /\ Job' = op
    BY <1>2, <1>3 DEF Job
  <1>9. Service!Accept(op, b)
    BY <1>2, <1>6, <1>7, <1>8 DEF Service!Accept, Job, Filled, Image, Tile, Part
  <1>10. QED BY <1>1, <1>9 DEF Service!Next

\* A word is stored; the last one fills the buffer.
LEMMA LoadBeatMaps ==
    ASSUME RefInv, RefInv', NEW op \in Loads, NEW r \in BOOLEAN, NEW e \in BOOLEAN,
           LoadBeat(op, r, e)
    PROVE  Service!Next \/ UNCHANGED Abstract
  <1>1. /\ phase = "LOAD" /\ layer = op /\ phase' = phase /\ layer' = layer
        /\ rs1' = rs1 /\ first' = first /\ Store(op)
    BY DEF LoadBeat, LoadCycle, fsm
  <1>2. ~Computing /\ ~Computing'
    BY <1>1 DEF Computing
  <1>3. Job = op /\ Job' = op /\ Image' = Image /\ Tile' = Tile /\ Part' = Part
    BY <1>1, <1>2 DEF Job, Image, Tile, Part
  <1>4. /\ wptr \in [Loads -> Nat] /\ wptr' \in [Loads -> Nat] /\ Size \in [Loads -> Nat \ {0}]
        /\ first \in [Loads -> Int] /\ Weights \subseteq Loads
    BY SizeAssumption DEF RefInv, IInv, TypeOK, LoaderOK, CoreOK, Loads
  <1>5. /\ \A o \in Weights : o # op => wptr'[o] = wptr[o]
        /\ wptr[op] >= Size[op] => wptr'[op] = wptr[op]
    BY <1>1, <1>4 DEF Store
  <1>6. CASE op \in Weights /\ wptr[op] < Size[op] /\ wptr'[op] >= Size[op]
    <2>1. first[op] = rs1
      BY <1>1, <1>6 DEF RefInv, IInv, WeightsFilling, Loading
    <2>2. /\ Filled = [o \in Weights |-> IF wptr[o] >= Size[o] THEN first[o] ELSE Unset]
          /\ Filled' = [o \in Weights |-> IF wptr'[o] >= Size[o] THEN first[o] ELSE Unset]
      BY <1>1 DEF RefInv
    <2>3. Filled[op] = Unset
      BY <1>4, <1>6, <2>2
    <2>4. Filled' = [Filled EXCEPT ![op] = rs1]
      BY <1>4, <1>5, <1>6, <2>1, <2>2
    <2>5. Service!FillWeights(op)
      BY <1>1, <1>3, <2>3, <2>4 DEF Service!FillWeights, Job, Filled, Image, Tile, Part
    <2>6. QED BY <1>6, <2>5 DEF Service!Next
  <1>7. CASE ~(op \in Weights /\ wptr[op] < Size[op] /\ wptr'[op] >= Size[op])
    <2>1. \A o \in Weights : (wptr'[o] >= Size[o]) <=> (wptr[o] >= Size[o])
      BY <1>4, <1>5, <1>7
    <2>2. Filled' = Filled
      BY <1>1, <2>1, FilledStays
    <2>3. QED BY <1>1, <1>3, <2>2 DEF Abstract
  <1>8. QED BY <1>6, <1>7

\* The end of a load: the answer of a weight, or the start of the image.
LEMMA LoadDoneMaps ==
    ASSUME RefInv, RefInv', NEW op \in Loads, NEW r \in BOOLEAN, NEW e \in BOOLEAN,
           LoadDone(op, r, e)
    PROVE  Service!Next
  <1>1. /\ phase = "LOAD" /\ layer = op /\ CntDone(op) /\ Rewind(op)
        /\ rs1' = rs1 /\ first' = first /\ block' = block
    BY DEF LoadDone, LoadCycle
  <1>2. ~Computing /\ Job = op /\ Tile = 0 /\ Part = "fill" /\ Image = Unset
    BY <1>1 DEF Computing, Job, Tile, Part, Image
  <1>3. wptr \in [Loads -> Nat] /\ "input" \notin Weights /\ Weights \subseteq Loads
    BY DEF RefInv, IInv, TypeOK, LoaderOK, Weights, Loads
  <1>4. \A o \in Weights : wptr'[o] = wptr[o]
    BY <1>1, <1>3 DEF Rewind
  <1>5. Filled' = Filled
    BY <1>1, <1>4, FilledStays
  <1>6. CASE op = "input"
    <2>1. phase' = "MOVE" /\ layer' = "conv1" /\ Computing'
      BY <1>6 DEF LoadDone, Computing
    <2>2. Job' = "input" /\ Part' = "fill" /\ Image' = rs1
      BY <1>1, <2>1 DEF Job, Part, RefInv
    <2>3. block["conv1"] = 0
      BY <1>2 DEF RefInv, Marks, Layers, Weights
    <2>4. Tile' = 1
      BY <1>1, <2>1, <2>3, BlockCounts DEF Tile, BlocksBefore
    <2>5. Service!StartImage
      BY <1>1, <1>2, <1>5, <1>6, <2>2, <2>4
         DEF Service!StartImage, Job, Filled, Image, Tile, Part
    <2>6. QED BY <2>5 DEF Service!Next
  <1>7. CASE op # "input"
    <2>1. op \in Weights
      BY <1>7 DEF Loads
    <2>2. phase' = "IDLE" /\ ~Computing'
      BY <1>7 DEF LoadDone, Computing
    <2>3. Job' = "none" /\ Part' = "fill" /\ Image' = Unset /\ Tile' = 0
      BY <2>2 DEF Job, Part, Image, Tile
    <2>4. wptr[op] >= Size[op]
      BY <1>1, <2>1, FullMeansRead DEF RefInv, Loading
    <2>5. first[op] \in Nat
      BY <2>1, <2>4, <1>3, SizeAssumption DEF RefInv, Marks, Loads
    <2>6. Filled[op] # Unset
      BY <2>1, <2>4, <2>5 DEF RefInv, Unset
    <2>7. Service!AnswerWeights(op)
      BY <1>1, <1>2, <1>5, <2>3, <2>6
         DEF Service!AnswerWeights, Job, Filled, Image, Tile, Part
    <2>8. QED BY <2>1, <2>7 DEF Service!Next
  <1>8. QED BY <1>6, <1>7

\* A block of weights is in the array.
LEMMA MoveMaps ==
    ASSUME RefInv, RefInv', NEW l \in Layers, NEW v \in BOOLEAN, Move(l, v)
    PROVE  Service!Next \/ UNCHANGED Abstract
  <1>1. /\ phase = "MOVE" /\ layer = l /\ layer' = layer /\ block' = block
        /\ wptr' = wptr /\ first' = first /\ rs1' = rs1
    BY DEF Move, Quiet, loader
  <1>2. phase' \in {"MOVE", "CAL"}
    BY <1>1 DEF Move
  <1>3. Computing /\ Computing' /\ Filled' = Filled /\ Image' = Image
    BY <1>1, <1>2, FilledStays, ImageStays DEF Computing
  <1>4. Tile' = Tile /\ Job' = Job
    BY <1>1, <1>2, <1>3 DEF Tile, Job
  <1>5. Tile > 0 /\ Part = "fill"
    <2>1. block[l] \in Nat /\ BlocksBefore(l) \in Nat
      BY BlockCounts DEF RefInv, IInv, TypeOK, ControlOK
    <2>2. QED BY <1>1, <1>3, <2>1 DEF Tile, Part
  <1>6. CASE phase' = "MOVE"
    BY <1>1, <1>3, <1>4, <1>6 DEF Abstract, Part
  <1>7. CASE phase' = "CAL"
    <2>1. Part' = "stream"
      BY <1>7 DEF Part
    <2>2. Service!Stream
      BY <1>1, <1>3, <1>4, <1>5, <2>1 DEF Service!Stream, Job, Filled, Image, Tile, Part
    <2>3. QED BY <2>2 DEF Service!Next
  <1>8. QED BY <1>2, <1>6, <1>7

\* A block is done: the next tile, or the answer after the last.
LEMMA CalDoneMaps ==
    ASSUME RefInv, RefInv', NEW l \in Layers, NEW v \in BOOLEAN, CalDone(l, v)
    PROVE  Service!Next
  <1>1. /\ phase = "CAL" /\ layer = l /\ wptr' = wptr /\ first' = first /\ rs1' = rs1
        /\ block' = [block EXCEPT ![l] = IF LastBlock(l) THEN 0 ELSE @ + 1]
        /\ layer' = IF LastBlock(l) THEN Following(l) ELSE l
        /\ phase' = IF LastBlock(l) /\ Following(l) = "none" THEN "IDLE" ELSE "MOVE"
    BY DEF CalDone, Quiet, loader
  <1>2. /\ block \in [Layers -> Nat] /\ block[l] \in Nat /\ block[l] < Blocks[l]
        /\ Blocks[l] \in Nat \ {0} /\ BlocksBefore(l) \in Nat
        /\ BlocksBefore(l) + Blocks[l] <= Tiles /\ Tiles \in Nat
    BY BlockCounts DEF RefInv, IInv, TypeOK, ControlOK
  <1>3. Filled' = Filled
    BY <1>1, FilledStays
  <1>4. /\ Computing /\ Part = "stream" /\ Job = "input"
        /\ Tile = BlocksBefore(l) + block[l] + 1
    BY <1>1 DEF Computing, Part, Job, Tile
  <1>5. CASE LastBlock(l) /\ l = "fc2"
    <2>1. phase' = "IDLE" /\ ~Computing'
      BY <1>1, <1>5, BlockCounts DEF Computing
    <2>2. Tile = Tiles
      BY <1>2, <1>4, <1>5 DEF LastBlock, Tiles
    <2>3. Job' = "none" /\ Part' = "fill" /\ Image' = Unset /\ Tile' = 0
      BY <2>1 DEF Job, Part, Image, Tile
    <2>4. Service!AnswerImage
      BY <1>1, <1>3, <1>4, <2>2, <2>3
         DEF Service!AnswerImage, Job, Filled, Image, Tile, Part, Tiles
    <2>5. QED BY <2>4 DEF Service!Next
  <1>6. CASE ~(LastBlock(l) /\ l = "fc2")
    <2>1. LastBlock(l) => /\ Following(l) \in Layers /\ Following(l) # "none"
                          /\ BlocksBefore(Following(l)) = BlocksBefore(l) + Blocks[l]
                          /\ BlocksBefore(l) + Blocks[l] < Tiles
                          /\ Following(l) # l
      BY <1>6, BlockCounts DEF Following, Layers, Weights
    <2>2. phase' = "MOVE" /\ Computing'
      BY <1>1, <2>1 DEF Computing
    <2>3. Job' = "input" /\ Part' = "fill" /\ Image' = Image
      BY <1>1, <1>4, <2>2, ImageStays DEF Job, Part
    <2>4. Tile \in 1 .. Tiles - 1 /\ Tile' = Tile + 1
      <3>1. CASE LastBlock(l)
        <4>1. layer' = Following(l) /\ block[l] = Blocks[l] - 1
          BY <1>1, <3>1 DEF LastBlock
        <4>2. block'[Following(l)] = 0
          BY <1>1, <1>2, <2>1, <3>1 DEF RefInv, Marks
        <4>3. BlocksBefore(layer)' = BlocksBefore(Following(l))
          BY <4>1 DEF BlocksBefore
        <4>4. Tile' = BlocksBefore(Following(l)) + 0 + 1
          BY <2>2, <4>1, <4>2, <4>3 DEF Tile
        <4>5. QED BY <1>2, <1>4, <2>1, <3>1, <4>1, <4>4
      <3>2. CASE ~LastBlock(l)
        <4>1. layer' = l /\ block'[l] = block[l] + 1 /\ block[l] + 1 < Blocks[l]
          BY <1>1, <1>2, <3>2 DEF LastBlock
        <4>2. BlocksBefore(layer)' = BlocksBefore(l)
          BY <4>1 DEF BlocksBefore
        <4>3. Tile' = BlocksBefore(l) + (block[l] + 1) + 1
          BY <2>2, <4>1, <4>2 DEF Tile
        <4>4. QED BY <1>2, <1>4, <4>1, <4>3
      <3>3. QED BY <3>1, <3>2
    <2>5. Service!NextTile
      BY <1>1, <1>3, <1>4, <2>3, <2>4
         DEF Service!NextTile, Job, Filled, Image, Tile, Part, Tiles
    <2>6. QED BY <2>5 DEF Service!Next
  <1>7. QED BY <1>5, <1>6

\* Every clock of the accelerator is a step of the service or leaves it alone.
LEMMA StepMaps ==
    ASSUME RefInv, RefInv', [Next]_vars
    PROVE  Service!Next \/ UNCHANGED Abstract
  <1>1. ASSUME NEW v \in BOOLEAN, AcceptIllegal(v) PROVE UNCHANGED Abstract
    <2>1. phase' = phase /\ layer' = layer /\ block' = block /\ wptr' = wptr
          /\ first' = first /\ rs1' = rs1 /\ phase = "IDLE"
      BY <1>1 DEF AcceptIllegal, fsm, loader
    <2>2. Filled' = Filled
      BY <2>1, FilledStays
    <2>3. QED BY <2>1, <2>2 DEF Abstract, Job, Image, Tile, Part, Computing
  <1>2. ASSUME NEW op \in Loads, NEW r \in BOOLEAN, NEW e \in BOOLEAN, LoadWait(op, r, e)
        PROVE  UNCHANGED Abstract
    <2>1. /\ phase' = phase /\ layer' = layer /\ block' = block /\ first' = first
          /\ rs1' = rs1 /\ phase = "LOAD"
      BY <1>2 DEF LoadWait, LoadCycle, fsm
    <2>2. wptr \in [Loads -> Nat] /\ "input" \notin Weights /\ Weights \subseteq Loads
      BY DEF RefInv, IInv, TypeOK, LoaderOK, Weights, Loads
    <2>3. \A o \in Weights : wptr'[o] = wptr[o]
      BY <1>2, <2>2 DEF LoadWait, Rewind
    <2>4. Filled' = Filled
      BY <2>1, <2>3, FilledStays
    <2>5. QED BY <2>1, <2>4 DEF Abstract, Job, Image, Tile, Part, Computing
  <1>3. ASSUME NEW l \in Layers, NEW v \in BOOLEAN, CalCount(l, v) PROVE UNCHANGED Abstract
    <2>1. /\ phase' = phase /\ layer' = layer /\ block' = block /\ wptr' = wptr
          /\ first' = first /\ rs1' = rs1
      BY <1>3 DEF CalCount, Quiet, fsm, loader
    <2>2. Filled' = Filled /\ Image' = Image /\ (Computing' <=> Computing)
      BY <2>1, FilledStays, ImageStays DEF Computing
    <2>3. BlocksBefore(layer)' = BlocksBefore(layer)
      BY <2>1 DEF BlocksBefore
    <2>4. QED BY <2>1, <2>2, <2>3 DEF Abstract, Job, Tile, Part
  <1>4. CASE UNCHANGED vars
    <2>1. /\ phase' = phase /\ layer' = layer /\ block' = block /\ wptr' = wptr
          /\ first' = first /\ rs1' = rs1
      BY <1>4 DEF vars, fsm, loader, core
    <2>2. Filled' = Filled /\ Image' = Image /\ (Computing' <=> Computing)
      BY <2>1, FilledStays, ImageStays DEF Computing
    <2>3. BlocksBefore(layer)' = BlocksBefore(layer)
      BY <2>1 DEF BlocksBefore
    <2>4. QED BY <2>1, <2>2, <2>3 DEF Abstract, Job, Tile, Part
  <1>5. QED BY <1>1, <1>2, <1>3, <1>4, AcceptMaps, LoadBeatMaps, LoadDoneMaps, MoveMaps,
              CalDoneMaps, MemoryAssumption DEF Next

\* The accelerator, with its loaders, counters and memory port, does what the
\* instruction set promises, for every size and every memory.
THEOREM Implements == Spec => ImplementsService
  <1>1. Init => Service!Init
    <2>1. SUFFICES ASSUME Init PROVE Service!Init
      OBVIOUS
    <2>2. /\ phase = "IDLE" /\ rs1 = Unset
          /\ \A op \in Weights : ~(wptr[op] >= Size[op])
      <3>1. phase = "IDLE" /\ rs1 = Unset /\ wptr = [op \in Loads |-> 0]
        BY <2>1 DEF Init
      <3>2. ASSUME NEW op \in Weights PROVE ~(wptr[op] >= Size[op])
        <4>1. op \in Loads
          BY DEF Loads
        <4>2. Size[op] \in Nat \ {0}
          BY <4>1, SizeAssumption
        <4>3. wptr[op] = 0
          BY <4>1, <3>1
        <4>4. QED BY <4>2, <4>3
      <3>3. QED BY <3>1, <3>2
    <2>3. ~Computing
      BY <2>2 DEF Computing
    <2>4. QED BY <2>2, <2>3 DEF Service!Init
  <1>2. RefInv /\ RefInv' /\ [Next]_vars => [Service!Next]_Service!vars
    BY StepMaps, ServiceStutter
  <1>3. QED BY <1>1, <1>2, RefInvariance, PTL DEF Spec, ImplementsService, Service!Spec
=============================================================================
