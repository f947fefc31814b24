----------------------------- MODULE Cdc_proof -------------------------------
(* The clock crossing is a channel, for synchronisers of any length and any *)
(* words.                                                                   *)
EXTENDS Cdc, TLAPS

\* What is shifted into a chain in which every flop has that level changes
\* nothing.
LEMMA StillChain ==
    ASSUME NEW b \in BOOLEAN, NEW c \in [Stages -> BOOLEAN], All(c, b)
    PROVE  All(Shift(c, b), b)
  BY SyncAssumption DEF All, Shift, Stages

\* An edge moves on and stays the only one.
LEMMA MovingEdge ==
    ASSUME NEW b \in BOOLEAN, NEW c \in [Stages -> BOOLEAN], Edge(c, b)
    PROVE  Edge(Shift(c, b), b)
  <1> SUFFICES ASSUME NEW j \in Stages, NEW k \in Stages, j < k, Shift(c, b)[k] = b
               PROVE  Shift(c, b)[j] = b
    BY DEF Edge
  <1>1. CASE j = 1
    BY <1>1 DEF Shift, Stages
  <1>2. CASE j # 1
    <2>1. j - 1 \in Stages /\ k - 1 \in Stages /\ j - 1 < k - 1 /\ k # 1
      BY <1>2, SyncAssumption DEF Stages
    <2>2. Shift(c, b)[k] = c[k - 1] /\ Shift(c, b)[j] = c[j - 1]
      BY <1>2, <2>1 DEF Shift
    <2>3. QED BY <2>1, <2>2 DEF Edge
  <1>3. QED BY <1>1, <1>2

\* An edge that has reached the synchroniser's last flop has passed all of
\* the chain with the next tick.
LEMMA ArrivedEdge ==
    ASSUME NEW b \in BOOLEAN, NEW c \in [Stages -> BOOLEAN], Edge(c, b), c[Sync] = b
    PROVE  All(Shift(c, b), b)
  <1> SUFFICES ASSUME NEW k \in Stages PROVE Shift(c, b)[k] = b
    BY DEF All
  <1>1. CASE k = 1
    BY <1>1 DEF Shift
  <1>2. CASE k # 1
    <2>1. k - 1 \in Stages /\ Sync \in Stages /\ (k - 1 < Sync \/ k - 1 = Sync)
      BY <1>2, SyncAssumption DEF Stages
    <2>2. c[k - 1] = b
      BY <2>1 DEF Edge
    <2>3. QED BY <1>2, <2>2 DEF Shift
  <1>3. QED BY <1>1, <1>2

\* A chain with one level everywhere is the start of an edge to any other.
LEMMA NoEdgeYet ==
    ASSUME NEW b \in BOOLEAN, NEW d \in BOOLEAN, NEW c \in [Stages -> BOOLEAN], All(c, b)
    PROVE  Edge(c, d)
  BY DEF All, Edge

\* A shifted chain is a chain.
LEMMA ShiftTyping ==
    ASSUME NEW b \in BOOLEAN, NEW c \in [Stages -> BOOLEAN]
    PROVE  Shift(c, b) \in [Stages -> BOOLEAN]
  BY SyncAssumption DEF Shift, Stages

\* The last two flops of a chain exist.
LEMMA LastFlops == Sync \in Stages /\ Sync + 1 \in Stages /\ Sync < Sync + 1
  BY SyncAssumption DEF Stages

-----------------------------------------------------------------------------
IInv == TypeOK /\ FourPhases

\* Reset is the last phase, at rest.
LEMMA InitInv == Init => IInv
  <1> SUFFICES ASSUME Init PROVE IInv
    OBVIOUS
  <1>1. TypeOK
    BY DEF Init, TypeOK
  <1>2. All(vldChain, FALSE) /\ All(rdyChain, FALSE)
    BY DEF Init, All
  <1>3. Edge(rdyChain, FALSE)
    BY <1>1, <1>2, NoEdgeYet DEF TypeOK
  <1>4. FourPhases
    BY <1>2, <1>3 DEF Init, FourPhases
  <1>5. QED BY <1>1, <1>4 DEF IInv

\* A step is a tick of one side, or of both.
LEMMA Sides ==
    ASSUME [Next]_vars
    PROVE  (TxClock \/ UNCHANGED tx) /\ (RxClock \/ UNCHANGED rx)
  BY DEF Next, TxOnly, RxOnly, Together, vars

\* The registers of the transmitter keep their types.
LEMMA TxTyping ==
    ASSUME TypeOK, TxClock \/ UNCHANGED tx
    PROVE  /\ vld' \in BOOLEAN /\ dat' \in Data /\ nrdy' \in BOOLEAN
           /\ rdyChain' \in [Stages -> BOOLEAN]
           /\ inp' \in [word : Data, odd : BOOLEAN]
  <1>1. CASE UNCHANGED tx
    BY <1>1 DEF tx, TypeOK
  <1>2. CASE TxClock
    <2>1. PICK put \in BOOLEAN, d \in Data : TxTick(put, d)
      BY <1>2 DEF TxClock
    <2>2. rdyChain' \in [Stages -> BOOLEAN]
      BY <2>1, ShiftTyping DEF TxTick, TypeOK
    <2>3. vld' \in BOOLEAN /\ dat' \in Data /\ nrdy' \in BOOLEAN
      BY <2>1 DEF TxTick, TypeOK
    <2>4. inp' \in [word : Data, odd : BOOLEAN]
      BY <2>1 DEF TxTick, TypeOK, Turn
    <2>5. QED BY <2>2, <2>3, <2>4
  <1>3. QED BY <1>1, <1>2

\* The registers of the receiver keep their types.
LEMMA RxTyping ==
    ASSUME TypeOK, RxClock \/ UNCHANGED rx
    PROVE  /\ rdy' \in BOOLEAN /\ bufVld' \in BOOLEAN /\ bufDat' \in Data
           /\ vldChain' \in [Stages -> BOOLEAN]
           /\ out' \in [word : Data, odd : BOOLEAN]
  <1>1. CASE UNCHANGED rx
    BY <1>1 DEF rx, TypeOK
  <1>2. CASE RxClock
    <2>1. PICK get \in BOOLEAN : RxTick(get)
      BY <1>2 DEF RxClock
    <2>2. vldChain' \in [Stages -> BOOLEAN]
      BY <2>1, ShiftTyping DEF RxTick, TypeOK
    <2>3. rdy' \in BOOLEAN /\ bufVld' \in BOOLEAN /\ bufDat' \in Data
      BY <2>1 DEF RxTick, TypeOK
    <2>4. out' \in [word : Data, odd : BOOLEAN]
      BY <2>1 DEF RxTick, TypeOK, Turn
    <2>5. QED BY <2>2, <2>3, <2>4
  <1>3. QED BY <1>1, <1>2

\* There is no falling edge to be seen in a chain that is filling up.
LEMMA NoNegEdge ==
    ASSUME NEW c \in [Stages -> BOOLEAN], Edge(c, TRUE)
    PROVE  ~NegEdge(c)
  BY LastFlops DEF Edge, NegEdge

\* What the transmitter does in each of the four phases.
LEMMA TxStep ==
    ASSUME IInv, TxClock \/ UNCHANGED tx
    PROVE  /\ vld /\ ~rdy  => vld' /\ nrdy' /\ All(rdyChain', FALSE)
           /\ vld /\ rdy   => nrdy' /\ Edge(rdyChain', TRUE) /\ (vld' \/ All(rdyChain', TRUE))
           /\ ~vld /\ rdy  => ~vld' /\ nrdy' /\ All(rdyChain', TRUE)
           /\ ~vld /\ ~rdy => /\ Edge(rdyChain', FALSE)
                              /\ vld' => nrdy' /\ All(rdyChain', FALSE)
                              /\ ~vld' => IF nrdy' THEN rdyChain'[Sync + 1]
                                                   ELSE All(rdyChain', FALSE)
  <1>0. TypeOK /\ FourPhases /\ rdyChain \in [Stages -> BOOLEAN]
    BY DEF IInv, TypeOK
  <1>1. CASE UNCHANGED tx
    BY <1>0, <1>1 DEF tx, FourPhases
  <1>2. CASE TxClock
    <2>1. PICK put \in BOOLEAN, d \in Data : TxTick(put, d)
      BY <1>2 DEF TxClock
    <2>2. CASE vld /\ ~rdy
      <3>1. nrdy /\ All(rdyChain, FALSE)
        BY <1>0, <2>2 DEF FourPhases
      <3>2. All(Shift(rdyChain, FALSE), FALSE)
        BY <1>0, <3>1, StillChain
      <3>3. ~Synced(rdyChain) /\ ~NegEdge(rdyChain)
        BY <3>1, LastFlops DEF All, Synced, NegEdge
      <3>4. rdyChain' = Shift(rdyChain, FALSE)
        BY <1>0, <2>1, <2>2 DEF TxTick, TypeOK
      <3>5. vld' /\ nrdy'
        BY <2>1, <2>2, <3>1, <3>3 DEF TxTick
      <3>6. QED BY <2>2, <3>2, <3>4, <3>5
    <2>3. CASE vld /\ rdy
      <3>1. nrdy /\ Edge(rdyChain, TRUE)
        BY <1>0, <2>3 DEF FourPhases
      <3>2. rdyChain' = Shift(rdyChain, TRUE)
        BY <1>0, <2>1, <2>3 DEF TxTick, TypeOK
      <3>3. Edge(rdyChain', TRUE) /\ ~NegEdge(rdyChain)
        BY <1>0, <3>1, <3>2, MovingEdge, NoNegEdge
      <3>4. nrdy' /\ (vld' \/ Synced(rdyChain))
        BY <2>1, <2>3, <3>1, <3>3 DEF TxTick
      <3>5. Synced(rdyChain) => rdyChain[Sync] = TRUE
        BY <1>0, LastFlops DEF Synced
      <3>6. Synced(rdyChain) => All(rdyChain', TRUE)
        BY <1>0, <3>1, <3>2, <3>5, ArrivedEdge
      <3>7. QED BY <2>3, <3>3, <3>4, <3>6
    <2>4. CASE ~vld /\ rdy
      <3>1. nrdy /\ All(rdyChain, TRUE)
        BY <1>0, <2>4 DEF FourPhases
      <3>2. rdyChain' = Shift(rdyChain, TRUE)
        BY <1>0, <2>1, <2>4 DEF TxTick, TypeOK
      <3>3. All(rdyChain', TRUE)
        BY <1>0, <3>1, <3>2, StillChain
      <3>4. ~NegEdge(rdyChain)
        BY <3>1, LastFlops DEF All, NegEdge
      <3>5. ~vld' /\ nrdy'
        BY <2>1, <2>4, <3>1, <3>4 DEF TxTick, TxReady
      <3>6. QED BY <2>4, <3>3, <3>5
    <2>5. CASE ~vld /\ ~rdy
      <3>1. Edge(rdyChain, FALSE) /\ IF nrdy THEN rdyChain[Sync + 1] ELSE All(rdyChain, FALSE)
        BY <1>0, <2>5 DEF FourPhases
      <3>2. rdyChain' = Shift(rdyChain, FALSE)
        BY <1>0, <2>1, <2>5 DEF TxTick, TypeOK
      <3>3. Edge(rdyChain', FALSE)
        BY <1>0, <3>1, <3>2, MovingEdge
      <3>4. CASE ~nrdy
        <4>1. All(rdyChain', FALSE)
          BY <1>0, <3>1, <3>2, <3>4, StillChain
        <4>2. vld' => nrdy'
          BY <2>1, <2>5 DEF TxTick
        <4>3. ~vld' => ~nrdy'
          BY <2>1, <3>4 DEF TxTick
        <4>4. QED BY <2>5, <3>3, <4>1, <4>2, <4>3
      <3>5. CASE nrdy /\ NegEdge(rdyChain)
        <4>1. rdyChain[Sync] = FALSE
          BY <1>0, <3>5, LastFlops DEF NegEdge
        <4>2. All(rdyChain', FALSE)
          BY <1>0, <3>1, <3>2, <4>1, ArrivedEdge
        <4>3. (vld' => nrdy') /\ (~vld' => ~nrdy')
          BY <2>1, <2>5, <3>5 DEF TxTick
        <4>4. QED BY <2>5, <3>3, <4>2, <4>3
      <3>6. CASE nrdy /\ ~NegEdge(rdyChain)
        <4>1. rdyChain[Sync]
          BY <3>1, <3>6 DEF NegEdge
        <4>2. rdyChain'[Sync + 1] = rdyChain[Sync]
          <5>1. Sync + 1 # 1 /\ (Sync + 1) - 1 = Sync
            BY SyncAssumption
          <5>2. QED BY <3>2, <5>1, LastFlops DEF Shift
        <4>3. ~vld' /\ nrdy'
          BY <2>1, <2>5, <3>6 DEF TxTick, TxReady
        <4>4. QED BY <2>5, <3>3, <4>1, <4>2, <4>3
      <3>7. QED BY <3>4, <3>5, <3>6
    <2>6. QED BY <2>2, <2>3, <2>4, <2>5
  <1>3. QED BY <1>1, <1>2

\* What the receiver does in each of the four phases.
LEMMA RxStep ==
    ASSUME IInv, RxClock \/ UNCHANGED rx
    PROVE  /\ vld /\ ~rdy  => Edge(vldChain', TRUE) /\ (rdy' => All(vldChain', TRUE))
           /\ vld /\ rdy   => rdy' /\ All(vldChain', TRUE)
           /\ ~vld /\ rdy  => Edge(vldChain', FALSE) /\ (~rdy' => All(vldChain', FALSE))
           /\ ~vld /\ ~rdy => ~rdy' /\ All(vldChain', FALSE)
  <1>0. TypeOK /\ FourPhases /\ vldChain \in [Stages -> BOOLEAN]
    BY DEF IInv, TypeOK
  <1>1. CASE UNCHANGED rx
    BY <1>0, <1>1 DEF rx, FourPhases
  <1>2. CASE RxClock
    <2>1. PICK get \in BOOLEAN : RxTick(get)
      BY <1>2 DEF RxClock
    <2>2. CASE vld /\ ~rdy
      <3>1. Edge(vldChain, TRUE)
        BY <1>0, <2>2 DEF FourPhases
      <3>2. vldChain' = Shift(vldChain, TRUE)
        BY <1>0, <2>1, <2>2 DEF RxTick, TypeOK
      <3>3. Edge(vldChain', TRUE)
        BY <1>0, <3>1, <3>2, MovingEdge
      <3>4. rdy' => vldChain[Sync] = TRUE
        BY <1>0, <2>1, <2>2, LastFlops DEF RxTick, RxLoads, Synced
      <3>5. rdy' => All(vldChain', TRUE)
        BY <1>0, <3>1, <3>2, <3>4, ArrivedEdge
      <3>6. QED BY <2>2, <3>3, <3>5
    <2>3. CASE vld /\ rdy
      <3>1. All(vldChain, TRUE)
        BY <1>0, <2>3 DEF FourPhases
      <3>2. vldChain' = Shift(vldChain, TRUE)
        BY <1>0, <2>1, <2>3 DEF RxTick, TypeOK
      <3>3. All(vldChain', TRUE)
        BY <1>0, <3>1, <3>2, StillChain
      <3>4. ~NegEdge(vldChain)
        BY <3>1, LastFlops DEF All, NegEdge
      <3>5. rdy'
        BY <2>1, <2>3, <3>4 DEF RxTick
      <3>6. QED BY <2>3, <3>3, <3>5
    <2>4. CASE ~vld /\ rdy
      <3>1. Edge(vldChain, FALSE)
        BY <1>0, <2>4 DEF FourPhases
      <3>2. vldChain' = Shift(vldChain, FALSE)
        BY <1>0, <2>1, <2>4 DEF RxTick, TypeOK
      <3>3. Edge(vldChain', FALSE)
        BY <1>0, <3>1, <3>2, MovingEdge
      <3>4. ~rdy' => vldChain[Sync] = FALSE
        BY <1>0, <2>1, <2>4, LastFlops DEF RxTick, NegEdge
      <3>5. ~rdy' => All(vldChain', FALSE)
        BY <1>0, <3>1, <3>2, <3>4, ArrivedEdge
      <3>6. QED BY <2>4, <3>3, <3>5
    <2>5. CASE ~vld /\ ~rdy
      <3>1. All(vldChain, FALSE)
        BY <1>0, <2>5 DEF FourPhases
      <3>2. vldChain' = Shift(vldChain, FALSE)
        BY <1>0, <2>1, <2>5 DEF RxTick, TypeOK
      <3>3. All(vldChain', FALSE)
        BY <1>0, <3>1, <3>2, StillChain
      <3>4. ~RxLoads
        BY <3>1, LastFlops DEF All, RxLoads, Synced
      <3>5. ~rdy'
        BY <2>1, <2>5, <3>4 DEF RxTick
      <3>6. QED BY <2>5, <3>3, <3>5
    <2>6. QED BY <2>2, <2>3, <2>4, <2>5
  <1>3. QED BY <1>1, <1>2

\* The phases follow one another, whichever clocks tick.
LEMMA NextInv == IInv /\ [Next]_vars => IInv'
  <1> SUFFICES ASSUME IInv, [Next]_vars PROVE IInv'
    OBVIOUS
  <1>0. TypeOK /\ FourPhases /\ (TxClock \/ UNCHANGED tx) /\ (RxClock \/ UNCHANGED rx)
    BY Sides DEF IInv
  <1>1. TypeOK'
    BY <1>0, TxTyping, RxTyping DEF TypeOK
  <1>2. vldChain' \in [Stages -> BOOLEAN] /\ rdyChain' \in [Stages -> BOOLEAN]
    BY <1>1 DEF TypeOK
  <1>3. \A b \in BOOLEAN, d \in BOOLEAN :
          /\ All(vldChain', b) => Edge(vldChain', d)
          /\ All(rdyChain', b) => Edge(rdyChain', d)
    BY <1>2, NoEdgeYet
  <1>4. CASE vld /\ ~rdy
    <2>1. /\ vld' /\ nrdy' /\ All(rdyChain', FALSE)
          /\ Edge(vldChain', TRUE) /\ (rdy' => All(vldChain', TRUE))
      BY <1>0, <1>4, TxStep, RxStep
    <2>2. Edge(rdyChain', TRUE)
      BY <2>1, <1>3
    <2>3. FourPhases'
      BY <2>1, <2>2 DEF FourPhases
    <2>4. QED BY <1>1, <2>3 DEF IInv
  <1>5. CASE vld /\ rdy
    <2>1. /\ nrdy' /\ Edge(rdyChain', TRUE) /\ (vld' \/ All(rdyChain', TRUE))
          /\ rdy' /\ All(vldChain', TRUE)
      BY <1>0, <1>5, TxStep, RxStep
    <2>2. Edge(vldChain', FALSE)
      BY <2>1, <1>3
    <2>3. FourPhases'
      BY <2>1, <2>2 DEF FourPhases
    <2>4. QED BY <1>1, <2>3 DEF IInv
  <1>6. CASE ~vld /\ rdy
    <2>1. /\ ~vld' /\ nrdy' /\ All(rdyChain', TRUE)
          /\ Edge(vldChain', FALSE) /\ (~rdy' => All(vldChain', FALSE))
      BY <1>0, <1>6, TxStep, RxStep
    <2>2. Edge(rdyChain', FALSE) /\ rdyChain'[Sync + 1]
      BY <2>1, <1>3, LastFlops DEF All
    <2>3. FourPhases'
      BY <2>1, <2>2 DEF FourPhases
    <2>4. QED BY <1>1, <2>3 DEF IInv
  <1>7. CASE ~vld /\ ~rdy
    <2>1. /\ Edge(rdyChain', FALSE) /\ (vld' => nrdy' /\ All(rdyChain', FALSE))
          /\ ~vld' => IF nrdy' THEN rdyChain'[Sync + 1] ELSE All(rdyChain', FALSE)
          /\ ~rdy' /\ All(vldChain', FALSE)
      BY <1>0, <1>7, TxStep, RxStep
    <2>2. Edge(vldChain', TRUE)
      BY <2>1, <1>3
    <2>3. FourPhases'
      BY <2>1, <2>2 DEF FourPhases
    <2>4. QED BY <1>1, <2>3 DEF IInv
  <1>8. QED BY <1>4, <1>5, <1>6, <1>7

\* With synchronisers of any length, each level changes only when the other
\* side's chain has come to rest: the four phases of the handshake comment.
THEOREM PhasesHold == Spec => []FourPhases
  <1>1. IInv => FourPhases
    BY DEF IInv
  <1>2. QED BY <1>1, InitInv, NextInv, PTL DEF Spec

-----------------------------------------------------------------------------
(* The refinement: what a step does to the words on their way. *)

\* The transmitter accepts a word at rest, or keeps what it has until the
\* receiver has loaded it.
Accepts == /\ ~vld /\ ~rdy /\ vld' /\ dat' \in Data
           /\ inp' = Turn(inp, dat')
Holds == /\ inp' = inp
         /\ vld' => vld
         /\ vld /\ ~rdy => vld' /\ dat' = dat

\* The receiver loads the transmitter's word, gives away its own, or waits.
Loads == /\ vld /\ ~rdy /\ rdy' /\ ~bufVld /\ bufVld' /\ bufDat' = dat
         /\ out' = out
Calm  == (rdy' => rdy) /\ (vld /\ rdy => rdy')
Gives == Calm /\ bufVld /\ ~bufVld' /\ out' = Turn(out, bufDat)
Waits == Calm /\ bufVld' = bufVld /\ bufDat' = bufDat /\ out' = out

\* A clock of the transmitter accepts a word, or changes nothing the channel shows.
LEMMA TxEffect ==
    ASSUME IInv, TxClock \/ UNCHANGED tx
    PROVE  Accepts \/ Holds
  <1>0. TypeOK /\ FourPhases
    BY DEF IInv
  <1>1. CASE UNCHANGED tx
    BY <1>1 DEF tx, Holds
  <1>2. CASE TxClock
    <2>1. PICK put \in BOOLEAN, d \in Data : TxTick(put, d)
      BY <1>2 DEF TxClock
    <2>2. CASE put /\ TxReady
      <3>1. ~vld /\ ~rdy
        <4>1. ~(vld /\ ~rdy)
          BY <1>0, <2>2, LastFlops DEF FourPhases, TxReady, NegEdge, All
        <4>2. ~(vld /\ rdy)
          <5>1. rdyChain \in [Stages -> BOOLEAN]
            BY <1>0 DEF TypeOK
          <5>2. QED BY <1>0, <2>2, <5>1, NoNegEdge DEF FourPhases, TxReady
        <4>3. ~(~vld /\ rdy)
          BY <1>0, <2>2, LastFlops DEF FourPhases, TxReady, NegEdge, All
        <4>4. QED BY <4>1, <4>2, <4>3
      <3>2. vld' /\ dat' = d /\ inp' = Turn(inp, d)
        BY <2>1, <2>2 DEF TxTick
      <3>3. QED BY <3>1, <3>2 DEF Accepts
    <2>3. CASE ~(put /\ TxReady)
      <3>1. dat' = dat /\ inp' = inp /\ (vld' => vld)
        BY <2>1, <2>3 DEF TxTick
      <3>2. vld /\ ~rdy => vld'
        BY <1>0, <1>2, TxStep
      <3>3. QED BY <3>1, <3>2 DEF Holds
    <2>4. QED BY <2>2, <2>3
  <1>3. QED BY <1>1, <1>2

\* A clock of the receiver loads a word, delivers one, or changes nothing.
LEMMA RxEffect ==
    ASSUME IInv, RxClock \/ UNCHANGED rx
    PROVE  Loads \/ Gives \/ Waits
  <1>0. TypeOK /\ FourPhases
    BY DEF IInv
  <1>1. CASE UNCHANGED rx
    BY <1>1 DEF rx, Waits, Calm
  <1>2. CASE RxClock
    <2>1. PICK get \in BOOLEAN : RxTick(get)
      BY <1>2 DEF RxClock
    <2>2. CASE RxLoads
      <3>1. vld /\ ~rdy
        BY <1>0, <2>2, LastFlops DEF FourPhases, RxLoads, Synced, All
      <3>2. rdy' /\ ~bufVld /\ bufVld' /\ bufDat' = dat /\ out' = out
        BY <2>1, <2>2 DEF RxTick, RxLoads
      <3>3. QED BY <3>1, <3>2 DEF Loads
    <2>3. CASE ~RxLoads
      <3>1. Calm
        <4>1. rdy' => rdy
          BY <2>1, <2>3 DEF RxTick
        <4>2. vld /\ rdy => rdy'
          BY <1>2, RxStep
        <4>3. QED BY <4>1, <4>2 DEF Calm
      <3>2. bufDat' = bufDat
        BY <2>1, <2>3 DEF RxTick
      <3>3. CASE bufVld /\ get
        <4>1. ~bufVld' /\ out' = Turn(out, bufDat)
          BY <2>1, <2>3, <3>3 DEF RxTick
        <4>2. QED BY <3>1, <3>3, <4>1 DEF Gives
      <3>4. CASE ~(bufVld /\ get)
        <4>1. out' = out /\ bufVld' = bufVld
          BY <1>0, <2>1, <2>3, <3>4 DEF RxTick, TypeOK
        <4>2. QED BY <3>1, <3>2, <4>1 DEF Waits
      <3>5. QED BY <3>3, <3>4
    <2>4. QED BY <2>2, <2>3
  <1>3. QED BY <1>1, <1>2

\* Every step of the crossing is a step of the channel, or none.
LEMMA NextRefines == IInv /\ [Next]_vars => [Chan!Next]_(Chan!cvars)
  <1> SUFFICES ASSUME IInv, [Next]_vars PROVE [Chan!Next]_(Chan!cvars)
    OBVIOUS
  <1>1. (Accepts \/ Holds) /\ (Loads \/ Gives \/ Waits)
    BY Sides, TxEffect, RxEffect
  <1>2. CASE Accepts /\ Gives
    <2>1. /\ Contents = <<bufDat>> /\ Contents' = <<dat'>>
          /\ out' = Turn(out, bufDat) /\ inp' = Turn(inp, dat') /\ dat' \in Data
      BY <1>2 DEF Accepts, Gives, Calm, Contents, Pending
    <2>2. Chan!Both(dat')
      BY <2>1 DEF Chan!Both, Chan!Turn, Turn
    <2>3. QED BY <2>1, <2>2 DEF Chan!Next
  <1>3. CASE Accepts /\ Waits
    <2>1. /\ Contents = IF bufVld THEN <<bufDat>> ELSE <<>>
          /\ Contents' = IF bufVld THEN <<bufDat, dat'>> ELSE <<dat'>>
          /\ out' = out /\ inp' = Turn(inp, dat') /\ dat' \in Data
      BY <1>3 DEF Accepts, Waits, Calm, Contents, Pending
    <2>2. CASE bufVld
      <3>1. Contents = <<bufDat>> /\ Contents' = <<bufDat, dat'>>
        BY <2>1, <2>2
      <3>2. Len(Contents) < 2 /\ Contents' = Append(Contents, dat')
        BY <3>1
      <3>3. Chan!Send(dat')
        BY <2>1, <3>2 DEF Chan!Send, Chan!Turn, Turn
      <3>4. QED BY <2>1, <3>3 DEF Chan!Next
    <2>3. CASE ~bufVld
      <3>1. Contents = <<>> /\ Contents' = <<dat'>>
        BY <2>1, <2>3
      <3>2. Len(Contents) < 2 /\ Contents' = Append(Contents, dat')
        BY <3>1
      <3>3. Chan!Send(dat')
        BY <2>1, <3>2 DEF Chan!Send, Chan!Turn, Turn
      <3>4. QED BY <2>1, <3>3 DEF Chan!Next
    <2>4. QED BY <2>2, <2>3
  <1>4. CASE Holds /\ Loads
    <2>1. Contents' = Contents /\ out' = out /\ inp' = inp
      BY <1>4 DEF Holds, Loads, Contents, Pending
    <2>2. QED BY <2>1 DEF Chan!cvars
  <1>5. CASE Holds /\ Gives
    <2>1. /\ Contents = IF Pending THEN <<bufDat, dat>> ELSE <<bufDat>>
          /\ Contents' = IF Pending THEN <<dat>> ELSE <<>>
          /\ out' = Turn(out, bufDat) /\ inp' = inp
      BY <1>5 DEF Holds, Gives, Calm, Contents, Pending
    <2>2. Chan!Receive
      BY <2>1 DEF Chan!Receive, Chan!Turn, Turn
    <2>3. QED BY <2>2 DEF Chan!Next
  <1>6. CASE Holds /\ Waits
    <2>1. Contents' = Contents /\ out' = out /\ inp' = inp
      BY <1>6 DEF Holds, Waits, Calm, Contents, Pending
    <2>2. QED BY <2>1 DEF Chan!cvars
  <1>7. CASE Accepts /\ Loads
    BY <1>7 DEF Accepts, Loads
  <1>8. QED BY <1>1, <1>2, <1>3, <1>4, <1>5, <1>6, <1>7

\* The crossing implements the channel: with synchronisers of any length
\* and at any ratio of the clocks, every word the transmitter accepts is
\* delivered once and in order.
THEOREM CrossingIsChannel == Spec => IsChannel
  <1>1. Init => Chan!Init
    BY DEF Init, Chan!Init, Contents, Pending
  <1>2. QED
    BY <1>1, InitInv, NextInv, NextRefines, PTL DEF Spec, IsChannel, Chan!Spec
=============================================================================
