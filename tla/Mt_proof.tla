------------------------------ MODULE Mt_proof ------------------------------
(***************************************************************************)
(* Proofs about the barrier and about the multi-core programs that call    *)
(* it, for any number of cores: the barrier implements Rendezvous, what it *)
(* promises holds of the programs, and a program has no race if none of    *)
(* its stretches conflicts with the stretches of the same number of the    *)
(* other cores.                                                            *)
(***************************************************************************)
EXTENDS Mt, FiniteSetTheorems, TLAPS

-----------------------------------------------------------------------------
(* The barrier *)

\* The cores that have been counted in round g.
Counted(g) == {c \in Cores : at[c] \in {"spin", "last"} /\ round[c] = g}

\* Round g is being gathered: who is out has yet to come, who spins has come or has
\* yet to see that round g-1 is over, and the last one comes when all others spin.
Gathering(g) ==
    /\ count = Cardinality(Counted(g))
    /\ \A c \in Cores :
        /\ at[c] # "reset"
        /\ at[c] = "out" => round[c] = g /\ threadsense[c] = sense
        /\ at[c] = "spin" => \/ round[c] = g /\ threadsense[c] # sense
                             \/ round[c] + 1 = g /\ threadsense[c] = sense
        /\ at[c] = "last" => /\ round[c] = g /\ threadsense[c] # sense
                             /\ \A d \in Cores \ {c} : at[d] = "spin" /\ round[d] = g

\* Core c has cleared the counter; all others spin in the same round.
Closing(g, c) ==
    /\ count = 0
    /\ at[c] = "reset"
    /\ \A d \in Cores : round[d] = g /\ threadsense[d] # sense
    /\ \A d \in Cores \ {c} : at[d] = "spin"

Phase(g) == Gathering(g) \/ \E c \in Cores : Closing(g, c)

BInv == TypeOK /\ \E g \in Nat : Phase(g)

-----------------------------------------------------------------------------
\* A core that is not counted and finds n-1 counted is the only one.
LEMMA AllCounted ==
    ASSUME NEW S, IsFiniteSet(S), NEW T \in SUBSET S, NEW x \in S, x \notin T,
           Cardinality(T) = Cardinality(S) - 1
    PROVE  T = S \ {x}
<1>1. IsFiniteSet(S \ {x}) /\ Cardinality(S \ {x}) = Cardinality(S) - 1
  BY FS_RemoveElement
<1>2. T \in SUBSET (S \ {x})
  OBVIOUS
<1> QED BY <1>1, <1>2, FS_Subset

\* What is counted is a finite set of cores.
LEMMA CountedFinite ==
    ASSUME NEW g
    PROVE  IsFiniteSet(Counted(g)) /\ Cardinality(Counted(g)) \in Nat
<1>1. Counted(g) \in SUBSET Cores
  BY DEF Counted
<1>2. IsFiniteSet(Counted(g))
  BY <1>1, CoresAssumption, FS_Subset
<1> QED BY <1>2, FS_CardinalityType

\* There is a core.
LEMMA NCores == ncores \in Nat \ {0}
<1>1. ncores \in Nat
  BY CoresAssumption, FS_CardinalityType DEF ncores
<1>2. ncores # 0
  BY CoresAssumption, FS_EmptySet DEF ncores
<1> QED BY <1>1, <1>2

\* A step of the barrier keeps the types.
LEMMA BTypeStep == TypeOK /\ [BNext]_bvars => TypeOK'
<1> SUFFICES ASSUME TypeOK, [BNext]_bvars PROVE TypeOK'
  OBVIOUS
<1>1. CASE UNCHANGED bvars
  BY <1>1 DEF TypeOK, bvars
<1>2. ASSUME NEW c \in Cores, Enter(c) PROVE TypeOK'
  <2>1. count' \in Nat /\ sense' \in BOOLEAN /\ round' \in [Cores -> Nat]
    BY <1>2 DEF TypeOK, Enter
  <2>2. threadsense' \in [Cores -> BOOLEAN]
    BY <1>2 DEF TypeOK, Enter
  <2>3. at' \in [Cores -> Places]
    BY <1>2 DEF TypeOK, Enter, Places
  <2> QED BY <2>1, <2>2, <2>3 DEF TypeOK
<1>3. ASSUME NEW c \in Cores, Reset(c) PROVE TypeOK'
  BY <1>3 DEF TypeOK, Reset, Places
<1>4. ASSUME NEW c \in Cores, Release(c) PROVE TypeOK'
  BY <1>4 DEF TypeOK, Release, Places
<1>5. ASSUME NEW c \in Cores, Spin(c) PROVE TypeOK'
  BY <1>5 DEF TypeOK, Spin, bvars
<1>6. ASSUME NEW c \in Cores, Leave(c) PROVE TypeOK'
  BY <1>6 DEF TypeOK, Leave, Places
<1> QED BY <1>1, <1>2, <1>3, <1>4, <1>5, <1>6 DEF BNext

-----------------------------------------------------------------------------
\* A core that comes before the last one is counted and spins.
LEMMA EnterSpins ==
    ASSUME TypeOK, NEW g \in Nat, Gathering(g), NEW c \in Cores, Enter(c),
           count # ncores - 1
    PROVE  Gathering(g)'
<1>1. c \notin Counted(g) /\ round[c] = g /\ threadsense[c] = sense
  BY DEF Counted, Gathering, Enter
<1>2. Counted(g)' = Counted(g) \cup {c}
  BY <1>1 DEF Counted, Enter, TypeOK
<1>3. count' = Cardinality(Counted(g))'
  <2>1. Cardinality(Counted(g) \cup {c}) = Cardinality(Counted(g)) + 1
    BY <1>1, CountedFinite, FS_AddElement
  <2>2. count' = Cardinality(Counted(g)) + 1
    BY DEF Gathering, Enter
  <2> QED BY <1>2, <2>1, <2>2
<1>4. \A d \in Cores : at[d] # "last"
  BY DEF Gathering, Enter
<1>5. ASSUME NEW d \in Cores
      PROVE  /\ at'[d] \notin {"reset", "last"}
             /\ at'[d] = "out" => round'[d] = g /\ threadsense'[d] = sense'
             /\ at'[d] = "spin" => \/ round'[d] = g /\ threadsense'[d] # sense'
                                   \/ round'[d] + 1 = g /\ threadsense'[d] = sense'
  <2>1. CASE d = c
    BY <2>1, <1>1 DEF Gathering, Enter, TypeOK
  <2>2. CASE d # c
    BY <2>2, <1>4 DEF Gathering, Enter, TypeOK
  <2> QED BY <2>1, <2>2
<1> QED BY <1>3, <1>5 DEF Gathering

\* The last core finds all others counted, hence spinning in its own round.
LEMMA EnterLast ==
    ASSUME TypeOK, NEW g \in Nat, Gathering(g), NEW c \in Cores, Enter(c),
           count = ncores - 1
    PROVE  Gathering(g)'
<1>1. c \notin Counted(g) /\ round[c] = g /\ threadsense[c] = sense
  BY DEF Counted, Gathering, Enter
<1>2. Counted(g)' = Counted(g) \cup {c}
  BY <1>1 DEF Counted, Enter, TypeOK
<1>3. count' = Cardinality(Counted(g))'
  <2>1. Cardinality(Counted(g) \cup {c}) = Cardinality(Counted(g)) + 1
    BY <1>1, CountedFinite, FS_AddElement
  <2>2. count' = Cardinality(Counted(g)) + 1
    BY DEF Gathering, Enter
  <2> QED BY <1>2, <2>1, <2>2
<1>4. Counted(g) = Cores \ {c}
  <2>1. Counted(g) \in SUBSET Cores
    BY DEF Counted
  <2>2. Cardinality(Counted(g)) = Cardinality(Cores) - 1
    BY DEF Gathering, ncores
  <2> QED BY <1>1, <2>1, <2>2, CoresAssumption, AllCounted
<1>5. \A d \in Cores \ {c} : at[d] = "spin" /\ round[d] = g /\ threadsense[d] # sense
  <2>1. \A d \in Cores : at[d] # "last"
    BY DEF Gathering, Enter
  <2>2. \A d \in Cores \ {c} : at[d] = "spin" /\ round[d] = g
    BY <1>4, <2>1 DEF Counted
  <2> QED BY <2>2 DEF Gathering, TypeOK
<1>6. /\ at'[c] = "last" /\ round'[c] = g /\ threadsense'[c] # sense'
      /\ \A d \in Cores \ {c} : /\ at'[d] = "spin" /\ round'[d] = g
                                /\ threadsense'[d] # sense'
  <2>1. at'[c] = "last" /\ round'[c] = g /\ threadsense'[c] # sense'
    BY <1>1 DEF Enter, TypeOK
  <2>2. ASSUME NEW d \in Cores \ {c}
        PROVE  at'[d] = "spin" /\ round'[d] = g /\ threadsense'[d] # sense'
    BY <1>5 DEF Enter, TypeOK
  <2> QED BY <2>1, <2>2
<1> QED BY <1>3, <1>6 DEF Gathering

\* The last core clears the counter when all others spin.
LEMMA ResetCloses ==
    ASSUME TypeOK, NEW g \in Nat, Gathering(g), NEW c \in Cores, Reset(c)
    PROVE  Closing(g, c)'
<1>1. /\ round[c] = g /\ threadsense[c] # sense
      /\ \A d \in Cores \ {c} : at[d] = "spin" /\ round[d] = g /\ threadsense[d] # sense
  BY DEF Gathering, Reset, TypeOK
<1> QED BY <1>1 DEF Closing, Reset, TypeOK

\* Letting the others go begins the next round, with nobody counted in it.
LEMMA ReleaseOpens ==
    ASSUME TypeOK, NEW g \in Nat, NEW c \in Cores, Closing(g, c), Release(c)
    PROVE  Gathering(g + 1)'
<1>1. at' = [at EXCEPT ![c] = "out"] /\ round' = [round EXCEPT ![c] = @ + 1]
  BY DEF Release
<1>2. Counted(g + 1)' = {}
  <2>1. ASSUME NEW d \in Cores PROVE ~(at'[d] \in {"spin", "last"} /\ round'[d] = g + 1)
    BY <1>1 DEF Closing, TypeOK
  <2> QED BY <2>1 DEF Counted
<1>3. count' = Cardinality(Counted(g + 1))'
  BY <1>2, FS_EmptySet DEF Closing, Release
<1>4. \A d \in Cores : threadsense'[d] = sense'
  BY DEF Closing, Release, TypeOK
<1>5. ASSUME NEW d \in Cores
      PROVE  \/ at'[d] = "out" /\ round'[d] = g + 1
             \/ at'[d] = "spin" /\ round'[d] + 1 = g + 1
  BY <1>1 DEF Closing, TypeOK
<1> QED BY <1>3, <1>4, <1>5 DEF Gathering

\* Whoever still sees the old round over was not counted in the new one.
LEMMA LeaveGathers ==
    ASSUME TypeOK, NEW g \in Nat, Gathering(g), NEW c \in Cores, Leave(c)
    PROVE  Gathering(g)'
<1>1. at[c] = "spin" /\ round[c] + 1 = g /\ threadsense[c] = sense
  BY DEF Gathering, Leave
<1>2. \A d \in Cores : at[d] # "last"
  BY <1>1 DEF Gathering, TypeOK
<1>3. Counted(g)' = Counted(g)
  BY <1>1 DEF Counted, Leave, TypeOK
<1>4. count' = Cardinality(Counted(g))'
  BY <1>3 DEF Gathering, Leave
<1>5. ASSUME NEW d \in Cores
      PROVE  /\ at'[d] \notin {"reset", "last"}
             /\ at'[d] = "out" => round'[d] = g /\ threadsense'[d] = sense'
             /\ at'[d] = "spin" => \/ round'[d] = g /\ threadsense'[d] # sense'
                                   \/ round'[d] + 1 = g /\ threadsense'[d] = sense'
  <2>1. CASE d = c
    BY <2>1, <1>1 DEF Leave, TypeOK
  <2>2. CASE d # c
    BY <2>2, <1>2 DEF Gathering, Leave, TypeOK
  <2> QED BY <2>1, <2>2
<1> QED BY <1>4, <1>5 DEF Gathering

-----------------------------------------------------------------------------
\* What a step does to the phase, and to whom it lets out.
LEMMA PhaseStep ==
    ASSUME TypeOK, NEW g \in Nat, Phase(g), BNext
    PROVE  \E h \in Nat : Phase(h)'
<1>1. PICK c \in Cores : Enter(c) \/ Reset(c) \/ Release(c) \/ Spin(c) \/ Leave(c)
  BY DEF BNext
<1>2. CASE Gathering(g)
  <2>1. ~Release(c)
    BY <1>2 DEF Gathering, Release
  <2>2. CASE Enter(c)
    BY <1>2, <2>2, EnterSpins, EnterLast DEF Phase
  <2>3. CASE Reset(c)
    BY <1>2, <2>3, ResetCloses DEF Phase
  <2>4. CASE Leave(c)
    BY <1>2, <2>4, LeaveGathers DEF Phase
  <2>5. CASE Spin(c)
    <3>1. Gathering(g)'
      BY <1>2, <2>5 DEF Spin, bvars, Gathering, Counted
    <3> QED BY <3>1 DEF Phase
  <2> QED BY <1>1, <2>1, <2>2, <2>3, <2>4, <2>5
<1>3. ASSUME NEW e \in Cores, Closing(g, e) PROVE \E h \in Nat : Phase(h)'
  <2>1. ~Enter(c) /\ ~Reset(c) /\ ~Leave(c)
    BY <1>3 DEF Closing, Enter, Reset, Leave
  <2>2. CASE Release(c)
    <3>1. c = e
      BY <1>3, <2>2 DEF Closing, Release
    <3>2. Gathering(g + 1)'
      BY <1>3, <2>2, <3>1, ReleaseOpens
    <3> QED BY <3>2 DEF Phase
  <2>3. CASE Spin(c)
    <3>1. Closing(g, e)'
      BY <1>3, <2>3 DEF Spin, bvars, Closing
    <3> QED BY <3>1 DEF Phase
  <2> QED BY <1>1, <2>1, <2>2, <2>3
<1> QED BY <1>2, <1>3 DEF Phase

\* The first round is being gathered when the program begins.
LEMMA BInvInit == BInit => BInv
<1> SUFFICES ASSUME BInit PROVE BInv
  OBVIOUS
<1>1. TypeOK
  BY DEF BInit, TypeOK, Places
<1>2. Counted(0) = {}
  BY DEF BInit, Counted
<1>3. Gathering(0)
  BY <1>2, FS_EmptySet DEF BInit, Gathering
<1> QED BY <1>1, <1>3 DEF BInv, Phase

\* Every step of the barrier keeps the phases.
LEMMA BInvStep == BInv /\ [BNext]_bvars => BInv'
<1> SUFFICES ASSUME BInv, [BNext]_bvars PROVE BInv'
  OBVIOUS
<1>1. TypeOK'
  BY BTypeStep DEF BInv
<1>2. PICK g \in Nat : Phase(g)
  BY DEF BInv
<1>3. CASE BNext
  BY <1>1, <1>2, <1>3, PhaseStep DEF BInv
<1>4. CASE UNCHANGED bvars
  <2>1. Phase(g)'
    BY <1>2, <1>4 DEF bvars, Phase, Gathering, Counted, Closing
  <2> QED BY <1>1, <2>1 DEF BInv
<1> QED BY <1>3, <1>4

\* The types, and the phase every reachable state of the barrier is in.
THEOREM BarrierPhases == BSpec => []BInv
<1> QED BY BInvInit, BInvStep, PTL DEF BSpec

\* Nobody is in another round than its neighbours but by one, and then the one that
\* is behind is about to leave: two cores outside the barrier are in the same round.
SameRound == \A c, d \in Cores : at[c] = "out" /\ at[d] = "out" => round[c] = round[d]

\* Two cores that are both outside the barrier have returned from equally many calls.
THEOREM OutsideTogether == BSpec => []SameRound
<1>1. BInv => SameRound
  BY DEF BInv, Phase, Gathering, Closing, SameRound, TypeOK
<1> QED BY <1>1, BarrierPhases, PTL

-----------------------------------------------------------------------------
Waiting == {c \in Cores : at[c] # "out"}

\* Whoever leaves the barrier finds all others in its round inside, or ahead of it.
LEMMA PassStep ==
    ASSUME BInv, NEW c \in Cores, Release(c) \/ Leave(c)
    PROVE  R!Pass(c)
<1>1. PICK g \in Nat : Phase(g)
  BY DEF BInv
<1>2. TypeOK
  BY DEF BInv
<1>3. c \in Waiting
  BY DEF Waiting, Release, Leave
<1>4. round' = [round EXCEPT ![c] = @ + 1] /\ at' = [at EXCEPT ![c] = "out"]
  BY DEF Release, Leave
<1>5. Waiting' = Waiting \ {c}
  BY <1>2, <1>4 DEF Waiting, TypeOK
<1>6. \A d \in Cores : \/ round[d] > round[c]
                       \/ round[d] = round[c] /\ d \in Waiting
  <2>1. CASE Release(c)
    <3>1. Closing(g, c)
      BY <1>1, <2>1 DEF Phase, Gathering, Closing, Release
    <3> QED BY <3>1, <1>3 DEF Closing, Waiting
  <2>2. CASE Leave(c)
    <3>1. Gathering(g)
      BY <1>1, <2>2 DEF Phase, Closing, Leave
    <3>2. round[c] + 1 = g
      BY <2>2, <3>1 DEF Gathering, Leave
    <3>3. ASSUME NEW d \in Cores
          PROVE  round[d] > round[c] \/ (round[d] = round[c] /\ d \in Waiting)
      <4>1. at[d] \in {"out", "spin", "last"}
        BY <1>2, <3>1 DEF TypeOK, Places, Gathering
      <4>2. round[d] = g \/ (at[d] = "spin" /\ round[d] + 1 = g)
        BY <3>1, <4>1 DEF Gathering
      <4> QED BY <1>2, <3>2, <4>2 DEF TypeOK, Waiting
    <3> QED BY <3>3
  <2> QED BY <2>1, <2>2
<1> QED BY <1>3, <1>4, <1>5, <1>6 DEF R!Pass, Waiting

\* A core that comes arrives in the rendezvous, one that leaves passes, all else stutters.
LEMMA RendezvousStep ==
    ASSUME BInv, [BNext]_bvars
    PROVE  [R!Next]_<<round, Waiting>>
<1>1. CASE UNCHANGED bvars
  BY <1>1 DEF bvars, Waiting
<1>2. ASSUME NEW c \in Cores, Enter(c) PROVE R!Next
  <2>1. c \notin Waiting /\ Waiting' = Waiting \cup {c}
    BY <1>2 DEF BInv, TypeOK, Waiting, Enter
  <2> QED BY <1>2, <2>1 DEF R!Next, R!Arrive, Waiting, Enter
<1>3. ASSUME NEW c \in Cores, Reset(c) PROVE UNCHANGED <<round, Waiting>>
  BY <1>3 DEF BInv, TypeOK, Waiting, Reset
<1>4. ASSUME NEW c \in Cores, Spin(c) PROVE UNCHANGED <<round, Waiting>>
  BY <1>4 DEF bvars, Waiting, Spin
<1>5. ASSUME NEW c \in Cores, Release(c) \/ Leave(c) PROVE R!Next
  BY <1>5, PassStep DEF R!Next
<1> QED BY <1>1, <1>2, <1>3, <1>4, <1>5 DEF BNext

\* barrier() is a barrier, for any number of cores: nobody returns from the n-th call
\* before everybody has made it.
THEOREM BarrierRendezvous == BSpec => IsBarrier
<1>1. BInit => R!Init
  BY DEF BInit, R!Init
<1>2. BInv /\ [BNext]_bvars => [R!Next]_<<round, {c \in Cores : at[c] # "out"}>>
  BY RendezvousStep DEF Waiting
<1> QED BY <1>1, <1>2, BarrierPhases, PTL DEF BSpec, IsBarrier, R!Spec

-----------------------------------------------------------------------------
(* The programs *)

\* Where a core's program stands: it is in the barrier only between two stretches,
\* and before the last one.
Place(c) == /\ mode[c] \in Modes
            /\ round[c] + 1 <= Len(prog.code[c])
            /\ at[c] # "out" => /\ mode[c] = "ready"
                                /\ round[c] + 2 <= Len(prog.code[c])

InPlace == /\ prog \in Programs
           /\ mode \in [Cores -> Modes]
           /\ \A c \in Cores : Place(c)

\* A program touches the barrier's variables in the barrier only.
LEMMA MtImplementsB == Spec => BSpec
<1>1. Init => BInit
  BY DEF Init
<1>2. [Next]_vars => [BNext]_bvars
  <2>1. ASSUME NEW c \in Cores, Core(c) PROVE [BNext]_bvars
    BY <2>1 DEF Core, Begin, End, Arrive, InBarrier, BNext
  <2>2. UNCHANGED vars => UNCHANGED bvars
    BY DEF vars
  <2> QED BY <2>1, <2>2 DEF Next, Over
<1> QED BY <1>1, <1>2, PTL DEF Spec, BSpec

\* Every program begins with its first stretch.
LEMMA InPlaceInit == Init => InPlace
<1> SUFFICES ASSUME Init PROVE InPlace
  OBVIOUS
<1>1. prog \in Programs /\ mode \in [Cores -> Modes]
  BY DEF Init, Modes
<1>2. ASSUME NEW c \in Cores PROVE Place(c)
  <2>1. Len(prog.code[c]) \in Nat \ {0}
    BY <1>1, ProgramsAssumption
  <2> QED BY <1>1, <2>1 DEF Init, BInit, Place, Modes
<1> QED BY <1>1, <1>2 DEF InPlace

\* What core c does leaves the others where they are.
LEMMA OthersStay ==
    ASSUME InPlace, TypeOK, NEW c \in Cores, Core(c), NEW d \in Cores, d # c
    PROVE  mode'[d] = mode[d] /\ at'[d] = at[d] /\ round'[d] = round[d] /\ prog' = prog
<1>1. prog' = prog
  BY DEF Core, Begin, End, Arrive, InBarrier, mvars
<1>2. mode'[d] = mode[d]
  BY DEF Core, Begin, End, Arrive, InBarrier, mvars, InPlace
<1>3. at'[d] = at[d] /\ round'[d] = round[d]
  BY DEF Core, Begin, End, Arrive, InBarrier, bvars, TypeOK, Enter, Reset, Release,
         Spin, Leave
<1> QED BY <1>1, <1>2, <1>3

\* What a core does leaves every core in its place.
LEMMA PlaceStep ==
    ASSUME InPlace, TypeOK, NEW c \in Cores, Core(c)
    PROVE  InPlace'
<1>1. prog' = prog
  BY DEF Core, Begin, End, Arrive, InBarrier, mvars
<1>2. mode' \in [Cores -> Modes]
  BY DEF Core, Begin, End, Arrive, InBarrier, mvars, InPlace, Modes
<1>3. Len(prog.code[c]) \in Nat
  BY ProgramsAssumption DEF InPlace
<1>4. Place(c)'
  <2>1. CASE Begin(c) \/ End(c)
    <3>1. at[c] = "out"
      BY <2>1 DEF Begin, End, InPlace, Place, Modes
    <3> QED BY <1>1, <1>2, <2>1, <3>1 DEF Begin, End, bvars, InPlace, Place, Modes
  <2>2. CASE Arrive(c)
    <3>1. round[c] + 1 <= Len(prog.code[c]) /\ round[c] + 1 # Len(prog.code[c])
      BY <2>2 DEF Arrive, LastStretch, InPlace, Place
    <3>2. round' = round /\ mode'[c] = "ready"
      BY <2>2 DEF Arrive, Enter, InPlace
    <3> QED BY <1>1, <1>2, <1>3, <3>1, <3>2 DEF Place, TypeOK, Modes
  <2>3. CASE InBarrier(c)
    <3>1. at[c] # "out" /\ mode' = mode
      BY <2>3 DEF InBarrier, mvars, Reset, Release, Spin, Leave
    <3>2. mode'[c] = "ready" /\ round[c] + 2 <= Len(prog.code[c])
      BY <3>1 DEF InPlace, Place
    <3>3. \/ at'[c] = "out" /\ round'[c] = round[c] + 1
          \/ round'[c] = round[c]
      BY <2>3 DEF InBarrier, Reset, Release, Spin, Leave, bvars, TypeOK
    <3> QED BY <1>1, <1>2, <1>3, <3>2, <3>3 DEF Place, TypeOK, Modes
  <2> QED BY <2>1, <2>2, <2>3 DEF Core
<1>5. ASSUME NEW d \in Cores, d # c PROVE Place(d)'
  BY <1>5, OthersStay DEF InPlace, Place
<1> QED BY <1>1, <1>2, <1>4, <1>5 DEF InPlace

\* So does every step.
LEMMA InPlaceStep == InPlace /\ TypeOK /\ [Next]_vars => InPlace'
<1> SUFFICES ASSUME InPlace, TypeOK, [Next]_vars PROVE InPlace'
  OBVIOUS
<1>1. CASE UNCHANGED vars
  BY <1>1 DEF vars, bvars, mvars, InPlace, Place
<1>2. CASE \E c \in Cores : Core(c)
  BY <1>2, PlaceStep
<1> QED BY <1>1, <1>2 DEF Next, Over

\* The types of the barrier, and the place of every core in its program.
THEOREM MtPlaces == Spec => [](TypeOK /\ InPlace)
<1>1. BInv => TypeOK
  BY DEF BInv
<1> QED BY <1>1, MtImplementsB, BarrierPhases, InPlaceInit, InPlaceStep, PTL DEF Spec

\* The barrier is one for the programs that call it, whatever their stretches.
THEOREM MtRendezvous == Spec => IsBarrier
<1> QED BY MtImplementsB, BarrierRendezvous, PTL

-----------------------------------------------------------------------------
\* No stretch of a program conflicts with the stretch of the same number of another
\* core.  This can be read off the program: nothing here is about how it runs.
Apart ==
    \A p \in Programs : \A c, d \in Cores : c # d =>
        \A k \in 1 .. Len(p.code[c]) : k <= Len(p.code[d]) =>
            \A t \in p.code[c][k], u \in p.code[d][k] : ~Conflict(t, u)

\* The barriers turn what each stretch does into the absence of races: with any
\* number of cores, in whatever order they run, two cores never write one cell, nor
\* one what the other reads, if stretches of the same number are apart.
THEOREM RaceFree == Apart /\ Spec => []NoRace
<1>1. ASSUME Apart, TypeOK, InPlace, SameRound PROVE NoRace
  <2> SUFFICES ASSUME NEW c \in Cores, NEW d \in Cores, c # d,
                      mode[c] = "busy", mode[d] = "busy",
                      NEW t \in Stretch(c), NEW u \in Stretch(d)
               PROVE  ~Conflict(t, u)
    BY DEF NoRace
  <2>1. at[c] = "out" /\ at[d] = "out"
    BY <1>1 DEF InPlace, Place
  <2>2. round[c] = round[d]
    BY <1>1, <2>1 DEF SameRound
  <2>3. round[c] + 1 \in 1 .. Len(prog.code[c]) /\ round[c] + 1 <= Len(prog.code[d])
    <3>1. Len(prog.code[c]) \in Nat /\ Len(prog.code[d]) \in Nat
      BY <1>1, ProgramsAssumption DEF InPlace
    <3>2. round[c] \in Nat
      BY <1>1 DEF TypeOK
    <3>3. round[c] + 1 <= Len(prog.code[c]) /\ round[d] + 1 <= Len(prog.code[d])
      BY <1>1 DEF InPlace, Place
    <3> QED BY <2>2, <3>1, <3>2, <3>3
  <2>4. t \in prog.code[c][round[c] + 1] /\ u \in prog.code[d][round[c] + 1]
    BY <2>2 DEF Stretch
  <2> QED BY <1>1, <2>3, <2>4 DEF Apart, InPlace
<1>2. Spec => []SameRound
  BY MtImplementsB, OutsideTogether, PTL
<1>3. Apart => [](TypeOK /\ InPlace /\ SameRound => NoRace)
  <2> SUFFICES ASSUME Apart PROVE [](TypeOK /\ InPlace /\ SameRound => NoRace)
    OBVIOUS
  <2>1. TypeOK /\ InPlace /\ SameRound => NoRace
    BY <1>1
  <2> QED BY <2>1, PTL
<1> QED BY <1>2, <1>3, MtPlaces, PTL


-----------------------------------------------------------------------------
(* The result of a program *)

\* What core d brings into C in its stretch of round i, and whether it clears C.
Into(p, d, i) == {t \in p.code[d][i+1] : t.op \in {"add", "set"}}
Clears(p, d, i) == \E t \in p.code[d][i+1] : t.op = "reload"
Verifies(p, d, i) == \E t \in p.code[d][i+1] : t.op = "verify"

Entries(p, d, i) ==
    {[core |-> d, round |-> i, tile |-> t, right |-> TRUE] : t \in Into(p, d, i)}

\* What the text of p says is in C when round r begins: what the rounds before it
\* have brought, from the last one on in which C was loaded anew.
Written(p, r) ==
    LET Last(i) == \A b \in Cores : \A j \in i+1 .. r-1 : ~Clears(p, b, j)
    IN  UNION {UNION {Entries(p, d, i) : i \in {i \in 0 .. r-1 : Last(i)}} : d \in Cores}

\* The copies a tile of round i of core c may use: all of the rounds before it, and
\* its own of the same round.
Usable(p, c, i) ==
    Copied(p.code[c][i+1]) \cup
        UNION {UNION {Copied(p.code[d][j+1]) : j \in 0 .. i-1} : d \in Cores}

\* What can be read off the text of a program: all cores call the barrier equally
\* often; what goes through the copy of B finds it there; who loads C anew, and who
\* verifies it, does so while the others leave C alone; and what is verified is all
\* of the result.
Whole(p) ==
    /\ \A c, d \in Cores : Len(p.code[c]) = Len(p.code[d])
    /\ \A c \in Cores : \A i \in 0 .. Len(p.code[c]) - 1 :
        /\ \A t \in Into(p, c, i) : t.via => t.cols \X t.ks \subseteq Usable(p, c, i)
        /\ Clears(p, c, i) \/ Verifies(p, c, i) =>
            \A d \in Cores \ {c} : Into(p, d, i) = {}
        /\ Verifies(p, c, i) =>
            /\ \A d \in Cores \ {c} : ~Clears(p, d, i)
            /\ Partition(p, Written(p, i))

\* Core d is through with its stretch of round i.
Finished(d, i) == \/ i < round[d]
                  \/ i = round[d] /\ (mode[d] = "ended" \/ at[d] # "out")

\* What has gone into C is what the finished stretches brought since the last
\* finished one that loaded C anew.
Standing(d, i) ==
    /\ Finished(d, i)
    /\ \A b \in Cores : \A j \in i+1 .. round[b] : Finished(b, j) => ~Clears(prog, b, j)
Ledger ==
    C = UNION {UNION {Entries(prog, d, i) : i \in {i \in 0 .. round[d] : Standing(d, i)}} :
                  d \in Cores}

\* The copies of all finished stretches are there.
CopiesThere ==
    \A d \in Cores : \A i \in 0 .. round[d] :
        Finished(d, i) => Copied(prog.code[d][i+1]) \subseteq BB

-----------------------------------------------------------------------------
\* The two invariants without the bounds that make them finite.
Stands(d, i) ==
    /\ Finished(d, i)
    /\ \A b \in Cores : \A j \in Nat : i < j /\ Finished(b, j) => ~Clears(prog, b, j)
Held(e) == \E d \in Cores : \E i \in Nat : Stands(d, i) /\ e \in Entries(prog, d, i)
Booked == \A e : e \in C <=> Held(e)
Provided == \A d \in Cores : \A i \in Nat :
                Finished(d, i) => Copied(prog.code[d][i+1]) \subseteq BB

\* No stretch of a later round than the core's is finished.
LEMMA FinishedUpTo ==
    ASSUME TypeOK, NEW d \in Cores, NEW i \in Nat, Finished(d, i)
    PROVE  i \in 0 .. round[d]
  BY DEF TypeOK, Finished

\* The bound on later rounds leaves nothing out.
LEMMA StandingIs ==
    ASSUME TypeOK, NEW d \in Cores, NEW i \in Nat
    PROVE  Standing(d, i) <=> Stands(d, i)
<1>1. ASSUME Stands(d, i) PROVE Standing(d, i)
  <2>1. ASSUME NEW b \in Cores, NEW j \in i+1 .. round[b], Finished(b, j)
        PROVE  ~Clears(prog, b, j)
    <3>1. round[b] \in Nat
      BY DEF TypeOK
    <3>2. j \in Nat /\ i < j
      BY <3>1
    <3> QED BY <1>1, <2>1, <3>2 DEF Stands
  <2> QED BY <1>1, <2>1 DEF Stands, Standing
<1>2. ASSUME Standing(d, i) PROVE Stands(d, i)
  <2>1. ASSUME NEW b \in Cores, NEW j \in Nat, i < j, Finished(b, j)
        PROVE  ~Clears(prog, b, j)
    <3>1. round[b] \in Nat /\ j \in 0 .. round[b]
      BY <2>1, FinishedUpTo DEF TypeOK
    <3>2. j \in i+1 .. round[b]
      BY <2>1, <3>1
    <3> QED BY <1>2, <2>1, <3>2 DEF Standing
  <2> QED BY <1>2, <2>1 DEF Stands, Standing
<1> QED BY <1>1, <1>2

\* Nor does that on the rounds of the ledger,
LEMMA LedgerIs ==
    ASSUME TypeOK
    PROVE  Ledger <=> Booked
<1> DEFINE L == UNION {UNION {Entries(prog, d, i) :
                              i \in {i \in 0 .. round[d] : Standing(d, i)}} : d \in Cores}
<1>1. ASSUME NEW e PROVE e \in L <=> Held(e)
  <2>1. ASSUME e \in L PROVE Held(e)
    <3>1. PICK d \in Cores : \E i \in 0 .. round[d] : Standing(d, i) /\ e \in Entries(prog, d, i)
      BY <2>1
    <3>2. PICK i \in 0 .. round[d] : Standing(d, i) /\ e \in Entries(prog, d, i)
      BY <3>1
    <3>3. i \in Nat
      OBVIOUS
    <3>4. Stands(d, i)
      BY <3>2, <3>3, StandingIs
    <3> QED BY <3>2, <3>3, <3>4 DEF Held
  <2>2. ASSUME Held(e) PROVE e \in L
    <3>1. PICK d \in Cores : \E i \in Nat : Stands(d, i) /\ e \in Entries(prog, d, i)
      BY <2>2 DEF Held
    <3>2. PICK i \in Nat : Stands(d, i) /\ e \in Entries(prog, d, i)
      BY <3>1
    <3>3. Standing(d, i) /\ i \in 0 .. round[d]
      BY <3>2, StandingIs, FinishedUpTo DEF Stands
    <3> QED BY <3>2, <3>3
  <2> QED BY <2>1, <2>2
<1>2. Ledger <=> C = L
  BY DEF Ledger
<1> HIDE DEF L
<1>3. C = L <=> \A e : e \in C <=> e \in L
  OBVIOUS
<1> QED BY <1>1, <1>2, <1>3 DEF Booked

\* nor that on the rounds of the copies.
LEMMA CopiesAre ==
    ASSUME TypeOK
    PROVE  CopiesThere <=> Provided
<1>1. ASSUME CopiesThere, NEW d \in Cores, NEW i \in Nat, Finished(d, i)
      PROVE  Copied(prog.code[d][i+1]) \subseteq BB
  BY <1>1, FinishedUpTo DEF CopiesThere
<1>2. ASSUME Provided PROVE CopiesThere
  BY <1>2 DEF CopiesThere, Provided
<1> QED BY <1>1, <1>2 DEF Provided

-----------------------------------------------------------------------------
\* A core outside the barrier has all others in its round, or just leaving the last.
Level == \A c, d \in Cores : at[c] = "out" =>
            \/ round[d] = round[c]
            \/ round[d] + 1 = round[c] /\ at[d] = "spin"

\* This is what the phases of the barrier say.
LEMMA BInvLevel == BInv => Level
  BY DEF BInv, Phase, Gathering, Closing, TypeOK, Level, Places

\* So when it is at work on a stretch all earlier ones are finished, and no later
\* one is.
LEMMA FinishedThen ==
    ASSUME TypeOK, Level, NEW c \in Cores, at[c] = "out", NEW d \in Cores, NEW i \in Nat
    PROVE  /\ i < round[c] => Finished(d, i)
           /\ Finished(d, i) => i <= round[c]
  BY DEF TypeOK, Level, Finished

\* A step that is not the end of a stretch finishes none.
LEMMA FinishedStays ==
    ASSUME TypeOK, InPlace, NEW c \in Cores, Begin(c) \/ Arrive(c) \/ InBarrier(c),
           NEW d \in Cores, NEW i \in Nat
    PROVE  Finished(d, i)' <=> Finished(d, i)
<1>0. Core(c)
  BY DEF Core
<1>1. CASE d # c
  BY <1>0, <1>1, OthersStay DEF Finished
<1>2. CASE d = c /\ Begin(c)
  BY <1>2 DEF Begin, bvars, InPlace, Finished
<1>3. CASE d = c /\ Arrive(c)
  <2>1. mode[c] = "ended" /\ mode'[c] = "ready" /\ round' = round
    BY <1>3 DEF Arrive, Enter, InPlace
  <2>2. at'[c] # "out"
    BY <1>3 DEF Arrive, Enter, TypeOK
  <2> QED BY <1>3, <2>1, <2>2 DEF Finished
<1>4. CASE d = c /\ InBarrier(c)
  <2>1. mode' = mode /\ at[c] # "out"
    BY <1>4 DEF InBarrier, mvars, Reset, Release, Spin, Leave
  <2>2. mode[c] = "ready"
    BY <2>1 DEF InPlace, Place
  <2>3. \/ at'[c] # "out" /\ round'[c] = round[c]
        \/ at'[c] = "out" /\ round'[c] = round[c] + 1
    BY <1>4, <2>1 DEF InBarrier, Reset, Release, Spin, Leave, bvars, TypeOK
  <2>4. round[c] \in Nat
    BY DEF TypeOK
  <2>5. "ready" # "ended"
    OBVIOUS
  <2>6. CASE at'[c] # "out" /\ round'[c] = round[c]
    BY <1>4, <2>1, <2>6 DEF Finished
  <2>7. CASE at'[c] = "out" /\ round'[c] = round[c] + 1
    <3>1. Finished(c, i) <=> i <= round[c]
      BY <2>1, <2>4 DEF Finished
    <3>2. Finished(c, i)' <=> i < round[c] + 1
      BY <2>1, <2>2, <2>5, <2>7 DEF Finished
    <3> QED BY <1>4, <2>4, <3>1, <3>2
  <2> QED BY <2>3, <2>6, <2>7
<1> QED BY <1>1, <1>2, <1>3, <1>4

\* The end of a stretch finishes it, for the first time.
LEMMA FinishedByEnd ==
    ASSUME TypeOK, InPlace, NEW c \in Cores, End(c), NEW d \in Cores, NEW i \in Nat
    PROVE  /\ Finished(d, i)' <=> Finished(d, i) \/ (d = c /\ i = round[c])
           /\ ~Finished(c, round[c])
<1>1. at' = at /\ round' = round /\ mode[c] = "busy" /\ at[c] = "out"
  BY DEF End, bvars, InPlace, Place
<1>2. mode'[c] = "ended" /\ (d # c => mode'[d] = mode[d])
  BY DEF End, InPlace
<1>3. ~Finished(c, round[c])
  BY <1>1 DEF Finished, TypeOK
<1> QED BY <1>1, <1>2, <1>3 DEF Finished

-----------------------------------------------------------------------------
\* All that the programs' texts are asked for.
Sound == \A p \in Programs : Whole(p)

\* What holds of every state: places, levels, and the two books.
Books == TypeOK /\ InPlace /\ Level /\ Booked /\ Provided

\* At the beginning nothing is finished and C is empty.
LEMMA BooksInit == Init => Booked /\ Provided
<1> SUFFICES ASSUME Init PROVE Booked /\ Provided
  OBVIOUS
<1>1. ASSUME NEW d \in Cores, NEW i \in Nat PROVE ~Finished(d, i)
  BY DEF Init, BInit, Finished
<1>2. \A e : ~Held(e)
  BY <1>1 DEF Held, Stands
<1>3. C = {}
  BY DEF Init
<1> QED BY <1>1, <1>2, <1>3 DEF Booked, Provided

\* A step that finishes nothing leaves the books as they are.
LEMMA BooksStay ==
    ASSUME Booked, Provided, prog' = prog, C' = C, BB' = BB,
           \A d \in Cores : \A i \in Nat : Finished(d, i)' <=> Finished(d, i)
    PROVE  Booked' /\ Provided'
<1>1. ASSUME NEW CONSTANT d \in Cores, NEW CONSTANT i \in Nat
      PROVE  Stands(d, i)' <=> Stands(d, i)
  BY DEF Stands, Clears
<1>2. ASSUME NEW CONSTANT e PROVE Held(e)' <=> Held(e)
  BY <1>1 DEF Held, Entries, Into
<1>3. Booked'
  BY <1>2 DEF Booked
<1>4. Provided'
  BY DEF Provided
<1> QED BY <1>3, <1>4

\* What core c uses in the stretch it ends is there, and its tiles go in right.
LEMMA EndBrings ==
    ASSUME Sound, Books, NEW c \in Cores, End(c), NEW r \in Nat, r = round[c]
    PROVE  /\ C' = (IF Clears(prog, c, r) THEN {} ELSE C) \cup Entries(prog, c, r)
           /\ BB' = BB \cup Copied(prog.code[c][r+1])
           /\ Clears(prog, c, r) => \A d \in Cores \ {c} : Into(prog, d, r) = {}
<1>1. at[c] = "out" /\ Stretch(c) = prog.code[c][r+1]
  BY DEF End, Books, InPlace, Place, Stretch
<1>2. Whole(prog) /\ r \in 0 .. Len(prog.code[c]) - 1
  <2>1. prog \in Programs /\ r + 1 <= Len(prog.code[c])
    BY DEF Books, InPlace, Place
  <2>2. Len(prog.code[c]) \in Nat
    BY <2>1, ProgramsAssumption
  <2> QED BY <2>1, <2>2 DEF Sound
<1>3. Usable(prog, c, r) \subseteq BB \cup Copied(prog.code[c][r+1])
  <2>1. ASSUME NEW d \in Cores, NEW j \in 0 .. r-1
        PROVE  Copied(prog.code[d][j+1]) \subseteq BB
    <3>1. j \in Nat /\ j < r
      OBVIOUS
    <3>2. Finished(d, j)
      BY <1>1, <3>1, FinishedThen DEF Books
    <3> QED BY <3>1, <3>2 DEF Books, Provided
  <2> QED BY <2>1 DEF Usable
<1>4. ASSUME NEW t \in Into(prog, c, r)
      PROVE  (t.via => t.cols \X t.ks \subseteq BB \cup Copied(Stretch(c))) = TRUE
  <2>1. t.via => t.cols \X t.ks \subseteq Usable(prog, c, r)
    BY <1>2 DEF Whole
  <2> QED BY <1>1, <1>3, <2>1
<1>5. {[core |-> c, round |-> round[c], tile |-> t,
        right |-> (t.via => t.cols \X t.ks \subseteq BB \cup Copied(Stretch(c)))] :
           t \in {t \in Stretch(c) : t.op \in {"add", "set"}}} = Entries(prog, c, r)
  BY <1>1, <1>4 DEF Entries, Into
<1>6. C' = (IF Clears(prog, c, r) THEN {} ELSE C) \cup Entries(prog, c, r)
  BY <1>1, <1>5 DEF End, Clears
<1>7. BB' = BB \cup Copied(prog.code[c][r+1])
  BY <1>1 DEF End
<1>8. Clears(prog, c, r) => \A d \in Cores \ {c} : Into(prog, d, r) = {}
  BY <1>2 DEF Whole
<1> QED BY <1>6, <1>7, <1>8

\* The end of a stretch is entered in both books.
LEMMA EndBooked ==
    ASSUME Sound, Books, NEW c \in Cores, End(c)
    PROVE  Booked' /\ Provided'
<1>1. PICK r \in Nat : r = round[c]
  BY DEF Books, TypeOK
<1>2. at[c] = "out" /\ prog' = prog
  BY DEF End, Books, InPlace, Place
<1>3. /\ C' = (IF Clears(prog, c, r) THEN {} ELSE C) \cup Entries(prog, c, r)
      /\ BB' = BB \cup Copied(prog.code[c][r+1])
      /\ Clears(prog, c, r) => \A d \in Cores \ {c} : Into(prog, d, r) = {}
  BY <1>1, EndBrings
<1>4. \A d \in Cores : \A i \in Nat :
          Finished(d, i)' <=> Finished(d, i) \/ (d = c /\ i = r)
  BY <1>1, FinishedByEnd DEF Books
<1>5. \A d \in Cores : \A i \in Nat : Finished(d, i) => i <= r
  BY <1>1, <1>2, FinishedThen DEF Books
<1>6. ASSUME NEW e, e \in C' PROVE Held(e)'
  <2>1. CASE e \in Entries(prog, c, r)
    <3>1. ASSUME NEW b \in Cores, NEW j \in Nat, r < j PROVE ~Finished(b, j)'
      <4>1. j # r /\ ~(j <= r)
        BY <3>1
      <4> QED BY <4>1, <1>4, <1>5
    <3>2. Finished(c, r)'
      BY <1>4
    <3>3. Stands(c, r)'
      BY <3>1, <3>2 DEF Stands
    <3> QED BY <1>2, <2>1, <3>3 DEF Held
  <2>2. CASE e \in C /\ ~Clears(prog, c, r)
    <3>1. Held(e)
      BY <2>2 DEF Books, Booked
    <3>2. PICK d \in Cores : \E i \in Nat : Stands(d, i) /\ e \in Entries(prog, d, i)
      BY <3>1 DEF Held
    <3>3. PICK i \in Nat : Stands(d, i) /\ e \in Entries(prog, d, i)
      BY <3>2
    <3>4. ASSUME NEW b \in Cores, NEW j \in Nat, i < j, Finished(b, j)'
          PROVE  ~Clears(prog', b, j)
      <4>1. CASE Finished(b, j)
        BY <1>2, <3>3, <3>4, <4>1 DEF Stands
      <4>2. CASE b = c /\ j = r
        BY <1>2, <2>2, <4>2
      <4> QED BY <1>4, <3>4, <4>1, <4>2
    <3>5. Finished(d, i)'
      BY <1>4, <3>3 DEF Stands
    <3>6. Stands(d, i)'
      BY <3>4, <3>5 DEF Stands
    <3> QED BY <1>2, <3>3, <3>6 DEF Held
  <2> QED BY <1>3, <1>6, <2>1, <2>2
<1>7. ASSUME NEW e, Held(e)' PROVE e \in C'
  <2>1. PICK d \in Cores : \E i \in Nat : Stands(d, i)' /\ e \in Entries(prog, d, i)
    BY <1>2, <1>7 DEF Held
  <2>2. PICK i \in Nat : Stands(d, i)' /\ e \in Entries(prog, d, i)
    BY <2>1
  <2>3. CASE d = c /\ i = r
    BY <1>3, <2>2, <2>3
  <2>4. CASE ~(d = c /\ i = r)
    <3>1. Finished(d, i) /\ i <= r
      BY <1>4, <1>5, <2>2, <2>4 DEF Stands
    <3>2. ASSUME NEW b \in Cores, NEW j \in Nat, i < j, Finished(b, j)
          PROVE  ~Clears(prog, b, j)
      BY <1>2, <1>4, <2>2, <3>2 DEF Stands
    <3>3. Held(e)
      BY <2>2, <3>1, <3>2 DEF Held, Stands
    <3>4. e \in C
      BY <3>3 DEF Books, Booked
    <3>5. ~Clears(prog, c, r)
      <4>1. CASE i < r
        <5>1. Finished(c, r)'
          BY <1>4
        <5> QED BY <1>2, <2>2, <4>1, <5>1 DEF Stands
      <4>2. CASE i = r
        <5>1. d # c
          BY <2>4, <4>2
        <5>2. Into(prog, d, r) # {}
          BY <2>2, <4>2 DEF Entries
        <5> QED BY <1>3, <5>1, <5>2
      <4> QED BY <3>1, <4>1, <4>2
    <3> QED BY <1>3, <3>4, <3>5
  <2> QED BY <2>3, <2>4
<1>8. Booked'
  BY <1>6, <1>7 DEF Booked
<1>9. Provided'
  BY <1>2, <1>3, <1>4 DEF Books, Provided
<1> QED BY <1>8, <1>9

\* Every step keeps the books.
LEMMA BooksStep == Sound /\ Books /\ [Next]_vars => Booked' /\ Provided'
<1> SUFFICES ASSUME Sound, Books, [Next]_vars PROVE Booked' /\ Provided'
  OBVIOUS
<1>1. CASE UNCHANGED vars
  <2>1. \A d \in Cores : \A i \in Nat : Finished(d, i)' <=> Finished(d, i)
    BY <1>1 DEF vars, bvars, mvars, Finished
  <2> QED BY <1>1, <2>1, BooksStay DEF vars, mvars, Books
<1>2. ASSUME NEW c \in Cores, Begin(c) \/ Arrive(c) \/ InBarrier(c)
      PROVE  Booked' /\ Provided'
  <2>1. prog' = prog /\ C' = C /\ BB' = BB
    BY <1>2 DEF Begin, Arrive, InBarrier, mvars
  <2>2. \A d \in Cores : \A i \in Nat : Finished(d, i)' <=> Finished(d, i)
    BY <1>2, FinishedStays DEF Books
  <2> QED BY <2>1, <2>2, BooksStay DEF Books
<1>3. ASSUME NEW c \in Cores, End(c) PROVE Booked' /\ Provided'
  BY <1>3, EndBooked
<1> QED BY <1>1, <1>2, <1>3 DEF Next, Over, Core

\* C and the copy of B hold at any time what the finished stretches have brought.
THEOREM BooksKept == ASSUME Sound PROVE Spec => []Books
<1>1. Spec => []Level
  BY BInvLevel, MtImplementsB, BarrierPhases, PTL
<1>2. Books /\ [Next]_vars => Booked' /\ Provided'
  BY BooksStep
<1> QED BY <1>1, <1>2, BooksInit, MtPlaces, PTL DEF Spec, Books

\* In particular C is the ledger: the union, over the stretches finished since C was
\* last loaded, of what each brings.
COROLLARY LedgerKept == ASSUME Sound PROVE Spec => [](Ledger /\ CopiesThere)
<1>1. Books => Ledger /\ CopiesThere
  BY LedgerIs, CopiesAre DEF Books
<1> QED BY <1>1, BooksKept, PTL

-----------------------------------------------------------------------------
\* When a core verifies, C is what the text says is written before its round.
LEMMA WrittenThen ==
    ASSUME Sound, Books, NEW c \in Cores, mode[c] = "busy", NEW r \in Nat, r = round[c],
           Verifies(prog, c, r)
    PROVE  C = Written(prog, r)
<1>1. at[c] = "out"
  BY DEF Books, InPlace, Place
<1>2. Whole(prog) /\ r \in 0 .. Len(prog.code[c]) - 1
  <2>1. prog \in Programs /\ r + 1 <= Len(prog.code[c])
    BY DEF Books, InPlace, Place
  <2>2. Len(prog.code[c]) \in Nat
    BY <2>1, ProgramsAssumption
  <2> QED BY <2>1, <2>2 DEF Sound
<1>3. \A d \in Cores \ {c} : Into(prog, d, r) = {} /\ ~Clears(prog, d, r)
  BY <1>2 DEF Whole
<1>4. ~Finished(c, r)
  BY <1>1 DEF Finished, Books, TypeOK
<1>5. \A d \in Cores : \A i \in Nat :
          (i < r => Finished(d, i)) /\ (Finished(d, i) => i <= r)
  BY <1>1, FinishedThen DEF Books
<1>6. ASSUME NEW e, e \in C PROVE e \in Written(prog, r)
  <2>1. Held(e)
    BY <1>6 DEF Books, Booked
  <2>2. PICK d \in Cores : \E i \in Nat : Stands(d, i) /\ e \in Entries(prog, d, i)
    BY <2>1 DEF Held
  <2>3. PICK i \in Nat : Stands(d, i) /\ e \in Entries(prog, d, i)
    BY <2>2
  <2>4. i # r
    <3>1. Finished(d, i) /\ Into(prog, d, i) # {}
      BY <2>3 DEF Stands, Entries
    <3> QED BY <1>3, <1>4, <3>1
  <2>5. i \in 0 .. r-1
    <3>1. i <= r
      BY <1>5, <2>3 DEF Stands
    <3> QED BY <2>4, <3>1
  <2>6. ASSUME NEW b \in Cores, NEW j \in i+1 .. r-1 PROVE ~Clears(prog, b, j)
    <3>1. j \in Nat /\ i < j /\ j < r
      BY <2>5
    <3> QED BY <1>5, <2>3, <3>1 DEF Stands
  <2> QED BY <2>3, <2>5, <2>6 DEF Written
<1>7. ASSUME NEW e, e \in Written(prog, r) PROVE e \in C
  <2>1. PICK d \in Cores : \E i \in 0 .. r-1 :
            /\ \A b \in Cores : \A j \in i+1 .. r-1 : ~Clears(prog, b, j)
            /\ e \in Entries(prog, d, i)
    BY <1>7 DEF Written
  <2>2. PICK i \in 0 .. r-1 :
            /\ \A b \in Cores : \A j \in i+1 .. r-1 : ~Clears(prog, b, j)
            /\ e \in Entries(prog, d, i)
    BY <2>1
  <2>3. i \in Nat /\ i < r
    OBVIOUS
  <2>4. ASSUME NEW b \in Cores, NEW j \in Nat, i < j, Finished(b, j)
        PROVE  ~Clears(prog, b, j)
    <3>1. j <= r
      BY <1>5, <2>4
    <3>2. CASE j = r
      <4>1. b # c
        BY <1>4, <2>4, <3>2
      <4> QED BY <1>3, <3>2, <4>1
    <3>3. CASE j < r
      <4>1. j \in i+1 .. r-1
        BY <2>3, <2>4, <3>3
      <4> QED BY <2>2, <4>1
    <3> QED BY <3>1, <3>2, <3>3
  <2>5. Stands(d, i)
    BY <1>5, <2>3, <2>4 DEF Stands
  <2>6. Held(e)
    BY <2>2, <2>3, <2>5 DEF Held
  <2> QED BY <2>6 DEF Books, Booked
<1> QED BY <1>6, <1>7

\* A program whose text shares the loop nest out completely computes the product: with
\* any number of cores, in whatever order they run, C holds each product once when a
\* core verifies it.
THEOREM RightResult == ASSUME Sound PROVE Spec => []Result
<1>1. ASSUME Books PROVE Result
  <2> SUFFICES ASSUME NEW c \in Cores, mode[c] = "busy", \E t \in Stretch(c) : t.op = "verify"
               PROVE  Partition(prog, C)
    BY DEF Result
  <2>1. PICK r \in Nat : r = round[c]
    BY <1>1 DEF Books, TypeOK
  <2>2. Verifies(prog, c, r)
    BY <2>1 DEF Verifies, Stretch
  <2>3. C = Written(prog, r)
    BY <1>1, <2>1, <2>2, WrittenThen
  <2>4. Whole(prog) /\ r \in 0 .. Len(prog.code[c]) - 1
    <3>1. prog \in Programs /\ r + 1 <= Len(prog.code[c])
      BY <1>1, <2>1 DEF Books, InPlace, Place
    <3>2. Len(prog.code[c]) \in Nat
      BY <3>1, ProgramsAssumption
    <3> QED BY <1>1, <3>1, <3>2 DEF Sound
  <2>5. Partition(prog, Written(prog, r))
    BY <2>2, <2>4 DEF Whole
  <2> QED BY <2>3, <2>5
<1>2. Books => Result
  BY <1>1
<1> QED BY <1>2, BooksKept, PTL
=============================================================================
