------------------------------ MODULE Barrier ------------------------------
(***************************************************************************)
(* The barrier of the multi-core programs, barrier(ncores) of              *)
(* benchmarks/common/util.h: a counter and a sense that every round        *)
(* reverses.  The variables count and sense are shared, threadsense is     *)
(* thread-local.  A core's call is cut at its shared accesses; its         *)
(* thread-local toggle goes with the fetch-and-add that follows.  round[c] *)
(* is not in the code: it counts the calls core c has returned from, that  *)
(* is, where its program stands.                                           *)
(***************************************************************************)
EXTENDS Naturals, FiniteSets

CONSTANT Cores          \* the cores that call it; ncores is their number

ASSUME CoresAssumption == IsFiniteSet(Cores) /\ Cores # {}

VARIABLES count, sense, threadsense, at, round

bvars == <<count, sense, threadsense, at, round>>

ncores == Cardinality(Cores)

Places == {"out",       \* not in barrier()
           "spin",      \* in while (sense != threadsense)
           "last",      \* before count = 0
           "reset"}     \* before sense = threadsense

BInit == /\ count = 0
         /\ sense = FALSE
         /\ threadsense = [c \in Cores |-> FALSE]
         /\ at = [c \in Cores |-> "out"]
         /\ round = [c \in Cores |-> 0]

\* Mutants: the last core is taken to be one earlier; the counter is not cleared.
EnterEarly(c) ==
    /\ at[c] = "out"
    /\ threadsense' = [threadsense EXCEPT ![c] = ~@]
    /\ count' = count + 1
    /\ at' = [at EXCEPT ![c] = IF count = ncores - 2 THEN "last" ELSE "spin"]
    /\ UNCHANGED <<sense, round>>

ResetNot(c) ==
    /\ at[c] = "last"
    /\ at' = [at EXCEPT ![c] = "reset"]
    /\ UNCHANGED <<count, sense, threadsense, round>>

\* threadsense = !threadsense; fetch_and_add(&count, 1) == ncores-1.
Enter(c) ==
    /\ at[c] = "out"
    /\ threadsense' = [threadsense EXCEPT ![c] = ~@]
    /\ count' = count + 1
    /\ at' = [at EXCEPT ![c] = IF count = ncores - 1 THEN "last" ELSE "spin"]
    /\ UNCHANGED <<sense, round>>

\* count = 0, before anybody is let go.
Reset(c) ==
    /\ at[c] = "last"
    /\ count' = 0
    /\ at' = [at EXCEPT ![c] = "reset"]
    /\ UNCHANGED <<sense, threadsense, round>>

\* sense = threadsense, and out.
Release(c) ==
    /\ at[c] = "reset"
    /\ sense' = threadsense[c]
    /\ at' = [at EXCEPT ![c] = "out"]
    /\ round' = [round EXCEPT ![c] = @ + 1]
    /\ UNCHANGED <<count, threadsense>>

\* A core that reads another sense than its own reads it again.
Spin(c) ==
    /\ at[c] = "spin"
    /\ sense # threadsense[c]
    /\ UNCHANGED bvars

Leave(c) ==
    /\ at[c] = "spin"
    /\ sense = threadsense[c]
    /\ at' = [at EXCEPT ![c] = "out"]
    /\ round' = [round EXCEPT ![c] = @ + 1]
    /\ UNCHANGED <<count, sense, threadsense>>

BNext == \E c \in Cores : Enter(c) \/ Reset(c) \/ Release(c) \/ Spin(c) \/ Leave(c)

BSpec == BInit /\ [][BNext]_bvars

-----------------------------------------------------------------------------
TypeOK == /\ count \in Nat
          /\ sense \in BOOLEAN
          /\ threadsense \in [Cores -> BOOLEAN]
          /\ at \in [Cores -> Places]
          /\ round \in [Cores -> Nat]

\* Nobody leaves a call before everybody has made it, although a core may be in
\* its next call while another has yet to see that the last one is over.
R == INSTANCE Rendezvous WITH waiting <- {c \in Cores : at[c] # "out"}

IsBarrier == R!Spec
=============================================================================
