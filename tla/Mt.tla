-------------------------------- MODULE Mt --------------------------------
(***************************************************************************)
(* The multi-core programs of riscv-tests/mt at work: the cores run their  *)
(* stretches of code (see MtPrograms) and meet in the barrier between one  *)
(* stretch and the next.  Memory is sequentially consistent, as in the     *)
(* simulator the programs are run on (spike -p2).                          *)
(*                                                                         *)
(* The result matrix C is the set of the tiles that have gone into it,     *)
(* each with the core and the round it comes from; BB is what the shared   *)
(* copy of B holds.  A stretch has a beginning and an end: what a core     *)
(* reads in it, it may have read at any time since the beginning.          *)
(***************************************************************************)
EXTENDS Barrier, Integers, FiniteSetsExt, Sequences

CONSTANT Programs
\* a set of records [code, rows, cols, ks]: code[c] is the sequence of stretches of
\* core c, the rest the dimensions of the result

ASSUME ProgramsAssumption ==
    \A p \in Programs : \A c \in Cores : Len(p.code[c]) \in Nat \ {0}

VARIABLES prog,    \* the program that is run
          mode,    \* mode[c]: core c before, in or after the stretch numbered round[c]
          C, BB

mvars == <<prog, mode, C, BB>>
vars == <<bvars, mvars>>

Modes == {"ready", "busy", "ended"}

Stretch(c) == prog.code[c][round[c] + 1]
LastStretch(c) == round[c] + 1 = Len(prog.code[c])

Init == /\ BInit
        /\ prog \in Programs
        /\ mode = [c \in Cores |-> "ready"]
        /\ C = {}
        /\ BB = {}

Begin(c) == /\ at[c] = "out"
            /\ mode[c] = "ready"
            /\ mode' = [mode EXCEPT ![c] = "busy"]
            /\ UNCHANGED <<bvars, prog, C, BB>>

Copied(S) == UNION {t.cols \X t.ks : t \in {t \in S : t.op = "copy"}}

\* The tiles are in C, right unless they went through a copy that was not yet there.
End(c) ==
    LET S == Stretch(c)
        Right(t) == t.via => t.cols \X t.ks \subseteq BB \cup Copied(S)
    IN  /\ mode[c] = "busy"
        /\ mode' = [mode EXCEPT ![c] = "ended"]
        /\ C' = (IF \E t \in S : t.op = "reload" THEN {} ELSE C) \cup
                {[core |-> c, round |-> round[c], tile |-> t, right |-> Right(t)] :
                    t \in {t \in S : t.op \in {"add", "set"}}}
        /\ BB' = BB \cup Copied(S)
        /\ UNCHANGED <<bvars, prog>>

Arrive(c) == /\ mode[c] = "ended"
             /\ ~LastStretch(c)
             /\ Enter(c)
             /\ mode' = [mode EXCEPT ![c] = "ready"]
             /\ UNCHANGED <<prog, C, BB>>

InBarrier(c) == /\ Reset(c) \/ Release(c) \/ Spin(c) \/ Leave(c)
                /\ UNCHANGED mvars

Core(c) == Begin(c) \/ End(c) \/ Arrive(c) \/ InBarrier(c)

Done(c) == mode[c] = "ended" /\ LastStretch(c)

\* exit() tells the simulator to stop and spins.  What stops the others in between
\* is left out: they may go on to their own exit.
Over == (\A c \in Cores : Done(c)) /\ UNCHANGED vars

Next == (\E c \in Cores : Core(c)) \/ Over

Spec == Init /\ [][Next]_vars

\* Every core is a hardware thread of its own.
FairSpec == Spec /\ \A c \in Cores : WF_vars(Core(c))
-----------------------------------------------------------------------------
Cells(t) == t.rows \X t.cols

Writes(t) == t.op \in {"add", "set", "reload"}
Reads(t) == t.op \in {"add", "verify"}

Conflict(t, u) ==
    \/ /\ Writes(t) /\ (Writes(u) \/ Reads(u))
       /\ t.rows \cap u.rows # {} /\ t.cols \cap u.cols # {}
    \/ /\ t.op = "copy" /\ (u.op = "copy" \/ u.via)
       /\ t.cols \cap u.cols # {} /\ t.ks \cap u.ks # {}

\* While two cores are at work neither writes what the other reads or writes: the
\* barriers are where they must be, and C += of two cores never meets in one cell,
\* where one of the sums would be lost.
NoRace ==
    \A c, d \in Cores : c # d /\ mode[c] = "busy" /\ mode[d] = "busy" =>
        \A t \in Stretch(c), u \in Stretch(d) : ~Conflict(t, u)

Volume(t) == Cardinality(t.rows) * Cardinality(t.cols) * Cardinality(t.ks)

\* The tiles of S are a partition of the loop nest of program p: every cell of the
\* result holds each of its products once, none comes from outside the matrices or
\* from a copy not yet made, and nothing was overwritten.
Partition(p, S) ==
    /\ \A e \in S : /\ e.right
                    /\ e.tile.rows \subseteq 0 .. p.rows - 1
                    /\ e.tile.cols \subseteq 0 .. p.cols - 1
                    /\ e.tile.ks \subseteq 0 .. p.ks - 1
    /\ \A e, f \in S : \/ e = f
                       \/ e.tile.rows \cap f.tile.rows = {}
                       \/ e.tile.cols \cap f.tile.cols = {}
                       \/ e.tile.ks \cap f.tile.ks = {} /\ {e.tile.op, f.tile.op} = {"add"}
    /\ MapThenSumSet(LAMBDA e : Volume(e.tile), S) = p.rows * p.cols * p.ks

\* Whenever a core verifies the result, C is all of it and right.
Result ==
    (\E c \in Cores : mode[c] = "busy" /\ \E t \in Stretch(c) : t.op = "verify") =>
        Partition(prog, C)

\* Every core comes to its exit: they all call the barrier equally often, and
\* nobody is left spinning in it.
Finishes == <>(\A c \in Cores : Done(c))
=============================================================================
