------------------------------ MODULE GnrlFifo -------------------------------
(***************************************************************************)
(* sirv_gnrl_fifo, and sirv_gnrl_bypbuf around it: a ring of registers     *)
(* with a read and a write pointer (one-hot vectors, here the position of  *)
(* the set bit) and a vector of DP + 1 bits that is shifted up by a write  *)
(* and down by a read and tells full and empty.  One step is one clock.    *)
(***************************************************************************)
EXTENDS Integers, Sequences

CONSTANTS
    Data,
    DP,        \* the depth
    CutReady,  \* CUT_READY, which matters at depth 1 only
    Bypass     \* the bypass buffer

ASSUME DepthAssumption  == DP \in Nat \ {0}
ASSUME ReadyAssumption  == CutReady \in BOOLEAN
\* The bypass buffer's FIFO is one that cuts its ready signal.
ASSUME BypassAssumption == Bypass \in BOOLEAN /\ (Bypass => CutReady)

VARIABLES
    rf,    \* fifo_rf_r
    wptr,  \* wptr_vec_r
    rptr,  \* rptr_vec_r
    vec,   \* vec_r
    \* history: the last accepted and the last delivered word, each with a
    \* bit that turns with every word
    inp, out

regs == <<rf, wptr, rptr, vec>>
vars == <<regs, inp, out>>

Entries == 0 .. DP - 1

Turn(port, d) == [word |-> d, odd |-> ~port.odd]

Succ(p) == IF p = DP - 1 THEN 0 ELSE p + 1

Init ==
    /\ rf \in [Entries -> Data]
    /\ wptr = 0 /\ rptr = 0
    /\ vec = [k \in 0 .. DP |-> k = 0]
    /\ \E d \in Data : inp = [word |-> d, odd |-> FALSE]
    /\ out = inp

Full  == vec[DP]
Valid == vec[1]      \* o_vld of the FIFO

\* (mutant) a write shifts up whether or not a word is read
ShiftedOver(wen, ren) ==
    IF wen THEN [k \in 0 .. DP |-> k = 0 \/ vec[k - 1]]
    ELSE IF ren THEN [k \in 0 .. DP |-> k < DP /\ vec[k + 1]] ELSE vec
Shifted(wen, ren) ==
    IF wen = ren THEN vec
    ELSE IF wen THEN [k \in 0 .. DP |-> k = 0 \/ vec[k - 1]]
    ELSE [k \in 0 .. DP |-> k < DP /\ vec[k + 1]]

\* (mutant) the write pointer is held while a word is read
FifoStepHeld(wen, ren, d) ==
    /\ rf'   = (IF wen THEN [rf EXCEPT ![wptr] = d] ELSE rf)
    /\ wptr' = (IF wen /\ ~ren THEN Succ(wptr) ELSE wptr)
    /\ rptr' = (IF ren THEN Succ(rptr) ELSE rptr)
    /\ vec'  = Shifted(wen, ren)
\* (mutant) the word is written after the pointer has moved
FifoStepMoved(wen, ren, d) ==
    /\ rf'   = (IF wen THEN [rf EXCEPT ![Succ(wptr)] = d] ELSE rf)
    /\ wptr' = (IF wen THEN Succ(wptr) ELSE wptr)
    /\ rptr' = (IF ren THEN Succ(rptr) ELSE rptr)
    /\ vec'  = Shifted(wen, ren)
\* A clock of the FIFO; wen and ren are its two handshakes.
FifoStep(wen, ren, d) ==
    /\ rf'   = (IF wen THEN [rf EXCEPT ![wptr] = d] ELSE rf)
    /\ wptr' = (IF wen THEN Succ(wptr) ELSE wptr)
    /\ rptr' = (IF ren THEN Succ(rptr) ELSE rptr)
    /\ vec'  = Shifted(wen, ren)

\* (mutant) the word leaving is not asked for
ReadyAlways(oRdy) == ~Full \/ (DP = 1 /\ ~CutReady)
\* i_rdy: at depth 1 also while the word is leaving, unless that is cut off
Ready(oRdy) == ~Full \/ (DP = 1 /\ ~CutReady /\ Valid /\ oRdy)

-----------------------------------------------------------------------------
(* The input handshake and the output handshake.  With a bypass, a word    *)
(* that comes while the FIFO is empty is offered at once and stored only   *)
(* if it is not taken.                                                     *)
-----------------------------------------------------------------------------
\* (mutant) the input passes whatever the FIFO holds
ThroughAlways(iVld, oRdy) == Bypass /\ iVld /\ oRdy
Through(iVld, oRdy) == Bypass /\ iVld /\ oRdy /\ ~Valid   \* byp

Clock(iVld, d, oRdy) ==
    LET through == Through(iVld, oRdy)
        wen == iVld /\ ~through /\ Ready(oRdy)
        ren == Valid /\ oRdy
    IN  /\ FifoStep(wen, ren, d)
        /\ inp' = (IF iVld /\ Ready(oRdy) THEN Turn(inp, d) ELSE inp)
        /\ out' = (IF ren THEN Turn(out, rf[rptr])
                   ELSE IF through THEN Turn(out, d) ELSE out)

Next == \E iVld \in BOOLEAN, d \in Data, oRdy \in BOOLEAN : Clock(iVld, d, oRdy)

Spec == Init /\ [][Next]_vars

-----------------------------------------------------------------------------
(* Properties *)

TypeOK ==
    /\ rf \in [Entries -> Data]
    /\ wptr \in Entries /\ rptr \in Entries
    /\ vec \in [0 .. DP -> BOOLEAN]
    /\ inp \in [word : Data, odd : BOOLEAN] /\ out \in [word : Data, odd : BOOLEAN]

\* The k-th entry from the read pointer on.
Slot(k) == IF rptr + k < DP THEN rptr + k ELSE rptr + k - DP

\* The vector is a thermometer of n entries and the pointers are n apart.
Holds(n) == /\ \A k \in 0 .. DP : vec[k] <=> k <= n
            /\ wptr = IF n = DP THEN rptr ELSE Slot(n)

\* The three registers that are moved apart by writes and reads agree on
\* how many entries are in use, also after wraps and simultaneous moves.
Agree == \E n \in 0 .. DP : Holds(n)

Count == CHOOSE n \in 0 .. DP : Holds(n)
Words(n) == [k \in 1 .. n |-> rf[Slot(k - 1)]]
Contents == Words(Count)

Chan == INSTANCE Channel WITH chan <- Contents, Capacity <- DP

\* The FIFO is a queue of DP words: nothing is lost, duplicated, overwritten
\* or reordered, and with the bypass no word overtakes another.
IsQueue == Chan!Spec

=============================================================================
