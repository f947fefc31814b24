------------------------------- MODULE MCIfetch -------------------------------
(***************************************************************************)
(* Two lanes of 64 bits in the ITCM, halfwords 0..7, and two words of      *)
(* memory, 8..11, the second of which answers with an error.               *)
(***************************************************************************)
EXTENDS Ifetch, TLC

\* 32-bit instructions at positions 0, 1 and 3 of a lane and across two words, and
\* jumps from the ITCM to memory and back, one of them across the lanes
Mixed == [wide |-> {0, 3, 5, 9}, jump |-> (3 :> 8) @@ (7 :> 0) @@ (11 :> 5), jalr |-> {11}]
\* 32-bit instructions one halfword off, so that each second one crosses a lane;
\* data of the LSU decodes as 32 bits
OneOff == [wide |-> {1, 3, 5, 8, 10, Junk}, jump |-> (7 :> 8) @@ (10 :> 1), jalr |-> {7}]

MCPrograms == {Mixed, OneOff}
===============================================================================
