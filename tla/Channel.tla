------------------------------ MODULE Channel --------------------------------
(***************************************************************************)
(* What the FIFOs and the clock crossing of sirv_gnrl_bufs.v promise to    *)
(* their two sides: a channel that delivers every accepted word once and   *)
(* in order.  What the two sides see are inp and out, the last accepted    *)
(* and the last delivered word, each with a bit that turns with every      *)
(* word.                                                                   *)
(***************************************************************************)
EXTENDS Sequences, Naturals

CONSTANTS
    Data,
    Capacity,  \* how many words fit
    Bypass     \* a word may go through an empty channel at once

VARIABLES chan, inp, out

cvars == <<chan, inp, out>>

Turn(port, d) == [word |-> d, odd |-> ~port.odd]

Init == /\ chan = <<>>
        /\ \E d \in Data : inp = [word |-> d, odd |-> FALSE]
        /\ \E d \in Data : out = [word |-> d, odd |-> FALSE]

Send(d) ==
    /\ Len(chan) < Capacity
    /\ chan' = Append(chan, d)
    /\ inp' = Turn(inp, d) /\ UNCHANGED out

Receive ==
    /\ chan # <<>>
    /\ chan' = Tail(chan)
    /\ out' = Turn(out, Head(chan)) /\ UNCHANGED inp

\* A word comes in at one end while another leaves at the other.
Both(d) ==
    /\ chan # <<>>
    /\ chan' = Append(Tail(chan), d)
    /\ inp' = Turn(inp, d) /\ out' = Turn(out, Head(chan))

\* A word goes through.
Pass(d) ==
    /\ Bypass /\ chan = <<>>
    /\ inp' = Turn(inp, d) /\ out' = Turn(out, d) /\ UNCHANGED chan

Next == Receive \/ \E d \in Data : Send(d) \/ Both(d) \/ Pass(d)

Spec == Init /\ [][Next]_cvars
=============================================================================
