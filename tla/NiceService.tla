---------------------------- MODULE NiceService -----------------------------
(***************************************************************************)
(* What the CNN accelerator promises the core, without loaders, counters   *)
(* or memory port: one instruction at a time; a weight load fills a buffer *)
(* that is still empty, an image load classifies the image in Tiles passes *)
(* through the systolic array, each a fill with weights and a stream of    *)
(* activations.                                                            *)
(***************************************************************************)
EXTENDS Integers

CONSTANTS Weights, Bases, Unset, Tiles

VARIABLES
    job,      \* the instruction being executed, or "none"
    base,     \* its rs1
    weights,  \* where each weight buffer was loaded from, or Unset
    image,    \* the image being classified
    tile,     \* the pass through the array, 1 .. Tiles, 0 outside
    part      \* of the pass: "fill" or "stream"

vars == <<job, base, weights, image, tile, part>>

Init ==
    /\ job = "none" /\ base = Unset
    /\ weights = [op \in Weights |-> Unset]
    /\ image = Unset /\ tile = 0 /\ part = "fill"

Accept(op, b) ==
    /\ job = "none"
    /\ job' = op /\ base' = b
    /\ UNCHANGED <<weights, image, tile, part>>

\* A weight buffer is filled once and keeps its contents until reset.
FillWeights(op) ==
    /\ job = op /\ weights[op] = Unset
    /\ weights' = [weights EXCEPT ![op] = base]
    /\ UNCHANGED <<job, base, image, tile, part>>

AnswerWeights(op) ==
    /\ job = op /\ weights[op] # Unset
    /\ job' = "none"
    /\ UNCHANGED <<base, weights, image, tile, part>>

StartImage ==
    /\ job = "input" /\ tile = 0
    /\ image' = base /\ tile' = 1
    /\ UNCHANGED <<job, base, weights, part>>

Stream ==
    /\ tile > 0 /\ part = "fill"
    /\ part' = "stream"
    /\ UNCHANGED <<job, base, weights, image, tile>>

NextTile ==
    /\ tile \in 1 .. Tiles - 1 /\ part = "stream"
    /\ tile' = tile + 1 /\ part' = "fill"
    /\ UNCHANGED <<job, base, weights, image>>

AnswerImage ==
    /\ tile = Tiles /\ part = "stream"
    /\ job' = "none" /\ image' = Unset /\ tile' = 0 /\ part' = "fill"
    /\ UNCHANGED <<base, weights>>

Next ==
    \/ \E op \in Weights \union {"input"} : \E b \in Bases[op] : Accept(op, b)
    \/ \E op \in Weights : FillWeights(op) \/ AnswerWeights(op)
    \/ StartImage \/ Stream \/ NextTile \/ AnswerImage

Spec == Init /\ [][Next]_vars
=============================================================================
