-------------------------------- MODULE Cdc ----------------------------------
(***************************************************************************)
(* The clock crossing of sirv_gnrl_bufs.v: sirv_gnrl_cdc_tx connected to   *)
(* sirv_gnrl_cdc_rx, as between the JTAG transport module and the debug    *)
(* module.  The two clocks are unrelated: their ticks come in any order or   *)
(* together.  A flop that samples a changing level takes the old or the    *)
(* new one, which is the order of the two ticks.                           *)
(***************************************************************************)
EXTENDS Integers, Sequences

CONSTANTS
    Data,   \* the values the transmitter is given
    Sync    \* SYNC_DP, the flops of each synchroniser

ASSUME SyncAssumption == Sync \in Nat \ {0}

VARIABLES
    \* clocked by the transmitter
    vld,      \* vld_r, the level o_vld
    dat,      \* dat_r
    nrdy,     \* nrdy_r: the handshake is not over
    rdyChain, \* the synchroniser of o_rdy_a and, last, o_rdy_sync_r
    \* clocked by the receiver
    rdy,      \* i_rdy_r, the level i_rdy
    bufVld,   \* buf_vld_r
    bufDat,   \* buf_dat_r
    vldChain, \* the synchroniser of i_vld_a and, last, i_vld_sync_r
    \* history: the last accepted and the last delivered word, each with a
    \* bit that turns with every word
    inp, out

tx == <<vld, dat, nrdy, rdyChain, inp>>
rx == <<rdy, bufVld, bufDat, vldChain, out>>
vars == <<tx, rx>>

Stages == 1 .. Sync + 1

Shift(chain, level) == [k \in Stages |-> IF k = 1 THEN level ELSE chain[k - 1]]

Turn(port, d) == [word |-> d, odd |-> ~port.odd]

Synced(chain)  == chain[Sync]
NegEdge(chain) == ~chain[Sync] /\ chain[Sync + 1]

Init ==
    /\ vld = FALSE /\ dat \in Data /\ nrdy = FALSE
    /\ rdyChain = [k \in Stages |-> FALSE]
    /\ inp = [word |-> dat, odd |-> FALSE] /\ out = inp
    /\ rdy = FALSE /\ bufVld = FALSE /\ bufDat \in Data
    /\ vldChain = [k \in Stages |-> FALSE]

-----------------------------------------------------------------------------
(* The transmitter. *)

\* (mutant) the next word is accepted as soon as the valid level has fallen
TxReadyEarly == ~vld
TxReady == ~nrdy \/ NegEdge(rdyChain)   \* i_rdy

\* A clock of the transmitter; put says that i_vld is high with data d.
TxTick(put, d) ==
    LET set == put /\ TxReady
    IN  /\ vld'  = (set \/ (vld /\ ~Synced(rdyChain)))
        /\ dat'  = (IF set THEN d ELSE dat)
        /\ nrdy' = (set \/ (nrdy /\ ~NegEdge(rdyChain)))
        /\ rdyChain' = Shift(rdyChain, rdy)
        /\ inp' = (IF set THEN Turn(inp, d) ELSE inp)

-----------------------------------------------------------------------------
(* The receiver. *)

\* (mutant) the buffer is loaded even when it is full
RxLoadsOver == Synced(vldChain) /\ ~rdy
\* (mutant) the buffer is loaded in the cycle of the rising edge or never
RxLoadsAtEdge == ~bufVld /\ Synced(vldChain) /\ ~vldChain[Sync + 1] /\ ~rdy
RxLoads == ~bufVld /\ Synced(vldChain) /\ ~rdy   \* i_rdy_set

\* A clock of the receiver; get is o_rdy.
RxTick(get) ==
    /\ rdy' = (RxLoads \/ (rdy /\ ~NegEdge(vldChain)))
    /\ bufDat' = (IF RxLoads THEN dat ELSE bufDat)
    /\ bufVld' = (RxLoads \/ (bufVld /\ ~get))
    /\ vldChain' = Shift(vldChain, vld)
    /\ out' = (IF bufVld /\ get THEN Turn(out, bufDat) ELSE out)

-----------------------------------------------------------------------------
TxClock == \E put \in BOOLEAN, d \in Data : TxTick(put, d)
RxClock == \E get \in BOOLEAN : RxTick(get)
TxOnly  == TxClock /\ UNCHANGED rx
RxOnly  == RxClock /\ UNCHANGED tx
Together == TxClock /\ RxClock
Next == TxOnly \/ RxOnly \/ Together

Spec == Init /\ [][Next]_vars

\* Both clocks run, and the receiver's user takes what it is offered, now
\* and again.
Ticks == TxOnly \/ Together
Takes == RxTick(TRUE) /\ (UNCHANGED tx \/ TxClock)
FairSpec == Spec /\ WF_vars(Ticks) /\ WF_vars(Takes)

-----------------------------------------------------------------------------
(* Properties *)

TypeOK ==
    /\ vld \in BOOLEAN /\ dat \in Data /\ nrdy \in BOOLEAN
    /\ rdyChain \in [Stages -> BOOLEAN]
    /\ rdy \in BOOLEAN /\ bufVld \in BOOLEAN /\ bufDat \in Data
    /\ vldChain \in [Stages -> BOOLEAN]
    /\ inp \in [word : Data, odd : BOOLEAN] /\ out \in [word : Data, odd : BOOLEAN]

\* The four phases of the handshake (comment at line 148): in each, one
\* level has changed and its edge travels through the other side's
\* synchroniser, while the other chain is still.  So neither side can see
\* an edge twice, and the transmitter's data holds while it may be loaded.
All(chain, b)  == \A k \in Stages : chain[k] = b
Edge(chain, b) == \A j, k \in Stages : j < k /\ chain[k] = b => chain[j] = b

FourPhases ==
    /\ vld /\ ~rdy  => nrdy /\ Edge(vldChain, TRUE) /\ All(rdyChain, FALSE)
    /\ vld /\ rdy   => nrdy /\ All(vldChain, TRUE) /\ Edge(rdyChain, TRUE)
    /\ ~vld /\ rdy  => nrdy /\ Edge(vldChain, FALSE) /\ All(rdyChain, TRUE)
    /\ ~vld /\ ~rdy => /\ All(vldChain, FALSE) /\ Edge(rdyChain, FALSE)
                       /\ IF nrdy THEN rdyChain[Sync + 1] ELSE All(rdyChain, FALSE)

\* The word in the transmitter counts until the receiver has loaded it.
Pending == vld /\ ~rdy
Contents ==
    IF bufVld
    THEN IF Pending THEN <<bufDat, dat>> ELSE <<bufDat>>
    ELSE IF Pending THEN <<dat>> ELSE <<>>

\* Two words fit: one in the transmitter's register, one in the receiver's.
Chan == INSTANCE Channel WITH chan <- Contents, Capacity <- 2, Bypass <- FALSE

\* The crossing is a channel: nothing is lost, duplicated or reordered,
\* whatever the two clocks' speeds.
IsChannel == Chan!Spec

\* An accepted word arrives in the buffer, what is there is taken, and the
\* handshake comes back to the state in which the next word is accepted.
Progress ==
    /\ \A d \in Data : vld /\ ~rdy /\ dat = d ~> bufVld /\ bufDat = d
    /\ bufVld ~> ~bufVld
    /\ nrdy ~> TxReady

=============================================================================
