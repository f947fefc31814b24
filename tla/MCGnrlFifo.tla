----------------------------- MODULE MCGnrlFifo ------------------------------
(* A bypass buffer around a FIFO whose depth is no power of two.            *)
EXTENDS GnrlFifo
=============================================================================
