------------------------------- MODULE MCCdc ---------------------------------
(* Two values and synchronisers of two flops, as the debug module has them. *)
EXTENDS Cdc
=============================================================================
