-------------------------------- MODULE MCBiu --------------------------------
(* The configuration of core/e203_defines.v, with two of the four           *)
(* peripheral regions.                                                      *)
EXTENDS Biu
MCTwoPeriph == {"ppi", "clint"}
=============================================================================
