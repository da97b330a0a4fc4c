-------------------------------- MODULE MCAtc --------------------------------
(* A modem of either style, with one thing happening to it by itself. *)
EXTENDS Atc
=============================================================================
