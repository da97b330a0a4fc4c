----------------------------- MODULE MCMbimProxy -----------------------------
(* An instance of MbimProxy: all clients use one id, the largest. *)
EXTENDS MbimProxy

MCTids == {Shift - 1}
=============================================================================
