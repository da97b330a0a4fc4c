------------------------------- MODULE MCMbimCm -------------------------------
(* Two things happen to the modem by itself, and one answer may be late.   *)
EXTENDS MbimCm
=============================================================================
