------------------------------ MODULE MCConnMain ------------------------------
(* Instances of ConnMain for TLC. *)
EXTENDS ConnMain

MCBackOff == <<1, 3>>
MCBackOffShort == <<3>>
=============================================================================
