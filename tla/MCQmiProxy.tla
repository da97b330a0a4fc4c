----------------------------- MODULE MCQmiProxy -----------------------------
(* A small instance of QmiProxy: two clients, two client ids of one service. *)
EXTENDS QmiProxy

MCTypeOf == [i \in Ids |-> "wds"]
=============================================================================
