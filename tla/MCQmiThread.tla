---------------------------- MODULE MCQmiThread ----------------------------
(* Small instances of QmiThread: a control, an IPv4 and an IPv6 data service. *)
EXTENDS QmiThread

MCServices == {"ctl", "wds", "wds6"}
MCQmiType == [s \in MCServices |-> IF s = "ctl" THEN 0 ELSE 1]
MCClientId == [s \in MCServices |-> IF s = "wds" THEN 7 ELSE IF s = "wds6" THEN 8 ELSE 0]
MCLateEvent == [s \in MCServices |-> IF s = "wds" THEN "calllist" ELSE "noevent"]
MCIndications == {"calllist", "reset"}
MCTidMax == [c \in {"ctl", "mux"} |-> 2]
MCAnswerWindow == [c \in {"ctl", "mux"} |-> 2]
=============================================================================
