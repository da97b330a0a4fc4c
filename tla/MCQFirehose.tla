----------------------------- MODULE MCQFirehose -----------------------------
(* A small package: the SBL, a partition with an image and one without. *)
EXTENDS QFirehose

E(p) == [op |-> "erase", part |-> p]
P(p) == [op |-> "program", part |-> p]
V == [op |-> "vendor", part |-> None]
MCJob(t, only, all, missing) == [table |-> t, only |-> only, eraseAll |-> all, missing |-> missing]
MCTable == <<E("sbl"), E("boot"), E("usr"), P("sbl"), P("boot")>>
MCJobs ==
    {MCJob(MCTable, None, all, {}) : all \in BOOLEAN}
        \cup {MCJob(MCTable, "boot", FALSE, {"sbl"}), MCJob(MCTable, Other, FALSE, {}),
              MCJob(<<E("sbl"), V, P("boot"), P("usr"), P("sbl")>>, None, FALSE, {}),
              MCJob(<<E("boot"), P("boot")>>, None, FALSE, {"boot"})}
MCSize == [p \in Parts |-> IF p = "boot" THEN 2 ELSE 1]
=============================================================================
