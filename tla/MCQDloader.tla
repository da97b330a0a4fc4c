----------------------------- MODULE MCQDloader -----------------------------
EXTENDS QDloader

Item(id, kind) == [id |-> id, kind |-> kind]

MCScheme ==
    [c \in {"RG500U", "EC200U"} |->
        <<Item("fdl", "loader"), Item("fdl2", "fdl2")>> \o
        IF c = "RG500U"
        THEN <<Item("boot", "image"), Item("nv", "nv"), Item("sn", "keep"),
               Item("phase", "trim"), Item("logo", "skip"), Item("system", "image"), Item("cache", "erase")>>
        ELSE <<Item("boot", "image"), Item("nv", "nv"), Item("sn", "keep"),
               Item("phase", "trim"), Item("system", "image"), Item("fs", "erase")>>]

Line(op, img, chunks) == [op |-> op, img |-> img, chunks |-> chunks]

MCScript ==
    <<Line("getvar", "none", 0), Line("call", "none", 0),
      Line("download", "boot", 1), Line("flash", "boot", 0),
      Line("download", "system", 2), Line("flash", "system", 0)>>
=============================================================================
