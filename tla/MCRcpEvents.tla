---------------------------- MODULE MCRcpEvents ----------------------------
EXTENDS RcpEvents
MCDelays == [d \in Timed |-> CASE d = "PI" -> {3} [] d = "SI" -> {3}
                               [] d = "AI" -> {5} [] d = "VI" -> {16}]
MCSpDelays == [t \in Tasks |-> CASE t = "gfx" -> 3 [] t = "audio" -> 5 [] OTHER -> 1]
MCMasks == {Devices \ {"VI"}}
MCLines == {{"rcp"}}
\* what a game uses of the machine, one part at a time
MCPrograms ==
    {{"mask", "pi", "pistatus", "status", "eret"},
     {"mask", "ai", "aistatus", "status", "eret"},
     {"mask", "dpcend", "cleardp", "signalsp", "status", "eret"},
     {"mask", "dpcend", "status", "eret", "cause", "slots"},
     {"mask", "signalsp", "vicurrent", "status", "eret", "syscall"},
     {"mask", "si", "sistatus", "status", "eret"},
     {"mask", "sinow", "sistatus", "status", "eret"},
     {"compare", "idle"}, {"count", "idle", "slots"},
     {"compare", "status", "eret", "slots"}, {"compare", "syscall", "slots"},
     {"startsp", "freeze", "unfreeze", "breaksp"},
     {"startsp", "freeze", "haltsp"}, {"startsp", "mask", "status"},
     {"hardreset", "pi"}, {"softreset", "ai"}, {"pi", "ai", "idle"},
     {"softreset", "mask", "dpcend", "status"}}
MCGraphics == {{"startsp", "freeze", "unfreeze", "breaksp"}}
=============================================================================
