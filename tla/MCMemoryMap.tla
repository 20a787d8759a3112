---------------------------- MODULE MCMemoryMap ----------------------------
(* Four regions of four bytes, two views of two regions of RDRAM; two      *)
(* breakpoint slots and two frame buffers.                                 *)
EXTENDS MemoryMap

MCBaseMap == [k \in Kinds |-> [r \in Regions |-> "rdram"]]

MCBreakpoints ==
    {[address |-> 2, endaddr |-> 3, flags |-> {"READ", "ENABLED"}],
     [address |-> 2, endaddr |-> 9, flags |-> {"READ", "WRITE", "ENABLED"}],
     [address |-> 12, endaddr |-> 12, flags |-> {"WRITE", "EXEC"}]}

MCSpans == {0 .. 0}
=============================================================================
