--------------------------- MODULE MCPageNumbers ----------------------------
(***************************************************************************)
(* Register words for the conversions of PageNumbers: every combination of *)
(* flags and coherency bits with page frames at the edges of the fields.   *)
(***************************************************************************)
EXTENDS PageNumbers

EntryFlags == 0 .. 63
Frames == {0, 1, 31, 32, 33, 21845, 33554431}

MCEntryLos == {f + 64 * p : f \in EntryFlags, p \in Frames}
=============================================================================
