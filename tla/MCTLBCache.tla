----------------------------- MODULE MCTLBCache -----------------------------
(***************************************************************************)
(* Four entries, of which 0 is always wired, so that Random cycles over    *)
(* two of the other three; one page in two address spaces, which is two    *)
(* page numbers to the code; and Index values that reach a wired entry,    *)
(* another, and none, in range in its low byte only.                       *)
(***************************************************************************)
EXTENDS TLBCache

Half(v, g) == [valid |-> v, global |-> g]

Vpn(a, v) == [asid |-> a, vpn2 |-> v]

OnePage   == {Vpn(1, 1), Vpn(2, 1)}

LocalPage  == [odd |-> Half(TRUE, TRUE), even |-> Half(TRUE, FALSE)]
GlobalPage == [odd |-> Half(TRUE, TRUE), even |-> Half(TRUE, TRUE)]
HalfPage   == [odd |-> Half(TRUE, TRUE), even |-> Half(FALSE, TRUE)]

Pages == {LocalPage, GlobalPage, HalfPage}

Indexes == {1, 2, 258}
WiredSettings == {1}
=============================================================================
