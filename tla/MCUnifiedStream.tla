-------------------------- MODULE MCUnifiedStream --------------------------
(***************************************************************************)
(* Four streams: two side by side, one behind a gap, and one that begins   *)
(* before another and runs over it.  Requests inside a stream, to its end, *)
(* out of its middle, and from the base of the first over all of them into *)
(* the last, which shares its hash with a request inside the first.        *)
(***************************************************************************)
EXTENDS UnifiedStream, Bitwise

CONSTANTS ram, regs, rom, wide

MCStreams == {ram, regs, rom, wide}

MCBase == [s \in MCStreams |-> CASE s = ram -> 0 [] s = regs -> 4
                                 [] s = rom -> 8 [] s = wide -> 6]

MCSize == [s \in MCStreams |-> CASE s = ram -> 4 [] s = regs -> 2
                                 [] s = rom -> 4 [] s = wide -> 4]

MCWritable == {ram, regs, rom}

Request(a, c) == [addr |-> a, count |-> c]

MCRequests == {Request(0, 4), Request(2, 2), Request(4, 2), Request(5, 8),
               Request(0, 10), Request(8, 2)}

\* The half words of the hash, 16 bits in the program, shortened with the
\* addresses and the counts: 2 bits.
HashShift == 4

GenerateHash(address, count) ==
    ((address \div HashShift) ^^ (address * HashShift)) ^^ count

MCHashOf == [req \in MCRequests |-> GenerateHash(req.addr, req.count)]
=============================================================================
