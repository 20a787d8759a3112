--------------------------- MODULE MCCoprocessor0 ---------------------------
(***************************************************************************)
(* Three parts of coprocessor 0 that share no state, checked in one run:   *)
(* the translation buffer, the words of its registers, and exceptions and  *)
(* their return in the interpreter.  A behaviour runs one of them, chosen  *)
(* at the start, and leaves the others as they are initially.              *)
(***************************************************************************)
EXTENDS MCTLBCache, MCPageNumbers, MCInterpreter

VARIABLE part

cp0PartsVars == <<part, tlbVars, words, vars>>

CP0Init ==
    /\ part \in {"table", "words", "exceptions"}
    /\ TLBInit /\ WordsInit /\ Init
    /\ part # "table" => EntryHi = Vpn(1, 1) /\ page = LocalPage

CP0Next ==
    /\ UNCHANGED part
    /\ \/ part = "table" /\ TLBNext /\ UNCHANGED <<words, vars>>
       \/ part = "words" /\ Pick /\ UNCHANGED <<tlbVars, vars>>
       \/ part = "exceptions" /\ Next /\ UNCHANGED <<tlbVars, words>>

CP0Spec == CP0Init /\ [][CP0Next]_cp0PartsVars
=============================================================================
