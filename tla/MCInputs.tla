------------------------------ MODULE MCInputs ------------------------------
(***************************************************************************)
(* Inputs over small alphabets: of every class of characters the code      *)
(* tells apart, one or two.                                                *)
(***************************************************************************)
EXTENDS Inputs

MCAlphabet == [destination |-> {"-", "@", "[", "]", ":", "+", "a", "1"},
               duration |-> {"0", "1", "6", "+", " ", "s", "m", "h", "wide"}]
=============================================================================
