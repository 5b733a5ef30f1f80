------------------------------ MODULE MCRegistry ------------------------------
(* One worker whose calls, of two incarnations, overtake each other.         *)
EXTENDS Registry
=============================================================================
