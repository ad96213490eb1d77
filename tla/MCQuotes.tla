------------------------------ MODULE MCQuotes ------------------------------
(***************************************************************************)
(* Quotes for TLC: three commits let two publications overtake a third,    *)
(* one rebuild races them, and two subscribers with one slot each miss     *)
(* messages and leave while a message is being sent to the other.          *)
(***************************************************************************)
EXTENDS Quotes
=============================================================================
