------------------------------ MODULE MCConsole ------------------------------
(* A small instance of Console for TLC: the cfg says all there is to say. *)
EXTENDS Console
=============================================================================
