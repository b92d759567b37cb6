------------------------------ MODULE MCKfifo -------------------------------
(* An instance of Kfifo for TLC.                                           *)
EXTENDS Kfifo
=============================================================================
