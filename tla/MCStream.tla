------------------------------ MODULE MCStream ------------------------------
(* Stream's constants are numbers, given in the configurations.            *)
EXTENDS Stream
=============================================================================
