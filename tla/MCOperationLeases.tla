-------------------------- MODULE MCOperationLeases -------------------------
(* Instances of OperationLeases for TLC. *)
EXTENDS OperationLeases

CONSTANTS op1, op2
=============================================================================
