---------------------------- MODULE MCControlFlow ----------------------------
(* ControlFlow on every function of at most MaxLength instructions.        *)
EXTENDS ControlFlow

=============================================================================
