-------------------------- MODULE MCFunctionAnalysis --------------------------
(* FunctionAnalysis on every function of at most MaxLength instructions.   *)
EXTENDS FunctionAnalysis

=============================================================================
