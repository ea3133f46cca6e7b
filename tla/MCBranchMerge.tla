---------------------------- MODULE MCBranchMerge ----------------------------
(* Instances of BranchMerge: one register with its bytes, three branches   *)
(* and three variables, so that all branches can differ.                   *)
EXTENDS BranchMerge

=============================================================================
