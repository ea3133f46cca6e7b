---------------------------- MODULE MCBlockOrder ----------------------------
(* BlockOrder on every graph of at most MaxBlocks blocks.                  *)
EXTENDS BlockOrder

=============================================================================
