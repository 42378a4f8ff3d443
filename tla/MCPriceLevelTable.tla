------------------------- MODULE MCPriceLevelTable -------------------------
(* PriceLevelTable as it is: its constants are numbers, given in the .cfg.  *)
EXTENDS PriceLevelTable
=============================================================================
