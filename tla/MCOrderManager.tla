--------------------------- MODULE MCOrderManager ---------------------------
(* OrderManager as it is: its constants are given in the .cfg.              *)
EXTENDS OrderManager
=============================================================================
