----------------------------- MODULE MCIndexer ------------------------------
(* Small instances of the block pipeline for TLC; see the cfg files. *)
EXTENDS IndexerInv
=============================================================================
