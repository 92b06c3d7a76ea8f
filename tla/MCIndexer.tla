------------------------------ MODULE MCIndexer ------------------------------
(* Finite instances of Indexer for TLC.                                     *)
EXTENDS Indexer

CONSTANT worker

Workers == {worker}
=============================================================================
