------------------------------ MODULE MCIndexer ------------------------------
(* Instances of Indexer for TLC.                                            *)
EXTENDS Indexer

CONSTANTS s1, s2, c1, c2, n1, n2, n3, n4
==============================================================================
