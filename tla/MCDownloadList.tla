---------------------------- MODULE MCDownloadList ----------------------------
(* Instances of DownloadList for TLC.                                        *)
EXTENDS DownloadList, TLC

CONSTANTS r1, r2, r3, r4, r5   \* records

Alike == Permutations(Node)
===============================================================================
