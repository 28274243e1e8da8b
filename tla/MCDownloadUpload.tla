-------------------------- MODULE MCDownloadUpload --------------------------
(* Instances of DownloadUpload for TLC.                                    *)
EXTENDS DownloadUpload

CONSTANTS d1, d2, u1   \* two downloads and an upload

OneItem  == {d1}
TwoItems == {d1, u1}
TwoDowns == {d1, d2}

OwnFolder == [i \in Item |-> i]
SmallSizes == [i \in Item |-> IF i = d1 THEN 2 ELSE 1]
OneBlock == [i \in Item |-> 1]
=============================================================================
