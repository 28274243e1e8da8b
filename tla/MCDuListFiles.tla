---------------------------- MODULE MCDuListFiles ----------------------------
(* Instances of DuListFiles for TLC.                                        *)
EXTENDS DuListFiles, TLC

CONSTANTS s1, s2, r1, r2   \* two running smbc, two records

Alike == Permutations({s1, s2}) \cup Permutations({r1, r2})
==============================================================================
