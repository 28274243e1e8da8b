-------------------------------- MODULE Lists --------------------------------
(***************************************************************************)
(* Walks over lists, place by place, as functions that the proofs can      *)
(* reason about: what is left of a list at some of its places, in their    *)
(* order (SelectSeq with the places as a set), and lists one after the     *)
(* other (FlattenSeq).                                                     *)
(***************************************************************************)
EXTENDS Integers, Sequences

KeepUpTo(s, places) ==
  LET upto[i \in 0..Len(s)] ==
        IF i = 0 THEN <<>>
        ELSE IF i \in places THEN Append(upto[i - 1], s[i]) ELSE upto[i - 1]
  IN  upto
Keep(s, places) == KeepUpTo(s, places)[Len(s)]

FlattenUpTo(lists) ==
  LET upto[i \in 0..Len(lists)] ==
        IF i = 0 THEN <<>> ELSE upto[i - 1] \o lists[i]
  IN  upto
Flatten(lists) == FlattenUpTo(lists)[Len(lists)]
=============================================================================
