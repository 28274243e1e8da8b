---------------------------- MODULE MCCommander ----------------------------
(***************************************************************************)
(* A small network and a few local directories for the two panels.         *)
(***************************************************************************)
EXTENDS Commander

R(kind, name, size) == [name |-> name, kind |-> kind, size |-> size, mark |-> FALSE]
At3(g, h, d) == [group |-> g, host |-> h, dir |-> d]

MCNames == {"..", "g", "h", "s", "a", "b", "ba", "bb", "c", "k", "p", "u", "v", "x"}
MCGroups == <<R("W", "g", 0)>>
MCHosts == [x \in {"g"} |-> <<R("H", "h", 0)>>]
MCShares == [x \in {"h"} |-> <<R("S", "s", 0)>>]
MCFiles == [x \in {<<"h", <<"s">>>>, <<"h", <<"s", "s">>>>} |->
  IF x[2] = <<"s">>
  THEN <<R("F", "a", 2), R("F", "bb", 1), R("F", "b", 3), R("F", "ba", 1), R("D", "s", 0)>>
  ELSE <<>>]
MCLocal == [d \in {<<>>, <<"u">>, <<"v">>, <<"u", "p">>, <<"u", "c">>} |->
  CASE d = <<>> -> <<R("D", "u", 0), R("D", "v", 0)>>
    [] d = <<"u">> -> <<R("D", "p", 0), R("D", "c", 0)>>
    [] d = <<"u", "p">> -> <<R("F", "x", 1), R("D", "k", 0)>>
    [] d = <<"u", "c">> -> <<R("F", "x", 3)>>
    [] d = <<"v">> -> <<R("F", "x", 2)>>]
MCLinks == [p \in {<<"u", "p", "k">>} |-> <<"u", "c">>]
MCClosed == {<<"v">>}
MCStart == <<"u">>
MCStartOrder == [s \in Sides |->
  [method |-> IF s = "left" THEN 1 ELSE 3, reverse |-> s = "right", group |-> s = "left"]]
MCOrders == [s \in Sides |-> IF s = "left" THEN {}
  ELSE {[method |-> m, reverse |-> TRUE, group |-> FALSE] : m \in {4, 1}}]
MCLeftMarks == {[dir |-> <<"u", "p", "k">>, name |-> "x"]}
MCRightMarks == {[place |-> At3("g", "h", d), name |-> "a"] : d \in {<<"s">>, <<>>}}
MCFinds == {[place |-> At3("g", "h", <<"s">>), name |-> "ba"]}
MCTyped == {At3("", "h", <<"s">>)}
MCNewDirs == {<<"u", "p">>}
MCMarking == {"left"}

\* among the names that are in one list together: "b" is the equal of "ba" and "bb"
MCNameLess == {<<"a", "b">>, <<"a", "ba">>, <<"a", "bb">>, <<"ba", "bb">>, <<"a", "s">>,
               <<"b", "s">>, <<"ba", "s">>, <<"bb", "s">>,
               <<"c", "p">>, <<"k", "x">>, <<"u", "v">>}
MCExtLess == {}
============================================================================
