----------------------------- MODULE MCWindows -----------------------------
(***************************************************************************)
(* Small instances of the windows: a network, a list of files to view, a   *)
(* tree to copy and the like for each of them.                             *)
(***************************************************************************)
EXTENDS Windows, MCCommander

CONSTANTS w1, w2, r1, r2   \* two messages, and two smbc that read them
MailAlike == Permutations({w1, w2}) \cup Permutations({r1, r2})

N(name, kind) == [name |-> name, kind |-> kind]

\* find window: a network of one host with two shares
MCNetwork == (<<>> :> <<N("g", "W")>>)
  @@ (<<"g">> :> <<N("h", "H")>>)
  @@ (<<"g", "h">> :> <<N("s", "S"), N("t", "S"), N("p", "other")>>)
  @@ (<<"g", "h", "s">> :> <<N("x", "F"), N("d", "D"), N("c$", "F")>>)
  @@ (<<"g", "h", "t">> :> <<N("y", "F"), N("x", "F"), N("z", "F")>>)
  @@ (<<"g", "h", "s", "d">> :> <<N("x", "F"), N("y", "F")>>)
MCSearches ==
  {[path |-> <<"g", "h">>, marks |-> <<"s", "t">>],
   [path |-> <<"g", "h", "s">>, marks |-> <<>>],
   [path |-> <<"g", "h">>, marks |-> <<"s">>]}

\* index: hosts seen by two walks, one of them twice
MCHostLists == {<<>>, <<"a">>, <<"a", "b">>, <<"a", "b", "a">>, <<"b", "a">>}

\* line editor: an empty text and one longer than the field
MCStartTexts == {<<>>, <<"a", "b", "a", "b">>}

\* viewer: lines shorter and longer than a row, bytes 0, an empty file
MCTexts ==
  LET L == "letter"
      E == "newline"
      Z == "zero"
  IN  {<<L, E, L, L, L, E, E, L>>, <<E, L, L, E, L, E>>, <<L, L, L, L, L, L, E, L>>,
       <<L, Z, L, E>>, <<L, L, E, Z, E>>, <<>>, <<L, L, E, L, L, E, L, L, E>>}
MCGarbage == {<<>>, <<"letter">>}

\* accounts: those of two records and of a bookmark
MCOwner == ("r1" :> [user |-> "b", pass |-> "b"]) @@ ("r2" :> [user |-> "a", pass |-> "b"])
MCMarkAccounts == {[user |-> "b", pass |-> "b"]}

\* copies: a tree two directories deep on both sides, with a link in it
\* ... and, on the left, an entry whose name is that of a directory and a file in it
MCRunTogether(a, b) == a \o b
MCTree(top) ==
     (<<top>> :> <<N("x", "F"), N("p", "D")>>)
  @@ (<<top, "p">> :> <<N("l", "L"), N("q", "D"),
                        N(IF top = "u" THEN "qy" ELSE "x", "F")>>)
  @@ (<<top, "p", "q">> :> <<N("y", "F")>>)
MCTrees == [side \in {"left", "right"} |-> MCTree(IF side = "left" THEN "u" ELSE "s")]
MCBase == [side \in {"left", "right"} |-> IF side = "left" THEN <<"u">> ELSE <<"s">>]
MCMarkedSets == [side \in {"left", "right"} |->
                   {<<"x">>, <<"p">>, <<"x", "p">>, <<"..">>}]
============================================================================
