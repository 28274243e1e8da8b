----------------------------- MODULE PanelSort -----------------------------
(***************************************************************************)
(* RsortList: the sort of a panel.  The records stay where they are and    *)
(* their contents are exchanged (RrotateTwoRecords) while two cursors walk *)
(* over the list.  The record ".." is left out; the last record is where   *)
(* the walk ends, and is left out as well.                                 *)
(*                                                                         *)
(* Names are compared letter by letter up to the length of the shorter,    *)
(* so of two names one of which begins with the other neither is less.     *)
(* The outcomes of that comparison are given as a set of pairs.            *)
(***************************************************************************)
EXTENDS Integers, Sequences, SequencesExt

CONSTANTS
  NameLess,     \* pairs of names <<x, y>>: x is less than y
  ExtLess       \* pairs of names <<x, y>>: the extension of x is less than
                \* that of y, or only y has one

\* Letters are compared one by one, the first that differ decide.
ASSUME OrderAssumption ==
  \A less \in {NameLess, ExtLess} : \A p, q \in less :
    p[2] = q[1] => p[1] # q[2] /\ <<p[1], q[2]>> \in less

(* Greater: what the three orders say of two records.                      *)
Greater(method, x, y) ==
  CASE method = 1 -> <<y.name, x.name>> \in NameLess
    [] method = 2 -> <<y.name, x.name>> \in ExtLess
    [] OTHER      -> x.size > y.size

(* RgetVar: are record x, met by the inner cursor, and record y of the     *)
(* outer one exchanged?  Methods without an order answer -1, which is      *)
(* true; the order by size is the other way round.                         *)
Descends(how) == how.reverse # (how.method = 3)
Exchanges(how, x, y) ==
  how.method \notin 1..3 \/ Greater(how.method, x, y) # Descends(how)

DirFirst(x, y) == y.kind = "D" /\ x.kind = "F"

(* Slip: the contents are copied and not exchanged.                        *)
CopyRecord(l, i, j) == [l EXCEPT ![i] = l[j]]

Rotate(l, i, j) == [l EXCEPT ![i] = l[j], ![j] = l[i]]

(* The two nested walks over the records of a stretch, each up to the k-th *)
(* record of it; swaps are the pairs of an inner and an outer record that  *)
(* change places.                                                          *)
Compared(l, i, j, swaps) == IF <<l[j], l[i]>> \in swaps THEN Rotate(l, i, j) ELSE l
Inner(l, i, from, n, swaps) ==
  LET upto[k \in 0..n] ==
        IF k = 0 THEN l ELSE Compared(upto[k - 1], i, from + k - 1, swaps)
  IN  upto
Outer(l, from, n, swaps) ==
  LET upto[k \in 0..n] ==
        IF k = 0 THEN l ELSE Inner(upto[k - 1], from + k - 1, from, n, swaps)[n]
  IN  upto
Walk(l, from, to, swaps) == Outer(l, from, to - from, swaps)[to - from]

Unsorted(l, how) ==
  {p \in ToSet(l) \X ToSet(l) : Exchanges(how, p[1], p[2])}
Ungrouped(l) == {p \in ToSet(l) \X ToSet(l) : DirFirst(p[1], p[2])}

(* Slip (not what the code does, used nowhere): one record too few.        *)
RecSortFewer(l, from, last, how) ==
  IF last > from THEN Walk(l, from, last - 1, Unsorted(l, how)) ELSE l

(* RrecSort: it stops before the last record of its stretch.               *)
RecSort(l, from, last, how) == Walk(l, from, last, Unsorted(l, how))

(* RpreSort: directories first, if they are grouped; the first file found  *)
(* in the grouped list, or the last record, divides the two sorts.         *)
Grouped(l) == Walk(l, 2, Len(l) + 1, Ungrouped(l))

Divide(l) ==
  LET other == {i \in 2..Len(l) : l[i].kind # "D"}
  IN  IF other = {} THEN Len(l) ELSE CHOOSE i \in other : \A j \in other : i <= j

SortList(l, how) ==
  IF Len(l) < 2 THEN l
  ELSE IF how.group
       THEN LET g == Grouped(l)
                d == Divide(g)
            IN  RecSort(RecSort(g, 2, d, how), d, Len(l), how)
       ELSE RecSort(l, 2, Len(l), how)

----------------------------------------------------------------------------
(* What the sort promises: among the records between the first and the     *)
(* last none stands before one that it should follow, and of the grouped   *)
(* ones no directory stands behind a file.  A list that descends is sorted *)
(* only if its records can be ranked, if what is neither greater nor less  *)
(* than a third is so to each other: "ba" is the equal of "baa" and "bab"  *)
(* (of one length more), and next to it they stay as they are.             *)
OutOfOrder(how, x, y) ==
  IF Descends(how) THEN Greater(how.method, y, x) ELSE Greater(how.method, x, y)
Alike(how, x, y) == how.group => x.kind = y.kind
Ranked(method, records) ==
  \A x, y, z \in records :
    Greater(method, x, z) => Greater(method, x, y) \/ Greater(method, y, z)

SortedButLast(l, how) ==
  \A i, j \in 2..Len(l) : i < j =>
    /\ how.group => ~(l[i].kind = "F" /\ l[j].kind = "D")
    /\ \/ how.method \notin 1..3 \/ j = Len(l) \/ ~Alike(how, l[i], l[j])
       \/ /\ Descends(how)
          /\ LET with == {k \in 2..Len(l) - 1 : Alike(how, l[i], l[k])}
             IN  ~Ranked(how.method, {l[k] : k \in with})
       \/ ~OutOfOrder(how, l[i], l[j])
=============================================================================
