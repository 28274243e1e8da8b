------------------------------- MODULE Panel -------------------------------
(***************************************************************************)
(* One of the two panels of smbc: a list of records, the index of the      *)
(* first record that is shown and the row of the cursor below it           *)
(* (RlistLeft, RleftFirst, RleftPos, and the same for the right panel).    *)
(* The code has every key twice, once for each panel; here each is an      *)
(* operator from a panel to a panel.  Records are counted from 0 as in the *)
(* code: record i of the code is list[i + 1].                              *)
(***************************************************************************)
EXTENDS Integers, Sequences

CONSTANT Rows          \* RmainWinYlist = RmainWinY - 6, the rows of a list

ASSUME RowsAssumption == Rows \in Nat \ {0}

Count(p) == Len(p.list)            \* RreturnCountTTlist
At(p) == p.first + p.pos           \* the record under the cursor
InList(p) == At(p) < Count(p)      \* RgoToRecordInTTlist(At) finds a record
Current(p) == p.list[At(p) + 1]    \* ... and this is it

Panels(Records) == [list: Seq(Records), first: Nat, pos: Nat]

----------------------------------------------------------------------------
(* Keys that move the cursor.                                              *)

Home(p) == [p EXCEPT !.first = 0, !.pos = 0]

(* A slip (not what the code does, used nowhere): the key down does not    *)
(* look at the end of the list.                                            *)
DownBeyond(p) == IF p.pos + 1 < Rows THEN [p EXCEPT !.pos = @ + 1] ELSE p

Down(p) ==
  IF p.pos + 1 < Rows
  THEN IF p.pos + 1 < Count(p) THEN [p EXCEPT !.pos = @ + 1] ELSE p
  ELSE IF At(p) + 1 < Count(p) THEN [p EXCEPT !.first = @ + 1] ELSE p

Up(p) ==
  IF p.pos > 0
  THEN [p EXCEPT !.pos = @ - 1]
  ELSE IF At(p) > 0 THEN [p EXCEPT !.first = @ - 1] ELSE p

LastPage(p) == [p EXCEPT !.first = Count(p) - Rows, !.pos = Rows - 1]

End(p) ==
  IF Count(p) + 1 > Rows THEN LastPage(p) ELSE [p EXCEPT !.pos = Count(p) - 1]

PageUp(p) ==
  IF p.first - Rows >= 0 THEN [p EXCEPT !.first = @ - Rows] ELSE Home(p)

PageDown(p) ==
  IF At(p) + 1 >= Count(p) THEN p
  ELSE IF Count(p) < Rows THEN [p EXCEPT !.pos = Count(p) - 1]
  ELSE IF p.first + Rows + Rows > Count(p) THEN LastPage(p)
  ELSE [p EXCEPT !.first = @ + Rows]

(* Slip: the record above the one that was looked for.                     *)
PutAbove(p, i) ==
  IF i < Rows THEN [p EXCEPT !.first = 0, !.pos = i]
  ELSE [p EXCEPT !.first = i - 1, !.pos = 0]

(* RsetSelect: put the cursor on record i.  A record in the row just below *)
(* the window (i = Rows) is left there.                                    *)
PutOn(p, i) ==
  IF i <= Rows THEN [p EXCEPT !.first = 0, !.pos = i]
  ELSE IF Count(p) - i < Rows
       THEN [p EXCEPT !.first = Count(p) - Rows, !.pos = i - (Count(p) - Rows)]
       ELSE [p EXCEPT !.first = i - 1, !.pos = 1]

(* ... and find it by name first.  Without a name the cursor goes to the   *)
(* top, and a name that is not in the list leaves it where it was.         *)
Select(p, name) ==
  LET hits == {i \in 1..Count(p) : p.list[i].name = name}
  IN  IF name = "" THEN Home(p)
      ELSE IF hits = {} THEN p
      ELSE PutOn(p, (CHOOSE i \in hits : \A j \in hits : i <= j) - 1)

----------------------------------------------------------------------------
(* Keys that mark.  Only the first looks at the name "..".                 *)

Mark(p) ==
  LET i == At(p) + 1
  IN  Down(IF p.list[i].name = ".." THEN p
           ELSE [p EXCEPT !.list[i].mark = ~@])

MarkEach(p, marked) == [p EXCEPT !.list =
  [i \in DOMAIN @ |-> [p.list[i] EXCEPT !.mark = marked]]]

MarkOthers(p) == [p EXCEPT !.list =
  [i \in DOMAIN @ |-> [p.list[i] EXCEPT !.mark = ~@]]]

Marked(p) == {p.list[i] : i \in {j \in DOMAIN p.list : p.list[j].mark}}

----------------------------------------------------------------------------
(* What the keys rely on and keep: the cursor is on a record and in the    *)
(* window, and the window is not scrolled past the end of the list.        *)
InWindow(p) ==
  /\ InList(p)
  /\ p.pos < Rows
  /\ p.first > 0 => p.first + Rows <= Count(p)

(* What is left of it with the cursor in the row below the window.         *)
BelowWindow(p) == p.pos = Rows /\ InList(p)
============================================================================
