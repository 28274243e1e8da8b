----------------------------- MODULE FindWindow -----------------------------
(***************************************************************************)
(* The find window (RfindFileSmb, RmanageFindFile): it searches the index  *)
(* that the indexer keeps (quick find), or one that it makes at once from  *)
(* the place in the right panel or from the marked records there (slow     *)
(* find), and leads to a file that was found.                              *)
(*                                                                         *)
(* A path is <<group, host, share, dir, ...>>, or its beginning.  An index *)
(* file is a number of records in four bytes, and then for each record     *)
(* five strings that end with a zero byte: the file is a sequence of such  *)
(* fields.  A field is a sequence of names.                                *)
(***************************************************************************)
EXTENDS Integers, Sequences, SequencesExt, Lists

CONSTANTS
  Network,      \* [path -> sequence of what is listed there]: records with a
                \* name and a kind, "W", "H", "S", "D", "F" or "other"
  Deepest,      \* more than the names of any path of it
  Hiding,       \* names that end with a dollar
  Searches,     \* where a slow find starts: the path in the right panel and
                \* the sequence of the names marked there
  Queries,      \* what is typed into a field; "" is among them
  Heights,      \* RmainWinY - 13 before and after a resize
  Height0       \* ... at the start

(* Files are in shares and below.                                          *)
ASSUME NetworkAssumption ==
  /\ Deepest \in Nat
  /\ \A p \in DOMAIN Network :
       /\ Network[p] \in Seq(Range(Network[p]))
       /\ p \in Seq(Range(p)) /\ Len(p) < Deepest
       /\ \A e \in Range(Network[p]) : e.kind = "F" => Len(p) > 2

(* smbc does not start in a terminal of less than 25 lines (smbc.c:274).   *)
ASSUME FindAssumption ==
  /\ Height0 \in Heights /\ Heights \subseteq Nat \ {0}
  /\ "" \in Queries
  /\ \A s \in Searches : s.marks \in Seq(Range(s.marks))

VARIABLE finding   \* the window

findVars == <<finding>>

FieldNames == <<"file", "dir", "host", "group">>
NoWindow == [at |-> "closed", button |-> 4, typed |-> [f \in {"file", "dir",
               "host", "group"} |-> ""], live |-> TRUE, marks |-> 0,
             index |-> <<>>, hits |-> <<>>, first |-> 1, select |-> 1,
             height |-> Height0, resized |-> FALSE, below |-> FALSE]

FindInit == finding = NoWindow

----------------------------------------------------------------------------
(* The index file.                                                         *)

(* RwriteUnsignedInt, as the fields that a reader of strings sees in the   *)
(* four bytes of a number below 256; RreadUnsignedInt jumps over them.     *)
CountFields(n) == IF n = 0 THEN <<<<>>, <<>>, <<>>, <<>>>> ELSE <<<<"#">>, <<>>, <<>>>>

(* Slip (not what the code does, used nowhere): a file below a directory   *)
(* of a share is written with the path of that directory's parent.         *)
FieldsOfParent(path, name) ==
  <<<<path[1]>>, <<path[2]>>,
    SubSeq(path, 3, IF Len(path) > 3 THEN Len(path) - 1 ELSE Len(path)), <<name>>, <<>>>>

RecordFields(path, name) ==
  <<<<path[1]>>, <<path[2]>>, SubSeq(path, 3, Len(path)), <<name>>, <<>>>>

(* RcreateFindListIndexSecond: all files below a path, depth first; names  *)
(* with a dollar are left out, and so is what cannot be opened.  The walks *)
(* of at most n calls in each other, from every path.                      *)
Walks(down) ==
  LET walk[n \in 0..Deepest] ==
        [p \in DOMAIN Network |->
           IF n = 0 \/ p \in down THEN <<>>
           ELSE Flatten([i \in DOMAIN Network[p] |->
                  LET e == Network[p][i]
                  IN  IF e.name \in Hiding \/ e.kind = "other" THEN <<>>
                      ELSE IF e.kind = "F" THEN <<RecordFields(p, e.name)>>
                      ELSE IF Append(p, e.name) \in DOMAIN Network
                      THEN walk[n - 1][Append(p, e.name)] ELSE <<>>])]
  IN  walk
WalkPath(path, down) == Walks(down)[Deepest][path]

Listing(path, down) == IF path \in DOMAIN Network THEN WalkPath(path, down) ELSE <<>>

(* RcreateFindListIndex: the number of the records, and the records.       *)
OneIndex(records) == CountFields(Len(records)) \o Flatten(records)

(* RcreateIndexFileOnline: each marked record adds another number and its  *)
(* records to the file; without marks there is one for the place.          *)
Starts(search) ==
  IF search.marks = <<>> THEN <<search.path>>
  ELSE [i \in DOMAIN search.marks |-> Append(search.path, search.marks[i])]

IndexFile(search, down) ==
  LET lists == [i \in DOMAIN Starts(search) |-> Listing(Starts(search)[i], down)]
  IN  [skip |-> Len(CountFields(Len(lists[1]))),
       fields |-> Flatten([i \in DOMAIN lists |-> OneIndex(lists[i])])]

(* RindexFileReadOneRecord, RloadIndexFile: after the first number every   *)
(* five fields are a record; what is left at the end is none.              *)
FromFields(five) ==
  [group |-> five[1], host |-> five[2], dir |-> five[3], file |-> five[4]]
Loaded(file) ==
  LET f == SubSeq(file.fields, file.skip + 1, Len(file.fields))
  IN  [i \in 1..(Len(f) \div 5) |-> FromFields(SubSeq(f, 5 * i - 4, 5 * i))]

----------------------------------------------------------------------------
(* The first window: a name, and the buttons quick, slow and cancel.       *)

FindOpen ==
  /\ finding.at = "closed"
  /\ finding' = [NoWindow EXCEPT !.at = "ask"]

(* The buttons are counted down: 4 is the name, 3 quick, 2 slow, 1 cancel. *)
FindName ==
  /\ finding.at = "ask" /\ finding.button = 4
  /\ \E q \in Queries :
       finding' = [finding EXCEPT !.typed.file = q, !.button = 3]

FindTab ==
  /\ finding.at = "ask" /\ finding.button < 4
  /\ finding' = [finding EXCEPT !.button = IF @ = 1 THEN 4 ELSE @ - 1]

FindClose == finding' = NoWindow

(* RfindFileFromIndex: the numbers of the records all strings are found in *)
(* (RcreateNewRecordInIndexTable); the selection goes to the first.        *)
Found(w, i) ==
  \A f \in DOMAIN w.typed : w.typed[f] = "" \/ w.typed[f] \in Range(w.index[i][f])
Hits(w) ==
  Keep([i \in DOMAIN w.index |-> i], {i \in DOMAIN w.index : Found(w, i)})

FindFileFromIndex(w) ==
  [w EXCEPT !.hits = Hits(w), !.first = 1, !.select = 1, !.below = FALSE]

(* An index that has no records closes the window.                         *)
OpenIndex(w, file, n) ==
  IF Loaded(file) = <<>> THEN NoWindow
  ELSE FindFileFromIndex([w EXCEPT !.index = Loaded(file), !.marks = n, !.at = "file"])

QuickFind ==
  /\ finding.at = "ask" /\ finding.button = 3
  /\ \/ finding' = OpenIndex(finding, IndexFile([path |-> <<>>, marks |-> <<>>], {}), 0)
     \/ FindClose                            \* there is no index yet

SlowFind ==
  /\ finding.at = "ask" /\ finding.button = 2
  /\ \E s \in Searches : \E down \in {{}} \cup {{p} : p \in DOMAIN Network} :
       finding' = OpenIndex(finding, IndexFile(s, down), Len(s.marks))

(* The button cancel, 'q', or Enter during the walk of a slow find.        *)
FindCancel == finding.at = "ask" /\ finding.button < 4 /\ FindClose

----------------------------------------------------------------------------
(* The second window: four fields, one after the other, and the hits.      *)

(* RpaintList walks over the index from the first hit on: it reads records *)
(* up to the number in the table, and stays at the last one there.         *)
RowWalk(w, rows) ==
  LET walk[n \in 0..rows] ==
        IF n = 0 THEN [k |-> w.first, pos |-> w.hits[w.first], row |-> 0]
        ELSE LET k   == walk[n - 1].k
                 row == IF walk[n - 1].pos < w.hits[k] THEN w.hits[k]
                        ELSE walk[n - 1].pos
             IN  [k |-> IF k < Len(w.hits) THEN k + 1 ELSE k,
                  pos |-> row + 1, row |-> row]
  IN  walk
PaintedRow(w, last) == RowWalk(w, last - w.first + 1)[last - w.first + 1].row

(* The last row that is painted: one below the window if it is scrolled or *)
(* there are more hits than rows.  A row behind the index is a record that *)
(* is not there.                                                           *)
LastRow(w) ==
  IF w.first = 1 /\ Len(w.hits) <= w.height THEN Len(w.hits)
  ELSE w.first + w.height

PaintHits(w) ==
  IF /\ w.hits # <<>> /\ w.first <= Len(w.hits)
     /\ PaintedRow(w, LastRow(w)) > Len(w.index)
  THEN [w EXCEPT !.at = "crash"] ELSE w

InField == \E i \in 1..4 : finding.at = FieldNames[i]

(* A key in a field.  With the filter on the list follows it; in the field *)
(* of the file names it always does.                                       *)
FindType ==
  /\ InField
  /\ \E q \in Queries \ {finding.typed[finding.at]} :
       LET w == [finding EXCEPT !.typed[finding.at] = q]
       IN  finding' = PaintHits(
             IF w.live \/ w.at = "file" THEN FindFileFromIndex(w) ELSE w)

(* Ctrl-P turns the filter on or off.                                      *)
FindFilter == InField /\ finding' = [finding EXCEPT !.live = ~@]

(* Enter or Tab in a field.  After the last one comes the list; if nothing *)
(* was found, the first field again.                                       *)
FindNext ==
  /\ InField
  /\ LET i == CHOOSE j \in 1..4 : FieldNames[j] = finding.at
         w == FindFileFromIndex(finding)
     IN  finding' = PaintHits([w EXCEPT !.at =
           IF i < 4 THEN FieldNames[i + 1]
           ELSE IF w.hits = <<>> THEN "file" ELSE "list"])

Scrolls(w) == finding.at = "list" /\ finding' = PaintHits(w)

(* Slip: the window follows one record later.                              *)
DownLate(w) ==
  IF w.select = w.first + w.height /\ w.first + w.height < Len(w.hits) + 1
  THEN [w EXCEPT !.first = @ + 1, !.select = @ + 1]
  ELSE IF w.select < Len(w.hits) THEN [w EXCEPT !.select = @ + 1] ELSE w

HitDown(w) ==
  IF w.select + 1 = w.first + w.height /\ w.first + w.height < Len(w.hits) + 1
  THEN [w EXCEPT !.first = @ + 1, !.select = @ + 1]
  ELSE IF w.select < Len(w.hits) THEN [w EXCEPT !.select = @ + 1] ELSE w

HitUp(w) ==
  IF w.select = 1 THEN w
  ELSE [w EXCEPT !.select = @ - 1,
                 !.first = IF @ > 1 /\ w.select = @ THEN @ - 1 ELSE @]

HitPageDown(w) ==
  IF w.first + w.height > Len(w.hits) THEN w
  ELSE IF w.select + 1 = w.first + w.height
  THEN IF w.select + w.height < Len(w.hits)
       THEN [w EXCEPT !.first = w.select, !.select = w.select + w.height - 1]
       ELSE [w EXCEPT !.first = Len(w.hits) - w.height, !.select = Len(w.hits) - 1]
  ELSE IF w.select + w.height <= Len(w.hits)
  THEN [w EXCEPT !.select = w.first + w.height - 1]
  ELSE [w EXCEPT !.select = Len(w.hits) - 1, !.below = TRUE]

HitPageUp(w) ==
  IF w.select = 1 THEN w
  ELSE IF w.first # w.select THEN [w EXCEPT !.select = w.first, !.below = FALSE]
  ELSE IF w.first - w.height < 1 THEN [w EXCEPT !.first = 1, !.select = 1]
  ELSE [w EXCEPT !.first = @ - w.height + 1, !.select = w.first - w.height + 1]

FindDown     == Scrolls(HitDown(finding))
FindUp       == Scrolls(HitUp(finding))
FindPageDown == Scrolls(HitPageDown(finding))
FindPageUp   == Scrolls(HitPageUp(finding))

(* Tab goes back to the fields, with the list as it is.                    *)
FindBack ==
  /\ finding.at = "list"
  /\ finding' = PaintHits([finding EXCEPT !.at = "file"])

(* Enter: the record under the selection is read and the list moves to the *)
(* next one; if the file can be opened the window closes with it, and if   *)
(* not its record is looked up again to be marked, from the next one,      *)
(* which the last record does not have.                                    *)
FindTake ==
  /\ finding.at = "list"
  /\ \/ FindClose
     \/ finding' = IF finding.hits[finding.select] = Len(finding.index)
                   THEN [finding EXCEPT !.at = "crash"]
                   ELSE PaintHits(finding)

(* RresizeFindFile: the list is painted anew in a window of another height.*)
FindResize ==
  /\ InField \/ finding.at = "list"
  /\ \E h \in Heights \ {finding.height} :
       finding' = PaintHits([finding EXCEPT !.height = h, !.resized = TRUE])

FindQuit == (InField \/ finding.at = "list") /\ FindClose

FindSteps ==
  \/ FindOpen \/ FindName \/ FindTab \/ QuickFind \/ SlowFind \/ FindCancel
  \/ FindType \/ FindFilter \/ FindNext \/ FindDown \/ FindUp
  \/ FindPageDown \/ FindPageUp \/ FindBack \/ FindTake \/ FindResize \/ FindQuit

----------------------------------------------------------------------------
(* The parts of the window fit together.                                   *)
FindTypeOK ==
  /\ finding.at \in {"closed", "ask", "file", "dir", "host", "group", "list", "crash"}
  /\ finding.button \in 1..4
  /\ finding.height \in Heights
  /\ Range(finding.hits) \subseteq DOMAIN finding.index

(* What the index says is there is a file of the network in that place,    *)
(* unless more than one record was marked for a slow find: the number that *)
(* is written before each list is read as part of a record there.          *)
IndexedAreFiles ==
  finding.marks <= 1 => \A i \in DOMAIN finding.index :
    LET r == finding.index[i]
        p == r.group \o r.host \o r.dir
    IN  /\ p \in DOMAIN Network
        /\ \E e \in Range(Network[p]) : e.kind = "F" /\ <<e.name>> = r.file

(* Every row of the window shows the record that Enter would take there: a *)
(* record in which every string of the fields is found, however the list   *)
(* was scrolled.  The selection is on a record, and on a row of the window *)
(* until a page down near the end has put it on the last record but one    *)
(* and left the window where it is.                                        *)
RowsOf(w) == w.first..(w.first + w.height - 1)
RowsAreHits ==
  (finding.at = "list" /\ ~finding.resized) =>
    /\ finding.select \in 1..Len(finding.hits)
    /\ finding.below \/ finding.select \in RowsOf(finding)
    /\ \A i \in RowsOf(finding) : i <= Len(finding.hits) =>
         /\ PaintedRow(finding, i) = finding.hits[i]
         /\ \A f \in DOMAIN finding.typed :
              finding.typed[f] \in {""} \cup Range(finding.index[finding.hits[i]][f])
============================================================================
