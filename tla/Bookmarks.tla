----------------------------- MODULE Bookmarks -----------------------------
(***************************************************************************)
(* The window of bookmarks (Rbookmark, bookmarks.c).  It loads the file    *)
(* ~/.smbc/bookmark when it is opened and, if anything was changed, writes *)
(* it when it is left.  The file outlives the program.                     *)
(*                                                                         *)
(* Bookmarks are counted from 0: bookmark i of the code is list[i + 1].    *)
(* The code walks over a linked list to the selected one before each use   *)
(* (RgotoXBookmark), so the list is a sequence here.                       *)
(***************************************************************************)
EXTENDS Integers, Sequences, FiniteSets, Lists

CONSTANTS
  Spots,        \* what can be bookmarked: a place and the file under the cursor
  UpSpots,      \* those where the cursor is on ".." of the left panel, whose
                \* file name is NULL
  BookRows,     \* RmaxY, the rows of the window before and after a resize
  MaxSelect     \* bound: how far the selection of an empty list is followed

ASSUME BookmarksConstants ==
  /\ BookRows \subseteq Nat \ {0} /\ BookRows # {} /\ UpSpots \subseteq Spots /\ MaxSelect \in Nat

VARIABLES
  marksFile,    \* the bookmarks in the file; empty if there is none
  book,         \* the window
  maxY,         \* its rows (RmaxY)
  grown,        \* history: was it made higher while it was scrolled?
  unread,       \* history: could a file that is there not be opened?
  wanted,       \* history: the bookmarks added and not deleted
  torn          \* history: was a file removed whose bookmarks were not all
                \* written again?

bookmarkVars == <<marksFile, book, maxY, grown, unread, wanted, torn>>

Closed0 == [at |-> "closed", list |-> <<>>, first |-> 0, select |-> 0,
            cut |-> FALSE, changed |-> FALSE]

BookmarksInit ==
  /\ marksFile = <<>>
  /\ book = Closed0
  /\ maxY = CHOOSE rows \in BookRows : TRUE
  /\ grown = FALSE /\ unread = FALSE
  /\ wanted = {}
  /\ torn = FALSE

Total(b) == Len(b.list)
Chosen0(b) == b.select + 1
ShownFrom(b, f, s) == [b EXCEPT !.first = f, !.select = s]
WithList(b, l)     == [b EXCEPT !.list = l, !.changed = TRUE]
Valid(b) == b.list # <<>> /\ b.select < Total(b)

Window(b) ==
  /\ book' = b
  /\ UNCHANGED <<marksFile, maxY, grown, unread, wanted, torn>>

IsOpen == book.at = "open"

(* RpaintList paints the rows from the first one up to this one.           *)
LastPainted(b, rows) ==
  IF b.first = 0 /\ Total(b) <= rows THEN Total(b) ELSE b.first + rows

(* RopenBookmark.  A file that cannot be opened is taken for none.         *)
ListOf(file) == [i \in DOMAIN file |-> [spot |-> file[i], del |-> FALSE]]

OpenBookmarks ==
  /\ book.at = "closed"
  /\ \E fails \in BOOLEAN :
       /\ book' = [Closed0 EXCEPT !.at = "open",
                     !.list = ListOf(IF fails THEN <<>> ELSE marksFile)]
       /\ unread' = (fails /\ marksFile # <<>>)
  /\ maxY' \in BookRows /\ grown' = FALSE
  /\ UNCHANGED <<marksFile, wanted, torn>>

(* RresizeBookmark: the terminal has another size.  The list is painted    *)
(* anew from the same first row; painting past its end is a SIGSEGV.       *)
ResizeBookmark ==
  /\ IsOpen
  /\ \E rows \in BookRows \ {maxY} :
       /\ maxY' = rows
       /\ grown' = (grown \/ (rows > maxY /\ book.first > 0))
       /\ book' = [book EXCEPT !.at =
                     IF LastPainted(book, rows) <= Total(book) THEN "open" ELSE "crash"]
  /\ UNCHANGED <<marksFile, unread, wanted, torn>>

(* The window is left; what was changed is saved.                          *)
Leave(b) == [b EXCEPT !.at = IF b.changed THEN "unlink" ELSE "closed"]

QuitBookmarks == IsOpen /\ Window(Leave(book))

(* 'm': the cursor keys move the bookmark or the selection.                *)
Cut == IsOpen /\ Window([book EXCEPT !.cut = ~@])

(* Slip: what is in the list is not looked up.                             *)
AddTwice ==
  /\ IsOpen
  /\ \E spot \in Spots \ UpSpots :
       Window(Leave(WithList(book, Append(book.list, [spot |-> spot, del |-> FALSE]))))

(* 'b': the spot of the panel is added at the end unless it is in the list, *)
(* whether or not it is marked there to be deleted.                        *)
AddBookmark ==
  /\ IsOpen
  /\ \E spot \in Spots \ UpSpots :
       LET b == book
           known == \E i \in DOMAIN b.list : b.list[i].spot = spot
       IN  Window(Leave(
                IF known THEN b
                ELSE WithList(b, Append(b.list, [spot |-> spot, del |-> FALSE]))))

(* Down and up.  With a cut bookmark under the cursor it changes places    *)
(* with its neighbour.  In an empty list the count less one is the largest *)
(* unsigned number, and the selection goes on for ever.                    *)
Exchange(l, i) == [l EXCEPT ![i] = l[i + 1], ![i + 1] = l[i]]

Downwards(b) ==
  LET i == Chosen0(b)
      moved == IF b.cut /\ i < Total(b) THEN WithList(b, Exchange(b.list, i)) ELSE b
  IN  IF b.select + 1 = b.first + maxY /\ b.first + maxY < Total(b)
      THEN ShownFrom(moved, b.first + 1, b.select + 1)
      ELSE IF b.select < Total(b) - 1 \/ (Total(b) = 0 /\ b.select < MaxSelect)
      THEN ShownFrom(moved, b.first, b.select + 1)
      ELSE moved

Upwards(b) ==
  LET i == Chosen0(b)
      moved == IF b.cut /\ i > 1 /\ i <= Total(b)
               THEN WithList(b, Exchange(b.list, i - 1)) ELSE b
  IN  IF b.select = 0 THEN moved
      ELSE ShownFrom(moved, IF b.first > 0 /\ b.select = b.first THEN b.first - 1 ELSE b.first,
                     b.select - 1)

(* An empty list has no next record to ask for while a bookmark is cut.    *)
DownBookmark ==
  /\ IsOpen
  /\ ~(book.cut /\ book.list = <<>>)
  /\ Window(Downwards(book))
UpBookmark ==
  /\ IsOpen
  /\ ~(book.cut /\ book.list = <<>>)
  /\ Window(Upwards(book))

(* 'd' and 'u' mark and go down.                                           *)
MarkDeleted ==
  /\ IsOpen /\ Valid(book)
  /\ \E del \in BOOLEAN :
       Window(Downwards(WithList(book, [book.list EXCEPT ![Chosen0(book)].del = del])))

(* Slip (not what the code does, used nowhere): one page too far.          *)
PagedTooFar(b) ==
  IF b.first + maxY <= Total(b)
  THEN ShownFrom(b, b.select, b.first + maxY - 1) ELSE b

PagedDown(b) ==
  IF b.first + maxY > Total(b) THEN b
  ELSE IF b.select + 1 = b.first + maxY
  THEN IF b.select + maxY < Total(b)
       THEN ShownFrom(b, b.select, b.select + maxY - 1)
       ELSE ShownFrom(b, Total(b) - maxY, Total(b) - 1)
  ELSE ShownFrom(b, b.first,
         IF b.select + maxY <= Total(b) THEN b.first + maxY - 1 ELSE Total(b) - 1)

PagedUp(b) ==
  IF b.select <= 1 THEN b
  ELSE IF b.first # b.select THEN ShownFrom(b, b.first, b.first)
  ELSE IF b.first - maxY < 1 THEN ShownFrom(b, 1, 1)
  ELSE ShownFrom(b, b.first - maxY + 1, b.first - maxY + 1)

PageDownBookmark == IsOpen /\ Window(PagedDown(book))
PageUpBookmark   == IsOpen /\ Window(PagedUp(book))

(* Enter: the panel goes to the bookmark.                                  *)
UseBookmark == IsOpen /\ Valid(book) /\ Window(Leave(book))

(* In an empty list Enter and the marks, and the cursor keys while one is  *)
(* cut, look into a bookmark that is not there: SIGSEGV.  Adding ".." of   *)
(* the left panel takes the length of a name that is NULL.                 *)
CrashBookmarks ==
  /\ \/ book.at = "crash"
     \/ IsOpen /\ (book.list = <<>> \/ UpSpots # {})
  /\ Window(Closed0)

(* RsaveBookmark: the file is unlinked, then written anew, but for what is *)
(* marked to be deleted.                                                   *)
Kept(l) == Keep([i \in DOMAIN l |-> l[i].spot], {i \in DOMAIN l : ~l[i].del})
InFile == {marksFile[i] : i \in DOMAIN marksFile}

UnlinkBookmarks ==
  /\ book.at = "unlink"
  /\ LET l == book.list
     IN  wanted' = (wanted \cup {l[i].spot : i \in DOMAIN l})
                     \ {l[i].spot : i \in {j \in DOMAIN l : l[j].del}}
  /\ marksFile' = <<>>
  /\ book' = [book EXCEPT !.at = "write"]
  /\ torn' = (torn \/ unread)
  /\ UNCHANGED <<maxY, grown, unread>>

(* Slip: the walk starts at the selected bookmark.                         *)
WriteFromSelected ==
  /\ book.at = "write"
  /\ LET l == book.list
     IN  marksFile' = Kept(SubSeq(l, Chosen0(book), Len(l)))
  /\ book' = Closed0
  /\ UNCHANGED <<maxY, grown, unread, wanted, torn>>

WriteBookmarks ==
  /\ book.at = "write"
  /\ marksFile' = Kept(book.list)
  /\ book' = Closed0
  /\ UNCHANGED <<maxY, grown, unread, wanted, torn>>

(* Only the first n are written: the file cannot be made (n = 0, and the   *)
(* window closes as ever), a write is short (exit; the part of a bookmark  *)
(* at the end of the file is none to its reader), or smbc is killed.       *)
WritePart ==
  /\ book.at = "write"
  /\ \E n \in 0..(Len(Kept(book.list)) - 1) : marksFile' = SubSeq(Kept(book.list), 1, n)
  /\ book' = Closed0
  /\ torn' = TRUE
  /\ UNCHANGED <<maxY, grown, unread, wanted>>

(* SIGTERM, SIGINT or SIGKILL before the file is removed; smbc may be      *)
(* started again.                                                          *)
KillSmbc ==
  /\ book.at \in {"open", "unlink"}
  /\ Window(Closed0)

BookmarksNext ==
  \/ OpenBookmarks \/ QuitBookmarks \/ Cut \/ AddBookmark
  \/ DownBookmark \/ UpBookmark \/ MarkDeleted
  \/ PageDownBookmark \/ PageUpBookmark \/ UseBookmark
  \/ ResizeBookmark \/ CrashBookmarks \/ UnlinkBookmarks \/ WriteBookmarks
  \/ WritePart \/ KillSmbc

----------------------------------------------------------------------------
BookmarksTypeOK ==
  /\ \A i, j \in DOMAIN marksFile : marksFile[i] = marksFile[j] => i = j
  /\ InFile \subseteq Spots \ UpSpots
  /\ book.at \in {"closed", "open", "crash", "unlink", "write"}
  /\ book.first \in Nat /\ book.select \in Nat /\ maxY \in BookRows
  /\ wanted \subseteq Spots /\ {grown, unread, torn} \subseteq BOOLEAN

(* RpaintList walks over as many bookmarks as the window has rows, without *)
(* looking for the end of the list: it never needs more than there are     *)
(* from the first one that is shown, whatever the keys and the other sizes *)
(* of the terminal do, unless the window was made higher while the list    *)
(* was scrolled.                                                           *)
PaintsInside ==
  book.at \in {"open", "crash"} /\ ~grown => LastPainted(book, maxY) <= Total(book)

(* The file has only bookmarks that were added and not deleted, each once. *)
(* It has all of them whenever it is not being written, whatever was moved *)
(* and however often smbc was killed, unless a file was once removed of    *)
(* which not all was written again: because it had not been opened when    *)
(* the window was, the new one could not be made, a write was short, or    *)
(* smbc was killed in between.                                             *)
BookmarksKept ==
  /\ InFile \subseteq wanted /\ Cardinality(InFile) = Len(marksFile)
  /\ ~torn /\ book.at # "write" => InFile = wanted
============================================================================
