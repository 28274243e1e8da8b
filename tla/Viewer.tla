------------------------------- MODULE Viewer -------------------------------
(***************************************************************************)
(* The viewer of a file (RviewFile): a position in the file, and a window  *)
(* of Rty lines of Rtx columns that is read again after every key.  A file *)
(* is a sequence of bytes; the viewer tells only the end of a line and the *)
(* zero byte from the others.  A remote file is read the same way.         *)
(***************************************************************************)
EXTENDS Integers, Sequences, SequencesExt

CONSTANTS
  Texts,        \* files to view: sequences of "letter", "newline", "zero"
  Rtx, Rty,     \* columns and lines of the window
  Garbage       \* what may follow the page in memory up to the next zero byte

ASSUME ViewAssumption ==
  /\ Rtx \in Nat \ {0} /\ Rty \in Nat \ {0}
  /\ Texts \subseteq Seq({"letter", "newline", "zero"})
  /\ Garbage \subseteq Seq({"letter", "newline"})

VARIABLES
  text,         \* the file
  Rseek,        \* the position of the page in the file
  filepos,      \* the position of the next read
  byte,         \* Rbuf[0]
  layout,       \* RfirstLineLen and RPageLen
  RwrapView,
  viewing,
  unsteady      \* history: was Up used at position 1, or were lines passed
                \* whose end was not in the page?

viewVars == <<text, Rseek, filepos, byte, layout, RwrapView, viewing, unsteady>>

Rsize  == Len(text)
RwSize == Rtx * Rty

----------------------------------------------------------------------------
(* A seek to a negative position fails and leaves the position alone.      *)
Sought(at, pos) == IF pos < 0 THEN at ELSE pos
ReadByte(at, old) == IF at < Rsize THEN text[at + 1] ELSE old

(* What the page holds: at most RwSize bytes, without an end of its own if *)
(* there are so many, up to the first zero byte.                           *)
UpToZero(bytes) ==
  LET zeros == {i \in DOMAIN bytes : bytes[i] = "zero"}
  IN  IF zeros = {} THEN bytes
      ELSE SubSeq(bytes, 1, (CHOOSE i \in zeros : \A j \in zeros : i <= j) - 1)
PageEnd(at) ==
  IF at >= Rsize THEN at ELSE IF at + RwSize < Rsize THEN at + RwSize ELSE Rsize
Page(at, garbage) ==
  LET got == [i \in 1..PageEnd(at) - at |-> text[at + i]]
  IN  UpToZero(IF Len(got) = RwSize THEN got \o garbage ELSE got)

(* The loop of RreadAndPaint over the page: the column, the line, the      *)
(* length of the first line and the bytes that are in the window.  Without *)
(* wrapping the length of the first line is only set at its end.           *)
PaintByte(wrap, p, b) ==
  LET turn == wrap /\ p.x = Rtx
      y    == IF turn THEN p.y + 1 ELSE p.y
      x    == IF turn THEN 0 ELSE p.x
      first == IF p.y = 0 /\ (wrap \/ b = "newline")
               THEN IF turn THEN p.x ELSE p.x + 1
               ELSE p.first
  IN  [x |-> IF b = "newline" THEN 0 ELSE x + 1,
       y |-> IF b = "newline" THEN y + 1 ELSE y,
       first |-> first,
       page |-> IF y < Rty THEN p.page + 1 ELSE p.page]

PagePainted(wrap, first, bytes) ==
  LET upto[i \in 0..Len(bytes)] ==
        IF i = 0 THEN [x |-> 0, y |-> 0, first |-> first, page |-> 0]
        ELSE PaintByte(wrap, upto[i - 1], bytes[i])
  IN  upto
Layout(wrap, first, bytes) ==
  LET end == PagePainted(wrap, first, bytes)[Len(bytes)]
  IN  [first |-> end.first, page |-> end.page]

(* RreadAndPaint, from a file position that earlier reads have left.       *)
ReadAndPaint(seek, at, wrap) ==
  \E g \in Garbage :
    LET from == Sought(at, seek)
        page == Page(from, g)
    IN  /\ layout' = Layout(wrap, layout.first, page)
        /\ filepos' = PageEnd(from)
        /\ byte' = IF from < Rsize THEN text[from + 1] ELSE "zero"
        /\ Rseek' = seek

ViewInit ==
  /\ text \in Texts
  /\ Rseek = 0
  /\ filepos = PageEnd(0)
  /\ byte = (IF Rsize = 0 THEN "zero" ELSE text[1])
  /\ \E g \in Garbage : layout = Layout(FALSE, 0, Page(0, g))
  /\ RwrapView = FALSE
  /\ viewing = TRUE
  /\ unsteady = FALSE

----------------------------------------------------------------------------
ViewKey(seek, at) ==
  /\ viewing
  /\ ReadAndPaint(seek, at, RwrapView)
  /\ UNCHANGED <<text, RwrapView, viewing>>

Wrap ==
  /\ viewing
  /\ RwrapView' = ~RwrapView
  /\ ReadAndPaint(Rseek, filepos, RwrapView')
  /\ UNCHANGED <<text, viewing, unsteady>>

(* One line down: by the length of the first line of the last page that    *)
(* had one.                                                                *)
LineEnds ==
  LET page == Page(Sought(filepos, Rseek), <<>>)
  IN  IF RwrapView THEN page # <<>> ELSE "newline" \in ToSet(page)
LineDown ==
  /\ ViewKey(IF Rseek < Rsize THEN Rseek + layout.first ELSE Rseek, filepos)
  /\ unsteady' = (unsteady \/ (Rseek < Rsize /\ ~LineEnds))

(* The loop of Up: back over the end of the line above, to the one before  *)
(* it or the beginning or as far as a line is wide.  Each turn reads one   *)
(* byte.                                                                   *)
LineTurn(s) ==
  LET down == s.seek - 1
      tmp  == IF Rseek - down = 1 THEN down - 1 ELSE down
      from == Sought(s.at, tmp)
      b    == ReadByte(from, s.byte)
      to   == IF b = "newline" THEN tmp + 1 ELSE tmp
  IN  [seek |-> to, byte |-> b, at |-> IF from < Rsize THEN from + 1 ELSE from,
       over |-> tmp <= 0 \/ b = "newline" \/ Rseek - to > Rtx]
LineTurns ==
  LET turn[n \in 0..Rseek] ==
        IF n = 0 THEN [seek |-> Rseek, byte |-> byte, at |-> filepos, over |-> FALSE]
        ELSE IF turn[n - 1].over THEN turn[n - 1] ELSE LineTurn(turn[n - 1])
  IN  turn

(* At position 1 it goes to -1, where nothing can be read.                 *)
LineUp ==
  /\ LET end == IF Rseek > 0 THEN LineTurns[Rseek] ELSE [seek |-> Rseek, at |-> filepos]
     IN  ViewKey(end.seek, end.at)
  /\ unsteady' = (unsteady \/ Rseek = 1)

(* Slip (not what the code does, used nowhere): the page is not compared   *)
(* with what is left of the file.                                          *)
PageDownAnyway ==
  /\ ViewKey(IF Rseek < Rsize THEN Rseek + layout.page + 1 ELSE Rseek, filepos)
  /\ UNCHANGED unsteady

PageDownKey ==
  /\ ViewKey(IF Rseek < Rsize /\ Rseek + layout.page < Rsize
             THEN Rseek + layout.page ELSE Rseek, filepos)
  /\ UNCHANGED unsteady

(* The loop of PageUp: back over Rty ends of lines, a line being at most   *)
(* Rtx wide.                                                               *)
PageTurn(s) ==
  LET tmp  == s.seek - 1
      b    == ReadByte(tmp, s.byte)
      ends == b = "newline" \/ s.x >= Rtx
      y    == IF ends THEN s.y + 1 ELSE s.y
  IN  [seek |-> tmp, x |-> IF ends THEN 1 ELSE s.x + 1, y |-> y, byte |-> b,
       over |-> tmp <= 0 \/ y >= Rty]
PageTurns ==
  LET turn[n \in 0..Rseek] ==
        IF n = 0 THEN [seek |-> Rseek, x |-> 0, y |-> 0, byte |-> byte, over |-> FALSE]
        ELSE IF turn[n - 1].over THEN turn[n - 1] ELSE PageTurn(turn[n - 1])
  IN  turn

PageUpKey ==
  /\ LET to == IF Rseek > 0 THEN PageTurns[Rseek].seek ELSE Rseek
     IN  ViewKey(to, IF Rseek > 0 /\ to < Rsize THEN to + 1 ELSE filepos)
  /\ UNCHANGED unsteady

CloseView ==
  /\ viewing
  /\ viewing' = FALSE
  /\ UNCHANGED <<text, Rseek, filepos, byte, layout, RwrapView, unsteady>>

ViewNext ==
  \/ Wrap \/ LineDown \/ LineUp \/ PageDownKey \/ PageUpKey \/ CloseView

----------------------------------------------------------------------------
ViewTypeOK ==
  /\ text \in Texts /\ Rseek \in Int /\ filepos \in Nat
  /\ byte \in {"letter", "newline", "zero"}
  /\ layout.first \in Nat /\ layout.page \in Nat
  /\ RwrapView \in BOOLEAN /\ viewing \in BOOLEAN /\ unsteady \in BOOLEAN

(* The page begins in the file or at its end, and on a page that is not    *)
(* empty something of the file is left to see, whatever the order of the   *)
(* keys; except after Up at position 1 and after lines longer than the     *)
(* page.                                                                   *)
ViewInside == unsteady \/ Rseek \in 0..Rsize
============================================================================
