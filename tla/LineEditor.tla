----------------------------- MODULE LineEditor -----------------------------
(***************************************************************************)
(* The line editor of the windows that ask for a text                      *)
(* (readlineOneCharNoDelay, readlineWaitForOneChar, refreshTxtInWinCursor):*)
(* a text in a buffer of SizeBuf bytes, shown in WinSize columns.          *)
(*                                                                         *)
(* Positions count from 0, as in the code; buf[i + 1] is the byte i of the *)
(* text.  A password is shown with one star for each letter; this is left  *)
(* out.                                                                    *)
(***************************************************************************)
EXTENDS Integers, Sequences, SequencesExt

CONSTANTS
  Letters,      \* what can be typed
  WinSize,      \* winSize, the columns of the field
  SizeBuf,      \* sizebuf, the bytes of the buffer
  StartTexts    \* what may be in the field when it is entered

(* The fields of the dialogs have tens of columns; with a single one, the  *)
(* key Right could move the text on without its cursor.                    *)
ASSUME EditorAssumption ==
  /\ WinSize \in Nat \ {0, 1} /\ SizeBuf \in Nat \ {0}
  /\ StartTexts \subseteq Seq(Letters) /\ \A t \in StartTexts : Len(t) < SizeBuf

VARIABLES
  buf,          \* the text
  startidx,     \* the first byte that is shown
  wxx,          \* the cursor
  screen,       \* the columns of the field
  ctrlp,        \* what Ctrl-P and Ctrl-K have set
  answered,     \* what is returned: 0 is go on, 1 Tab, 2 Enter
  behind        \* history: was the end of the text deleted behind the cursor?

editorVars == <<buf, startidx, wxx, screen, ctrlp, answered, behind>>

Letter(text, i) == IF i < Len(text) THEN text[i + 1] ELSE " "

(* refreshTxtInWinCursor: the text up to the cursor, the letter under it   *)
(* (a blank in the last column) and the rest, which leaves the last column *)
(* out if it is all there is.  Nothing is painted when the cursor is not   *)
(* in the text.                                                            *)
Painting(text, first, cursor) ==
  LET col == cursor - first
  IN  [k \in 0..WinSize - 1 |->
         IF k < col \/ (k = col /\ col < WinSize - 1) \/ (k > col /\ col < WinSize - 2)
         THEN Letter(text, first + k) ELSE " "]

InText(text, first, cursor) ==
  first <= Len(text) /\ cursor <= Len(text) /\ first <= cursor

EditorInit ==
  /\ buf \in StartTexts
  /\ startidx = 0 /\ wxx = 0
  /\ screen = Painting(buf, 0, 0)                             \* first
  /\ ctrlp = 0 /\ answered = 0
  /\ behind = FALSE

----------------------------------------------------------------------------
Editing == answered = 0

Edited(text, first, cursor) ==
  /\ Editing
  /\ buf' = text /\ startidx' = first /\ wxx' = cursor
  /\ screen' = IF InText(text, first, cursor)
                THEN Painting(text, first, cursor) ELSE screen
  /\ UNCHANGED <<ctrlp, answered>>

(* Both keys delete the last letter if the cursor is behind it, and the    *)
(* one under the cursor otherwise.                                         *)
Shorter ==
  IF wxx = Len(buf) THEN SubSeq(buf, 1, wxx - 1)
  ELSE IF wxx < Len(buf) THEN RemoveAt(buf, wxx + 1) ELSE buf

Backspace ==
  /\ buf # <<>> /\ wxx > 0
  /\ Edited(Shorter, IF startidx > 0 THEN startidx - 1 ELSE 0, wxx - 1)
  /\ UNCHANGED behind

(* Delete leaves the cursor where it was, also behind the end.             *)
Delete ==
  /\ buf # <<>>
  /\ Edited(Shorter, startidx, wxx)
  /\ behind' = (behind \/ wxx = Len(buf))

HomeKey == Edited(buf, 0, 0) /\ UNCHANGED behind

(* Slip: the cursor behind the text gets no column.                        *)
EndWithoutColumn ==
  /\ Edited(buf, IF Len(buf) < WinSize THEN 0 ELSE Len(buf) - WinSize, Len(buf))
  /\ UNCHANGED behind

EndKey ==
  /\ Edited(buf, IF Len(buf) < WinSize THEN 0 ELSE Len(buf) - WinSize + 1, Len(buf))
  /\ UNCHANGED behind

Left ==
  /\ IF startidx > 0 /\ startidx = wxx
     THEN Edited(buf, startidx - 1, wxx - 1)
     ELSE Edited(buf, startidx, IF wxx > 0 THEN wxx - 1 ELSE wxx)
  /\ UNCHANGED behind

(* In the last column the text is moved, and the cursor with it only if    *)
(* there is a letter.                                                      *)
Right ==
  /\ wxx < Len(buf)
  /\ IF startidx + WinSize <= Len(buf) /\ startidx + WinSize = wxx + 1
     THEN Edited(buf, startidx + 1, IF wxx + 1 < Len(buf) THEN wxx + 1 ELSE wxx)
     ELSE Edited(buf, startidx, wxx + 1)
  /\ UNCHANGED behind

(* A letter is inserted at the cursor; behind the end it is written after  *)
(* the end of the text, where it is not seen, and the cursor moves on, in  *)
(* the end out of the buffer.                                              *)
Type ==
  /\ Len(buf) + 1 < SizeBuf
  /\ wxx < SizeBuf                                              \* bound
  /\ \E c \in Letters :
       Edited(IF wxx <= Len(buf) THEN InsertAt(buf, wxx + 1, c) ELSE buf,
              IF startidx + WinSize = wxx + 1 THEN startidx + 1 ELSE startidx,
              wxx + 1)
  /\ UNCHANGED behind

(* Enter, Tab and Ctrl-K leave the field; Ctrl-P changes a flag.           *)
LeaveField ==
  /\ Editing
  /\ \/ answered' = 2 /\ UNCHANGED ctrlp
     \/ answered' = 1 /\ UNCHANGED ctrlp
     \/ answered' = 2 /\ ctrlp' = 2
  /\ UNCHANGED <<buf, startidx, wxx, screen, behind>>

CtrlP ==
  /\ Editing
  /\ ctrlp' = IF ctrlp = 0 THEN 1 ELSE 0
  /\ UNCHANGED <<buf, startidx, wxx, screen, answered, behind>>

EditorNext ==
  \/ Backspace \/ Delete \/ HomeKey \/ EndKey \/ Left \/ Right \/ Type
  \/ LeaveField \/ CtrlP

----------------------------------------------------------------------------
EditorTypeOK ==
  /\ buf \in Seq(Letters) /\ startidx \in Nat /\ wxx \in Nat
  /\ screen \in [0..WinSize - 1 -> Letters \cup {" "}]
  /\ ctrlp \in 0..2 /\ answered \in 0..2 /\ behind \in BOOLEAN

(* The cursor is in the text, in one of the columns of the field, and the  *)
(* text with its end fits into the buffer, unless the key Delete was used  *)
(* at the end of the text.                                                 *)
EditorInside ==
  /\ startidx <= wxx /\ wxx < startidx + WinSize
  /\ Len(buf) < SizeBuf
  /\ behind \/ wxx <= Len(buf)

(* Every column but the last shows its letter, whichever keys moved the    *)
(* text in the field, while the cursor is in the text.                     *)
EditorPaints ==
  wxx <= Len(buf) =>
    \A k \in 0..WinSize - 2 :
      screen[k] = IF startidx + k < Len(buf) THEN buf[startidx + k + 1] ELSE " "

(* Both, whatever keys are used in whatever order: what is edited stays    *)
(* in the buffer and in the field, and is what the field shows.            *)
EditorShows == EditorInside /\ EditorPaints
============================================================================
