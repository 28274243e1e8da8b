------------------------------ MODULE Dialogs ------------------------------
(***************************************************************************)
(* The windows that smbc opens over its panels, one above the other:       *)
(* the dialogs of RshowMessage, which the keys, the transfer engine and    *)
(* the handler of SIGALRM show, and the windows with a field and buttons.  *)
(* Three things are shared by all of them without being restored: the      *)
(* window RactiveWindow, whose delay RtryDownloadUpload sets, the flag     *)
(* RdontResizeWindow, and the alarm.                                       *)
(*                                                                         *)
(* What is written in a window, and how the delay of a retry is edited     *)
(* (DownloadUpload has it), is left out.                                   *)
(***************************************************************************)
EXTENDS Integers, Sequences, SequencesExt, FiniteSets

CONSTANT MaxDepth   \* bound: windows one above the other

ASSUME DialogAssumption == MaxDepth \in Nat \ {0}

VARIABLES
  stack,        \* the open windows; the last one reads the keys
  active,       \* RactiveWindow: its place in stack, Main or Deleted
  dontResize,   \* RdontResizeWindow
  doResize,     \* RdoResize
  alarm,        \* whether SIGALRM will come
  transfers,    \* whether there is a download/upload list
  loop,         \* main: before a key, after it, or ended
  event         \* history: what the last step did that the properties are
                \* about

dialogVars == <<stack, active, dontResize, doResize, alarm, transfers, loop,
                event>>

Nothing == [what |-> "nothing"]
Main == 0
Deleted == -1

Engines   == {"broken", "different", "full"}                  \* from RdownloadUpload
Questions == {"delete", "quit", "copy"}
Infos     == {"info", "help", "notice", "mail"}
Messages  == Engines \cup Questions \cup Infos   \* RshowMessage
Forms     == {"goto", "mkdir", "popup"}
Windows   == {"bookmarks", "findnet"}
Silent    == {"goto", "findnet"}                 \* alarm(0)

(* Who calls RtryDownloadUpload while it waits, and who sets RactiveWindow.*)
Trying  == {"help", "notice", "delete", "quit"} \cup Forms \cup Windows
Setting == Trying

(* The first choice: "cancel" in the question about a delete, "ok" in the  *)
(* others, and in a dialog of the engine to go on or what is on the right. *)
FirstChoice(kind) ==
  CASE kind = "delete" -> 0
    [] kind \in {"quit", "copy"} -> 1
    [] kind = "full" -> 3
    [] OTHER -> 0

Frame(kind, for) == [kind |-> kind, for |-> for, choice |-> FirstChoice(kind),
                     pressed |-> {}, shaded |-> FALSE, busy |-> FALSE]

Top   == Last(stack)
Depth == Len(stack)
Reads(kinds) == stack # <<>> /\ Top.kind \in kinds

DialogInit ==
  /\ stack = <<>> /\ active = Main
  /\ dontResize = FALSE /\ doResize = FALSE
  /\ alarm = TRUE /\ transfers = FALSE /\ loop = "key"
  /\ event = Nothing

----------------------------------------------------------------------------
(* A window opens: the dialogs raise the flag.                             *)
Push(kind, for) ==
  /\ Depth < MaxDepth
  /\ stack' = Append(stack, Frame(kind, for))
  /\ active' = IF kind \in Setting THEN Depth + 1 ELSE active
  /\ dontResize' = (kind \in Messages \/ dontResize)
  /\ alarm' = (alarm /\ kind \notin Silent \cup Engines \cup {"mail", "quit"})

(* It is closed: the dialogs lower the flag, also for the dialog they were *)
(* shown over.  The handler of SIGALRM, the engine and who had switched    *)
(* the alarm off set it again.                                             *)
Pop(yes) ==
  LET below == Front(stack)
  IN  /\ stack' = IF below = <<>> \/ Top.kind \notin Messages THEN below
                  ELSE [below EXCEPT ![Depth - 1].shaded = TRUE,
                                     ![Depth - 1].busy = @ \/ Top.kind \in Engines]
      /\ active' = IF active = Depth THEN Deleted ELSE active
      /\ dontResize' = (dontResize /\ Top.kind \notin Messages)
      /\ alarm' = (alarm \/ Top.kind \in Silent \cup Engines \cup {"mail"})
      /\ loop' = IF Top.for = "quit" /\ yes THEN "ended"
                  ELSE IF Depth = 1 /\ Top.kind # "mail" THEN "after" ELSE loop

(* A key of the main loop sets RactiveWindow and the alarm.                *)
OpenFromMain(kind) ==
  /\ stack = <<>> /\ loop = "key"
  /\ stack' = <<Frame(kind, kind)>>
  /\ active' = IF kind \in Setting THEN 1 ELSE Main
  /\ dontResize' = (kind \in Messages)
  /\ alarm' = (kind \notin Silent \cup {"quit"})
  /\ UNCHANGED <<doResize, transfers, loop>> /\ event' = Nothing

(* INFO_X over the bookmarks, INFO_INDEX_IS_EMPTY over the find window,    *)
(* the help and the other notices over nothing.                            *)
OpenNotice ==
  /\ Reads(Windows)
  /\ Push("notice", "notice")
  /\ UNCHANGED <<doResize, transfers, loop>> /\ event' = Nothing

----------------------------------------------------------------------------
(* RtryDownloadUpload.  It ends in nodelay(RactiveWindow, ...).            *)
Use == event' = IF active' = Deleted
                THEN [what |-> "dangling", in |-> IF stack = <<>> THEN "main"
                                                  ELSE Top.kind]
                ELSE Nothing

(* A pass of the engine sets the alarm, whoever switched it off.           *)
TryInWindow ==
  /\ Reads(Trying)
  /\ alarm' = (alarm \/ transfers)
  /\ stack' = [stack EXCEPT ![Depth].busy = @ \/ transfers]
  /\ UNCHANGED active
  /\ Use
  /\ UNCHANGED <<dontResize, doResize, transfers, loop>>

EngineAsks ==
  /\ transfers
  /\ Reads(Trying) \/ (stack = <<>> /\ loop = "after")
  /\ \E kind \in Engines : Push(kind, kind)
  /\ UNCHANGED <<doResize, transfers, loop>> /\ event' = Nothing

TransfersEnd ==
  /\ transfers
  /\ transfers' = FALSE
  /\ UNCHANGED <<stack, active, dontResize, doResize, alarm, loop>> /\ event' = Nothing

(* The end of a pass of main: RdoWindowResize, which does not ask for the  *)
(* flag, and RtryDownloadUpload.                                           *)
AfterKey ==
  /\ stack = <<>> /\ loop = "after"
  /\ loop' = "key"
  /\ doResize' = FALSE
  /\ active' = IF doResize THEN Main ELSE active
  /\ alarm' = (alarm \/ transfers)
  /\ Use
  /\ UNCHANGED <<stack, dontResize, transfers>>

----------------------------------------------------------------------------
(* Keys of the window on top.                                              *)

Pressed(key) == IF Top.for = "delete" THEN Top.pressed \cup {key} ELSE {}

Chosen1(choice) ==
  /\ stack' = [stack EXCEPT ![Depth].choice = choice,
                           ![Depth].pressed = Pressed("choose")]
  /\ UNCHANGED <<active, dontResize, doResize, alarm, transfers, loop>>
  /\ event' = Nothing

(* Left, right and Tab choose the next of the two or more buttons, the     *)
(* last one being followed by the first.                                   *)
Toggle(kind)        == Reads({kind}) /\ Chosen1(1 - Top.choice)
Cycle(kind, buttons) ==
  Reads({kind}) /\ \E step \in {1, -1} : Chosen1((Top.choice + step) % buttons)

ChooseDelete    == Toggle("delete")
ChooseQuit      == Toggle("quit")
ChooseCopy      == Toggle("copy")
ChooseDifferent == Cycle("different", 6)
ChooseBroken    == Cycle("broken", 6)
ChooseFull      == Cycle("full", 5)

(* Enter gives the answer to who asked.  A copy makes the list longer, and *)
(* main sets RactiveWindow after it.                                       *)
Answer(yes) ==
  /\ Pop(yes)
  /\ event' = IF Top.for = "delete" /\ yes
              THEN [what |-> "deleted", pressed |-> Top.pressed] ELSE Nothing
  /\ UNCHANGED doResize

AnswerQuestion ==
  /\ Reads({"delete"} \cup {"quit"})
  /\ Answer(Top.choice = 1)
  /\ UNCHANGED transfers

AnswerCopy ==
  /\ Reads({"copy"})
  /\ IF Top.choice = 0 THEN Answer(FALSE) /\ UNCHANGED transfers
     ELSE /\ transfers' = TRUE
          /\ stack' = <<>> /\ active' = Main /\ dontResize' = FALSE /\ loop' = "after"
          /\ UNCHANGED <<alarm, doResize>> /\ event' = Nothing

AnswerEngine ==
  /\ Reads(Engines)
  /\ Pop(FALSE)
  /\ UNCHANGED <<doResize, transfers>> /\ event' = Nothing

(* Enter after a text.  (The list of what can be told is longer: where one *)
(* cannot enter, what is empty and what is not permitted are "info".)      *)
Acknowledge(kind) == Reads({kind}) /\ Answer(FALSE) /\ UNCHANGED transfers

PressEnter        == Acknowledge("info")
AcknowledgeHelp   == Acknowledge("help")
AcknowledgeNotice == Acknowledge("notice")
AcknowledgeMail   == Acknowledge("mail")

(* The key 0 ends the loop that waits for a key: the program ends without  *)
(* a question, the question about a delete goes on as the question whether *)
(* to quit, that one as a message that access was denied, and the others   *)
(* are answered with 0.                                                    *)
LeaveMain ==
  /\ stack = <<>> /\ loop = "key"
  /\ loop' = "ended"
  /\ UNCHANGED <<stack, active, dontResize, doResize, alarm, transfers>> /\ event' = Nothing

FallThrough ==
  /\ Reads({"delete", "quit"})
  /\ stack' = [stack EXCEPT ![Depth] =
       [@ EXCEPT !.kind = IF Top.kind = "delete" THEN "quit" ELSE "info",
                 !.choice = 1, !.pressed = Pressed("zero")]]
  /\ active' = IF Top.kind = "delete" THEN Depth ELSE active
  /\ UNCHANGED <<dontResize, doResize, alarm, transfers, loop>> /\ event' = Nothing

BreakOff ==
  /\ Reads(Engines \cup {"copy"})
  /\ Answer(FALSE)
  /\ UNCHANGED transfers

(* The forms (RsetManualyLocation, RcreateDir, RsendWinpopupInput): first  *)
(* the fields, one after the other with Enter or Tab, then the buttons,    *)
(* from which Tab leads back.  Rrol is 3, 2 ("ok") or 1 ("cancel"); here   *)
(* choice is 3 - Rrol.                                                     *)
FormKey ==
  /\ Reads(Forms)
  /\ stack' = [stack EXCEPT ![Depth].choice = (@ + 1) % 3]
  /\ UNCHANGED <<active, dontResize, doResize, alarm, transfers, loop>> /\ event' = Nothing

CloseForm ==
  /\ \/ Reads(Forms) /\ Top.choice > 0
     \/ Reads(Windows)
  /\ Answer(FALSE)
  /\ UNCHANGED transfers

----------------------------------------------------------------------------
(* RresizeHandler, and RsigAlarm, which is not interrupted by itself: it   *)
(* paints the panels if no dialog says no (RdoWindowResize) and shows the  *)
(* mail.                                                                   *)
Sigwinch ==
  /\ loop # "ended" /\ ~doResize /\ doResize' = TRUE
  /\ UNCHANGED <<stack, active, dontResize, alarm, transfers, loop>> /\ event' = Nothing

Handling == \E i \in DOMAIN stack : stack[i].kind = "mail"

(* Slip: SIGALRM does not ask for the flag.                                *)
ResizeAnyway ==
  /\ doResize
  /\ event' = IF stack = <<>> THEN Nothing ELSE [what |-> "painted", over |-> Top]

ResizeNow ==
  /\ doResize /\ ~dontResize
  /\ event' = IF stack = <<>> THEN Nothing ELSE [what |-> "painted", over |-> Top]

SigAlarm ==
  /\ loop # "ended" /\ alarm /\ ~Handling
  /\ \/ ResizeNow /\ doResize' = FALSE /\ active' = Main
        /\ UNCHANGED <<stack, dontResize, alarm>>
     \/ Push("mail", "mail") /\ event' = Nothing /\ UNCHANGED doResize
  /\ UNCHANGED <<transfers, loop>>

DialogNext ==
  \/ \E kind \in {"help", "info"} \cup Questions \cup Forms \cup Windows :
       OpenFromMain(kind)
  \/ OpenNotice \/ TryInWindow \/ EngineAsks \/ TransfersEnd \/ AfterKey
  \/ ChooseDelete \/ ChooseQuit \/ ChooseCopy
  \/ ChooseDifferent \/ ChooseBroken \/ ChooseFull \/ AnswerQuestion \/ AnswerCopy \/ AnswerEngine
  \/ PressEnter \/ AcknowledgeHelp \/ AcknowledgeNotice \/ AcknowledgeMail
  \/ LeaveMain \/ FallThrough \/ BreakOff \/ FormKey \/ CloseForm
  \/ Sigwinch \/ SigAlarm

----------------------------------------------------------------------------
DialogTypeOK ==
  /\ \A i \in DOMAIN stack : /\ stack[i].kind \in Messages \cup Forms \cup Windows
                             /\ stack[i].choice \in 0..5
  /\ active \in Deleted..MaxDepth
  /\ {dontResize, doResize, alarm, transfers} \subseteq BOOLEAN
  /\ loop \in {"key", "after", "ended"}

(* Nothing is deleted by Enter alone: a choice was made, or the key 0 has  *)
(* led to another question.                                                *)
AskedBefore == event.what = "deleted" => event.pressed # {}

(* The panels are painted over a dialog only if another dialog was shown   *)
(* over it; over a window that switched the alarm off only if the engine   *)
(* ran meanwhile.                                                          *)
NoResizeBelow ==
  event.what = "painted" =>
    /\ event.over.kind \in Messages => event.over.shaded
    /\ event.over.kind \in Silent => event.over.shaded \/ event.over.busy

(* RtryDownloadUpload uses a window that is deleted only in main after a   *)
(* window was closed, and in the two windows that show a notice.           *)
ActiveIsOpen == event.what = "dangling" => event.in \in {"main"} \cup Windows

(* The windows share the flag, the alarm and RactiveWindow without harm    *)
(* but for the cases named above, whatever the engine and the handler show *)
(* over them, and no answer is given that nobody chose.                    *)
DialogsHold == AskedBefore /\ NoResizeBelow /\ ActiveIsOpen
============================================================================
