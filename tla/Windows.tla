------------------------------ MODULE Windows ------------------------------
(***************************************************************************)
(* smbc has one keyboard and one screen: at each moment one of its windows *)
(* or helpers is at work and the others rest.  So their modules stand side *)
(* by side, each from every state it starts in, and `window` says which    *)
(* one is at work.                                                         *)
(***************************************************************************)
EXTENDS Bookmarks, FindWindow, LineEditor, Viewer, Mailbox, Dialogs, NewIndex,
        CopyKey, Commander, Wrappers, Accounts

VARIABLE window

RestAccount == CHOOSE a \in Account : TRUE

(* The windows at rest start in one state of theirs.                       *)
WindowsInit ==
  /\ window \in {"bookmarks", "find", "editor", "viewer", "mail", "dialogs",
                "index", "copy", "panels", "calls", "accounts"}
  /\ BookmarksInit /\ FindInit /\ EditorInit /\ ViewInit /\ MailInit
  /\ DialogInit /\ NewIndexInit /\ CopyInit /\ CommanderInit
  /\ WrapperInit /\ AccountInit
  /\ window = "editor" \/ buf = <<>>
  /\ window = "viewer" \/ text = <<>>
  /\ window = "copy" \/ levelNow = "files"
  /\ window = "calls" \/ room = MaxSpare
  /\ window = "accounts" \/ now = RestAccount

others == <<wrapperVars, accountVars>>
Bookmarks0 == window = "bookmarks" /\ BookmarksNext
  /\ UNCHANGED <<findVars, editorVars, viewVars, mailVars, dialogVars, newIndexVars, copyVars, vars, others, window>>
Find0 == window = "find" /\ FindSteps
  /\ UNCHANGED <<bookmarkVars, editorVars, viewVars, mailVars, dialogVars, newIndexVars, copyVars, vars, others, window>>
Editor0 == window = "editor" /\ EditorNext
  /\ UNCHANGED <<bookmarkVars, findVars, viewVars, mailVars, dialogVars, newIndexVars, copyVars, vars, others, window>>
Viewer0 == window = "viewer" /\ ViewNext
  /\ UNCHANGED <<bookmarkVars, findVars, editorVars, mailVars, dialogVars, newIndexVars, copyVars, vars, others, window>>
Mail0 == window = "mail" /\ MailNext
  /\ UNCHANGED <<bookmarkVars, findVars, editorVars, viewVars, dialogVars, newIndexVars, copyVars, vars, others, window>>
Dialogs0 == window = "dialogs" /\ DialogNext
  /\ UNCHANGED <<bookmarkVars, findVars, editorVars, viewVars, mailVars, newIndexVars, copyVars, vars, others, window>>
Index0 == window = "index" /\ NewIndexNext
  /\ UNCHANGED <<bookmarkVars, findVars, editorVars, viewVars, mailVars, dialogVars, copyVars, vars, others, window>>
Copy0 == window = "copy" /\ CopyNext
  /\ UNCHANGED <<bookmarkVars, findVars, editorVars, viewVars, mailVars, dialogVars, newIndexVars, vars, others, window>>
Panels0 == window = "panels" /\ CommanderNext
  /\ UNCHANGED <<bookmarkVars, findVars, editorVars, viewVars, mailVars, dialogVars, newIndexVars, copyVars, others, window>>

Calls0 == window = "calls" /\ WrapperNext
  /\ UNCHANGED <<bookmarkVars, findVars, editorVars, viewVars, mailVars, dialogVars, newIndexVars, copyVars, vars, accountVars, window>>
Accounts0 == window = "accounts" /\ AccountNext
  /\ UNCHANGED <<bookmarkVars, findVars, editorVars, viewVars, mailVars, dialogVars, newIndexVars, copyVars, vars, wrapperVars, window>>

WindowsNext == Bookmarks0 \/ Find0 \/ Editor0 \/ Viewer0 \/ Mail0 \/ Dialogs0
               \/ Index0 \/ Copy0 \/ Panels0 \/ Calls0 \/ Accounts0
windowVars == <<bookmarkVars, findVars, editorVars, viewVars, mailVars, dialogVars,
                newIndexVars, copyVars, vars, others, window>>
WindowsSpec == WindowsInit /\ [][WindowsNext]_windowVars

----------------------------------------------------------------------------
(* The type invariants of the windows.                                     *)
WindowsTypeOK ==
  /\ BookmarksTypeOK /\ FindTypeOK /\ EditorTypeOK /\ ViewTypeOK /\ MailTypeOK
  /\ DialogTypeOK /\ CopyTypeOK /\ TypeOK
  /\ WrapperTypeOK /\ AccountTypeOK
============================================================================
